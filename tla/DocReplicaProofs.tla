-------------------------- MODULE DocReplicaProofs --------------------------
(***************************************************************************)
(* The document server and its clients, for every set of connections and   *)
(* users, every seeded document, every threshold and every bound.  That a  *)
(* client waits for one answer, that an edit does what its author meant    *)
(* and that carets stay where they are need no condition.  That an editor  *)
(* keeps its document, and that replicas converge, hold where no send      *)
(* suspends a handler and no two connections are one user's (and no client *)
(* leaves with a request unanswered): elsewhere DocServer violates them.   *)
(***************************************************************************)
EXTENDS DocServerProofs

-----------------------------------------------------------------------------
(* A client waits for one answer.                                          *)

\* The instruction answers the request of the handler's own client; and what
\* is broadcast is no answer.
Answers(i) == i.do = "reply" /\ i.msg # Note
Public(i) == i.do = "broadcast" => i.msg.type \notin {"ack", "error"}

\* A handler answers first, and once.
Orderly ==
  \A c \in Conns : \A k \in DOMAIN todo[c] : Public(todo[c][k]) /\ (Answers(todo[c][k]) => k = 1)

\* Nothing in the script s answers.
Silent(s) == s \in Seq(Instructions) /\ \A k \in DOMAIN s : Public(s[k]) /\ ~ Answers(s[k])

\* Scripts without an answer, one after the other.
LEMMA SilentParts ==
  ASSUME NEW s, NEW t, Silent(s), Silent(t)
  PROVE  Silent(s \o t)
<1> DEFINE I == Instructions
<1>1. s \in Seq(I) /\ t \in Seq(I)
  BY DEF Silent
<1> HIDE DEF I
<1>2. s \o t \in Seq(I)
  BY <1>1
<1>3. ASSUME NEW k \in DOMAIN (s \o t)
      PROVE  (\E j \in DOMAIN s : (s \o t)[k] = s[j]) \/ (\E j \in DOMAIN t : (s \o t)[k] = t[j])
  <2>1. /\ DOMAIN (s \o t) = 1 .. Len(s) + Len(t) /\ Len(s) \in Nat /\ Len(t) \in Nat
        /\ DOMAIN s = 1 .. Len(s) /\ DOMAIN t = 1 .. Len(t)
    BY <1>1
  <2>2. CASE k <= Len(s)
    <3>1. k \in DOMAIN s /\ (s \o t)[k] = s[k]
      BY <1>1, <2>1, <2>2
    <3> QED BY <3>1
  <2>3. CASE ~ (k <= Len(s))
    <3>1. k - Len(s) \in DOMAIN t /\ (s \o t)[k] = t[k - Len(s)]
      BY <1>1, <2>1, <2>3
    <3> QED BY <3>1
  <2> QED BY <2>2, <2>3
<1> QED BY <1>2, <1>3 DEF Silent, I

\* The short scripts that answer nothing.
LEMMA SilentScripts ==
  /\ Silent(<< >>)
  /\ \A x \in Instructions : Public(x) /\ ~ Answers(x) => Silent(<< x >>)
<1>1. Silent(<< >>)
  <2>1. << >> \in Seq(Instructions) /\ DOMAIN << >> = {}
    OBVIOUS
  <2> QED BY <2>1 DEF Silent
<1>2. ASSUME NEW x \in Instructions, Public(x), ~ Answers(x) PROVE Silent(<< x >>)
  <2>1. << x >> \in Seq(Instructions)
    <3> HIDE DEF Instructions
    <3> QED OBVIOUS
  <2> QED BY <1>2, <2>1 DEF Silent
<1> QED BY <1>1, <1>2

\* Most instructions answer nothing.
LEMMA SilentAre ==
  /\ Public(Reply(Note)) /\ ~ Answers(Reply(Note))
  /\ Public(TellAll) /\ ~ Answers(TellAll) /\ Public(Unload) /\ ~ Answers(Unload)
  /\ Public(AutoSnapshot) /\ ~ Answers(AutoSnapshot)
  /\ \A u : Public(TellOthers(u)) /\ ~ Answers(TellOthers(u))
  /\ \A op : Public(SendOp(op)) /\ ~ Answers(SendOp(op))
  /\ \A m : Public(Reply(m))
  /\ \A to, m : ~ Answers(Broadcast(to, m)) /\ (m.type \notin {"ack", "error"} => Public(Broadcast(to, m)))
BY DEF Public, Answers, Reply, TellAll, Unload, AutoSnapshot, TellOthers, SendOp, Broadcast

\* A broadcast of anything but an answer.
LEMMA SilentBroadcast ==
  ASSUME NEW to \in SUBSET Conns, NEW m \in Messages \cup {Note}, m.type \notin {"ack", "error"}
  PROVE  Silent(BroadcastTo(to, m))
<1>1. Broadcast(to, m) \in Instructions
  BY InstructionsAre
<1> QED BY <1>1, SilentAre, SilentScripts DEF BroadcastTo

\* What is left of a script has answered already.
LEMMA SilentRest ==
  ASSUME Types, Orderly, NEW c \in Conns, todo[c] # << >>
  PROVE  Silent(Rest(c))
<1> DEFINE I == Instructions  s == todo[c]
<1>1. s \in Seq(I) /\ s # << >>
  BY DEF Types, QueueTypes
<1>2. \A k \in DOMAIN s : Public(s[k]) /\ (Answers(s[k]) => k = 1)
  BY DEF Orderly
<1> HIDE DEF I, s
<1>3. Tail(s) \in Seq(I)
  BY <1>1
<1>4. ASSUME NEW k \in DOMAIN Tail(s) PROVE k + 1 \in DOMAIN s /\ Tail(s)[k] = s[k + 1] /\ k + 1 # 1
  BY <1>1, <1>4
<1> QED BY <1>2, <1>3, <1>4 DEF Silent, Rest, s, I

\* The first of what the handler of an edit does is its answer.
LEMMA EditAnswers ==
  ASSUME NEW ops \in Seq(Made), NEW n \in Nat
  PROVE  LET s == << Reply(Ack(ops, n)) >> \o [k \in DOMAIN ops |-> SendOp(ops[k])] \o << AutoSnapshot >>
         IN  \A k \in DOMAIN s : Public(s[k]) /\ (Answers(s[k]) => k = 1)
<1> DEFINE I == Instructions  x == Reply(Ack(ops, n))  y == AutoSnapshot  f == [k \in DOMAIN ops |-> SendOp(ops[k])]
           s == << x >> \o f \o << y >>
<1>1. x \in I /\ y \in I /\ Public(x) /\ Public(y) /\ ~ Answers(y)
  BY InstructionsAre, MessagesAre, SilentAre
<1> DEFINE l == Len(ops)
<1>2. l \in Nat /\ DOMAIN ops = 1 .. l /\ \A k \in 1 .. l : ops[k] \in Made
  <2> HIDE DEF Made
  <2> QED OBVIOUS
<1>3. f \in Seq(I) /\ Len(f) = l /\ \A k \in 1 .. l : Public(f[k]) /\ ~ Answers(f[k])
  <2>1. \A k \in 1 .. l : SendOp(ops[k]) \in I
    BY <1>2, InstructionsAre
  <2>2. f = [k \in 1 .. l |-> f[k]] /\ \A k \in 1 .. l : f[k] = SendOp(ops[k]) /\ f[k] \in I
    BY <1>2, <2>1
  <2> HIDE DEF f, I, l
  <2>3. f \in Seq(I) /\ Len(f) = l
    BY <1>2, <2>2
  <2> QED BY <2>2, <2>3, SilentAre
<1> HIDE DEF f, I, l, x, y
<1>4. DOMAIN s = 1 .. l + 2 /\ s[1] = x /\ s[l + 2] = y /\ \A k \in 2 .. l + 1 : s[k] = f[k - 1]
  BY <1>1, <1>2, <1>3
<1> HIDE DEF s
<1>5. ASSUME NEW k \in DOMAIN s PROVE Public(s[k]) /\ (Answers(s[k]) => k = 1)
  <2>1. k = 1 \/ k = l + 2 \/ (k \in 2 .. l + 1 /\ k - 1 \in 1 .. l)
    BY <1>2, <1>4, <1>5
  <2> QED BY <1>1, <1>3, <1>4, <2>1
<1> QED BY <1>5 DEF s, x, y, f

\* Only the handlers of a join and of an edit answer.
LEMMA WhoAnswers ==
  ASSUME Types, Orderly, NEW c \in Conns, Handle(c) \/ (Step(c) /\ ~ CheckUnload(c))
  PROVE  \E s \in Seq(Instructions) :
           /\ todo' = [todo EXCEPT ![c] = s]
           /\ Silent(s) \/ HandleJoin(c) \/ HandleEdit(c)
           /\ \A k \in DOMAIN s : Public(s[k]) /\ (Answers(s[k]) => k = 1)
<1> DEFINE Goal == \E s \in Seq(Instructions) :
                     /\ todo' = [todo EXCEPT ![c] = s]
                     /\ Silent(s) \/ HandleJoin(c) \/ HandleEdit(c)
                     /\ \A k \in DOMAIN s : Public(s[k]) /\ (Answers(s[k]) => k = 1)
<1> SUFFICES Goal
  OBVIOUS
<1>1. ASSUME NEW s, todo' = [todo EXCEPT ![c] = s], Silent(s) PROVE Goal
  BY <1>1 DEF Silent
<1>2. ASSUME NEW s \in Seq(Instructions), todo' = [todo EXCEPT ![c] = s], HandleJoin(c) \/ HandleEdit(c),
             \A k \in DOMAIN s : Public(s[k]) /\ (Answers(s[k]) => k = 1)
      PROVE  Goal
  BY <1>2
<1> HIDE DEF Goal
<1>3. Silent(<< Reply(Note) >>) /\ (\A u \in Users : Silent(<< TellOthers(u) >>)) /\ Silent(<< TellAll >>) /\ Silent(<< Unload >>)
  BY InstructionsAre, MessagesAre, SilentAre, SilentScripts
<1>4. ASSUME HandleJoin(c) \/ HandleEdit(c), NEW m, m \in Messages, Runs(c, << Reply(m) >>) PROVE Goal
  <2> DEFINE x == Reply(m)  s == << x >>
  <2>1. x \in Instructions /\ Public(x)
    BY <1>4, InstructionsAre, SilentAre
  <2> HIDE DEF x
  <2>2. s \in Seq(Instructions) /\ DOMAIN s = {1} /\ s[1] = x
    <3> HIDE DEF Instructions
    <3> QED BY <2>1
  <2>3. todo' = [todo EXCEPT ![c] = s]
    BY <1>4 DEF Runs, x
  <2> HIDE DEF s
  <2>4. \A k \in DOMAIN s : Public(s[k]) /\ (Answers(s[k]) => k = 1)
    BY <2>1, <2>2
  <2> QED BY <1>2, <1>4, <2>2, <2>3, <2>4
<1>5. CASE HandleJoin(c)
  <2> DEFINE u == UserOf[c]  m == LoadDocument
  <2>1. Runs(c, << Reply(Error) >>) \/ Runs(c, << Reply(DocState(m.text, Len(m.log))), Reply(Note), TellOthers(u) >>)
    BY <1>5 DEF HandleJoin
  <2>2. m \in Documents /\ u \in Users
    BY LoadedTyped DEF Types, Versions, Users
  <2>3. CASE Runs(c, << Reply(DocState(m.text, Len(m.log))), Reply(Note), TellOthers(u) >>)
    <3> DEFINE x == Reply(DocState(m.text, Len(m.log)))  y == Reply(Note)  z == TellOthers(u)  s == << x, y, z >>
    <3>1. x \in Instructions
      <4>1. m.text \in Texts /\ Len(m.log) \in Nat
        <5> DEFINE l == m.log  M == Made
        <5>1. m.text \in Texts /\ l \in Seq(M)
          BY <2>2 DEF Documents
        <5> HIDE DEF l, M
        <5> QED BY <5>1 DEF l
      <4> QED BY <4>1, MessagesAre, InstructionsAre
    <3>2. y \in Instructions /\ z \in Instructions
      BY <2>2, InstructionsAre
    <3>3. Public(x) /\ Public(y) /\ Public(z) /\ ~ Answers(y) /\ ~ Answers(z)
      BY SilentAre
    <3>4. todo' = [todo EXCEPT ![c] = s]
      BY <2>3 DEF Runs
    <3> HIDE DEF x, y, z
    <3>5. s \in Seq(Instructions) /\ DOMAIN s = {1, 2, 3} /\ s[1] = x /\ s[2] = y /\ s[3] = z
      <4> HIDE DEF Instructions
      <4> QED BY <3>1, <3>2
    <3> HIDE DEF s
    <3>6. \A k \in DOMAIN s : Public(s[k]) /\ (Answers(s[k]) => k = 1)
      BY <3>3, <3>5
    <3> QED BY <1>2, <1>5, <3>4, <3>5, <3>6
  <2> QED BY <1>4, <1>5, <2>1, <2>3, MessagesAre
<1>6. CASE HandleEdit(c)
  <2> DEFINE ops == Applied(Head(req[c]))  n == Len(doc.log \o ops)
             s == << Reply(Ack(ops, n)) >> \o [k \in DOMAIN ops |-> SendOp(ops[k])] \o << AutoSnapshot >>
  <2>1. Runs(c, << Reply(Error) >>) \/ (Loaded /\ Runs(c, s))
    BY <1>6 DEF HandleEdit
  <2>2. CASE Loaded /\ Runs(c, s)
    <3>1. doc \in Documents /\ ops \in Seq(Made)
      BY <1>6, <2>2, EditIs
    <3> HIDE DEF ops
    <3>2. n \in Nat
      BY <3>1, EditedTyped
    <3> HIDE DEF n
    <3>3. s \in Seq(Instructions) /\ \A k \in DOMAIN s : Public(s[k]) /\ (Answers(s[k]) => k = 1)
      BY <3>1, <3>2, EditScript, EditAnswers
    <3>4. todo' = [todo EXCEPT ![c] = s]
      BY <2>2 DEF Runs
    <3> HIDE DEF s
    <3> QED BY <1>2, <1>6, <3>3, <3>4
  <2> QED BY <1>4, <1>6, <2>1, <2>2, MessagesAre
<1>7. CASE HandleCursorUpdate(c) \/ HandleSaveSnapshot(c) \/ HandleCreateDoc(c)
  <2>1. UserOf[c] \in Users
    BY DEF Users
  <2>2. todo' = [todo EXCEPT ![c] = << TellOthers(UserOf[c]) >>] \/ todo' = [todo EXCEPT ![c] = << Reply(Note) >>]
    BY <1>7 DEF HandleCursorUpdate, HandleSaveSnapshot, HandleCreateDoc, Runs
  <2> QED BY <1>1, <1>3, <2>1, <2>2
<1>8. CASE HandleRestoreVersion(c)
  <2> DEFINE v == Head(req[c]).version  to == Editors({})  m == DocState(db.snaps[v], 0)
  <2>1. \/ todo' = [todo EXCEPT ![c] = << Reply(Note) >>]
        \/ v \in DOMAIN db.snaps /\ todo' = [todo EXCEPT ![c] = BroadcastTo(to, m) \o << Reply(Note) >>]
    BY <1>8 DEF HandleRestoreVersion, Runs
  <2>2. ASSUME v \in DOMAIN db.snaps PROVE Silent(BroadcastTo(to, m) \o << Reply(Note) >>)
    <3>1. to \in SUBSET Conns
      BY EditorsAre DEF Types
    <3>2. m \in Messages /\ m.type \notin {"ack", "error"}
      BY <2>2, MessagesAre DEF Types, RowTypes, DocState
    <3> HIDE DEF to, m
    <3> QED BY <1>3, <3>1, <3>2, SilentBroadcast, SilentParts
  <2> QED BY <1>1, <1>3, <2>1, <2>2
<1>9. CASE HandleDisconnect(c)
  <2>1. todo' = [todo EXCEPT ![c] = << TellAll, Unload >>] \/ todo' = [todo EXCEPT ![c] = << >>]
    BY <1>9 DEF HandleDisconnect, Runs
  <2>2. << TellAll, Unload >> = << TellAll >> \o << Unload >>
    OBVIOUS
  <2>3. Silent(<< TellAll, Unload >>)
    BY <1>3, <2>2, SilentParts
  <2> QED BY <1>1, <2>1, <2>3, SilentScripts
<1>10. ASSUME Running(c, "reply") \/ Running(c, "broadcast") \/ Running(c, "tell") \/ Running(c, "op") \/ Running(c, "autosnap")
       PROVE  todo[c] # << >> /\ Silent(Rest(c)) /\ Head(todo[c]) \in Instructions /\ Public(Head(todo[c]))
  <2>1. todo[c] # << >>
    BY <1>10 DEF Running
  <2> DEFINE I == Instructions  s == todo[c]
  <2>2. s \in Seq(I) /\ s # << >>
    BY <2>1 DEF Types, QueueTypes
  <2> HIDE DEF I, s
  <2>3. Head(s) \in I /\ 1 \in DOMAIN s /\ Head(s) = s[1]
    BY <2>2
  <2> QED BY <2>1, <2>3, SilentRest DEF Orderly, s, I
<1>11. CASE SendReply(c)
  <2>1. todo' = [todo EXCEPT ![c] = Rest(c)] \/ todo' = [todo EXCEPT ![c] = << >>]
    BY <1>11 DEF SendReply, Sent
  <2> QED BY <1>1, <1>10, <1>11, <2>1, SilentScripts DEF SendReply
<1>12. CASE SendNext(c)
  <2> DEFINE i == Head(todo[c])
  <2>1. PICK d \in i.to : Sent(c, d, IF i.to = {d} THEN Rest(c) ELSE << [i EXCEPT !.to = @ \ {d}] >> \o Rest(c))
    BY <1>12 DEF SendNext
  <2>2. i.do = "broadcast" /\ i \in Instructions /\ Public(i) /\ Silent(Rest(c))
    BY <1>10, <1>12 DEF SendNext, Running
  <2>3. i = [do |-> "broadcast", to |-> i.to, msg |-> i.msg] /\ i.to \in SUBSET Conns /\ i.msg \in Messages \cup {Note}
    BY <2>2, InstructionIs
  <2> HIDE DEF i
  <2> DEFINE to == i.to  rest == i.to \ {d}  j == [i EXCEPT !.to = rest]
  <2>4. todo' = [todo EXCEPT ![c] = Rest(c)] \/ todo' = [todo EXCEPT ![c] = << j >> \o Rest(c)]
    BY <2>1 DEF Sent
  <2>5. j = [do |-> "broadcast", to |-> rest, msg |-> i.msg]
    BY <2>3
  <2>6. j \in Instructions /\ Public(j) /\ ~ Answers(j)
    <3>1. j = Broadcast(rest, i.msg) /\ rest \in SUBSET Conns
      BY <2>3, <2>5 DEF Broadcast
    <3> HIDE DEF j, rest
    <3> QED BY <2>2, <2>3, <3>1, InstructionsAre, SilentAre DEF Public
  <2> HIDE DEF j
  <2>7. Silent(<< j >> \o Rest(c))
    BY <2>2, <2>6, SilentScripts, SilentParts
  <2> QED BY <1>1, <2>2, <2>4, <2>7
<1>13. CASE BeginBroadcast(c)
  <2> DEFINE i == Head(todo[c])
             rev == IF i.doc = "live" THEN Len(doc.log) ELSE i.rev
             notes == BroadcastTo(Editors(i.skip) \cap Slow, Note)
             ops == BroadcastTo(Editors({UserOf[c]}), RemoteOp(i.op, rev))
  <2>1. todo' = [todo EXCEPT ![c] = (IF i.do = "tell" THEN notes ELSE ops) \o Rest(c)]
    BY <1>13 DEF BeginBroadcast, Runs
  <2>2. (Running(c, "tell") \/ Running(c, "op")) /\ (i.do = "tell" \/ i.do = "op") /\ i \in Instructions /\ Silent(Rest(c))
    BY <1>10, <1>13 DEF BeginBroadcast, Running
  <2>3. Editors(i.skip) \cap Slow \in SUBSET Conns /\ Editors({UserOf[c]}) \in SUBSET Conns
    BY EditorsAre DEF Types
  <2>4. Silent(notes)
    <3>1. Note.type \notin {"ack", "error"}
      BY DEF Note
    <3> QED BY <2>3, <3>1, SilentBroadcast
  <2>5. ASSUME i.do = "op" PROVE Silent(ops)
    <3>1. i.op \in Made /\ i.rev \in Nat
      BY <2>2, <2>5, InstructionIs
    <3>2. rev \in Nat
      <4>1. CASE i.doc = "live"
        <5>1. i = todo[c][1] /\ 1 \in DOMAIN todo[c]
          <6> DEFINE I == Instructions  s == todo[c]
          <6>1. s \in Seq(I) /\ s # << >>
            BY <2>2 DEF Types, QueueTypes, Running
          <6> HIDE DEF I, s
          <6>2. Head(s) = s[1] /\ 1 \in DOMAIN s
            BY <6>1
          <6> QED BY <6>2 DEF s
        <5>2. doc \in Documents
          BY <2>5, <4>1, <5>1 DEF Types, Detachable
        <5>3. Len(doc.log) \in Nat
          <6> DEFINE l == doc.log  M == Made
          <6>1. l \in Seq(M)
            BY <5>2 DEF Documents
          <6> HIDE DEF l, M
          <6> QED BY <6>1 DEF l
        <5> QED BY <4>1, <5>3
      <4> QED BY <3>1, <4>1
    <3> DEFINE m == RemoteOp(i.op, rev)
    <3>3. m.type \notin {"ack", "error"}
      BY DEF RemoteOp
    <3>4. m \in Messages
      <4> HIDE DEF rev
      <4> QED BY <3>1, <3>2, MessagesAre
    <3> HIDE DEF m
    <3>5. Silent(BroadcastTo(Editors({UserOf[c]}), m))
      BY <2>3, <3>3, <3>4, SilentBroadcast
    <3> QED BY <3>5 DEF m
  <2> HIDE DEF i, notes, ops
  <2>6. Silent((IF i.do = "tell" THEN notes ELSE ops) \o Rest(c))
    BY <2>2, <2>4, <2>5, SilentParts
  <2> QED BY <1>1, <2>1, <2>6
<1>14. CASE CheckAutoSnapshot(c)
  <2>1. todo' = [todo EXCEPT ![c] = << TellAll >> \o Rest(c)] \/ todo' = [todo EXCEPT ![c] = Rest(c)]
    BY <1>14 DEF CheckAutoSnapshot, Runs
  <2>2. Silent(Rest(c))
    BY <1>10, <1>14 DEF CheckAutoSnapshot
  <2>3. Silent(<< TellAll >> \o Rest(c))
    BY <1>3, <2>2, SilentParts
  <2> QED BY <1>1, <2>1, <2>2, <2>3
<1> QED BY <1>5, <1>6, <1>7, <1>8, <1>9, <1>11, <1>12, <1>13, <1>14 DEF Handle, Step

\* The requests a client waits for, and the messages that end its wait.
Asks(m) == m.type \in {"join", "edit"}
Ends(m) == m.type \in {"ack", "error"}

\* The request that the client k waits for is in one place: among its requests
\* r, in its handler's script t or in its inbox b, where the first text it gets
\* answers a join.
Tidy(r, t, b, k) ==
  LET asked == \E j \in DOMAIN r : Asks(r[j])
      answering == \E j \in DOMAIN t : Answers(t[j])
      answered == \E j \in DOMAIN b : Ends(b[j])
      greeted == k.text = NoText /\ \E j \in DOMAIN b : Greeting(b[j])
  IN  /\ \A i, j \in DOMAIN r : Asks(r[i]) /\ Asks(r[j]) => i = j
      /\ \A i, j \in DOMAIN b : Ends(b[i]) /\ Ends(b[j]) => i = j
      /\ asked => k.waiting /\ ~ answering /\ ~ answered /\ ~ greeted
      /\ answering => k.waiting /\ ~ answered /\ ~ greeted
      /\ answered => k.waiting /\ ~ greeted
      /\ greeted => k.waiting

Awaited == \A c \in Conns : link[c] = "open" => Tidy(req[c], todo[c], inbox[c], client[c])

\* Nothing is awaited where nothing is.
LEMMA TidyEmpty ==
  ASSUME NEW k
  PROVE  Tidy(<< >>, << >>, << >>, k)
BY DEF Tidy

\* Queues without the first element.
LEMMA TailIs ==
  ASSUME NEW S, NEW s \in Seq(S), s # << >>
  PROVE  /\ Head(s) = s[1] /\ 1 \in DOMAIN s
         /\ \A j \in DOMAIN Tail(s) : j + 1 \in DOMAIN s /\ Tail(s)[j] = s[j + 1] /\ j \in Nat
OBVIOUS

\* Queues with one more element.
LEMMA AppendIs ==
  ASSUME NEW S, NEW s \in Seq(S), NEW m
  PROVE  \A j \in DOMAIN Append(s, m) : (j \in DOMAIN s /\ Append(s, m)[j] = s[j])
                                        \/ (j = Len(s) + 1 /\ Append(s, m)[j] = m /\ j \notin DOMAIN s)
OBVIOUS

\* A script that answers nothing new.
LEMMA TidyScript ==
  ASSUME NEW r, NEW t, NEW u, NEW b, NEW k, Tidy(r, t, b, k),
         (\E j \in DOMAIN u : Answers(u[j])) => \E j \in DOMAIN t : Answers(t[j])
  PROVE  Tidy(r, u, b, k)
BY DEF Tidy

\* A request is taken that is no such request.
LEMMA TidyTaken ==
  ASSUME NEW S, NEW r \in Seq(S), r # << >>, NEW t, NEW b, NEW k, Tidy(r, t, b, k)
  PROVE  Tidy(Tail(r), t, b, k)
<1> DEFINE u == Tail(r)
<1>1. \A j \in DOMAIN u : j + 1 \in DOMAIN r /\ u[j] = r[j + 1] /\ j \in Nat
  BY TailIs
<1> HIDE DEF u
<1>2. \A i, j \in DOMAIN u : Asks(u[i]) /\ Asks(u[j]) => i = j
  <2> SUFFICES ASSUME NEW i \in DOMAIN u, NEW j \in DOMAIN u, Asks(u[i]), Asks(u[j]) PROVE i = j
    OBVIOUS
  <2>1. i + 1 = j + 1 /\ i \in Nat /\ j \in Nat
    BY <1>1 DEF Tidy
  <2> QED BY <2>1
<1>3. (\E j \in DOMAIN u : Asks(u[j])) => \E j \in DOMAIN r : Asks(r[j])
  BY <1>1
<1> QED BY <1>2, <1>3 DEF Tidy, u

\* The request is taken, and its handler has an answer or not.
LEMMA TidyAsked ==
  ASSUME NEW S, NEW r \in Seq(S), r # << >>, Asks(Head(r)), NEW t, NEW u, NEW b, NEW k, Tidy(r, t, b, k)
  PROVE  Tidy(Tail(r), u, b, k)
<1> DEFINE v == Tail(r)
<1>1. \A j \in DOMAIN v : j + 1 \in DOMAIN r /\ v[j] = r[j + 1] /\ j \in Nat
  BY TailIs
<1>2. Head(r) = r[1] /\ 1 \in DOMAIN r
  BY TailIs
<1> HIDE DEF v
<1>3. \A j \in DOMAIN v : ~ Asks(v[j])
  <2> SUFFICES ASSUME NEW j \in DOMAIN v, Asks(v[j]) PROVE FALSE
    OBVIOUS
  <2>1. j + 1 = 1 /\ j \in Nat /\ j # 0
    <3>1. j + 1 = 1 /\ j \in Nat
      BY <1>1, <1>2 DEF Tidy
    <3>2. 0 \notin DOMAIN v
      <4>1. v = Tail(r) /\ Tail(r) \in Seq(S)
        BY DEF v
      <4> QED BY <4>1
    <3> QED BY <3>1, <3>2
  <2> QED BY <2>1
<1>4. \E j \in DOMAIN r : Asks(r[j])
  BY <1>2
<1> QED BY <1>3, <1>4 DEF Tidy, v

\* A new request.
LEMMA TidyNew ==
  ASSUME NEW S, NEW r \in Seq(S), NEW m, NEW t, NEW b, NEW k, NEW l, Tidy(r, t, b, k),
         (~ Asks(m) /\ l = k) \/ (~ k.waiting /\ l.waiting /\ l.text = k.text)
  PROVE  Tidy(Append(r, m), t, b, l)
<1> DEFINE u == Append(r, m)
<1>1. \A j \in DOMAIN u : (j \in DOMAIN r /\ u[j] = r[j]) \/ (j = Len(r) + 1 /\ u[j] = m /\ j \notin DOMAIN r)
  BY AppendIs
<1> HIDE DEF u
<1>2. CASE ~ Asks(m) /\ l = k
  <2>1. \A j \in DOMAIN u : Asks(u[j]) => j \in DOMAIN r /\ Asks(r[j])
    BY <1>1, <1>2
  <2> QED BY <1>2, <2>1 DEF Tidy, u
<1>3. CASE ~ k.waiting /\ l.waiting /\ l.text = k.text
  <2>1. /\ \A j \in DOMAIN r : ~ Asks(r[j])
        /\ \A j \in DOMAIN t : ~ Answers(t[j])
        /\ \A j \in DOMAIN b : ~ Ends(b[j])
        /\ k.text = NoText => \A j \in DOMAIN b : ~ Greeting(b[j])
    BY <1>3 DEF Tidy
  <2>2. \A i, j \in DOMAIN u : Asks(u[i]) /\ Asks(u[j]) => i = j
    BY <1>1, <2>1
  <2> QED BY <1>3, <2>1, <2>2 DEF Tidy, u
<1> QED BY <1>2, <1>3

\* The script's answer is sent.
LEMMA TidySent ==
  ASSUME NEW S, NEW b \in Seq(S), NEW r, NEW t, NEW u, NEW m, NEW k, Tidy(r, t, b, k),
         \E j \in DOMAIN t : Answers(t[j]), \A j \in DOMAIN u : ~ Answers(u[j])
  PROVE  Tidy(r, u, Append(b, m), k)
<1> DEFINE v == Append(b, m)
<1>1. \A j \in DOMAIN v : (j \in DOMAIN b /\ v[j] = b[j]) \/ (j = Len(b) + 1 /\ v[j] = m /\ j \notin DOMAIN b)
  BY AppendIs
<1> HIDE DEF v
<1>2. /\ \A j \in DOMAIN r : ~ Asks(r[j])
      /\ \A j \in DOMAIN b : ~ Ends(b[j])
      /\ k.text = NoText => \A j \in DOMAIN b : ~ Greeting(b[j])
      /\ k.waiting
  BY DEF Tidy
<1>3. \A i, j \in DOMAIN v : Ends(v[i]) /\ Ends(v[j]) => i = j
  BY <1>1, <1>2
<1>4. (\E j \in DOMAIN v : Ends(v[j])) => Ends(m)
  BY <1>1, <1>2
<1>5. (k.text = NoText /\ \E j \in DOMAIN v : Greeting(v[j])) => Greeting(m)
  BY <1>1, <1>2
<1>6. ~ (Ends(m) /\ Greeting(m))
  BY DEF Ends, Greeting
<1> QED BY <1>2, <1>3, <1>4, <1>5, <1>6 DEF Tidy, v

\* A message arrives that ends no wait.
LEMMA TidyTold ==
  ASSUME NEW S, NEW b \in Seq(S), NEW r, NEW t, NEW m, NEW k, Tidy(r, t, b, k), ~ Ends(m),
         Greeting(m) /\ k.text = NoText => \E j \in DOMAIN b : Greeting(b[j])
  PROVE  Tidy(r, t, Append(b, m), k)
<1> DEFINE v == Append(b, m)
<1>1. \A j \in DOMAIN v : (j \in DOMAIN b /\ v[j] = b[j]) \/ (j = Len(b) + 1 /\ v[j] = m /\ j \notin DOMAIN b)
  BY AppendIs
<1> HIDE DEF v
<1>2. \A j \in DOMAIN v : Ends(v[j]) => j \in DOMAIN b /\ Ends(b[j])
  BY <1>1
<1>3. (k.text = NoText /\ \E j \in DOMAIN v : Greeting(v[j])) => \E j \in DOMAIN b : Greeting(b[j])
  BY <1>1
<1> QED BY <1>2, <1>3 DEF Tidy, v

\* A message is received: it ends the wait, or leaves it.
LEMMA TidyReceived ==
  ASSUME NEW S, NEW b \in Seq(S), b # << >>, NEW r, NEW t, NEW k, NEW l, Tidy(r, t, b, k),
         \/ (Ends(Head(b)) \/ (Greeting(Head(b)) /\ k.text = NoText)) /\ (l.text = NoText => k.text = NoText)
            /\ (Greeting(Head(b)) => l.text # NoText)
         \/ ~ Ends(Head(b)) /\ l.waiting = k.waiting /\ (l.text = NoText => k.text = NoText)
  PROVE  Tidy(r, t, Tail(b), l)
<1> DEFINE v == Tail(b)
<1>1. \A j \in DOMAIN v : j + 1 \in DOMAIN b /\ v[j] = b[j + 1] /\ j \in Nat /\ j # 0
  <2>1. \A j \in DOMAIN v : j + 1 \in DOMAIN b /\ v[j] = b[j + 1] /\ j \in Nat
    BY TailIs
  <2>2. v \in Seq(S)
    OBVIOUS
  <2> HIDE DEF v
  <2>3. 0 \notin DOMAIN v
    BY <2>2
  <2> QED BY <2>1, <2>3
<1>2. Head(b) = b[1] /\ 1 \in DOMAIN b
  BY TailIs
<1> HIDE DEF v
<1>3. \A i, j \in DOMAIN v : Ends(v[i]) /\ Ends(v[j]) => i = j
  <2> SUFFICES ASSUME NEW i \in DOMAIN v, NEW j \in DOMAIN v, Ends(v[i]), Ends(v[j]) PROVE i = j
    OBVIOUS
  <2>1. i + 1 = j + 1 /\ i \in Nat /\ j \in Nat
    BY <1>1 DEF Tidy
  <2> QED BY <2>1
<1>4. (\E j \in DOMAIN v : Ends(v[j])) => \E j \in DOMAIN b : Ends(b[j])
  BY <1>1
<1>5. (\E j \in DOMAIN v : Greeting(v[j])) => \E j \in DOMAIN b : Greeting(b[j])
  BY <1>1
<1>6. CASE Ends(Head(b)) /\ (l.text = NoText => k.text = NoText)
  <2>1. /\ \A j \in DOMAIN r : ~ Asks(r[j])
        /\ \A j \in DOMAIN t : ~ Answers(t[j])
        /\ k.text = NoText => \A j \in DOMAIN b : ~ Greeting(b[j])
    BY <1>2, <1>6 DEF Tidy
  <2>2. \A j \in DOMAIN v : ~ Ends(v[j])
    <3> SUFFICES ASSUME NEW j \in DOMAIN v, Ends(v[j]) PROVE FALSE
      OBVIOUS
    <3>1. j + 1 = 1 /\ j \in Nat
      BY <1>1, <1>2, <1>6 DEF Tidy
    <3> QED BY <1>1, <3>1
  <2> QED BY <1>3, <1>5, <1>6, <2>1, <2>2 DEF Tidy, v
<1>7. CASE Greeting(Head(b)) /\ k.text = NoText /\ l.text # NoText
  <2>1. /\ \A j \in DOMAIN r : ~ Asks(r[j])
        /\ \A j \in DOMAIN t : ~ Answers(t[j])
        /\ \A j \in DOMAIN b : ~ Ends(b[j])
    BY <1>2, <1>7 DEF Tidy
  <2> QED BY <1>3, <1>4, <1>7, <2>1 DEF Tidy, v
<1>8. CASE l.waiting = k.waiting /\ (l.text = NoText => k.text = NoText)
  BY <1>3, <1>4, <1>5, <1>8 DEF Tidy, v
<1> QED BY <1>6, <1>7, <1>8

\* What a client's own step puts into its requests.
LEMMA ClientAsks ==
  ASSUME Types, NEW c \in Conns, ClientActs(c), ~ ClientCloses(c)
  PROVE  /\ link[c] = "open" /\ ~ client[c].waiting /\ UNCHANGED <<todo, inbox, link>>
         /\ \E m : /\ req' = [req EXCEPT ![c] = Append(@, m)]
                   /\ m.type \in {"join", "edit", "cursor", "save", "restore", "create"}
                   /\ (~ Asks(m) /\ client' = client) \/ (Asks(m) /\ Waits(c))
<1>1. ASSUME NEW m, ClientSends(c, m), m.type \in {"join", "edit", "cursor", "save", "restore", "create"},
             (~ Asks(m) /\ client' = client) \/ (Asks(m) /\ Waits(c))
      PROVE  /\ link[c] = "open" /\ ~ client[c].waiting /\ UNCHANGED <<todo, inbox, link>>
             /\ \E x : /\ req' = [req EXCEPT ![c] = Append(@, x)]
                       /\ x.type \in {"join", "edit", "cursor", "save", "restore", "create"}
                       /\ (~ Asks(x) /\ client' = client) \/ (Asks(x) /\ Waits(c))
  BY <1>1 DEF ClientSends
<1>2. CASE ClientJoins(c)
  <2> DEFINE m == [type |-> "join"]
  <2>1. ClientSends(c, m) /\ m.type = "join" /\ Waits(c)
    BY <1>2 DEF ClientJoins
  <2> HIDE DEF m
  <2> QED BY <1>1, <2>1 DEF Asks
<1>3. CASE ClientEdits(c)
  <2>1. PICK op : ClientSends(c, [type |-> "edit", op |-> op, rev |-> client[c].rev, seen |-> client[c].text])
    BY <1>3 DEF ClientEdits
  <2> DEFINE m == [type |-> "edit", op |-> op, rev |-> client[c].rev, seen |-> client[c].text]
  <2>2. ClientSends(c, m) /\ m.type = "edit" /\ Waits(c)
    BY <1>3, <2>1 DEF ClientEdits
  <2> HIDE DEF m
  <2> QED BY <1>1, <2>2 DEF Asks
<1>4. CASE ClientMovesCursor(c)
  <2>1. PICK p : ClientSends(c, [type |-> "cursor", position |-> p])
    BY <1>4 DEF ClientMovesCursor
  <2> DEFINE m == [type |-> "cursor", position |-> p]
  <2>2. ClientSends(c, m) /\ m.type = "cursor" /\ client' = client
    BY <1>4, <2>1 DEF ClientMovesCursor
  <2> HIDE DEF m
  <2> QED BY <1>1, <2>2 DEF Asks
<1>5. CASE ClientSaves(c)
  <2> DEFINE m == [type |-> "save"]
  <2>1. ClientSends(c, m) /\ m.type = "save" /\ client' = client
    BY <1>5 DEF ClientSaves
  <2> HIDE DEF m
  <2> QED BY <1>1, <2>1 DEF Asks
<1>6. CASE ClientRestores(c)
  <2>1. PICK v : ClientSends(c, [type |-> "restore", version |-> v])
    BY <1>6 DEF ClientRestores
  <2> DEFINE m == [type |-> "restore", version |-> v]
  <2>2. ClientSends(c, m) /\ m.type = "restore" /\ client' = client
    BY <1>6, <2>1 DEF ClientRestores
  <2> HIDE DEF m
  <2> QED BY <1>1, <2>2 DEF Asks
<1>7. CASE ClientCreates(c)
  <2> DEFINE m == [type |-> "create"]
  <2>1. ClientSends(c, m) /\ m.type = "create" /\ client' = client
    BY <1>7 DEF ClientCreates
  <2> HIDE DEF m
  <2> QED BY <1>1, <2>1 DEF Asks
<1> QED BY <1>2, <1>3, <1>4, <1>5, <1>6, <1>7 DEF ClientActs

\* An answer in a script, after an unload detached what it reads.
LEMMA OrderlyStep == Types /\ Orderly /\ [Next]_vars => Orderly'
<1> SUFFICES ASSUME Types, Orderly, [Next]_vars, NEW d \in Conns, NEW k \in DOMAIN todo'[d]
             PROVE  Public(todo'[d][k]) /\ (Answers(todo'[d][k]) => k = 1)
  BY DEF Orderly, Public, Answers
<1>0. todo \in [Conns -> Seq(Instructions)]
  BY DEF Types, QueueTypes
<1>1. CASE todo'[d] = todo[d]
  BY <1>1 DEF Orderly
<1>2. ASSUME NEW c \in Conns, Handle(c) \/ (Step(c) /\ ~ CheckUnload(c)) PROVE Public(todo'[d][k]) /\ (Answers(todo'[d][k]) => k = 1)
  <2>1. PICK s \in Seq(Instructions) : /\ todo' = [todo EXCEPT ![c] = s]
                                       /\ \A j \in DOMAIN s : Public(s[j]) /\ (Answers(s[j]) => j = 1)
    BY <1>2, WhoAnswers
  <2>2. todo'[d] = IF d = c THEN s ELSE todo[d]
    BY <1>0, <2>1
  <2> QED BY <1>1, <2>1, <2>2
<1>3. ASSUME NEW c \in Conns, CheckUnload(c) PROVE Public(todo'[d][k]) /\ (Answers(todo'[d][k]) => k = 1)
  <2>1. CASE todo' = [todo EXCEPT ![c] = << >>]
    <3>1. todo'[d] = IF d = c THEN << >> ELSE todo[d]
      BY <1>0, <2>1
    <3>2. d = c => DOMAIN todo'[d] = {}
      BY <3>1
    <3> QED BY <1>1, <3>1, <3>2
  <2>2. CASE todo' = [x \in Conns |-> IF x = c THEN << >> ELSE [j \in DOMAIN todo[x] |-> Detached(todo[x][j])]]
    <3>1. k \in DOMAIN todo[d] /\ todo[d][k] \in Instructions /\ todo'[d][k] = Detached(todo[d][k])
      BY <2>2, DetachedList
    <3>2. Detached(todo[d][k]).do = todo[d][k].do
          /\ (todo[d][k].do \notin {"op", "autosnap", "unload"} => Detached(todo[d][k]) = todo[d][k])
      BY <3>1, DetachedKind
    <3>3. Public(todo[d][k]) /\ (Answers(todo[d][k]) => k = 1)
      BY <3>1 DEF Orderly
    <3> QED BY <3>1, <3>2, <3>3 DEF Public, Answers
  <2> QED BY <1>3, <2>1, <2>2, UnloadIs
<1>4. CASE Crash
  <2>1. todo'[d] = << >>
    BY <1>4 DEF Crash
  <2>2. DOMAIN todo'[d] = {}
    BY <2>1
  <2> QED BY <2>2
<1>5. ASSUME NEW c \in Conns, Connect(c) \/ ClientReceives(c) \/ ClientActs(c) PROVE todo' = todo
  BY <1>5, WhoActs
<1>6. CASE Restart \/ UNCHANGED vars
  <2>1. todo' = todo
    BY <1>6 DEF Restart, vars
  <2> QED BY <1>1, <2>1
<1> QED BY <1>1, <1>2, <1>3, <1>4, <1>5, <1>6 DEF Next, Step

\* A client waits for one answer, and its handler has a request, an answer or
\* neither for it.
LEMMA AwaitedStep == Types /\ Orderly /\ Awaited /\ [Next]_vars => Awaited'
<1> SUFFICES ASSUME Types, Orderly, Awaited, [Next]_vars, NEW d \in Conns, link'[d] = "open"
             PROVE  Tidy(req'[d], todo'[d], inbox'[d], client'[d])
  BY DEF Awaited, Tidy, Asks, Answers, Ends, Greeting
<1> DEFINE r == req[d]  t == todo[d]  b == inbox[d]  k == client[d]  Goal == Tidy(req'[d], todo'[d], inbox'[d], client'[d])
           R == Requests  I == Instructions  M == Messages
<1>0. r \in Seq(R) /\ t \in Seq(I) /\ b \in Seq(M) /\ req \in [Conns -> Seq(R)] /\ todo \in [Conns -> Seq(I)]
      /\ inbox \in [Conns -> Seq(M)] /\ client \in [Conns -> Clients] /\ k.text \in Texts \cup {NoText} /\ NoText \notin Texts
  BY DocAssumption DEF Types, QueueTypes, ClientTypes, Clients, Texts
<1> HIDE DEF R, I, M
<1>1. Tidy(r, t, b, k)
  <2>1. CASE link[d] = "open"
    BY <2>1 DEF Awaited
  <2>2. CASE link[d] = "new"
    <3>1. r = << >> /\ t = << >> /\ b = << >>
      BY <2>2 DEF Types, Greeted
    <3> QED BY <3>1, TidyEmpty
  <2> QED BY <2>1, <2>2, LinkStep
<1>2. ASSUME req'[d] = r, todo'[d] = t, inbox'[d] = b, client'[d] = k PROVE Goal
  BY <1>1, <1>2
<1>3. ASSUME NEW c \in Conns, c # d, Handle(c) PROVE Goal
  <2>1. inbox' = inbox /\ client' = client /\ (req' = req \/ req' = [req EXCEPT ![c] = Tail(@)])
    BY <1>3 DEF Handle, HandleJoin, HandleEdit, HandleCursorUpdate, HandleSaveSnapshot, HandleRestoreVersion, HandleCreateDoc,
                HandleDisconnect, Takes
  <2>2. PICK s : todo' = [todo EXCEPT ![c] = s]
    BY <1>3, WhoAnswers
  <2>3. todo'[d] = t /\ req'[d] = r
    BY <1>0, <1>3, <2>1, <2>2
  <2> QED BY <1>2, <2>1, <2>3
<1>4. ASSUME Handle(d) PROVE Goal
  <2>1. inbox'[d] = b /\ client'[d] = k
    BY <1>4 DEF Handle, HandleJoin, HandleEdit, HandleCursorUpdate, HandleSaveSnapshot, HandleRestoreVersion, HandleCreateDoc, HandleDisconnect
  <2>2. PICK s : todo' = [todo EXCEPT ![d] = s] /\ (Silent(s) \/ HandleJoin(d) \/ HandleEdit(d))
    BY <1>4, WhoAnswers
  <2>3. todo'[d] = s
    BY <1>0, <2>2
  <2>4. CASE HandleJoin(d) \/ HandleEdit(d)
    <3>1. r # << >> /\ Asks(Head(r)) /\ req' = [req EXCEPT ![d] = Tail(@)]
      BY <2>4 DEF HandleJoin, HandleEdit, Takes, Asks
    <3>2. req'[d] = Tail(r)
      BY <1>0, <3>1
    <3> HIDE DEF r, t, b, k
    <3>3. Tidy(Tail(r), s, b, k)
      BY <1>0, <1>1, <3>1, TidyAsked
    <3> QED BY <2>1, <2>3, <3>2, <3>3 DEF r
  <2>5. CASE Silent(s)
    <3>1. req'[d] = r \/ (r # << >> /\ req'[d] = Tail(r))
      <4>1. UNCHANGED req \/ (r # << >> /\ req' = [req EXCEPT ![d] = Tail(@)])
        BY <1>4 DEF Handle, HandleJoin, HandleEdit, HandleCursorUpdate, HandleSaveSnapshot, HandleRestoreVersion, HandleCreateDoc,
                    HandleDisconnect, Takes
      <4> QED BY <1>0, <4>1
    <3>2. \A j \in DOMAIN s : ~ Answers(s[j])
      BY <2>5 DEF Silent
    <3> HIDE DEF r, t, b, k
    <3>3. Tidy(r, s, b, k)
      BY <1>1, <3>2, TidyScript
    <3>4. r # << >> => Tidy(Tail(r), s, b, k)
      BY <1>0, <3>3, TidyTaken
    <3> QED BY <2>1, <2>3, <3>1, <3>3, <3>4 DEF r, b, k
  <2> QED BY <2>2, <2>4, <2>5
<1>5. ASSUME NEW c \in Conns, SendReply(c) \/ SendNext(c) \/ BeginBroadcast(c) \/ CheckAutoSnapshot(c)
      PROVE  /\ client' = client /\ link' = link
             /\ \E s : todo' = [todo EXCEPT ![c] = s] /\ todo'[d] = (IF c = d THEN s ELSE t) /\ Silent(s)
  <2>1. client' = client /\ link' = link
    BY <1>5 DEF SendReply, SendNext, BeginBroadcast, CheckAutoSnapshot
  <2>2. ~ HandleJoin(c) /\ ~ HandleEdit(c)
    <3>1. loop = c => loop # Free
      BY DocAssumption
    <3>2. todo[c] # << >>
      BY <1>5 DEF SendReply, SendNext, BeginBroadcast, CheckAutoSnapshot, Running
    <3> QED BY <3>2 DEF HandleJoin, HandleEdit, Takes
  <2>3. ~ CheckUnload(c)
    BY <1>5 DEF SendReply, SendNext, BeginBroadcast, CheckAutoSnapshot, CheckUnload, Running
  <2>4. PICK s : todo' = [todo EXCEPT ![c] = s] /\ Silent(s)
    BY <1>5, <2>2, <2>3, WhoAnswers DEF Step
  <2>5. todo'[d] = IF c = d THEN s ELSE t
    BY <1>0, <2>4
  <2> QED BY <2>1, <2>4, <2>5
<1>6. ASSUME NEW c \in Conns, BeginBroadcast(c) \/ CheckAutoSnapshot(c) PROVE Goal
  <2>1. req'[d] = r /\ inbox'[d] = b /\ client'[d] = k
    BY <1>6 DEF BeginBroadcast, CheckAutoSnapshot
  <2>2. PICK s : todo'[d] = (IF c = d THEN s ELSE t) /\ Silent(s)
    BY <1>5, <1>6
  <2> HIDE DEF r, t, b, k
  <2>3. Tidy(r, s, b, k)
    BY <1>1, <2>2, TidyScript DEF Silent
  <2> QED BY <1>1, <2>1, <2>2, <2>3
<1>7. ASSUME NEW c \in Conns, SendReply(c) PROVE Goal
  <2>1. PICK s : todo'[d] = (IF c = d THEN s ELSE t) /\ Silent(s)
    BY <1>5, <1>7
  <2>2. client'[d] = k /\ link'[d] = link[d]
    BY <1>5, <1>7
  <2> DEFINE m == Head(todo[c]).msg
  <2>3. CASE c # d
    <3>1. UNCHANGED req \/ req' = [req EXCEPT ![c] = << >>]
      BY <1>7 DEF SendReply
    <3>2. UNCHANGED inbox \/ inbox' = [inbox EXCEPT ![c] = Append(@, m)]
      BY <1>7 DEF SendReply, Deliver
    <3> HIDE DEF m
    <3>3. req'[d] = r /\ inbox'[d] = b
      BY <1>0, <2>3, <3>1, <3>2
    <3> QED BY <1>2, <2>1, <2>2, <2>3, <3>3
  <2>4. CASE c = d
    <3>1. link[d] = "open"
      BY <2>2
    <3>2. req'[d] = r /\ Deliver(d, m) /\ Running(d, "reply")
      BY <1>7, <2>4, <3>1 DEF SendReply
    <3>3. \A j \in DOMAIN s : ~ Answers(s[j])
      BY <2>1 DEF Silent
    <3>4. CASE m = Note
      <4>1. inbox'[d] = b
        BY <3>2, <3>4 DEF Deliver
      <4> HIDE DEF r, t, b, k
      <4>2. Tidy(r, s, b, k)
        BY <1>1, <3>3, TidyScript
      <4> QED BY <2>1, <2>2, <2>4, <3>2, <4>1, <4>2
    <3>5. CASE m # Note
      <4>1. t # << >> /\ Head(t).do = "reply" /\ Head(t).msg = m
        BY <2>4, <3>2 DEF Running
      <4>2. inbox' = [inbox EXCEPT ![d] = Append(@, m)]
        BY <3>1, <3>2, <3>5 DEF Deliver
      <4> HIDE DEF m
      <4>3. inbox'[d] = Append(b, m)
        BY <1>0, <4>2
      <4> HIDE DEF r, t, b, k
      <4>4. Head(t) = t[1] /\ 1 \in DOMAIN t
        BY <1>0, <4>1, TailIs
      <4>5. \E j \in DOMAIN t : Answers(t[j])
        BY <3>5, <4>1, <4>4 DEF Answers
      <4>6. Tidy(r, s, Append(b, m), k)
        BY <1>0, <1>1, <3>3, <4>5, TidySent
      <4> QED BY <2>1, <2>2, <2>4, <3>2, <4>3, <4>6
    <3> QED BY <3>4, <3>5
  <2> QED BY <2>3, <2>4
<1>8. ASSUME NEW c \in Conns, SendNext(c) PROVE Goal
  <2>1. PICK s : todo'[d] = (IF c = d THEN s ELSE t) /\ Silent(s)
    BY <1>5, <1>8
  <2>2. client'[d] = k /\ link'[d] = link[d] /\ req'[d] = r
    BY <1>5, <1>8 DEF SendNext
  <2> DEFINE i == Head(todo[c])  m == i.msg
  <2>3. PICK x \in i.to : Deliver(x, m)
    BY <1>8 DEF SendNext
  <2>4. i.do = "broadcast" /\ 1 \in DOMAIN todo[c] /\ i = todo[c][1]
    <3> DEFINE all == todo[c]
    <3>1. all \in Seq(I) /\ all # << >> /\ i.do = "broadcast"
      BY <1>0, <1>8 DEF SendNext, Running
    <3> HIDE DEF all
    <3>2. Head(all) = all[1] /\ 1 \in DOMAIN all
      BY <3>1, TailIs
    <3> QED BY <3>1, <3>2 DEF all
  <2>5. ~ Ends(m)
    BY <2>4 DEF Orderly, Public, Ends
  <2>6. inbox'[d] = b \/ (x = d /\ inbox'[d] = Append(b, m))
    <3>1. UNCHANGED inbox \/ inbox' = [inbox EXCEPT ![x] = Append(@, m)]
      BY <2>3 DEF Deliver
    <3> HIDE DEF m, i
    <3> QED BY <1>0, <3>1
  <2>7. x = d => (k.text = NoText => \E j \in DOMAIN b : Greeting(b[j]))
    <3>1. x = d => Listed(d)
      BY <2>3, <2>4 DEF Listed
    <3>2. link[d] = "open"
      BY <2>2
    <3>3. Listed(d) => Welcome(d)
      BY <3>2 DEF Types, Greeted
    <3> QED BY <1>0, <3>1, <3>3 DEF Welcome
  <2> HIDE DEF r, t, b, k, m, i
  <2>8. Tidy(r, s, b, k) /\ Tidy(r, t, b, k)
    BY <1>1, <2>1, TidyScript DEF Silent
  <2>9. x = d => Tidy(r, s, Append(b, m), k) /\ Tidy(r, t, Append(b, m), k)
    BY <1>0, <2>5, <2>7, <2>8, TidyTold
  <2> QED BY <2>1, <2>2, <2>6, <2>8, <2>9
<1>9. ASSUME NEW c \in Conns, CheckUnload(c) PROVE Goal
  <2>1. req'[d] = r /\ inbox'[d] = b /\ client'[d] = k
    BY <1>9 DEF CheckUnload
  <2>2. (\E j \in DOMAIN todo'[d] : Answers(todo'[d][j])) => \E j \in DOMAIN t : Answers(t[j])
    <3>1. CASE todo' = [todo EXCEPT ![c] = << >>]
      <4>1. todo'[d] = IF d = c THEN << >> ELSE t
        BY <1>0, <3>1
      <4>2. d = c => DOMAIN todo'[d] = {}
        BY <4>1
      <4> QED BY <4>1, <4>2
    <3>2. CASE todo' = [x \in Conns |-> IF x = c THEN << >> ELSE [j \in DOMAIN todo[x] |-> Detached(todo[x][j])]]
      <4> SUFFICES ASSUME NEW j \in DOMAIN todo'[d], Answers(todo'[d][j]) PROVE \E i \in DOMAIN t : Answers(t[i])
        OBVIOUS
      <4>1. j \in DOMAIN todo[d] /\ todo[d][j] \in Instructions /\ todo'[d][j] = Detached(todo[d][j])
        BY <3>2, DetachedList
      <4>2. Detached(todo[d][j]).do = todo[d][j].do
            /\ (todo[d][j].do \notin {"op", "autosnap", "unload"} => Detached(todo[d][j]) = todo[d][j])
        BY <4>1, DetachedKind
      <4>3. Answers(todo[d][j])
        BY <4>1, <4>2 DEF Answers
      <4> QED BY <4>1, <4>3
    <3> QED BY <1>9, <3>1, <3>2, UnloadIs
  <2> DEFINE s == todo'[d]
  <2> HIDE DEF r, t, b, k, s
  <2>3. Tidy(r, s, b, k)
    BY <1>1, <2>2, TidyScript DEF s
  <2> QED BY <2>1, <2>3 DEF s
<1>10. ASSUME NEW c \in Conns, ClientActs(c) PROVE Goal
  <2>1. ~ ClientCloses(c) \/ c # d
    <3>1. ClientCloses(d) => link'[d] = "gone"
      <4>1. link \in [Conns -> Links]
        BY DEF Types, Registry
      <4> QED BY <4>1 DEF ClientCloses
    <3> QED BY <3>1
  <2>2. CASE ClientCloses(c) /\ c # d
    <3>1. req' = req /\ todo' = todo /\ inbox' = [inbox EXCEPT ![c] = << >>]
          /\ client' = [client EXCEPT ![c] = [@ EXCEPT !.waiting = FALSE]]
      BY <2>2 DEF ClientCloses
    <3>2. inbox'[d] = b /\ client'[d] = k
      BY <1>0, <2>2, <3>1
    <3> QED BY <1>2, <3>1, <3>2
  <2>3. CASE ~ ClientCloses(c)
    <3>1. ~ client[c].waiting /\ UNCHANGED <<todo, inbox, link>>
      BY <1>10, <2>3, ClientAsks
    <3>2. PICK m : /\ req' = [req EXCEPT ![c] = Append(@, m)]
                   /\ (~ Asks(m) /\ client' = client) \/ (Asks(m) /\ Waits(c))
      BY <1>10, <2>3, ClientAsks
    <3>3. req'[d] = IF c = d THEN Append(r, m) ELSE r
      BY <1>0, <3>2
    <3>4. \/ ~ Asks(m) /\ client'[d] = k
          \/ Asks(m) /\ c # d /\ client'[d] = k
          \/ c = d /\ client'[d].waiting /\ client'[d].text = k.text
      <4>1. CASE Waits(c) /\ Asks(m)
        <5>1. client'[d] = IF c = d THEN [k EXCEPT !.waiting = TRUE] ELSE k
          BY <1>0, <4>1 DEF Waits
        <5>2. k = [text |-> k.text, rev |-> k.rev, seen |-> k.seen, waiting |-> k.waiting]
          <6>1. k \in Clients
            BY <1>0
          <6> HIDE DEF k
          <6> QED BY <6>1 DEF Clients
        <5>3. [k EXCEPT !.waiting = TRUE].waiting = TRUE /\ [k EXCEPT !.waiting = TRUE].text = k.text
          <6> HIDE DEF k
          <6> QED BY <5>2
        <5> QED BY <4>1, <5>1, <5>3
      <4> QED BY <3>2, <4>1
    <3>5. CASE c # d
      BY <1>2, <3>1, <3>3, <3>4, <3>5
    <3>6. CASE c = d
      <4> DEFINE l == client'[d]
      <4>1. (~ Asks(m) /\ l = k) \/ (~ k.waiting /\ l.waiting /\ l.text = k.text)
        BY <3>1, <3>4, <3>6
      <4> HIDE DEF r, t, b, k, l
      <4>2. Tidy(Append(r, m), t, b, l)
        BY <1>0, <1>1, <4>1, TidyNew
      <4> QED BY <3>1, <3>3, <3>6, <4>2 DEF r, t, b, l
    <3> QED BY <3>5, <3>6
  <2> QED BY <2>1, <2>2, <2>3
<1>11. ASSUME NEW c \in Conns, ClientReceives(c) PROVE Goal
  <2>1. todo' = todo /\ req' = req /\ inbox' = [inbox EXCEPT ![c] = Tail(@)] /\ inbox[c] # << >>
    BY <1>11 DEF ClientReceives
  <2>2. PICK n \in Clients : /\ client' = [client EXCEPT ![c] = n]
                /\ (Head(inbox[c]).type = "doc_state" => (n.waiting = (client[c].waiting /\ client[c].text # NoText)))
                /\ (Head(inbox[c]).type = "remote_op" => n.waiting = client[c].waiting)
                /\ (Head(inbox[c]).type = "error" => n.text = client[c].text)
                /\ (Head(inbox[c]).type # "error" => n.text \in Texts)
    BY <1>11, ReceiptIs
  <2>3. CASE c # d
    <3>1. inbox'[d] = b /\ client'[d] = k
      BY <1>0, <2>1, <2>2, <2>3
    <3> QED BY <1>2, <2>1, <3>1
  <2>4. CASE c = d
    <3>1. inbox'[d] = Tail(b) /\ client'[d] = n /\ b # << >>
      BY <1>0, <2>1, <2>2, <2>4
    <3>2. Head(b).type \in {"error", "doc_state", "ack", "remote_op"}
      <4>1. Head(b) \in Messages
        BY <1>11, <2>4, ReceiptIs
      <4> QED BY <4>1, MessageIs
    <3>3. n.text = NoText => k.text = NoText
      BY <1>0, <2>2, <2>4
    <3>4. k.waiting \in BOOLEAN /\ n.waiting \in BOOLEAN
      BY <1>0 DEF Clients
    <3>5. \/ (Ends(Head(b)) \/ (Greeting(Head(b)) /\ k.text = NoText)) /\ (n.text = NoText => k.text = NoText)
             /\ (Greeting(Head(b)) => n.text # NoText)
          \/ ~ Ends(Head(b)) /\ n.waiting = k.waiting /\ (n.text = NoText => k.text = NoText)
      <4>1. Greeting(Head(b)) => n.text # NoText
        BY <1>0, <2>2, <2>4 DEF Greeting
      <4>2. CASE Head(b).type \in {"error", "ack"}
        BY <3>3, <4>1, <4>2 DEF Ends
      <4>3. CASE Head(b).type = "doc_state"
        <5>1. n.waiting = (k.waiting /\ k.text # NoText)
          BY <2>2, <2>4, <4>3
        <5> QED BY <3>3, <3>4, <4>1, <4>3, <5>1 DEF Ends, Greeting
      <4>4. CASE Head(b).type = "remote_op"
        BY <2>2, <2>4, <3>3, <4>4 DEF Ends
      <4> QED BY <3>2, <4>2, <4>3, <4>4
    <3> HIDE DEF r, t, b, k
    <3>6. Tidy(r, t, Tail(b), n)
      BY <1>0, <1>1, <3>1, <3>5, TidyReceived
    <3> QED BY <2>1, <3>1, <3>6 DEF r, t
  <2> QED BY <2>3, <2>4
<1>12. ASSUME NEW c \in Conns, Connect(c) PROVE Goal
  BY <1>2, <1>12 DEF Connect
<1>13. ~ Crash
  BY DEF Crash
<1>14. ASSUME Restart \/ UNCHANGED vars PROVE Goal
  BY <1>2, <1>14 DEF Restart, vars
<1>15. ASSUME NEW c \in Conns, Handle(c) PROVE Goal
  BY <1>3, <1>4, <1>15
<1>16. ASSUME NEW c \in Conns, Step(c) PROVE Goal
  BY <1>6, <1>7, <1>8, <1>9, <1>16 DEF Step
<1> HIDE DEF Goal
<1>17. Goal
  BY <1>10, <1>11, <1>12, <1>13, <1>14, <1>15, <1>16 DEF Next
<1> QED BY <1>17 DEF Goal

-----------------------------------------------------------------------------
(* What a client has sent is bounded.                                      *)

\* How many requests the clients' bounds have paid for.
Paid == used.cursors + used.saves + used.restores

Creates(m) == m.type = "create"
Tally(p) == IF p THEN 1 ELSE 0

\* The requests r that n bounded inputs, one awaited request and one creation
\* have room for.
Room(r, n) ==
  Len(r) <= n + Tally(\E j \in DOMAIN r : Asks(r[j])) + Tally(\E j \in DOMAIN r : Creates(r[j]))

\* No request in a queue that nothing paid for.
Spent ==
  /\ used.cursors <= MaxCursors /\ used.saves <= MaxSaves /\ used.restores <= MaxRestores
  /\ \A c \in Conns : Room(req[c], Paid)

\* A queue without its first request.
LEMMA RoomTaken ==
  ASSUME NEW S, NEW r \in Seq(S), r # << >>, NEW n \in Nat, Room(r, n)
  PROVE  Room(Tail(r), n)
<1> DEFINE u == Tail(r)
<1>1. /\ Head(r) = r[1] /\ 1 \in DOMAIN r
      /\ \A j \in DOMAIN u : j + 1 \in DOMAIN r /\ u[j] = r[j + 1] /\ j \in Nat
  BY TailIs
<1>2. Len(u) = Len(r) - 1 /\ Len(r) \in Nat /\ DOMAIN r = 1 .. Len(r) /\ DOMAIN u = 1 .. Len(r) - 1
  OBVIOUS
<1>3. \A j \in DOMAIN r : j = 1 \/ (j - 1 \in DOMAIN u /\ r[j] = u[j - 1])
  <2> SUFFICES ASSUME NEW j \in DOMAIN r, j # 1 PROVE j - 1 \in DOMAIN u /\ r[j] = u[j - 1]
    OBVIOUS
  <2>1. j \in Nat /\ j - 1 \in DOMAIN u /\ (j - 1) + 1 = j
    BY <1>2
  <2> QED BY <1>1, <2>1
<1> HIDE DEF u
<1>4. (\E j \in DOMAIN r : Asks(r[j])) => (Asks(Head(r)) \/ \E j \in DOMAIN u : Asks(u[j]))
  BY <1>1, <1>3
<1>5. (\E j \in DOMAIN r : Creates(r[j])) => (Creates(Head(r)) \/ \E j \in DOMAIN u : Creates(u[j]))
  BY <1>1, <1>3
<1>6. ~ (Asks(Head(r)) /\ Creates(Head(r)))
  BY DEF Asks, Creates
<1>7. ASSUME NEW a \in BOOLEAN, NEW b \in BOOLEAN, NEW e \in BOOLEAN, NEW f \in BOOLEAN, NEW x \in BOOLEAN,
             NEW y \in BOOLEAN, a => (x \/ e), b => (y \/ f), ~ (x /\ y), NEW l \in Nat, l <= n + Tally(a) + Tally(b)
      PROVE  l - 1 <= n + Tally(e) + Tally(f)
  BY <1>7 DEF Tally
<1> DEFINE a == \E j \in DOMAIN r : Asks(r[j])  b == \E j \in DOMAIN r : Creates(r[j])
           e == \E j \in DOMAIN u : Asks(u[j])  f == \E j \in DOMAIN u : Creates(u[j])
           x == Asks(Head(r))  y == Creates(Head(r))
<1>8. a \in BOOLEAN /\ b \in BOOLEAN /\ e \in BOOLEAN /\ f \in BOOLEAN /\ x \in BOOLEAN /\ y \in BOOLEAN
  BY DEF Asks, Creates
<1>9. Len(r) <= n + Tally(a) + Tally(b)
  BY DEF Room
<1> HIDE DEF a, b, e, f, x, y
<1>10. Len(r) - 1 <= n + Tally(e) + Tally(f)
  <2>1. (a => (x \/ e)) /\ (b => (y \/ f)) /\ ~ (x /\ y)
    BY <1>4, <1>5, <1>6 DEF a, b, e, f, x, y
  <2> QED BY <1>2, <1>7, <1>8, <1>9, <2>1
<1> QED BY <1>2, <1>10 DEF Room, e, f, u

\* A queue that stays has room when more has been paid for.
LEMMA RoomGrows ==
  ASSUME NEW S, NEW r \in Seq(S), NEW n \in Nat, NEW m \in Nat, n <= m, Room(r, n)
  PROVE  Room(r, m)
<1>1. Len(r) \in Nat
  OBVIOUS
<1> QED BY <1>1 DEF Room, Tally

\* A new request: paid for, the one the client waits for, or the creation of
\* the document.
LEMMA RoomNew ==
  ASSUME NEW S, NEW r \in Seq(S), NEW x, NEW n \in Nat, NEW m \in Nat, n <= m, Room(r, n),
         \/ m = n + 1
         \/ Asks(x) /\ \A j \in DOMAIN r : ~ Asks(r[j])
         \/ Creates(x) /\ r = << >>
  PROVE  Room(Append(r, x), m)
<1> DEFINE u == Append(r, x)  l == Len(r)
<1>1. Len(u) = l + 1 /\ l \in Nat /\ l + 1 \in DOMAIN u /\ u[l + 1] = x
      /\ \A j \in DOMAIN r : j \in DOMAIN u /\ u[j] = r[j]
  OBVIOUS
<1>2. r = << >> => l = 0
  OBVIOUS
<1>3. l <= n + Tally(\E j \in DOMAIN r : Asks(r[j])) + Tally(\E j \in DOMAIN r : Creates(r[j]))
  BY DEF Room
<1> HIDE DEF u, l
<1>4. (\E j \in DOMAIN r : Asks(r[j])) => \E j \in DOMAIN u : Asks(u[j])
  BY <1>1
<1>5. (\E j \in DOMAIN r : Creates(r[j])) => \E j \in DOMAIN u : Creates(u[j])
  BY <1>1
<1>6. (Asks(x) => \E j \in DOMAIN u : Asks(u[j])) /\ (Creates(x) => \E j \in DOMAIN u : Creates(u[j]))
  BY <1>1
<1> DEFINE a == \E j \in DOMAIN r : Asks(r[j])  b == \E j \in DOMAIN r : Creates(r[j])
           e == \E j \in DOMAIN u : Asks(u[j])  f == \E j \in DOMAIN u : Creates(u[j])
<1>7. (m = n + 1 \/ (e /\ ~ a) \/ (f /\ l = 0)) /\ (a => e) /\ (b => f) /\ l <= n + Tally(a) + Tally(b)
  BY <1>2, <1>3, <1>4, <1>5, <1>6
<1>8. a \in BOOLEAN /\ b \in BOOLEAN /\ e \in BOOLEAN /\ f \in BOOLEAN
  OBVIOUS
<1> HIDE DEF a, b, e, f
<1>9. l + 1 <= m + Tally(e) + Tally(f)
  BY <1>1, <1>7, <1>8 DEF Tally
<1> QED BY <1>1, <1>9 DEF Room, u, e, f

\* What a client's own step costs.
LEMMA ClientPays ==
  ASSUME Types, NEW c \in Conns, ClientActs(c)
  PROVE  \/ req' = req
         \/ \E m : /\ req' = [req EXCEPT ![c] = Append(@, m)]
                   /\ \/ Asks(m) /\ link[c] = "open" /\ ~ client[c].waiting
                      \/ Creates(m) /\ req[c] = << >>
                      \/ \/ Spend("cursors", MaxCursors)
                         \/ Spend("saves", MaxSaves)
                         \/ Spend("restores", MaxRestores)
<1> DEFINE Goal == \E m : /\ req' = [req EXCEPT ![c] = Append(@, m)]
                          /\ \/ Asks(m) /\ link[c] = "open" /\ ~ client[c].waiting
                             \/ Creates(m) /\ req[c] = << >>
                             \/ \/ Spend("cursors", MaxCursors)
                                \/ Spend("saves", MaxSaves)
                                \/ Spend("restores", MaxRestores)
<1>1. ASSUME NEW m, ClientSends(c, m),
             \/ Asks(m)
             \/ Creates(m) /\ req[c] = << >>
             \/ Spend("cursors", MaxCursors) \/ Spend("saves", MaxSaves) \/ Spend("restores", MaxRestores)
      PROVE  Goal
  BY <1>1 DEF ClientSends
<1> SUFFICES req' = req \/ Goal
  OBVIOUS
<1> HIDE DEF Goal
<1>2. CASE ClientJoins(c)
  <2> DEFINE m == [type |-> "join"]
  <2>1. ClientSends(c, m) /\ Asks(m)
    BY <1>2 DEF ClientJoins, Asks
  <2> HIDE DEF m
  <2> QED BY <1>1, <2>1
<1>3. CASE ClientEdits(c)
  <2>1. PICK op : ClientSends(c, [type |-> "edit", op |-> op, rev |-> client[c].rev, seen |-> client[c].text])
    BY <1>3 DEF ClientEdits
  <2> DEFINE m == [type |-> "edit", op |-> op, rev |-> client[c].rev, seen |-> client[c].text]
  <2>2. ClientSends(c, m) /\ Asks(m)
    BY <2>1 DEF Asks
  <2> HIDE DEF m
  <2> QED BY <1>1, <2>2
<1>4. CASE ClientMovesCursor(c)
  <2>1. PICK p : ClientSends(c, [type |-> "cursor", position |-> p])
    BY <1>4 DEF ClientMovesCursor
  <2> DEFINE m == [type |-> "cursor", position |-> p]
  <2>2. ClientSends(c, m) /\ Spend("cursors", MaxCursors)
    BY <1>4, <2>1 DEF ClientMovesCursor
  <2> HIDE DEF m
  <2> QED BY <1>1, <2>2
<1>5. CASE ClientSaves(c)
  <2> DEFINE m == [type |-> "save"]
  <2>1. ClientSends(c, m) /\ Spend("saves", MaxSaves)
    BY <1>5 DEF ClientSaves
  <2> HIDE DEF m
  <2> QED BY <1>1, <2>1
<1>6. CASE ClientRestores(c)
  <2>1. PICK v : ClientSends(c, [type |-> "restore", version |-> v])
    BY <1>6 DEF ClientRestores
  <2> DEFINE m == [type |-> "restore", version |-> v]
  <2>2. ClientSends(c, m) /\ Spend("restores", MaxRestores)
    BY <1>6, <2>1 DEF ClientRestores
  <2> HIDE DEF m
  <2> QED BY <1>1, <2>2
<1>7. CASE ClientCreates(c)
  <2> DEFINE m == [type |-> "create"]
  <2>1. ClientSends(c, m) /\ Creates(m) /\ req[c] = << >>
    BY <1>7 DEF ClientCreates, Creates
  <2> HIDE DEF m
  <2> QED BY <1>1, <2>1
<1>8. CASE ClientCloses(c)
  BY <1>8 DEF ClientCloses
<1> QED BY <1>2, <1>3, <1>4, <1>5, <1>6, <1>7, <1>8 DEF ClientActs

\* The bounded inputs are only ever added to, one at a time.
LEMMA PaidGrows ==
  ASSUME Types, Spent, [Next]_vars
  PROVE  /\ Paid \in Nat /\ Paid' \in Nat /\ Paid <= Paid'
         /\ (used.cursors <= MaxCursors /\ used.saves <= MaxSaves /\ used.restores <= MaxRestores)'
         /\ Spend("cursors", MaxCursors) \/ Spend("saves", MaxSaves) \/ Spend("restores", MaxRestores)
              => Paid' = Paid + 1
<1>0. CounterTypes /\ CounterTypes'
  BY CounterStep DEF Types
<1>1. used.cursors \in Nat /\ used.saves \in Nat /\ used.restores \in Nat
      /\ used'.cursors \in Nat /\ used'.saves \in Nat /\ used'.restores \in Nat
  BY <1>0 DEF CounterTypes
<1>2. MaxCursors \in Nat /\ MaxSaves \in Nat /\ MaxRestores \in Nat
  BY DocAssumption
<1>3. used.cursors <= MaxCursors /\ used.saves <= MaxSaves /\ used.restores <= MaxRestores
  BY DEF Spent
<1> DEFINE Goal == /\ Paid <= Paid'
                   /\ used'.cursors <= MaxCursors /\ used'.saves <= MaxSaves /\ used'.restores <= MaxRestores
           Dear == Spend("cursors", MaxCursors) \/ Spend("saves", MaxSaves) \/ Spend("restores", MaxRestores)
<1>4. ASSUME Spend("cursors", MaxCursors) PROVE Goal /\ Paid' = Paid + 1
  <2>1. used.cursors < MaxCursors /\ used'.cursors = used.cursors + 1 /\ used'.saves = used.saves /\ used'.restores = used.restores
    BY <1>0, <1>4, SpendTyped
  <2> QED BY <1>1, <1>2, <1>3, <2>1 DEF Paid
<1>5. ASSUME Spend("saves", MaxSaves) PROVE Goal /\ Paid' = Paid + 1
  <2>1. used.saves < MaxSaves /\ used'.saves = used.saves + 1 /\ used'.cursors = used.cursors /\ used'.restores = used.restores
    BY <1>0, <1>5, SpendTyped
  <2> QED BY <1>1, <1>2, <1>3, <2>1 DEF Paid
<1>6. ASSUME Spend("restores", MaxRestores) PROVE Goal /\ Paid' = Paid + 1
  <2>1. used.restores < MaxRestores /\ used'.restores = used.restores + 1 /\ used'.cursors = used.cursors /\ used'.saves = used.saves
    BY <1>0, <1>6, SpendTyped
  <2> QED BY <1>1, <1>2, <1>3, <2>1 DEF Paid
<1>7. ASSUME used' = used \/ Spend("edits", MaxEdits) \/ Spend("closes", MaxCloses) \/ Spend("crashes", MaxCrashes) PROVE Goal
  <2>1. used'.cursors = used.cursors /\ used'.saves = used.saves /\ used'.restores = used.restores
    BY <1>0, <1>7, SpendTyped
  <2> QED BY <1>1, <1>2, <1>3, <2>1 DEF Paid
<1>8. \/ used' = used \/ Spend("edits", MaxEdits) \/ Spend("closes", MaxCloses) \/ Spend("crashes", MaxCrashes) \/ Dear
  <2>1. ASSUME NEW c \in Conns, Handle(c) PROVE used' = used
    BY <2>1 DEF Handle, HandleJoin, HandleEdit, HandleCursorUpdate, HandleSaveSnapshot, HandleRestoreVersion,
                HandleCreateDoc, HandleDisconnect
  <2>2. ASSUME NEW c \in Conns, Step(c) \/ Connect(c) \/ ClientReceives(c) PROVE used' = used
    BY <2>2 DEF Step, SendReply, SendNext, BeginBroadcast, CheckAutoSnapshot, CheckUnload, Connect, ClientReceives
  <2>3. ASSUME NEW c \in Conns, ClientActs(c)
        PROVE  used' = used \/ Spend("edits", MaxEdits) \/ Spend("closes", MaxCloses) \/ Dear
    BY <2>3 DEF ClientActs, ClientJoins, ClientEdits, ClientMovesCursor, ClientSaves, ClientRestores, ClientCreates,
                ClientCloses
  <2>4. Crash => Spend("crashes", MaxCrashes)
    BY DEF Crash
  <2>5. Restart \/ UNCHANGED vars => used' = used
    BY DEF Restart, vars
  <2> HIDE DEF Dear
  <2> QED BY <2>1, <2>2, <2>3, <2>4, <2>5 DEF Next
<1>9. Goal
  <2> HIDE DEF Goal
  <2> QED BY <1>4, <1>5, <1>6, <1>7, <1>8
<1>10. Paid \in Nat /\ Paid' \in Nat
  BY <1>1 DEF Paid
<1> QED BY <1>4, <1>5, <1>6, <1>9, <1>10

\* No handler or client leaves a request that nothing paid for.
LEMMA SpentStep == Types /\ Awaited /\ Spent /\ [Next]_vars => Spent'
<1> SUFFICES ASSUME Types, Awaited, Spent, [Next]_vars PROVE Spent'
  OBVIOUS
<1> DEFINE n == Paid  m == Paid'  Goal(d) == Room(req'[d], m)
<1>1. n \in Nat /\ m \in Nat /\ n <= m
      /\ (used.cursors <= MaxCursors /\ used.saves <= MaxSaves /\ used.restores <= MaxRestores)'
      /\ (Spend("cursors", MaxCursors) \/ Spend("saves", MaxSaves) \/ Spend("restores", MaxRestores) => m = n + 1)
  BY PaidGrows
<1> HIDE DEF n, m
<1>2. ASSUME NEW d \in Conns PROVE Goal(d)
  <2> DEFINE R == Requests  r == req[d]
  <2>1. r \in Seq(R) /\ req \in [Conns -> Seq(R)]
    BY DEF Types, QueueTypes
  <2>2. Room(r, n)
    BY DEF Spent, n
  <2> HIDE DEF R
  <2>3. CASE req'[d] = r
    BY <1>1, <2>1, <2>2, <2>3, RoomGrows
  <2>4. CASE req'[d] = << >>
    <3>1. Len(req'[d]) = 0
      BY <2>4
    <3>2. Room(req'[d], m)
      BY <1>1, <3>1 DEF Room, Tally
    <3> QED BY <3>2
  <2>5. CASE r # << >> /\ req'[d] = Tail(r)
    <3> DEFINE u == Tail(r)
    <3>1. Room(u, n) /\ u \in Seq(R)
      BY <1>1, <2>1, <2>2, <2>5, RoomTaken
    <3> HIDE DEF u
    <3>2. Room(u, m)
      BY <1>1, <3>1, RoomGrows
    <3> QED BY <2>5, <3>2 DEF u
  <2>6. CASE ClientActs(d)
    <3>1. CASE req' = req
      BY <2>3, <3>1
    <3>2. ASSUME NEW x, req' = [req EXCEPT ![d] = Append(@, x)],
                 \/ Asks(x) /\ link[d] = "open" /\ ~ client[d].waiting
                 \/ Creates(x) /\ r = << >>
                 \/ Spend("cursors", MaxCursors) \/ Spend("saves", MaxSaves) \/ Spend("restores", MaxRestores)
          PROVE  Goal(d)
      <4>1. req'[d] = Append(r, x)
        BY <2>1, <3>2
      <4>2. Asks(x) /\ link[d] = "open" /\ ~ client[d].waiting => \A j \in DOMAIN r : ~ Asks(r[j])
        BY DEF Awaited, Tidy
      <4> HIDE DEF r
      <4>3. \/ m = n + 1
            \/ Asks(x) /\ \A j \in DOMAIN r : ~ Asks(r[j])
            \/ Creates(x) /\ r = << >>
        BY <1>1, <3>2, <4>2
      <4>4. Room(Append(r, x), m)
        BY <1>1, <2>1, <2>2, <4>3, RoomNew
      <4> QED BY <4>1, <4>4
    <3> QED BY <2>6, <3>1, <3>2, ClientPays
  <2>7. \/ req'[d] = r \/ req'[d] = << >> \/ (r # << >> /\ req'[d] = Tail(r)) \/ ClientActs(d)
    BY ReqIs
  <2> QED BY <2>3, <2>4, <2>5, <2>6, <2>7
<1> QED BY <1>1, <1>2 DEF Spent, m

\* The inductive invariant, with one queue per wait and room for every request.
LEMMA SpentAlways == Spec => [](Types /\ Orderly /\ Awaited /\ Spent)
<1>1. Init => Orderly /\ Awaited /\ Spent
  <2> SUFFICES ASSUME Init PROVE Orderly /\ Awaited /\ Spent
    OBVIOUS
  <2>1. ASSUME NEW c \in Conns PROVE req[c] = << >> /\ todo[c] = << >> /\ inbox[c] = << >> /\ link[c] = "new"
    BY <2>1 DEF Init
  <2>2. Orderly
    BY <2>1 DEF Orderly
  <2>3. Awaited
    BY <2>1 DEF Awaited
  <2>4. used.cursors = 0 /\ used.saves = 0 /\ used.restores = 0
    BY DEF Init
  <2>5. Room(<< >>, 0)
    <3>1. Len(<< >>) = 0
      OBVIOUS
    <3> QED BY <3>1 DEF Room, Tally
  <2>6. Spent
    BY <2>1, <2>4, <2>5, DocAssumption DEF Spent, Paid
  <2> QED BY <2>2, <2>3, <2>6
<1>2. Types /\ Orderly /\ Awaited /\ Spent /\ [Next]_vars => (Types /\ Orderly /\ Awaited /\ Spent)'
  BY TypesStep, OrderlyStep, AwaitedStep, SpentStep
<1> QED BY <1>1, <1>2, TypesInit, PTL DEF Spec

\* TypeOK: every variable holds what the code puts there, and a client's queue
\* of requests never exceeds what its bounds and its one awaited answer allow.
THEOREM DocTypeOK == Spec => []TypeOK
<1>1. Types /\ Spent => TypeOK
  <2> SUFFICES ASSUME Types, Spent PROVE TypeOK
    OBVIOUS
  <2>1. up \in BOOLEAN /\ loop \in Conns \cup {Free}
    BY DEF Types, MemoryTypes
  <2>2. \/ doc = NotLoaded
        \/ doc.text \in Texts /\ doc.version \in Nat /\ doc.pending \in Nat /\ doc.log \in Seq(Ops)
    <3>1. CASE doc \in Documents
      <4>1. doc.text \in Texts /\ doc.version \in Nat /\ doc.pending \in Nat /\ doc.log \in Seq(Made)
        BY <3>1 DEF Documents
      <4>2. doc.log \in Seq(Ops)
        BY <4>1, MadeAreOps
      <4> QED BY <4>1, <4>2
    <3> QED BY <3>1 DEF Types, MemoryTypes
  <2>3. DOMAIN session \subseteq Users /\ \A u \in DOMAIN session :
           session[u] \in [ws : Conns, cursor : Nat, role : {"owner", "editor", "viewer"}]
    BY DEF Types, SessionTypes, Entries, Permissions
  <2>4. link \in [Conns -> {"new", "open", "gone", "done"}] /\ joined \in [Conns -> BOOLEAN]
    BY DEF Types, Registry, Links
  <2>5. DOMAIN presence \subseteq Users /\ Range(presence) \subseteq Nat
    BY DEF Types, SessionTypes, Range
  <2>6. DOMAIN db.snaps \subseteq Nat /\ Range(db.snaps) \subseteq Texts
    BY DEF Types, Versions, HistoryOK, Numbered, RowTypes, Range
  <2>7. db.ops \in Seq([version : Nat, op : Ops]) /\ db.current \in Nat
    BY DEF Types, Versions, HistoryOK, RowTypes, Rows
  <2>8. ASSUME NEW c \in Conns
        PROVE  /\ client[c].text \in Texts \cup {NoText}
               /\ client[c].rev \in Nat /\ client[c].seen \in Nat
               /\ Len(req[c]) <= 2 + MaxCursors + MaxSaves + MaxRestores
    <3>1. client[c] \in Clients
      BY DEF Types, ClientTypes
    <3>2. Len(req[c]) \in Nat
      <4> DEFINE R == Requests  r == req[c]
      <4>1. r \in Seq(R)
        BY DEF Types, QueueTypes
      <4> HIDE DEF R, r
      <4> QED BY <4>1 DEF r
    <3>3. used.cursors \in Nat /\ used.saves \in Nat /\ used.restores \in Nat
      BY DEF Types, CounterTypes
    <3>4. MaxCursors \in Nat /\ MaxSaves \in Nat /\ MaxRestores \in Nat
      BY DocAssumption
    <3>5. \A p : Tally(p) \in {0, 1}
      BY DEF Tally
    <3>6. PICK x \in {0, 1}, y \in {0, 1} : Len(req[c]) <= Paid + x + y
      BY <3>5 DEF Spent, Room
    <3>7. Len(req[c]) <= 2 + MaxCursors + MaxSaves + MaxRestores
      <4>1. used.cursors <= MaxCursors /\ used.saves <= MaxSaves /\ used.restores <= MaxRestores
        BY DEF Spent
      <4>2. Len(req[c]) <= (used.cursors + used.saves + used.restores) + x + y
        BY <3>6 DEF Paid
      <4>3. x \in Nat /\ y \in Nat /\ x <= 1 /\ y <= 1
        BY x \in {0, 1}, y \in {0, 1}
      <4>4. \A a, b, d, k, l, m \in Nat : a <= k /\ b <= l /\ d <= m => (a + b + d) + x + y <= 2 + k + l + m
        BY ONLY <4>3
      <4>5. (used.cursors + used.saves + used.restores) + x + y <= 2 + MaxCursors + MaxSaves + MaxRestores
        BY ONLY <3>3, <3>4, <4>1, <4>4
      <4> DEFINE l == Len(req[c])  m == (used.cursors + used.saves + used.restores) + x + y
                 n == 2 + MaxCursors + MaxSaves + MaxRestores
      <4>6. l \in Nat /\ m \in Nat /\ n \in Nat /\ l <= m /\ m <= n
        BY ONLY <3>2, <3>3, <3>4, <4>2, <4>3, <4>5
      <4> HIDE DEF l, m, n
      <4>7. l <= n
        BY ONLY <4>6
      <4> QED BY ONLY <4>7 DEF l, n
    <3> QED BY <3>1, <3>7 DEF Clients
  <2> QED BY <2>1, <2>2, <2>3, <2>4, <2>5, <2>6, <2>7, <2>8 DEF TypeOK
<1> QED BY <1>1, SpentAlways, PTL

-----------------------------------------------------------------------------
(* Where handlers take turns: an editor keeps its document.                *)

\* No two connections are one user's.
Apart == \A c, d \in Conns : UserOf[c] = UserOf[d] => c = d

\* Where no send suspends its handler, handlers run one after the other, each
\* to its end; and the check for an empty session asks the session there is.
Turns ==
  \A c \in Conns :
    /\ todo[c] # << >> => loop = c
    /\ \A k \in DOMAIN todo[c] : todo[c][k].do = "unload" => todo[c][k].session = "live"

\* A client that has the text, or whose join is about to answer it, is in the
\* session; one that has not connected has no text.
Member(c) ==
  /\ link[c] = "new" => client[c].text = NoText
  /\ link[c] = "open" /\ (Welcome(c) \/ Joining(c)) => InSession(c)

\* A session has its document in memory, and its editors in it.
Kept ==
  /\ DOMAIN session # {} => Loaded
  /\ \A c \in Conns : Member(c)

\* A handler that does not stop keeps the loop.
LEMMA LoopIs ==
  ASSUME Slow = {}, NEW c \in Conns, Handle(c) \/ (Step(c) /\ ~ CheckUnload(c))
  PROVE  \E s : todo' = [todo EXCEPT ![c] = s] /\ (loop' = c \/ (s = << >> /\ loop' = Free))
<1>1. ASSUME NEW s, Runs(c, s) PROVE \E t : todo' = [todo EXCEPT ![c] = t] /\ (loop' = c \/ (t = << >> /\ loop' = Free))
  BY <1>1 DEF Runs
<1>2. ASSUME NEW s, NEW d, Sent(c, d, s) PROVE \E t : todo' = [todo EXCEPT ![c] = t] /\ (loop' = c \/ (t = << >> /\ loop' = Free))
  BY <1>2 DEF Sent
<1>3. CASE Handle(c)
  <2>1. \E s : Runs(c, s)
    BY <1>3 DEF Handle, HandleJoin, HandleEdit, HandleCursorUpdate, HandleSaveSnapshot, HandleRestoreVersion, HandleCreateDoc,
                HandleDisconnect
  <2> QED BY <1>1, <2>1
<1>4. CASE SendReply(c)
  <2>1. (\E s : Sent(c, c, s)) \/ (todo' = [todo EXCEPT ![c] = << >>] /\ loop' = c)
    BY <1>4 DEF SendReply
  <2> QED BY <1>2, <2>1
<1>5. CASE SendNext(c)
  <2>1. \E d, s : Sent(c, d, s)
    BY <1>5 DEF SendNext
  <2> QED BY <1>2, <2>1
<1>6. CASE BeginBroadcast(c) \/ CheckAutoSnapshot(c)
  <2>1. \E s : Runs(c, s)
    BY <1>6 DEF BeginBroadcast, CheckAutoSnapshot
  <2> QED BY <1>1, <2>1
<1> QED BY <1>3, <1>4, <1>5, <1>6 DEF Step

\* A handler at work, and no other.
LEMMA OneAtWork ==
  ASSUME Turns, NEW c \in Conns, Handle(c) \/ Step(c)
  PROVE  \A d \in Conns : d # c => todo[d] = << >>
<1>1. loop \in {Free, c}
  BY DEF Handle, HandleJoin, HandleEdit, HandleCursorUpdate, HandleSaveSnapshot, HandleRestoreVersion, HandleCreateDoc,
         HandleDisconnect, Takes, Step, SendReply, SendNext, BeginBroadcast, CheckAutoSnapshot, CheckUnload, Running
<1> QED BY <1>1, DocAssumption DEF Turns

\* Handlers keep taking turns.
LEMMA TurnsStep == Slow = {} /\ Types /\ Turns /\ [Next]_vars => Turns'
<1> SUFFICES ASSUME Slow = {}, Types, Turns, [Next]_vars, NEW d \in Conns
             PROVE  /\ todo'[d] # << >> => loop' = d
                    /\ \A k \in DOMAIN todo'[d] : todo'[d][k].do = "unload" => todo'[d][k].session = "live"
  BY DEF Turns
<1> DEFINE Goal == /\ todo'[d] # << >> => loop' = d
                   /\ \A k \in DOMAIN todo'[d] : todo'[d][k].do = "unload" => todo'[d][k].session = "live"
<1>0. todo \in [Conns -> Seq(Instructions)]
  BY DEF Types, QueueTypes
<1>1. ASSUME todo'[d] = << >> PROVE Goal
  <2>1. DOMAIN todo'[d] = {}
    BY <1>1
  <2> QED BY <1>1, <2>1
<1>2. ASSUME UNCHANGED <<todo, loop>> PROVE Goal
  BY <1>2 DEF Turns
<1> SUFFICES Goal
  OBVIOUS
<1>3. ASSUME NEW c \in Conns, Handle(c) \/ (Step(c) /\ ~ CheckUnload(c)) PROVE Goal
  <2>1. PICK s : todo' = [todo EXCEPT ![c] = s] /\ (loop' = c \/ (s = << >> /\ loop' = Free))
    BY <1>3, LoopIs
  <2>2. PICK t : todo' = [todo EXCEPT ![c] = t] /\ Scheduled(c, t)
    BY <1>3, ScriptIs
  <2>3. todo'[c] = s /\ todo'[c] = t /\ (d # c => todo'[d] = todo[d])
    BY <1>0, <2>1, <2>2
  <2>4. d # c => todo[d] = << >>
    BY <1>3, OneAtWork
  <2>5. \A k \in DOMAIN t : t[k].do = "unload" => t[k].session = "live"
    <3> SUFFICES ASSUME NEW k \in DOMAIN t, t[k].do = "unload" PROVE t[k].session = "live"
      OBVIOUS
    <3>1. Fresh(c, t[k]) \/ \E j \in DOMAIN todo[c] : t[k] = todo[c][j]
      BY <2>2 DEF Scheduled
    <3> QED BY <3>1 DEF Fresh, Turns
  <2> QED BY <1>1, <2>1, <2>3, <2>4, <2>5
<1>4. ASSUME NEW c \in Conns, CheckUnload(c) PROVE Goal
  <2>1. todo[d] = << >> \/ d = c
    BY <1>4, OneAtWork DEF Step
  <2>2. todo'[d] = << >>
    <3>1. CASE todo' = [todo EXCEPT ![c] = << >>]
      BY <1>0, <2>1, <3>1
    <3>2. CASE todo' = [x \in Conns |-> IF x = c THEN << >> ELSE [j \in DOMAIN todo[x] |-> Detached(todo[x][j])]]
      <4>1. d # c => DOMAIN todo'[d] = DOMAIN todo[d] /\ DOMAIN todo[d] = {}
        BY <2>1, <3>2
      <4>2. todo' \in [Conns -> Seq(Instructions)]
        BY QueueStep DEF QueueTypes
      <4> DEFINE s == todo'[d]  I == Instructions
      <4>3. d = c => s = << >>
        BY <3>2
      <4>4. d # c => s \in Seq(I) /\ DOMAIN s = {}
        BY <4>1, <4>2
      <4> HIDE DEF s, I
      <4>5. s = << >>
        BY <4>3, <4>4
      <4> QED BY <4>5 DEF s
    <3> QED BY <1>4, <3>1, <3>2, UnloadIs
  <2> QED BY <1>1, <2>2
<1>5. ASSUME NEW c \in Conns, Connect(c) \/ ClientReceives(c) \/ ClientActs(c) PROVE Goal
  BY <1>2, <1>5, WhoActs
<1>6. ASSUME Crash PROVE Goal
  BY <1>1, <1>6 DEF Crash
<1>7. ASSUME Restart \/ UNCHANGED vars PROVE Goal
  BY <1>2, <1>7 DEF Restart, vars
<1> HIDE DEF Goal
<1> QED BY <1>3, <1>4, <1>5, <1>6, <1>7 DEF Next, Step

\* Who had no text or welcome has one only from a handler that greets it.
LEMMA WelcomeBefore ==
  ASSUME Types, Turns, [Next]_vars, NEW d \in Conns, link[d] = "open", (Welcome(d))'
  PROVE  Welcome(d) \/ Joining(d)
<1>0. (Welcome(d))' <=> (client'[d].text \in Texts \/ \E j \in DOMAIN inbox'[d] : Greeting(inbox'[d][j]))
  BY DEF Welcome, Greeting
<1>1. ASSUME client'[d].text \in Texts, ~ ClientReceives(d) PROVE Welcome(d)
  BY <1>1, TextStays DEF Welcome
<1>2. CASE ClientReceives(d)
  <2> DEFINE M == Messages  b == inbox[d]
  <2>1. b \in Seq(M) /\ b # << >> /\ inbox'[d] = Tail(b)
    BY <1>2, ReceivedOne
  <2> HIDE DEF M, b
  <2>2. Head(b) = b[1] /\ 1 \in DOMAIN b /\ \A j \in DOMAIN Tail(b) : j + 1 \in DOMAIN b /\ Tail(b)[j] = b[j + 1]
    BY <2>1, TailIs
  <2>3. CASE \E j \in DOMAIN inbox'[d] : Greeting(inbox'[d][j])
    BY <2>1, <2>2, <2>3 DEF Welcome, b
  <2>4. CASE client'[d].text \in Texts
    <3>1. PICK n \in Clients : /\ client' = [client EXCEPT ![d] = n]
                               /\ (Head(inbox[d]).type = "error" => n.text = client[d].text)
      BY <1>2, ReceiptIs
    <3>2. client'[d] = n
      <4>1. client \in [Conns -> Clients]
        BY DEF Types, ClientTypes
      <4> HIDE DEF Clients
      <4> QED BY <3>1, <4>1
    <3>3. Head(inbox[d]) \in Messages /\ (NeedsText(Head(inbox[d])) => client[d].text \in Texts)
      BY <1>2, ReceiptIs
    <3>4. Head(inbox[d]).type \in {"error", "doc_state", "ack", "remote_op"}
      BY <3>3, MessageIs
    <3>5. Head(inbox[d]).type = "doc_state" => Welcome(d)
      BY <2>2 DEF Welcome, Greeting, b
    <3> QED BY <2>4, <3>1, <3>2, <3>3, <3>4, <3>5 DEF Welcome, NeedsText
  <2> QED BY <1>0, <2>3, <2>4
<1>3. CASE inbox'[d] = inbox[d] /\ ~ ClientReceives(d)
  BY <1>0, <1>1, <1>3 DEF Welcome
<1>4. CASE inbox'[d] = << >> /\ ~ ClientReceives(d)
  <2>1. DOMAIN inbox'[d] = {}
    BY <1>4
  <2> QED BY <1>0, <1>1, <1>4, <2>1
<1>5. ASSUME NEW m \in Messages, inbox'[d] = Append(inbox[d], m), Greeting(m), NEW c \in Conns, SendReply(c) \/ SendNext(c)
      PROVE  Welcome(d) \/ Joining(d)
  <2> DEFINE M == Messages  b == inbox[d]
  <2>0. inbox \in [Conns -> Seq(M)] /\ b \in Seq(M) /\ todo \in [Conns -> Seq(Instructions)]
    BY DEF Types, QueueTypes
  <2> DEFINE i == Head(todo[c])
  <2>1. todo[c] # << >> /\ i = todo[c][1] /\ 1 \in DOMAIN todo[c] /\ (i.do = "reply" \/ i.do = "broadcast")
    <3> DEFINE all == todo[c]  I == Instructions
    <3>1. all \in Seq(I) /\ all # << >> /\ (Head(all).do = "reply" \/ Head(all).do = "broadcast")
      BY <1>5, <2>0 DEF SendReply, SendNext, Running
    <3> HIDE DEF all, I
    <3>2. Head(all) = all[1] /\ 1 \in DOMAIN all
      BY <3>1, TailIs
    <3> QED BY <3>1, <3>2 DEF all
  <2>2. ASSUME SendReply(c) PROVE i.do = "reply" /\ Deliver(c, i.msg)
    <3>1. UNCHANGED inbox \/ (i.do = "reply" /\ Deliver(c, i.msg))
      BY <2>2 DEF SendReply, Running
    <3>2. inbox' # inbox
      <4>1. Len(Append(b, m)) # Len(b)
        <5> HIDE DEF b, M
        <5> QED BY <2>0
      <4> QED BY <1>5, <4>1
    <3> QED BY <3>1, <3>2
  <2>7. ASSUME SendNext(c) PROVE \E x : i.do = "broadcast" /\ x \in i.to /\ Deliver(x, i.msg)
    <3>1. i.do = "broadcast"
      BY <2>7 DEF SendNext, Running
    <3>2. \E x \in i.to : Deliver(x, i.msg)
      BY <2>7 DEF SendNext
    <3> QED BY <3>1, <3>2
  <2>3. PICK x : /\ \/ i.do = "broadcast" /\ x \in i.to
                    \/ x = c /\ i.do = "reply"
                 /\ Deliver(x, i.msg)
    BY <1>5, <2>2, <2>7
  <2>4. x = d /\ m = i.msg
    <3>1. UNCHANGED inbox \/ inbox' = [inbox EXCEPT ![x] = Append(@, i.msg)]
      BY <2>3 DEF Deliver
    <3> DEFINE n == i.msg
    <3> HIDE DEF M, n
    <3>2. inbox'[d] = b \/ (x = d /\ inbox'[d] = Append(b, n))
      BY <2>0, <3>1 DEF n
    <3> HIDE DEF b
    <3>3. Len(Append(b, m)) = Len(b) + 1 /\ Len(b) \in Nat
      BY <2>0
    <3>4. Append(b, m) # b
      BY <3>3
    <3>5. Append(b, m)[Len(b) + 1] = m /\ Append(b, n)[Len(b) + 1] = n
      BY <2>0
    <3> QED BY <1>5, <3>2, <3>4, <3>5 DEF b, n
  <2>5. CASE i.do = "broadcast" /\ x \in i.to
    <3>1. Listed(d)
      BY <2>1, <2>4, <2>5 DEF Listed
    <3> QED BY <3>1 DEF Types, Greeted
  <2>6. CASE x = c /\ i.do = "reply"
    <3>1. loop = d
      BY <2>1, <2>4, <2>6 DEF Turns
    <3> QED BY <1>5, <2>1, <2>4, <2>6, <3>1 DEF Joining
  <2> QED BY <2>3, <2>5, <2>6
<1>6. ASSUME NEW m \in Messages, inbox'[d] = Append(inbox[d], m), ~ Greeting(m), ~ ClientReceives(d)
      PROVE  Welcome(d)
  <2> DEFINE M == Messages  b == inbox[d]
  <2>0. b \in Seq(M)
    BY DEF Types, QueueTypes
  <2> HIDE DEF M, b
  <2>1. \A j \in DOMAIN Append(b, m) : (j \in DOMAIN b /\ Append(b, m)[j] = b[j])
                                        \/ (j = Len(b) + 1 /\ Append(b, m)[j] = m /\ j \notin DOMAIN b)
    BY <2>0, AppendIs
  <2>2. CASE client'[d].text \in Texts
    BY <1>1, <1>6, <2>2
  <2>3. CASE \E j \in DOMAIN inbox'[d] : Greeting(inbox'[d][j])
    BY <1>6, <2>1, <2>3 DEF Welcome, b
  <2> QED BY <1>0, <2>2, <2>3
<1>7. \/ inbox'[d] = inbox[d] \/ inbox'[d] = << >> \/ ClientReceives(d)
      \/ \E m \in Messages, c \in Conns : inbox'[d] = Append(inbox[d], m) /\ (SendReply(c) \/ SendNext(c))
  BY InboxIs
<1> QED BY <1>2, <1>3, <1>4, <1>5, <1>6, <1>7

\* A handler about to greet was about to, or has just put its user into the
\* session.
LEMMA JoiningBefore ==
  ASSUME Types, Orderly, Turns, [Next]_vars, NEW d \in Conns, (Joining(d))'
  PROVE  Joining(d) \/ (HandleJoin(d) /\ (InSession(d))')
<1>0. todo \in [Conns -> Seq(Instructions)] /\ loop' = d /\ todo'[d] # << >> /\ Head(todo'[d]).do = "reply"
      /\ Greeting(Head(todo'[d]).msg) /\ d # Free
  BY DocAssumption DEF Types, QueueTypes, Joining, Greeting
<1>1. ASSUME todo'[d] = todo[d] PROVE Joining(d)
  BY <1>0, <1>1 DEF Joining, Turns
<1>2. ASSUME NEW c \in Conns, Handle(c) \/ (Step(c) /\ ~ CheckUnload(c)), todo'[d] # todo[d]
      PROVE  HandleJoin(d) /\ (InSession(d))'
  <2>1. PICK s \in Seq(Instructions) : /\ todo' = [todo EXCEPT ![c] = s]
                                       /\ Silent(s) \/ HandleJoin(c) \/ HandleEdit(c)
    BY <1>2, WhoAnswers
  <2>2. c = d /\ todo'[d] = s
    BY <1>0, <1>2, <2>1
  <2>3. ~ Silent(s)
    <3>1. Head(s) = s[1] /\ 1 \in DOMAIN s
      <4> HIDE DEF Instructions
      <4> QED BY <1>0, <2>2, TailIs
    <3>2. Head(s).msg # Note
      BY <1>0, <2>2 DEF Greeting, Note
    <3> QED BY <1>0, <2>2, <3>1, <3>2 DEF Silent, Answers
  <2>4. CASE HandleJoin(d)
    <3> DEFINE e == [ws |-> d, cursor |-> 0, role |-> db.collab[UserOf[d]]]
    <3>1. \/ Runs(d, << Reply(Error) >>)
          \/ session' = Bind(session, UserOf[d], e)
      BY <2>4 DEF HandleJoin
    <3>2. CASE Runs(d, << Reply(Error) >>)
      <4>1. todo'[d] = << Reply(Error) >>
        BY <1>0, <3>2 DEF Runs
      <4>2. Head(todo'[d]) = Reply(Error)
        BY <4>1
      <4> QED BY <1>0, <4>2 DEF Greeting, Reply, Error
    <3>3. CASE session' = Bind(session, UserOf[d], e)
      <4>1. UserOf[d] \in DOMAIN session' /\ session'[UserOf[d]] = e
        BY <3>3 DEF Bind
      <4>2. e.ws = d
        OBVIOUS
      <4> QED BY <2>4, <4>1, <4>2 DEF InSession
    <3> QED BY <3>1, <3>2, <3>3
  <2>5. CASE HandleEdit(d)
    <3> DEFINE ops == Applied(Head(req[d]))  n == Len(doc.log \o ops)  x == Reply(Ack(ops, n))
               f == [k \in DOMAIN ops |-> SendOp(ops[k])]
    <3>1. Runs(d, << Reply(Error) >>) \/ (Loaded /\ Runs(d, << x >> \o f \o << AutoSnapshot >>))
      BY <2>5 DEF HandleEdit
    <3>2. CASE Runs(d, << Reply(Error) >>)
      <4>1. todo'[d] = << Reply(Error) >>
        BY <1>0, <3>2 DEF Runs
      <4>2. Head(todo'[d]) = Reply(Error)
        BY <4>1
      <4> QED BY <1>0, <4>2 DEF Greeting, Reply, Error
    <3>3. CASE Loaded /\ Runs(d, << x >> \o f \o << AutoSnapshot >>)
      <4>1. ops \in Seq(Made)
        BY <2>5, <3>3, EditIs
      <4> HIDE DEF n, ops
      <4>2. todo'[d] = << x >> \o f \o << AutoSnapshot >>
        BY <1>0, <3>3 DEF Runs
      <4> DEFINE l == Len(ops)
      <4>3. l \in Nat /\ DOMAIN ops = 1 .. l
        <5> DEFINE M == Made
        <5>1. ops \in Seq(M)
          BY <4>1
        <5> HIDE DEF M
        <5> QED BY <5>1
      <4>4. f \in Seq({f[k] : k \in 1 .. l})
        <5>1. DOMAIN f = 1 .. l
          BY <4>3
        <5>2. f = [k \in 1 .. l |-> f[k]]
          BY <5>1
        <5> HIDE DEF f, l
        <5> QED BY <4>3, <5>2
      <4> HIDE DEF f, l, x
      <4>5. Head(todo'[d]) = x
        BY <4>2, <4>4
      <4>6. x.msg.type = "ack"
        BY DEF x, Reply, Ack
      <4> QED BY <1>0, <4>5, <4>6 DEF Greeting
    <3> QED BY <3>1, <3>2, <3>3
  <2> QED BY <2>1, <2>2, <2>3, <2>4, <2>5
<1>3. ASSUME NEW c \in Conns, CheckUnload(c) PROVE FALSE
  BY <1>0, <1>3, UnloadIs
<1>4. ASSUME NEW c \in Conns, Connect(c) \/ ClientReceives(c) \/ ClientActs(c) PROVE Joining(d)
  BY <1>1, <1>4, WhoActs
<1>5. ~ Crash
  BY <1>0 DEF Crash
<1>6. ASSUME Restart \/ UNCHANGED vars PROVE Joining(d)
  BY <1>1, <1>6 DEF Restart, vars
<1> QED BY <1>1, <1>2, <1>3, <1>4, <1>5, <1>6 DEF Next, Step

\* An entry keeps its connection when its cursor moves.
LEMMA EntryWs ==
  ASSUME SessionTypes, NEW u \in DOMAIN session, NEW p
  PROVE  [session[u] EXCEPT !.cursor = p].ws = session[u].ws
<1> DEFINE e == session[u]
<1>1. e = [ws |-> e.ws, cursor |-> e.cursor, role |-> e.role]
  BY DEF SessionTypes, Entries
<1> HIDE DEF e
<1>2. [e EXCEPT !.cursor = p].ws = e.ws
  BY <1>1
<1> QED BY <1>2 DEF e

\* A connected editor leaves the session only with its connection.
LEMMA SessionKept ==
  ASSUME Apart, Types, Turns, [Next]_vars, NEW d \in Conns, link'[d] = "open", InSession(d)
  PROVE  (InSession(d))'
<1>1. PICK u \in DOMAIN session : session[u].ws = d
  BY DEF InSession
<1>2. UserOf[d] = u
  BY <1>1 DEF Types, Registry, NoGhostEditors
<1>3. ASSUME u \in DOMAIN session', session'[u].ws = d PROVE (InSession(d))'
  BY <1>3 DEF InSession
<1>4. CASE session' = session
  BY <1>1, <1>3, <1>4
<1>5. ASSUME NEW c \in Conns, HandleJoin(c), session' # session PROVE (InSession(d))'
  <2> DEFINE entry == [ws |-> c, cursor |-> 0, role |-> db.collab[UserOf[c]]]
  <2>1. session' = Bind(session, UserOf[c], entry)
    BY <1>5 DEF HandleJoin
  <2>2. u \in DOMAIN session' /\ session'[u] = IF u = UserOf[c] THEN entry ELSE session[u]
    BY <2>1 DEF Bind
  <2>3. u = UserOf[c] => c = d
    BY <1>2 DEF Apart
  <2>4. entry.ws = c
    OBVIOUS
  <2> QED BY <1>1, <1>3, <2>2, <2>3, <2>4
<1>6. ASSUME NEW c \in Conns, HandleEdit(c) PROVE (InSession(d))'
  <2> DEFINE ops == Applied(Head(req[c]))
  <2>1. session' = session \/ MoveCursors(ops, UserOf[c])
    BY <1>6 DEF HandleEdit
  <2> HIDE DEF ops
  <2>2. ASSUME MoveCursors(ops, UserOf[c]) PROVE (InSession(d))'
    <3>1. session' = [x \in DOMAIN session |-> IF x = UserOf[c] THEN session[x]
                         ELSE [session[x] EXCEPT !.cursor = MovedCursor(x, ops)]]
      BY <2>2 DEF MoveCursors
    <3>2. u \in DOMAIN session' /\ (session'[u] = session[u] \/ session'[u] = [session[u] EXCEPT !.cursor = MovedCursor(u, ops)])
      BY <3>1
    <3> QED BY <1>1, <1>3, <3>2, EntryWs DEF Types
  <2> QED BY <1>4, <2>1, <2>2
<1>7. ASSUME NEW c \in Conns, HandleCursorUpdate(c) PROVE (InSession(d))'
  <2> DEFINE x == UserOf[c]  p == Head(req[c]).position
  <2>1. session' = session \/ (x \in DOMAIN session /\ session' = [session EXCEPT ![x] = [session[x] EXCEPT !.cursor = p]])
    BY <1>7 DEF HandleCursorUpdate
  <2> HIDE DEF x, p
  <2>2. u \in DOMAIN session' /\ (session'[u] = session[u] \/ session'[u] = [session[u] EXCEPT !.cursor = p])
    BY <2>1
  <2> QED BY <1>1, <1>3, <2>2, EntryWs DEF Types
<1>8. ASSUME NEW c \in Conns, HandleDisconnect(c) PROVE (InSession(d))'
  <2>1. session' = session \/ session' = Restrict(session, DOMAIN session \ {UserOf[c]})
    BY <1>8 DEF HandleDisconnect, Leave
  <2>2. link' = [link EXCEPT ![c] = "done"] /\ link \in [Conns -> Links]
    BY <1>8 DEF HandleDisconnect, Types, Registry
  <2>3. c # d
    BY <2>2
  <2>4. u # UserOf[c]
    BY <1>2, <2>3 DEF Apart
  <2>5. session' = Restrict(session, DOMAIN session \ {UserOf[c]}) => u \in DOMAIN session' /\ session'[u] = session[u]
    BY <2>4 DEF Restrict
  <2> QED BY <1>1, <1>3, <1>4, <2>1, <2>5
<1>9. ASSUME NEW c \in Conns, CheckUnload(c) PROVE session' = session
  <2>1. Head(todo[c]).session = "live"
    <3> DEFINE all == todo[c]  I == Instructions
    <3>1. all \in Seq(I) /\ all # << >> /\ Head(all).do = "unload"
      BY <1>9, UnloadIs DEF Types, QueueTypes
    <3> HIDE DEF all, I
    <3>2. Head(all) = all[1] /\ 1 \in DOMAIN all
      BY <3>1
    <3> QED BY <3>1, <3>2 DEF Turns, all
  <2>2. session # Empty
    BY <1>1 DEF Empty
  <2>3. ~ NobodyLeft(Head(todo[c]))
    BY <2>1, <2>2 DEF NobodyLeft
  <2> QED BY <1>9, <2>3, UnloadIs
<1>10. ASSUME NEW c \in Conns,
              \/ HandleSaveSnapshot(c) \/ HandleRestoreVersion(c) \/ HandleCreateDoc(c) \/ SendReply(c) \/ SendNext(c)
              \/ BeginBroadcast(c) \/ CheckAutoSnapshot(c)
       PROVE  session' = session
  BY <1>10 DEF HandleSaveSnapshot, HandleRestoreVersion, HandleCreateDoc, SendReply, SendNext, BeginBroadcast, CheckAutoSnapshot
<1>11. ASSUME NEW c \in Conns, Connect(c) \/ ClientReceives(c) \/ ClientActs(c) PROVE session' = session
  BY <1>11, WhoActs
<1>12. ~ Crash
  BY DEF Crash
<1>13. CASE Restart \/ UNCHANGED vars
  BY <1>4, <1>13 DEF Restart, vars
<1> QED BY <1>4, <1>5, <1>6, <1>7, <1>8, <1>9, <1>10, <1>11, <1>12, <1>13 DEF Next, Handle, Step

\* A session's document stays in memory.
LEMMA LoadedKept ==
  ASSUME Types, [Next]_vars, DOMAIN session # {} => Loaded, DOMAIN session' # {}
  PROVE  Loaded'
<1>0. NotLoaded \notin Documents
  <2>1. Documents \subseteq [text : Seq(Nat), version : Nat, pending : Nat, log : Seq(Operations(Nat, Users))]
    <3> SUFFICES ASSUME NEW m \in Documents PROVE m \in [text : Seq(Nat), version : Nat, pending : Nat, log : Seq(Operations(Nat, Users))]
      OBVIOUS
    <3>1. m.log \in Seq(Operations(Nat, Users))
      BY MadeAreOps DEF Documents
    <3>2. /\ m = [text |-> m.text, version |-> m.version, pending |-> m.pending, log |-> m.log]
          /\ m.text \in Texts /\ m.version \in Nat /\ m.pending \in Nat
      BY DEF Documents
    <3> DEFINE O == Operations(Nat, Users)  L == Seq(O)  T == Seq(Nat)
    <3> HIDE DEF L, T
    <3>3. m.text \in T /\ m.log \in L
      BY <3>1, <3>2 DEF Texts, T, L
    <3>4. m \in [text : T, version : Nat, pending : Nat, log : L]
      BY <3>2, <3>3
    <3> QED BY <3>4 DEF T, L
  <2> QED BY <2>1, DocAssumption
<1>1. doc' \in Documents => Loaded'
  BY <1>0 DEF Loaded
<1>2. Loaded => doc \in Documents
  BY DEF Types, MemoryTypes, Loaded
<1>3. CASE doc' = doc /\ DOMAIN session' \subseteq DOMAIN session
  BY <1>1, <1>2, <1>3
<1>4. ASSUME NEW c \in Conns, Handle(c) \/ (Step(c) /\ ~ CheckUnload(c)), Loaded PROVE Loaded'
  BY <1>1, <1>2, <1>4, DocumentStays
<1>5. ASSUME NEW c \in Conns, HandleJoin(c), session' # session PROVE Loaded'
  <2>1. doc' = LoadDocument
    BY <1>5 DEF HandleJoin
  <2>2. LoadDocument \in Documents
    BY LoadedTyped DEF Types, Versions
  <2> QED BY <1>1, <2>1, <2>2
<1>6. ASSUME NEW c \in Conns, (Handle(c) /\ ~ HandleJoin(c)) \/ (Step(c) /\ ~ CheckUnload(c)) PROVE DOMAIN session' \subseteq DOMAIN session
  <2>1. CASE session' = session
    BY <2>1
  <2>2. CASE HandleEdit(c)
    BY <2>1, <2>2 DEF HandleEdit, MoveCursors
  <2>3. CASE HandleCursorUpdate(c)
    BY <2>1, <2>3 DEF HandleCursorUpdate
  <2>4. CASE HandleDisconnect(c)
    BY <2>1, <2>4 DEF HandleDisconnect, Leave, Restrict
  <2>5. CASE \/ HandleSaveSnapshot(c) \/ HandleRestoreVersion(c) \/ HandleCreateDoc(c) \/ SendReply(c) \/ SendNext(c)
             \/ BeginBroadcast(c) \/ CheckAutoSnapshot(c)
    <3>1. session' = session
      BY <2>5 DEF HandleSaveSnapshot, HandleRestoreVersion, HandleCreateDoc, SendReply, SendNext, BeginBroadcast, CheckAutoSnapshot
    <3> QED BY <3>1
  <2> QED BY <1>6, <2>2, <2>3, <2>4, <2>5 DEF Handle, Step
<1>7. ASSUME NEW c \in Conns, CheckUnload(c) PROVE Loaded'
  <2>1. DOMAIN Empty = {}
    BY DEF Empty
  <2>2. UNCHANGED <<doc, session>>
    BY <1>7, <2>1, UnloadIs
  <2> QED BY <1>3, <2>2
<1>8. ASSUME NEW c \in Conns, Connect(c) \/ ClientReceives(c) \/ ClientActs(c) PROVE Loaded'
  <2>1. UNCHANGED <<doc, session>>
    BY <1>8, WhoActs
  <2> QED BY <1>3, <2>1
<1>9. ~ Crash
  BY DEF Crash, Empty
<1>10. CASE Restart \/ UNCHANGED vars
  <2>1. UNCHANGED <<doc, session>>
    BY <1>10 DEF Restart, vars
  <2> QED BY <1>3, <2>1
<1>11. ASSUME NEW c \in Conns, Handle(c) \/ (Step(c) /\ ~ CheckUnload(c)) PROVE Loaded'
  <2>1. CASE HandleJoin(c) /\ session' # session
    BY <1>5, <2>1
  <2>2. CASE HandleJoin(c) /\ session' = session
    BY <1>4, <1>11, <2>2
  <2>3. CASE ~ HandleJoin(c)
    <3>1. DOMAIN session # {}
      BY <1>6, <1>11, <2>3
    <3> QED BY <1>4, <1>11, <3>1
  <2> QED BY <2>1, <2>2, <2>3
<1> QED BY <1>7, <1>8, <1>9, <1>10, <1>11 DEF Next, Step

\* Who connects now has no text, nothing in its inbox and no handler at work.
LEMMA NewcomerIs ==
  ASSUME Types, [Next]_vars, NEW d \in Conns, link[d] = "new", Member(d)
  PROVE  ~ (Welcome(d))' /\ ~ (Joining(d))'
<1>1. inbox[d] = << >> /\ todo[d] = << >> /\ req[d] = << >> /\ ~ Listed(d) /\ client[d].text = NoText
  BY DEF Types, Greeted, Member
<1>2. ~ ClientReceives(d)
  BY <1>1 DEF ClientReceives
<1>3. client'[d].text = NoText
  BY <1>1, <1>2, TextStays
<1>4. NoText \notin Texts
  BY DocAssumption DEF Texts
<1>5. inbox'[d] = << >>
  BY <1>1, <1>2, InboxIs
<1>6. DOMAIN inbox'[d] = {}
  BY <1>5
<1>7. ~ (Welcome(d))'
  BY <1>3, <1>4, <1>6 DEF Welcome
<1>8. ~ Handle(d) /\ ~ Step(d)
  BY <1>1 DEF Handle, HandleJoin, HandleEdit, HandleCursorUpdate, HandleSaveSnapshot, HandleRestoreVersion, HandleCreateDoc,
     HandleDisconnect, Takes, Step, SendReply, SendNext, BeginBroadcast, CheckAutoSnapshot, CheckUnload, Running
<1>9. DOMAIN todo[d] = {}
  BY <1>1
<1>10. DOMAIN todo'[d] = {}
  <2> SUFFICES ASSUME NEW k \in DOMAIN todo'[d] PROVE FALSE
    OBVIOUS
  <2> QED BY <1>8, <1>9, TodoAfter
<1>11. ~ (Joining(d))'
  <2> SUFFICES ASSUME (Joining(d))' PROVE FALSE
    OBVIOUS
  <2> DEFINE s == todo'[d]  I == Instructions
  <2>1. s \in Seq(I)
    BY QueueStep DEF QueueTypes
  <2>2. s # << >>
    BY DEF Joining
  <2> HIDE DEF s, I
  <2>3. DOMAIN s # {}
    BY <2>1, <2>2
  <2> QED BY <1>10, <2>3 DEF s
<1> QED BY <1>7, <1>11

\* A session keeps its document and its editors.
LEMMA KeptStep ==
  Slow = {} /\ Apart /\ Types /\ Orderly /\ Turns /\ Kept /\ [Next]_vars => Kept'
<1> SUFFICES ASSUME Slow = {}, Apart, Types, Orderly, Turns, Kept, [Next]_vars PROVE Kept'
  OBVIOUS
<1>1. (DOMAIN session # {} => Loaded)'
  <2> SUFFICES ASSUME DOMAIN session' # {} PROVE Loaded'
    OBVIOUS
  <2> QED BY LoadedKept DEF Kept
<1>2. ASSUME NEW d \in Conns PROVE (Member(d))'
  <2>0. Member(d)
    BY DEF Kept
  <2>1. link'[d] = "new" => client'[d].text = NoText
    <3>1. link'[d] = "new" => link[d] = "new"
      BY LinkStep
    <3>2. link[d] = "new" => ~ ClientReceives(d)
      BY DEF Types, Greeted, ClientReceives
    <3> QED BY <2>0, <3>1, <3>2, TextStays DEF Member
  <2>2. ASSUME link'[d] = "open", (Welcome(d))' \/ (Joining(d))' PROVE (InSession(d))'
    <3>1. CASE link[d] # "open"
      <4>1. link[d] = "new"
        BY <2>2, <3>1, LinkStep
      <4> QED BY <2>0, <2>2, <4>1, NewcomerIs
    <3>2. CASE link[d] = "open"
      <4>1. (Welcome(d))' => Welcome(d) \/ Joining(d)
        BY <3>2, WelcomeBefore
      <4>2. (Joining(d))' => Joining(d) \/ (InSession(d))'
        BY JoiningBefore
      <4>3. Welcome(d) \/ Joining(d) => InSession(d)
        BY <2>0, <3>2 DEF Member
      <4>4. InSession(d) => (InSession(d))'
        BY <2>2, SessionKept
      <4> QED BY <2>2, <4>1, <4>2, <4>3, <4>4
    <3> QED BY <3>1, <3>2
  <2> QED BY <2>1, <2>2 DEF Member
<1> QED BY <1>1, <1>2 DEF Kept

\* At the start there is no session, no handler and no text.
LEMMA KeptInit == Init => Orderly /\ Turns /\ Kept
<1> SUFFICES ASSUME Init PROVE Orderly /\ Turns /\ Kept
  OBVIOUS
<1>1. ASSUME NEW c \in Conns
      PROVE  /\ DOMAIN todo[c] = {} /\ DOMAIN inbox[c] = {} /\ todo[c] = << >> /\ link[c] = "new"
             /\ client[c].text = NoText
  BY DEF Init
<1>2. DOMAIN session = {}
  BY DEF Init, Empty
<1> QED BY <1>1, <1>2 DEF Orderly, Turns, Kept, Member

\* The invariant behind the next theorem.
LEMMA KeptAlways == ASSUME Slow = {}, Apart PROVE Spec => [](Types /\ Orderly /\ Turns /\ Kept)
<1>1. Init => Types /\ Orderly /\ Turns /\ Kept
  BY TypesInit, KeptInit
<1>2. Types /\ Orderly /\ Turns /\ Kept /\ [Next]_vars => (Types /\ Orderly /\ Turns /\ Kept)'
  BY TypesStep, OrderlyStep, TurnsStep, KeptStep
<1> QED BY <1>1, <1>2, PTL DEF Spec

\* EditorsKeepDocument, where no send suspends a handler and no two connections
\* are one user's: "if no one is editing, snapshot and unload" never takes the
\* document, or the place in the session, of a client that is still connected.
THEOREM EditorsKept == ASSUME Slow = {}, Apart PROVE Spec => []EditorsKeepDocument
<1>1. Types /\ Kept => EditorsKeepDocument
  <2> SUFFICES ASSUME Types, Kept, NEW c \in Conns, link[c] = "open", client[c].text # NoText PROVE InSession(c) /\ Loaded
    BY DEF EditorsKeepDocument
  <2>1. client[c].text \in Texts
    BY DEF Types, ClientTypes, Clients
  <2>2. InSession(c)
    BY <2>1 DEF Kept, Member, Welcome
  <2>3. DOMAIN session # {}
    BY <2>2 DEF InSession
  <2> QED BY <2>2, <2>3 DEF Kept
<1> QED BY <1>1, KeptAlways, PTL

-----------------------------------------------------------------------------
(* What messages make of a client's text.                                  *)

\* What a message makes of the text t of the client that receives it.
Received(t, m) ==
  IF m.type = "doc_state" THEN m.text
  ELSE IF m.type = "ack" THEN ApplyOperations(t, m.ops)
  ELSE IF m.type = "remote_op" THEN ApplyOperation(t, m.op)
  ELSE t

\* The messages w, received one after the other, make s of t.
Traced(out, t, w, n) == out[0] = t /\ \A k \in 1 .. n : out[k] = Received(out[k - 1], w[k])
Leads(t, w, s) == \E out : Traced(out, t, w, Len(w)) /\ out[Len(w)] = s

\* The list w without its first message, and the first message.
LEMMA TracedFrom ==
  ASSUME NEW S, NEW w \in Seq(S), w # << >>
  PROVE  /\ Len(w) \in Nat /\ Len(w) >= 1 /\ Len(Tail(w)) = Len(w) - 1 /\ Tail(w) \in Seq(S)
         /\ \A k \in 1 .. Len(w) - 1 : Tail(w)[k] = w[k + 1]
OBVIOUS

\* Receiving w is receiving its first message and then the others.
LEMMA LeadsHead ==
  ASSUME NEW S, NEW w \in Seq(S), w # << >>, NEW t, NEW s
  PROVE  Leads(t, w, s) <=> Leads(Received(t, w[1]), Tail(w), s)
<1> DEFINE n == Len(w)  v == Tail(w)
<1>1. n \in Nat /\ n >= 1 /\ Len(v) = n - 1 /\ \A k \in 1 .. n - 1 : v[k] = w[k + 1]
  BY TracedFrom
<1> HIDE DEF n, v
<1>2. ASSUME NEW out, Traced(out, t, w, n), out[n] = s PROVE Leads(Received(t, w[1]), v, s)
  <2> DEFINE more == [k \in 0 .. n - 1 |-> out[k + 1]]
  <2>1. \A k \in 0 .. n - 1 : more[k] = out[k + 1]
    OBVIOUS
  <2> HIDE DEF more
  <2>2. more[0] = Received(t, w[1])
    BY <1>1, <1>2, <2>1 DEF Traced
  <2>3. ASSUME NEW k \in 1 .. n - 1 PROVE more[k] = Received(more[k - 1], v[k])
    <3>1. k \in 0 .. n - 1 /\ k - 1 \in 0 .. n - 1 /\ k + 1 \in 1 .. n /\ k + 1 - 1 = k /\ k - 1 + 1 = k
      BY <1>1
    <3>2. out[k + 1] = Received(out[k], w[k + 1])
      BY <1>2, <3>1 DEF Traced
    <3> QED BY <1>1, <2>1, <3>1, <3>2
  <2>4. more[n - 1] = s
    BY <1>1, <1>2, <2>1
  <2> QED BY <1>1, <2>2, <2>3, <2>4 DEF Leads, Traced
<1>3. ASSUME NEW more, Traced(more, Received(t, w[1]), v, n - 1), more[n - 1] = s PROVE Leads(t, w, s)
  <2> DEFINE out == [k \in 0 .. n |-> IF k = 0 THEN t ELSE more[k - 1]]
  <2>1. out[0] = t /\ \A k \in 1 .. n : out[k] = more[k - 1]
    BY <1>1
  <2> HIDE DEF out
  <2>2. ASSUME NEW k \in 1 .. n PROVE out[k] = Received(out[k - 1], w[k])
    <3>1. CASE k = 1
      <4>1. k - 1 = 0 /\ out[k] = more[0]
        BY <2>1, <3>1
      <4> QED BY <1>3, <2>1, <3>1, <4>1 DEF Traced
    <3>2. CASE k # 1
      <4>1. k - 1 \in 1 .. n - 1 /\ k - 1 \in 1 .. n /\ k - 1 + 1 = k
        BY <1>1, <3>2
      <4> DEFINE j == k - 1
      <4>2. j \in 1 .. n - 1 /\ j \in 1 .. n /\ j + 1 = k
        BY <4>1
      <4>3. out[k] = more[j]
        BY <2>1
      <4> HIDE DEF j
      <4>4. more[j] = Received(more[j - 1], v[j]) /\ v[j] = w[j + 1] /\ out[j] = more[j - 1]
        BY <1>1, <1>3, <2>1, <4>2 DEF Traced
      <4>5. out[k] = Received(out[j], w[k])
        BY <4>2, <4>3, <4>4
      <4> QED BY <4>5 DEF j
    <3> QED BY <3>1, <3>2
  <2>3. out[n] = s
    BY <1>1, <1>3, <2>1
  <2> QED BY <2>1, <2>2, <2>3 DEF Leads, Traced, n
<1> QED BY <1>1, <1>2, <1>3 DEF Leads, n, v

\* Nothing received.
LEMMA LeadsNowhere ==
  ASSUME NEW t, NEW s, NEW w, Len(w) = 0
  PROVE  Leads(t, w, s) <=> s = t
<1>1. Leads(t, w, s) => s = t
  BY DEF Leads, Traced
<1>2. Leads(t, w, t)
  <2> DEFINE out == [k \in {0} |-> t]
  <2>1. out[0] = t
    OBVIOUS
  <2> HIDE DEF out
  <2>2. \A k \in 1 .. 0 : out[k] = Received(out[k - 1], w[k])
    OBVIOUS
  <2> QED BY <2>1, <2>2 DEF Leads, Traced
<1> QED BY <1>1, <1>2

\* One more message received.
LEMMA LeadsAppend ==
  ASSUME NEW S, NEW w \in Seq(S), NEW m \in S, NEW t, NEW s, Leads(t, w, s)
  PROVE  Leads(t, Append(w, m), Received(s, m))
<1> DEFINE n == Len(w)  v == Append(w, m)
<1>1. n \in Nat /\ Len(v) = n + 1 /\ v[n + 1] = m /\ \A k \in 1 .. n : v[k] = w[k]
  OBVIOUS
<1> HIDE DEF v
<1>2. PICK out : Traced(out, t, w, n) /\ out[n] = s
  BY DEF Leads
<1> HIDE DEF n
<1> DEFINE more == [k \in 0 .. n + 1 |-> IF k = n + 1 THEN Received(s, m) ELSE out[k]]
<1>3. more[n + 1] = Received(s, m) /\ \A k \in 0 .. n : more[k] = out[k]
  BY <1>1
<1> HIDE DEF more
<1>4. more[0] = t
  BY <1>1, <1>2, <1>3 DEF Traced
<1>5. ASSUME NEW k \in 1 .. n + 1 PROVE more[k] = Received(more[k - 1], v[k])
  <2>1. CASE k = n + 1
    <3>1. more[k - 1] = s
      BY <1>1, <1>2, <1>3, <2>1
    <3> QED BY <1>1, <1>3, <2>1, <3>1
  <2>2. CASE k # n + 1
    <3>1. k \in 1 .. n /\ k \in 0 .. n /\ k - 1 \in 0 .. n
      BY <1>1, <2>2
    <3> QED BY <1>1, <1>2, <1>3, <3>1 DEF Traced
  <2> QED BY <2>1, <2>2
<1> QED BY <1>1, <1>3, <1>4, <1>5 DEF Leads, Traced, v

\* Whatever is received leads somewhere.
LEMMA LeadsSomewhere ==
  ASSUME NEW S, NEW w \in Seq(S), NEW t
  PROVE  \E s : Leads(t, w, s)
<1> DEFINE n == Len(w)  U == {k \in 0 .. n : ~ \E out : Traced(out, t, w, k)}
<1>0. n \in Nat
  OBVIOUS
<1> HIDE DEF n
<1>1. U = {}
  <2> SUFFICES ASSUME U # {} PROVE FALSE
    OBVIOUS
  <2>1. U \in SUBSET Nat
    OBVIOUS
  <2>2. PICK m \in U : \A k \in U : m <= k
    <3> HIDE DEF U
    <3> QED BY <2>1, NatLeast
  <2>3. m # 0
    <3> DEFINE out == [k \in {0} |-> t]
    <3>1. out[0] = t
      OBVIOUS
    <3> HIDE DEF out
    <3>2. \A k \in 1 .. 0 : out[k] = Received(out[k - 1], w[k])
      OBVIOUS
    <3>3. Traced(out, t, w, 0)
      BY <3>1, <3>2 DEF Traced
    <3> QED BY <2>2, <3>3
  <2>4. m \in 1 .. n /\ m - 1 \in 0 .. n /\ m - 1 \notin U
    BY <1>0, <2>2, <2>3
  <2>5. PICK out : Traced(out, t, w, m - 1)
    BY <2>4
  <2> DEFINE more == [k \in 0 .. m |-> IF k = m THEN Received(out[m - 1], w[m]) ELSE out[k]]
  <2>6. more[m] = Received(out[m - 1], w[m]) /\ \A k \in 0 .. m - 1 : more[k] = out[k]
    BY <2>4
  <2> HIDE DEF more
  <2>7. more[0] = t
    BY <2>4, <2>5, <2>6 DEF Traced
  <2>8. ASSUME NEW k \in 1 .. m PROVE more[k] = Received(more[k - 1], w[k])
    <3>1. CASE k = m
      BY <2>4, <2>6, <3>1
    <3>2. CASE k # m
      <4>1. k \in 1 .. m - 1 /\ k \in 0 .. m - 1 /\ k - 1 \in 0 .. m - 1
        BY <2>4, <3>2
      <4> QED BY <2>5, <2>6, <4>1 DEF Traced
    <3> QED BY <3>1, <3>2
  <2>9. Traced(more, t, w, m)
    BY <2>7, <2>8 DEF Traced
  <2> QED BY <2>2, <2>9
<1>2. n \in 0 .. n
  BY <1>0
<1>3. \E out : Traced(out, t, w, n)
  BY <1>1, <1>2
<1> QED BY <1>3 DEF Leads, n

\* Messages that do not concern the text lead nowhere else.
LEMMA LeadsStill ==
  ASSUME NEW S, NEW w \in Seq(S), NEW t, NEW s, \A k \in DOMAIN w : \A x : Received(x, w[k]) = x
  PROVE  Leads(t, w, s) <=> s = t
<1> DEFINE n == Len(w)
<1>0. n \in Nat /\ DOMAIN w = 1 .. n
  OBVIOUS
<1> HIDE DEF n
<1>1. ASSUME NEW out, Traced(out, t, w, n) PROVE out[n] = t
  <2> DEFINE U == {k \in 0 .. n : out[k] # t}
  <2> SUFFICES ASSUME n \in U PROVE FALSE
    BY <1>0
  <2>1. PICK m \in U : \A k \in U : m <= k
    <3>1. U \in SUBSET Nat
      OBVIOUS
    <3> HIDE DEF U
    <3> QED BY <3>1, NatLeast
  <2>2. m # 0
    BY <1>1 DEF Traced
  <2>3. m \in 1 .. n /\ m - 1 \in 0 .. n /\ m - 1 \notin U
    BY <1>0, <2>1, <2>2
  <2>4. out[m] = out[m - 1]
    BY <1>0, <1>1, <2>3 DEF Traced
  <2> QED BY <2>1, <2>3, <2>4
<1>2. PICK z : Leads(t, w, z)
  BY LeadsSomewhere
<1>3. \A x : Leads(t, w, x) => x = t
  BY <1>1 DEF Leads, n
<1> QED BY <1>2, <1>3

-----------------------------------------------------------------------------
(* What a handler has still to send to a client.                           *)

\* What the instruction i of the handler of c will send to d.
Due(d, c, i) ==
  IF i.do = "reply" THEN IF c = d THEN i.msg ELSE Note
  ELSE IF i.do = "broadcast" THEN IF d \in i.to THEN i.msg ELSE Note
  ELSE IF i.do = "op" THEN IF c = d THEN Note ELSE RemoteOp(i.op, 0)
  ELSE Note

Dues(d, c, t) == [k \in DOMAIN t |-> Due(d, c, t[k])]

\* No handler but that of c is at work; the client of d shows the server's text
\* once it has received what is in its inbox and what that handler will send.
Alone(c) == \A e \in Conns : e # c => todo[e] = << >>

Lags(t, b, x, d, c, u) == \E s : Leads(t, b, s) /\ Leads(s, Dues(d, c, u), x)
Behind(d, c) == Lags(client[d].text, inbox[d], doc.text, d, c, todo[c])

Following == \A d \in Conns : link[d] = "open" /\ InSession(d) => \A c \in Conns : Alone(c) => Behind(d, c)

\* Messages and notes.
Sendable == Messages \cup {Note}

\* What is due is a message, or a note.
LEMMA DueIs ==
  ASSUME NEW d, NEW c, NEW i \in Instructions
  PROVE  Due(d, c, i) \in Sendable
<1>1. i.do = "reply" \/ i.do = "broadcast" => i.msg \in Sendable
  BY InstructionIs DEF Sendable
<1>2. i.do = "op" => RemoteOp(i.op, 0) \in Sendable
  BY InstructionIs, MessagesAre DEF Sendable
<1> QED BY <1>1, <1>2 DEF Due, Sendable

\* The dues of a script, its first instruction apart.
LEMMA DuesAre ==
  ASSUME NEW d, NEW c, NEW t \in Seq(Instructions)
  PROVE  /\ Dues(d, c, t) \in Seq(Sendable) /\ Len(Dues(d, c, t)) = Len(t)
         /\ DOMAIN Dues(d, c, t) = DOMAIN t /\ \A k \in DOMAIN t : Dues(d, c, t)[k] = Due(d, c, t[k])
<1> DEFINE w == Dues(d, c, t)  I == Instructions  M == Sendable  n == Len(t)
<1>1. t \in Seq(I)
  OBVIOUS
<1>2. n \in Nat /\ DOMAIN t = 1 .. n /\ \A k \in 1 .. n : t[k] \in I
  <2> HIDE DEF I
  <2> QED BY <1>1
<1>3. w = [k \in 1 .. n |-> w[k]] /\ \A k \in 1 .. n : w[k] = Due(d, c, t[k])
  BY <1>2 DEF Dues
<1>4. \A k \in 1 .. n : w[k] \in M
  BY <1>2, <1>3, DueIs
<1> HIDE DEF w, I, M, n
<1>5. w \in Seq(M) /\ Len(w) = n /\ DOMAIN w = 1 .. n
  BY <1>2, <1>3, <1>4
<1> QED BY <1>2, <1>3, <1>5 DEF w, M, n

\* What the first instruction leaves due.
LEMMA DuesTail ==
  ASSUME NEW d, NEW c, NEW t \in Seq(Instructions), t # << >>
  PROVE  /\ Dues(d, c, t) # << >> /\ Dues(d, c, t)[1] = Due(d, c, Head(t))
         /\ Tail(Dues(d, c, t)) = Dues(d, c, Tail(t))
<1> DEFINE w == Dues(d, c, t)  u == Tail(t)  v == Dues(d, c, u)  I == Instructions  M == Sendable  n == Len(t)
<1>1. t \in Seq(I)
  OBVIOUS
<1>2. n \in Nat /\ n >= 1 /\ DOMAIN t = 1 .. n /\ u \in Seq(I) /\ Len(u) = n - 1 /\ Head(t) = t[1]
      /\ \A k \in 1 .. n - 1 : u[k] = t[k + 1]
  <2> HIDE DEF I
  <2> QED BY <1>1
<1> HIDE DEF u
<1>3. w \in Seq(M) /\ Len(w) = n /\ DOMAIN w = DOMAIN t /\ \A k \in DOMAIN t : w[k] = Due(d, c, t[k])
  BY DuesAre
<1>4. v \in Seq(M) /\ Len(v) = n - 1 /\ DOMAIN v = DOMAIN u /\ \A k \in DOMAIN u : v[k] = Due(d, c, u[k])
  <2>1. u \in Seq(Instructions) /\ Len(u) = n - 1
    BY <1>2
  <2> HIDE DEF n, I
  <2> QED BY ONLY <2>1, DuesAre
<1>5. DOMAIN u = 1 .. n - 1
  BY <1>2
<1> HIDE DEF w, v, I, M, n
<1>6. w # << >> /\ w[1] = Due(d, c, Head(t))
  BY <1>2, <1>3
<1>7. Tail(w) \in Seq(M) /\ Len(Tail(w)) = n - 1 /\ \A k \in 1 .. n - 1 : Tail(w)[k] = w[k + 1]
  BY <1>2, <1>3
<1>8. \A k \in 1 .. n - 1 : Tail(w)[k] = v[k]
  <2> SUFFICES ASSUME NEW k \in 1 .. n - 1 PROVE Tail(w)[k] = v[k]
    OBVIOUS
  <2>1. k + 1 \in 1 .. n
    BY <1>2
  <2>2. Tail(w)[k] = Due(d, c, t[k + 1])
    BY <1>2, <1>3, <1>7, <2>1
  <2>3. v[k] = Due(d, c, u[k])
    BY <1>4, <1>5
  <2>4. u[k] = t[k + 1]
    BY <1>2
  <2> QED BY ONLY <2>2, <2>3, <2>4
<1>9. Tail(w) = v
  BY <1>4, <1>7, <1>8
<1> QED BY <1>6, <1>9 DEF w, v, u

\* What a script of one instruction and others has due.
LEMMA DuesMore ==
  ASSUME NEW d, NEW c, NEW i \in Instructions, NEW u \in Seq(Instructions), NEW x, NEW z
  PROVE  Leads(x, Dues(d, c, << i >> \o u), z) <=> Leads(Received(x, Due(d, c, i)), Dues(d, c, u), z)
<1> DEFINE t == << i >> \o u  I == Instructions
<1>1. t \in Seq(I) /\ t # << >> /\ Head(t) = i /\ Tail(t) = u
  <2> HIDE DEF I
  <2>1. i \in I /\ u \in Seq(I)
    BY DEF I
  <2> QED BY <2>1
<1> HIDE DEF t
<1>2. Dues(d, c, t) \in Seq(Sendable)
  BY <1>1, DuesAre
<1> DEFINE w == Dues(d, c, t)
<1>3. w # << >> /\ w[1] = Due(d, c, i) /\ Tail(w) = Dues(d, c, u)
  BY <1>1, DuesTail
<1>4. Leads(x, w, z) <=> Leads(Received(x, w[1]), Tail(w), z)
  <2> HIDE DEF w
  <2>1. w \in Seq(Sendable)
    BY <1>2 DEF w
  <2> QED BY <1>3, <2>1, LeadsHead
<1> QED BY <1>3, <1>4 DEF t

\* The first instruction of a script is what it sends first.
LEMMA DuesFirst ==
  ASSUME NEW d, NEW c, NEW t \in Seq(Instructions), t # << >>, NEW x, NEW z
  PROVE  Leads(x, Dues(d, c, t), z) <=> Leads(Received(x, Due(d, c, Head(t))), Dues(d, c, Tail(t)), z)
<1> DEFINE w == Dues(d, c, t)
<1>1. w \in Seq(Sendable) /\ w # << >> /\ w[1] = Due(d, c, Head(t)) /\ Tail(w) = Dues(d, c, Tail(t))
  BY DuesAre, DuesTail
<1>2. Leads(x, w, z) <=> Leads(Received(x, w[1]), Tail(w), z)
  <2> HIDE DEF w
  <2> QED BY <1>1, LeadsHead
<1> QED BY <1>1, <1>2

\* Nothing is due from no script.
LEMMA DuesNone ==
  ASSUME NEW d, NEW c, NEW x, NEW z
  PROVE  Leads(x, Dues(d, c, << >>), z) <=> z = x
<1>1. << >> \in Seq(Instructions) /\ Len(<< >>) = 0
  OBVIOUS
<1>2. Len(Dues(d, c, << >>)) = 0
  BY <1>1, DuesAre
<1> QED BY <1>2, LeadsNowhere

\* Nothing that matters is due.
LEMMA DuesStill ==
  ASSUME NEW d, NEW c, NEW t \in Seq(Instructions), \A k \in DOMAIN t : \A x : Received(x, Due(d, c, t[k])) = x,
         NEW x, NEW z
  PROVE  Leads(x, Dues(d, c, t), z) <=> z = x
<1> DEFINE w == Dues(d, c, t)
<1>1. w \in Seq(Sendable) /\ DOMAIN w = DOMAIN t /\ \A k \in DOMAIN t : w[k] = Due(d, c, t[k])
  BY DuesAre
<1> HIDE DEF w
<1>2. \A k \in DOMAIN w : \A y : Received(y, w[k]) = y
  BY <1>1
<1>3. Leads(x, w, z) <=> z = x
  BY <1>1, <1>2, LeadsStill
<1> QED BY <1>3 DEF w

\* Who is at work is what is to be asked about, whoever asks.
LEMMA BehindWorker ==
  ASSUME NEW T, NEW d \in Conns, NEW c \in Conns, \A e \in Conns : e # c => T[e] = << >>,
         NEW t, NEW b, NEW x, Lags(t, b, x, d, c, T[c])
  PROVE  \A e \in Conns : (\A f \in Conns : f # e => T[f] = << >>) => Lags(t, b, x, d, e, T[e])
<1> SUFFICES ASSUME NEW e \in Conns, \A f \in Conns : f # e => T[f] = << >>, e # c PROVE Lags(t, b, x, d, e, T[e])
  OBVIOUS
<1>1. T[c] = << >> /\ T[e] = << >>
  OBVIOUS
<1>2. PICK s : Leads(t, b, s) /\ Leads(s, Dues(d, c, T[c]), x)
  BY DEF Lags
<1>3. x = s
  BY <1>1, <1>2, DuesNone
<1>4. Leads(s, Dues(d, e, T[e]), x)
  BY <1>1, <1>3, DuesNone
<1> QED BY <1>2, <1>4 DEF Lags

\* One instruction of c's script is executed: what it sends, and what takes its
\* place in the script, bring the client of d to the same text.
LEMMA LagsSent ==
  ASSUME NEW d, NEW c, NEW u \in Seq(Instructions), u # << >>, NEW t, NEW x, NEW b \in Seq(Messages),
         Lags(t, b, x, d, c, u), NEW sent \in Sendable,
         NEW v \in Seq(Instructions), NEW next \in Sendable,
         \A y, z : Leads(y, Dues(d, c, v), z) <=> Leads(Received(y, next), Dues(d, c, Tail(u)), z),
         \A y : Received(Received(y, sent), next) = Received(y, Due(d, c, Head(u)))
  PROVE  Lags(t, IF sent = Note THEN b ELSE Append(b, sent), x, d, c, v)
<1>1. PICK s : Leads(t, b, s) /\ Leads(s, Dues(d, c, u), x)
  BY DEF Lags
<1>2. Leads(Received(s, Due(d, c, Head(u))), Dues(d, c, Tail(u)), x)
  BY <1>1, DuesFirst
<1>3. Leads(Received(s, sent), Dues(d, c, v), x)
  BY <1>2
<1>4. CASE sent = Note
  <2>1. Received(s, sent) = s
    BY <1>4 DEF Received, Note
  <2> QED BY <1>1, <1>3, <1>4, <2>1 DEF Lags
<1>5. CASE sent # Note
  <2>1. sent \in Messages
    BY <1>5 DEF Sendable
  <2>2. Leads(t, Append(b, sent), Received(s, sent))
    <3> DEFINE M == Messages
    <3>1. b \in Seq(M) /\ sent \in M
      BY <2>1
    <3> HIDE DEF M
    <3> QED BY <1>1, <3>1, LeadsAppend
  <2> QED BY <1>3, <1>5, <2>2 DEF Lags
<1> QED BY <1>4, <1>5

\* After a note to its own connection a handler has nothing more to broadcast.
Closes(s) ==
  \A k, j \in DOMAIN s : s[k].do = "reply" /\ s[k].msg = Note /\ j > k => s[j].do \in {"reply", "tell"}

\* Of a connection that has ended nothing is left to handle, and its handler
\* has no answer left to send.
Closing ==
  \A c \in Conns :
    /\ link[c] # "open" => req[c] = << >> /\ \A k \in DOMAIN todo[c] : ~ Answers(todo[c][k])
    /\ Closes(todo[c])

\* The notes, and what else leaves a text alone.
LEMMA StillAre ==
  /\ Note \in Sendable /\ Error \in Sendable
  /\ \A y : Received(y, Note) = y /\ Received(y, Error) = y
  /\ \A y, op, n : Received(y, RemoteOp(op, n)) = Received(y, RemoteOp(op, 0))
<1>1. Note \in Sendable /\ Error \in Sendable
  BY MessagesAre DEF Sendable
<1>2. \A y : Received(y, Note) = y /\ Received(y, Error) = y
  BY DEF Received, Note, Error
<1>3. ASSUME NEW y, NEW op, NEW n PROVE Received(y, RemoteOp(op, n)) = Received(y, RemoteOp(op, 0))
  <2> DEFINE m == RemoteOp(op, n)  l == RemoteOp(op, 0)
  <2>1. m.type = "remote_op" /\ l.type = "remote_op" /\ m.op = op /\ l.op = op
    BY DEF RemoteOp
  <2> HIDE DEF m, l
  <2>2. Received(y, m) = Received(y, l)
    BY <2>1 DEF Received
  <2> QED BY <2>2 DEF m, l
<1> QED BY <1>1, <1>2, <1>3

\* What an open connection gets of a send.
LEMMA Delivered ==
  ASSUME QueueTypes, NEW d \in Conns, NEW e \in Conns, link[d] = "open", NEW m, Deliver(e, m)
  PROVE  inbox'[d] = IF e = d /\ m # Note THEN Append(inbox[d], m) ELSE inbox[d]
<1> DEFINE S == Seq(Messages)
<1>1. inbox \in [Conns -> S]
  BY DEF QueueTypes
<1> HIDE DEF S
<1>2. CASE e = d
  BY <1>1, <1>2 DEF Deliver
<1>3. CASE e # d
  <2>1. inbox' = inbox \/ inbox' = [inbox EXCEPT ![e] = Append(inbox[e], m)]
    BY DEF Deliver
  <2> QED BY <1>1, <1>3, <2>1
<1> QED BY <1>2, <1>3

\* A handler's script: its first instruction, and the rest.
LEMMA ScriptOf ==
  ASSUME QueueTypes, NEW c \in Conns, todo[c] # << >>
  PROVE  /\ todo[c] \in Seq(Instructions) /\ Head(todo[c]) \in Instructions /\ Rest(c) \in Seq(Instructions)
         /\ Head(todo[c]) = todo[c][1] /\ 1 \in DOMAIN todo[c] /\ Rest(c) = Tail(todo[c])
<1> DEFINE s == todo[c]  I == Instructions
<1>1. s \in Seq(I) /\ s # << >>
  BY DEF QueueTypes
<1> HIDE DEF s, I
<1>2. Head(s) \in I /\ Tail(s) \in Seq(I) /\ Head(s) = s[1] /\ 1 \in DOMAIN s
  BY <1>1
<1> QED BY <1>1, <1>2 DEF s, I, Rest

\* The script after one instruction of it is done with.
LEMMA LagsRest ==
  ASSUME QueueTypes, NEW d \in Conns, NEW c \in Conns, todo[c] # << >>, Behind(d, c),
         client'[d].text = client[d].text, doc'.text = doc.text, todo'[c] = Rest(c),
         NEW sent \in Sendable, inbox'[d] = IF sent = Note THEN inbox[d] ELSE Append(inbox[d], sent),
         \A y : Received(y, sent) = Received(y, Due(d, c, Head(todo[c])))
  PROVE  (Behind(d, c))'
<1> DEFINE u == todo[c]  v == Tail(u)  t == client[d].text  b == inbox[d]  x == doc.text
<1>1. u \in Seq(Instructions) /\ u # << >> /\ v \in Seq(Instructions) /\ Rest(c) = v
  BY ScriptOf
<1>2. b \in Seq(Messages)
  BY DEF QueueTypes
<1>3. Lags(t, b, x, d, c, u)
  BY DEF Behind
<1>4. \A y, z : Leads(y, Dues(d, c, v), z) <=> Leads(Received(y, Note), Dues(d, c, Tail(u)), z)
  BY StillAre
<1>5. \A y : Received(Received(y, sent), Note) = Received(y, Due(d, c, Head(u)))
  BY StillAre
<1>0. Note \in Sendable
  BY StillAre
<1> HIDE DEF u, v, t, b, x
<1>6. Lags(t, IF sent = Note THEN b ELSE Append(b, sent), x, d, c, v)
  BY <1>0, <1>1, <1>2, <1>3, <1>4, <1>5, LagsSent
<1> QED BY <1>1, <1>6 DEF Behind, u, v, t, b, x

\* The script after something else takes the place of its first instruction.
LEMMA LagsNext ==
  ASSUME QueueTypes, NEW d \in Conns, NEW c \in Conns, todo[c] # << >>, Behind(d, c),
         client'[d].text = client[d].text, doc'.text = doc.text,
         NEW i \in Instructions, todo'[c] = << i >> \o Rest(c),
         NEW sent \in Sendable, inbox'[d] = IF sent = Note THEN inbox[d] ELSE Append(inbox[d], sent),
         \A y : Received(Received(y, sent), Due(d, c, i)) = Received(y, Due(d, c, Head(todo[c])))
  PROVE  (Behind(d, c))'
<1> DEFINE u == todo[c]  r == Tail(u)  v == << i >> \o r  t == client[d].text  b == inbox[d]  x == doc.text  next == Due(d, c, i)
<1>1. u \in Seq(Instructions) /\ u # << >> /\ r \in Seq(Instructions) /\ Rest(c) = r
  BY ScriptOf
<1>2. b \in Seq(Messages)
  BY DEF QueueTypes
<1>3. Lags(t, b, x, d, c, u)
  BY DEF Behind
<1>4. next \in Sendable
  BY DueIs
<1> HIDE DEF r
<1>5. v \in Seq(Instructions)
  <2> DEFINE I == Instructions
  <2>1. i \in I /\ r \in Seq(I)
    BY <1>1
  <2> HIDE DEF I
  <2> QED BY <2>1 DEF I
<1>6. \A y, z : Leads(y, Dues(d, c, v), z) <=> Leads(Received(y, next), Dues(d, c, r), z)
  BY <1>1, DuesMore
<1>7. \A y : Received(Received(y, sent), next) = Received(y, Due(d, c, Head(u)))
  OBVIOUS
<1>8. r = Tail(u)
  BY DEF r
<1> HIDE DEF u, v, t, b, x, next
<1>9. Lags(t, IF sent = Note THEN b ELSE Append(b, sent), x, d, c, v)
  BY <1>1, <1>2, <1>3, <1>4, <1>5, <1>6, <1>7, <1>8, LagsSent
<1> QED BY <1>1, <1>9 DEF Behind, u, v, t, b, x

-----------------------------------------------------------------------------
(* A handler's steps, and what they leave a client behind by.              *)

\* Sending to its own connection keeps every client following.
LEMMA ReplyFollows ==
  ASSUME Types, Closing, NEW c \in Conns, SendReply(c), NEW d \in Conns, link[d] = "open", Behind(d, c)
  PROVE  (Behind(d, c))'
<1> DEFINE i == Head(todo[c])  m == i.msg
<1>0. QueueTypes /\ todo \in [Conns -> Seq(Instructions)] /\ todo[c] # << >> /\ i.do = "reply"
  BY DEF Types, QueueTypes, SendReply, Running
<1>1. i \in Instructions /\ i = todo[c][1] /\ 1 \in DOMAIN todo[c] /\ todo[c] \in Seq(Instructions)
  BY <1>0, ScriptOf
<1>2. m \in Sendable
  BY <1>0, <1>1, InstructionIs DEF Sendable
<1>3. client'[d].text = client[d].text /\ doc'.text = doc.text
  BY DEF SendReply
<1>4. CASE link[c] = "open"
  <2>1. Deliver(c, m) /\ todo'[c] = Rest(c)
    BY <1>0, <1>4 DEF SendReply, Sent
  <2> DEFINE sent == IF c = d THEN m ELSE Note
  <2>2. inbox'[d] = IF c = d /\ m # Note THEN Append(inbox[d], m) ELSE inbox[d]
    <3> HIDE DEF m
    <3> QED BY <1>0, <2>1, Delivered
  <2>3. inbox'[d] = IF sent = Note THEN inbox[d] ELSE Append(inbox[d], sent)
    BY <2>2
  <2>4. sent \in Sendable
    BY <1>2, StillAre
  <2>5. sent = Due(d, c, i)
    BY <1>0 DEF Due
  <2> HIDE DEF sent
  <2>6. \A y : Received(y, sent) = Received(y, Due(d, c, Head(todo[c])))
    BY <2>5
  <2> QED BY <1>0, <1>3, <2>1, <2>3, <2>4, <2>6, LagsRest
<1>5. CASE link[c] # "open"
  <2>1. todo'[c] = << >> /\ inbox' = inbox /\ c # d
    BY <1>0, <1>5 DEF SendReply
  <2>2. m = Note
    BY <1>0, <1>1, <1>5 DEF Closing, Answers
  <2>3. ASSUME NEW k \in DOMAIN todo[c] PROVE \A y : Received(y, Due(d, c, todo[c][k])) = y
    <3>1. todo[c][k].do \in {"reply", "tell"}
      <4>1. k = 1 \/ k > 1
        BY <1>1
      <4> QED BY <1>0, <1>1, <2>2, <4>1 DEF Closing, Closes
    <3>2. Due(d, c, todo[c][k]) = Note
      BY <2>1, <3>1 DEF Due
    <3> QED BY <3>2, StillAre
  <2>4. PICK s : Leads(client[d].text, inbox[d], s) /\ Leads(s, Dues(d, c, todo[c]), doc.text)
    BY DEF Behind, Lags
  <2>5. doc.text = s
    <3> DEFINE u == todo[c]  x == doc.text
    <3>1. u \in Seq(Instructions) /\ \A k \in DOMAIN u : \A y : Received(y, Due(d, c, u[k])) = y
      BY <1>1, <2>3
    <3>2. Leads(s, Dues(d, c, u), x)
      BY <2>4
    <3> HIDE DEF u, x
    <3>3. x = s
      BY <3>1, <3>2, DuesStill
    <3> QED BY <3>3 DEF x
  <2>6. Leads(s, Dues(d, c, << >>), doc.text)
    BY <2>5, DuesNone
  <2>7. Lags(client[d].text, inbox[d], doc.text, d, c, << >>)
    BY <2>4, <2>6 DEF Lags
  <2> QED BY <1>3, <2>1, <2>7 DEF Behind
<1> QED BY <1>4, <1>5

\* Sending to the next of a broadcast's receivers keeps every client following.
LEMMA NextFollows ==
  ASSUME Types, NEW c \in Conns, SendNext(c), NEW d \in Conns, link[d] = "open", Behind(d, c)
  PROVE  (Behind(d, c))'
<1> DEFINE i == Head(todo[c])  m == i.msg  to == i.to
<1>0. QueueTypes /\ todo \in [Conns -> Seq(Instructions)] /\ todo[c] # << >> /\ i.do = "broadcast"
  BY DEF Types, QueueTypes, SendNext, Running
<1>1. i \in Instructions
  BY <1>0, ScriptOf
<1>2. i = [do |-> "broadcast", to |-> to, msg |-> m] /\ to \in SUBSET Conns /\ m \in Messages \cup {Note}
  BY <1>0, <1>1, InstructionIs
<1>3. client'[d].text = client[d].text /\ doc'.text = doc.text
  BY DEF SendNext
<1>4. PICK e \in to : Deliver(e, m) /\ todo'[c] = IF to = {e} THEN Rest(c) ELSE << [i EXCEPT !.to = @ \ {e}] >> \o Rest(c)
  BY <1>0 DEF SendNext, Sent
<1> DEFINE sent == IF e = d THEN m ELSE Note  rest == to \ {e}  j == [i EXCEPT !.to = rest]
<1>5. inbox'[d] = IF e = d /\ m # Note THEN Append(inbox[d], m) ELSE inbox[d]
  <2>1. e \in Conns /\ Deliver(e, m)
    BY <1>2, <1>4
  <2> HIDE DEF m
  <2> QED BY <1>0, <2>1, Delivered
<1>6. inbox'[d] = IF sent = Note THEN inbox[d] ELSE Append(inbox[d], sent)
  BY <1>5
<1>7. sent \in Sendable
  BY <1>2, StillAre DEF Sendable
<1>8. Due(d, c, i) = IF d \in to THEN m ELSE Note
  BY <1>0 DEF Due
<1>9. \/ todo'[c] = Rest(c) /\ to = {e}
      \/ todo'[c] = << j >> \o Rest(c) /\ to # {e}
  BY <1>4
<1>10. j = [do |-> "broadcast", to |-> rest, msg |-> m]
  <2> HIDE DEF i, rest
  <2> QED BY <1>2 DEF i
<1>11. j \in Instructions
  <2>1. j = Broadcast(rest, m) /\ rest \in SUBSET Conns
    BY <1>2, <1>10 DEF Broadcast
  <2> HIDE DEF j, rest, m
  <2> QED BY <1>2, <2>1, InstructionsAre DEF m
<1>12. Due(d, c, j) = IF d \in rest THEN m ELSE Note
  <2>1. j.do = "broadcast" /\ j.to = rest /\ j.msg = m
    BY <1>10
  <2> HIDE DEF j, rest, m
  <2> QED BY <2>1 DEF Due
<1>13. d \in rest <=> d \in to /\ d # e
  OBVIOUS
<1>14. i = Head(todo[c])
  OBVIOUS
<1> HIDE DEF sent, j, rest, i
<1>15. CASE todo'[c] = Rest(c) /\ to = {e}
  <2>1. sent = Due(d, c, i)
    BY <1>8, <1>15 DEF sent
  <2>2. \A y : Received(y, sent) = Received(y, Due(d, c, Head(todo[c])))
    BY <1>14, <2>1
  <2> QED BY <1>0, <1>3, <1>6, <1>7, <1>15, <2>2, LagsRest
<1>16. CASE todo'[c] = << j >> \o Rest(c) /\ to # {e}
  <2>1. ASSUME NEW y PROVE Received(Received(y, sent), Due(d, c, j)) = Received(y, Due(d, c, i))
    <3>1. CASE e = d
      <4>1. sent = Due(d, c, i) /\ Due(d, c, j) = Note
        BY <1>4, <1>8, <1>12, <1>13, <3>1 DEF sent
      <4> QED BY <4>1, StillAre
    <3>2. CASE e # d
      <4>1. sent = Note /\ Due(d, c, j) = Due(d, c, i)
        BY <1>8, <1>12, <1>13, <3>2 DEF sent
      <4> QED BY <4>1, StillAre
    <3> QED BY <3>1, <3>2
  <2>2. \A y : Received(Received(y, sent), Due(d, c, j)) = Received(y, Due(d, c, Head(todo[c])))
    BY <1>14, <2>1
  <2> QED BY <1>0, <1>3, <1>6, <1>7, <1>11, <1>16, <2>2, LagsNext
<1> QED BY <1>9, <1>15, <1>16

\* So does the beginning of a broadcast of an operation: it goes to every editor
\* but its author, who has it from the answer to the edit.
LEMMA BroadcastFollows ==
  ASSUME Slow = {}, Apart, Types, NEW c \in Conns, BeginBroadcast(c), NEW d \in Conns, link[d] = "open", InSession(d), Behind(d, c)
  PROVE  (Behind(d, c))'
<1> DEFINE i == Head(todo[c])
           rev == IF i.doc = "live" THEN Len(doc.log) ELSE i.rev
           to == Editors({UserOf[c]})  m == RemoteOp(i.op, rev)
<1>0. QueueTypes /\ todo \in [Conns -> Seq(Instructions)] /\ todo[c] # << >> /\ (i.do = "tell" \/ i.do = "op")
  BY DEF Types, QueueTypes, BeginBroadcast, Running
<1>1. i \in Instructions /\ i = todo[c][1] /\ 1 \in DOMAIN todo[c] /\ Rest(c) \in Seq(Instructions)
  BY <1>0, ScriptOf
<1>2. client'[d].text = client[d].text /\ doc'.text = doc.text /\ inbox'[d] = inbox[d]
  BY DEF BeginBroadcast
<1>3. todo'[c] = (IF i.do = "tell" THEN BroadcastTo(Editors(i.skip) \cap Slow, Note) ELSE BroadcastTo(to, m)) \o Rest(c)
  BY <1>0 DEF BeginBroadcast, Runs
<1>4. << >> \o Rest(c) = Rest(c)
  <2> DEFINE I == Instructions  r == Rest(c)
  <2>1. r \in Seq(I)
    BY <1>1
  <2> HIDE DEF I, r
  <2> QED BY <2>1 DEF r
<1>5. Note \in Sendable /\ inbox'[d] = IF Note = Note THEN inbox[d] ELSE Append(inbox[d], Note)
  BY <1>2, StillAre
<1>6. ASSUME todo'[c] = Rest(c), Due(d, c, i) = Note PROVE (Behind(d, c))'
  <2>1. \A y : Received(y, Note) = Received(y, Due(d, c, Head(todo[c])))
    BY <1>6
  <2> QED BY <1>0, <1>2, <1>5, <1>6, <2>1, LagsRest
<1>7. CASE i.do = "tell"
  <2>1. BroadcastTo(Editors(i.skip) \cap Slow, Note) = << >>
    BY DEF BroadcastTo
  <2>2. Due(d, c, i) = Note
    BY <1>7 DEF Due
  <2> QED BY <1>3, <1>4, <1>6, <1>7, <2>1, <2>2
<1>8. CASE i.do = "op"
  <2>1. d \in to <=> c # d
    <3>1. PICK u \in DOMAIN session : session[u].ws = d
      BY DEF InSession
    <3>2. UserOf[d] = u /\ \A v \in DOMAIN session : session[v].ws = d => UserOf[d] = v
      BY <3>1 DEF Types, Registry, NoGhostEditors
    <3>3. c # d => UserOf[c] # u
      BY <3>2 DEF Apart
    <3>4. c = d => UserOf[c] = u
      BY <3>2
    <3> QED BY <3>1, <3>2, <3>3, <3>4 DEF Editors
  <2>2. Due(d, c, i) = IF c = d THEN Note ELSE RemoteOp(i.op, 0)
    BY <1>8 DEF Due
  <2>3. todo'[c] = BroadcastTo(to, m) \o Rest(c)
    BY <1>3, <1>8
  <2>4. to \in SUBSET Conns
    BY EditorsAre DEF Types
  <2>5. i.op \in Made /\ rev \in Nat
    <3>1. i.op \in Made /\ i.rev \in Nat
      BY <1>1, <1>8, InstructionIs
    <3>2. i.doc = "live" => Len(doc.log) \in Nat
      <4> SUFFICES ASSUME i.doc = "live" PROVE Len(doc.log) \in Nat
        OBVIOUS
      <4>1. doc \in Documents
        BY <1>1, <1>8 DEF Types, Detachable
      <4> DEFINE l == doc.log  M == Made
      <4>2. l \in Seq(M)
        BY <4>1 DEF Documents
      <4> HIDE DEF l, M
      <4> QED BY <4>2 DEF l
    <3> QED BY <3>1, <3>2
  <2>6. m \in Messages
    <3> HIDE DEF rev
    <3> QED BY <2>5, MessagesAre
  <2> DEFINE j == Broadcast(to, m)
  <2>7. j \in Instructions /\ j.do = "broadcast" /\ j.to = to /\ j.msg = m
    <3> HIDE DEF to, m
    <3>1. j \in Instructions
      BY <2>4, <2>6, InstructionsAre
    <3> QED BY <3>1 DEF Broadcast
  <2>8. \A y : Received(y, m) = Received(y, RemoteOp(i.op, 0))
    BY StillAre
  <2> HIDE DEF to, m, j
  <2>9. CASE to = {}
    <3>1. todo'[c] = Rest(c)
      BY <1>4, <2>3, <2>9 DEF BroadcastTo
    <3> QED BY <1>6, <2>1, <2>2, <2>9, <3>1
  <2>10. CASE to # {}
    <3>1. todo'[c] = << j >> \o Rest(c)
      BY <2>3, <2>10 DEF BroadcastTo, j
    <3>2. Due(d, c, j) = IF d \in to THEN m ELSE Note
      BY <2>7 DEF Due
    <3>3. \A y : Received(Received(y, Note), Due(d, c, j)) = Received(y, Due(d, c, Head(todo[c])))
      BY <2>1, <2>2, <2>8, <3>2, StillAre
    <3> QED BY <1>0, <1>2, <1>5, <2>7, <3>1, <3>3, LagsNext
  <2> QED BY <2>9, <2>10
<1> QED BY <1>0, <1>7, <1>8

\* A snapshot leaves the text alone.
LEMMA SnapshotText ==
  ASSUME NEW m \in Documents, CreateSnapshot(m)
  PROVE  doc'.text = m.text
<1>1. m = [text |-> m.text, version |-> m.version, pending |-> m.pending, log |-> m.log]
  BY DEF Documents
<1>2. doc' = [m EXCEPT !.version = @ + 1, !.pending = 0]
  BY DEF CreateSnapshot, Snapshotted
<1> QED BY <1>1, <1>2

\* The check for an automatic snapshot, and the check for an empty session.
LEMMA ChecksFollow ==
  ASSUME Types, NEW c \in Conns, CheckAutoSnapshot(c) \/ CheckUnload(c),
         NEW d \in Conns, (InSession(d))', Behind(d, c)
  PROVE  (Behind(d, c))'
<1> DEFINE i == Head(todo[c])
<1>0. QueueTypes /\ todo \in [Conns -> Seq(Instructions)] /\ todo[c] # << >> /\ (i.do = "autosnap" \/ i.do = "unload")
  BY DEF Types, QueueTypes, CheckAutoSnapshot, CheckUnload, Running
<1>1. Due(d, c, i) = Note
  BY <1>0 DEF Due
<1>2. client'[d].text = client[d].text /\ inbox'[d] = inbox[d]
  BY DEF CheckAutoSnapshot, CheckUnload
<1>3. Note \in Sendable /\ inbox'[d] = IF Note = Note THEN inbox[d] ELSE Append(inbox[d], Note)
  BY <1>2, StillAre
<1>4. ASSUME doc'.text = doc.text, todo'[c] = Rest(c) PROVE (Behind(d, c))'
  <2>1. \A y : Received(y, Note) = Received(y, Due(d, c, Head(todo[c])))
    BY <1>1
  <2> QED BY <1>0, <1>2, <1>3, <1>4, <2>1, LagsRest
<1>5. CASE CheckAutoSnapshot(c)
  <2>1. doc'.text = doc.text
    <3>1. doc' = doc \/ (Loaded /\ CreateSnapshot(doc))
      BY <1>5 DEF CheckAutoSnapshot
    <3>2. Loaded => doc \in Documents
      BY DEF Types, MemoryTypes, Loaded
    <3> QED BY <3>1, <3>2, SnapshotText
  <2>2. todo'[c] = Rest(c) \/ todo'[c] = << TellAll >> \o Rest(c)
    BY <1>0, <1>5 DEF CheckAutoSnapshot, Runs
  <2>3. TellAll \in Instructions
    BY InstructionsAre
  <2>4. Due(d, c, TellAll) = Note
    BY DEF Due, TellAll
  <2>5. \A y : Received(Received(y, Note), Due(d, c, TellAll)) = Received(y, Due(d, c, Head(todo[c])))
    BY <1>1, <2>4, StillAre
  <2> HIDE DEF i
  <2>6. CASE todo'[c] = << TellAll >> \o Rest(c)
    BY <1>0, <1>2, <1>3, <2>1, <2>3, <2>5, <2>6, LagsNext
  <2> QED BY <1>4, <2>1, <2>2, <2>6
<1>6. CASE CheckUnload(c)
  <2>1. session' # Empty
    BY DEF InSession, Empty
  <2>2. doc' = doc /\ todo' = [todo EXCEPT ![c] = << >>] /\ Rest(c) = << >>
    BY <1>6, <2>1, UnloadIs
  <2>3. todo'[c] = Rest(c)
    BY <1>0, <2>2
  <2> QED BY <1>4, <2>2, <2>3
<1> QED BY <1>5, <1>6

\* Where no handler is at work the client has the server's text once it has
\* received what is in its inbox.
LEMMA BehindNobody ==
  ASSUME NEW d, NEW c, todo[c] = << >>, Behind(d, c)
  PROVE  Leads(client[d].text, inbox[d], doc.text)
<1>1. PICK s : Leads(client[d].text, inbox[d], s) /\ Leads(s, Dues(d, c, << >>), doc.text)
  BY DEF Behind, Lags
<1> QED BY <1>1, DuesNone

\* A handler's script that sends nothing that matters to d.
LEMMA StillFollows ==
  ASSUME NEW d \in Conns, NEW c \in Conns, Leads(client[d].text, inbox[d], doc.text), NEW t \in Seq(Instructions),
         \A k \in DOMAIN t : Due(d, c, t[k]) \in {Note, Error},
         todo'[c] = t, inbox'[d] = inbox[d], client'[d].text = client[d].text, doc'.text = doc.text
  PROVE  (Behind(d, c))'
<1>1. \A k \in DOMAIN t : \A y : Received(y, Due(d, c, t[k])) = y
  BY StillAre
<1>2. Leads(doc.text, Dues(d, c, t), doc.text)
  <2> DEFINE x == doc.text
  <2> HIDE DEF x
  <2>1. Leads(x, Dues(d, c, t), x)
    BY <1>1, DuesStill
  <2> QED BY <2>1 DEF x
<1> QED BY <1>2 DEF Behind, Lags

\* A handler's script whose first message brings the server's text.
LEMMA AnswerFollows ==
  ASSUME NEW d \in Conns, NEW c \in Conns, NEW s, Leads(client[d].text, inbox[d], s),
         NEW i \in Instructions, NEW t \in Seq(Instructions),
         Received(s, Due(d, c, i)) = doc'.text, \A k \in DOMAIN t : Due(d, c, t[k]) \in {Note, Error},
         todo'[c] = << i >> \o t, inbox'[d] = inbox[d], client'[d].text = client[d].text
  PROVE  (Behind(d, c))'
<1>1. \A k \in DOMAIN t : \A y : Received(y, Due(d, c, t[k])) = y
  BY StillAre
<1> DEFINE x == doc'.text
<1>2. Received(s, Due(d, c, i)) = x
  OBVIOUS
<1> HIDE DEF x
<1>3. Leads(Received(s, Due(d, c, i)), Dues(d, c, t), x)
  BY <1>1, <1>2, DuesStill
<1>4. Leads(s, Dues(d, c, << i >> \o t), x)
  BY <1>3, DuesMore
<1> QED BY <1>4 DEF Behind, Lags, x

-----------------------------------------------------------------------------
(* The requests, and what they leave a client behind by.                   *)

\* An edit's operations, sent one by one to those who did not make it, bring
\* them to what it made of the text.
LEMMA OpsFollow ==
  ASSUME NEW d \in Conns, NEW c \in Conns, c # d, NEW ops \in Seq(Made), NEW x
  PROVE  LET t == [k \in DOMAIN ops |-> SendOp(ops[k])] \o << AutoSnapshot >>
         IN  t \in Seq(Instructions) /\ Leads(x, Dues(d, c, t), ApplyOperations(x, ops))
<1> DEFINE I == Instructions  y == AutoSnapshot  f == [k \in DOMAIN ops |-> SendOp(ops[k])]  t == f \o << y >>
           l == Len(ops)
<1>1. y \in I /\ Due(d, c, y) = Note
  BY InstructionsAre DEF Due, AutoSnapshot
<1>2. l \in Nat /\ DOMAIN ops = 1 .. l /\ \A k \in 1 .. l : ops[k] \in Made
  <2> HIDE DEF Made
  <2> QED OBVIOUS
<1>3. f = [k \in 1 .. l |-> f[k]] /\ \A k \in 1 .. l : f[k] \in I /\ Due(d, c, f[k]) = RemoteOp(ops[k], 0)
  <2>1. f = [k \in 1 .. l |-> f[k]] /\ \A k \in 1 .. l : f[k] = SendOp(ops[k])
    BY <1>2
  <2>2. \A k \in 1 .. l : SendOp(ops[k]) \in I
    BY <1>2, InstructionsAre
  <2>3. \A op : Due(d, c, SendOp(op)) = RemoteOp(op, 0)
    BY DEF Due, SendOp
  <2> HIDE DEF f, I
  <2> QED BY <2>1, <2>2, <2>3
<1> HIDE DEF f, I, l, y
<1>4. t \in Seq(I) /\ Len(t) = l + 1 /\ t[l + 1] = y /\ \A k \in 1 .. l : t[k] = f[k]
  <2>1. f \in Seq(I) /\ Len(f) = l
    BY <1>2, <1>3
  <2> QED BY <1>1, <1>2, <2>1
<1> HIDE DEF t
<1> DEFINE w == Dues(d, c, t)
<1>5. Len(w) = l + 1 /\ w[l + 1] = Note /\ \A k \in 1 .. l : w[k] = RemoteOp(ops[k], 0)
  <2>1. Len(w) = Len(t) /\ \A k \in DOMAIN t : w[k] = Due(d, c, t[k])
    BY <1>4, DuesAre DEF I
  <2>2. DOMAIN t = 1 .. l + 1
    BY <1>2, <1>4
  <2> QED BY <1>1, <1>2, <1>3, <1>4, <2>1, <2>2
<1> HIDE DEF w
<1>6. PICK out : ApplySteps(out, x, ops, l) /\ ApplyOperations(x, ops) = out[l]
  BY <1>2, ApplyIsLoop
<1> DEFINE more == [k \in 0 .. l + 1 |-> IF k = l + 1 THEN out[l] ELSE out[k]]
<1>7. more[l + 1] = out[l] /\ \A k \in 0 .. l : more[k] = out[k]
  BY <1>2
<1> HIDE DEF more
<1>8. more[0] = x
  BY <1>2, <1>6, <1>7 DEF ApplySteps
<1>9. ASSUME NEW k \in 1 .. l + 1 PROVE more[k] = Received(more[k - 1], w[k])
  <2>1. CASE k = l + 1
    <3>1. more[k - 1] = out[l]
      BY <1>2, <1>7, <2>1
    <3> QED BY <1>5, <1>7, <2>1, <3>1, StillAre
  <2>2. CASE k # l + 1
    <3>1. k \in 1 .. l /\ k \in 0 .. l /\ k - 1 \in 0 .. l
      BY <1>2, <2>2
    <3>2. more[k] = ApplyOperation(more[k - 1], ops[k])
      BY <1>6, <1>7, <3>1 DEF ApplySteps
    <3>3. \A a, op : Received(a, RemoteOp(op, 0)) = ApplyOperation(a, op)
      BY DEF Received, RemoteOp
    <3> QED BY <1>5, <3>1, <3>2, <3>3
  <2> QED BY <2>1, <2>2
<1>10. Leads(x, w, ApplyOperations(x, ops))
  BY <1>5, <1>6, <1>7, <1>8, <1>9 DEF Leads, Traced
<1> QED BY <1>4, <1>10 DEF w, t, f, I, y

\* The dues of the instructions that say nothing about the text.
LEMMA NotesAre ==
  ASSUME NEW d, NEW c
  PROVE  /\ Due(d, c, Reply(Note)) = Note /\ Due(d, c, TellAll) = Note /\ Due(d, c, Unload) = Note
         /\ Due(d, c, AutoSnapshot) = Note /\ Due(d, c, Reply(Error)) \in {Note, Error}
BY DEF Due, Reply, TellAll, Unload, AutoSnapshot

\* The dues of the others.
LEMMA DueOf ==
  ASSUME NEW d, NEW c, NEW m
  PROVE  /\ Due(d, c, Reply(m)) = IF c = d THEN m ELSE Note
         /\ Due(d, c, TellOthers(m)) = Note /\ Due(c, c, SendOp(m)) = Note
         /\ \A to : Due(d, c, Broadcast(to, m)) = IF d \in to THEN m ELSE Note
BY DEF Due, Reply, TellOthers, Broadcast, SendOp

\* A join brings its own client the text, and nobody else anything.
LEMMA JoinFollows ==
  ASSUME Types, Kept, NEW c \in Conns, HandleJoin(c), NEW d \in Conns, todo[c] = << >>,
         c = d \/ InSession(d), InSession(d) => Behind(d, c), session' = session => InSession(d)
  PROVE  (Behind(d, c))'
<1> DEFINE u == UserOf[c]  m == LoadDocument  x == Reply(DocState(m.text, Len(m.log)))  y == Reply(Note)  z == TellOthers(u)
<1>0. todo \in [Conns -> Seq(Instructions)] /\ inbox \in [Conns -> Seq(Messages)]
  BY DEF Types, QueueTypes
<1>1. inbox' = inbox /\ client' = client
  BY DEF HandleJoin
<1>2. CASE u \notin DOMAIN db.collab
  <2>1. todo'[c] = << Reply(Error) >> /\ UNCHANGED <<doc, session>>
    BY <1>0, <1>2 DEF HandleJoin, Runs
  <2>2. Leads(client[d].text, inbox[d], doc.text)
    BY <2>1, BehindNobody
  <2> DEFINE e == Reply(Error)
  <2>3. e \in Instructions /\ Due(d, c, e) \in {Note, Error}
    BY InstructionsAre, MessagesAre, NotesAre
  <2> HIDE DEF e
  <2>4. << e >> \in Seq(Instructions) /\ DOMAIN << e >> = {1} /\ << e >>[1] = e
    <3> HIDE DEF Instructions
    <3> QED BY <2>3
  <2>5. \A k \in DOMAIN << e >> : Due(d, c, << e >>[k]) \in {Note, Error}
    BY <2>3, <2>4
  <2>6. todo'[c] = << e >> /\ doc'.text = doc.text
    BY <2>1 DEF e
  <2> QED BY <1>1, <2>2, <2>4, <2>5, <2>6, StillFollows
<1>3. CASE u \in DOMAIN db.collab
  <2>1. todo'[c] = << x, y, z >> /\ doc' = m
    BY <1>0, <1>3 DEF HandleJoin, Runs
  <2>2. m \in Documents /\ u \in Users
    BY LoadedTyped DEF Types, Versions, Users
  <2>3. m.text \in Texts /\ Len(m.log) \in Nat
    <3> DEFINE l == m.log  M == Made
    <3>1. m.text \in Texts /\ l \in Seq(M)
      BY <2>2 DEF Documents
    <3> HIDE DEF l, M
    <3> QED BY <3>1 DEF l
  <2>4. x \in Instructions /\ y \in Instructions /\ z \in Instructions
    BY <2>2, <2>3, MessagesAre, InstructionsAre
  <2>5. Due(d, c, y) = Note /\ Due(d, c, z) = Note /\ Due(d, c, x) = IF c = d THEN DocState(m.text, Len(m.log)) ELSE Note
    <3> DEFINE g == DocState(m.text, Len(m.log))
    <3>1. x = Reply(g)
      OBVIOUS
    <3> HIDE DEF g, x
    <3>2. Due(d, c, x) = IF c = d THEN g ELSE Note
      BY <3>1, DueOf
    <3>3. Due(d, c, y) = Note /\ Due(d, c, z) = Note
      BY NotesAre, DueOf
    <3> QED BY <3>2, <3>3 DEF g
  <2> DEFINE n == Len(m.log)
  <2>6. \A s : Received(s, DocState(m.text, n)) = m.text
    BY DEF Received, DocState
  <2> DEFINE t == << y, z >>
  <2> HIDE DEF x, y, z, n
  <2>7. t \in Seq(Instructions) /\ << x, y, z >> = << x >> \o t /\ DOMAIN t = {1, 2} /\ t[1] = y /\ t[2] = z
    <3> HIDE DEF Instructions
    <3> QED BY <2>4
  <2> HIDE DEF t
  <2>8. \A k \in DOMAIN t : Due(d, c, t[k]) \in {Note, Error}
    BY <2>5, <2>7
  <2>9. CASE c = d
    <3> DEFINE M == Messages  b == inbox[d]  k == client[d].text
    <3>1. b \in Seq(M)
      BY <1>0
    <3> HIDE DEF M, b
    <3>2. PICK s : Leads(k, b, s)
      BY <3>1, LeadsSomewhere
    <3>3. Received(s, Due(d, c, x)) = doc'.text
      BY <2>1, <2>5, <2>6, <2>9 DEF n
    <3>4. todo'[c] = << x >> \o t
      BY <2>1, <2>7
    <3>5. Leads(client[d].text, inbox[d], s)
      BY <3>2 DEF b
    <3> HIDE DEF m, k
    <3> QED BY <1>1, <2>4, <2>7, <2>8, <3>3, <3>4, <3>5, AnswerFollows
  <2>10. CASE c # d
    <3>1. InSession(d) /\ Behind(d, c)
      BY <2>10
    <3>2. DOMAIN session # {}
      BY <3>1 DEF InSession
    <3>3. m = doc
      BY <3>2 DEF Kept, LoadDocument
    <3>4. Leads(client[d].text, inbox[d], doc.text)
      BY <3>1, BehindNobody
    <3> DEFINE v == << x >> \o t
    <3>5. v \in Seq(Instructions) /\ DOMAIN v = {1, 2, 3} /\ v[1] = x /\ v[2] = y /\ v[3] = z
      <4>1. v = << x, y, z >>
        BY <2>7
      <4> HIDE DEF v
      <4> HIDE DEF Instructions
      <4> QED BY <2>4, <4>1
    <3>6. todo'[c] = v /\ doc'.text = doc.text
      BY <2>1, <2>7, <3>3
    <3> HIDE DEF v, m
    <3>7. \A k \in DOMAIN v : Due(d, c, v[k]) \in {Note, Error}
      BY <2>5, <2>10, <3>5
    <3> QED BY <1>1, <3>4, <3>5, <3>6, <3>7, StillFollows
  <2> QED BY <2>9, <2>10
<1> QED BY <1>2, <1>3

\* An edit brings its author the operations in the answer, the others one by
\* one.
LEMMA EditFollows ==
  ASSUME Types, NEW c \in Conns, HandleEdit(c), NEW d \in Conns, todo[c] = << >>, Behind(d, c)
  PROVE  (Behind(d, c))'
<1> DEFINE ops == Applied(Head(req[c]))  n == Len(doc.log \o ops)  x == Reply(Ack(ops, n))  y == AutoSnapshot
           f == [k \in DOMAIN ops |-> SendOp(ops[k])]  t == f \o << y >>
<1>0. todo \in [Conns -> Seq(Instructions)]
  BY DEF Types, QueueTypes
<1>1. inbox' = inbox /\ client' = client
  BY DEF HandleEdit
<1>2. Leads(client[d].text, inbox[d], doc.text)
  BY BehindNobody
<1>3. CASE ~ Loaded \/ ~ MayEdit(UserOf[c])
  <2>1. todo'[c] = << Reply(Error) >> /\ doc' = doc
    BY <1>0, <1>3 DEF HandleEdit, Runs
  <2> DEFINE e == Reply(Error)
  <2>2. e \in Instructions /\ Due(d, c, e) \in {Note, Error}
    BY InstructionsAre, MessagesAre, NotesAre
  <2> HIDE DEF e
  <2>3. << e >> \in Seq(Instructions) /\ DOMAIN << e >> = {1} /\ << e >>[1] = e
    <3> HIDE DEF Instructions
    <3> QED BY <2>2
  <2>4. \A k \in DOMAIN << e >> : Due(d, c, << e >>[k]) \in {Note, Error}
    BY <2>2, <2>3
  <2>5. todo'[c] = << e >> /\ doc'.text = doc.text
    BY <2>1 DEF e
  <2> QED BY <1>1, <1>2, <2>3, <2>4, <2>5, StillFollows
<1>4. CASE Loaded /\ MayEdit(UserOf[c])
  <2>1. doc \in Documents /\ ops \in Seq(Made)
    BY <1>4, EditIs
  <2>2. todo'[c] = << x >> \o f \o << y >>
        /\ doc' = [doc EXCEPT !.text = ApplyOperations(@, ops), !.log = doc.log \o ops, !.pending = @ + Len(ops)]
    BY <1>0, <1>4 DEF HandleEdit, Runs
  <2> HIDE DEF ops
  <2>3. doc'.text = ApplyOperations(doc.text, ops)
    <3>1. doc = [text |-> doc.text, version |-> doc.version, pending |-> doc.pending, log |-> doc.log]
      BY <2>1 DEF Documents
    <3> QED BY <2>2, <3>1
  <2>4. n \in Nat
    BY <2>1, EditedTyped
  <2> HIDE DEF n
  <2> DEFINE g == Ack(ops, n)
  <2>5. x \in Instructions /\ x = Reply(g) /\ g \in Messages /\ y \in Instructions
    BY <2>1, <2>4, MessagesAre, InstructionsAre
  <2>6. \A s : Received(s, g) = ApplyOperations(s, ops)
    BY DEF Received, Ack
  <2> HIDE DEF g, x
  <2>7. Due(d, c, x) = IF c = d THEN g ELSE Note
    BY <2>5, DueOf
  <2> DEFINE l == Len(ops)
  <2>8. l \in Nat /\ DOMAIN ops = 1 .. l /\ \A k \in 1 .. l : ops[k] \in Made
    <3> DEFINE M == Made
    <3>1. ops \in Seq(M)
      BY <2>1
    <3> HIDE DEF M
    <3> QED BY <3>1 DEF M
  <2>9. f \in Seq(Instructions) /\ Len(f) = l /\ \A k \in 1 .. l : f[k] = SendOp(ops[k])
    <3> DEFINE I == Instructions
    <3>1. f = [k \in 1 .. l |-> f[k]] /\ \A k \in 1 .. l : f[k] = SendOp(ops[k])
      BY <2>8
    <3>2. \A k \in 1 .. l : f[k] \in I
      BY <2>8, <3>1, InstructionsAre
    <3> HIDE DEF f, I, l
    <3>3. f \in Seq(I) /\ Len(f) = l
      BY <2>8, <3>1, <3>2
    <3> QED BY <3>1, <3>3 DEF I
  <2> HIDE DEF f, y, l
  <2>10. t \in Seq(Instructions) /\ << x >> \o f \o << y >> = << x >> \o t /\ DOMAIN t = 1 .. l + 1
         /\ t[l + 1] = y /\ \A k \in 1 .. l : t[k] = f[k]
    <3> DEFINE I == Instructions
    <3>1. x \in I /\ y \in I /\ f \in Seq(I)
      BY <2>5, <2>9
    <3> HIDE DEF I
    <3>2. t \in Seq(I) /\ DOMAIN t = 1 .. l + 1 /\ t[l + 1] = y /\ \A k \in 1 .. l : t[k] = f[k]
      BY <2>8, <2>9, <3>1
    <3>3. << x >> \o f \o << y >> = << x >> \o t
      BY <3>1
    <3> QED BY <3>2, <3>3 DEF I
  <2> HIDE DEF t
  <2>11. todo'[c] = << x >> \o t
    BY <2>2, <2>10
  <2>12. CASE c = d
    <3>1. Received(doc.text, Due(d, c, x)) = doc'.text
      BY <2>3, <2>6, <2>7, <2>12
    <3>2. \A k \in DOMAIN t : Due(d, c, t[k]) \in {Note, Error}
      <4> SUFFICES ASSUME NEW k \in DOMAIN t PROVE Due(d, c, t[k]) = Note
        OBVIOUS
      <4>1. k = l + 1 \/ k \in 1 .. l
        BY <2>8, <2>10
      <4>2. CASE k = l + 1
        <5>1. Due(d, c, y) = Note
          BY NotesAre DEF y
        <5> QED BY <2>10, <4>2, <5>1
      <4>3. CASE k \in 1 .. l
        <5> DEFINE o == ops[k]
        <5>1. t[k] = SendOp(o)
          BY <2>9, <2>10, <4>3
        <5> HIDE DEF o
        <5>2. Due(c, c, SendOp(o)) = Note
          BY DueOf
        <5> QED BY <2>12, <5>1, <5>2
      <4> QED BY <4>1, <4>2, <4>3
    <3>3. inbox'[d] = inbox[d] /\ client'[d].text = client[d].text /\ Leads(client[d].text, inbox[d], doc.text)
      BY <1>1, <1>2
    <3>4. x \in Instructions /\ t \in Seq(Instructions) /\ \A k \in DOMAIN t : Due(d, c, t[k]) \in {Note, Error}
      BY <2>5, <2>10, <3>2
    <3> QED BY ONLY c \in Conns, d \in Conns, <2>11, <3>1, <3>3, <3>4, AnswerFollows
  <2>13. CASE c # d
    <3> DEFINE a == doc.text  z == doc'.text
    <3>1. t \in Seq(Instructions) /\ Leads(a, Dues(d, c, t), ApplyOperations(a, ops))
      BY <2>1, <2>13, OpsFollow DEF t, f, y
    <3>2. Received(a, Due(d, c, x)) = a
      BY <2>7, <2>13, StillAre
    <3>3. z = ApplyOperations(a, ops)
      BY <2>3
    <3> HIDE DEF a, z
    <3>4. Leads(a, Dues(d, c, << x >> \o t), z)
      BY <2>5, <3>1, <3>2, <3>3, DuesMore
    <3> QED BY <1>1, <1>2, <2>11, <3>4 DEF Behind, Lags, a, z
  <2> QED BY <2>12, <2>13
<1> QED BY <1>3, <1>4

\* The short scripts that send nothing that matters.
LEMMA StillScripts ==
  ASSUME NEW d, NEW c, NEW x \in Instructions, NEW y \in Instructions,
         Due(d, c, x) = Note, Due(d, c, y) = Note
  PROVE  /\ << >> \in Seq(Instructions) /\ << x >> \in Seq(Instructions) /\ << x, y >> \in Seq(Instructions)
         /\ \A t \in {<< >>, << x >>, << x, y >>} : \A k \in DOMAIN t : Due(d, c, t[k]) \in {Note, Error}
<1>1. << >> \in Seq(Instructions) /\ << x >> \in Seq(Instructions) /\ << x, y >> \in Seq(Instructions)
  <2> HIDE DEF Instructions
  <2> QED OBVIOUS
<1>2. ASSUME NEW t \in {<< >>, << x >>, << x, y >>}, NEW k \in DOMAIN t PROVE t[k] = x \/ t[k] = y
  <2>1. CASE t = << >>
    BY <2>1, ShortScripts
  <2>2. CASE t = << x >>
    BY <2>2, ShortScripts
  <2>3. CASE t = << x, y >>
    BY <2>3, ShortScripts
  <2> QED BY <2>1, <2>2, <2>3
<1> QED BY <1>1, <1>2

\* A handler takes a request when it has done what it had to do.
LEMMA Idle ==
  ASSUME NEW c, Handle(c)
  PROVE  todo[c] = << >>
BY DEF Handle, HandleJoin, HandleEdit, HandleCursorUpdate, HandleSaveSnapshot, HandleRestoreVersion, HandleCreateDoc,
       HandleDisconnect, Takes

\* A cursor, a save and a create say nothing about the text.
LEMMA QuietFollows ==
  ASSUME Types, NEW c \in Conns, HandleCursorUpdate(c) \/ HandleSaveSnapshot(c) \/ HandleCreateDoc(c),
         NEW d \in Conns, Behind(d, c)
  PROVE  (Behind(d, c))'
<1> DEFINE y == Reply(Note)  z == TellOthers(UserOf[c])
<1>0. todo \in [Conns -> Seq(Instructions)] /\ todo[c] = << >>
  BY Idle DEF Types, QueueTypes, Handle
<1>1. inbox' = inbox /\ client' = client
  BY DEF HandleCursorUpdate, HandleSaveSnapshot, HandleCreateDoc
<1>2. Leads(client[d].text, inbox[d], doc.text)
  BY <1>0, BehindNobody
<1>3. y \in Instructions /\ z \in Instructions
  BY InstructionsAre DEF Users
<1>4. Due(d, c, y) = Note /\ Due(d, c, z) = Note
  BY NotesAre, DueOf
<1>5. todo'[c] = << y >> \/ todo'[c] = << z >>
  BY <1>0 DEF HandleCursorUpdate, HandleSaveSnapshot, HandleCreateDoc, Runs
<1>6. doc'.text = doc.text
  <2>1. doc' = doc \/ (Loaded /\ CreateSnapshot(doc))
    BY DEF HandleCursorUpdate, HandleSaveSnapshot, HandleCreateDoc
  <2>2. Loaded => doc \in Documents
    BY DEF Types, MemoryTypes, Loaded
  <2> QED BY <2>1, <2>2, SnapshotText
<1> HIDE DEF y, z
<1>7. PICK x \in {y, z} : todo'[c] = << x >>
  BY <1>5
<1>8. << x >> \in Seq(Instructions) /\ \A k \in DOMAIN << x >> : Due(d, c, << x >>[k]) \in {Note, Error}
  <2>1. x \in Instructions /\ Due(d, c, x) = Note
    BY <1>3, <1>4
  <2> QED BY <2>1, StillScripts
<1> DEFINE t == << x >>
<1>9. t \in Seq(Instructions) /\ (\A k \in DOMAIN t : Due(d, c, t[k]) \in {Note, Error}) /\ todo'[c] = t
  BY <1>7, <1>8
<1> HIDE DEF t
<1> QED BY <1>1, <1>2, <1>6, <1>9, StillFollows

\* A restore brings the text of the version to everyone in the session.
LEMMA RestoreFollows ==
  ASSUME Types, NEW c \in Conns, HandleRestoreVersion(c), NEW d \in Conns, InSession(d), Behind(d, c)
  PROVE  (Behind(d, c))'
<1> DEFINE y == Reply(Note)  v == Head(req[c]).version  to == Editors({})  g == DocState(db.snaps[v], 0)
<1>0. todo \in [Conns -> Seq(Instructions)] /\ todo[c] = << >>
  BY Idle DEF Types, QueueTypes, Handle
<1>1. inbox' = inbox /\ client' = client
  BY DEF HandleRestoreVersion
<1>2. Leads(client[d].text, inbox[d], doc.text)
  BY <1>0, BehindNobody
<1>3. y \in Instructions /\ Due(d, c, y) = Note
  BY InstructionsAre, NotesAre
<1>4. CASE v \notin DOMAIN db.snaps
  <2>1. todo'[c] = << y >> /\ doc'.text = doc.text
    BY <1>0, <1>4 DEF HandleRestoreVersion, Runs
  <2> HIDE DEF y
  <2> DEFINE t == << y >>
  <2>2. t \in Seq(Instructions) /\ (\A k \in DOMAIN t : Due(d, c, t[k]) \in {Note, Error}) /\ todo'[c] = t
    BY <1>3, <2>1, StillScripts
  <2> HIDE DEF t
  <2> QED BY <1>1, <1>2, <2>1, <2>2, StillFollows
<1>5. CASE v \in DOMAIN db.snaps
  <2>1. todo'[c] = BroadcastTo(to, g) \o << y >> /\ CreateSnapshot(Restored(v))
    BY <1>0, <1>5 DEF HandleRestoreVersion, Runs
  <2>2. d \in to /\ to \in SUBSET Conns
    BY EditorsAre DEF Types, InSession, Editors
  <2>3. Restored(v) \in Documents /\ LoadDocument \in Documents /\ db.snaps[v] \in Texts
    BY <1>5, LoadedTyped DEF Types, Versions, RowTypes
  <2>4. doc'.text = db.snaps[v]
    <3>1. doc'.text = Restored(v).text
      BY <2>1, <2>3, SnapshotText
    <3> DEFINE m == LoadDocument  z == db.snaps[v]
    <3>2. m = [text |-> m.text, version |-> m.version, pending |-> m.pending, log |-> m.log]
      BY <2>3 DEF Documents
    <3>3. Restored(v) = [m EXCEPT !.text = z, !.pending = 0, !.log = << >>]
      BY DEF Restored
    <3> HIDE DEF m, z
    <3>4. Restored(v).text = z
      BY <3>2, <3>3
    <3> QED BY <3>1, <3>4 DEF z
  <2>5. \A s : Received(s, g) = db.snaps[v]
    BY DEF Received, DocState
  <2>6. g \in Messages
    BY <2>3, MessagesAre
  <2> HIDE DEF g, to, y
  <2> DEFINE i == Broadcast(to, g)  t == << y >>
  <2>7. i \in Instructions /\ Due(d, c, i) = g
    <3>1. i \in Instructions
      BY <2>2, <2>6, InstructionsAre
    <3>2. \A m : Due(d, c, Broadcast(to, m)) = IF d \in to THEN m ELSE Note
      BY DEF Due, Broadcast
    <3> QED BY <2>2, <3>1, <3>2
  <2>8. BroadcastTo(to, g) = << i >>
    BY <2>2 DEF BroadcastTo
  <2> HIDE DEF i
  <2>9. t \in Seq(Instructions) /\ (\A k \in DOMAIN t : Due(d, c, t[k]) \in {Note, Error}) /\ todo'[c] = << i >> \o t
    BY <1>3, <2>1, <2>8, StillScripts
  <2> HIDE DEF t
  <2>10. Received(doc.text, Due(d, c, i)) = doc'.text
    BY <2>4, <2>5, <2>7
  <2> QED BY <1>1, <1>2, <2>7, <2>9, <2>10, AnswerFollows
<1> QED BY <1>4, <1>5

\* The end of a connection says nothing about the text.
LEMMA LeaveFollows ==
  ASSUME Types, NEW c \in Conns, HandleDisconnect(c), NEW d \in Conns, Behind(d, c)
  PROVE  (Behind(d, c))'
<1> DEFINE x == TellAll  y == Unload
<1>0. todo \in [Conns -> Seq(Instructions)] /\ todo[c] = << >>
  BY Idle DEF Types, QueueTypes, Handle
<1>1. inbox' = inbox /\ client' = client /\ doc'.text = doc.text
  BY DEF HandleDisconnect
<1>2. Leads(client[d].text, inbox[d], doc.text)
  BY <1>0, BehindNobody
<1>3. x \in Instructions /\ y \in Instructions /\ Due(d, c, x) = Note /\ Due(d, c, y) = Note
  BY InstructionsAre, NotesAre
<1>4. todo'[c] = << >> \/ todo'[c] = << x, y >>
  BY <1>0 DEF HandleDisconnect, Runs
<1> HIDE DEF x, y
<1>5. todo'[c] \in Seq(Instructions) /\ \A k \in DOMAIN todo'[c] : Due(d, c, todo'[c][k]) \in {Note, Error}
  BY <1>3, <1>4, StillScripts
<1> DEFINE t == todo'[c]
<1>6. t \in Seq(Instructions) /\ (\A k \in DOMAIN t : Due(d, c, t[k]) \in {Note, Error}) /\ todo'[c] = t
  BY <1>5
<1> HIDE DEF t
<1> QED BY <1>1, <1>2, <1>6, StillFollows

-----------------------------------------------------------------------------
(* Every editor stays behind by what is on its way to it.                  *)

\* Handlers that take turns: after a step of c's no other has anything to do.
LEMMA OthersIdle ==
  ASSUME Slow = {}, Types, Turns, [Next]_vars, NEW c \in Conns, Handle(c) \/ Step(c)
  PROVE  \A e \in Conns : e # c => todo'[e] = << >>
<1>1. loop' \in {c, Free}
  <2>1. CASE CheckUnload(c)
    BY <2>1 DEF CheckUnload
  <2>2. CASE ~ CheckUnload(c)
    BY <2>2, LoopIs
  <2> QED BY <2>1, <2>2
<1>2. \A e \in Conns : todo'[e] # << >> => loop' = e
  BY TurnsStep DEF Turns
<1> QED BY <1>1, <1>2, DocAssumption

\* Whoever is in the session after a handler's step was in it, or that handler
\* has just taken its join.
LEMMA WhoJoined ==
  ASSUME Slow = {}, Types, [Next]_vars, NEW c \in Conns, Handle(c) \/ Step(c), NEW d \in Conns, (InSession(d))'
  PROVE  InSession(d) \/ (HandleJoin(c) /\ c = d)
<1>1. SUFFICES ASSUME HandleJoin(d) PROVE c = d
  BY SessionAfter
<1>2. loop' = d
  <2>1. << Reply(Error) >> # << >> /\ \A x, y, z : << x, y, z >> # << >>
    OBVIOUS
  <2>2. (\E x : Runs(d, << x >>)) \/ (\E x, y, z : Runs(d, << x, y, z >>))
    BY <1>1 DEF HandleJoin
  <2> QED BY <2>1, <2>2 DEF Runs
<1>3. loop' \in {c, Free}
  <2>1. CASE CheckUnload(c)
    BY <2>1 DEF CheckUnload
  <2>2. CASE ~ CheckUnload(c)
    BY <2>2, LoopIs
  <2> QED BY <2>1, <2>2
<1> QED BY <1>2, <1>3, DocAssumption

\* A step of a handler leaves every editor behind by what it has still to send.
LEMMA WorkerFollows ==
  ASSUME Slow = {}, Apart, Types, Turns, Kept, Closing, Following, [Next]_vars,
         NEW c \in Conns, Handle(c) \/ Step(c), NEW d \in Conns, link[d] = "open", (InSession(d))'
  PROVE  (Behind(d, c))'
<1>1. InSession(d) => Behind(d, c)
  <2>1. Alone(c)
    BY OneAtWork DEF Alone
  <2> QED BY <2>1 DEF Following
<1>2. CASE HandleJoin(c)
  <2>1. todo[c] = << >>
    BY <1>2, Idle DEF Handle
  <2>2. c = d \/ InSession(d)
    BY WhoJoined
  <2>3. session' = session => InSession(d)
    BY DEF InSession
  <2> QED BY <1>1, <1>2, <2>1, <2>2, <2>3, JoinFollows
<1>3. CASE ~ HandleJoin(c)
  <2>1. InSession(d) /\ Behind(d, c)
    BY <1>1, <1>3, WhoJoined
  <2>2. CASE Handle(c)
    <3>1. todo[c] = << >>
      BY <2>2, Idle
    <3> QED BY <1>3, <2>1, <2>2, <3>1, EditFollows, QuietFollows, RestoreFollows, LeaveFollows DEF Handle
  <2>3. CASE Step(c)
    BY <2>1, <2>3, ReplyFollows, NextFollows, BroadcastFollows, ChecksFollow DEF Step
  <2> QED BY <2>2, <2>3
<1> QED BY <1>2, <1>3

\* A client that receives comes nearer to the server's text.
LEMMA ReceiptFollows ==
  ASSUME Types, NEW d \in Conns, ClientReceives(d), NEW e, Behind(d, e)
  PROVE  (Behind(d, e))'
<1> DEFINE m == Head(inbox[d])  t == client[d].text  b == inbox[d]  M == Messages
<1>1. b \in Seq(M) /\ b # << >> /\ inbox'[d] = Tail(b) /\ m = b[1] /\ m \in M
  <2>1. b \in Seq(M) /\ b # << >> /\ inbox'[d] = Tail(b)
    BY ReceivedOne
  <2> HIDE DEF M, b
  <2> QED BY <2>1, HeadTyped DEF b
<1>2. client'[d].text = Received(t, m)
  <2>1. PICK n \in Clients :
               /\ client' = [client EXCEPT ![d] = n]
               /\ m.type = "doc_state" => n = [text |-> m.text, rev |-> m.rev, seen |-> m.rev,
                                               waiting |-> client[d].waiting /\ client[d].text # NoText]
               /\ m.type = "ack" => n = [text |-> ApplyOperations(client[d].text, m.ops), rev |-> m.rev,
                                         seen |-> client[d].seen + Len(m.ops), waiting |-> FALSE]
               /\ m.type = "remote_op" => n = [text |-> ApplyOperation(client[d].text, m.op), rev |-> m.rev,
                                               seen |-> client[d].seen + 1, waiting |-> client[d].waiting]
               /\ m.type = "error" => n = [text |-> client[d].text, rev |-> client[d].rev, seen |-> client[d].seen, waiting |-> FALSE]
    BY ReceiptIs
  <2>2. m.type \in {"error", "doc_state", "ack", "remote_op"}
    BY <1>1, MessageIs
  <2>3. client'[d] = n
    BY <2>1 DEF Types, ClientTypes
  <2> HIDE DEF m
  <2>4. m.type = "doc_state" => n.text = m.text
    BY <2>1
  <2>5. m.type = "ack" => n.text = ApplyOperations(t, m.ops)
    BY <2>1
  <2>6. m.type = "remote_op" => n.text = ApplyOperation(t, m.op)
    BY <2>1
  <2>7. m.type = "error" => n.text = t
    BY <2>1
  <2> QED BY <2>2, <2>3, <2>4, <2>5, <2>6, <2>7 DEF Received
<1>3. doc' = doc /\ todo' = todo
  BY DEF ClientReceives
<1>4. PICK s : Leads(t, b, s) /\ Leads(s, Dues(d, e, todo[e]), doc.text)
  BY DEF Behind, Lags
<1> HIDE DEF m, t, b, M
<1>5. Leads(Received(t, m), Tail(b), s)
  BY <1>1, <1>4, LeadsHead
<1> QED BY <1>1, <1>2, <1>3, <1>4, <1>5 DEF Behind, Lags

\* Every editor stays behind the server by what is on its way to it.
LEMMA FollowingStep ==
  Slow = {} /\ Apart /\ Types /\ Turns /\ Kept /\ Closing /\ Following /\ [Next]_vars => Following'
<1> SUFFICES ASSUME Slow = {}, Apart, Types, Turns, Kept, Closing, Following, [Next]_vars,
                    NEW d \in Conns, link'[d] = "open", (InSession(d))', NEW e \in Conns, (Alone(e))'
             PROVE  (Behind(d, e))'
  BY DEF Following
<1>1. link[d] = "open"
  <2>1. CASE Connect(d) /\ link[d] = "new"
    <3>1. session' = session
      BY <2>1 DEF Connect
    <3>2. InSession(d)
      BY <3>1 DEF InSession
    <3>3. ~ InSession(d)
      BY <2>1 DEF Types, Registry, InSession, NoGhostEditors
    <3> QED BY <3>2, <3>3
  <2> QED BY <2>1, LinkStep
<1>2. ASSUME NEW c \in Conns, Handle(c) \/ Step(c) PROVE (Behind(d, e))'
  <2> DEFINE T == todo'  t == client'[d].text  b == inbox'[d]  x == doc'.text
  <2>1. Lags(t, b, x, d, c, T[c])
    BY <1>1, <1>2, WorkerFollows DEF Behind
  <2>2. \A f \in Conns : f # c => T[f] = << >>
    BY <1>2, OthersIdle
  <2>3. \A f \in Conns : f # e => T[f] = << >>
    BY DEF Alone
  <2> HIDE DEF T, t, b, x
  <2>4. Lags(t, b, x, d, e, T[e])
    BY <2>1, <2>2, <2>3, BehindWorker
  <2> QED BY <2>4 DEF Behind, T, t, b, x
<1>3. ASSUME UNCHANGED <<doc, session, todo>> PROVE Behind(d, e)
  BY <1>1, <1>3 DEF Following, Alone, InSession
<1>4. CASE ClientReceives(d)
  <2>1. UNCHANGED <<doc, session, todo>>
    BY <1>4 DEF ClientReceives
  <2> QED BY <1>3, <1>4, <2>1, ReceiptFollows
<1>5. CASE ~ ClientReceives(d) /\ ~ \E c \in Conns : Handle(c) \/ Step(c)
  <2>1. ~ Crash
    BY <1>1 DEF Crash
  <2>2. UNCHANGED <<doc, session, todo>>
    BY <1>5, <2>1, WhoActs DEF Next, Restart, vars
  <2>3. client'[d].text = client[d].text
    BY <1>5, TextStays
  <2>4. ~ ClientCloses(d)
    <3>1. link \in [Conns -> Links]
      BY DEF Types, Registry
    <3> QED BY <3>1 DEF ClientCloses
  <2>5. inbox'[d] = inbox[d]
    BY <1>5, <2>1, <2>4, InboxIs DEF Step
  <2>6. Behind(d, e)
    BY <1>3, <2>2
  <2> QED BY <2>2, <2>3, <2>5, <2>6 DEF Behind
<1> QED BY <1>2, <1>4, <1>5

-----------------------------------------------------------------------------
(* What is left when a connection ends.                                    *)

\* The short scripts broadcast nothing after a note to their own connection.
LEMMA ClosesShort ==
  ASSUME NEW x, NEW y, NEW z, x.do = "reply" => x.msg # Note \/ y.do = "reply"
  PROVE  /\ Closes(<< >>) /\ Closes(<< x >>) /\ Closes(<< x, y >>)
         /\ z.do = "tell" => Closes(<< x, y, z >>)
<1>1. Closes(<< >>) /\ Closes(<< x >>)
  <2>1. << x >> = [k \in {1} |-> x] /\ DOMAIN << >> = {}
    OBVIOUS
  <2> QED BY <2>1 DEF Closes
<1>2. Closes(<< x, y >>)
  <2>1. ASSUME NEW k \in {1, 2}, NEW j \in {1, 2}, j > k PROVE k = 1 /\ j = 2
    BY <2>1
  <2>2. DOMAIN << x, y >> = {1, 2} /\ << x, y >>[1] = x /\ << x, y >>[2] = y
    BY ShortScripts
  <2> DEFINE s == << x, y >>
  <2> HIDE DEF s
  <2>3. ASSUME NEW k \in DOMAIN s, NEW j \in DOMAIN s, s[k].do = "reply", s[k].msg = Note, j > k
        PROVE  s[j].do \in {"reply", "tell"}
    <3>1. k = 1 /\ j = 2
      BY <2>1, <2>2, <2>3 DEF s
    <3>2. s[1] = x /\ s[2] = y
      BY <2>2 DEF s
    <3> QED BY <2>3, <3>1, <3>2
  <2> QED BY <2>3 DEF Closes, s
<1>3. ASSUME z.do = "tell" PROVE Closes(<< x, y, z >>)
  <2>1. ASSUME NEW k \in {1, 2, 3}, NEW j \in {1, 2, 3}, j > k PROVE (k = 1 /\ j = 2) \/ j = 3
    BY <2>1
  <2>2. DOMAIN << x, y, z >> = {1, 2, 3} /\ << x, y, z >>[1] = x /\ << x, y, z >>[2] = y /\ << x, y, z >>[3] = z
    BY ShortScripts
  <2> DEFINE s == << x, y, z >>
  <2> HIDE DEF s
  <2>3. ASSUME NEW k \in DOMAIN s, NEW j \in DOMAIN s, s[k].do = "reply", s[k].msg = Note, j > k
        PROVE  s[j].do \in {"reply", "tell"}
    <3>1. (k = 1 /\ j = 2) \/ j = 3
      BY <2>1, <2>2, <2>3 DEF s
    <3>2. s[1] = x /\ s[2] = y /\ s[3] = z
      BY <2>2 DEF s
    <3> QED BY <1>3, <2>3, <3>1, <3>2
  <2> QED BY <2>3 DEF Closes, s
<1> QED BY <1>1, <1>2, <1>3

\* The rest of such a script is such a script.
LEMMA ClosesRest ==
  ASSUME NEW S, NEW s \in Seq(S), s # << >>, Closes(s)
  PROVE  Closes(Tail(s))
<1>1. ASSUME NEW k \in DOMAIN Tail(s), NEW j \in DOMAIN Tail(s), j > k
      PROVE  k + 1 \in DOMAIN s /\ j + 1 \in DOMAIN s /\ Tail(s)[k] = s[k + 1] /\ Tail(s)[j] = s[j + 1] /\ j + 1 > k + 1
  BY <1>1
<1> QED BY <1>1 DEF Closes

\* So it is with anything but a reply before it.
LEMMA ClosesMore ==
  ASSUME NEW S, NEW r \in Seq(S), NEW i \in S, i.do # "reply", Closes(r)
  PROVE  Closes(<< i >> \o r)
<1> DEFINE s == << i >> \o r
<1>1. DOMAIN s = 1 .. Len(r) + 1 /\ s[1] = i /\ (\A k \in DOMAIN r : s[k + 1] = r[k]) /\ Len(r) \in Nat /\ DOMAIN r = 1 .. Len(r)
  OBVIOUS
<1> HIDE DEF s
<1>2. ASSUME NEW k \in DOMAIN s, NEW j \in DOMAIN s, s[k].do = "reply", s[k].msg = Note, j > k
      PROVE  s[j].do \in {"reply", "tell"}
  <2>1. k # 1
    BY <1>1, <1>2
  <2> DEFINE l == k - 1  n == j - 1
  <2>2. l \in DOMAIN r /\ n \in DOMAIN r /\ n > l /\ k = l + 1 /\ j = n + 1
    BY <1>1, <1>2, <2>1
  <2> HIDE DEF l, n
  <2>3. s[k] = r[l] /\ s[j] = r[n]
    BY <1>1, <2>2
  <2> QED BY <1>2, <2>2, <2>3 DEF Closes
<1> QED BY <1>2 DEF Closes, s

\* A script whose answers are no notes.
LEMMA ClosesEdit ==
  ASSUME NEW ops \in Seq(Made), NEW n \in Nat
  PROVE  Closes(<< Reply(Ack(ops, n)) >> \o [k \in DOMAIN ops |-> SendOp(ops[k])] \o << AutoSnapshot >>)
<1> DEFINE I == Instructions  x == Reply(Ack(ops, n))  y == AutoSnapshot  f == [k \in DOMAIN ops |-> SendOp(ops[k])]
           s == << x >> \o f \o << y >>
<1>1. x \in I /\ y \in I /\ x.do = "reply" /\ x.msg # Note /\ y.do # "reply"
  <2> DEFINE g == Ack(ops, n)
  <2>1. g \in Messages
    BY MessagesAre
  <2> HIDE DEF g
  <2> QED BY <2>1, InstructionsAre, MessagesAre DEF Reply, AutoSnapshot
<1> DEFINE l == Len(ops)
<1>2. l \in Nat /\ DOMAIN ops = 1 .. l /\ \A k \in 1 .. l : ops[k] \in Made
  <2> HIDE DEF Made
  <2> QED OBVIOUS
<1>3. f \in Seq(I) /\ Len(f) = l /\ \A k \in 1 .. l : f[k].do # "reply"
  <2>1. \A k \in 1 .. l : SendOp(ops[k]) \in I
    BY <1>2, InstructionsAre
  <2>2. f = [k \in 1 .. l |-> f[k]] /\ \A k \in 1 .. l : f[k] = SendOp(ops[k]) /\ f[k] \in I
    BY <1>2, <2>1
  <2> HIDE DEF f, I, l
  <2>3. f \in Seq(I) /\ Len(f) = l
    BY <1>2, <2>2
  <2>4. \A op : SendOp(op).do # "reply"
    BY DEF SendOp
  <2> QED BY <2>2, <2>3, <2>4
<1> HIDE DEF f, I, l, x, y
<1>4. DOMAIN s = 1 .. l + 2 /\ s[1] = x /\ s[l + 2] = y /\ \A k \in 2 .. l + 1 : s[k] = f[k - 1]
  BY <1>1, <1>2, <1>3
<1> HIDE DEF s
<1>5. ASSUME NEW k \in DOMAIN s PROVE s[k].do = "reply" => s[k].msg # Note
  <2>1. k = 1 \/ k = l + 2 \/ (k \in 2 .. l + 1 /\ k - 1 \in 1 .. l)
    BY <1>2, <1>4, <1>5
  <2> QED BY <1>1, <1>3, <1>4, <2>1
<1>6. Closes(s)
  BY <1>5 DEF Closes
<1> QED BY <1>6 DEF s, x, y, f

\* Every handler's script is such a script.
LEMMA ClosesScript ==
  ASSUME Types, Closing, NEW c \in Conns, Handle(c) \/ (Step(c) /\ ~ CheckUnload(c))
  PROVE  \E s : todo' = [todo EXCEPT ![c] = s] /\ Closes(s)
<1> DEFINE Goal == \E s : todo' = [todo EXCEPT ![c] = s] /\ Closes(s)  I == Instructions
<1> SUFFICES Goal
  OBVIOUS
<1>1. ASSUME NEW s, todo' = [todo EXCEPT ![c] = s], Closes(s) PROVE Goal
  BY <1>1
<1> HIDE DEF Goal
<1>2. QueueTypes
  BY DEF Types
<1>3. \A m : Reply(m).do = "reply" /\ Reply(m).msg = m
  BY DEF Reply
<1>4. TellAll.do = "tell" /\ Unload.do = "unload" /\ (\A u : TellOthers(u).do = "tell") /\ (\A to, m : Broadcast(to, m).do = "broadcast")
  BY DEF TellAll, Unload, TellOthers, Broadcast
<1>5. Closes(<< >>) /\ (\A x : Closes(<< x >>)) /\ Closes(<< TellAll, Unload >>)
      /\ \A to, m : Closes(<< Broadcast(to, m) >> \o << Reply(Note) >>)
  <2>1. ASSUME NEW x PROVE Closes(<< x >>) /\ Closes(<< >>)
    <3>1. DOMAIN << x >> = {1} /\ DOMAIN << >> = {}
      BY ShortScripts
    <3>2. \A k, j \in {1} : ~ (j > k)
      <4>1. ~ (1 > 1)
        OBVIOUS
      <4> QED BY <4>1
    <3> QED BY <3>1, <3>2 DEF Closes
  <2>2. Closes(<< TellAll, Unload >>)
    <3> DEFINE x == TellAll  y == Unload
    <3>1. x.do # "reply"
      BY <1>4
    <3> HIDE DEF x, y
    <3>2. Closes(<< x, y >>)
      BY <3>1, ClosesShort
    <3> QED BY <3>2 DEF x, y
  <2>3. ASSUME NEW to, NEW m PROVE Closes(<< Broadcast(to, m) >> \o << Reply(Note) >>)
    <3> DEFINE x == Broadcast(to, m)  y == Reply(Note)
    <3>1. x.do # "reply"
      BY <1>4
    <3> HIDE DEF x, y
    <3>2. Closes(<< y >>)
      BY <2>1
    <3> DEFINE S == {x, y}
    <3>3. << y >> \in Seq(S) /\ x \in S
      OBVIOUS
    <3> HIDE DEF S
    <3>4. Closes(<< x >> \o << y >>)
      BY <3>1, <3>2, <3>3, ClosesMore
    <3> QED BY <3>4 DEF x, y
  <2> QED BY <2>1, <2>2, <2>3
<1>6. ASSUME NEW s, Runs(c, s), Closes(s) PROVE Goal
  BY <1>1, <1>6 DEF Runs
<1>7. CASE HandleJoin(c)
  <2> DEFINE m == LoadDocument  g == DocState(m.text, Len(m.log))  x == Reply(g)  y == Reply(Note)  z == TellOthers(UserOf[c])
  <2>1. (\E e : Runs(c, << e >>)) \/ Runs(c, << x, y, z >>)
    BY <1>7 DEF HandleJoin
  <2>2. Closes(<< x, y, z >>)
    <3>1. x.do = "reply" => x.msg # Note \/ y.do = "reply"
      BY <1>3
    <3>2. z.do = "tell"
      BY <1>4
    <3> HIDE DEF x, y, z
    <3> QED BY <3>1, <3>2, ClosesShort
  <2> QED BY <1>5, <1>6, <2>1, <2>2
<1>8. CASE HandleEdit(c)
  <2> DEFINE ops == Applied(Head(req[c]))  n == Len(doc.log \o ops)
             s == << Reply(Ack(ops, n)) >> \o [k \in DOMAIN ops |-> SendOp(ops[k])] \o << AutoSnapshot >>
  <2>1. (\E e : Runs(c, << e >>)) \/ (Loaded /\ Runs(c, s))
    BY <1>8 DEF HandleEdit
  <2>2. CASE Loaded /\ Runs(c, s)
    <3>1. doc \in Documents /\ ops \in Seq(Made)
      BY <1>8, <2>2, EditIs
    <3> HIDE DEF ops
    <3>2. n \in Nat
      BY <3>1, EditedTyped
    <3>3. Closes(s)
      BY <3>1, <3>2, ClosesEdit
    <3> HIDE DEF s
    <3> QED BY <1>6, <2>2, <3>3
  <2> QED BY <1>5, <1>6, <2>1, <2>2
<1>9. CASE HandleCursorUpdate(c) \/ HandleSaveSnapshot(c) \/ HandleCreateDoc(c)
  <2>1. \E e : Runs(c, << e >>)
    BY <1>9 DEF HandleCursorUpdate, HandleSaveSnapshot, HandleCreateDoc
  <2> QED BY <1>5, <1>6, <2>1
<1>10. CASE HandleRestoreVersion(c)
  <2>1. (\E e : Runs(c, << e >>)) \/ (\E to, m : Runs(c, BroadcastTo(to, m) \o << Reply(Note) >>))
    BY <1>10 DEF HandleRestoreVersion
  <2>2. << >> \o << Reply(Note) >> = << Reply(Note) >>
    OBVIOUS
  <2>3. \A to, m : Closes(BroadcastTo(to, m) \o << Reply(Note) >>)
    BY <1>5, <2>2 DEF BroadcastTo
  <2> QED BY <1>5, <1>6, <2>1, <2>3
<1>11. CASE HandleDisconnect(c)
  <2>1. Runs(c, << TellAll, Unload >>) \/ Runs(c, << >>)
    BY <1>11 DEF HandleDisconnect
  <2> QED BY <1>5, <1>6, <2>1
<1>12. ASSUME todo[c] # << >> PROVE /\ Closes(Rest(c)) /\ Rest(c) \in Seq(I) /\ << >> \o Rest(c) = Rest(c)
                                    /\ \A i \in I : i.do # "reply" => Closes(<< i >> \o Rest(c))
  <2> DEFINE s == todo[c]  r == Tail(s)
  <2>1. s \in Seq(I) /\ s # << >> /\ r \in Seq(I) /\ Rest(c) = r
    BY <1>2, <1>12, ScriptOf
  <2>2. Closes(s)
    BY DEF Closing
  <2> HIDE DEF s, I
  <2>3. Closes(r)
    BY <2>1, <2>2, ClosesRest
  <2> HIDE DEF r
  <2>4. << >> \o r = r
    BY <2>1
  <2>5. \A i \in I : i.do # "reply" => Closes(<< i >> \o r)
    BY <2>1, <2>3, ClosesMore
  <2> QED BY <2>1, <2>3, <2>4, <2>5 DEF I
<1>13. CASE SendReply(c)
  <2>1. todo[c] # << >>
    BY <1>13 DEF SendReply, Running
  <2>2. todo' = [todo EXCEPT ![c] = Rest(c)] \/ todo' = [todo EXCEPT ![c] = << >>]
    BY <1>13 DEF SendReply, Sent
  <2> QED BY <1>1, <1>5, <1>12, <2>1, <2>2
<1>14. CASE SendNext(c)
  <2> DEFINE i == Head(todo[c])
  <2>1. todo[c] # << >> /\ i.do = "broadcast"
    BY <1>14 DEF SendNext, Running
  <2>2. PICK d \in i.to : todo' = [todo EXCEPT ![c] = IF i.to = {d} THEN Rest(c) ELSE << [i EXCEPT !.to = i.to \ {d}] >> \o Rest(c)]
    BY <1>14 DEF SendNext, Sent
  <2>3. i \in I
    BY <1>2, <2>1, ScriptOf
  <2> DEFINE n == [i EXCEPT !.to = i.to \ {d}]
  <2>4. n \in I /\ n.do # "reply"
    <3> DEFINE to == i.to  m == i.msg  o == i.to \ {d}
    <3>1. i = [do |-> "broadcast", to |-> to, msg |-> m] /\ to \in SUBSET Conns /\ m \in Messages \cup {Note}
      BY <2>1, <2>3, InstructionIs
    <3>2. n = [i EXCEPT !.to = o]
      OBVIOUS
    <3>3. o \in SUBSET Conns
      BY <3>1
    <3> HIDE DEF i, to, m, n, o
    <3>4. n = [do |-> "broadcast", to |-> o, msg |-> m]
      BY <3>1, <3>2
    <3>5. n = Broadcast(o, m)
      BY <3>4 DEF Broadcast
    <3> QED BY <1>4, <3>1, <3>3, <3>5, InstructionsAre DEF I
  <2> HIDE DEF n
  <2>5. Closes(<< n >> \o Rest(c))
    BY <1>12, <2>1, <2>4
  <2>6. todo' = [todo EXCEPT ![c] = Rest(c)] \/ todo' = [todo EXCEPT ![c] = << n >> \o Rest(c)]
    BY <2>2 DEF n
  <2> HIDE DEF i
  <2> QED BY <1>1, <1>12, <2>1, <2>5, <2>6
<1>15. CASE BeginBroadcast(c)
  <2>1. todo[c] # << >>
    BY <1>15 DEF BeginBroadcast, Running
  <2>2. PICK to, m : Runs(c, BroadcastTo(to, m) \o Rest(c)) /\ (to # {} => Broadcast(to, m) \in I)
    <3> DEFINE i == Head(todo[c])
               rev == IF i.doc = "live" THEN Len(doc.log) ELSE i.rev
               some == Editors(i.skip) \cap Slow
               all == Editors({UserOf[c]})
               m == RemoteOp(i.op, rev)
    <3>1. Runs(c, (IF i.do = "tell" THEN BroadcastTo(some, Note) ELSE BroadcastTo(all, m)) \o Rest(c))
          /\ (i.do = "tell" \/ i.do = "op")
      BY <1>15 DEF BeginBroadcast, Running
    <3>2. some \in SUBSET Conns /\ all \in SUBSET Conns
      BY EditorsAre DEF Types
    <3>3. i \in I
      BY <1>2, <2>1, ScriptOf
    <3>4. i.do = "op" => m \in Messages
      <4> SUFFICES ASSUME i.do = "op" PROVE m \in Messages
        OBVIOUS
      <4>1. i.op \in Made /\ i.rev \in Nat
        BY <3>3, InstructionIs DEF I
      <4>2. i.doc = "live" => Len(doc.log) \in Nat
        <5> SUFFICES ASSUME i.doc = "live" PROVE Len(doc.log) \in Nat
          OBVIOUS
        <5>1. i = todo[c][1] /\ 1 \in DOMAIN todo[c]
          BY <1>2, <2>1, ScriptOf
        <5>2. doc \in Documents
          BY <5>1 DEF Types, Detachable
        <5> DEFINE l == doc.log  M == Made
        <5>3. l \in Seq(M)
          BY <5>2 DEF Documents
        <5> HIDE DEF l, M
        <5> QED BY <5>3 DEF l
      <4>3. rev \in Nat
        BY <4>1, <4>2
      <4> HIDE DEF rev
      <4> QED BY <4>1, <4>3, MessagesAre
    <3> HIDE DEF some, all, m
    <3>5. Broadcast(some, Note) \in I /\ (i.do = "op" => Broadcast(all, m) \in I)
      BY <3>2, <3>4, InstructionsAre DEF I
    <3> QED BY <3>1, <3>5
  <2>3. Closes(BroadcastTo(to, m) \o Rest(c))
    BY <1>4, <1>12, <2>1, <2>2 DEF BroadcastTo
  <2> QED BY <1>6, <2>2, <2>3
<1>16. CASE CheckAutoSnapshot(c)
  <2>1. todo[c] # << >>
    BY <1>16 DEF CheckAutoSnapshot, Running
  <2>2. Runs(c, Rest(c)) \/ Runs(c, << TellAll >> \o Rest(c))
    BY <1>16 DEF CheckAutoSnapshot
  <2>3. TellAll \in I
    BY InstructionsAre
  <2>4. Closes(<< TellAll >> \o Rest(c))
    BY <1>4, <1>12, <2>1, <2>3
  <2> QED BY <1>6, <1>12, <2>1, <2>2, <2>4
<1> QED BY <1>7, <1>8, <1>9, <1>10, <1>11, <1>13, <1>14, <1>15, <1>16 DEF Handle, Step

\* What an unload does to the scripts of the other handlers keeps them such.
LEMMA ClosesStays ==
  ASSUME Types, Closing, [Next]_vars, NEW d \in Conns
  PROVE  Closes(todo'[d])
<1>0. todo \in [Conns -> Seq(Instructions)] /\ Closes(todo[d])
  BY DEF Types, QueueTypes, Closing
<1>1. CASE todo'[d] = << >>
  <2>1. DOMAIN << >> = {}
    OBVIOUS
  <2> QED BY <1>1, <2>1 DEF Closes
<1>2. ASSUME NEW c \in Conns, Handle(c) \/ (Step(c) /\ ~ CheckUnload(c)) PROVE Closes(todo'[d])
  <2>1. PICK s : todo' = [todo EXCEPT ![c] = s] /\ Closes(s)
    BY <1>2, ClosesScript
  <2>2. todo'[d] = IF d = c THEN s ELSE todo[d]
    BY <1>0, <2>1
  <2> QED BY <1>0, <2>1, <2>2
<1>3. ASSUME NEW c \in Conns, CheckUnload(c) PROVE Closes(todo'[d])
  <2>1. CASE todo' = [todo EXCEPT ![c] = << >>]
    <3>1. todo'[d] = IF d = c THEN << >> ELSE todo[d]
      BY <1>0, <2>1
    <3> QED BY <1>0, <1>1, <3>1
  <2>2. CASE todo' = [x \in Conns |-> IF x = c THEN << >> ELSE [j \in DOMAIN todo[x] |-> Detached(todo[x][j])]]
    <3>1. ASSUME NEW k \in DOMAIN todo'[d]
          PROVE  /\ k \in DOMAIN todo[d] /\ todo'[d][k].do = todo[d][k].do
                 /\ todo[d][k].do = "reply" => todo'[d][k] = todo[d][k]
      <4>1. k \in DOMAIN todo[d] /\ todo[d][k] \in Instructions /\ todo'[d][k] = Detached(todo[d][k])
        BY <2>2, DetachedList
      <4> QED BY <4>1, DetachedKind
    <3> QED BY <1>0, <3>1 DEF Closes
  <2> QED BY <1>3, <2>1, <2>2, UnloadIs
<1>4. CASE Crash
  <2>1. todo'[d] = << >>
    BY <1>4 DEF Crash
  <2> QED BY <1>1, <2>1
<1>5. CASE ~ Crash /\ ~ \E c \in Conns : Handle(c) \/ Step(c)
  <2>1. todo' = todo
    BY <1>5, WhoActs DEF Next, Restart, vars
  <2> QED BY <1>0, <2>1
<1> QED BY <1>2, <1>3, <1>4, <1>5 DEF Step

\* No client goes with a request unanswered; nothing is handled after it.
LEMMA ClosingStep ==
  Rude = {} /\ Types /\ Orderly /\ Awaited /\ Closing /\ [Next]_vars => Closing'
<1> SUFFICES ASSUME Rude = {}, Types, Orderly, Awaited, Closing, [Next]_vars, NEW d \in Conns
             PROVE  /\ link'[d] # "open" => req'[d] = << >> /\ \A k \in DOMAIN todo'[d] : ~ Answers(todo'[d][k])
                    /\ Closes(todo'[d])
  BY DEF Closing, Closes, Answers
<1>1. Closes(todo'[d])
  BY ClosesStays
<1> SUFFICES ASSUME link'[d] # "open" PROVE req'[d] = << >> /\ \A k \in DOMAIN todo'[d] : ~ Answers(todo'[d][k])
  BY <1>1
<1>2. CASE link[d] = "open"
  <2>1. CASE ClientCloses(d)
    <3>1. ~ client[d].waiting /\ req[d] = << >> /\ req' = req /\ todo' = todo
      BY <2>1 DEF ClientCloses
    <3>2. Tidy(req[d], todo[d], inbox[d], client[d])
      BY <1>2 DEF Awaited
    <3>3. \A k \in DOMAIN todo[d] : ~ Answers(todo[d][k])
      BY <3>1, <3>2 DEF Tidy
    <3> QED BY <3>1, <3>3
  <2>2. CASE Crash
    <3>1. req'[d] = << >> /\ todo'[d] = << >>
      BY <2>2 DEF Crash
    <3>2. DOMAIN todo'[d] = {}
      BY <3>1
    <3> QED BY <3>1, <3>2
  <2> QED BY <1>2, <2>1, <2>2, LinkStep
<1>3. CASE link[d] # "open"
  <2>1. req[d] = << >> /\ \A k \in DOMAIN todo[d] : ~ Answers(todo[d][k])
    BY <1>3 DEF Closing
  <2>2. req'[d] = << >>
    BY <1>3, <2>1, ReqIs
  <2>3. ASSUME NEW k \in DOMAIN todo'[d], Answers(todo'[d][k]) PROVE FALSE
    <3>1. CASE \E j \in DOMAIN todo[d] : todo'[d][k] = todo[d][j] \/ todo'[d][k] = Detached(todo[d][j])
      <4>1. PICK j \in DOMAIN todo[d] : todo'[d][k] = todo[d][j] \/ todo'[d][k] = Detached(todo[d][j])
        BY <3>1
      <4>2. todo[d][j] \in Instructions
        <5> DEFINE s == todo[d]  I == Instructions
        <5>1. s \in Seq(I) /\ j \in DOMAIN s
          BY DEF Types, QueueTypes
        <5> HIDE DEF s, I
        <5>2. s[j] \in I
          BY <5>1
        <5> QED BY <5>2 DEF s, I
      <4>3. Detached(todo[d][j]).do = todo[d][j].do
            /\ (todo[d][j].do \notin {"op", "autosnap", "unload"} => Detached(todo[d][j]) = todo[d][j])
        BY <4>2, DetachedKind
      <4>4. Answers(todo[d][j])
        BY <2>3, <4>1, <4>3 DEF Answers
      <4> QED BY <2>1, <4>4
    <3>2. CASE Handle(d) \/ Step(d)
      <4>1. CASE CheckUnload(d)
        <5>1. todo'[d] = << >>
          <6>1. todo \in [Conns -> Seq(Instructions)]
            BY DEF Types, QueueTypes
          <6> QED BY <4>1, <6>1, UnloadIs
        <5>2. DOMAIN todo'[d] = {}
          BY <5>1
        <5> QED BY <5>2
      <4>2. CASE ~ CheckUnload(d)
        <5>1. PICK s \in Seq(Instructions) : todo' = [todo EXCEPT ![d] = s] /\ (Silent(s) \/ HandleJoin(d) \/ HandleEdit(d))
          BY <3>2, <4>2, WhoAnswers
        <5>2. todo'[d] = s
          BY <5>1 DEF Types, QueueTypes
        <5>3. ~ HandleJoin(d) /\ ~ HandleEdit(d)
          BY <2>1 DEF HandleJoin, HandleEdit, Takes
        <5> QED BY <2>3, <5>1, <5>2, <5>3 DEF Silent
      <4> QED BY <4>1, <4>2
    <3> QED BY <3>1, <3>2, TodoAfter
  <2> QED BY <2>2, <2>3
<1> QED BY <1>2, <1>3

\* At the start nothing is to be handled or followed.
LEMMA FollowingInit == Init => Awaited /\ Closing /\ Following
<1> SUFFICES ASSUME Init PROVE Awaited /\ Closing /\ Following
  OBVIOUS
<1>1. ASSUME NEW c \in Conns PROVE todo[c] = << >> /\ req[c] = << >> /\ link[c] = "new"
  BY DEF Init
<1>2. DOMAIN << >> = {}
  OBVIOUS
<1> QED BY <1>1, <1>2 DEF Awaited, Closing, Closes, Following

\* The invariant behind the next theorem.
LEMMA FollowingAlways ==
  ASSUME Slow = {}, Rude = {}, Apart
  PROVE  Spec => [](Types /\ Orderly /\ Awaited /\ Turns /\ Kept /\ Closing /\ Following)
<1>1. Init => Types /\ Orderly /\ Awaited /\ Turns /\ Kept /\ Closing /\ Following
  BY TypesInit, KeptInit, FollowingInit
<1>2. Types /\ Orderly /\ Awaited /\ Turns /\ Kept /\ Closing /\ Following /\ [Next]_vars
        => (Types /\ Orderly /\ Awaited /\ Turns /\ Kept /\ Closing /\ Following)'
  BY TypesStep, OrderlyStep, AwaitedStep, TurnsStep, KeptStep, ClosingStep, FollowingStep
<1> QED BY <1>1, <1>2, PTL DEF Spec

\* ReplicasConverge, where no send suspends a handler, no client leaves with a
\* request unanswered and no two connections are one user's: once everything
\* sent has been received, every editor shows the server's text, whatever it
\* and the others edited, saved or restored at the same time.
THEOREM Converge == ASSUME Slow = {}, Rude = {}, Apart PROVE Spec => []ReplicasConverge
<1>1. Types /\ Following => ReplicasConverge
  <2> SUFFICES ASSUME Types, Following, Quiet, NEW d \in Conns, InSession(d), link[d] = "open"
               PROVE  client[d].text = doc.text
    BY DEF ReplicasConverge
  <2>1. todo[d] = << >> /\ inbox[d] = << >> /\ Alone(d)
    BY DEF Quiet, Alone
  <2>2. Behind(d, d)
    BY <2>1 DEF Following
  <2>3. Leads(client[d].text, inbox[d], doc.text)
    BY <2>1, <2>2, BehindNobody
  <2>4. Len(inbox[d]) = 0
    BY <2>1
  <2> DEFINE t == client[d].text  b == inbox[d]  x == doc.text
  <2> HIDE DEF t, b, x
  <2>5. Leads(t, b, x) <=> x = t
    BY <2>4, LeadsNowhere DEF b
  <2> QED BY <2>3, <2>5 DEF t, b, x
<1> QED BY <1>1, FollowingAlways, PTL

-----------------------------------------------------------------------------
(* The characters.  None occurs twice in a text the server can come to     *)
(* show, and an edit still on its way inserts one that is in none of them. *)

\* The texts the document has been or may be given again, and its log.
Sources == {Durable, origin} \cup {db.snaps[v] : v \in DOMAIN db.snaps}
Ledger == IF Loaded THEN doc.log ELSE << >>

\* The character x is in one of the texts src, or the log inserts it.
Seen(src, log, x) == (\E t \in src : x \in Range(t)) \/ Brought(log, Len(log), x)

\* The insertion an edit asks for is of one character, below top and unseen.
Unseen(src, log, m, top) ==
  m.type = "edit" /\ m.op.type = "insert" =>
    Len(m.op.content) = 1 /\ m.op.content[1] < top /\ ~ Seen(src, log, m.op.content[1])

\* The edits m and n do not insert the same character.
Differ(m, n) ==
  m.type = "edit" /\ n.type = "edit" /\ m.op.type = "insert" /\ n.op.type = "insert"
    => m.op.content[1] # n.op.content[1]

\* What the requests in the queues rq ask for, with the texts and the log as given.
Asking(src, log, rq, top) ==
  \A c \in Conns : \A k \in DOMAIN rq[c] :
    /\ rq[c][k].type = "edit" => FitsText(rq[c][k].op, rq[c][k].seen)
    /\ Unseen(src, log, rq[c][k], top)
    /\ \A d \in Conns : \A l \in DOMAIN rq[d] : Differ(rq[c][k], rq[d][l]) \/ (c = d /\ k = l)

\* The characters of the texts and of the log.
Marked(src, log, org, top) ==
  /\ top \in Nat
  /\ \A t \in src : t \in Texts /\ Unlike(t) /\ \A x \in Range(t) : x < top
  /\ log \in Seq(Made) /\ Novel(log, Len(log), Range(org))
  /\ \A x : Brought(log, Len(log), x) => x < top

Marks ==
  /\ Marked(Sources, Ledger, origin, 100 + used.edits)
  /\ Asking(Sources, Ledger, req, 100 + used.edits)
  /\ Loaded => doc.text = ApplyOperations(origin, doc.log)

\* With nothing new in the texts and the log they are still marked.
LEMMA MarkedLess ==
  ASSUME NEW src, NEW log, NEW org, NEW top, Marked(src, log, org, top), NEW src2, src2 \subseteq src \cup {<< >>},
         NEW log2, NEW org2, log2 = << >> \/ (log2 = log /\ org2 = org), NEW top2 \in Nat, top <= top2
  PROVE  Marked(src2, log2, org2, top2)
<1>1. ASSUME NEW t \in src2 PROVE t \in Texts /\ Unlike(t) /\ \A x \in Range(t) : x < top2
  <2>1. CASE t \in src
    <3>1. t \in Texts /\ Unlike(t) /\ top \in Nat /\ \A x \in Range(t) : x < top
      BY <2>1 DEF Marked
    <3>2. \A x \in Range(t) : x \in Nat
      BY <3>1 DEF Range, Texts
    <3> QED BY <3>1, <3>2
  <2>2. CASE t = << >>
    <3>1. t \in Seq(Nat) /\ Len(t) = 0 /\ DOMAIN t = {}
      BY <2>2
    <3> QED BY <3>1 DEF Unlike, Range, Texts
  <2> QED BY <2>1, <2>2
<1>2. CASE log2 = << >>
  <2>1. log2 \in Seq(Made) /\ Len(log2) = 0
    BY <1>2
  <2>2. Novel(log2, Len(log2), Range(org2)) /\ \A x : ~ Brought(log2, Len(log2), x)
    BY <2>1 DEF Novel, Brought
  <2> QED BY <1>1, <2>1, <2>2 DEF Marked
<1>3. CASE log2 = log /\ org2 = org
  <2>1. ASSUME NEW x, Brought(log, Len(log), x) PROVE x < top2
    <3>1. x < top /\ top \in Nat /\ log \in Seq(Made)
      BY <2>1 DEF Marked
    <3>2. PICK j \in 1 .. Len(log) : log[j].type = "insert" /\ log[j].content[1] = x
      BY <2>1 DEF Brought
    <3>3. x \in Nat
      <4>1. log[j] \in Made
        <5> HIDE DEF Made
        <5> QED BY <3>1
      <4>2. log[j].content \in Seq(Nat) /\ log[j].content # << >>
        BY <3>2, <4>1, MadeIs
      <4> DEFINE w == log[j].content
      <4>3. w \in Seq(Nat) /\ w # << >> /\ w[1] = x
        BY <3>2, <4>2
      <4> HIDE DEF w
      <4> QED BY <4>3
    <3> QED BY <3>1, <3>3
  <2> QED BY <1>1, <1>3, <2>1 DEF Marked
<1> QED BY <1>2, <1>3

\* What an insertion on its way inserts is a number.
LEMMA InsertedIs ==
  ASSUME NEW m \in Requests, m.type = "edit", m.op.type = "insert"
  PROVE  m.op.content \in Seq(Nat) /\ m.op.content[1] \in Nat
<1> DEFINE w == m.op.content
<1>1. w \in Seq(Nat) /\ w # << >>
  BY RequestIs, MadeIs
<1> HIDE DEF w
<1>2. w[1] \in Nat
  BY <1>1
<1> QED BY <1>1, <1>2 DEF w

\* Nothing becomes seen when texts and log only get fewer.
LEMMA UnseenLess ==
  ASSUME NEW src, NEW log, NEW top \in Nat, NEW m \in Requests, Unseen(src, log, m, top),
         NEW src2, src2 \subseteq src \cup {<< >>}, NEW log2, log2 = << >> \/ log2 = log, NEW top2 \in Nat, top <= top2
  PROVE  Unseen(src2, log2, m, top2)
<1> SUFFICES ASSUME m.type = "edit", m.op.type = "insert"
             PROVE  Len(m.op.content) = 1 /\ m.op.content[1] < top2 /\ ~ Seen(src2, log2, m.op.content[1])
  BY DEF Unseen
<1> DEFINE x == m.op.content[1]
<1>1. Len(m.op.content) = 1 /\ x < top /\ ~ Seen(src, log, x) /\ x \in Nat
  BY InsertedIs DEF Unseen
<1> HIDE DEF x
<1>2. ~ \E t \in src2 : x \in Range(t)
  <2>1. x \notin Range(<< >>)
    BY DEF Range
  <2>2. \A t \in src2 : t \in src \/ t = << >>
    OBVIOUS
  <2> QED BY <1>1, <2>1, <2>2 DEF Seen
<1>3. ~ Brought(log2, Len(log2), x)
  <2>1. CASE log2 = << >>
    <3>1. Len(log2) = 0
      BY <2>1
    <3> QED BY <3>1 DEF Brought
  <2>2. CASE log2 = log
    BY <1>1, <2>2 DEF Seen
  <2> QED BY <2>1, <2>2
<1>4. x < top2
  BY <1>1
<1> QED BY <1>1, <1>2, <1>3, <1>4 DEF Seen, x

\* The queues rq without some of their first requests: s says of which queue one.
Taken(rq2, rq, s) ==
  \A c \in Conns : \A k \in DOMAIN rq2[c] : k \in Nat /\ k + s[c] \in DOMAIN rq[c] /\ rq2[c][k] = rq[c][k + s[c]]

\* Nor when requests are taken.
LEMMA AskingLess ==
  ASSUME NEW src, NEW log, NEW rq \in [Conns -> Seq(Requests)], NEW top \in Nat, Asking(src, log, rq, top),
         NEW src2, src2 \subseteq src \cup {<< >>}, NEW log2, log2 = << >> \/ log2 = log, NEW top2 \in Nat, top <= top2,
         NEW s \in [Conns -> {0, 1}], NEW rq2, Taken(rq2, rq, s)
  PROVE  Asking(src2, log2, rq2, top2)
<1> SUFFICES ASSUME NEW c \in Conns, NEW k \in DOMAIN rq2[c]
             PROVE  /\ rq2[c][k].type = "edit" => FitsText(rq2[c][k].op, rq2[c][k].seen)
                    /\ Unseen(src2, log2, rq2[c][k], top2)
                    /\ \A d \in Conns : \A l \in DOMAIN rq2[d] : Differ(rq2[c][k], rq2[d][l]) \/ (c = d /\ k = l)
  BY DEF Asking
<1> DEFINE i == k + s[c]  m == rq[c][i]
<1>1. k \in Nat /\ i \in DOMAIN rq[c] /\ rq2[c][k] = m
  BY DEF Taken
<1> HIDE DEF i, m
<1>2. m \in Requests
  <2>1. rq[c] \in Seq(Requests)
    OBVIOUS
  <2> DEFINE r == Requests
  <2> HIDE DEF r
  <2>2. rq[c] \in Seq(r) => rq[c][i] \in r
    BY <1>1
  <2> QED BY <2>1, <2>2 DEF r, m
<1>3. /\ m.type = "edit" => FitsText(m.op, m.seen)
      /\ Unseen(src, log, m, top)
  BY <1>1 DEF Asking, m
<1>4. Unseen(src2, log2, m, top2)
  BY <1>2, <1>3, UnseenLess
<1>5. ASSUME NEW d \in Conns, NEW l \in DOMAIN rq2[d] PROVE Differ(m, rq2[d][l]) \/ (c = d /\ k = l)
  <2> DEFINE j == l + s[d]
  <2>1. l \in Nat /\ j \in DOMAIN rq[d] /\ rq2[d][l] = rq[d][j]
    BY DEF Taken
  <2> HIDE DEF j
  <2>2. Differ(m, rq[d][j]) \/ (c = d /\ i = j)
    BY <1>1, <2>1 DEF Asking, m
  <2>3. c = d /\ i = j => k = l
    <3>1. s[c] \in {0, 1}
      OBVIOUS
    <3> QED BY <1>1, <2>1, <3>1 DEF i, j
  <2> QED BY <2>1, <2>2, <2>3
<1> QED BY <1>1, <1>3, <1>4, <1>5

\* A request added: one that inserts something inserts a character of its own.
LEMMA AskingMore ==
  ASSUME NEW src, NEW log, NEW org, NEW rq \in [Conns -> Seq(Requests)], NEW top, Marked(src, log, org, top),
         Asking(src, log, rq, top), NEW c \in Conns, NEW m \in Requests, NEW top2 \in Nat,
         m.type = "edit" => FitsText(m.op, m.seen) /\ top < top2 /\ (m.op.type = "insert" => m.op.content = << top >>),
         top <= top2, NEW rq2, rq2 = [rq EXCEPT ![c] = Append(@, m)]
  PROVE  Asking(src, log, rq2, top2)
<1>0. top \in Nat
  BY DEF Marked
<1> DEFINE n == Len(rq[c])
<1>1. n \in Nat /\ DOMAIN rq[c] = 1 .. n
  <2>1. rq[c] \in Seq(Requests)
    OBVIOUS
  <2> DEFINE r == Requests  q == rq[c]
  <2>2. q \in Seq(r)
    BY <2>1
  <2> HIDE DEF r, q
  <2>3. Len(q) \in Nat /\ DOMAIN q = 1 .. Len(q)
    BY <2>2
  <2> QED BY <2>3 DEF q
<1>2. /\ DOMAIN rq2[c] = 1 .. n + 1 /\ rq2[c][n + 1] = m /\ \A k \in 1 .. n : rq2[c][k] = rq[c][k]
      /\ \A d \in Conns : d # c => rq2[d] = rq[d]
  <2>1. rq2[c] = Append(rq[c], m) /\ \A d \in Conns : d # c => rq2[d] = rq[d]
    OBVIOUS
  <2> DEFINE r == Requests  q == rq[c]
  <2>2. q \in Seq(r) /\ m \in r
    OBVIOUS
  <2> HIDE DEF r, q
  <2>3. /\ DOMAIN Append(q, m) = 1 .. Len(q) + 1 /\ Append(q, m)[Len(q) + 1] = m
        /\ \A k \in 1 .. Len(q) : Append(q, m)[k] = q[k]
    BY <2>2
  <2> QED BY <2>1, <2>3 DEF q
<1> HIDE DEF n
<1>3. \A d \in Conns : \A k \in DOMAIN rq2[d] : (k \in DOMAIN rq[d] /\ rq2[d][k] = rq[d][k]) \/ (d = c /\ k = n + 1 /\ rq2[d][k] = m)
  BY <1>1, <1>2
<1>4. \A d \in Conns : \A k \in DOMAIN rq[d] : rq[d][k] \in Requests
  <2> TAKE d \in Conns
  <2> DEFINE r == Requests  q == rq[d]
  <2>1. q \in Seq(r)
    OBVIOUS
  <2> HIDE DEF r, q
  <2>2. \A k \in DOMAIN q : q[k] \in r
    BY <2>1
  <2> QED BY <2>2 DEF r, q
<1>5. ASSUME m.type = "edit", m.op.type = "insert"
      PROVE  /\ Unseen(src, log, m, top2) /\ m.op.content[1] = top
             /\ \A d \in Conns : \A k \in DOMAIN rq[d] : Differ(m, rq[d][k]) /\ Differ(rq[d][k], m)
  <2>1. m.op.content = << top >> /\ Len(m.op.content) = 1 /\ m.op.content[1] = top /\ top < top2
    <3>1. m.op.content = << top >> /\ top < top2
      BY <1>5
    <3>2. Len(<< top >>) = 1 /\ << top >>[1] = top
      OBVIOUS
    <3> QED BY <3>1, <3>2
  <2>2. ~ Seen(src, log, top)
    <3>1. \A t \in src : \A x \in Range(t) : x < top
      BY DEF Marked
    <3>2. \A x : Brought(log, Len(log), x) => x < top
      BY DEF Marked
    <3>3. ~ (top < top)
      BY <1>0
    <3> QED BY <3>1, <3>2, <3>3 DEF Seen
  <2>3. ASSUME NEW d \in Conns, NEW k \in DOMAIN rq[d], rq[d][k].type = "edit", rq[d][k].op.type = "insert"
        PROVE  rq[d][k].op.content[1] # top
    <3>1. rq[d][k].op.content[1] < top
      BY <2>3 DEF Asking, Unseen
    <3>2. ~ (top < top)
      BY <1>0
    <3> QED BY <3>1, <3>2
  <2> QED BY <2>1, <2>2, <2>3 DEF Unseen, Differ
<1>6. Unseen(src, log, m, top2)
  BY <1>5 DEF Unseen
<1>7. \A d \in Conns : \A k \in DOMAIN rq[d] : Differ(m, rq[d][k]) /\ Differ(rq[d][k], m)
  BY <1>5 DEF Differ
<1>8. ASSUME NEW d \in Conns, NEW k \in DOMAIN rq2[d]
      PROVE  /\ rq2[d][k].type = "edit" => FitsText(rq2[d][k].op, rq2[d][k].seen)
             /\ Unseen(src, log, rq2[d][k], top2)
             /\ \A e \in Conns : \A l \in DOMAIN rq2[e] : Differ(rq2[d][k], rq2[e][l]) \/ (d = e /\ k = l)
  <2>1. CASE k \in DOMAIN rq[d] /\ rq2[d][k] = rq[d][k]
    <3> DEFINE h == rq[d][k]
    <3>1. /\ h.type = "edit" => FitsText(h.op, h.seen)
          /\ Unseen(src, log, h, top) /\ h \in Requests
      BY <1>4, <2>1 DEF Asking
    <3>2. \A e \in Conns : \A l \in DOMAIN rq[e] : Differ(h, rq[e][l]) \/ (d = e /\ k = l)
      BY <2>1 DEF Asking
    <3>3. Differ(h, m)
      BY <1>7, <2>1
    <3>4. rq2[d][k] = h
      BY <2>1
    <3> HIDE DEF h
    <3>5. Unseen(src, log, h, top2)
      <4>1. src \subseteq src \cup {<< >>}
        OBVIOUS
      <4> QED BY <1>0, <3>1, <4>1, UnseenLess
    <3> QED BY <1>3, <3>1, <3>2, <3>3, <3>4, <3>5
  <2>2. CASE d = c /\ k = n + 1 /\ rq2[d][k] = m
    BY <1>3, <1>6, <1>7, <2>2
  <2> QED BY <1>3, <2>1, <2>2
<1> QED BY <1>8 DEF Asking

\* The operations ops do what the edit m asks for: they insert what it inserts,
\* once, or only delete.
Brings(m, ops) ==
  \A k \in 1 .. Len(ops) : ops[k].type = "insert" =>
    m.op.type = "insert" /\ ops[k].content = m.op.content /\ k = 1

\* What the server applies for an edit does, and so does any first part of it.
LEMMA AppliedBrings ==
  ASSUME doc \in Documents, NEW m \in Requests, m.type = "edit", NEW k \in Nat, k <= Len(Applied(m))
  PROVE  Brings(m, Applied(m)) /\ Brings(m, SubSeq(Applied(m), 1, k))
<1> DEFINE ops == Applied(m)  few == SubSeq(ops, 1, k)
<1>1. /\ ops \in Seq(Made) /\ m.op \in Made /\ m.op.type \in {"insert", "delete"}
      /\ m.op.type = "insert" => \E p \in Nat : ops = << [m.op EXCEPT !.position = p] >>
      /\ m.op.type = "delete" => \A i \in DOMAIN ops : ops[i].type = "delete"
  BY RequestIs, AppliedMade, MadeIs
<1>2. k <= Len(ops)
  OBVIOUS
<1> HIDE DEF ops
<1>3. /\ Len(ops) \in Nat /\ DOMAIN ops = 1 .. Len(ops) /\ Len(few) = k
      /\ \A i \in 1 .. k : few[i] = ops[i] /\ i \in 1 .. Len(ops)
  <2> HIDE DEF Made
  <2> QED BY <1>1, <1>2
<1> HIDE DEF few
<1>4. Brings(m, ops)
  <2>1. CASE m.op.type = "insert"
    <3>1. PICK p \in Nat : ops = << [m.op EXCEPT !.position = p] >>
      BY <1>1, <2>1
    <3> DEFINE x == [m.op EXCEPT !.position = p]
    <3>2. x.content = m.op.content
      BY <1>1, MadeIs DEF Operations
    <3>3. ops = << x >>
      BY <3>1
    <3> HIDE DEF x
    <3>4. Len(ops) = 1 /\ ops[1] = x
      BY <3>3
    <3>5. \A i \in 1 .. Len(ops) : i = 1
      BY <3>4
    <3> QED BY <2>1, <3>2, <3>4, <3>5 DEF Brings
  <2>2. CASE m.op.type = "delete"
    <3>1. \A i \in 1 .. Len(ops) : ops[i].type # "insert"
      BY <1>1, <1>3, <2>2
    <3> QED BY <3>1 DEF Brings
  <2> QED BY <1>1, <2>1, <2>2
<1>5. Brings(m, few)
  BY <1>3, <1>4 DEF Brings
<1> QED BY <1>4, <1>5 DEF ops, few

\* Such operations give a text in which no character occurs twice, and which has
\* at most the one new character.
LEMMA EditedUnlike ==
  ASSUME NEW src, NEW log, NEW top, NEW m \in Requests, m.type = "edit", Unseen(src, log, m, top),
         NEW ops \in Seq(Made), Brings(m, ops), NEW t \in src, t \in Texts, Unlike(t)
  PROVE  LET r == ApplyOperations(t, ops)
         IN  /\ r \in Texts /\ Unlike(r) /\ Novel(ops, Len(ops), Range(t))
             /\ \A x \in Range(r) : x \in Range(t) \/ (m.op.type = "insert" /\ x = m.op.content[1])
<1> DEFINE n == Len(ops)
<1>1. n \in Nat /\ DOMAIN ops = 1 .. n /\ \A k \in 1 .. n : ops[k] \in Made
  <2> HIDE DEF Made
  <2> QED OBVIOUS
<1>2. \A k \in 1 .. n : ops[k] \in Operations(Nat, Users)
  BY <1>1, MadeIs
<1> HIDE DEF n
<1>3. Novel(ops, n, Range(t))
  <2> SUFFICES ASSUME NEW k \in 1 .. n, ops[k].type = "insert"
               PROVE  /\ Len(ops[k].content) = 1 /\ ops[k].content[1] \notin Range(t)
                      /\ \A j \in 1 .. n : ops[j].type = "insert" /\ ops[j].content[1] = ops[k].content[1] => j = k
    BY DEF Novel
  <2>1. m.op.type = "insert" /\ ops[k].content = m.op.content /\ k = 1
    BY DEF Brings, n
  <2>2. Len(m.op.content) = 1 /\ ~ Seen(src, log, m.op.content[1])
    BY <2>1 DEF Unseen
  <2>3. m.op.content[1] \notin Range(t)
    BY <2>2 DEF Seen
  <2>4. \A j \in 1 .. n : ops[j].type = "insert" => j = 1
    BY DEF Brings, n
  <2> QED BY <2>1, <2>2, <2>3, <2>4
<1>4. PICK tx : ApplySteps(tx, t, ops, n) /\ ApplyOperations(t, ops) = tx[n]
  BY <1>1, ApplyIsLoop
<1>5. t \in Seq(Nat) /\ n \in 0 .. n
  BY <1>1 DEF Texts
<1>6. tx[n] \in Seq(Nat) /\ Unlike(tx[n]) /\ \A x \in Range(tx[n]) : x \in Range(t) \/ Brought(ops, n, x)
  BY ONLY <1>1, <1>2, <1>3, <1>4, <1>5, Unlike(t), TextsAlong
<1>7. \A x : Brought(ops, n, x) => m.op.type = "insert" /\ x = m.op.content[1]
  BY DEF Brought, Brings, n
<1> QED BY <1>3, <1>4, <1>6, <1>7 DEF Texts, n

\* All that is seen now and was not seen before is what the edit m inserts.
OnlyAdds(src2, log2, src, log, m) ==
  \A x : Seen(src2, log2, x) => Seen(src, log, x) \/ (m.op.type = "insert" /\ x = m.op.content[1])

\* So the texts and the log stay marked.
LEMMA EditedMarked ==
  ASSUME NEW src, NEW log, NEW org \in src, NEW top, Marked(src, log, org, top), NEW m \in Requests, m.type = "edit",
         Unseen(src, log, m, top), NEW ops \in Seq(Made), Brings(m, ops), NEW t \in src
  PROVE  /\ Marked(src \cup {ApplyOperations(t, ops)}, log \o ops, org, top)
         /\ OnlyAdds(src \cup {ApplyOperations(t, ops)}, log \o ops, src, log, m)
<1> DEFINE r == ApplyOperations(t, ops)  n == Len(log)  k == Len(ops)  all == log \o ops
           y == m.op.content[1]
<1>1. /\ top \in Nat /\ \A s \in src : s \in Texts /\ Unlike(s) /\ \A x \in Range(s) : x < top
      /\ log \in Seq(Made) /\ Novel(log, n, Range(org)) /\ \A x : Brought(log, n, x) => x < top
  BY DEF Marked
<1>2. /\ r \in Texts /\ Unlike(r)
      /\ \A x \in Range(r) : x \in Range(t) \/ (m.op.type = "insert" /\ x = y)
  BY <1>1, EditedUnlike
<1>3. Novel(ops, k, Range(org))
  BY <1>1, EditedUnlike
<1>4. /\ n \in Nat /\ k \in Nat /\ all \in Seq(Made) /\ Len(all) = n + k
      /\ \A i \in 1 .. n : all[i] = log[i]
      /\ \A i \in 1 .. k : all[n + i] = ops[i]
  <2> HIDE DEF Made
  <2> QED BY <1>1
<1>5. m.op.type = "insert" => y < top /\ ~ Seen(src, log, y)
  BY DEF Unseen
<1> HIDE DEF r, all, y
<1>6. \A i \in 1 .. k : ops[i].type = "insert" => m.op.type = "insert" /\ ops[i].content[1] = y /\ i = 1
  BY DEF Brings, y
<1> HIDE DEF n, k
<1>7. \A i \in 1 .. n + k : i \in 1 .. n \/ (i - n \in 1 .. k /\ all[i] = ops[i - n] /\ i = n + (i - n))
  <2> TAKE i \in 1 .. n + k
  <2>1. i \in 1 .. n \/ (i - n \in 1 .. k /\ i = n + (i - n))
    BY <1>4
  <2> QED BY <1>4, <2>1
<1>8. \A x : Brought(all, n + k, x) => Brought(log, n, x) \/ (m.op.type = "insert" /\ x = y)
  <2> SUFFICES ASSUME NEW i \in 1 .. n + k, all[i].type = "insert"
               PROVE  Brought(log, n, all[i].content[1]) \/ (m.op.type = "insert" /\ all[i].content[1] = y)
    BY DEF Brought
  <2>1. CASE i \in 1 .. n
    BY <1>4, <2>1 DEF Brought
  <2>2. CASE i - n \in 1 .. k /\ all[i] = ops[i - n]
    BY <1>6, <2>2
  <2> QED BY <1>7, <2>1, <2>2
<1>9. Novel(all, n + k, Range(org))
  <2> SUFFICES ASSUME NEW i \in 1 .. n + k, all[i].type = "insert"
               PROVE  /\ Len(all[i].content) = 1 /\ all[i].content[1] \notin Range(org)
                      /\ \A j \in 1 .. n + k : all[j].type = "insert" /\ all[j].content[1] = all[i].content[1] => j = i
    BY DEF Novel
  <2>1. Len(all[i].content) = 1 /\ all[i].content[1] \notin Range(org)
    <3>1. CASE i \in 1 .. n
      BY <1>1, <1>4, <3>1 DEF Novel
    <3>2. CASE i - n \in 1 .. k /\ all[i] = ops[i - n]
      BY <1>3, <3>2 DEF Novel
    <3> QED BY <1>7, <3>1, <3>2
  <2>2. ASSUME NEW j \in 1 .. n + k, all[j].type = "insert", all[j].content[1] = all[i].content[1] PROVE j = i
    <3>0. ASSUME NEW g \in 1 .. n, NEW h \in 1 .. n + k, h - n \in 1 .. k, all[h] = ops[h - n], all[h].type = "insert",
                 all[g].type = "insert", all[g].content[1] = all[h].content[1]
          PROVE  FALSE
      <4>1. Brought(log, n, y)
        BY <1>4, <1>6, <3>0 DEF Brought
      <4> QED BY <1>5, <1>6, <3>0, <4>1 DEF Seen, n
    <3>1. CASE i \in 1 .. n /\ j \in 1 .. n
      BY <1>1, <1>4, <2>2, <3>1 DEF Novel
    <3>2. CASE i - n \in 1 .. k /\ all[i] = ops[i - n] /\ j - n \in 1 .. k /\ all[j] = ops[j - n]
      <4>1. i - n = 1 /\ j - n = 1
        BY <1>6, <2>2, <3>2
      <4> QED BY <1>4, <4>1
    <3> QED BY <1>7, <2>2, <3>0, <3>1, <3>2
  <2> QED BY <2>1, <2>2
<1>10. ASSUME NEW x \in Range(r) PROVE x < top
  BY <1>1, <1>2, <1>5, <1>10
<1>11. Marked(src \cup {r}, all, org, top)
  BY <1>1, <1>2, <1>4, <1>5, <1>8, <1>9, <1>10 DEF Marked
<1>12. \A x : Seen(src \cup {r}, all, x) => Seen(src, log, x) \/ (m.op.type = "insert" /\ x = y)
  BY <1>2, <1>4, <1>8 DEF Seen, n
<1> QED BY <1>11, <1>12 DEF OnlyAdds, r, all, y

\* The other requests are for characters unlike the one that has come in.
LEMMA AskingEdited ==
  ASSUME NEW src, NEW log, NEW rq \in [Conns -> Seq(Requests)], NEW top, Asking(src, log, rq, top),
         NEW c \in Conns, rq[c] # << >>, NEW m, m = Head(rq[c]), m.type = "edit", NEW src2, NEW log2,
         OnlyAdds(src2, log2, src, log, m)
  PROVE  Asking(src2, log2, [rq EXCEPT ![c] = Tail(@)], top)
<1> DEFINE rq2 == [rq EXCEPT ![c] = Tail(@)]
<1>1. 1 \in DOMAIN rq[c] /\ m = rq[c][1] /\ \A k \in DOMAIN rq2[c] : k \in Nat /\ k >= 1 /\ k + 1 \in DOMAIN rq[c] /\ rq2[c][k] = rq[c][k + 1]
  <2> DEFINE r == Requests  q == rq[c]
  <2>1. q \in Seq(r) /\ rq2[c] = Tail(q) /\ q # << >> /\ m = Head(q)
    OBVIOUS
  <2> HIDE DEF r, q, rq2
  <2>2. 1 \in DOMAIN q /\ m = q[1] /\ \A k \in DOMAIN Tail(q) : k \in Nat /\ k >= 1 /\ k + 1 \in DOMAIN q /\ Tail(q)[k] = q[k + 1]
    BY <2>1
  <2> QED BY <2>1, <2>2 DEF q
<1>2. \A d \in Conns : d # c => rq2[d] = rq[d]
  OBVIOUS
<1> HIDE DEF rq2
<1> SUFFICES ASSUME NEW d \in Conns, NEW k \in DOMAIN rq2[d]
             PROVE  /\ rq2[d][k].type = "edit" => FitsText(rq2[d][k].op, rq2[d][k].seen)
                    /\ Unseen(src2, log2, rq2[d][k], top)
                    /\ \A e \in Conns : \A l \in DOMAIN rq2[e] : Differ(rq2[d][k], rq2[e][l]) \/ (d = e /\ k = l)
  BY DEF Asking, rq2
<1> DEFINE i == IF d = c THEN k + 1 ELSE k
<1>3. i \in DOMAIN rq[d] /\ rq2[d][k] = rq[d][i] /\ (d = c => i # 1)
  BY <1>1, <1>2
<1> DEFINE h == rq[d][i]
<1>4. /\ h.type = "edit" => FitsText(h.op, h.seen)
      /\ Unseen(src, log, h, top) /\ Differ(m, h)
  BY <1>1, <1>3 DEF Asking
<1>5. Unseen(src2, log2, h, top)
  BY <1>4 DEF Unseen, Differ, OnlyAdds
<1>6. ASSUME NEW e \in Conns, NEW l \in DOMAIN rq2[e] PROVE Differ(h, rq2[e][l]) \/ (d = e /\ k = l)
  <2> DEFINE j == IF e = c THEN l + 1 ELSE l
  <2>1. j \in DOMAIN rq[e] /\ rq2[e][l] = rq[e][j] /\ (d = e /\ i = j => k = l)
    BY <1>1, <1>2
  <2> QED BY <1>3, <2>1 DEF Asking
<1> QED BY <1>3, <1>4, <1>5, <1>6

-----------------------------------------------------------------------------
(* What a step does to the texts, the log and the requests.                *)

\* What becomes of the text in memory, its log and its origin.
LEMMA DocAfter ==
  ASSUME Stored, [Next]_vars
  PROVE  \/ \E c \in Conns : HandleEdit(c) /\ Loaded /\ MayEdit(UserOf[c])
         \/ Crash /\ ~ Loaded' /\ origin' = origin
         \/ /\ db'.ops = db.ops
            /\ \/ ~ Loaded' /\ origin' = origin
               \/ Loaded /\ Loaded' /\ doc'.text = doc.text /\ doc'.log = doc.log /\ origin' = origin
               \/ Loaded' /\ doc'.log = << >> /\ doc'.text = origin' /\ origin' \in Sources
<1> DEFINE Held == Loaded /\ Loaded' /\ doc'.text = doc.text /\ doc'.log = doc.log /\ origin' = origin
           Begun == Loaded' /\ doc'.log = << >> /\ doc'.text = origin' /\ origin' \in Sources
           Quietly == db'.ops = db.ops /\ ((~ Loaded' /\ origin' = origin) \/ Held \/ Begun)
<1>0. /\ Types /\ RowTypes(db) /\ HistoryOK(db) /\ Versions /\ MemoryTypes /\ (Loaded => doc \in Documents /\ db.row)
      /\ NotLoaded \notin Documents
  <2>1. NotLoaded \notin Documents
    <3>1. Documents \subseteq [text : Seq(Nat), version : Nat, pending : Nat, log : Seq(Operations(Nat, Users))]
      <4>1. Seq(Made) \subseteq Seq(Operations(Nat, Users))
        BY MadeAreOps
      <4> QED BY <4>1 DEF Documents, Texts
    <3> QED BY <3>1, DocAssumption
  <2> QED BY <2>1 DEF Stored, Types, Versions, LoadedLatest, MemoryTypes, Loaded
<1>1. ASSUME UNCHANGED <<doc, origin>>, db'.ops = db.ops PROVE Quietly
  BY <1>1 DEF Loaded
<1>2. ASSUME NEW m \in Documents, CreateSnapshot(m)
      PROVE  Loaded' /\ doc'.text = m.text /\ doc'.log = m.log /\ db'.ops = db.ops
  <2>1. doc' \in Documents /\ SnapshotOf(db', db, m) /\ doc' = Snapshotted(m)
    BY <1>0, <1>2, CreateSnapshotTypes
  <2>2. doc' = [m EXCEPT !.version = @ + 1, !.pending = 0]
    BY <2>1 DEF Snapshotted
  <2>3. m = [text |-> m.text, version |-> m.version, pending |-> m.pending, log |-> m.log]
    BY DEF Documents
  <2>4. doc'.text = m.text /\ doc'.log = m.log
    BY <2>2, <2>3
  <2> QED BY <1>0, <2>1, <2>4 DEF Loaded, SnapshotOf
<1>3. ASSUME NEW c \in Conns, HandleJoin(c) PROVE Quietly
  <2>1. db' = db /\ ((doc' = doc /\ origin' = origin) \/ (doc' = LoadDocument /\ origin' = IF Loaded THEN origin ELSE LoadDocument.text))
    BY <1>3 DEF HandleJoin
  <2>2. Loaded => LoadDocument = doc
    BY DEF LoadDocument
  <2>3. ~ Loaded => LoadDocument.text = Durable /\ LoadDocument.log = << >>
    BY DEF LoadDocument, Durable
  <2>4. LoadDocument \in Documents
    BY <1>0, LoadedTyped
  <2>5. CASE ~ Loaded /\ doc' = LoadDocument /\ origin' = LoadDocument.text
    <3>1. Loaded'
      BY <1>0, <2>4, <2>5 DEF Loaded
    <3>2. doc'.log = << >> /\ doc'.text = origin' /\ origin' = Durable
      BY <2>3, <2>5
    <3> QED BY <2>1, <3>1, <3>2 DEF Sources
  <2> QED BY <1>1, <2>1, <2>2, <2>5
<1>4. ASSUME NEW c \in Conns, HandleEdit(c), ~ (Loaded /\ MayEdit(UserOf[c])) PROVE Quietly
  <2>1. UNCHANGED <<doc, db, origin>>
    BY <1>4 DEF HandleEdit
  <2> QED BY <1>1, <2>1
<1>5. ASSUME NEW c \in Conns, HandleSaveSnapshot(c) \/ CheckAutoSnapshot(c) PROVE Quietly
  <2>1. origin' = origin /\ (UNCHANGED <<doc, db>> \/ (Loaded /\ CreateSnapshot(doc)))
    BY <1>5 DEF HandleSaveSnapshot, CheckAutoSnapshot
  <2>2. CASE Loaded /\ CreateSnapshot(doc)
    BY <1>0, <1>2, <2>1, <2>2
  <2> QED BY <1>1, <2>1, <2>2
<1>6. ASSUME NEW c \in Conns, HandleRestoreVersion(c) PROVE Quietly
  <2>1. UNCHANGED <<doc, db, origin>> \/ \E v \in DOMAIN db.snaps : CreateSnapshot(Restored(v)) /\ origin' = db.snaps[v]
    BY <1>6 DEF HandleRestoreVersion
  <2>2. ASSUME NEW v \in DOMAIN db.snaps, CreateSnapshot(Restored(v)), origin' = db.snaps[v] PROVE Quietly
    <3> DEFINE l == LoadDocument  t == db.snaps[v]  m == Restored(v)
    <3>1. m \in Documents /\ l \in Documents
      BY <1>0, LoadedTyped
    <3>2. l = [text |-> l.text, version |-> l.version, pending |-> l.pending, log |-> l.log]
      BY <3>1 DEF Documents
    <3>3. m = [l EXCEPT !.text = t, !.pending = 0, !.log = << >>]
      BY DEF Restored
    <3>4. CreateSnapshot(m) /\ origin' = t /\ t \in Sources
      BY <2>2 DEF Sources
    <3> HIDE DEF l, t, m
    <3>5. m.text = t /\ m.log = << >>
      BY <3>2, <3>3
    <3> QED BY <1>2, <3>1, <3>4, <3>5
  <2> QED BY <1>1, <2>1, <2>2
<1>7. ASSUME NEW c \in Conns, HandleCreateDoc(c) PROVE Quietly
  <2> DEFINE u == UserOf[c]
  <2>1. UNCHANGED <<doc, origin>> /\ (db' = db \/ (~ db.row /\ db' = Last(CreateCommits(u))))
    BY <1>7 DEF HandleCreateDoc
  <2>2. ASSUME ~ db.row, db' = Last(CreateCommits(u)) PROVE db'.ops = db.ops
    <3> DEFINE s == CreateCommits(u)
    <3>1. db = [row |-> db.row, collab |-> db.collab, snaps |-> db.snaps, ops |-> db.ops, current |-> db.current]
      BY <1>0 DEF HistoryOK, DbShape
    <3>2. /\ s[3] = [row |-> TRUE, collab |-> Bind(Empty, u, "owner"), snaps |-> Bind(Empty, 0, << >>),
                     ops |-> db.ops, current |-> db.current]
          /\ Last(s) = s[3]
      BY <3>1 DEF CreateCommits, Last
    <3> HIDE DEF s
    <3>3. s[3].ops = db.ops /\ db' = Last(s)
      BY <2>2, <3>2 DEF s
    <3> QED BY <3>2, <3>3
  <2> QED BY <1>1, <2>1, <2>2
<1>8. ASSUME NEW c \in Conns, CheckUnload(c) PROVE Quietly
  <2>1. origin' = origin /\ (UNCHANGED <<doc, db>> \/ (doc' = NotLoaded /\ (db' = db \/ db' = Last(SnapshotCommits(db, doc)))))
    BY <1>8 DEF CheckUnload
  <2>2. Last(SnapshotCommits(db, doc)).ops = db.ops
    BY <1>0, SnapshotFields DEF HistoryOK, SnapshotOf
  <2>3. doc' = NotLoaded => ~ Loaded'
    BY DEF Loaded
  <2> QED BY <1>1, <2>1, <2>2, <2>3
<1>9. ASSUME Crash PROVE ~ Loaded' /\ origin' = origin
  BY <1>9 DEF Crash, Loaded
<1>10. ASSUME NEW c \in Conns,
             \/ HandleCursorUpdate(c) \/ HandleDisconnect(c) \/ SendReply(c) \/ SendNext(c)
             \/ BeginBroadcast(c) \/ Connect(c) \/ ClientReceives(c) \/ ClientActs(c)
      PROVE  UNCHANGED <<doc, db, origin>>
  BY <1>10 DEF HandleCursorUpdate, HandleDisconnect, SendReply, SendNext, BeginBroadcast, Connect, ClientReceives,
     ClientActs, ClientJoins, ClientEdits, ClientMovesCursor, ClientSaves, ClientRestores, ClientCreates, ClientCloses, ClientSends
<1>11. ASSUME Restart \/ UNCHANGED vars PROVE Quietly
  BY <1>1, <1>11 DEF Restart, vars
<1> HIDE DEF Quietly
<1>12. (\E c \in Conns : HandleEdit(c) /\ Loaded /\ MayEdit(UserOf[c])) \/ (Crash /\ ~ Loaded' /\ origin' = origin) \/ Quietly
  <2>1. ASSUME UNCHANGED <<doc, db, origin>> PROVE Quietly
    BY <1>1, <2>1
  <2>2. ASSUME NEW c \in Conns, Handle(c) PROVE Quietly \/ (HandleEdit(c) /\ Loaded /\ MayEdit(UserOf[c]))
    BY <1>3, <1>4, <1>5, <1>6, <1>7, <1>10, <2>1, <2>2 DEF Handle
  <2>3. ASSUME NEW c \in Conns, Step(c) PROVE Quietly
    BY <1>5, <1>8, <1>10, <2>1, <2>3 DEF Step
  <2>4. ASSUME NEW c \in Conns, Connect(c) \/ ClientReceives(c) \/ ClientActs(c) PROVE Quietly
    BY <1>10, <2>1, <2>4
  <2> QED BY <1>9, <1>11, <2>2, <2>3, <2>4 DEF Next
<1> QED BY <1>12 DEF Quietly

\* The texts after a step are those before it, an empty one, or what the
\* operations of an edit, all or the first of them, make of the stored text.
LEMMA SourcesAfter ==
  ASSUME Stored, [Next]_vars, origin' \in Sources
  PROVE  \/ Sources' \subseteq Sources \cup {<< >>}
         \/ \E c \in Conns : \E k \in Nat :
              LET m == Head(req[c]) IN
              /\ Loaded /\ m \in Requests /\ m.type = "edit" /\ k <= Len(Applied(m)) /\ req[c] # << >>
              /\ db' = Logged(db, doc.version, SubSeq(Applied(m), 1, k))
              /\ Sources' \subseteq Sources \cup {ApplyOperations(Durable, SubSeq(Applied(m), 1, k))}
<1>1. Sources' = {Durable', origin'} \cup {db'.snaps[v] : v \in DOMAIN db'.snaps}
  BY DEF Sources
<1>2. ASSUME NEW t, db'.snaps = db.snaps, Durable' = t PROVE Sources' \subseteq Sources \cup {t}
  BY <1>1, <1>2 DEF Sources
<1>3. ASSUME NEW v, NEW t \in Sources, db'.snaps = Bind(db.snaps, v, t), Durable' = t PROVE Sources' \subseteq Sources \cup {<< >>}
  BY <1>1, <1>3 DEF Sources, Bind
<1>4. CASE db' = db
  <2>1. Durable' = Durable /\ db'.snaps = db.snaps /\ Durable \in Sources
    BY <1>4 DEF Durable, Sources
  <2> QED BY <1>2, <2>1
<1>5. ASSUME NEW c \in Conns, NEW k \in Nat, Loaded, Head(req[c]) \in Requests, Head(req[c]).type = "edit",
             k <= Len(Applied(Head(req[c]))), req[c] # << >>, db'.snaps = db.snaps,
             db' = Logged(db, doc.version, SubSeq(Applied(Head(req[c])), 1, k)),
             Durable' = ApplyOperations(Durable, SubSeq(Applied(Head(req[c])), 1, k))
      PROVE  Sources' \subseteq Sources \cup {ApplyOperations(Durable, SubSeq(Applied(Head(req[c])), 1, k))}
  BY <1>2, <1>5
<1>6. CASE Loaded /\ Durable' = doc.text /\ Durable' = Durable /\ db'.snaps = Bind(db.snaps, LatestVersion(db) + 1, Durable)
  <2>1. Durable \in Sources
    BY DEF Sources
  <2> QED BY <1>3, <1>6, <2>1
<1>7. ASSUME NEW v \in DOMAIN db.snaps, Durable' = db.snaps[v], db'.snaps = Bind(db.snaps, LatestVersion(db) + 1, db.snaps[v])
      PROVE  Sources' \subseteq Sources \cup {<< >>}
  <2>1. db.snaps[v] \in Sources
    BY DEF Sources
  <2> QED BY <1>3, <1>7, <2>1
<1>8. CASE /\ Durable = << >> /\ Durable' = << >>
           /\ db'.snaps = db.snaps \/ db'.snaps = Bind(Empty, 0, << >>)
  <2>1. \A v \in DOMAIN Bind(Empty, 0, << >>) : Bind(Empty, 0, << >>)[v] = << >>
    BY DEF Bind, Empty
  <2> QED BY <1>1, <1>8, <2>1 DEF Sources
<1> QED BY <1>4, <1>5, <1>6, <1>7, <1>8, StoredDb

\* When no rows are written there is none of the third kind.
LEMMA SourcesQuiet ==
  ASSUME Stored, [Next]_vars, origin' \in Sources, db'.ops = db.ops
  PROVE  Sources' \subseteq Sources \cup {<< >>}
<1>1. ASSUME NEW c \in Conns, NEW k \in Nat, NEW m, m = Head(req[c]), Loaded, m \in Requests, m.type = "edit", k <= Len(Applied(m)),
             db' = Logged(db, doc.version, SubSeq(Applied(m), 1, k)),
             Sources' \subseteq Sources \cup {ApplyOperations(Durable, SubSeq(Applied(m), 1, k))}
      PROVE  Sources' \subseteq Sources \cup {<< >>}
  <2> DEFINE few == SubSeq(Applied(m), 1, k)  v == doc.version  new == [j \in DOMAIN few |-> [version |-> v, op |-> few[j]]]
  <2>1. few \in Seq(Ops) /\ Len(few) = k /\ v \in Nat /\ RowTypes(db) /\ DbShape(db)
    BY <1>1, EditPrefix DEF Stored, Types, Versions, HistoryOK, Documents
  <2> DEFINE e == Logged(db, v, few)
  <2>2. e.ops = db.ops \o new /\ db' = e
    <3> HIDE DEF few, v
    <3>1. e.ops = db.ops \o [j \in DOMAIN few |-> [version |-> v, op |-> few[j]]]
      BY <2>1, LoggedTypes
    <3> QED BY <1>1, <3>1 DEF few, v
  <2> HIDE DEF few, v, e
  <2>3. db.ops \o new = db.ops
    BY <2>2
  <2>4. db.ops \in Seq(Rows) /\ new \in Seq(Rows) /\ Len(new) = k
    <3>1. DOMAIN few = 1 .. k /\ \A j \in DOMAIN few : few[j] \in Ops
      <4> DEFINE r == Ops
      <4>1. few \in Seq(r) /\ Len(few) = k
        BY <2>1
      <4> HIDE DEF r
      <4>2. DOMAIN few = 1 .. k /\ \A j \in DOMAIN few : few[j] \in r
        BY <4>1
      <4> QED BY <4>2 DEF r
    <3>2. \A j \in DOMAIN few : [version |-> v, op |-> few[j]] \in Rows
      BY <2>1, <3>1 DEF Rows
    <3>3. db.ops \in Seq(Rows)
      BY <2>1 DEF RowTypes
    <3>4. \A j \in 1 .. k : new[j] \in Rows
      BY <3>1, <3>2
    <3>5. new = [j \in 1 .. k |-> new[j]]
      BY <3>1
    <3> HIDE DEF Rows, new
    <3> QED BY <3>3, <3>4, <3>5
  <2>5. k = 0
    <3> DEFINE r == db.ops  w == new
    <3>1. r \in Seq(Rows) /\ w \in Seq(Rows) /\ r \o w = r /\ Len(w) = k
      BY <2>3, <2>4
    <3> HIDE DEF r, w, Rows
    <3>2. Len(r \o w) = Len(r) + Len(w) /\ Len(r) \in Nat
      BY <3>1
    <3> QED BY <3>1, <3>2
  <2>6. DOMAIN few = 1 .. 0
    <3> DEFINE r == Ops
    <3>1. few \in Seq(r) /\ Len(few) = k
      BY <2>1
    <3> HIDE DEF r
    <3> QED BY <2>5, <3>1
  <2>7. ApplyOperations(Durable, few) = Durable
    BY <2>6, FewApplied
  <2> QED BY <1>1, <2>7 DEF Sources, few
<1> QED BY <1>1, SourcesAfter

\* The queues after a step: some requests are taken, or one is added.
LEMMA RequestsAfter ==
  ASSUME Types, [Next]_vars
  PROVE  /\ used'.edits \in Nat /\ used.edits <= used'.edits
         /\ \/ \E s \in [Conns -> {0, 1}] : Taken(req', req, s)
            \/ \E c \in Conns : \E m \in Requests :
                 /\ UNCHANGED <<doc, db, origin>> /\ req' = [req EXCEPT ![c] = Append(@, m)]
                 /\ m.type = "edit" =>
                      /\ FitsText(m.op, m.seen) /\ used'.edits = used.edits + 1
                      /\ m.op.type = "insert" => m.op.content = << 100 + used.edits >>
<1> DEFINE Less == \E s \in [Conns -> {0, 1}] : Taken(req', req, s)
           Sends(c, m) == /\ UNCHANGED <<doc, db, origin>> /\ req' = [req EXCEPT ![c] = Append(@, m)]
                          /\ m.type = "edit" =>
                               /\ FitsText(m.op, m.seen) /\ used'.edits = used.edits + 1
                               /\ m.op.type = "insert" => m.op.content = << 100 + used.edits >>
           More == \E c \in Conns : \E m \in Requests : Sends(c, m)
<1>0. /\ req \in [Conns -> Seq(Requests)] /\ CounterTypes /\ used.edits \in Nat
      /\ \A c \in Conns : Len(req[c]) \in Nat /\ DOMAIN req[c] = 1 .. Len(req[c])
  <2>1. req \in [Conns -> Seq(Requests)] /\ CounterTypes /\ used.edits \in Nat
    BY DEF Types, QueueTypes, CounterTypes
  <2> HIDE DEF Requests
  <2> QED BY <2>1
<1>1. CounterTypes' /\ used.edits <= used'.edits
  <2>1. ASSUME NEW what \in {"edits", "saves", "restores", "cursors", "closes", "crashes"}, NEW bound, Spend(what, bound)
        PROVE  used.edits <= used'.edits
    <3>1. used'[what] = used[what] + 1 /\ (what # "edits" => used'["edits"] = used["edits"])
      BY <1>0, <2>1, SpendTyped
    <3> QED BY <1>0, <3>1
  <2>2. ASSUME used' = used PROVE used.edits <= used'.edits
    BY <1>0, <2>2
  <2>3. ASSUME NEW c \in Conns, Handle(c) \/ Step(c) PROVE used' = used
    BY <2>3, WhoActs
  <2>4. ASSUME NEW c \in Conns, Connect(c) \/ ClientReceives(c) PROVE used' = used
    BY <2>4 DEF Connect, ClientReceives
  <2>5. ASSUME NEW c \in Conns, ClientActs(c)
        PROVE  \/ used' = used \/ Spend("edits", MaxEdits) \/ Spend("cursors", MaxCursors) \/ Spend("saves", MaxSaves)
               \/ Spend("restores", MaxRestores) \/ Spend("closes", MaxCloses)
    BY <2>5 DEF ClientActs, ClientJoins, ClientEdits, ClientMovesCursor, ClientSaves, ClientRestores, ClientCreates,
                ClientCloses
  <2>6. ASSUME Crash PROVE used.edits <= used'.edits
    BY <2>1, <2>6 DEF Crash
  <2>7. ASSUME Restart \/ UNCHANGED vars PROVE used.edits <= used'.edits
    BY <2>2, <2>7 DEF Restart, vars
  <2> QED BY CounterStep, <2>1, <2>2, <2>3, <2>4, <2>5, <2>6, <2>7 DEF Next
<1>2. used'.edits \in Nat
  BY <1>1 DEF CounterTypes
<1>3. ASSUME \A c \in Conns : req'[c] = req[c] \/ req'[c] = << >> PROVE Less
  <2> DEFINE s == [c \in Conns |-> 0]
  <2>1. s \in [Conns -> {0, 1}] /\ \A c \in Conns : s[c] = 0
    OBVIOUS
  <2> HIDE DEF s
  <2>2. \A c \in Conns : \A k \in DOMAIN req'[c] : k \in Nat /\ k + 0 \in DOMAIN req[c] /\ req'[c][k] = req[c][k + 0]
    <3>1. DOMAIN << >> = {}
      OBVIOUS
    <3>2. \A c \in Conns : \A k \in DOMAIN req[c] : k \in Nat /\ k + 0 = k
      BY <1>0
    <3> QED BY <1>3, <3>1, <3>2
  <2>3. Taken(req', req, s)
    BY <2>1, <2>2 DEF Taken
  <2> QED BY <2>1, <2>3
<1>4. ASSUME NEW c \in Conns, NEW type, Takes(c, type) PROVE Less
  <2> DEFINE s == [d \in Conns |-> IF d = c THEN 1 ELSE 0]  q == req[c]  r == Requests
  <2>1. q \in Seq(r) /\ q # << >> /\ req' = [req EXCEPT ![c] = Tail(@)]
    BY <1>0, <1>4 DEF Takes
  <2>2. \A d \in Conns : req'[d] = IF d = c THEN Tail(q) ELSE req[d]
    BY <1>0, <2>1
  <2>3. s \in [Conns -> {0, 1}] /\ \A d \in Conns : s[d] = IF d = c THEN 1 ELSE 0
    OBVIOUS
  <2> HIDE DEF s, q, r
  <2>4. \A k \in DOMAIN Tail(q) : k \in Nat /\ k + 1 \in DOMAIN q /\ Tail(q)[k] = q[k + 1]
    BY <2>1
  <2>5. \A d \in Conns : \A k \in DOMAIN req[d] : k \in Nat /\ k + 0 = k
    BY <1>0
  <2>6. Taken(req', req, s)
    <3> SUFFICES ASSUME NEW d \in Conns, NEW k \in DOMAIN req'[d]
                 PROVE  k \in Nat /\ k + s[d] \in DOMAIN req[d] /\ req'[d][k] = req[d][k + s[d]]
      BY DEF Taken
    <3>1. CASE d = c
      <4>1. req'[d] = Tail(q) /\ s[d] = 1 /\ req[d] = q
        BY <2>2, <2>3, <3>1 DEF q
      <4> QED BY <2>4, <4>1
    <3>2. CASE d # c
      <4>1. req'[d] = req[d] /\ s[d] = 0
        BY <2>2, <2>3, <3>2
      <4>2. k \in DOMAIN req[d] /\ k \in Nat /\ k + 0 = k
        BY <2>5, <4>1
      <4> QED BY <4>1, <4>2
    <3> QED BY <3>1, <3>2
  <2> QED BY <2>3, <2>6
<1>5. ASSUME NEW c \in Conns, NEW m, ClientSends(c, m), UNCHANGED <<doc, db, origin>>,
             m.type = "edit" =>
               /\ FitsText(m.op, m.seen) /\ used'.edits = used.edits + 1
               /\ m.op.type = "insert" => m.op.content = << 100 + used.edits >>
      PROVE  More
  <2>1. req' = [req EXCEPT ![c] = Append(@, m)]
    BY <1>5 DEF ClientSends
  <2>2. m \in Requests
    <3> DEFINE q == req[c]  r == Requests
    <3>1. (req' \in [Conns -> Seq(Requests)])
      BY QueueStep DEF QueueTypes
    <3>2. Append(q, m) \in Seq(r) /\ q \in Seq(r)
      BY <1>0, <2>1, <3>1
    <3> HIDE DEF q, r
    <3>3. Append(q, m)[Len(q) + 1] = m /\ Len(q) + 1 \in DOMAIN Append(q, m)
      BY <3>2
    <3> DEFINE w == Append(q, m)
    <3>4. w \in Seq(r) /\ w[Len(q) + 1] = m /\ Len(q) + 1 \in DOMAIN w
      BY <3>2, <3>3
    <3> HIDE DEF w
    <3>5. m \in r
      BY <3>4
    <3> QED BY <3>5 DEF r
  <2> QED BY <1>5, <2>1, <2>2
<1>6. ASSUME NEW c \in Conns, ClientEdits(c) PROVE More
  <2>1. PICK op \in ClientOps(c) :
          ClientSends(c, [type |-> "edit", op |-> op, rev |-> client[c].rev, seen |-> client[c].text])
    BY <1>6 DEF ClientEdits
  <2> DEFINE m == [type |-> "edit", op |-> op, rev |-> client[c].rev, seen |-> client[c].text]
             t == client[c].text
  <2>2. ClientSends(c, m) /\ m.op = op /\ m.seen = t
    BY <2>1
  <2>3. t \in Texts
    BY <1>6 DEF ClientEdits, Types, ClientTypes, Clients
  <2>4. FitsText(op, t) /\ (op.type = "insert" => op.content = << 100 + used.edits >>)
    <3> DEFINE u == UserOf[c]  x == << 100 + used.edits >>
    <3>1. \/ \E p \in 0 .. Len(t) : op = MakeInsert(p, x, u)
          \/ op.type = "delete" /\ FitsText(op, t)
      BY DEF ClientOps, MakeDelete
    <3> HIDE DEF u, x
    <3>2. ASSUME NEW p \in 0 .. Len(t), op = MakeInsert(p, x, u) PROVE op.type = "insert" /\ op.position <= Len(t) /\ op.content = x
      BY <3>2 DEF MakeInsert
    <3> QED BY <3>1, <3>2 DEF FitsText, x
  <2>5. used'.edits = used.edits + 1
    BY <1>0, <1>6, SpendTyped DEF ClientEdits
  <2>6. UNCHANGED <<doc, db, origin>>
    BY <2>2 DEF ClientSends
  <2> HIDE DEF m
  <2> QED BY <1>5, <2>2, <2>4, <2>5, <2>6
<1>7. ASSUME NEW c \in Conns, ClientMovesCursor(c) \/ ClientRestores(c) PROVE More
  <2>1. \/ \E p : ClientSends(c, [type |-> "cursor", position |-> p])
        \/ \E v : ClientSends(c, [type |-> "restore", version |-> v])
    BY <1>7 DEF ClientMovesCursor, ClientRestores
  <2>2. ASSUME NEW p, ClientSends(c, [type |-> "cursor", position |-> p]) PROVE More
    <3> DEFINE m == [type |-> "cursor", position |-> p]
    <3>1. m.type # "edit" /\ ClientSends(c, m) /\ UNCHANGED <<doc, db, origin>>
      BY <2>2 DEF ClientSends
    <3> HIDE DEF m
    <3> QED BY <1>5, <3>1
  <2>3. ASSUME NEW v, ClientSends(c, [type |-> "restore", version |-> v]) PROVE More
    <3> DEFINE m == [type |-> "restore", version |-> v]
    <3>1. m.type # "edit" /\ ClientSends(c, m) /\ UNCHANGED <<doc, db, origin>>
      BY <2>3 DEF ClientSends
    <3> HIDE DEF m
    <3> QED BY <1>5, <3>1
  <2> QED BY <2>1, <2>2, <2>3
<1>8. ASSUME NEW c \in Conns, ClientJoins(c) \/ ClientSaves(c) \/ ClientCreates(c) PROVE More
  <2>1. PICK t \in {"join", "save", "create"} : ClientSends(c, [type |-> t])
    BY <1>8 DEF ClientJoins, ClientSaves, ClientCreates
  <2> DEFINE m == [type |-> t]
  <2>2. m.type # "edit" /\ ClientSends(c, m) /\ UNCHANGED <<doc, db, origin>>
    BY <2>1 DEF ClientSends
  <2> HIDE DEF m
  <2> QED BY <1>5, <2>2
<1>9. ASSUME NEW c \in Conns, Handle(c) PROVE Less
  <2>1. HandleDisconnect(c) \/ \E type : Takes(c, type)
    BY <1>9 DEF Handle, HandleJoin, HandleEdit, HandleCursorUpdate, HandleSaveSnapshot, HandleRestoreVersion, HandleCreateDoc
  <2>2. HandleDisconnect(c) => \A d \in Conns : req'[d] = req[d]
    BY DEF HandleDisconnect
  <2> QED BY <1>3, <1>4, <2>1, <2>2
<1>10. ASSUME NEW c \in Conns, Step(c) PROVE Less
  <2>1. req' = req \/ req' = [req EXCEPT ![c] = << >>]
    BY <1>10 DEF Step, SendReply, SendNext, BeginBroadcast, CheckAutoSnapshot, CheckUnload
  <2>2. \A d \in Conns : req'[d] = req[d] \/ req'[d] = << >>
    BY <1>0, <2>1
  <2> QED BY <1>3, <2>2
<1>11. ASSUME NEW c \in Conns, Connect(c) \/ ClientReceives(c) \/ ClientCloses(c) PROVE Less
  <2>1. \A d \in Conns : req'[d] = req[d]
    BY <1>11 DEF Connect, ClientReceives, ClientCloses
  <2> QED BY <1>3, <2>1
<1>12. ASSUME Crash PROVE Less
  <2>1. \A d \in Conns : req'[d] = << >>
    BY <1>12 DEF Crash
  <2> QED BY <1>3, <2>1
<1>13. ASSUME Restart \/ UNCHANGED vars PROVE Less
  <2>1. \A d \in Conns : req'[d] = req[d]
    BY <1>13 DEF Restart, vars
  <2> QED BY <1>3, <2>1
<1> HIDE DEF Less, More
<1>14. Less \/ More
  BY <1>6, <1>7, <1>8, <1>9, <1>10, <1>11, <1>12, <1>13 DEF Next, ClientActs
<1> QED BY <1>1, <1>2, <1>14 DEF Less, More

\* What handle_edit leaves in memory and on disk.
LEMMA EditLeaves ==
  ASSUME Stored, [Next]_vars, NEW c \in Conns, HandleEdit(c), Loaded, MayEdit(UserOf[c])
  PROVE  LET m == Head(req[c])
             ops == Applied(m)
         IN  /\ m \in Requests /\ m.type = "edit" /\ ops \in Seq(Made) /\ doc \in Documents /\ doc.text = Durable
             /\ req[c] # << >> /\ req' = [req EXCEPT ![c] = Tail(@)]
             /\ Loaded' /\ doc'.text = ApplyOperations(doc.text, ops) /\ doc'.log = doc.log \o ops
             /\ Durable' = doc'.text /\ db'.snaps = db.snaps /\ origin' = origin /\ used' = used
<1> DEFINE m == Head(req[c])  ops == Applied(m)
<1>0. m = Head(req[c]) /\ ops = Applied(m)
  OBVIOUS
<1> HIDE DEF m, ops
<1>1. /\ m \in Requests /\ m.type = "edit" /\ ops \in Seq(Made) /\ doc \in Documents /\ doc.text = Durable
      /\ RowTypes(db) /\ DbShape(db)
  BY <1>0, EditIs DEF Stored, Types, Versions, HistoryOK, Durable
<1> DEFINE text == ApplyOperations(doc.text, ops)  log == doc.log \o ops  pending == doc.pending + Len(ops)  v == doc.version
<1>2. /\ doc' = [doc EXCEPT !.text = text, !.log = log, !.pending = pending] /\ db' = Logged(db, v, ops)
      /\ origin' = origin /\ used' = used /\ req[c] # << >> /\ req' = [req EXCEPT ![c] = Tail(@)]
  BY <1>0 DEF HandleEdit, Takes
<1>3. v \in Nat /\ ops \in Seq(Ops)
  BY <1>1, MadeAreOps DEF Documents
<1>4. doc'.text = text /\ doc'.log = log
  <2> DEFINE d == doc
  <2>1. d = [text |-> d.text, version |-> d.version, pending |-> d.pending, log |-> d.log]
        /\ doc' = [d EXCEPT !.text = text, !.log = log, !.pending = pending]
    BY <1>1, <1>2 DEF Documents
  <2> HIDE DEF d, text, log, pending
  <2> QED BY <2>1
<1>5. Loaded'
  <2>1. doc' = [doc EXCEPT !.text = ApplyOperations(@, ops), !.log = doc.log \o ops, !.pending = @ + Len(ops)]
    BY <1>2
  <2>2. doc' \in Documents
    BY <1>1, <2>1, EditedTyped
  <2>3. NotLoaded \notin Documents
    <3>1. Documents \subseteq [text : Seq(Nat), version : Nat, pending : Nat, log : Seq(Operations(Nat, Users))]
      <4>1. Seq(Made) \subseteq Seq(Operations(Nat, Users))
        BY MadeAreOps
      <4> QED BY <4>1 DEF Documents, Texts
    <3> QED BY <3>1, DocAssumption
  <2> QED BY <2>2, <2>3 DEF Loaded
<1>6. Durable' = doc'.text
  BY <1>5, StoredStep DEF Stored, Durable
<1>7. db'.snaps = db.snaps
  <2> DEFINE e == Logged(db, v, ops)
  <2>1. e.snaps = db.snaps
    <3> HIDE DEF v
    <3> QED BY <1>1, <1>3, LoggedTypes
  <2> HIDE DEF e
  <2> QED BY <1>2, <2>1 DEF e
<1> QED BY <1>1, <1>2, <1>4, <1>5, <1>6, <1>7 DEF m, ops

\* Every step keeps the characters marked.
LEMMA MarksStep == Stored /\ Marks /\ [Next]_vars => Marks'
<1> SUFFICES ASSUME Stored, Marks, [Next]_vars PROVE Marks'
  OBVIOUS
<1> DEFINE top == 100 + used.edits  src == Sources  log == Ledger
           top2 == 100 + used'.edits  src2 == Sources'  log2 == Ledger'  org2 == origin'  rq2 == req'
<1>0. /\ Types /\ Marked(src, log, origin, top) /\ Asking(src, log, req, top) /\ req \in [Conns -> Seq(Requests)]
      /\ (Loaded => doc.text = ApplyOperations(origin, doc.log)) /\ top \in Nat /\ origin \in src /\ Durable \in src
  BY DEF Marks, Marked, Stored, Types, QueueTypes, Sources
<1>1. top2 \in Nat /\ top <= top2
  <2>1. used'.edits \in Nat /\ used.edits <= used'.edits /\ used.edits \in Nat
    BY <1>0, RequestsAfter DEF Types, CounterTypes
  <2> QED BY <2>1
<1>2. ASSUME Marked(src2, log2, org2, top2), Asking(src2, log2, rq2, top2), Loaded' => doc'.text = ApplyOperations(origin', doc'.log)
      PROVE  Marks'
  BY <1>2 DEF Marks
<1>3. ApplyOperations(origin', << >>) = origin'
  <2>1. DOMAIN << >> = 1 .. 0
    OBVIOUS
  <2> QED BY <2>1, FewApplied
<1>4. \A c \in Conns : req[c] # << >> => /\ Head(req[c]) = req[c][1] /\ 1 \in DOMAIN req[c]
                                         /\ Unseen(src, log, Head(req[c]), top)
  <2> SUFFICES ASSUME NEW c \in Conns, req[c] # << >>
               PROVE  Head(req[c]) = req[c][1] /\ 1 \in DOMAIN req[c] /\ Unseen(src, log, Head(req[c]), top)
    OBVIOUS
  <2>1. Head(req[c]) = req[c][1] /\ 1 \in DOMAIN req[c]
    <3> DEFINE q == req[c]  r == Requests
    <3>1. q \in Seq(r) /\ q # << >>
      BY <1>0
    <3> HIDE DEF q, r
    <3>2. Head(q) = q[1] /\ 1 \in DOMAIN q
      BY <3>1
    <3> QED BY <3>2 DEF q
  <2> QED BY <1>0, <2>1 DEF Asking
<1>5. CASE /\ db'.ops = db.ops
           /\ \/ ~ Loaded' /\ origin' = origin
              \/ Loaded /\ Loaded' /\ doc'.text = doc.text /\ doc'.log = doc.log /\ origin' = origin
              \/ Loaded' /\ doc'.log = << >> /\ doc'.text = origin' /\ origin' \in Sources
  <2>1. origin' \in Sources /\ (log2 = << >> \/ (log2 = log /\ org2 = origin))
    BY <1>0, <1>5 DEF Ledger
  <2>2. src2 \subseteq src \cup {<< >>}
    BY <1>5, <2>1, SourcesQuiet
  <2>3. Loaded' => doc'.text = ApplyOperations(origin', doc'.log)
    BY <1>0, <1>3, <1>5
  <2>4. \/ \E s \in [Conns -> {0, 1}] : Taken(rq2, req, s)
        \/ \E c \in Conns : \E m \in Requests :
             /\ src2 = src /\ log2 = log /\ rq2 = [req EXCEPT ![c] = Append(@, m)]
             /\ m.type = "edit" =>
                  /\ FitsText(m.op, m.seen) /\ top < top2
                  /\ m.op.type = "insert" => m.op.content = << top >>
    <3>1. UNCHANGED <<doc, db, origin>> => src2 = src /\ log2 = log
      BY DEF Sources, Ledger, Loaded, Durable
    <3>2. used'.edits = used.edits + 1 => top < top2
      <4>1. used.edits \in Nat
        BY <1>0 DEF Types, CounterTypes
      <4> QED BY <4>1
    <3> QED BY <1>0, <3>1, <3>2, RequestsAfter
  <2> HIDE DEF src2, log2, org2, top2, rq2, src, log, top
  <2>5. Marked(src2, log2, org2, top2)
    BY <1>0, <1>1, <2>1, <2>2, MarkedLess
  <2>6. Asking(src2, log2, rq2, top2)
    <3>1. ASSUME NEW s \in [Conns -> {0, 1}], Taken(rq2, req, s) PROVE Asking(src2, log2, rq2, top2)
      BY <1>0, <1>1, <2>1, <2>2, <3>1, AskingLess
    <3>2. ASSUME NEW c \in Conns, NEW m \in Requests, src2 = src, log2 = log, rq2 = [req EXCEPT ![c] = Append(@, m)],
                 m.type = "edit" =>
                   /\ FitsText(m.op, m.seen) /\ top < top2
                   /\ m.op.type = "insert" => m.op.content = << top >>
          PROVE  Asking(src2, log2, rq2, top2)
      <4>1. Asking(src, log, rq2, top2)
        BY ONLY <1>0, <1>1, <3>2, AskingMore
      <4> QED BY <3>2, <4>1
    <3> QED BY <2>4, <3>1, <3>2
  <2> QED BY <1>2, <2>3, <2>5, <2>6
<1>6. CASE Crash /\ ~ Loaded' /\ origin' = origin
  <2>1. log2 = << >> /\ org2 = origin /\ \A c \in Conns : DOMAIN rq2[c] = {}
    BY <1>6 DEF Ledger, Crash
  <2>2. Asking(src2, log2, rq2, top2)
    BY <2>1 DEF Asking
  <2>3. origin' \in Sources
    BY <1>0, <1>6
  <2>4. \/ src2 \subseteq src \cup {<< >>}
        \/ \E c \in Conns : \E k \in Nat : \E m :
             /\ m = Head(req[c]) /\ Loaded /\ m \in Requests /\ m.type = "edit" /\ k <= Len(Applied(m)) /\ req[c] # << >>
             /\ src2 \subseteq src \cup {ApplyOperations(Durable, SubSeq(Applied(m), 1, k))}
    BY <2>3, SourcesAfter
  <2> HIDE DEF src2, log2, org2, top2, rq2, src, log, top
  <2>5. ASSUME NEW c \in Conns, NEW k \in Nat, NEW m, m = Head(req[c]), Loaded, m \in Requests, m.type = "edit",
               k <= Len(Applied(m)), req[c] # << >>,
               src2 \subseteq src \cup {ApplyOperations(Durable, SubSeq(Applied(m), 1, k))}
        PROVE  Marked(src2, log2, org2, top2)
    <3> DEFINE few == SubSeq(Applied(m), 1, k)  r == ApplyOperations(Durable, few)
    <3>1. doc \in Documents /\ few \in Seq(Made)
      BY <1>0, <2>5, EditPrefix
    <3>2. Brings(m, few)
      BY <2>5, <3>1, AppliedBrings
    <3>3. Unseen(src, log, m, top)
      BY <1>4, <2>5
    <3> HIDE DEF few
    <3>4. Marked(src \cup {r}, log \o few, origin, top)
      BY <1>0, <2>5, <3>1, <3>2, <3>3, EditedMarked
    <3>5. src2 \subseteq (src \cup {r}) \cup {<< >>}
      BY <2>5 DEF few
    <3> HIDE DEF r
    <3> DEFINE more == src \cup {r}  all == log \o few
    <3>6. Marked(more, all, origin, top) /\ src2 \subseteq more \cup {<< >>}
      BY <3>4, <3>5
    <3> HIDE DEF more, all
    <3> QED BY <1>1, <2>1, <3>6, MarkedLess
  <2>6. Marked(src2, log2, org2, top2)
    BY <1>0, <1>1, <2>1, <2>4, <2>5, MarkedLess
  <2> QED BY <1>2, <1>6, <2>2, <2>6
<1>7. ASSUME NEW c \in Conns, HandleEdit(c), Loaded, MayEdit(UserOf[c]) PROVE Marks'
  <2> DEFINE m == Head(req[c])  ops == Applied(m)  t == Durable  r == ApplyOperations(t, ops)
  <2>1. /\ m \in Requests /\ m.type = "edit" /\ ops \in Seq(Made) /\ doc \in Documents /\ doc.text = t
        /\ req[c] # << >> /\ req' = [req EXCEPT ![c] = Tail(@)]
        /\ Loaded' /\ doc'.text = r /\ doc'.log = doc.log \o ops
        /\ Durable' = doc'.text /\ db'.snaps = db.snaps /\ origin' = origin /\ used' = used
    <3>1. doc.text = t => r = ApplyOperations(doc.text, ops)
      OBVIOUS
    <3> HIDE DEF r
    <3> QED BY <1>7, <3>1, EditLeaves
  <2>2. log = doc.log /\ log2 = log \o ops /\ top2 = top /\ rq2 = [req EXCEPT ![c] = Tail(@)] /\ org2 = origin
    BY <1>7, <2>1 DEF Ledger
  <2>3. src2 \subseteq src \cup {r}
    BY <2>1 DEF Sources
  <2>4. log \in Seq(Made)
    BY <2>1, <2>2 DEF Documents
  <2>5. Brings(m, ops)
    <3>1. 0 \in Nat /\ 0 <= Len(ops)
      <4> HIDE DEF ops, Made
      <4> QED BY <2>1
    <3> QED BY <2>1, <3>1, AppliedBrings
  <2>6. Unseen(src, log, m, top)
    BY <1>4, <2>1
  <2>7. t \in src
    BY <1>0
  <2>8. /\ Loaded' => doc'.text = ApplyOperations(ApplyOperations(origin, doc.log), ops)
        /\ origin' = origin /\ doc'.log = log \o ops /\ log = doc.log
    BY <1>0, <1>7, <2>1, <2>2
  <2>0. m = Head(req[c])
    OBVIOUS
  <2> HIDE DEF src2, log2, org2, top2, rq2, src, log, top, ops, t, m
  <2>9. /\ Marked(src \cup {r}, log \o ops, origin, top)
        /\ OnlyAdds(src \cup {r}, log \o ops, src, log, m)
    BY <1>0, <2>1, <2>5, <2>6, <2>7, EditedMarked
  <2>10. ApplyOperations(origin, log \o ops) = ApplyOperations(ApplyOperations(origin, log), ops)
    BY <2>1, <2>4, AppliedOnTop
  <2>11. Loaded' => doc'.text = ApplyOperations(origin', doc'.log)
    BY <2>8, <2>10
  <2> HIDE DEF r
  <2>12. Marked(src2, log2, org2, top2)
    <3> DEFINE more == src \cup {r}  all == log \o ops
    <3>1. Marked(more, all, origin, top) /\ src2 \subseteq more \cup {<< >>} /\ log2 = all /\ org2 = origin
      BY <2>2, <2>3, <2>9
    <3> HIDE DEF more, all
    <3> QED BY <1>0, <1>1, <3>1, MarkedLess
  <2>13. Asking(src2, log2, rq2, top2)
    <3>1. OnlyAdds(src2, log2, src, log, m)
      <4>1. \A x : Seen(src2, log2, x) => Seen(src \cup {r}, log \o ops, x)
        BY <2>2, <2>3 DEF Seen
      <4> QED BY <2>9, <4>1 DEF OnlyAdds
    <3>2. Asking(src2, log2, [req EXCEPT ![c] = Tail(@)], top)
      BY <1>0, <1>7, <2>0, <2>1, <3>1, AskingEdited
    <3> QED BY <2>2, <3>2
  <2> QED BY <1>2, <2>11, <2>12, <2>13
<1> QED BY <1>5, <1>6, <1>7, DocAfter

\* The seeded text is marked, and there is nothing else.
LEMMA MarksInit == Init => Marks
<1> SUFFICES ASSUME Init PROVE Marks
  OBVIOUS
<1> DEFINE src == Sources  log == << >>  org == origin  top == 100 + used.edits
<1>1. ~ Loaded /\ Ledger = << >> /\ origin = << >> /\ used.edits = 0 /\ \A c \in Conns : DOMAIN req[c] = {}
  BY DEF Init, Loaded, Ledger
<1>2. src \subseteq {<< >>, Seed}
  <2>1. CASE db = NoDocument
    <3>1. DOMAIN db.snaps = {} /\ Durable = << >>
      BY <2>1, DocumentInit DEF Store!Init, NoDocument, Empty
    <3> QED BY <1>1, <3>1 DEF Sources
  <2>2. ASSUME NEW collab \in Roles, db = SeededDocument(collab) PROVE src \subseteq {<< >>, Seed}
    <3>1. db.snaps = Bind(Bind(Empty, 0, << >>), 1, Seed)
      BY <2>2 DEF SeededDocument
    <3>2. \A v \in DOMAIN db.snaps : db.snaps[v] \in {<< >>, Seed}
      BY <3>1 DEF Bind, Empty
    <3>3. Durable \in {<< >>} \cup {db.snaps[v] : v \in DOMAIN db.snaps}
      BY DocumentInit DEF Store!Init
    <3> QED BY <1>1, <3>2, <3>3 DEF Sources
  <2> QED BY <2>1, <2>2 DEF Init
<1>3. Marked({Seed}, << >>, << >>, 100)
  <2>1. Seed \in Texts /\ Unlike(Seed) /\ \A x \in Range(Seed) : x < 100
    <3>1. Seed \in Seq(Nat) /\ \A i, j \in DOMAIN Seed : Seed[i] < 100 /\ (Seed[i] = Seed[j] => i = j)
      BY DocAssumption, MarksAssumption
    <3>2. DOMAIN Seed = 1 .. Len(Seed)
      BY <3>1
    <3>3. Unlike(Seed)
      BY <3>1, <3>2 DEF Unlike
    <3> QED BY <3>1, <3>3 DEF Texts, Range
  <2>2. << >> \in Seq(Made) /\ Len(<< >>) = 0 /\ 100 \in Nat
    OBVIOUS
  <2>3. Novel(<< >>, Len(<< >>), Range(<< >>)) /\ \A x : ~ Brought(<< >>, Len(<< >>), x)
    BY <2>2 DEF Novel, Brought
  <2> QED BY <2>1, <2>2, <2>3 DEF Marked
<1>4. Marked(src, log, org, top)
  <2>1. top = 100 /\ src \subseteq {Seed} \cup {<< >>}
    BY <1>1, <1>2
  <2> HIDE DEF src, log, org, top
  <2>2. log = << >> /\ 100 \in Nat /\ 100 <= 100
    BY DEF log
  <2> QED BY <1>3, <2>1, <2>2, MarkedLess
<1> QED BY <1>1, <1>4 DEF Marks, Asking


-----------------------------------------------------------------------------
(* What an edit does to the text, and to the carets.                       *)

\* The edit that handle_edit takes: its author's text, and its character.
LEMMA TakenIs ==
  ASSUME Stored, Marks, NEW c \in Conns, req[c] # << >>, NEW m, m = Head(req[c]), m \in Requests, m.type = "edit"
  PROVE  FitsText(m.op, m.seen) /\ Unseen(Sources, Ledger, m, 100 + used.edits)
<1> DEFINE q == req[c]  r == Requests
<1>1. q \in Seq(r) /\ q # << >> /\ m = Head(q)
  BY DEF Stored, Types, QueueTypes
<1> HIDE DEF q, r
<1>2. m = q[1] /\ 1 \in DOMAIN q
  BY <1>1
<1>3. Asking(Sources, Ledger, req, 100 + used.edits)
  BY DEF Marks
<1> QED BY <1>2, <1>3 DEF Asking, q

\* An unseen character is in none of the texts.
LEMMA UnseenIs ==
  ASSUME NEW src, NEW log, NEW top, NEW m \in Requests, m.type = "edit", m.op.type = "insert",
         Unseen(src, log, m, top), NEW t \in src
  PROVE  Unlike(m.op.content) /\ Foreign(m.op, Range(t))
<1> DEFINE w == m.op.content
<1>1. Len(w) = 1 /\ w \in Seq(Nat) /\ ~ Seen(src, log, w[1])
  BY InsertedIs DEF Unseen
<1>2. w[1] \notin Range(t)
  BY <1>1 DEF Seen
<1> HIDE DEF w
<1>3. 1 .. Len(w) = {1}
  BY <1>1
<1>4. Unlike(w)
  BY <1>3 DEF Unlike
<1>5. \A i \in 1 .. Len(w) : w[i] \notin Range(t)
  BY <1>2, <1>3
<1> QED BY <1>4, <1>5 DEF Foreign, w

\* The edit does what was meant.
LEMMA IntentStep ==
  ASSUME Stored, Marks, [Next]_vars, NEW c \in Conns, EditTaken(c), Honest(Head(req[c]))
  PROVE  KeepsIntent(Head(req[c]), doc.text, doc'.text)
<1> DEFINE m == Head(req[c])  ops == Applied(m)  b == m.op  s == m.seen  t == doc.text
           n == Len(doc.log)  k == Lesser(m.rev, n)
<1>1. /\ m \in Requests /\ m.type = "edit" /\ doc \in Documents /\ t = Durable /\ req[c] # << >>
      /\ doc'.text = ApplyOperations(t, ops)
  <2>1. HandleEdit(c) /\ Loaded /\ MayEdit(UserOf[c])
    BY DEF EditTaken
  <2> QED BY <2>1, EditLeaves
<1>2. b \in Operations(Nat, Users) /\ s \in Texts /\ m.rev \in Nat /\ b.type \in {"insert", "delete"}
  BY <1>1, RequestIs, MadeIs
<1>3. FitsText(b, s) /\ Unseen(Sources, Ledger, m, 100 + used.edits)
  <2>1. m = Head(req[c])
    OBVIOUS
  <2> HIDE DEF m
  <2> QED BY <1>1, <2>1, TakenIs
<1>4. /\ Marked(Sources, Ledger, origin, 100 + used.edits) /\ Ledger = doc.log /\ t = ApplyOperations(origin, doc.log)
      /\ t \in Sources /\ origin \in Sources
  BY <1>1 DEF Marks, Ledger, Sources, EditTaken
<1>5. /\ origin \in Seq(Nat) /\ Unlike(origin) /\ doc.log \in Seq(Operations(Nat, Users))
      /\ Novel(doc.log, n, Range(origin))
  <2>1. doc.log \in Seq(Made)
    BY <1>4 DEF Marked
  <2> QED BY <1>4, <2>1, MadeAreOps DEF Marked, Texts
<1>6. n \in Nat /\ k \in Nat /\ k <= n
  <2>1. n \in Nat
    <3> DEFINE l == doc.log  R == Operations(Nat, Users)
    <3>1. l \in Seq(R)
      BY <1>5
    <3> HIDE DEF l, R
    <3>2. Len(l) \in Nat
      BY <3>1
    <3> QED BY <3>2 DEF l
  <2> HIDE DEF n
  <2> QED BY <1>2, <2>1 DEF Lesser
<1>7. s = ApplyOperations(origin, SubSeq(doc.log, 1, k)) /\ ops = TransformOperations(b, SubSeq(doc.log, k + 1, n))
  BY DEF Honest, Applied
<1>8. b.type = "insert" => Unlike(b.content) /\ Foreign(b, Range(t))
  BY <1>1, <1>3, <1>4, UnseenIs
<1>9. Does(b, s, t, ApplyOperations(t, ops))
  <2> DEFINE log == doc.log
  <2>1. /\ origin \in Seq(Nat) /\ Unlike(origin) /\ log \in Seq(Operations(Nat, Users)) /\ Novel(log, Len(log), Range(origin))
        /\ k \in Nat /\ k <= Len(log) /\ b \in Operations(Nat, Users) /\ s = ApplyOperations(origin, SubSeq(log, 1, k))
        /\ FitsText(b, s) /\ t = ApplyOperations(origin, log) /\ (b.type = "insert" => Unlike(b.content) /\ Foreign(b, Range(t)))
        /\ ops = TransformOperations(b, SubSeq(log, k + 1, Len(log)))
    BY <1>2, <1>3, <1>4, <1>5, <1>6, <1>7, <1>8
  <2> HIDE DEF log, ops, b, s, t, k
  <2> QED BY ONLY <2>1, DoesThroughLog
<1> DEFINE r == doc'.text
<1>10. Does(b, s, t, r) /\ r = doc'.text /\ m = Head(req[c])
  BY <1>1, <1>9
<1> HIDE DEF r, m
<1>11. KeepsIntent(m, t, r)
  <2>1. /\ \A y, x : Index(y, x) = Place(y, x)
        /\ \A y : Chars(y) = Range(y)
    BY DEF Index, Place, Chars
  <2>2. {m.seen[i] : i \in m.op.position + 1 .. EndOf(m.op)} = Picked(b, s)
    BY DEF Picked
  <2>3. CASE b.type = "insert"
    BY <1>10, <2>1, <2>3 DEF Does, KeepsIntent
  <2>4. CASE b.type = "delete"
    BY <1>10, <2>1, <2>2, <2>4 DEF Does, KeepsIntent, Thinned
  <2> QED BY <1>2, <2>3, <2>4
<1> QED BY <1>10, <1>11


\* Where move_cursors leaves the caret of another editor.
LEMMA CaretLeft ==
  ASSUME Types, NEW c \in Conns, EditTaken(c), NEW u \in DOMAIN session \ {UserOf[c]}
  PROVE  /\ session[u].cursor \in Nat
         /\ session'[u].cursor = FoldLeft(TransformCursor, session[u].cursor, Applied(Head(req[c])))
<1> DEFINE ops == Applied(Head(req[c]))  a == UserOf[c]  q == FoldLeft(TransformCursor, session[u].cursor, ops)  e == session[u]
<1>1. MoveCursors(ops, a)
  BY DEF EditTaken, HandleEdit
<1>2. session'[u] = [e EXCEPT !.cursor = q]
  BY <1>1 DEF MoveCursors, MovedCursor
<1>3. e \in Entries
  BY DEF Types, SessionTypes
<1> HIDE DEF e, q
<1>4. e = [ws |-> e.ws, cursor |-> e.cursor, role |-> e.role] /\ e.cursor \in Nat
  BY <1>3 DEF Entries
<1>5. session'[u].cursor = q
  BY <1>2, <1>4
<1> QED BY <1>4, <1>5 DEF e, q

\* The caret stays before its character.
LEMMA CaretStep ==
  ASSUME Stored, Marks, [Next]_vars, NEW c \in Conns, EditTaken(c), NEW u \in DOMAIN session \ {UserOf[c]},
         session[u].cursor < Len(doc.text), doc.text[session[u].cursor + 1] \in Chars(doc'.text)
  PROVE  /\ session'[u].cursor < Len(doc'.text)
         /\ doc'.text[session'[u].cursor + 1] = doc.text[session[u].cursor + 1]
<1> DEFINE m == Head(req[c])  ops == Applied(m)  t == doc.text  p == session[u].cursor  n == Len(ops)
           r == ApplyOperations(t, ops)  q == FoldLeft(TransformCursor, p, ops)
<1>1. /\ m \in Requests /\ m.type = "edit" /\ doc \in Documents /\ t = Durable /\ req[c] # << >>
      /\ doc'.text = r /\ ops \in Seq(Made)
  <2>1. HandleEdit(c) /\ Loaded /\ MayEdit(UserOf[c])
    BY DEF EditTaken
  <2> QED BY <2>1, EditLeaves
<1>2. p \in Nat /\ session'[u].cursor = q
  BY CaretLeft DEF Stored
<1>3. Unseen(Sources, Ledger, m, 100 + used.edits)
  <2>1. m = Head(req[c])
    OBVIOUS
  <2> HIDE DEF m
  <2> QED BY <1>1, <2>1, TakenIs
<1>4. t \in Sources /\ t \in Texts /\ Unlike(t)
  <2>1. t \in Sources
    BY <1>1 DEF Sources
  <2> QED BY <2>1 DEF Marks, Marked
<1>5. /\ n \in Nat /\ DOMAIN ops = 1 .. n /\ \A k \in 1 .. n : ops[k] \in Operations(Nat, Users)
  <2> DEFINE l == ops  R == Operations(Nat, Users)
  <2>1. l \in Seq(R)
    BY <1>1, MadeAreOps
  <2> HIDE DEF l, R
  <2>2. Len(l) \in Nat /\ DOMAIN l = 1 .. Len(l) /\ \A k \in 1 .. Len(l) : l[k] \in R
    BY <2>1
  <2> QED BY <2>2 DEF l, R
<1>6. Brings(m, ops)
  <2>1. 0 \in Nat /\ 0 <= n
    <3> HIDE DEF n
    <3> QED BY <1>5
  <2> QED BY <1>1, <2>1, AppliedBrings
<1>7. t[p + 1] \in Range(r) /\ p < Len(t)
  BY <1>1 DEF Chars
<1> HIDE DEF m, ops
<1>8. Novel(ops, n, Range(t))
  BY <1>1, <1>3, <1>4, <1>6, EditedUnlike
<1>9. t \in Seq(Nat)
  BY <1>4 DEF Texts
<1> HIDE DEF n, t, p
<1>10. PICK tx : ApplySteps(tx, t, ops, n) /\ r = tx[n]
  BY <1>5, ApplyIsLoop
<1>11. PICK out : CaretSteps(out, p, ops, n) /\ q = out[n]
  BY <1>5, CaretIsLoop
<1>12. out[0] = p /\ \A k \in 1 .. n : out[k] = TransformCursor(out[k - 1], ops[k])
  BY <1>11 DEF CaretSteps
<1> HIDE DEF r, q
<1>13. q \in Nat /\ q < Len(r) /\ r[q + 1] = t[p + 1]
  <2> DEFINE S == Users
  <2>1. /\ t \in Seq(Nat) /\ Unlike(t) /\ n \in Nat /\ \A k \in 1 .. n : ops[k] \in Operations(Nat, S)
        /\ Novel(ops, n, Range(t)) /\ ApplySteps(tx, t, ops, n) /\ p \in Nat /\ p < Len(t)
        /\ t[p + 1] \in Range(tx[n]) /\ out[0] = p /\ \A k \in 1 .. n : out[k] = TransformCursor(out[k - 1], ops[k])
    BY <1>2, <1>4, <1>5, <1>7, <1>8, <1>9, <1>10, <1>12
  <2> HIDE DEF S
  <2>2. out[n] \in Nat /\ out[n] < Len(tx[n]) /\ tx[n][out[n] + 1] = t[p + 1]
    BY ONLY <2>1, CaretAlong
  <2> QED BY <1>10, <1>11, <2>2
<1> QED BY <1>1, <1>2, <1>13 DEF t, p

\* The characters are marked in every state.
LEMMA AlwaysMarked == Spec => [](Stored /\ Marks)
<1>1. Stored /\ Marks /\ [Next]_vars => Stored'
  BY StoredStep
<1>2. Stored /\ Marks /\ [Next]_vars => Marks'
  BY MarksStep
<1> QED BY StoredInit, MarksInit, <1>1, <1>2, PTL DEF Spec

\* However many operations were logged since the revision an edit quotes, what
\* handle_edit makes of the text is what the author meant for the text then
\* seen: an insertion comes in between the characters it was put between, a
\* deletion takes out the characters selected that are left and no others.
THEOREM EditsIntended == Spec => EditsKeepIntent
<1>1. Stored /\ Marks /\ [Next]_vars =>
        [\A c \in Conns : EditTaken(c) =>
           LET m == Head(req[c]) IN Honest(m) => KeepsIntent(m, doc.text, doc'.text)]_vars
  BY IntentStep
<1> QED BY AlwaysMarked, <1>1, PTL DEF Spec, EditsKeepIntent

\* Whatever operations an edit becomes, move_cursors leaves the caret of every
\* other editor before the character it was before, if that is still there.
THEOREM CaretsKept == Spec => CaretsFollow
<1>1. Stored /\ Marks /\ [Next]_vars =>
        [\A c \in Conns : EditTaken(c) =>
           \A u \in DOMAIN session \ {UserOf[c]} :
             LET p == session[u].cursor
                 q == session'[u].cursor
             IN  p < Len(doc.text) =>
                   LET x == doc.text[p + 1]
                   IN  x \in Chars(doc'.text) => q < Len(doc'.text) /\ doc'.text[q + 1] = x]_vars
  BY CaretStep
<1> QED BY AlwaysMarked, <1>1, PTL DEF Spec, CaretsFollow

=============================================================================
