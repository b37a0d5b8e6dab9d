-------------------------- MODULE ChatServerProofs --------------------------
(***************************************************************************)
(* The chat server, for every set of connections and users.                *)
(*                                                                         *)
(* Presence: a user is shown online exactly as long as the devices that    *)
(* vouch for it are there, however many come, go, fall silent or lose the  *)
(* server.  Receipts: a device hears of each once, and in order.  Delivery:*)
(* a device that synced gets what is pending for its user.  The store: the *)
(* server implements ChatStore.                                            *)
(*                                                                         *)
(* The theorems are of six invariants: Presence; Mail, what is stored and  *)
(* on its way; Told, the receipts on their way are in order and the rows   *)
(* say so; Lines, how a connection, its handler and its subscriber stand   *)
(* to each other; Delivery, what is owed to a device is under way;         *)
(* Numbering, a chat's messages are numbered without gaps.                 *)
(***************************************************************************)
EXTENDS ChatProperties, TLAPS, SequenceTheorems, FiniteSetTheorems

-----------------------------------------------------------------------------
(* Presence.                                                               *)

Phases == {"new", "subscribing", "serving", "done"}

\* The registry is what the handlers' phases say, which is what makes asking it
\* for a user's last device right.
Registry ==
  /\ phase \in [Conns -> Phases]
  /\ connections = [u \in Users |-> {c \in Conns : UserOf[c] = u /\ Active(c)}]

\* What has happened is counted in numbers.
Counted == used \in [sends : Nat, receipts : Nat, closes : Nat, crashes : Nat, total : Nat]

Shape ==
  /\ link = [c \in Conns |-> link[c]]
  /\ online \subseteq Users

Presence == Registry /\ Shape /\ Counted /\ PresenceFollowsDevices

-----------------------------------------------------------------------------
\* Before the first connection nobody is online.
LEMMA PresenceInit == Init => Presence
<1> SUFFICES ASSUME Init PROVE Presence
  OBVIOUS
<1>1. phase = [c \in Conns |-> "new"] /\ \A c \in Conns : ~Active(c)
  BY DEF Init, Active
<1>2. Registry
  <2>1. \A u \in Users : {c \in Conns : UserOf[c] = u /\ Active(c)} = {}
    BY <1>1
  <2>2. connections = [u \in Users |-> {}]
    BY DEF Init
  <2> QED BY <1>1, <2>1, <2>2 DEF Registry, Phases
<1>3. Shape
  BY DEF Init, Shape
<1>4. Counted
  BY DEF Init, Counted
<1>5. PresenceFollowsDevices
  <2>1. Beating \subseteq Conns
    BY ChatAssumption
  <2> QED BY <1>1, <2>1 DEF Init, PresenceFollowsDevices
<1> QED BY <1>2, <1>3, <1>4, <1>5 DEF Presence

\* Nothing else matters to presence.
LEMMA PresenceUnchanged ==
  Presence /\ UNCHANGED <<phase, link, connections, online>> /\ Counted'
    /\ used'.crashes >= used.crashes => Presence'
BY DEF Presence, Registry, Shape, Counted, PresenceFollowsDevices, Active

\* Counting an input never lowers the count of crashes, and a crash raises it.
LEMMA SpendCounts ==
  ASSUME Counted, NEW what \in {"sends", "receipts", "closes", "crashes"}, NEW bound,
         Spend(what, bound)
  PROVE  Counted' /\ used'.crashes >= used.crashes
         /\ (what = "crashes" => used'.crashes > 0)
<1>1. /\ used = [sends |-> used.sends, receipts |-> used.receipts, closes |-> used.closes,
                  crashes |-> used.crashes, total |-> used.total]
      /\ used.sends \in Nat /\ used.receipts \in Nat /\ used.closes \in Nat
      /\ used.crashes \in Nat /\ used.total \in Nat
  BY DEF Counted
<1>2. used' = [used EXCEPT ![what] = @ + 1, !.total = @ + 1]
  BY DEF Spend
<1>3. CASE what = "crashes"
  <2>1. used' = [used EXCEPT !.crashes = @ + 1, !.total = @ + 1]
    BY <1>2, <1>3
  <2>2. used' = [sends |-> used.sends, receipts |-> used.receipts, closes |-> used.closes,
                 crashes |-> used.crashes + 1, total |-> used.total + 1]
    BY <1>1, <2>1
  <2> QED BY <1>1, <2>2 DEF Counted
<1>4. CASE what = "sends"
  <2>1. used' = [used EXCEPT !.sends = @ + 1, !.total = @ + 1]
    BY <1>2, <1>4
  <2>2. used' = [sends |-> used.sends + 1, receipts |-> used.receipts, closes |-> used.closes,
                 crashes |-> used.crashes, total |-> used.total + 1]
    BY <1>1, <2>1
  <2> QED BY <1>1, <1>4, <2>2 DEF Counted
<1>5. CASE what = "receipts"
  <2>1. used' = [used EXCEPT !.receipts = @ + 1, !.total = @ + 1]
    BY <1>2, <1>5
  <2>2. used' = [sends |-> used.sends, receipts |-> used.receipts + 1, closes |-> used.closes,
                 crashes |-> used.crashes, total |-> used.total + 1]
    BY <1>1, <2>1
  <2> QED BY <1>1, <1>5, <2>2 DEF Counted
<1>6. CASE what = "closes"
  <2>1. used' = [used EXCEPT !.closes = @ + 1, !.total = @ + 1]
    BY <1>2, <1>6
  <2>2. used' = [sends |-> used.sends, receipts |-> used.receipts, closes |-> used.closes + 1,
                 crashes |-> used.crashes, total |-> used.total + 1]
    BY <1>1, <2>1
  <2> QED BY <1>1, <1>6, <2>2 DEF Counted
<1> QED BY <1>3, <1>4, <1>5, <1>6

\* Each action keeps presence in order; most leave it alone.
LEMMA PresenceStep == Presence /\ [Next]_vars => Presence'
<1> SUFFICES ASSUME Presence, [Next]_vars PROVE Presence'
  OBVIOUS
<1>0. Counted /\ used.crashes \in Nat /\ Beating \subseteq Conns
      /\ UserOf \in [Conns -> Users]
  BY ChatAssumption DEF Presence, Counted
<1>1. ASSUME UNCHANGED <<phase, link, connections, online, used>> PROVE Presence'
  <2>1. Counted' /\ used'.crashes >= used.crashes
    BY <1>0, <1>1 DEF Counted
  <2> QED BY <1>1, <2>1, PresenceUnchanged
<1>2. ASSUME NEW c \in Conns, Connect(c) PROVE Presence'
  <2>1. /\ phase' = [phase EXCEPT ![c] = "subscribing"]
        /\ link' = [link EXCEPT ![c] = "open"]
        /\ connections' = [connections EXCEPT ![UserOf[c]] = @ \cup {c}]
        /\ online' = online \cup {UserOf[c]} /\ used' = used
    BY <1>2 DEF Connect
  <2>2. \A d \in Conns : Active(d)' <=> (d = c \/ Active(d))
    BY <2>1 DEF Presence, Registry, Active
  <2>3. Registry'
    BY <1>0, <2>1, <2>2 DEF Presence, Registry, Phases
  <2>4. Shape' /\ Counted'
    BY <1>0, <2>1 DEF Presence, Shape, Counted
  <2>5. PresenceFollowsDevices'
    <3>1. \A u \in Users : connections[u] # {} => connections'[u] # {}
      BY <1>0, <2>1 DEF Presence, Registry
    <3>2. connections'[UserOf[c]] # {}
      BY <1>0, <2>1 DEF Presence, Registry
    <3>3. \A d \in Conns : d # c => link'[d] = link[d]
      BY <2>1 DEF Presence, Shape
    <3> QED BY <1>0, <2>1, <2>2, <3>1, <3>2, <3>3 DEF Presence, PresenceFollowsDevices
  <2> QED BY <2>3, <2>4, <2>5 DEF Presence
<1>3. ASSUME NEW c \in Conns, Greet(c) PROVE Presence'
  <2>1. /\ phase[c] = "subscribing" /\ phase' = [phase EXCEPT ![c] = "serving"]
        /\ UNCHANGED <<link, connections, online, used>>
    BY <1>3 DEF Greet
  <2>2. \A d \in Conns : Active(d)' <=> Active(d)
    BY <2>1 DEF Presence, Registry, Active
  <2>3. Registry'
    BY <2>1, <2>2 DEF Presence, Registry, Phases
  <2>4. Shape' /\ Counted'
    BY <1>0, <2>1 DEF Presence, Shape, Counted
  <2>5. PresenceFollowsDevices'
    BY <1>0, <2>1, <2>2 DEF Presence, PresenceFollowsDevices
  <2> QED BY <2>3, <2>4, <2>5 DEF Presence
<1>4. ASSUME NEW c \in Conns, ClientCloses(c) PROVE Presence'
  <2>1. /\ link' = [link EXCEPT ![c] = "gone"] /\ Spend("closes", MaxCloses)
        /\ UNCHANGED <<phase, connections, online>>
    BY <1>4 DEF ClientCloses
  <2>2. Counted' /\ used'.crashes >= used.crashes
    BY <1>0, <2>1, SpendCounts
  <2>3. Registry'
    BY <2>1 DEF Presence, Registry, Active
  <2>4. Shape' /\ \A d \in Conns : link'[d] = "open" => link[d] = "open"
    BY <2>1 DEF Presence, Shape
  <2>5. used'.crashes \in Nat
    BY <2>2 DEF Counted
  <2>6. PresenceFollowsDevices'
    BY <1>0, <2>1, <2>2, <2>4, <2>5 DEF Presence, PresenceFollowsDevices, Active
  <2> QED BY <2>2, <2>3, <2>4, <2>6 DEF Presence
<1>5. ASSUME NEW c \in Conns, HandleEnd(c) PROVE Presence'
  <2>1. /\ phase' = [phase EXCEPT ![c] = "done"]
        /\ connections' = [connections EXCEPT ![UserOf[c]] = Left(c)]
        /\ online' = online \ OfflineIf(Left(c), UserOf[c])
        /\ UNCHANGED <<link, used>>
    BY <1>5 DEF HandleEnd
  <2>2. \A d \in Conns : Active(d)' <=> (d # c /\ Active(d))
    BY <2>1 DEF Presence, Registry, Active
  <2>3. Registry'
    BY <1>0, <2>1, <2>2 DEF Presence, Registry, Phases, Left
  <2>4. Shape' /\ Counted'
    BY <1>0, <2>1 DEF Presence, Shape, Counted
  <2>5. PresenceFollowsDevices'
    <3>1. \A d \in Conns : Active(d)' /\ UserOf[d] = UserOf[c] => d \in Left(c)
      BY <1>0, <2>2 DEF Presence, Registry, Left
    <3>2. \A u \in Users : u # UserOf[c] => connections'[u] = connections[u]
      BY <2>1 DEF Presence, Registry
    <3>3. connections'[UserOf[c]] = Left(c)
      BY <1>0, <2>1 DEF Presence, Registry
    <3>4. CASE Left(c) = {}
      <4>1. online' = online \ {UserOf[c]}
        BY <2>1, <3>4 DEF OfflineIf
      <4> QED BY <1>0, <2>1, <2>2, <3>1, <3>2, <3>4, <4>1 DEF Presence, PresenceFollowsDevices
    <3>5. CASE Left(c) # {}
      <4>1. online' = online
        BY <2>1, <3>5 DEF OfflineIf
      <4> QED BY <1>0, <2>1, <2>2, <3>2, <3>3, <3>5, <4>1 DEF Presence, PresenceFollowsDevices
    <3> QED BY <3>4, <3>5
  <2> QED BY <2>3, <2>4, <2>5 DEF Presence
<1>6. ASSUME NEW c \in Conns, HandleHeartbeat(c) PROVE Presence'
  <2>1. /\ Active(c) /\ online' = online \cup {UserOf[c]}
        /\ UNCHANGED <<phase, link, connections, used>>
    BY <1>6 DEF HandleHeartbeat, Asks, Active
  <2>2. Registry'
    BY <2>1 DEF Presence, Registry, Active
  <2>3. Shape' /\ Counted'
    BY <1>0, <2>1 DEF Presence, Shape, Counted
  <2>4. connections[UserOf[c]] # {}
    BY <1>0, <2>1 DEF Presence, Registry
  <2>5. PresenceFollowsDevices'
    BY <1>0, <2>1, <2>4 DEF Presence, PresenceFollowsDevices, Active
  <2> QED BY <2>2, <2>3, <2>5 DEF Presence
<1>7. ASSUME NEW u \in Users, LeaseExpires(u) PROVE Presence'
  <2>1. /\ online' = online \ {u} /\ UNCHANGED <<phase, link, connections, used>>
        /\ ~ \E c \in connections[u] \cap Beating : link[c] = "open"
    BY <1>7 DEF LeaseExpires
  <2>2. Registry'
    BY <2>1 DEF Presence, Registry, Active
  <2>3. Shape' /\ Counted'
    BY <1>0, <2>1 DEF Presence, Shape, Counted
  <2>4. ~ \E c \in Beating : UserOf[c] = u /\ link[c] = "open" /\ Active(c)
    BY <1>0, <2>1 DEF Presence, Registry
  <2>5. PresenceFollowsDevices'
    BY <1>0, <2>1, <2>4 DEF Presence, PresenceFollowsDevices, Active
  <2> QED BY <2>2, <2>3, <2>5 DEF Presence
<1>8. ASSUME Crash PROVE Presence'
  <2>1. /\ Spend("crashes", MaxCrashes) /\ UNCHANGED online
        /\ phase' = [c \in Conns |-> IF phase[c] = "new" THEN "new" ELSE "done"]
        /\ link' = [c \in Conns |-> IF phase[c] = "new" THEN link[c] ELSE "gone"]
        /\ connections' = [u \in Users |-> {}]
    BY <1>8 DEF Crash
  <2>2. Counted' /\ used'.crashes > 0
    BY <1>0, <2>1, SpendCounts
  <2>3. \A c \in Conns : ~Active(c)'
    BY <2>1 DEF Active
  <2>4. Registry'
    BY <2>1, <2>3 DEF Registry, Phases
  <2>5. Shape'
    BY <2>1 DEF Presence, Shape
  <2>6. PresenceFollowsDevices'
    BY <1>0, <2>2, <2>3 DEF PresenceFollowsDevices
  <2> QED BY <2>2, <2>4, <2>5, <2>6 DEF Presence
<1>9. ASSUME NEW c \in Conns, HandleSendMessage(c) PROVE Presence'
  <2>1. Spend("sends", MaxSends) /\ UNCHANGED <<phase, link, connections, online>>
    BY <1>9 DEF HandleSendMessage
  <2> QED BY <1>0, <2>1, SpendCounts, PresenceUnchanged
<1>10. ASSUME NEW c \in Conns, HandleAck(c) \/ HandleRead(c) PROVE Presence'
  <2>1. UNCHANGED <<phase, link, connections, online>>
        /\ (Spend("receipts", MaxReceipts) \/ used' = used)
    BY <1>10 DEF HandleAck, HandleRead, UpdateInbox
  <2>2. CASE Spend("receipts", MaxReceipts)
    BY <1>0, <2>1, <2>2, SpendCounts, PresenceUnchanged
  <2>3. CASE used' = used
    BY <1>1, <2>1, <2>3
  <2> QED BY <2>1, <2>2, <2>3
<1>11. ASSUME NEW c \in Conns,
              RedisSubscribes(c) \/ SendReply(c) \/ PublishMessage(c) \/ Forward(c)
                \/ HandleSync(c) \/ HandleCreateChat(c)
       PROVE  Presence'
  <2>1. UNCHANGED <<phase, link, connections, online, used>>
    BY <1>11 DEF RedisSubscribes, SendReply, PublishMessage, Forward, HandleSync, HandleCreateChat
  <2> QED BY <1>1, <2>1
<1>12. ASSUME Restart PROVE Presence'
  BY <1>1, <1>12 DEF Restart
<1>13. ASSUME UNCHANGED vars PROVE Presence'
  BY <1>1, <1>13 DEF vars
<1> QED
  BY <1>2, <1>3, <1>4, <1>5, <1>6, <1>7, <1>8, <1>9, <1>10, <1>11, <1>12, <1>13
  DEF Next, Handle, Runs

\* A user with a device that beats in time is online, one who is online has a
\* device connected or had when the server died: set_online, set_offline and the
\* lease agree with the registry in every interleaving.
THEOREM PresenceIsTrue == Spec => []PresenceFollowsDevices
<1>1. Presence => PresenceFollowsDevices
  BY DEF Presence
<1> QED BY PresenceInit, PresenceStep, <1>1, PTL DEF Spec

-----------------------------------------------------------------------------
(* What is stored and what is on its way.                                  *)

ChatType == [members : SUBSET Users, last : Nat \cup {NoCounter}]
MessageType == [chat : Nat, sender : Users, seq : Nat, content : Nat]
RowType == [status : {"pending", "delivered", "read"}, delivered : BOOLEAN]

\* Recipients, in the database d.
For(d, id) == d.chats[d.messages[id].chat].members \ {d.messages[id].sender}

\* The messages for c's user.
Mine(d, c) == {id \in 1..Len(d.messages) : UserOf[c] \in For(d, id)}

\* Every message has a chat, and an inbox row for each of its recipients.
Stored(d) ==
  /\ d = [chats |-> d.chats, messages |-> d.messages, inbox |-> d.inbox]
  /\ d.chats \in Seq(ChatType) /\ d.messages \in Seq(MessageType)
  /\ \A id \in 1..Len(d.messages) : d.messages[id].chat \in 1..Len(d.chats)
  /\ DOMAIN d.inbox = {r \in Users \X (1..Len(d.messages)) : r[1] \in For(d, r[2])}
  /\ \A r \in DOMAIN d.inbox : d.inbox[r] \in RowType

\* What there is stays there.
Grows(d, e) ==
  /\ Len(d.chats) <= Len(e.chats)
  /\ \A k \in 1..Len(d.chats) : e.chats[k].members = d.chats[k].members
  /\ Len(d.messages) <= Len(e.messages)
  /\ \A id \in 1..Len(d.messages) : e.messages[id] = d.messages[id]

Kinds == {"delivery_receipt", "read_receipt"}
Marks(d) == {Receipt(kind, id, u) : kind \in Kinds, id \in 1..Len(d.messages), u \in Users}
Pushes(d, c) == {New(id) : id \in Mine(d, c)} \cup Marks(d)
Script(d, c) ==
  {Reply(New(id)) : id \in Mine(d, c)} \cup {Reply(Ack(k, x)) : k \in Nat, x \in Nat}
    \cup {Reply(SyncComplete)} \cup {Publish(id) : id \in 1..Len(d.messages)}
DeviceType(d, c) == [seen : SUBSET Mine(d, c), marks : Seq(Marks(d)), synced : BOOLEAN]

TodoOK(d) == todo = [c \in Conns |-> todo[c]] /\ \A c \in Conns : todo[c] \in Seq(Script(d, c))
ChannelOK(d) == channel = [c \in Conns |-> channel[c]] /\ \A c \in Conns : channel[c] \in Seq(Pushes(d, c))
ClientOK(d) == client = [c \in Conns |-> client[c]] /\ \A c \in Conns : client[c] \in DeviceType(d, c)
UnackedOK(d) ==
  /\ unacked = [u \in Users |-> unacked[u]]
  /\ \A u \in Users : \A w \in unacked[u] :
       w[1] \in 1..Len(d.chats) /\ w[2] \in Nat /\ u \in d.chats[w[1]].members
SkippedOK(d) == skipped \subseteq 1..Len(d.messages)

Mail == Stored(db) /\ TodoOK(db) /\ ChannelOK(db) /\ ClientOK(db) /\ UnackedOK(db) /\ SkippedOK(db)

-----------------------------------------------------------------------------
\* The kinds of messages and of instructions are different.
LEMMA MessagesAre ==
  /\ \A id : New(id).type = "new_message" /\ New(id).id = id
  /\ \A k, x : Ack(k, x).type = "ack" /\ Ack(k, x).what = <<k, x>>
  /\ \A kind, id, u : /\ Receipt(kind, id, u).type = kind
                      /\ Receipt(kind, id, u).id = id /\ Receipt(kind, id, u).user = u
  /\ SyncComplete.type = "sync_complete"
  /\ \A m : Reply(m).do = "reply" /\ Reply(m).msg = m
  /\ \A id : Publish(id).do = "publish" /\ Publish(id).id = id
BY DEF New, Ack, Receipt, SyncComplete, Reply, Publish

LEMMA GrowsSame == \A d : Stored(d) => Grows(d, d)
BY DEF Grows, Stored

\* Everything that is said of the messages stays true of more of them.
LEMMA GrowsKeeps ==
  ASSUME NEW d, NEW e, Stored(d), Stored(e), Grows(d, e), NEW c \in Conns
  PROVE  /\ Mine(d, c) \subseteq Mine(e, c) /\ Marks(d) \subseteq Marks(e)
         /\ Pushes(d, c) \subseteq Pushes(e, c) /\ Script(d, c) \subseteq Script(e, c)
         /\ DeviceType(d, c) \subseteq DeviceType(e, c)
<1>0. Len(d.messages) \in Nat /\ Len(d.chats) \in Nat /\ Len(e.messages) \in Nat
      /\ \A id \in 1..Len(d.messages) : d.messages[id].chat \in 1..Len(d.chats)
  BY DEF Stored
<1>1. ASSUME NEW id \in 1..Len(d.messages)
      PROVE  id \in 1..Len(e.messages) /\ For(e, id) = For(d, id)
  <2>1. id \in 1..Len(e.messages) /\ e.messages[id] = d.messages[id]
    BY <1>0 DEF Grows
  <2>2. e.chats[d.messages[id].chat].members = d.chats[d.messages[id].chat].members
    BY <1>0 DEF Grows
  <2> QED BY <2>1, <2>2 DEF For
<1>2. Mine(d, c) \subseteq Mine(e, c)
  BY <1>1 DEF Mine
<1>3. Marks(d) \subseteq Marks(e)
  BY <1>1 DEF Marks
<1>4. Pushes(d, c) \subseteq Pushes(e, c)
  BY <1>2, <1>3 DEF Pushes
<1>5. Script(d, c) \subseteq Script(e, c)
  <2>1. {Publish(id) : id \in 1..Len(d.messages)} \subseteq {Publish(id) : id \in 1..Len(e.messages)}
    BY <1>1
  <2> QED BY <1>2, <2>1 DEF Script
<1>6. DeviceType(d, c) \subseteq DeviceType(e, c)
  <2>1. SUBSET Mine(d, c) \subseteq SUBSET Mine(e, c) /\ Seq(Marks(d)) \subseteq Seq(Marks(e))
    BY <1>2, <1>3
  <2> QED BY <2>1 DEF DeviceType
<1> QED BY <1>2, <1>3, <1>4, <1>5, <1>6

LEMMA MailGrows ==
  ASSUME Mail, NEW e, Grows(db, e), Stored(e)
  PROVE  TodoOK(e) /\ ChannelOK(e) /\ ClientOK(e) /\ UnackedOK(e) /\ SkippedOK(e)
<1>1. \A c \in Conns : /\ Seq(Pushes(db, c)) \subseteq Seq(Pushes(e, c))
                       /\ Seq(Script(db, c)) \subseteq Seq(Script(e, c))
                       /\ DeviceType(db, c) \subseteq DeviceType(e, c)
  BY GrowsKeeps DEF Mail
<1>2. TodoOK(e) /\ ChannelOK(e) /\ ClientOK(e)
  BY <1>1 DEF Mail, TodoOK, ChannelOK, ClientOK
<1>3. Len(db.messages) \in Nat /\ Len(db.chats) \in Nat /\ Len(e.messages) \in Nat /\ Len(e.chats) \in Nat
  BY DEF Mail, Stored
<1>4. UnackedOK(e) /\ SkippedOK(e)
  BY <1>3 DEF Mail, UnackedOK, SkippedOK, Grows
<1> QED BY <1>2, <1>4
-----------------------------------------------------------------------------
(* What the transactions do.                                               *)

\* store_message adds a message of the next number, with pending rows.
LEMMA StoreIs ==
  ASSUME NEW d, Stored(d), NEW k \in 1..Len(d.chats), NEW user \in d.chats[k].members, NEW x \in Nat,
         NEW e, e = StoreMessage(d, k, user, x)
  PROVE  /\ Stored(e) /\ Grows(d, e) /\ user \in Users
         /\ Len(e.chats) = Len(d.chats) /\ Len(e.messages) = Len(d.messages) + 1
         /\ e.messages[Len(d.messages) + 1].chat = k
         /\ For(e, Len(d.messages) + 1) = d.chats[k].members \ {user}
         /\ \A r \in DOMAIN d.inbox : r \in DOMAIN e.inbox /\ e.inbox[r] = d.inbox[r]
         /\ \A r \in DOMAIN e.inbox : r[2] = Len(d.messages) + 1 \/ r \in DOMAIN d.inbox
<1> DEFINE n == IF d.chats[k].last = NoCounter THEN 1 ELSE d.chats[k].last + 1
           id == Len(d.messages) + 1
           m == [chat |-> k, sender |-> user, seq |-> n, content |-> x]
           rows == {<<u, id>> : u \in d.chats[k].members \ {user}}
           chats == [d.chats EXCEPT ![k].last = n]
           messages == Append(d.messages, m)
           inbox == [r \in DOMAIN d.inbox \cup rows |->
                       IF r \in rows THEN [status |-> "pending", delivered |-> FALSE] ELSE d.inbox[r]]
<1>1. e.chats = chats /\ e.messages = messages /\ e.inbox = inbox
      /\ e = [chats |-> chats, messages |-> messages, inbox |-> inbox]
  BY DEF StoreMessage
<1>2. /\ d.chats \in Seq(ChatType) /\ d.messages \in Seq(MessageType)
      /\ \A i \in 1..Len(d.messages) : d.messages[i].chat \in 1..Len(d.chats)
      /\ DOMAIN d.inbox = {r \in Users \X (1..Len(d.messages)) : r[1] \in For(d, r[2])}
      /\ \A r \in DOMAIN d.inbox : d.inbox[r] \in RowType
      /\ Len(d.messages) \in Nat /\ Len(d.chats) \in Nat
  BY DEF Stored
<1>3. d.chats[k] \in ChatType /\ n \in Nat /\ user \in Users
  <2>1. d.chats[k] \in ChatType
    BY <1>2, ElementOfSeq
  <2>2. d.chats[k].last \in Nat \cup {NoCounter} /\ d.chats[k].members \subseteq Users
    BY <2>1 DEF ChatType
  <2> QED BY <2>1, <2>2
<1>4. m \in MessageType /\ m.chat = k /\ m.sender = user
  BY <1>2, <1>3 DEF MessageType
<1> HIDE DEF m
<1>5. messages \in Seq(MessageType) /\ Len(messages) = id /\ messages[id] = m
      /\ \A i \in 1..Len(d.messages) : messages[i] = d.messages[i]
  BY <1>2, <1>4, AppendProperties
<1>6. chats \in Seq(ChatType) /\ Len(chats) = Len(d.chats)
      /\ \A i \in 1..Len(d.chats) : chats[i].members = d.chats[i].members
  <2> DEFINE ch == [d.chats[k] EXCEPT !.last = n]
  <2>1. ch \in ChatType /\ ch.members = d.chats[k].members
    BY <1>3 DEF ChatType
  <2>2. chats = [d.chats EXCEPT ![k] = ch]
    OBVIOUS
  <2> HIDE DEF ch, n, chats
  <2>3. chats \in Seq(ChatType) /\ Len(chats) = Len(d.chats)
        /\ \A i \in 1..Len(d.chats) : chats[i] = IF i = k THEN ch ELSE d.chats[i]
    BY <1>2, <2>1, <2>2, ExceptSeq
  <2> QED BY <2>1, <2>3
<1> HIDE DEF messages, chats
<1>7. For(e, id) = d.chats[k].members \ {user}
  BY <1>1, <1>4, <1>5, <1>6 DEF For
<1>8. \A i \in 1..Len(d.messages) : For(e, i) = For(d, i)
  BY <1>1, <1>2, <1>5, <1>6 DEF For
<1>9. \A r \in DOMAIN d.inbox : r \notin rows
  <2> TAKE r \in DOMAIN d.inbox
  <2>1. r[2] \in 1..Len(d.messages)
    BY <1>2
  <2>2. r[2] # id
    BY <1>2, <2>1
  <2> QED BY <2>2
<1>10. DOMAIN e.inbox = {r \in Users \X (1..id) : r[1] \in For(e, r[2])}
  <2>1. DOMAIN e.inbox = DOMAIN d.inbox \cup rows
    BY <1>1
  <2>2. ASSUME NEW r \in Users \X (1..id) PROVE r \in DOMAIN d.inbox \cup rows <=> r[1] \in For(e, r[2])
    <3>1. r = <<r[1], r[2]>> /\ r[1] \in Users /\ r[2] \in 1..id
      OBVIOUS
    <3>2. CASE r[2] = id
      <4>1. r \notin DOMAIN d.inbox
        <5>1. ~ (r[2] \in 1..Len(d.messages))
          BY <1>2, <3>2
        <5> QED BY <1>2, <5>1
      <4>2. r \in rows <=> r[1] \in d.chats[k].members \ {user}
        BY <3>1, <3>2
      <4> QED BY <1>7, <3>2, <4>1, <4>2
    <3>3. CASE r[2] # id
      <4>1. r[2] \in 1..Len(d.messages) /\ r \in Users \X (1..Len(d.messages))
        BY <1>2, <3>1, <3>3
      <4>2. r \notin rows
        BY <3>3
      <4> QED BY <1>2, <1>8, <4>1, <4>2
    <3> QED BY <3>2, <3>3
  <2>3. DOMAIN d.inbox \cup rows \subseteq Users \X (1..id)
    <3>1. DOMAIN d.inbox \subseteq Users \X (1..id)
      <4>1. 1..Len(d.messages) \subseteq 1..id
        BY <1>2
      <4> QED BY <1>2, <4>1
    <3>2. rows \subseteq Users \X (1..id)
      <4>1. d.chats[k].members \subseteq Users /\ id \in 1..id
        BY <1>2, <1>3 DEF ChatType
      <4> QED BY <4>1
    <3> QED BY <3>1, <3>2
  <2> QED BY <2>1, <2>2, <2>3
<1>11. /\ \A r \in DOMAIN d.inbox : r \in DOMAIN e.inbox /\ e.inbox[r] = d.inbox[r]
       /\ \A r \in DOMAIN e.inbox : r \in rows \/ r \in DOMAIN d.inbox
       /\ \A r \in rows : e.inbox[r] = [status |-> "pending", delivered |-> FALSE]
  BY <1>1, <1>9
<1>12. \A r \in DOMAIN e.inbox : e.inbox[r] \in RowType
  <2>1. [status |-> "pending", delivered |-> FALSE] \in RowType
    BY DEF RowType
  <2> HIDE DEF rows, inbox
  <2> QED BY <1>2, <1>11, <2>1
<1>13. ASSUME NEW i \in 1..Len(e.messages) PROVE e.messages[i].chat \in 1..Len(e.chats)
  <2>1. i = id \/ i \in 1..Len(d.messages)
    BY <1>1, <1>2, <1>5
  <2>2. CASE i = id
    BY <1>1, <1>4, <1>5, <1>6, <2>2
  <2>3. CASE i \in 1..Len(d.messages)
    BY <1>1, <1>2, <1>5, <1>6, <2>3
  <2> QED BY <2>1, <2>2, <2>3
<1>14. Stored(e)
  BY <1>1, <1>5, <1>6, <1>10, <1>12, <1>13 DEF Stored
<1>15. Grows(d, e)
  BY <1>1, <1>2, <1>5, <1>6 DEF Grows
<1>16. \A r \in rows : r[2] = id
  OBVIOUS
<1> HIDE DEF rows, inbox
<1> QED BY <1>1, <1>3, <1>4, <1>5, <1>6, <1>7, <1>11, <1>14, <1>15, <1>16

\* An UPDATE of one row changes that row.
LEMMA UpdateIs ==
  ASSUME NEW d, Stored(d), NEW key \in DOMAIN d.inbox, NEW row \in RowType,
         NEW e, e = [d EXCEPT !.inbox[key] = row]
  PROVE  /\ Stored(e) /\ Grows(d, e) /\ e.messages = d.messages /\ e.chats = d.chats
         /\ DOMAIN e.inbox = DOMAIN d.inbox /\ e.inbox[key] = row
         /\ \A r \in DOMAIN d.inbox : r # key => e.inbox[r] = d.inbox[r]
<1>1. d = [chats |-> d.chats, messages |-> d.messages, inbox |-> d.inbox]
  BY DEF Stored
<1>2. /\ e = [chats |-> d.chats, messages |-> d.messages, inbox |-> [d.inbox EXCEPT ![key] = row]]
      /\ e.chats = d.chats /\ e.messages = d.messages /\ e.inbox = [d.inbox EXCEPT ![key] = row]
  BY <1>1
<1>3. /\ DOMAIN e.inbox = DOMAIN d.inbox /\ e.inbox[key] = row
      /\ \A r \in DOMAIN d.inbox : r # key => e.inbox[r] = d.inbox[r]
  BY <1>2
<1>4. \A i : For(e, i) = For(d, i)
  BY <1>2 DEF For
<1>5. Stored(e)
  <2>1. \A r \in DOMAIN e.inbox : e.inbox[r] \in RowType
    BY <1>3 DEF Stored
  <2>2. DOMAIN e.inbox = {r \in Users \X (1..Len(e.messages)) : r[1] \in For(e, r[2])}
    BY <1>2, <1>3, <1>4 DEF Stored
  <2>3. e = [chats |-> e.chats, messages |-> e.messages, inbox |-> e.inbox]
    BY <1>2
  <2>4. e.chats \in Seq(ChatType) /\ e.messages \in Seq(MessageType)
        /\ \A id \in 1..Len(e.messages) : e.messages[id].chat \in 1..Len(e.chats)
    BY <1>2 DEF Stored
  <2> QED BY <2>1, <2>2, <2>3, <2>4 DEF Stored
<1>6. Grows(d, e)
  BY <1>2 DEF Grows, Stored
<1> QED BY <1>2, <1>3, <1>5, <1>6

\* A commit of handle_create_chat adds a chat.
LEMMA ChatIs ==
  ASSUME NEW d, Stored(d), NEW chat \in ChatType,
         NEW e, e = [d EXCEPT !.chats = Append(d.chats, chat)]
  PROVE  Stored(e) /\ Grows(d, e) /\ e.messages = d.messages /\ e.inbox = d.inbox
<1>1. d = [chats |-> d.chats, messages |-> d.messages, inbox |-> d.inbox] /\ d.chats \in Seq(ChatType)
  BY DEF Stored
<1>2. /\ e = [chats |-> Append(d.chats, chat), messages |-> d.messages, inbox |-> d.inbox]
      /\ e.chats = Append(d.chats, chat) /\ e.messages = d.messages /\ e.inbox = d.inbox
  BY <1>1
<1>3. /\ e.chats \in Seq(ChatType) /\ Len(e.chats) = Len(d.chats) + 1 /\ Len(d.chats) \in Nat
      /\ \A k \in 1..Len(d.chats) : e.chats[k] = d.chats[k]
  BY <1>1, <1>2, AppendProperties
<1>4. \A id \in 1..Len(d.messages) : d.messages[id].chat \in 1..Len(d.chats) /\ For(e, id) = For(d, id)
  BY <1>2, <1>3 DEF For, Stored
<1>5. Stored(e)
  <2>1. \A id \in 1..Len(e.messages) : e.messages[id].chat \in 1..Len(e.chats)
    BY <1>2, <1>3, <1>4
  <2>2. DOMAIN e.inbox = {r \in Users \X (1..Len(e.messages)) : r[1] \in For(e, r[2])}
    <3>1. \A r \in Users \X (1..Len(d.messages)) : For(e, r[2]) = For(d, r[2])
      BY <1>4
    <3> QED BY <1>2, <3>1 DEF Stored
  <2> QED BY <1>2, <1>3, <2>1, <2>2 DEF Stored
<1>6. Grows(d, e)
  BY <1>2, <1>3 DEF Grows, Stored
<1> QED BY <1>2, <1>5, <1>6
-----------------------------------------------------------------------------
(* Every step keeps it.                                                    *)

\* No message has been sent at the start.
LEMMA MailInit == Init => Mail
<1> SUFFICES ASSUME Init PROVE Mail
  OBVIOUS
<1>1. PICK chats \in Seeds : db = [chats |-> chats, messages |-> << >>, inbox |-> Empty]
  BY DEF Init
<1>2. db.chats = chats /\ db.messages = << >> /\ db.inbox = Empty /\ Len(db.messages) = 0
  BY <1>1
<1>3. db.chats \in Seq(ChatType)
  <2> DEFINE seed == [members : SUBSET Users, last : {0, NoCounter}]
  <2>1. chats \in Seq(seed)
    BY ChatAssumption
  <2>2. seed \subseteq ChatType
    BY DEF ChatType
  <2> HIDE DEF seed
  <2> QED BY <1>2, <2>1, <2>2
<1>4. Stored(db)
  <2>1. DOMAIN db.inbox = {}
    BY <1>2 DEF Empty
  <2>2. << >> \in Seq(MessageType) /\ 1..0 = {}
    OBVIOUS
  <2>3. db = [chats |-> db.chats, messages |-> db.messages, inbox |-> db.inbox]
    BY <1>1
  <2>4. {r \in Users \X (1..Len(db.messages)) : r[1] \in For(db, r[2])} = {}
    BY <1>2, <2>2
  <2> QED BY <1>2, <1>3, <2>1, <2>2, <2>3, <2>4 DEF Stored
<1>5. TodoOK(db) /\ ChannelOK(db)
  BY DEF Init, TodoOK, ChannelOK
<1>6. ClientOK(db)
  BY DEF Init, ClientOK, DeviceType
<1>7. UnackedOK(db) /\ SkippedOK(db)
  BY DEF Init, UnackedOK, SkippedOK
<1> QED BY <1>4, <1>5, <1>6, <1>7 DEF Mail

\* What is new is of the right shape; what is old stays so.
LEMMA MailFollows ==
  ASSUME Mail, NEW e, e = db', Stored(e), Grows(db, e),
         todo' = [c \in Conns |-> todo'[c]],
         \A c \in Conns : todo'[c] \in {todo[c], << >>} \/ todo'[c] \in Seq(Script(e, c)),
         channel' = [c \in Conns |-> channel'[c]],
         \A c \in Conns : channel'[c] \in {channel[c], << >>} \/ channel'[c] \in Seq(Pushes(e, c)),
         client' = [c \in Conns |-> client'[c]],
         \A c \in Conns : client'[c] = client[c] \/ client'[c] \in DeviceType(e, c),
         unacked' = [u \in Users |-> unacked'[u]],
         \A u \in Users : \A w \in unacked'[u] :
           \/ w \in unacked[u]
           \/ w[1] \in 1..Len(e.chats) /\ w[2] \in Nat /\ u \in e.chats[w[1]].members,
         skipped' \subseteq skipped \cup (1..Len(e.messages))
  PROVE  Mail'
<1>1. TodoOK(e) /\ ChannelOK(e) /\ ClientOK(e) /\ UnackedOK(e) /\ SkippedOK(e)
  BY MailGrows
<1>2. Stored(db')
  OBVIOUS
<1>3. TodoOK(db)'
  <2>1. ASSUME NEW c \in Conns PROVE todo'[c] \in Seq(Script(e, c))
    <3>1. todo[c] \in Seq(Script(e, c)) /\ << >> \in Seq(Script(e, c))
      BY <1>1 DEF TodoOK
    <3> QED BY <3>1
  <2> QED BY <2>1 DEF TodoOK, Script, Mine, For
<1>4. ChannelOK(db)'
  <2>1. ASSUME NEW c \in Conns PROVE channel'[c] \in Seq(Pushes(e, c))
    <3>1. channel[c] \in Seq(Pushes(e, c)) /\ << >> \in Seq(Pushes(e, c))
      BY <1>1 DEF ChannelOK
    <3> QED BY <3>1
  <2> QED BY <2>1 DEF ChannelOK, Pushes, Marks, Mine, For
<1>5. ClientOK(db)'
  <2>1. \A c \in Conns : client'[c] \in DeviceType(e, c)
    BY <1>1 DEF ClientOK
  <2>2. ASSUME NEW c \in Conns PROVE DeviceType(db, c)' = DeviceType(e, c)
    BY DEF DeviceType, Marks, Mine, For
  <2> QED BY <2>1, <2>2 DEF ClientOK
<1>6. UnackedOK(db)' /\ SkippedOK(db)'
  BY <1>1 DEF UnackedOK, SkippedOK
<1> QED BY <1>2, <1>3, <1>4, <1>5, <1>6 DEF Mail, Stored, For

\* What is sent to a device.
Heard(d, c) ==
  {New(id) : id \in Mine(d, c)} \cup Marks(d) \cup {Ack(k, x) : k \in Nat, x \in Nat} \cup {SyncComplete}

\* What a device makes of it.
LEMMA ReceivesIs ==
  ASSUME Mail, NEW c \in Conns, NEW m \in Heard(db, c), Receives(c, m)
  PROVE  /\ client' = [x \in Conns |-> client'[x]] /\ \A x \in Conns \ {c} : client'[x] = client[x]
         /\ client'[c] \in DeviceType(db, c)
         /\ unacked' = [u \in Users |-> unacked'[u]] /\ \A u \in Users : unacked'[u] \subseteq unacked[u]
         /\ \A id : m = New(id) => client'[c].seen = client[c].seen \cup {id}
         /\ client[c].seen \subseteq client'[c].seen
         /\ client'[c].synced = (client[c].synced \/ m = SyncComplete)
         /\ client'[c].marks = IF m \in Marks(db) THEN Append(client[c].marks, m) ELSE client[c].marks
<1> DEFINE old == client[c]
           new == CASE m.type = "new_message" -> [old EXCEPT !.seen = old.seen \cup {m.id}]
                    [] m.type = "sync_complete" -> [old EXCEPT !.synced = TRUE]
                    [] m.type = "ack" -> old
                    [] OTHER -> [old EXCEPT !.marks = Append(old.marks, m)]
<1>1. old \in DeviceType(db, c) /\ client = [x \in Conns |-> client[x]] /\ unacked = [u \in Users |-> unacked[u]]
  BY DEF Mail, ClientOK, UnackedOK
<1>2. client' = [client EXCEPT ![c] = new]
  BY DEF Receives
<1>3. client'[c] = new /\ client' = [x \in Conns |-> client'[x]] /\ \A x \in Conns \ {c} : client'[x] = client[x]
  <2> HIDE DEF new
  <2> QED BY <1>1, <1>2
<1>4. unacked' = [u \in Users |-> unacked'[u]] /\ \A u \in Users : unacked'[u] \subseteq unacked[u]
  BY <1>1 DEF Receives
<1>5. CASE m \in {New(id) : id \in Mine(db, c)}
  <2>1. PICK id \in Mine(db, c) : m = New(id)
    BY <1>5
  <2>2. m.type = "new_message" /\ m.id = id /\ m # SyncComplete
    BY <2>1, MessagesAre
  <2>3. m \notin Marks(db)
    BY <2>2, MessagesAre DEF Marks, Kinds
  <2>4. new = [old EXCEPT !.seen = old.seen \cup {id}]
    BY <2>2
  <2> HIDE DEF new, old
  <2>5. new \in DeviceType(db, c) /\ new.seen = old.seen \cup {id} /\ new.synced = old.synced
        /\ new.marks = old.marks
    BY <1>1, <2>4 DEF DeviceType
  <2>6. ASSUME NEW x, m = New(x) PROVE x = id
    BY <2>1, <2>6 DEF New
  <2>7. old.synced \in BOOLEAN
    BY <1>1 DEF DeviceType
  <2> QED BY <1>3, <1>4, <2>2, <2>3, <2>5, <2>6, <2>7 DEF old
<1>6. CASE m \in Marks(db)
  <2>1. m.type \in Kinds
    BY <1>6, MessagesAre DEF Marks
  <2>2. m.type \notin {"new_message", "sync_complete", "ack"} /\ m # SyncComplete /\ \A x : m # New(x)
    BY <2>1, MessagesAre DEF Kinds
  <2>3. new = [old EXCEPT !.marks = Append(old.marks, m)]
    BY <2>2
  <2> HIDE DEF new, old
  <2>4. old.marks \in Seq(Marks(db)) /\ Append(old.marks, m) \in Seq(Marks(db)) /\ old.synced \in BOOLEAN
    BY <1>1, <1>6 DEF DeviceType
  <2>5. new \in DeviceType(db, c) /\ new.seen = old.seen /\ new.synced = old.synced
        /\ new.marks = Append(old.marks, m)
    BY <1>1, <2>3, <2>4 DEF DeviceType
  <2> QED BY <1>3, <1>4, <1>6, <2>2, <2>4, <2>5 DEF old
<1>7. CASE m \in {Ack(k, x) : k \in Nat, x \in Nat}
  <2>1. m.type = "ack"
    BY <1>7, MessagesAre
  <2>2. m # SyncComplete /\ \A x : m # New(x)
    BY <2>1, MessagesAre
  <2>3. m \notin Marks(db)
    BY <2>1, MessagesAre DEF Marks, Kinds
  <2>4. new = old
    BY <2>1
  <2>5. old.synced \in BOOLEAN
    BY <1>1 DEF DeviceType
  <2> HIDE DEF new, old
  <2> QED BY <1>1, <1>3, <1>4, <2>2, <2>3, <2>4, <2>5 DEF old
<1>8. CASE m = SyncComplete
  <2>1. m.type = "sync_complete"
    BY <1>8, MessagesAre
  <2>2. m \notin Marks(db) /\ \A x : m # New(x)
    BY <2>1, MessagesAre DEF Marks, Kinds
  <2>3. new = [old EXCEPT !.synced = TRUE]
    BY <2>1
  <2> HIDE DEF new, old
  <2>4. new \in DeviceType(db, c) /\ new.seen = old.seen /\ new.synced = TRUE /\ new.marks = old.marks
    BY <1>1, <2>3 DEF DeviceType
  <2> QED BY <1>3, <1>4, <1>8, <2>2, <2>4 DEF old
<1> QED BY <1>5, <1>6, <1>7, <1>8 DEF Heard

\* An instruction is to send something, or to publish a message.
LEMMA InstructionsAre ==
  ASSUME NEW c \in Conns, NEW i \in Script(db, c)
  PROVE  /\ i.do = "reply" => i.msg \in Heard(db, c) /\ i = Reply(i.msg) /\ i.msg \notin Marks(db)
         /\ i.do = "publish" => i.id \in 1..Len(db.messages) /\ i = Publish(i.id)
         /\ i.do \in {"reply", "publish"}
<1>1. CASE i \in {Publish(id) : id \in 1..Len(db.messages)}
  BY <1>1 DEF Publish
<1>2. CASE i \notin {Publish(id) : id \in 1..Len(db.messages)}
  <2>1. PICK m \in Heard(db, c) : i = Reply(m) /\ m \notin Marks(db)
    <3>0. \A m \in Marks(db) : m.type \in Kinds
      BY DEF Marks, Receipt
    <3>1. ASSUME NEW id PROVE New(id) \notin Marks(db)
      <4>1. New(id).type = "new_message"
        BY DEF New
      <4> QED BY <3>0, <4>1 DEF Kinds
    <3>2. ASSUME NEW k, NEW x PROVE Ack(k, x) \notin Marks(db)
      <4>1. Ack(k, x).type = "ack"
        BY DEF Ack
      <4> QED BY <3>0, <4>1 DEF Kinds
    <3>3. SyncComplete \notin Marks(db)
      <4>1. SyncComplete.type = "sync_complete"
        BY DEF SyncComplete
      <4> QED BY <3>0, <4>1 DEF Kinds
    <3> QED BY <1>2, <3>1, <3>2, <3>3 DEF Script, Heard
  <2>2. i.do = "reply" /\ i.msg = m
    BY <2>1 DEF Reply
  <2> QED BY <2>1, <2>2
<1> QED BY <1>1, <1>2

\* What is taken from the front leaves the rest.
LEMMA FrontIs ==
  ASSUME NEW S, NEW s \in Seq(S), s # << >>
  PROVE  /\ Head(s) \in S /\ Tail(s) \in Seq(S) /\ Len(s) \in Nat \ {0} /\ Len(Tail(s)) = Len(s) - 1
         /\ Head(s) = s[1] /\ \A i \in 1..Len(Tail(s)) : Tail(s)[i] = s[i + 1] /\ i + 1 \in 1..Len(s)
<1>1. Len(s) \in Nat \ {0}
  BY EmptySeq
<1>2. /\ Head(s) \in S /\ Tail(s) \in Seq(S) /\ Len(Tail(s)) = Len(s) - 1
      /\ \A i \in 1..Len(Tail(s)) : Tail(s)[i] = s[i + 1]
  BY HeadTailProperties
<1> QED BY <1>1, <1>2

\* Nothing happens to what is stored.
LEMMA MailSame ==
  Mail => /\ Stored(db) /\ Grows(db, db) /\ todo = [c \in Conns |-> todo[c]]
          /\ channel = [c \in Conns |-> channel[c]] /\ client = [c \in Conns |-> client[c]]
          /\ unacked = [u \in Users |-> unacked[u]] /\ UserOf \in [Conns -> Users]
          /\ \A c \in Conns : /\ todo[c] \in Seq(Script(db, c)) /\ channel[c] \in Seq(Pushes(db, c))
                              /\ client[c] \in DeviceType(db, c)
BY GrowsSame, ChatAssumption DEF Mail, TodoOK, ChannelOK, ClientOK, UnackedOK

\* What publishing does to the channels.
LEMMA PublishIs ==
  ASSUME Mail, NEW users, NEW m, PublishTo(users, m), NEW e, Grows(db, e), Stored(e),
         \A c \in Conns : UserOf[c] \in users => m \in Pushes(e, c)
  PROVE  /\ channel' = [c \in Conns |-> channel'[c]]
         /\ \A c \in Conns : channel'[c] \in Seq(Pushes(e, c))
         /\ \A c \in Conns : channel'[c] = IF task[c] = "subscribed" /\ UserOf[c] \in users
                                             THEN Append(channel[c], m) ELSE channel[c]
<1>1. /\ channel' = [c \in Conns |-> channel'[c]]
      /\ \A c \in Conns : channel'[c] = IF task[c] = "subscribed" /\ UserOf[c] \in users
                                          THEN Append(channel[c], m) ELSE channel[c]
  BY DEF PublishTo
<1>2. ASSUME NEW c \in Conns PROVE channel'[c] \in Seq(Pushes(e, c))
  <2>1. channel[c] \in Seq(Pushes(e, c))
    BY MailGrows DEF ChannelOK
  <2> QED BY <1>1, <2>1
<1> QED BY <1>1, <1>2

LEMMA MailQuiet ==
  ASSUME Mail, db' = db, client' = client, unacked' = unacked,
         todo' = [c \in Conns |-> todo'[c]],
         \A c \in Conns : todo'[c] \in {todo[c], << >>} \/ todo'[c] \in Seq(Script(db, c)),
         channel' = [c \in Conns |-> channel'[c]],
         \A c \in Conns : channel'[c] \in {channel[c], << >>} \/ channel'[c] \in Seq(Pushes(db, c)),
         skipped' \subseteq skipped \cup (1..Len(db.messages))
  PROVE  Mail'
<1> DEFINE e == db'
<1>1. e = db' /\ e = db /\ Stored(e) /\ Grows(db, e)
  BY MailSame
<1> HIDE DEF e
<1>2. client' = [c \in Conns |-> client'[c]] /\ unacked' = [u \in Users |-> unacked'[u]]
  BY MailSame
<1> QED BY <1>1, <1>2, MailFollows

LEMMA SendStep == ASSUME Mail, NEW c \in Conns, SendReply(c) PROVE Mail'
<1>1. /\ todo[c] # << >> /\ Head(todo[c]).do = "reply" /\ db' = db /\ channel' = channel
  BY DEF SendReply
<1>2. /\ Head(todo[c]) \in Script(db, c) /\ Tail(todo[c]) \in Seq(Script(db, c))
      /\ Head(todo[c]).msg \in Heard(db, c)
  BY <1>1, MailSame, FrontIs, InstructionsAre
<1>3. CASE link[c] = "open"
  <2> DEFINE e == db'  m == Head(todo[c]).msg
  <2>1. /\ todo' = [todo EXCEPT ![c] = Tail(todo[c])] /\ Receives(c, m) /\ skipped' = skipped
    BY <1>3 DEF SendReply, Does
  <2>2. /\ client' = [x \in Conns |-> client'[x]] /\ \A x \in Conns \ {c} : client'[x] = client[x]
        /\ client'[c] \in DeviceType(db, c)
        /\ unacked' = [u \in Users |-> unacked'[u]] /\ \A u \in Users : unacked'[u] \subseteq unacked[u]
    BY <1>2, <2>1, ReceivesIs
  <2>3. e = db' /\ e = db /\ Stored(e) /\ Grows(db, e)
    BY <1>1, MailSame
  <2> HIDE DEF e
  <2>4. todo' = [x \in Conns |-> todo'[x]]
        /\ \A x \in Conns : todo'[x] \in {todo[x], << >>} \/ todo'[x] \in Seq(Script(e, x))
    BY <1>2, <2>1, <2>3, MailSame
  <2>5. channel' = [x \in Conns |-> channel'[x]]
    BY <1>1, MailSame
  <2> QED BY <1>1, <2>1, <2>2, <2>3, <2>4, <2>5, MailFollows
<1>4. CASE link[c] # "open"
  <2>1. /\ todo' = [todo EXCEPT ![c] = << >>] /\ client' = client /\ unacked' = unacked
        /\ skipped' = skipped \cup {i.id : i \in {j \in Range(todo[c]) : j.do = "publish"}}
    BY <1>4 DEF SendReply, Does
  <2>2. \A i \in Range(todo[c]) : i \in Script(db, c)
    BY MailSame, RangeOfSeq
  <2>3. skipped' \subseteq skipped \cup (1..Len(db.messages))
    BY <2>1, <2>2, InstructionsAre
  <2>4. todo' = [x \in Conns |-> todo'[x]] /\ \A x \in Conns : todo'[x] \in {todo[x], << >>}
    BY <2>1, MailSame
  <2>5. channel' = [x \in Conns |-> channel'[x]]
    BY <1>1, MailSame
  <2> QED BY <1>1, <2>1, <2>3, <2>4, <2>5, MailQuiet
<1> QED BY <1>3, <1>4

LEMMA PublishStep == ASSUME Mail, NEW c \in Conns, PublishMessage(c) PROVE Mail'
<1> DEFINE id == Head(todo[c]).id
<1>1. /\ todo[c] # << >> /\ Head(todo[c]).do = "publish" /\ db' = db
      /\ PublishTo(Recipients(id), New(id)) /\ todo' = [todo EXCEPT ![c] = Tail(todo[c])]
      /\ client' = client /\ unacked' = unacked /\ skipped' = skipped
  BY DEF PublishMessage, Does
<1>2. Tail(todo[c]) \in Seq(Script(db, c)) /\ id \in 1..Len(db.messages)
  BY <1>1, MailSame, FrontIs, InstructionsAre
<1>3. \A x \in Conns : UserOf[x] \in Recipients(id) => New(id) \in Pushes(db, x)
  BY <1>2 DEF Pushes, Mine, For, Recipients, Members
<1> HIDE DEF id
<1>4. Grows(db, db) /\ Stored(db)
  BY MailSame
<1>5. channel' = [x \in Conns |-> channel'[x]] /\ \A x \in Conns : channel'[x] \in Seq(Pushes(db, x))
  BY <1>1, <1>3, <1>4, PublishIs
<1>6. todo' = [x \in Conns |-> todo'[x]]
      /\ \A x \in Conns : todo'[x] \in {todo[x], << >>} \/ todo'[x] \in Seq(Script(db, x))
  BY <1>1, <1>2, MailSame
<1> QED BY <1>1, <1>5, <1>6, MailQuiet

LEMMA ForwardStep == ASSUME Mail, NEW c \in Conns, Forward(c) PROVE Mail'
<1>1. channel[c] # << >> /\ db' = db /\ todo' = todo /\ skipped' = skipped
  BY DEF Forward
<1>2. Head(channel[c]) \in Pushes(db, c) /\ Tail(channel[c]) \in Seq(Pushes(db, c))
  BY <1>1, MailSame, FrontIs
<1>3. todo' = [x \in Conns |-> todo'[x]]
  BY <1>1, MailSame
<1>4. CASE link[c] = "open"
  <2> DEFINE e == db'  m == Head(channel[c])
  <2>1. /\ channel' = [channel EXCEPT ![c] = Tail(channel[c])] /\ Receives(c, m)
    BY <1>4 DEF Forward
  <2>2. m \in Heard(db, c)
    BY <1>2 DEF Pushes, Heard
  <2>3. /\ client' = [x \in Conns |-> client'[x]] /\ \A x \in Conns \ {c} : client'[x] = client[x]
        /\ client'[c] \in DeviceType(db, c)
        /\ unacked' = [u \in Users |-> unacked'[u]] /\ \A u \in Users : unacked'[u] \subseteq unacked[u]
    BY <2>1, <2>2, ReceivesIs
  <2>4. e = db' /\ e = db /\ Stored(e) /\ Grows(db, e)
    BY <1>1, MailSame
  <2> HIDE DEF e
  <2>5. channel' = [x \in Conns |-> channel'[x]]
        /\ \A x \in Conns : channel'[x] \in {channel[x], << >>} \/ channel'[x] \in Seq(Pushes(e, x))
    BY <1>2, <2>1, <2>4, MailSame
  <2> QED BY <1>1, <1>3, <2>1, <2>3, <2>4, <2>5, MailFollows
<1>5. CASE link[c] # "open"
  <2>1. /\ channel' = [channel EXCEPT ![c] = << >>] /\ client' = client /\ unacked' = unacked
    BY <1>5 DEF Forward
  <2>2. channel' = [x \in Conns |-> channel'[x]] /\ \A x \in Conns : channel'[x] \in {channel[x], << >>}
    BY <2>1, MailSame
  <2> QED BY <1>1, <1>3, <2>1, <2>2, MailQuiet
<1> QED BY <1>4, <1>5

\* A sync sends every pending message, then says that it is complete.
LEMMA SyncIs ==
  ASSUME Mail, NEW c \in Conns, HandleSync(c)
  PROVE  /\ todo[c] = << >> /\ UNCHANGED <<channel, db, client, unacked, skipped>>
         /\ todo' = [x \in Conns |-> todo'[x]] /\ \A x \in Conns \ {c} : todo'[x] = todo[x]
         /\ todo'[c] \in Seq(Script(db, c))
         /\ \A id \in Mine(db, c) : db.inbox[UserOf[c], id].status = "pending" =>
              \E i \in 1..Len(todo'[c]) : todo'[c][i] = Reply(New(id))
<1> DEFINE ids == {id \in DOMAIN db.messages :
                     /\ <<UserOf[c], id>> \in DOMAIN db.inbox
                     /\ db.inbox[UserOf[c], id].status = "pending"}
<1>1. /\ todo[c] = << >> /\ UNCHANGED <<channel, db, client, unacked, skipped>>
      /\ \E rows \in PendingFor(UserOf[c]) :
           Does(c, [i \in DOMAIN rows |-> Reply(New(rows[i]))] \o << Reply(SyncComplete) >>)
  BY DEF HandleSync, Asks
<1>3. DOMAIN db.messages = 1..Len(db.messages) /\ Len(db.messages) \in Nat
      /\ DOMAIN db.inbox = {r \in Users \X (1..Len(db.messages)) : r[1] \in For(db, r[2])}
      /\ UserOf[c] \in Users
  <2>1. Stored(db) /\ UserOf[c] \in Users
    BY MailSame
  <2>2. DOMAIN db.inbox = {r \in Users \X (1..Len(db.messages)) : r[1] \in For(db, r[2])}
    BY <2>1 DEF Stored
  <2>3. db.messages \in Seq(MessageType)
    BY <2>1 DEF Stored
  <2>4. DOMAIN db.messages = 1..Len(db.messages) /\ Len(db.messages) \in Nat
    BY <2>3
  <2> QED BY <2>1, <2>2, <2>4
<1>4. ids \subseteq Mine(db, c)
      /\ \A id \in Mine(db, c) : db.inbox[UserOf[c], id].status = "pending" => id \in ids
  BY <1>3 DEF Mine
<1>5. Cardinality(ids) \in Nat
  <2>1. IsFiniteSet(1..Len(db.messages))
    <3>1. Len(db.messages) \in Nat
      BY <1>3
    <3>2. 1 \in Int /\ Len(db.messages) \in Int
      BY <3>1
    <3> QED BY <3>2, FS_Interval
  <2>2. ids \subseteq 1..Len(db.messages)
    BY <1>3
  <2> HIDE DEF ids
  <2> QED BY <2>1, <2>2, FS_Subset, FS_CardinalityType
<1> HIDE DEF ids
<1>2. PICK rows \in Surjection(1..Cardinality(ids), ids) :
        Does(c, [i \in DOMAIN rows |-> Reply(New(rows[i]))] \o << Reply(SyncComplete) >>)
  BY <1>1 DEF PendingFor, ids
<1> DEFINE n == Cardinality(ids)  new == [i \in 1..n |-> Reply(New(rows[i]))]
           last == << Reply(SyncComplete) >>
<1>6. rows \in [1..n -> ids] /\ \A id \in ids : \E i \in 1..n : rows[i] = id
  BY <1>2 DEF Surjection
<1>7. DOMAIN rows = 1..n /\ todo' = [todo EXCEPT ![c] = new \o last]
  <2>1. DOMAIN rows = 1..n
    BY <1>6
  <2> QED BY <1>2, <2>1 DEF Does
<1>8. new \in Seq(Script(db, c)) /\ Len(new) = n /\ last \in Seq(Script(db, c)) /\ Len(last) = 1
  <2>1. ASSUME NEW i \in 1..n PROVE Reply(New(rows[i])) \in Script(db, c)
    <3>1. rows[i] \in Mine(db, c)
      BY <1>4, <1>6
    <3> QED BY <3>1 DEF Script
  <2>2. Reply(SyncComplete) \in Script(db, c)
    BY DEF Script
  <2>3. last \in Seq(Script(db, c)) /\ Len(last) = 1
    BY <2>2
  <2> QED BY <1>5, <2>1, <2>3
<1>9. \A i \in 1..n : new[i] = Reply(New(rows[i]))
  OBVIOUS
<1> HIDE DEF new, last, n
<1>10. new \o last \in Seq(Script(db, c)) /\ Len(new \o last) = n + 1 /\ \A i \in 1..n : (new \o last)[i] = new[i]
  <2>1. /\ new \o last \in Seq(Script(db, c)) /\ Len(new \o last) = Len(new) + Len(last)
        /\ \A i \in 1..Len(new) + Len(last) :
             (new \o last)[i] = IF i <= Len(new) THEN new[i] ELSE last[i - Len(new)]
    BY <1>8, ConcatProperties
  <2> QED BY <1>5, <1>8, <2>1 DEF n
<1>11. todo'[c] = new \o last /\ todo' = [x \in Conns |-> todo'[x]] /\ \A x \in Conns \ {c} : todo'[x] = todo[x]
  BY <1>7, MailSame
<1>12. ASSUME NEW id \in Mine(db, c), db.inbox[UserOf[c], id].status = "pending"
       PROVE  \E i \in 1..Len(todo'[c]) : todo'[c][i] = Reply(New(id))
  <2>1. PICK i \in 1..n : rows[i] = id
    BY <1>4, <1>6, <1>12
  <2>2. i \in 1..Len(todo'[c])
    BY <1>5, <1>10, <1>11 DEF n
  <2> QED BY <1>9, <1>10, <1>11, <2>1, <2>2
<1> QED BY <1>1, <1>10, <1>11, <1>12

\* What a request to send does.
LEMMA SendIs ==
  ASSUME Mail, NEW c \in Conns, HandleSendMessage(c)
  PROVE  /\ Stored(db') /\ Grows(db, db') /\ Len(db'.chats) = Len(db.chats)
         /\ Len(db'.messages) = Len(db.messages) + 1
         /\ todo' = [todo EXCEPT ![c] = todo'[c]] /\ todo[c] = << >> /\ Len(todo'[c]) = 2
         /\ todo'[c] \in Seq(Script(db', c)) /\ todo'[c][2] = Publish(Len(db.messages) + 1)
         /\ UNCHANGED <<channel, client, skipped>>
         /\ unacked' = [u \in Users |-> unacked'[u]]
         /\ \A u \in Users : \A w \in unacked'[u] :
              \/ w \in unacked[u]
              \/ w[1] \in 1..Len(db'.chats) /\ w[2] \in Nat /\ u \in db'.chats[w[1]].members
         /\ \A r \in DOMAIN db.inbox : r \in DOMAIN db'.inbox /\ db'.inbox[r] = db.inbox[r]
<1> DEFINE user == UserOf[c]  id == Len(db.messages) + 1
<1>1. PICK w \in {<<k, id>> : k \in {k \in DOMAIN db.chats : user \in db.chats[k].members}} \cup unacked[user] :
        /\ db' = StoreMessage(db, w[1], user, w[2])
        /\ unacked' = [unacked EXCEPT ![user] = @ \cup {w}]
        /\ Does(c, << Reply(Ack(w[1], w[2])), Publish(id) >>)
  BY DEF HandleSendMessage
<1>2. todo[c] = << >> /\ UNCHANGED <<channel, client, skipped>>
  BY DEF HandleSendMessage, Asks
<1>3. Len(db.messages) \in Nat /\ DOMAIN db.chats = 1..Len(db.chats) /\ user \in Users /\ id \in Nat
  BY MailSame DEF Stored
<1>4. w[1] \in 1..Len(db.chats) /\ user \in db.chats[w[1]].members /\ w[2] \in Nat
  <2>1. CASE w \in unacked[user]
    BY <1>3, <2>1 DEF Mail, UnackedOK
  <2>2. CASE w \notin unacked[user]
    <3>1. PICK k \in DOMAIN db.chats : w = <<k, id>> /\ user \in db.chats[k].members
      BY <1>1, <2>2
    <3> QED BY <1>3, <3>1
  <2> QED BY <2>1, <2>2
<1> DEFINE e == db'
<1>5. e = db' /\ e = StoreMessage(db, w[1], user, w[2])
  BY <1>1
<1> HIDE DEF e, user
<1>6. /\ Stored(e) /\ Grows(db, e) /\ Len(e.chats) = Len(db.chats) /\ Len(e.messages) = Len(db.messages) + 1
      /\ \A r \in DOMAIN db.inbox : r \in DOMAIN e.inbox /\ e.inbox[r] = db.inbox[r]
  BY <1>4, <1>5, MailSame, StoreIs
<1>7. /\ todo' = [todo EXCEPT ![c] = todo'[c]] /\ todo'[c] = << Reply(Ack(w[1], w[2])), Publish(id) >>
  BY <1>1, MailSame DEF Does
<1>8. /\ todo'[c] \in Seq(Script(e, c)) /\ Len(todo'[c]) = 2 /\ todo'[c][2] = Publish(id)
  <2>1. Reply(Ack(w[1], w[2])) \in Script(e, c)
    <3>1. w[1] \in Nat /\ w[2] \in Nat
      BY <1>4
    <3> QED BY <3>1 DEF Script
  <2>2. Publish(id) \in Script(e, c)
    <3>1. id \in 1..Len(e.messages)
      BY <1>3, <1>6
    <3> QED BY <3>1 DEF Script
  <2> HIDE DEF id
  <2> QED BY <1>7, <2>1, <2>2
<1>9. unacked' = [u \in Users |-> unacked'[u]]
      /\ \A u \in Users : \A v \in unacked'[u] : v \in unacked[u] \/ (u = user /\ v = w)
  BY <1>1, <1>3, MailSame DEF user
<1>10. w[1] \in 1..Len(e.chats) /\ user \in e.chats[w[1]].members
  BY <1>4, <1>6 DEF Grows
<1>11. \A u \in Users : \A v \in unacked'[u] :
         \/ v \in unacked[u]
         \/ v[1] \in 1..Len(e.chats) /\ v[2] \in Nat /\ u \in e.chats[v[1]].members
  BY <1>4, <1>9, <1>10
<1> QED BY <1>2, <1>5, <1>6, <1>7, <1>8, <1>9, <1>11

\* What an acknowledgement or a read does: nothing, or it moves the row and
\* tells the sender.
Moves(c, id, status, kind) ==
  LET key == <<UserOf[c], id>>
  IN  /\ Stored(db') /\ Grows(db, db') /\ db'.messages = db.messages /\ db'.chats = db.chats
      /\ DOMAIN db'.inbox = DOMAIN db.inbox /\ db'.inbox[key].status = status /\ db'.inbox[key].delivered = TRUE
      /\ \A r \in DOMAIN db.inbox : r # key => db'.inbox[r] = db.inbox[r]
      /\ channel' = [x \in Conns |-> channel'[x]]
      /\ \A x \in Conns : channel'[x] \in Seq(Pushes(db', x))
      /\ \A x \in Conns : channel'[x] \in {channel[x], Append(channel[x], Receipt(kind, id, UserOf[c]))}

LEMMA MarkIs ==
  ASSUME Mail, NEW c \in Conns, NEW id \in client[c].seen, NEW matches,
         NEW status \in {"delivered", "read"}, NEW kind \in Kinds,
         UpdateInbox(c, id, matches, status, kind)
  PROVE  /\ <<UserOf[c], id>> \in DOMAIN db.inbox /\ id \in 1..Len(db.messages)
         /\ UNCHANGED <<db, channel>> \/ Moves(c, id, status, kind)
<1> DEFINE key == <<UserOf[c], id>>
<1>0. key = <<UserOf[c], id>>
  OBVIOUS
<1> HIDE DEF key
<1>1. id \in Mine(db, c) /\ UserOf[c] \in Users
  BY MailSame DEF DeviceType
<1>2. key \in DOMAIN db.inbox /\ id \in 1..Len(db.messages)
  <2>1. DOMAIN db.inbox = {r \in Users \X (1..Len(db.messages)) : r[1] \in For(db, r[2])}
    BY MailSame DEF Stored
  <2> QED BY <1>0, <1>1, <2>1 DEF Mine
<1>3. CASE ~ matches
  BY <1>0, <1>2, <1>3 DEF UpdateInbox
<1>4. CASE matches
  <2> DEFINE e == db'  row == [status |-> status, delivered |-> TRUE]  m == Receipt(kind, id, UserOf[c])
             users == {db.messages[id].sender}
  <2>1. e = [db EXCEPT !.inbox[key] = row] /\ PublishTo(users, m)
    BY <1>0, <1>4 DEF UpdateInbox
  <2>2. row \in RowType /\ row.status = status /\ row.delivered = TRUE
    BY DEF RowType
  <2> HIDE DEF e, row, m, users
  <2>3. /\ Stored(e) /\ Grows(db, e) /\ e.messages = db.messages /\ e.chats = db.chats
        /\ DOMAIN e.inbox = DOMAIN db.inbox /\ e.inbox[key] = row
        /\ \A r \in DOMAIN db.inbox : r # key => e.inbox[r] = db.inbox[r]
    <3>1. Stored(db) /\ key \in DOMAIN db.inbox
      BY <1>2, MailSame
    <3>2. row \in RowType /\ e = [db EXCEPT !.inbox[key] = row]
      BY <2>1, <2>2
    <3> QED BY <3>1, <3>2, UpdateIs
  <2>4. \A x \in Conns : m \in Pushes(e, x)
    BY <1>1, <1>2, <2>3 DEF Pushes, Marks, m
  <2>5. /\ channel' = [x \in Conns |-> channel'[x]]
        /\ \A x \in Conns : channel'[x] \in Seq(Pushes(e, x))
        /\ \A x \in Conns : channel'[x] = IF task[x] = "subscribed" /\ UserOf[x] \in users
                                            THEN Append(channel[x], m) ELSE channel[x]
    BY <2>1, <2>3, <2>4, PublishIs
  <2>6. \A x \in Conns : channel'[x] \in {channel[x], Append(channel[x], m)}
    BY <2>5
  <2>7. e.inbox[key].status = status /\ e.inbox[key].delivered = TRUE
    BY <2>2, <2>3
  <2>8. Moves(c, id, status, kind)
    BY <1>0, <2>3, <2>5, <2>6, <2>7 DEF Moves, e, m
  <2> QED BY <1>0, <1>2, <2>8
<1> QED BY <1>3, <1>4

\* An acknowledgement is one of a row that was pending, a read of one that was
\* not read.
LEMMA MarkingIs ==
  ASSUME Mail, NEW c \in Conns, HandleAck(c) \/ HandleRead(c)
  PROVE  /\ UNCHANGED <<todo, client, unacked, skipped>>
         /\ \E id \in client[c].seen :
              \/ UpdateInbox(c, id, AckMatches(db.inbox[UserOf[c], id]), "delivered", "delivery_receipt")
              \/ UpdateInbox(c, id, ReadMatches(db.inbox[UserOf[c], id]), "read", "read_receipt")
BY DEF HandleAck, HandleRead

LEMMA MarkStep == ASSUME Mail, NEW c \in Conns, HandleAck(c) \/ HandleRead(c) PROVE Mail'
<1> DEFINE e == db'
<1>1. UNCHANGED <<todo, client, unacked, skipped>>
  BY MarkingIs
<1>2. PICK id \in client[c].seen :
        \/ UpdateInbox(c, id, AckMatches(db.inbox[UserOf[c], id]), "delivered", "delivery_receipt")
        \/ UpdateInbox(c, id, ReadMatches(db.inbox[UserOf[c], id]), "read", "read_receipt")
  BY MarkingIs
<1>3. /\ todo' = [x \in Conns |-> todo'[x]] /\ client' = [x \in Conns |-> client'[x]]
      /\ unacked' = [u \in Users |-> unacked'[u]]
  BY <1>1, MailSame
<1>4. ASSUME NEW matches, NEW status \in {"delivered", "read"}, NEW kind \in Kinds,
             UpdateInbox(c, id, matches, status, kind)
      PROVE  Mail'
  <2>1. UNCHANGED <<db, channel>> \/ Moves(c, id, status, kind)
    BY <1>4, MarkIs
  <2>2. CASE UNCHANGED <<db, channel>>
    <3>1. channel' = [x \in Conns |-> channel'[x]] /\ channel' = channel /\ db' = db
      BY <2>2, MailSame
    <3> QED BY <1>1, <1>3, <3>1, MailQuiet
  <2>3. CASE ~ UNCHANGED <<db, channel>>
    <3>1. /\ Stored(e) /\ Grows(db, e) /\ channel' = [x \in Conns |-> channel'[x]]
          /\ \A x \in Conns : channel'[x] \in Seq(Pushes(e, x))
      BY <2>1, <2>3 DEF Moves
    <3>2. e = db'
      OBVIOUS
    <3> HIDE DEF e
    <3> QED BY <1>1, <1>3, <3>1, <3>2, MailFollows
  <2> QED BY <2>2, <2>3
<1> DEFINE acks == AckMatches(db.inbox[UserOf[c], id])  reads == ReadMatches(db.inbox[UserOf[c], id])
<1>5. UpdateInbox(c, id, acks, "delivered", "delivery_receipt")
        \/ UpdateInbox(c, id, reads, "read", "read_receipt")
  BY <1>2
<1>6. {"delivery_receipt", "read_receipt"} = Kinds
  BY DEF Kinds
<1> HIDE DEF acks, reads
<1> QED BY <1>4, <1>5, <1>6

\* A commit of a new chat, or the first half of one.
LEMMA ChatStep ==
  ASSUME Mail, NEW chat \in ChatType, NEW e, e = [db EXCEPT !.chats = Append(db.chats, chat)]
  PROVE  Stored(e) /\ Grows(db, e) /\ e.messages = db.messages /\ e.inbox = db.inbox
BY MailSame, ChatIs

LEMMA CreateIs ==
  ASSUME Mail, NEW c \in Conns, HandleCreateChat(c)
  PROVE  /\ Stored(db') /\ Grows(db, db') /\ db'.messages = db.messages /\ db'.inbox = db.inbox
         /\ UNCHANGED <<todo, channel, client, unacked, skipped>>
<1>1. UNCHANGED <<todo, channel, client, unacked, skipped>>
  BY DEF HandleCreateChat
<1>2. PICK chat \in ChatType : db' = [db EXCEPT !.chats = Append(db.chats, chat)]
  <2>1. CASE db' = ChatRow(db)
    <3>1. [members |-> {}, last |-> NoCounter] \in ChatType
      BY DEF ChatType
    <3> QED BY <2>1, <3>1 DEF ChatRow
  <2>2. CASE \E others \in SUBSET Users : db' = ChatOpened(db, others \cup {UserOf[c]})
    <3>1. PICK others \in SUBSET Users : db' = ChatOpened(db, others \cup {UserOf[c]})
      BY <2>2
    <3>2. UserOf[c] \in Users
      BY MailSame
    <3>3. [members |-> others \cup {UserOf[c]}, last |-> 0] \in ChatType
      BY <3>2 DEF ChatType
    <3> QED BY <3>1, <3>3 DEF ChatOpened
  <2> QED BY <2>1, <2>2 DEF HandleCreateChat
<1> DEFINE e == db'
<1>3. e = [db EXCEPT !.chats = Append(db.chats, chat)]
  BY <1>2
<1> HIDE DEF e
<1>4. Stored(e) /\ Grows(db, e) /\ e.messages = db.messages /\ e.inbox = db.inbox
  BY <1>3, ChatStep
<1> QED BY <1>1, <1>4 DEF e

LEMMA CrashIs ==
  ASSUME Mail, Crash
  PROVE  /\ Stored(db') /\ Grows(db, db') /\ db'.messages = db.messages /\ db'.inbox = db.inbox
         /\ todo' = [c \in Conns |-> << >>] /\ channel' = [c \in Conns |-> << >>]
         /\ UNCHANGED <<client, unacked, skipped>>
<1>1. /\ todo' = [c \in Conns |-> << >>] /\ channel' = [c \in Conns |-> << >>]
      /\ UNCHANGED <<client, unacked, skipped>>
  BY DEF Crash
<1>2. db' = db \/ db' = ChatRow(db)
  BY DEF Crash
<1> DEFINE e == db'
<1>3. e = db \/ e = ChatRow(db)
  BY <1>2
<1> HIDE DEF e
<1>4. Stored(e) /\ Grows(db, e) /\ e.messages = db.messages /\ e.inbox = db.inbox
  <2>1. CASE e = db
    BY <2>1, MailSame
  <2>2. CASE e = ChatRow(db)
    <3> DEFINE chat == [members |-> {}, last |-> NoCounter]
    <3>1. chat \in ChatType
      BY DEF ChatType
    <3>2. e = [db EXCEPT !.chats = Append(db.chats, chat)]
      BY <2>2 DEF ChatRow
    <3> HIDE DEF chat
    <3> QED BY <3>1, <3>2, ChatStep
  <2> QED BY <1>3, <2>1, <2>2
<1> QED BY <1>1, <1>4 DEF e

\* Every step keeps what is stored and what is on its way in shape.
LEMMA MailStep == Mail /\ [Next]_vars => Mail'
<1> SUFFICES ASSUME Mail, [Next]_vars PROVE Mail'
  OBVIOUS
<1>0. /\ todo = [x \in Conns |-> todo[x]] /\ channel = [x \in Conns |-> channel[x]]
      /\ client = [x \in Conns |-> client[x]] /\ unacked = [u \in Users |-> unacked[u]]
  BY MailSame
<1>1. ASSUME UNCHANGED <<todo, channel, db, client, unacked, skipped>> PROVE Mail'
  <2>1. todo' = [x \in Conns |-> todo'[x]] /\ channel' = [x \in Conns |-> channel'[x]]
    BY <1>0, <1>1
  <2> QED BY <1>1, <2>1, MailQuiet
<1>2. ASSUME NEW c \in Conns, Connect(c) \/ RedisSubscribes(c) \/ Greet(c) \/ HandleHeartbeat(c) \/ ClientCloses(c)
      PROVE  Mail'
  <2>1. UNCHANGED <<todo, channel, db, client, unacked, skipped>>
    BY <1>2 DEF Connect, RedisSubscribes, Greet, HandleHeartbeat, ClientCloses
  <2> QED BY <1>1, <2>1
<1>3. ASSUME NEW c \in Conns, HandleEnd(c) PROVE Mail'
  <2>1. channel' = [channel EXCEPT ![c] = << >>] /\ UNCHANGED <<todo, db, client, unacked, skipped>>
    BY <1>3 DEF HandleEnd
  <2>2. channel' = [x \in Conns |-> channel'[x]] /\ \A x \in Conns : channel'[x] \in {channel[x], << >>}
    BY <1>0, <2>1
  <2>3. todo' = [x \in Conns |-> todo'[x]]
    BY <1>0, <2>1
  <2> QED BY <2>1, <2>2, <2>3, MailQuiet
<1>4. ASSUME NEW c \in Conns, HandleSync(c) PROVE Mail'
  <2>1. /\ UNCHANGED <<channel, db, client, unacked, skipped>>
        /\ todo' = [x \in Conns |-> todo'[x]] /\ \A x \in Conns \ {c} : todo'[x] = todo[x]
        /\ todo'[c] \in Seq(Script(db, c))
    BY <1>4, SyncIs
  <2>2. channel' = [x \in Conns |-> channel'[x]]
    BY <1>0, <2>1
  <2> QED BY <2>1, <2>2, MailQuiet
<1>5. ASSUME NEW c \in Conns, HandleSendMessage(c) PROVE Mail'
  <2> DEFINE e == db'
  <2>1. /\ Stored(e) /\ Grows(db, e) /\ todo' = [todo EXCEPT ![c] = todo'[c]] /\ todo'[c] \in Seq(Script(e, c))
        /\ UNCHANGED <<channel, client, skipped>> /\ unacked' = [u \in Users |-> unacked'[u]]
        /\ \A u \in Users : \A w \in unacked'[u] :
             \/ w \in unacked[u]
             \/ w[1] \in 1..Len(e.chats) /\ w[2] \in Nat /\ u \in e.chats[w[1]].members
    BY <1>5, SendIs
  <2>2. e = db'
    OBVIOUS
  <2> HIDE DEF e
  <2>3. todo' = [x \in Conns |-> todo'[x]]
        /\ \A x \in Conns : todo'[x] \in {todo[x], << >>} \/ todo'[x] \in Seq(Script(e, x))
    BY <1>0, <2>1
  <2>4. channel' = [x \in Conns |-> channel'[x]] /\ client' = [x \in Conns |-> client'[x]]
    BY <1>0, <2>1
  <2> QED BY <2>1, <2>2, <2>3, <2>4, MailFollows
<1>6. ASSUME NEW c \in Conns, HandleCreateChat(c) PROVE Mail'
  <2> DEFINE e == db'
  <2>1. Stored(e) /\ Grows(db, e) /\ UNCHANGED <<todo, channel, client, unacked, skipped>>
    BY <1>6, CreateIs
  <2>2. e = db'
    OBVIOUS
  <2> HIDE DEF e
  <2>3. /\ todo' = [x \in Conns |-> todo'[x]] /\ channel' = [x \in Conns |-> channel'[x]]
        /\ client' = [x \in Conns |-> client'[x]] /\ unacked' = [u \in Users |-> unacked'[u]]
    BY <1>0, <2>1
  <2> QED BY <2>1, <2>2, <2>3, MailFollows
<1>7. ASSUME Crash PROVE Mail'
  <2> DEFINE e == db'
  <2>1. /\ Stored(e) /\ Grows(db, e) /\ UNCHANGED <<client, unacked, skipped>>
        /\ todo' = [c \in Conns |-> << >>] /\ channel' = [c \in Conns |-> << >>]
    BY <1>7, CrashIs
  <2>2. e = db'
    OBVIOUS
  <2> HIDE DEF e
  <2>3. /\ todo' = [x \in Conns |-> todo'[x]] /\ channel' = [x \in Conns |-> channel'[x]]
        /\ \A x \in Conns : todo'[x] = << >> /\ channel'[x] = << >>
    BY <2>1
  <2>4. client' = [x \in Conns |-> client'[x]] /\ unacked' = [u \in Users |-> unacked'[u]]
    BY <1>0, <2>1
  <2> QED BY <2>1, <2>2, <2>3, <2>4, MailFollows
<1>8. ASSUME NEW u \in Users, LeaseExpires(u) PROVE Mail'
  BY <1>1, <1>8 DEF LeaseExpires
<1>9. ASSUME Restart \/ UNCHANGED vars PROVE Mail'
  BY <1>1, <1>9 DEF Restart, vars
<1> QED
  BY <1>2, <1>3, <1>4, <1>5, <1>6, <1>7, <1>8, <1>9, MarkStep, SendStep, PublishStep, ForwardStep
  DEF Next, Handle, Runs

-----------------------------------------------------------------------------
(* Receipts.  What a device has been told and what is on its way to it is in *)
(* order, and the row of the receipt already says it.                      *)

IsMark(m) == m.type \in Kinds

\* Of the same message and reader, m is the delivery and l the reading.
Follows(m, l) ==
  m.id = l.id /\ m.user = l.user => m.type = "delivery_receipt" /\ l.type = "read_receipt"

\* The row of the receipt m.
KeyOf(m) == <<m.user, m.id>>
Happened(d, m) ==
  /\ KeyOf(m) \in DOMAIN d.inbox /\ d.inbox[KeyOf(m)].status # "pending"
  /\ m.type = "read_receipt" => d.inbox[KeyOf(m)].status = "read"

Ordered(s) == \A i, j \in 1..Len(s) : i < j /\ IsMark(s[i]) /\ IsMark(s[j]) => Follows(s[i], s[j])
Before(s, t) == \A i \in 1..Len(s), j \in 1..Len(t) : IsMark(s[i]) /\ IsMark(t[j]) => Follows(s[i], t[j])
Backed(d, s) == \A i \in 1..Len(s) : IsMark(s[i]) => Happened(d, s[i])
Heeded(d, s, t) == Ordered(s) /\ Ordered(t) /\ Before(s, t) /\ Backed(d, s) /\ Backed(d, t)

Told == \A c \in Conns : Heeded(db, client[c].marks, channel[c])

-----------------------------------------------------------------------------
Kept(d, e) == \A r \in DOMAIN d.inbox : r \in DOMAIN e.inbox /\ e.inbox[r] = d.inbox[r]

\* More rows take nothing back, and an empty channel says nothing.
LEMMA HeededKept ==
  ASSUME NEW d, NEW e, Kept(d, e), NEW s, NEW t, Heeded(d, s, t)
  PROVE  Heeded(e, s, t) /\ Heeded(e, s, << >>)
<1>1. Backed(e, s) /\ Backed(e, t)
  BY DEF Heeded, Backed, Happened, Kept
<1>2. Backed(e, << >>) /\ Ordered(<< >>) /\ Before(s, << >>)
  BY DEF Backed, Ordered, Before
<1> QED BY <1>1, <1>2 DEF Heeded

\* Of one more message in the channel.
LEMMA HeededAppend ==
  ASSUME NEW d, NEW S, NEW s, NEW t \in Seq(S), NEW m \in S, Heeded(d, s, t),
         IsMark(m) => /\ Happened(d, m)
                      /\ \A i \in 1..Len(s) : IsMark(s[i]) => Follows(s[i], m)
                      /\ \A i \in 1..Len(t) : IsMark(t[i]) => Follows(t[i], m)
  PROVE  Heeded(d, s, Append(t, m))
<1> DEFINE n == Len(t)  u == Append(t, m)
<1>1. n \in Nat /\ Len(u) = n + 1 /\ u[n + 1] = m /\ \A i \in 1..n : u[i] = t[i]
  BY AppendProperties
<1> HIDE DEF u
<1>2. ASSUME NEW i \in 1..Len(u) PROVE (i \in 1..n /\ u[i] = t[i]) \/ (i = n + 1 /\ u[i] = m)
  BY <1>1
<1>3. Ordered(u)
  <2> SUFFICES ASSUME NEW i \in 1..Len(u), NEW j \in 1..Len(u), i < j, IsMark(u[i]), IsMark(u[j])
               PROVE  Follows(u[i], u[j])
    BY DEF Ordered
  <2>1. i \in 1..n /\ u[i] = t[i]
    BY <1>1
  <2>2. CASE j = n + 1
    BY <1>1, <2>1, <2>2
  <2>3. CASE j \in 1..n
    BY <1>1, <2>1, <2>3 DEF Heeded, Ordered
  <2> QED BY <1>2, <2>2, <2>3
<1>4. Before(s, u)
  BY <1>2 DEF Heeded, Before
<1>5. Backed(d, u)
  BY <1>2 DEF Heeded, Backed
<1> QED BY <1>3, <1>4, <1>5 DEF Heeded, u

\* Of the front of the channel, which the device is told.
LEMMA HeededForward ==
  ASSUME NEW d, NEW S, NEW s \in Seq(S), NEW T, NEW t \in Seq(T), t # << >>, Heeded(d, s, t)
  PROVE  /\ Heeded(d, s, Tail(t))
         /\ IsMark(Head(t)) /\ Head(t) \in S => Heeded(d, Append(s, Head(t)), Tail(t))
<1> DEFINE n == Len(s)  r == Tail(t)  m == Head(t)
<1>1. /\ Len(t) \in Nat \ {0} /\ Len(r) = Len(t) - 1 /\ r \in Seq(T)
      /\ m = t[1] /\ \A i \in 1..Len(r) : r[i] = t[i + 1] /\ i + 1 \in 1..Len(t)
  BY FrontIs
<1> HIDE DEF r, m
<1>2. Ordered(r)
  <2> SUFFICES ASSUME NEW i \in 1..Len(r), NEW j \in 1..Len(r), i < j, IsMark(r[i]), IsMark(r[j])
               PROVE  Follows(r[i], r[j])
    BY DEF Ordered
  <2>1. i + 1 < j + 1
    BY <1>1
  <2> QED BY <1>1, <2>1 DEF Heeded, Ordered
<1>3. Before(s, r) /\ Backed(d, r)
  BY <1>1 DEF Heeded, Before, Backed
<1>4. ASSUME IsMark(m), m \in S PROVE Heeded(d, Append(s, m), r)
  <2> DEFINE u == Append(s, m)
  <2>1. n \in Nat /\ Len(u) = n + 1 /\ u[n + 1] = m /\ \A i \in 1..n : u[i] = s[i]
    BY <1>4, AppendProperties
  <2> HIDE DEF u
  <2>2. ASSUME NEW i \in 1..Len(u) PROVE (i \in 1..n /\ u[i] = s[i]) \/ (i = n + 1 /\ u[i] = m)
    BY <2>1
  <2>0. 1 \in 1..Len(t)
    BY <1>1
  <2>3. Ordered(u)
    <3> SUFFICES ASSUME NEW i \in 1..Len(u), NEW j \in 1..Len(u), i < j, IsMark(u[i]), IsMark(u[j])
                 PROVE  Follows(u[i], u[j])
      BY DEF Ordered
    <3>1. i \in 1..n /\ u[i] = s[i]
      BY <2>1
    <3>2. CASE j = n + 1
      BY <1>1, <2>0, <2>1, <3>1, <3>2 DEF Heeded, Before
    <3>3. CASE j \in 1..n
      BY <2>1, <3>1, <3>3 DEF Heeded, Ordered
    <3> QED BY <2>2, <3>2, <3>3
  <2>4. Before(u, r)
    <3> SUFFICES ASSUME NEW i \in 1..Len(u), NEW j \in 1..Len(r), IsMark(u[i]), IsMark(r[j])
                 PROVE  Follows(u[i], r[j])
      BY DEF Before
    <3>1. CASE i \in 1..n
      BY <1>3, <2>1, <3>1 DEF Before
    <3>2. CASE i = n + 1
      <4>1. 1 < j + 1
        BY <1>1
      <4> QED BY <1>1, <2>0, <2>1, <3>2, <4>1 DEF Heeded, Ordered
    <3> QED BY <2>2, <3>1, <3>2
  <2>5. Backed(d, u)
    BY <1>1, <2>0, <2>2 DEF Heeded, Backed
  <2> QED BY <1>2, <1>3, <2>3, <2>4, <2>5 DEF Heeded, u
<1>5. Heeded(d, s, r)
  BY <1>2, <1>3 DEF Heeded
<1> QED BY <1>4, <1>5 DEF r, m

\* A row that moves on: what was told of it stays true, and the receipt of the
\* move has its place after it.
LEMMA HeededMark ==
  ASSUME NEW d, NEW e, NEW key \in DOMAIN d.inbox, DOMAIN e.inbox = DOMAIN d.inbox,
         \A r \in DOMAIN d.inbox : r # key => e.inbox[r] = d.inbox[r],
         NEW m, KeyOf(m) = key,
         \/ d.inbox[key].status = "pending" /\ e.inbox[key].status = "delivered" /\ m.type = "delivery_receipt"
         \/ d.inbox[key].status # "read" /\ e.inbox[key].status = "read" /\ m.type = "read_receipt",
         NEW s, NEW t, Heeded(d, s, t)
  PROVE  /\ Heeded(e, s, t) /\ Happened(e, m)
         /\ \A i \in 1..Len(s) : IsMark(s[i]) => Follows(s[i], m)
         /\ \A i \in 1..Len(t) : IsMark(t[i]) => Follows(t[i], m)
<1>1. ASSUME NEW l, IsMark(l), Happened(d, l) PROVE Happened(e, l) /\ Follows(l, m)
  <2>1. CASE KeyOf(l) = key
    <3>1. d.inbox[key].status # "pending" /\ (l.type = "read_receipt" => d.inbox[key].status = "read")
      BY <1>1, <2>1 DEF Happened
    <3>2. e.inbox[key].status = "read" /\ m.type = "read_receipt" /\ l.type # "read_receipt"
      BY <3>1
    <3> QED BY <1>1, <2>1, <3>2 DEF Happened, Follows, IsMark, Kinds
  <2>2. CASE KeyOf(l) # key
    <3>1. e.inbox[KeyOf(l)] = d.inbox[KeyOf(l)]
      BY <1>1, <2>2 DEF Happened
    <3>2. ~ (l.id = m.id /\ l.user = m.user)
      BY <2>2 DEF KeyOf
    <3> QED BY <1>1, <3>1, <3>2 DEF Happened, Follows
  <2> QED BY <2>1, <2>2
<1>2. Happened(e, m)
  BY DEF Happened
<1>3. Backed(e, s) /\ Backed(e, t)
  BY <1>1 DEF Heeded, Backed
<1> QED BY <1>1, <1>2, <1>3 DEF Heeded, Backed

-----------------------------------------------------------------------------
LEMMA ToldInit == Init => Told
BY DEF Init, Told, Heeded, Ordered, Before, Backed

\* Nothing told, and no receipt on its way that was not.
LEMMA ToldKeeps ==
  ASSUME Mail, Told, Kept(db, db'),
         \A c \in Conns : client'[c].marks = client[c].marks,
         \A c \in Conns : \/ channel'[c] \in {channel[c], << >>}
                          \/ \E id \in Nat : channel'[c] = Append(channel[c], New(id))
  PROVE  Told'
<1> DEFINE e == db'
<1>0. Kept(db, e)
  OBVIOUS
<1> HIDE DEF e
<1>1. ASSUME NEW c \in Conns PROVE Heeded(e, client[c].marks, channel'[c])
  <2> DEFINE S == Pushes(db, c) \cup {New(id) : id \in Nat}
  <2>1. Heeded(db, client[c].marks, channel[c]) /\ channel[c] \in Seq(S)
    <3>1. channel[c] \in Seq(Pushes(db, c)) /\ Pushes(db, c) \subseteq S
      BY MailSame
    <3> HIDE DEF S
    <3> QED BY <3>1 DEF Told
  <2>2. Heeded(e, client[c].marks, channel[c]) /\ Heeded(e, client[c].marks, << >>)
    BY <1>0, <2>1, HeededKept
  <2>3. ASSUME NEW id \in Nat PROVE Heeded(e, client[c].marks, Append(channel[c], New(id)))
    <3> DEFINE m == New(id)
    <3>1. m \in S /\ ~ IsMark(m)
      BY MessagesAre DEF IsMark, Kinds
    <3> HIDE DEF m, S
    <3>2. Heeded(e, client[c].marks, Append(channel[c], m))
      BY <2>1, <2>2, <3>1, HeededAppend
    <3> QED BY <3>2 DEF m
  <2> QED BY <2>2, <2>3
<1>2. \A c \in Conns : Heeded(e, client'[c].marks, channel'[c])
  BY <1>1
<1> QED BY <1>2 DEF Told, Heeded, Backed, Happened, e

LEMMA ToldStep == Mail /\ Told /\ [Next]_vars => Told'
<1> SUFFICES ASSUME Mail, Told, [Next]_vars PROVE Told'
  OBVIOUS
<1>0. /\ Kept(db, db) /\ channel = [x \in Conns |-> channel[x]]
      /\ \A c \in Conns : channel[c] \in Seq(Pushes(db, c)) /\ client[c].marks \in Seq(Marks(db))
  BY MailSame DEF Kept, DeviceType
<1>1. ASSUME UNCHANGED <<channel, db, client>> PROVE Told'
  <2>1. Kept(db, db')
    BY <1>1 DEF Kept
  <2> QED BY <1>1, <2>1, ToldKeeps
<1>2. ASSUME NEW c \in Conns,
             Connect(c) \/ RedisSubscribes(c) \/ Greet(c) \/ HandleHeartbeat(c) \/ ClientCloses(c) \/ HandleSync(c)
      PROVE  Told'
  <2>1. UNCHANGED <<channel, db, client>>
    BY <1>2 DEF Connect, RedisSubscribes, Greet, HandleHeartbeat, ClientCloses, HandleSync
  <2> QED BY <1>1, <2>1
<1>3. ASSUME NEW c \in Conns, HandleEnd(c) PROVE Told'
  <2>1. channel' = [channel EXCEPT ![c] = << >>] /\ UNCHANGED <<db, client>>
    BY <1>3 DEF HandleEnd
  <2>2. \A x \in Conns : channel'[x] \in {channel[x], << >>}
    BY <1>0, <2>1
  <2>3. Kept(db, db')
    BY <2>1 DEF Kept
  <2> QED BY <2>1, <2>2, <2>3, ToldKeeps
<1>4. ASSUME NEW c \in Conns, HandleSendMessage(c) \/ HandleCreateChat(c) PROVE Told'
  <2>1. Kept(db, db') /\ UNCHANGED <<channel, client>>
    BY <1>4, SendIs, CreateIs DEF Kept
  <2> QED BY <2>1, ToldKeeps
<1>5. ASSUME Crash PROVE Told'
  <2>1. Kept(db, db') /\ client' = client /\ \A c \in Conns : channel'[c] = << >>
    BY <1>5, CrashIs DEF Kept
  <2> QED BY <2>1, ToldKeeps
<1>6. ASSUME NEW c \in Conns, SendReply(c) PROVE Told'
  <2>1. todo[c] # << >> /\ Head(todo[c]).do = "reply" /\ db' = db /\ channel' = channel
    BY <1>6 DEF SendReply
  <2>2. Head(todo[c]).msg \in Heard(db, c) /\ Head(todo[c]).msg \notin Marks(db)
    BY <2>1, MailSame, FrontIs, InstructionsAre
  <2>3. client' = client \/ Receives(c, Head(todo[c]).msg)
    BY <1>6 DEF SendReply
  <2>4. \A x \in Conns : client'[x].marks = client[x].marks
    BY <2>2, <2>3, ReceivesIs
  <2>5. Kept(db, db')
    BY <2>1 DEF Kept
  <2> QED BY <2>1, <2>4, <2>5, ToldKeeps
<1>7. ASSUME NEW c \in Conns, PublishMessage(c) PROVE Told'
  <2> DEFINE id == Head(todo[c]).id
  <2>1. /\ todo[c] # << >> /\ Head(todo[c]).do = "publish" /\ db' = db /\ client' = client
        /\ PublishTo(Recipients(id), New(id))
    BY <1>7 DEF PublishMessage
  <2>2. id \in 1..Len(db.messages)
    BY <2>1, MailSame, FrontIs, InstructionsAre
  <2>3. id \in Nat
    BY <2>2
  <2> HIDE DEF id
  <2>4. \A x \in Conns : channel'[x] = channel[x] \/ channel'[x] = Append(channel[x], New(id))
    BY <2>1 DEF PublishTo
  <2>5. Kept(db, db')
    BY <2>1 DEF Kept
  <2> QED BY <2>1, <2>3, <2>4, <2>5, ToldKeeps
<1>8. ASSUME NEW c \in Conns, Forward(c) PROVE Told'
  <2> DEFINE m == Head(channel[c])  s == client[c].marks
  <2>1. channel[c] # << >> /\ db' = db
    BY <1>8 DEF Forward
  <2>2. m \in Pushes(db, c)
    BY <2>1, <1>0, FrontIs
  <2>3. m \in Heard(db, c) /\ (m \in Marks(db) => IsMark(m))
    BY <2>2, MessagesAre DEF Pushes, Heard, Marks, IsMark
  <2>4. CASE link[c] # "open"
    <3>1. channel' = [channel EXCEPT ![c] = << >>] /\ client' = client
      BY <1>8, <2>4 DEF Forward
    <3>2. \A x \in Conns : channel'[x] \in {channel[x], << >>}
      BY <1>0, <3>1
    <3>3. Kept(db, db')
      BY <2>1 DEF Kept
    <3> QED BY <3>1, <3>2, <3>3, ToldKeeps
  <2>5. CASE link[c] = "open"
    <3>1. channel' = [channel EXCEPT ![c] = Tail(channel[c])] /\ Receives(c, m)
      BY <1>8, <2>5 DEF Forward
    <3>2. /\ \A x \in Conns \ {c} : client'[x] = client[x]
          /\ client'[c].marks = IF m \in Marks(db) THEN Append(s, m) ELSE s
      BY <2>3, <3>1, ReceivesIs
    <3>3. channel'[c] = Tail(channel[c]) /\ \A x \in Conns \ {c} : channel'[x] = channel[x]
      BY <1>0, <3>1
    <3>4. Heeded(db, s, channel[c]) /\ s \in Seq(Marks(db)) /\ channel[c] \in Seq(Pushes(db, c))
      BY <1>0 DEF Told
    <3>5. /\ Heeded(db, s, Tail(channel[c]))
          /\ IsMark(m) /\ m \in Marks(db) => Heeded(db, Append(s, m), Tail(channel[c]))
      BY <2>1, <3>4, HeededForward
    <3> HIDE DEF m, s
    <3>6. Heeded(db, client'[c].marks, channel'[c])
      BY <2>3, <3>2, <3>3, <3>5
    <3>7. \A x \in Conns : Heeded(db, client'[x].marks, channel'[x])
      BY <3>2, <3>3, <3>6 DEF Told
    <3> QED BY <2>1, <3>7 DEF Told, Heeded, Backed, Happened
  <2> QED BY <2>4, <2>5
<1>9. ASSUME NEW c \in Conns, HandleAck(c) \/ HandleRead(c) PROVE Told'
  <2>1. client' = client
    BY <1>9, MarkingIs
  <2>2. ASSUME NEW id \in client[c].seen, NEW matches, NEW status \in {"delivered", "read"}, NEW kind \in Kinds,
               UpdateInbox(c, id, matches, status, kind),
               \/ status = "delivered" /\ kind = "delivery_receipt"
                  /\ (matches => db.inbox[<<UserOf[c], id>>].status = "pending")
               \/ status = "read" /\ kind = "read_receipt"
                  /\ (matches => db.inbox[<<UserOf[c], id>>].status # "read")
        PROVE  Told'
    <3> DEFINE key == <<UserOf[c], id>>  m == Receipt(kind, id, UserOf[c])  e == db'
    <3>0. key = <<UserOf[c], id>> /\ KeyOf(m) = key /\ m.type = kind /\ e = db'
      BY MessagesAre DEF KeyOf
    <3>9. UserOf[c] \in Users
      BY MailSame
    <3>10. id \in 1..Len(db.messages) => m \in Marks(db)
      BY <3>9 DEF Marks
    <3>8. UpdateInbox(c, id, matches, status, kind)
      BY <2>2
    <3>1. /\ key \in DOMAIN db.inbox /\ id \in 1..Len(db.messages)
          /\ UNCHANGED <<db, channel>> \/ Moves(c, id, status, kind)
      BY <3>8, MarkIs
    <3> HIDE DEF key
    <3>11. matches \/ UNCHANGED <<db, channel>>
      BY <3>8 DEF UpdateInbox
    <3>2. CASE UNCHANGED <<db, channel>>
      BY <1>1, <2>1, <3>2
    <3>3. CASE ~ UNCHANGED <<db, channel>>
      <4>1. /\ DOMAIN e.inbox = DOMAIN db.inbox /\ e.inbox[key].status = status
            /\ \A r \in DOMAIN db.inbox : r # key => e.inbox[r] = db.inbox[r]
            /\ \A x \in Conns : channel'[x] \in {channel[x], Append(channel[x], m)}
            /\ matches
        BY <3>0, <3>1, <3>3, <3>11 DEF Moves, m
      <4>2. \/ db.inbox[key].status = "pending" /\ e.inbox[key].status = "delivered" /\ m.type = "delivery_receipt"
            \/ db.inbox[key].status # "read" /\ e.inbox[key].status = "read" /\ m.type = "read_receipt"
        BY <2>2, <3>0, <4>1 DEF key
      <4> HIDE DEF e, m
      <4>3. ASSUME NEW x \in Conns PROVE Heeded(e, client[x].marks, channel'[x])
        <5> DEFINE s == client[x].marks  t == channel[x]
        <5>1. Heeded(db, s, t) /\ t \in Seq(Pushes(db, x))
          BY <1>0 DEF Told
        <5>2. m \in Pushes(db, x)
          BY <3>1, <3>10 DEF Pushes
        <5> HIDE DEF s, t
        <5>3. /\ Heeded(e, s, t) /\ Happened(e, m)
              /\ \A i \in 1..Len(s) : IsMark(s[i]) => Follows(s[i], m)
              /\ \A i \in 1..Len(t) : IsMark(t[i]) => Follows(t[i], m)
          <6>1. key \in DOMAIN db.inbox /\ KeyOf(m) = key
            BY <3>0, <3>1
          <6>2. DOMAIN e.inbox = DOMAIN db.inbox /\ \A r \in DOMAIN db.inbox : r # key => e.inbox[r] = db.inbox[r]
            BY <4>1
          <6> QED BY <4>2, <5>1, <6>1, <6>2, HeededMark, SMTT(30)
        <5>4. Heeded(e, s, Append(t, m))
          BY <5>1, <5>2, <5>3, HeededAppend
        <5>5. channel'[x] = t \/ channel'[x] = Append(t, m)
          BY <4>1 DEF t
        <5> QED BY <5>3, <5>4, <5>5 DEF s, t
      <4>4. \A x \in Conns : Heeded(e, client'[x].marks, channel'[x])
        BY <2>1, <4>3
      <4> QED BY <4>4 DEF Told, Heeded, Backed, Happened, e
    <3> QED BY <3>2, <3>3
  <2>3. PICK id \in client[c].seen :
          \/ UpdateInbox(c, id, AckMatches(db.inbox[UserOf[c], id]), "delivered", "delivery_receipt")
          \/ UpdateInbox(c, id, ReadMatches(db.inbox[UserOf[c], id]), "read", "read_receipt")
    BY <1>9, MarkingIs
  <2> DEFINE row == db.inbox[<<UserOf[c], id>>]  acks == AckMatches(row)  reads == ReadMatches(row)
  <2>4. UpdateInbox(c, id, acks, "delivered", "delivery_receipt")
          \/ UpdateInbox(c, id, reads, "read", "read_receipt")
    BY <2>3
  <2>5. (acks => row.status = "pending") /\ (reads => row.status # "read")
    BY DEF AckMatches, ReadMatches
  <2>6. {"delivery_receipt", "read_receipt"} = Kinds /\ row = db.inbox[<<UserOf[c], id>>]
    BY DEF Kinds
  <2> HIDE DEF acks, reads, row
  <2>7. CASE UpdateInbox(c, id, acks, "delivered", "delivery_receipt")
    <3>1. "delivery_receipt" \in Kinds /\ (acks => db.inbox[<<UserOf[c], id>>].status = "pending")
      BY <2>5, <2>6
    <3> QED BY <2>2, <2>7, <3>1
  <2>8. CASE UpdateInbox(c, id, reads, "read", "read_receipt")
    <3>1. "read_receipt" \in Kinds /\ (reads => db.inbox[<<UserOf[c], id>>].status # "read")
      BY <2>5, <2>6
    <3> QED BY <2>2, <2>8, <3>1
  <2> QED BY <2>4, <2>7, <2>8
<1>10. ASSUME NEW u \in Users, LeaseExpires(u) PROVE Told'
  BY <1>1, <1>10 DEF LeaseExpires
<1>11. ASSUME Restart \/ UNCHANGED vars PROVE Told'
  BY <1>1, <1>11 DEF Restart, vars
<1> QED
  BY <1>2, <1>3, <1>4, <1>5, <1>6, <1>7, <1>8, <1>9, <1>10, <1>11 DEF Next, Handle, Runs

\* A device hears of each receipt at most once, and of a delivery only before
\* the reading.
THEOREM ReceiptsComeInOrder == Spec => []ReceiptsInOrder
<1>1. Mail /\ Told => ReceiptsInOrder
  <2> SUFFICES ASSUME Mail, Told PROVE ReceiptsInOrder
    OBVIOUS
  <2>1. ASSUME NEW c \in Conns, NEW i \in DOMAIN client[c].marks, NEW j \in DOMAIN client[c].marks, i < j
        PROVE  Follows(client[c].marks[i], client[c].marks[j])
    <3> DEFINE s == client[c].marks
    <3>1. s \in Seq(Marks(db)) /\ Ordered(s)
      BY MailSame DEF DeviceType, Told, Heeded
    <3>2. i \in 1..Len(s) /\ j \in 1..Len(s)
      BY <3>1
    <3>3. s[i] \in Marks(db) /\ s[j] \in Marks(db)
      BY <3>1, <3>2, ElementOfSeq
    <3>4. IsMark(s[i]) /\ IsMark(s[j])
      BY <3>3, MessagesAre DEF Marks, IsMark
    <3> HIDE DEF s
    <3>5. Follows(s[i], s[j])
      BY <2>1, <3>1, <3>2, <3>4 DEF Ordered
    <3> QED BY <3>5 DEF s
  <2> QED BY <2>1 DEF ReceiptsInOrder, Follows
<1> QED BY MailInit, MailStep, ToldInit, ToldStep, <1>1, PTL DEF Spec

-----------------------------------------------------------------------------
(* Lines.  How a connection, its handler and its subscriber stand to each   *)
(* other.                                                                  *)

Tasks == {"none", "asked", "subscribed", "ended"}

Line(c) ==
  /\ phase[c] \in Phases
  /\ link[c] \in {"none", "open", "gone"} /\ task[c] \in Tasks
  /\ phase[c] = "new" <=> link[c] = "none"
  /\ phase[c] = "new" <=> task[c] = "none"
  /\ link[c] = "open" => Active(c)
  /\ task[c] = "ended" => link[c] = "gone"
  /\ todo[c] # << >> => phase[c] = "serving"
  /\ ~Impatient /\ phase[c] = "serving" => task[c] # "asked"
  /\ client[c].synced => phase[c] \in {"serving", "done"}

Lines ==
  /\ up \in BOOLEAN /\ task = [c \in Conns |-> task[c]]
  /\ \A c \in Conns : Line(c)

LEMMA LinesInit == Init => Lines
BY DEF Init, Lines, Line, Active, Phases, Tasks

\* The lines of the other connections stay as they are.
LEMMA LinesKeep ==
  ASSUME Lines, up' \in BOOLEAN, task' = [x \in Conns |-> task'[x]], NEW c \in Conns,
         \A x \in Conns \ {c} :
           /\ phase'[x] = phase[x] /\ link'[x] = link[x] /\ task'[x] = task[x]
           /\ client'[x].synced = client[x].synced /\ todo'[x] = todo[x],
         Line(c)'
  PROVE  Lines'
<1>1. ASSUME NEW x \in Conns PROVE Line(x)'
  BY <1>1 DEF Lines, Line, Active
<1> QED BY <1>1 DEF Lines

LEMMA LinesStep == Presence /\ Mail /\ Lines /\ [Next]_vars => Lines'
<1> SUFFICES ASSUME Presence, Mail, Lines, [Next]_vars PROVE Lines'
  OBVIOUS
<1>0. /\ phase = [x \in Conns |-> phase[x]] /\ link = [x \in Conns |-> link[x]]
      /\ task = [x \in Conns |-> task[x]] /\ todo = [x \in Conns |-> todo[x]]
      /\ client = [x \in Conns |-> client[x]] /\ up \in BOOLEAN
      /\ \A x \in Conns : Line(x)
  BY MailSame DEF Presence, Registry, Shape, Lines
<1>1. ASSUME UNCHANGED <<phase, link, todo, task, client>>, up' \in BOOLEAN PROVE Lines'
  BY <1>1 DEF Lines, Line, Active
<1>2. ASSUME NEW c \in Conns, Connect(c) PROVE Lines'
  <2>1. /\ phase[c] = "new" /\ phase' = [phase EXCEPT ![c] = "subscribing"]
        /\ link' = [link EXCEPT ![c] = "open"] /\ task' = [task EXCEPT ![c] = "asked"]
        /\ UNCHANGED <<up, todo, client>>
    BY <1>2 DEF Connect
  <2>2. phase'[c] = "subscribing" /\ link'[c] = "open" /\ task'[c] = "asked"
    BY <1>0, <2>1
  <2>3. Line(c)'
    BY <1>0, <2>1, <2>2 DEF Line, Active, Phases, Tasks
  <2> QED BY <1>0, <2>1, <2>3, LinesKeep
<1>3. ASSUME NEW c \in Conns, RedisSubscribes(c) PROVE Lines'
  <2>1. /\ task[c] = "asked" /\ task' = [task EXCEPT ![c] = "subscribed"]
        /\ UNCHANGED <<up, phase, link, todo, client>>
    BY <1>3 DEF RedisSubscribes
  <2>2. task'[c] = "subscribed"
    BY <1>0, <2>1
  <2>3. Line(c)'
    BY <1>0, <2>1, <2>2 DEF Line, Active, Tasks
  <2> QED BY <1>0, <2>1, <2>3, LinesKeep
<1>4. ASSUME NEW c \in Conns, Greet(c) PROVE Lines'
  <2>1. /\ phase[c] = "subscribing" /\ phase' = [phase EXCEPT ![c] = "serving"]
        /\ task[c] # "asked" \/ Impatient
        /\ UNCHANGED <<up, link, task, todo, client>>
    BY <1>4 DEF Greet, Ready
  <2>2. phase'[c] = "serving"
    BY <1>0, <2>1
  <2>3. Line(c)'
    BY <1>0, <2>1, <2>2 DEF Line, Active, Phases
  <2> QED BY <1>0, <2>1, <2>3, LinesKeep
<1>5. ASSUME NEW c \in Conns, ClientCloses(c) PROVE Lines'
  <2>1. /\ link[c] = "open" /\ link' = [link EXCEPT ![c] = "gone"]
        /\ UNCHANGED <<up, phase, task, todo, client>>
    BY <1>5 DEF ClientCloses
  <2>2. link'[c] = "gone"
    BY <1>0, <2>1
  <2>3. Line(c)'
    BY <1>0, <2>1, <2>2 DEF Line, Active
  <2> QED BY <1>0, <2>1, <2>3, LinesKeep
<1>6. ASSUME NEW c \in Conns, HandleEnd(c) PROVE Lines'
  <2>1. /\ phase[c] = "serving" /\ link[c] = "gone" /\ todo[c] = << >>
        /\ phase' = [phase EXCEPT ![c] = "done"] /\ task' = [task EXCEPT ![c] = "ended"]
        /\ UNCHANGED <<up, link, todo, client>>
    BY <1>6 DEF HandleEnd
  <2>2. phase'[c] = "done" /\ task'[c] = "ended"
    BY <1>0, <2>1
  <2>3. Line(c)'
    BY <1>0, <2>1, <2>2 DEF Line, Active, Phases, Tasks
  <2> QED BY <1>0, <2>1, <2>3, LinesKeep
<1>7. ASSUME NEW c \in Conns, HandleSendMessage(c) \/ HandleSync(c) PROVE Lines'
  <2>1. /\ phase[c] = "serving" /\ \A x \in Conns \ {c} : todo'[x] = todo[x]
        /\ UNCHANGED <<up, phase, link, task, client>>
    BY <1>0, <1>7 DEF HandleSendMessage, HandleSync, Asks, Does
  <2>2. Line(c)'
    BY <1>0, <2>1 DEF Line, Active
  <2> QED BY <1>0, <2>1, <2>2, LinesKeep
<1>8. ASSUME NEW c \in Conns,
             HandleAck(c) \/ HandleRead(c) \/ HandleCreateChat(c) \/ HandleHeartbeat(c)
      PROVE  Lines'
  <2>1. UNCHANGED <<up, phase, link, todo, task, client>>
    BY <1>8 DEF HandleAck, HandleRead, HandleCreateChat, HandleHeartbeat
  <2> QED BY <1>0, <1>1, <2>1
<1>9. ASSUME NEW c \in Conns, SendReply(c) PROVE Lines'
  <2>1. /\ todo[c] # << >> /\ Head(todo[c]).do = "reply" /\ \A x \in Conns \ {c} : todo'[x] = todo[x]
        /\ UNCHANGED <<up, phase, link, task>>
        /\ client' = client \/ Receives(c, Head(todo[c]).msg)
    BY <1>0, <1>9 DEF SendReply, Does
  <2>2. Head(todo[c]).msg \in Heard(db, c)
    BY <2>1, MailSame, FrontIs, InstructionsAre
  <2>3. \A x \in Conns \ {c} : client'[x] = client[x]
    BY <2>1, <2>2, ReceivesIs
  <2>4. Line(c)'
    BY <1>0, <2>1 DEF Line, Active
  <2> QED BY <1>0, <2>1, <2>3, <2>4, LinesKeep
<1>10. ASSUME NEW c \in Conns, PublishMessage(c) PROVE Lines'
  <2>1. /\ todo[c] # << >> /\ \A x \in Conns \ {c} : todo'[x] = todo[x]
        /\ UNCHANGED <<up, phase, link, task, client>>
    BY <1>0, <1>10 DEF PublishMessage, Does
  <2>2. Line(c)'
    BY <1>0, <2>1 DEF Line, Active
  <2> QED BY <1>0, <2>1, <2>2, LinesKeep
<1>11. ASSUME NEW c \in Conns, Forward(c) PROVE Lines'
  <2>1. task[c] = "subscribed" /\ channel[c] # << >> /\ UNCHANGED <<up, phase, link, todo>>
    BY <1>11 DEF Forward
  <2>2. Head(channel[c]) \in Heard(db, c)
    <3>1. Head(channel[c]) \in Pushes(db, c)
      BY <2>1, MailSame, FrontIs
    <3> QED BY <3>1 DEF Pushes, Heard
  <2>3. CASE link[c] = "open"
    <3>1. task' = task /\ Receives(c, Head(channel[c]))
      BY <1>11, <2>3 DEF Forward
    <3>2. /\ \A x \in Conns \ {c} : client'[x] = client[x]
          /\ client'[c].synced = (client[c].synced \/ Head(channel[c]) = SyncComplete)
      BY <2>2, <3>1, ReceivesIs
    <3>3. Head(channel[c]) # SyncComplete
      <4>1. Head(channel[c]) \in Pushes(db, c)
        BY <2>1, MailSame, FrontIs
      <4>2. Head(channel[c]).type # "sync_complete"
        BY <4>1, MessagesAre DEF Pushes, Marks, Kinds
      <4> QED BY <4>2, MessagesAre
    <3>4. client[c].synced \in BOOLEAN
      BY MailSame DEF DeviceType
    <3>5. client'[c].synced = client[c].synced
      BY <3>2, <3>3, <3>4
    <3>6. Line(c)'
      BY <1>0, <2>1, <3>1, <3>5 DEF Line, Active
    <3> QED BY <1>0, <2>1, <3>1, <3>2, <3>6, LinesKeep
  <2>4. CASE link[c] # "open"
    <3>1. task' = [task EXCEPT ![c] = "ended"] /\ client' = client
      BY <1>11, <2>4 DEF Forward
    <3>2. task'[c] = "ended"
      BY <1>0, <3>1
    <3>3. link[c] = "gone"
      BY <1>0, <2>1, <2>4 DEF Line
    <3>4. Line(c)'
      BY <1>0, <2>1, <3>1, <3>2, <3>3 DEF Line, Active, Tasks
    <3> QED BY <1>0, <2>1, <3>1, <3>4, LinesKeep
  <2> QED BY <2>3, <2>4
<1>12. ASSUME Crash PROVE Lines'
  <2>1. /\ up' = FALSE /\ client' = client
        /\ phase' = [c \in Conns |-> IF phase[c] = "new" THEN "new" ELSE "done"]
        /\ link' = [c \in Conns |-> IF phase[c] = "new" THEN link[c] ELSE "gone"]
        /\ todo' = [c \in Conns |-> << >>]
        /\ task' = [c \in Conns |-> IF task[c] = "none" THEN "none" ELSE "ended"]
    BY <1>12 DEF Crash
  <2>2. ASSUME NEW c \in Conns PROVE Line(c)'
    BY <1>0, <2>1 DEF Line, Active, Phases, Tasks
  <2> QED BY <2>1, <2>2 DEF Lines
<1>13. ASSUME NEW u \in Users, LeaseExpires(u) PROVE Lines'
  BY <1>0, <1>1, <1>13 DEF LeaseExpires
<1>14. ASSUME Restart \/ UNCHANGED vars PROVE Lines'
  BY <1>0, <1>1, <1>14 DEF Restart, vars
<1> QED
  BY <1>2, <1>3, <1>4, <1>5, <1>6, <1>7, <1>8, <1>9, <1>10, <1>11, <1>12, <1>13, <1>14
  DEF Next, Handle, Runs

\* The server's memory, the devices and the database have their types; the
\* registry holds exactly the connections whose handlers run.
THEOREM ChatTypeCorrect == Spec => []TypeOK
<1>1. Presence /\ Mail /\ Lines => TypeOK
  <2> SUFFICES ASSUME Presence, Mail, Lines PROVE TypeOK
    OBVIOUS
  <2>1. DOMAIN db.messages = 1..Len(db.messages)
    BY MailSame DEF Stored
  <2>2. /\ up \in BOOLEAN /\ phase \in [Conns -> {"new", "subscribing", "serving", "done"}]
        /\ connections = [u \in Users |-> {c \in Conns : UserOf[c] = u /\ Active(c)}]
        /\ online \subseteq Users
    BY DEF Presence, Registry, Shape, Phases, Lines
  <2>3. link \in [Conns -> {"none", "open", "gone"}] /\ task \in [Conns -> {"none", "asked", "subscribed", "ended"}]
    BY DEF Presence, Shape, Lines, Line, Tasks
  <2>4. skipped \subseteq DOMAIN db.messages
    BY <2>1 DEF Mail, SkippedOK
  <2>5. ASSUME NEW c \in Conns PROVE client[c].seen \subseteq DOMAIN db.messages
    BY <2>1, MailSame DEF DeviceType, Mine
  <2>6. DOMAIN db.inbox \subseteq Users \X DOMAIN db.messages
    BY <2>1, MailSame DEF Stored
  <2> QED BY <2>2, <2>3, <2>4, <2>5, <2>6 DEF TypeOK
<1> QED BY PresenceInit, PresenceStep, MailInit, MailStep, LinesInit, LinesStep, <1>1, PTL DEF Spec

-----------------------------------------------------------------------------
(* Delivery.  What a device that has synced, or is about to have, has yet to *)
(* receive is on its way to it: the sender's handler will publish it, its    *)
(* channel holds it, or its own sync will send it.                          *)

Holds(s, m) == \E i \in 1..Len(s) : s[i] = m

Owed(c) == link[c] = "open" /\ (client[c].synced \/ Holds(todo[c], Reply(SyncComplete)))
Arriving(c, id) ==
  \/ \E x \in Conns : Holds(todo[x], Publish(id))
  \/ Holds(channel[c], New(id))
  \/ Holds(todo[c], Reply(New(id)))
Settled(c, id) ==
  id \in skipped \/ id \in client[c].seen \/ db.inbox[<<UserOf[c], id>>].status # "pending"

Delivery == \A c \in Conns : Owed(c) => \A id \in Mine(db, c) : Settled(c, id) \/ Arriving(c, id)

-----------------------------------------------------------------------------
\* What is held by a sequence that is longer, or has lost its front.
LEMMA HoldsAppend ==
  ASSUME NEW S, NEW s \in Seq(S), NEW m \in S
  PROVE  Holds(Append(s, m), m) /\ \A l : Holds(s, l) => Holds(Append(s, m), l)
<1>1. /\ Len(s) \in Nat /\ Len(Append(s, m)) = Len(s) + 1 /\ Append(s, m)[Len(s) + 1] = m
      /\ \A i \in 1..Len(s) : Append(s, m)[i] = s[i]
  BY AppendProperties
<1> QED BY <1>1 DEF Holds

LEMMA HoldsTail ==
  ASSUME NEW S, NEW s \in Seq(S), s # << >>
  PROVE  \A l : Holds(s, l) <=> l = Head(s) \/ Holds(Tail(s), l)
<1>1. /\ Len(s) \in Nat \ {0} /\ Len(Tail(s)) = Len(s) - 1 /\ Head(s) = s[1]
      /\ \A i \in 1..Len(Tail(s)) : Tail(s)[i] = s[i + 1] /\ i + 1 \in 1..Len(s)
  BY FrontIs
<1> SUFFICES ASSUME NEW l PROVE Holds(s, l) <=> l = Head(s) \/ Holds(Tail(s), l)
  OBVIOUS
<1>2. ASSUME Holds(s, l) PROVE l = Head(s) \/ Holds(Tail(s), l)
  <2>1. PICK i \in 1..Len(s) : s[i] = l
    BY <1>2 DEF Holds
  <2>2. CASE i = 1
    BY <1>1, <2>1, <2>2
  <2>3. CASE i # 1
    <3> DEFINE j == i - 1
    <3>1. j \in 1..Len(Tail(s)) /\ j + 1 = i
      BY <1>1, <2>3
    <3> HIDE DEF j
    <3>2. Tail(s)[j] = l
      BY <1>1, <2>1, <3>1
    <3> QED BY <3>1, <3>2 DEF Holds
  <2> QED BY <2>2, <2>3
<1>3. 1 \in 1..Len(s)
  BY <1>1
<1>4. ASSUME l = Head(s) \/ Holds(Tail(s), l) PROVE Holds(s, l)
  <2>1. CASE l = Head(s)
    BY <1>1, <1>3, <2>1 DEF Holds
  <2>2. CASE Holds(Tail(s), l)
    BY <1>1, <2>2 DEF Holds
  <2> QED BY <1>4, <2>1, <2>2
<1> QED BY <1>2, <1>4

LEMMA HoldsNothing == \A l : ~ Holds(<< >>, l)
BY DEF Holds

LEMMA DeliveryInit == Init => Delivery
BY DEF Init, Delivery, Owed

\* What keeps delivery: nothing settled is undone, whoever is owed was owed
\* before or has everything under way, and nothing that was under way is lost.
LEMMA DeliveryFollows ==
  ASSUME Mail, Delivery, NEW e, e = db', Stored(e), Grows(db, e),
         \A r \in DOMAIN db.inbox : db.inbox[r].status # "pending" => e.inbox[r].status # "pending",
         skipped \subseteq skipped', \A c \in Conns : client[c].seen \subseteq client'[c].seen,
         \A c \in Conns : Owed(c)' =>
           \/ /\ Owed(c)
              /\ \A id \in Mine(e, c) : id \in 1..Len(db.messages) \/ Arriving(c, id)'
              /\ \A id \in Mine(db, c) : Arriving(c, id) => Settled(c, id)' \/ Arriving(c, id)'
           \/ \A id \in Mine(e, c) : Settled(c, id)' \/ Arriving(c, id)'
  PROVE  Delivery'
<1>1. ASSUME NEW c \in Conns, Owed(c)', NEW id \in Mine(e, c) PROVE Settled(c, id)' \/ Arriving(c, id)'
  <2>1. CASE id \in 1..Len(db.messages) /\ Owed(c)
             /\ \A i \in Mine(db, c) : Arriving(c, i) => Settled(c, i)' \/ Arriving(c, i)'
    <3>1. For(e, id) = For(db, id)
      <4>1. db.messages[id].chat \in 1..Len(db.chats)
        BY <2>1, MailSame DEF Stored
      <4> QED BY <2>1, <4>1 DEF Grows, For
    <3>2. id \in Mine(db, c)
      BY <2>1, <3>1 DEF Mine
    <3>3. CASE Arriving(c, id)
      BY <2>1, <3>2, <3>3
    <3>4. CASE Settled(c, id)
      <4>1. UserOf[c] \in Users
        BY MailSame
      <4>2. <<UserOf[c], id>> \in DOMAIN db.inbox
        <5>1. DOMAIN db.inbox = {r \in Users \X (1..Len(db.messages)) : r[1] \in For(db, r[2])}
          BY MailSame DEF Stored
        <5> QED BY <2>1, <3>2, <4>1, <5>1 DEF Mine
      <4> QED BY <3>4, <4>2 DEF Settled
    <3> QED BY <2>1, <3>2, <3>3, <3>4 DEF Delivery
  <2>2. CASE Arriving(c, id)'
    BY <2>2
  <2> QED BY <1>1, <2>1, <2>2
<1> QED BY <1>1 DEF Delivery, Mine, For

\* The same, where the messages and their rows stay as they are.
LEMMA DeliveryQuiet ==
  ASSUME Mail, Delivery, db' = db, skipped \subseteq skipped',
         \A c \in Conns : client[c].seen \subseteq client'[c].seen,
         \A c \in Conns : Owed(c)' =>
           Owed(c) /\ \A id \in Mine(db, c) : Arriving(c, id) => Settled(c, id)' \/ Arriving(c, id)'
  PROVE  Delivery'
<1> DEFINE e == db'
<1>1. e = db' /\ e = db /\ Stored(e) /\ Grows(db, e)
  BY MailSame
<1>2. \A c \in Conns : \A id \in Mine(e, c) : id \in 1..Len(db.messages)
  BY <1>1 DEF Mine
<1> HIDE DEF e
<1> QED BY <1>1, <1>2, DeliveryFollows

LEMMA DeliverySend == ASSUME Mail, Delivery, NEW c \in Conns, HandleSendMessage(c) PROVE Delivery'
<1> DEFINE e == db'  n == Len(db.messages) + 1
<1>1. /\ Stored(e) /\ Grows(db, e) /\ Len(e.messages) = n /\ Len(db.messages) \in Nat
      /\ todo' = [todo EXCEPT ![c] = todo'[c]] /\ todo[c] = << >> /\ Len(todo'[c]) = 2
      /\ todo'[c][2] = Publish(n) /\ UNCHANGED <<channel, client, skipped>>
      /\ \A r \in DOMAIN db.inbox : e.inbox[r] = db.inbox[r]
  BY SendIs, MailSame, SMTT(30) DEF Stored
<1>2. link' = link /\ e = db' /\ \A x \in Conns \ {c} : todo'[x] = todo[x]
  BY <1>1, MailSame DEF HandleSendMessage
<1> HIDE DEF e
<1>3. Holds(todo'[c], Publish(n)) /\ \A l : ~ Holds(todo[c], l)
  <2>1. 2 \in 1..Len(todo'[c])
    BY <1>1
  <2> QED BY <1>1, <2>1, HoldsNothing DEF Holds
<1>4. \A x \in Conns : \A l : Holds(todo[x], l) => Holds(todo'[x], l)
  BY <1>2, <1>3
<1>5. ASSUME NEW x \in Conns, Owed(x)' PROVE Owed(x) \/ x = c
  BY <1>1, <1>2, <1>5 DEF Owed
<1>6. ASSUME Owed(c)' PROVE Owed(c)
  <2>1. ~ Holds(todo'[c], Reply(SyncComplete))
    <3>1. todo'[c][1].do = "publish" \/ todo'[c][1].msg.type = "ack"
      BY MessagesAre, MailSame DEF HandleSendMessage, Does
    <3>2. todo'[c][2].do = "publish"
      BY <1>1, MessagesAre
    <3>3. \A i \in 1..Len(todo'[c]) : i = 1 \/ i = 2
      BY <1>1
    <3>4. Reply(SyncComplete).do = "reply" /\ Reply(SyncComplete).msg.type = "sync_complete"
      BY MessagesAre
    <3> QED BY <3>1, <3>2, <3>3, <3>4 DEF Holds
  <2> QED BY <1>1, <1>2, <1>6, <2>1 DEF Owed
<1>7. ASSUME NEW x \in Conns, NEW id \in Mine(e, x) PROVE id \in 1..Len(db.messages) \/ Arriving(x, id)'
  <2>1. id \in 1..n
    BY <1>1, <1>7 DEF Mine
  <2>2. id \in 1..Len(db.messages) \/ id = n
    BY <1>1, <2>1
  <2> QED BY <1>3, <2>2 DEF Arriving, Holds
<1>8. ASSUME NEW x \in Conns, NEW id, Arriving(x, id) PROVE Arriving(x, id)'
  BY <1>1, <1>4, <1>8, ZenonT(30) DEF Arriving, Holds
<1>9. \A x \in Conns : Owed(x)' =>
        /\ Owed(x)
        /\ \A id \in Mine(e, x) : id \in 1..Len(db.messages) \/ Arriving(x, id)'
        /\ \A id \in Mine(db, x) : Arriving(x, id) => Settled(x, id)' \/ Arriving(x, id)'
  BY <1>5, <1>6, <1>7, <1>8
<1>10. \A r \in DOMAIN db.inbox : db.inbox[r].status # "pending" => e.inbox[r].status # "pending"
  BY <1>1
<1> QED BY <1>1, <1>2, <1>9, <1>10, DeliveryFollows

LEMMA DeliveryMark ==
  ASSUME Mail, Delivery, NEW c \in Conns, HandleAck(c) \/ HandleRead(c)
  PROVE  Delivery'
<1>1. UNCHANGED <<link, todo, client, skipped>>
  BY MarkingIs DEF HandleAck, HandleRead
<1>2. \/ UNCHANGED <<db, channel>>
      \/ \E id \in client[c].seen, status \in {"delivered", "read"}, kind \in Kinds :
           Moves(c, id, status, kind) /\ id \in 1..Len(db.messages)
  <2>1. PICK id \in client[c].seen :
          \/ UpdateInbox(c, id, AckMatches(db.inbox[UserOf[c], id]), "delivered", "delivery_receipt")
          \/ UpdateInbox(c, id, ReadMatches(db.inbox[UserOf[c], id]), "read", "read_receipt")
    BY MarkingIs
  <2> DEFINE acks == AckMatches(db.inbox[UserOf[c], id])  reads == ReadMatches(db.inbox[UserOf[c], id])
  <2>2. UpdateInbox(c, id, acks, "delivered", "delivery_receipt")
          \/ UpdateInbox(c, id, reads, "read", "read_receipt")
    BY <2>1
  <2>3. {"delivery_receipt", "read_receipt"} = Kinds
    BY DEF Kinds
  <2> HIDE DEF acks, reads
  <2>4. \/ UNCHANGED <<db, channel>> \/ Moves(c, id, "delivered", "delivery_receipt")
        \/ Moves(c, id, "read", "read_receipt")
    BY <2>2, <2>3, MarkIs
  <2>5. id \in 1..Len(db.messages)
    BY <2>2, <2>3, MarkIs
  <2> QED BY <2>3, <2>4, <2>5
<1>3. CASE UNCHANGED <<db, channel>>
  BY <1>1, <1>3 DEF Delivery, Owed, Settled, Arriving, Holds, Mine, For
<1>4. ASSUME NEW id \in client[c].seen, NEW status \in {"delivered", "read"}, NEW kind \in Kinds,
             Moves(c, id, status, kind), id \in 1..Len(db.messages)
      PROVE  Delivery'
  <2> DEFINE e == db'  key == <<UserOf[c], id>>  m == Receipt(kind, id, UserOf[c])
  <2>1. /\ e = db' /\ Stored(e) /\ Grows(db, e) /\ e.messages = db.messages
        /\ e.inbox[key].status = status
        /\ \A r \in DOMAIN db.inbox : r # key => e.inbox[r] = db.inbox[r]
        /\ \A x \in Conns : channel'[x] \in {channel[x], Append(channel[x], m)}
    BY <1>4 DEF Moves
  <2>2. m \in Marks(db)
    BY <1>4, MailSame DEF Marks
  <2> HIDE DEF e, key, m
  <2>3. \A r \in DOMAIN db.inbox : db.inbox[r].status # "pending" => e.inbox[r].status # "pending"
    BY <1>4, <2>1
  <2>4. ASSUME NEW x \in Conns, NEW l, Holds(channel[x], l) PROVE Holds(channel'[x], l)
    <3>1. channel[x] \in Seq(Pushes(db, x)) /\ m \in Pushes(db, x)
      BY <2>2, MailSame DEF Pushes
    <3>2. Holds(Append(channel[x], m), l)
      BY <2>4, <3>1, HoldsAppend
    <3> QED BY <2>1, <2>4, <3>2
  <2>5. ASSUME NEW x \in Conns, NEW i, Arriving(x, i) PROVE Arriving(x, i)'
    BY <1>1, <2>4, <2>5 DEF Arriving, Holds
  <2>6. ASSUME NEW x \in Conns, Owed(x)' PROVE Owed(x)
    BY <1>1, <2>6 DEF Owed, Holds
  <2>7. \A x \in Conns : \A i \in Mine(e, x) : i \in 1..Len(db.messages)
    BY <2>1 DEF Mine
  <2>8. skipped \subseteq skipped' /\ \A x \in Conns : client[x].seen \subseteq client'[x].seen
    BY <1>1
  <2>9. \A x \in Conns : Owed(x)' =>
          /\ Owed(x)
          /\ \A i \in Mine(e, x) : i \in 1..Len(db.messages) \/ Arriving(x, i)'
          /\ \A i \in Mine(db, x) : Arriving(x, i) => Settled(x, i)' \/ Arriving(x, i)'
    BY <2>5, <2>6, <2>7
  <2> QED BY <2>1, <2>3, <2>8, <2>9, DeliveryFollows
<1> QED BY <1>2, <1>3, <1>4

-----------------------------------------------------------------------------
\* A sync puts under way what is pending.
LEMMA DeliverySync == ASSUME Mail, Delivery, NEW c \in Conns, HandleSync(c) PROVE Delivery'
<1> DEFINE e == db'
<1>1. /\ todo[c] = << >> /\ UNCHANGED <<channel, db, client, unacked, skipped>>
      /\ \A x \in Conns \ {c} : todo'[x] = todo[x]
      /\ \A id \in Mine(db, c) : db.inbox[UserOf[c], id].status = "pending" =>
           \E i \in 1..Len(todo'[c]) : todo'[c][i] = Reply(New(id))
  BY SyncIs
<1>2. link' = link
  BY DEF HandleSync
<1>3. e = db' /\ e = db /\ Stored(e) /\ Grows(db, e)
  BY <1>1, MailSame
<1> HIDE DEF e
<1>4. \A x \in Conns : \A l : Holds(todo[x], l) => Holds(todo'[x], l)
  BY <1>1, HoldsNothing
<1>5. ASSUME NEW id \in Mine(e, c) PROVE Settled(c, id)' \/ Arriving(c, id)'
  <2>1. id \in Mine(db, c)
    BY <1>3
  <2>2. CASE db.inbox[<<UserOf[c], id>>].status = "pending"
    <3>1. Holds(todo'[c], Reply(New(id)))
      BY <1>1, <2>1, <2>2 DEF Holds
    <3> QED BY <3>1 DEF Arriving, Holds
  <2>3. CASE db.inbox[<<UserOf[c], id>>].status # "pending"
    BY <1>1, <2>3 DEF Settled
  <2> QED BY <2>2, <2>3
<1>6. ASSUME NEW x \in Conns, x # c, Owed(x)'
      PROVE  /\ Owed(x)
             /\ \A id \in Mine(e, x) : id \in 1..Len(db.messages) \/ Arriving(x, id)'
             /\ \A id \in Mine(db, x) : Arriving(x, id) => Settled(x, id)' \/ Arriving(x, id)'
  <2>1. Owed(x)
    BY <1>1, <1>2, <1>6 DEF Owed, Holds
  <2>2. \A id \in Mine(e, x) : id \in 1..Len(db.messages)
    BY <1>3 DEF Mine
  <2>3. \A id : Arriving(x, id) => Arriving(x, id)'
    BY <1>1, <1>4, ZenonT(30) DEF Arriving, Holds
  <2> QED BY <2>1, <2>2, <2>3
<1>7. /\ \A r \in DOMAIN db.inbox : db.inbox[r].status # "pending" => e.inbox[r].status # "pending"
      /\ skipped \subseteq skipped' /\ \A x \in Conns : client[x].seen \subseteq client'[x].seen
  BY <1>1, <1>3
<1>8. \A x \in Conns : Owed(x)' =>
        \/ /\ Owed(x)
           /\ \A id \in Mine(e, x) : id \in 1..Len(db.messages) \/ Arriving(x, id)'
           /\ \A id \in Mine(db, x) : Arriving(x, id) => Settled(x, id)' \/ Arriving(x, id)'
        \/ \A id \in Mine(e, x) : Settled(x, id)' \/ Arriving(x, id)'
  BY <1>5, <1>6
<1> QED BY <1>3, <1>7, <1>8, DeliveryFollows

\* What a handler sends has been received; what it does not come to, on a
\* closed connection, is recorded as skipped or was of this connection only.
LEMMA DeliveryReply == ASSUME Mail, Delivery, NEW c \in Conns, SendReply(c) PROVE Delivery'
<1>1. /\ todo[c] # << >> /\ Head(todo[c]).do = "reply" /\ db' = db /\ channel' = channel /\ link' = link
      /\ todo[c] \in Seq(Script(db, c))
  BY MailSame DEF SendReply
<1>2. Head(todo[c]).msg \in Heard(db, c) /\ Head(todo[c]) = Reply(Head(todo[c]).msg)
  BY <1>1, MailSame, FrontIs, InstructionsAre
<1>3. CASE link[c] = "open"
  <2> DEFINE m == Head(todo[c]).msg
  <2>1. /\ todo' = [todo EXCEPT ![c] = Tail(todo[c])] /\ Receives(c, m) /\ skipped' = skipped
    BY <1>3 DEF SendReply, Does
  <2>2. /\ \A x \in Conns \ {c} : client'[x] = client[x]
        /\ client[c].seen \subseteq client'[c].seen
        /\ \A id : m = New(id) => client'[c].seen = client[c].seen \cup {id}
        /\ client'[c].synced = (client[c].synced \/ m = SyncComplete)
    BY <1>2, <2>1, ReceivesIs
  <2>3. todo'[c] = Tail(todo[c]) /\ \A x \in Conns \ {c} : todo'[x] = todo[x]
    BY <2>1, MailSame
  <2> HIDE DEF m
  <2>4. \A l : Holds(todo[c], l) <=> l = Reply(m) \/ Holds(todo'[c], l)
    BY <1>1, <1>2, <2>3, HoldsTail DEF m
  <2>5. client[c].synced \in BOOLEAN
    BY MailSame DEF DeviceType
  <2>6. ASSUME NEW x \in Conns, Owed(x)' PROVE Owed(x)
    <3>1. CASE x = c
      <4>1. client'[c].synced => client[c].synced \/ Holds(todo[c], Reply(SyncComplete))
        BY <2>2, <2>4, <2>5
      <4> QED BY <1>1, <2>4, <2>6, <3>1, <4>1 DEF Owed, Holds
    <3>2. CASE x # c
      BY <1>1, <2>2, <2>3, <2>6, <3>2 DEF Owed, Holds
    <3> QED BY <3>1, <3>2
  <2>7. ASSUME NEW x \in Conns, NEW id, Arriving(x, id) PROVE id \in client'[x].seen \/ Arriving(x, id)'
    <3>1. ASSUME NEW y \in Conns, Holds(todo[y], Publish(id)) PROVE Holds(todo'[y], Publish(id))
      <4>1. Publish(id) # Reply(m)
        <5>1. Publish(id).do = "publish" /\ Reply(m).do = "reply"
          BY DEF Publish, Reply
        <5> QED BY <5>1
      <4> QED BY <2>3, <2>4, <3>1, <4>1
    <3>2. ASSUME Holds(todo[x], Reply(New(id)))
          PROVE  id \in client'[x].seen \/ Holds(todo'[x], Reply(New(id)))
      <4>1. CASE x = c /\ Reply(New(id)) = Reply(m)
        <5>1. m = New(id)
          <6>1. Reply(New(id)).msg = New(id) /\ Reply(m).msg = m
            BY DEF Reply
          <6> QED BY <4>1, <6>1
        <5> QED BY <2>2, <4>1, <5>1
      <4> QED BY <2>3, <2>4, <3>2, <4>1
    <3> QED BY <1>1, <2>7, <3>1, <3>2 DEF Arriving, Holds
  <2>8. \A x \in Conns : client[x].seen \subseteq client'[x].seen
    BY <2>2
  <2>9. \A x \in Conns : Owed(x)' =>
          Owed(x) /\ \A id \in Mine(db, x) : Arriving(x, id) => Settled(x, id)' \/ Arriving(x, id)'
    BY <2>6, <2>7 DEF Settled
  <2> QED BY <1>1, <2>1, <2>8, <2>9, DeliveryQuiet
<1>4. CASE link[c] # "open"
  <2>1. /\ todo' = [todo EXCEPT ![c] = << >>] /\ client' = client
        /\ skipped' = skipped \cup {i.id : i \in {j \in Range(todo[c]) : j.do = "publish"}}
    BY <1>4 DEF SendReply, Does
  <2>2. todo'[c] = << >> /\ \A x \in Conns \ {c} : todo'[x] = todo[x]
    BY <2>1, MailSame
  <2>3. ASSUME NEW id, Holds(todo[c], Publish(id)) PROVE id \in skipped'
    <3>1. Publish(id) \in Range(todo[c]) /\ Publish(id).do = "publish" /\ Publish(id).id = id
      BY <1>1, <2>3, RangeOfSeq DEF Holds, Range, Publish
    <3> QED BY <2>1, <3>1
  <2>4. ASSUME NEW x \in Conns, Owed(x)' PROVE Owed(x) /\ x # c
    BY <1>1, <1>4, <2>1, <2>2, <2>4 DEF Owed, Holds
  <2>5. ASSUME NEW x \in Conns \ {c}, NEW id, Arriving(x, id) PROVE id \in skipped' \/ Arriving(x, id)'
    BY <1>1, <2>2, <2>3, <2>5 DEF Arriving, Holds
  <2>6. \A x \in Conns : Owed(x)' =>
          Owed(x) /\ \A id \in Mine(db, x) : Arriving(x, id) => Settled(x, id)' \/ Arriving(x, id)'
    BY <2>4, <2>5 DEF Settled
  <2>7. skipped \subseteq skipped' /\ \A x \in Conns : client[x].seen \subseteq client'[x].seen
    BY <2>1
  <2> QED BY <1>1, <2>6, <2>7, DeliveryQuiet
<1> QED BY <1>3, <1>4

\* Who is owed something is subscribed, if the subscriber waits for Redis, and
\* so gets what is published.
LEMMA OwedSubscribed ==
  ASSUME ~ Impatient, Mail, Lines, NEW c \in Conns, Owed(c) PROVE task[c] = "subscribed"
<1>1. Line(c) /\ link[c] = "open"
  BY DEF Lines, Owed
<1>2. phase[c] = "serving"
  BY <1>1, HoldsNothing DEF Line, Owed, Active
<1> QED BY <1>1, <1>2 DEF Line, Tasks

LEMMA DeliveryPublish ==
  ASSUME ~ Impatient, Mail, Lines, Delivery, NEW c \in Conns, PublishMessage(c) PROVE Delivery'
<1> DEFINE p == Head(todo[c]).id
<1>1. /\ todo[c] # << >> /\ Head(todo[c]).do = "publish" /\ UNCHANGED <<link, db, client, skipped>>
      /\ PublishTo(Recipients(p), New(p)) /\ todo' = [todo EXCEPT ![c] = Tail(todo[c])]
      /\ todo[c] \in Seq(Script(db, c))
  BY MailSame DEF PublishMessage, Does
<1>2. Head(todo[c]) = Publish(p) /\ p \in 1..Len(db.messages)
  BY <1>1, MailSame, FrontIs, InstructionsAre
<1>3. \A x \in Conns : UserOf[x] \in Recipients(p) => New(p) \in Pushes(db, x)
  BY <1>2 DEF Pushes, Mine, For, Recipients, Members
<1>4. \A x \in Conns : p \in Mine(db, x) => UserOf[x] \in Recipients(p)
  BY DEF Mine, For, Recipients, Members
<1>5. todo'[c] = Tail(todo[c]) /\ \A x \in Conns \ {c} : todo'[x] = todo[x]
  BY <1>1, MailSame
<1> HIDE DEF p
<1>6. \A l : Holds(todo[c], l) <=> l = Publish(p) \/ Holds(todo'[c], l)
  BY <1>1, <1>2, <1>5, HoldsTail
<1>7. \A x \in Conns : channel'[x] = IF task[x] = "subscribed" /\ UserOf[x] \in Recipients(p)
                                       THEN Append(channel[x], New(p)) ELSE channel[x]
  BY <1>1 DEF PublishTo
<1>8. ASSUME NEW x \in Conns, NEW l, Holds(channel[x], l) PROVE Holds(channel'[x], l)
  <2>1. CASE task[x] = "subscribed" /\ UserOf[x] \in Recipients(p)
    <3>1. channel[x] \in Seq(Pushes(db, x)) /\ New(p) \in Pushes(db, x)
      BY <1>3, <2>1, MailSame
    <3>2. Holds(Append(channel[x], New(p)), l)
      BY <1>8, <3>1, HoldsAppend
    <3> QED BY <1>7, <2>1, <3>2
  <2> QED BY <1>7, <1>8, <2>1
<1>9. ASSUME NEW x \in Conns, Owed(x)' PROVE Owed(x)
  <2>1. Reply(SyncComplete) # Publish(p)
    <3>1. Reply(SyncComplete).do = "reply" /\ Publish(p).do = "publish"
      BY DEF Publish, Reply
    <3> QED BY <3>1
  <2> QED BY <1>1, <1>5, <1>6, <1>9, <2>1 DEF Owed, Holds
<1>10. ASSUME NEW x \in Conns, Owed(x), NEW id \in Mine(db, x), Arriving(x, id) PROVE Arriving(x, id)'
  <2>1. CASE id = p
    <3>1. task[x] = "subscribed" /\ UserOf[x] \in Recipients(p)
      BY <1>4, <1>10, <2>1, OwedSubscribed
    <3>2. channel[x] \in Seq(Pushes(db, x)) /\ New(p) \in Pushes(db, x)
      BY <1>3, <3>1, MailSame
    <3>3. Holds(channel'[x], New(id))
      BY <1>7, <2>1, <3>1, <3>2, HoldsAppend
    <3> QED BY <3>3 DEF Arriving, Holds
  <2>2. CASE id # p
    <3>1. ASSUME NEW y \in Conns, Holds(todo[y], Publish(id)) PROVE Holds(todo'[y], Publish(id))
      <4>1. Publish(id) # Publish(p)
        <5>1. Publish(id).id = id /\ Publish(p).id = p
          BY DEF Publish
        <5> QED BY <2>2, <5>1
      <4> QED BY <1>5, <1>6, <3>1, <4>1
    <3>2. ASSUME Holds(todo[x], Reply(New(id))) PROVE Holds(todo'[x], Reply(New(id)))
      <4>1. Reply(New(id)) # Publish(p)
        <5>1. Reply(New(id)).do = "reply" /\ Publish(p).do = "publish"
          BY DEF Publish, Reply
        <5> QED BY <5>1
      <4> QED BY <1>5, <1>6, <3>2, <4>1
    <3> QED BY <1>8, <1>10, <3>1, <3>2 DEF Arriving, Holds
  <2> QED BY <2>1, <2>2
<1>11. \A x \in Conns : Owed(x)' =>
         Owed(x) /\ \A id \in Mine(db, x) : Arriving(x, id) => Settled(x, id)' \/ Arriving(x, id)'
  BY <1>9, <1>10
<1>12. skipped \subseteq skipped' /\ \A x \in Conns : client[x].seen \subseteq client'[x].seen
  BY <1>1
<1> QED BY <1>1, <1>11, <1>12, DeliveryQuiet

LEMMA DeliveryForward == ASSUME Mail, Delivery, NEW c \in Conns, Forward(c) PROVE Delivery'
<1>1. channel[c] # << >> /\ UNCHANGED <<link, todo, db, skipped>> /\ channel[c] \in Seq(Pushes(db, c))
  BY MailSame DEF Forward
<1>2. Head(channel[c]) \in Pushes(db, c)
  BY <1>1, FrontIs
<1>3. CASE link[c] = "open"
  <2> DEFINE m == Head(channel[c])
  <2>1. channel' = [channel EXCEPT ![c] = Tail(channel[c])] /\ Receives(c, m)
    BY <1>3 DEF Forward
  <2>2. m \in Heard(db, c)
    BY <1>2 DEF Pushes, Heard
  <2>3. /\ \A x \in Conns \ {c} : client'[x] = client[x]
        /\ client[c].seen \subseteq client'[c].seen
        /\ \A id : m = New(id) => client'[c].seen = client[c].seen \cup {id}
        /\ client'[c].synced = (client[c].synced \/ m = SyncComplete)
    BY <2>1, <2>2, ReceivesIs
  <2>4. m # SyncComplete
    <3>1. m.type # "sync_complete"
      BY <1>2, MessagesAre DEF Pushes, Marks, Kinds
    <3> QED BY <3>1, MessagesAre
  <2>5. client[c].synced \in BOOLEAN
    BY MailSame DEF DeviceType
  <2>6. channel'[c] = Tail(channel[c]) /\ \A x \in Conns \ {c} : channel'[x] = channel[x]
    BY <2>1, MailSame
  <2>7. \A l : Holds(channel[c], l) <=> l = m \/ Holds(channel'[c], l)
    BY <1>1, <2>6, HoldsTail
  <2> HIDE DEF m
  <2>8. client'[c].synced = client[c].synced
    BY <2>3, <2>4, <2>5
  <2>9. ASSUME NEW x \in Conns, Owed(x)' PROVE Owed(x)
    BY <1>1, <2>3, <2>8, <2>9 DEF Owed, Holds
  <2>10. ASSUME NEW x \in Conns, NEW id, Arriving(x, id) PROVE id \in client'[x].seen \/ Arriving(x, id)'
    <3>1. ASSUME Holds(channel[x], New(id)) PROVE id \in client'[x].seen \/ Holds(channel'[x], New(id))
      BY <2>3, <2>6, <2>7, <3>1
    <3> QED BY <1>1, <2>10, <3>1 DEF Arriving, Holds
  <2>11. \A x \in Conns : Owed(x)' =>
           Owed(x) /\ \A id \in Mine(db, x) : Arriving(x, id) => Settled(x, id)' \/ Arriving(x, id)'
    BY <2>9, <2>10 DEF Settled
  <2>12. skipped \subseteq skipped' /\ \A x \in Conns : client[x].seen \subseteq client'[x].seen
    BY <1>1, <2>3
  <2> QED BY <1>1, <2>11, <2>12, DeliveryQuiet
<1>4. CASE link[c] # "open"
  <2>1. channel' = [channel EXCEPT ![c] = << >>] /\ client' = client
    BY <1>4 DEF Forward
  <2>2. \A x \in Conns \ {c} : channel'[x] = channel[x]
    BY <2>1, MailSame
  <2>3. ASSUME NEW x \in Conns, Owed(x)' PROVE Owed(x) /\ x # c
    BY <1>1, <1>4, <2>1, <2>3 DEF Owed, Holds
  <2>4. ASSUME NEW x \in Conns \ {c}, NEW id, Arriving(x, id) PROVE Arriving(x, id)'
    BY <1>1, <2>2, <2>4 DEF Arriving, Holds
  <2>5. \A x \in Conns : Owed(x)' =>
          Owed(x) /\ \A id \in Mine(db, x) : Arriving(x, id) => Settled(x, id)' \/ Arriving(x, id)'
    BY <2>3, <2>4
  <2>6. skipped \subseteq skipped' /\ \A x \in Conns : client[x].seen \subseteq client'[x].seen
    BY <1>1, <2>1
  <2> QED BY <1>1, <2>5, <2>6, DeliveryQuiet
<1> QED BY <1>3, <1>4

\* Every step keeps what is owed under way.
LEMMA DeliveryStep ==
  ASSUME ~ Impatient PROVE Presence /\ Mail /\ Lines /\ Delivery /\ [Next]_vars => Delivery'
<1> SUFFICES ASSUME Presence, Mail, Lines, Delivery, [Next]_vars PROVE Delivery'
  OBVIOUS
<1>1. ASSUME UNCHANGED <<todo, channel, db, client, skipped>>,
             \A x \in Conns : link'[x] = "open" => link[x] = "open" \/ (~ client[x].synced /\ todo[x] = << >>)
      PROVE  Delivery'
  <2>1. ASSUME NEW x \in Conns, Owed(x)' PROVE Owed(x)
    BY <1>1, <2>1, HoldsNothing DEF Owed, Holds
  <2>2. \A x \in Conns : \A id : Arriving(x, id) => Arriving(x, id)'
    BY <1>1 DEF Arriving, Holds
  <2> QED BY <1>1, <2>1, <2>2, DeliveryQuiet
<1>2. ASSUME NEW c \in Conns, Connect(c) PROVE Delivery'
  <2>1. phase[c] = "new" /\ link' = [link EXCEPT ![c] = "open"] /\ UNCHANGED <<todo, channel, db, client, skipped>>
    BY <1>2 DEF Connect
  <2>2. ~ client[c].synced /\ todo[c] = << >>
    BY <2>1 DEF Lines, Line
  <2>3. \A x \in Conns \ {c} : link'[x] = link[x]
    BY <2>1 DEF Presence, Shape
  <2> QED BY <1>1, <2>1, <2>2, <2>3
<1>3. ASSUME NEW c \in Conns, ClientCloses(c) PROVE Delivery'
  <2>1. link' = [link EXCEPT ![c] = "gone"] /\ UNCHANGED <<todo, channel, db, client, skipped>>
    BY <1>3 DEF ClientCloses
  <2>2. \A x \in Conns : link'[x] = "open" => link[x] = "open"
    BY <2>1 DEF Presence, Shape
  <2> QED BY <1>1, <2>1, <2>2
<1>4. ASSUME NEW c \in Conns, RedisSubscribes(c) \/ Greet(c) \/ HandleHeartbeat(c) PROVE Delivery'
  <2>1. UNCHANGED <<link, todo, channel, db, client, skipped>>
    BY <1>4 DEF RedisSubscribes, Greet, HandleHeartbeat
  <2> QED BY <1>1, <2>1
<1>5. ASSUME NEW c \in Conns, HandleEnd(c) PROVE Delivery'
  <2>1. /\ link[c] = "gone" /\ channel' = [channel EXCEPT ![c] = << >>]
        /\ UNCHANGED <<link, todo, db, client, skipped>>
    BY <1>5 DEF HandleEnd
  <2>2. \A x \in Conns \ {c} : channel'[x] = channel[x]
    BY <2>1, MailSame
  <2>3. ASSUME NEW x \in Conns, Owed(x)' PROVE Owed(x) /\ x # c
    BY <2>1, <2>3 DEF Owed, Holds
  <2>4. ASSUME NEW x \in Conns \ {c}, NEW id, Arriving(x, id) PROVE Arriving(x, id)'
    BY <2>1, <2>2, <2>4 DEF Arriving, Holds
  <2>5. \A x \in Conns : Owed(x)' =>
          Owed(x) /\ \A id \in Mine(db, x) : Arriving(x, id) => Settled(x, id)' \/ Arriving(x, id)'
    BY <2>3, <2>4
  <2> QED BY <2>1, <2>5, DeliveryQuiet
<1>6. ASSUME NEW c \in Conns, HandleCreateChat(c) PROVE Delivery'
  <2> DEFINE e == db'
  <2>1. /\ e = db' /\ Stored(e) /\ Grows(db, e) /\ e.messages = db.messages /\ e.inbox = db.inbox
        /\ UNCHANGED <<todo, channel, client, skipped>>
    BY <1>6, CreateIs
  <2>2. link' = link
    BY <1>6 DEF HandleCreateChat
  <2> HIDE DEF e
  <2>3. \A x \in Conns : Owed(x)' => Owed(x)
    BY <2>1, <2>2 DEF Owed, Holds
  <2>4. \A x \in Conns : \A id : Arriving(x, id) => Arriving(x, id)'
    BY <2>1 DEF Arriving, Holds
  <2>5. \A x \in Conns : \A id \in Mine(e, x) : id \in 1..Len(db.messages)
    BY <2>1 DEF Mine
  <2>6. \A x \in Conns : Owed(x)' =>
          /\ Owed(x)
          /\ \A id \in Mine(e, x) : id \in 1..Len(db.messages) \/ Arriving(x, id)'
          /\ \A id \in Mine(db, x) : Arriving(x, id) => Settled(x, id)' \/ Arriving(x, id)'
    BY <2>3, <2>4, <2>5
  <2>7. /\ \A r \in DOMAIN db.inbox : db.inbox[r].status # "pending" => e.inbox[r].status # "pending"
        /\ skipped \subseteq skipped' /\ \A x \in Conns : client[x].seen \subseteq client'[x].seen
    BY <2>1
  <2> QED BY <2>1, <2>6, <2>7, DeliveryFollows
<1>7. ASSUME Crash PROVE Delivery'
  <2>1. link' = [c \in Conns |-> IF phase[c] = "new" THEN link[c] ELSE "gone"]
    BY <1>7 DEF Crash
  <2>2. \A c \in Conns : link'[c] # "open"
    BY <2>1 DEF Lines, Line
  <2> QED BY <2>2 DEF Delivery, Owed
<1>8. ASSUME NEW u \in Users, LeaseExpires(u) PROVE Delivery'
  <2>1. UNCHANGED <<link, todo, channel, db, client, skipped>>
    BY <1>8 DEF LeaseExpires
  <2> QED BY <1>1, <2>1
<1>9. ASSUME Restart \/ UNCHANGED vars PROVE Delivery'
  <2>1. UNCHANGED <<link, todo, channel, db, client, skipped>>
    BY <1>9 DEF Restart, vars
  <2> QED BY <1>1, <2>1
<1> QED
  BY <1>2, <1>3, <1>4, <1>5, <1>6, <1>7, <1>8, <1>9,
     DeliverySend, DeliveryMark, DeliverySync, DeliveryReply, DeliveryPublish, DeliveryForward
  DEF Next, Handle, Runs

\* If the subscriber waits for Redis, a connected device that synced, before a
\* message was stored or after, has it or finds it on its way as long as it is
\* pending; once nothing is on its way it has it.
THEOREM MessagesDoArrive == ASSUME ~ Impatient PROVE Spec => []MessagesArrive
<1>1. Mail /\ Delivery => MessagesArrive
  <2> SUFFICES ASSUME Mail, Delivery, Quiet, NEW c \in Conns, NEW id \in Missing(c)
               PROVE  db.inbox[<<UserOf[c], id>>].status # "pending"
    BY DEF MessagesArrive
  <2>1. /\ client[c].synced /\ link[c] = "open" /\ id \in DOMAIN db.messages
        /\ UserOf[c] \in Recipients(id) /\ id \notin skipped /\ id \notin client[c].seen
    BY DEF Missing
  <2>2. DOMAIN db.messages = 1..Len(db.messages)
    BY MailSame DEF Stored
  <2>3. id \in Mine(db, c)
    BY <2>1, <2>2 DEF Mine, For, Recipients, Members
  <2>4. ~ Arriving(c, id)
    BY HoldsNothing DEF Quiet, Arriving
  <2> QED BY <2>1, <2>3, <2>4 DEF Delivery, Owed, Settled
<1> QED
  BY PresenceInit, PresenceStep, MailInit, MailStep, LinesInit, LinesStep, DeliveryInit, DeliveryStep,
     <1>1, PTL DEF Spec

-----------------------------------------------------------------------------
(* The store.  Chats and receipts are made of the tables of a database d.   *)

Counter(d, k) == IF d.chats[k].last = NoCounter THEN 0 ELSE d.chats[k].last

\* A chat's messages are numbered from one, without gaps and without a number
\* used twice; a row that is not pending has been delivered.
IsNumber(d, k, n) == \E id \in 1..Len(d.messages) : d.messages[id].chat = k /\ d.messages[id].seq = n
Counts(d) ==
  /\ \A i, j \in 1..Len(d.messages) :
       d.messages[i].chat = d.messages[j].chat /\ d.messages[i].seq = d.messages[j].seq => i = j
  /\ \A k \in 1..Len(d.chats) : \A n : IsNumber(d, k, n) <=> n \in 1..Counter(d, k)
  /\ \A r \in DOMAIN d.inbox : d.inbox[r].delivered = (d.inbox[r].status # "pending")

NumbersIn(d, k) == {d.messages[id].seq : id \in {i \in DOMAIN d.messages : d.messages[i].chat = k}}
MessageIn(d, k, n) ==
  d.messages[CHOOSE id \in DOMAIN d.messages : d.messages[id].chat = k /\ d.messages[id].seq = n]
PostIn(d, k, n) == [sender |-> MessageIn(d, k, n).sender, content |-> MessageIn(d, k, n).content]
PostType == [sender : Users, content : Nat]
LogIn(d, k) == [n \in NumbersIn(d, k) |-> PostIn(d, k, n)]
ChatsIn(d) == [k \in DOMAIN d.chats |-> [members |-> d.chats[k].members, log |-> LogIn(d, k)]]

KeyIn(d, r) == <<d.messages[r[2]].chat, d.messages[r[2]].seq, r[1]>>
StatusOf(row) == IF row.delivered = (row.status # "pending") THEN row.status ELSE "none"
ReceiptsIn(d) ==
  [x \in {KeyIn(d, r) : r \in DOMAIN d.inbox} |->
     StatusOf(d.inbox[CHOOSE r \in DOMAIN d.inbox : KeyIn(d, r) = x])]

LEMMA MappingIs ==
  /\ Chats = ChatsIn(db) /\ Receipts = ReceiptsIn(db)
  /\ Chats' = ChatsIn(db') /\ Receipts' = ReceiptsIn(db')
<1>1. Chats = ChatsIn(db)
  BY DEF Chats, ChatsIn, Numbers, NumbersIn, Numbered, MessageIn, PostIn, LogIn
<1>2. Receipts = ReceiptsIn(db)
  BY DEF Receipts, ReceiptsIn, KeyIn, StatusOf
<1>3. Chats' = ChatsIn(db')
  BY DEF Chats, ChatsIn, Numbers, NumbersIn, Numbered, MessageIn, PostIn, LogIn
<1>4. Receipts' = ReceiptsIn(db')
  BY DEF Receipts, ReceiptsIn, KeyIn, StatusOf
<1> QED BY <1>1, <1>2, <1>3, <1>4

\* The number of a message finds it.
LEMMA PostIs ==
  ASSUME NEW d, Stored(d), Counts(d), NEW id \in 1..Len(d.messages)
  PROVE  PostIn(d, d.messages[id].chat, d.messages[id].seq)
           = [sender |-> d.messages[id].sender, content |-> d.messages[id].content]
<1> DEFINE P(i) == d.messages[i].chat = d.messages[id].chat /\ d.messages[i].seq = d.messages[id].seq
           c == CHOOSE i \in DOMAIN d.messages : P(i)
<1>1. DOMAIN d.messages = 1..Len(d.messages)
  BY DEF Stored
<1>2. c \in 1..Len(d.messages) /\ P(c)
  BY <1>1
<1>3. c = id
  BY <1>2 DEF Counts
<1> QED BY <1>3 DEF PostIn, MessageIn

\* The log of a chat is a sequence, as long as its counter says.
LEMMA LogIs ==
  ASSUME NEW d, Stored(d), Counts(d), NEW k \in 1..Len(d.chats)
  PROVE  /\ Counter(d, k) \in Nat /\ LogIn(d, k) \in Seq(PostType) /\ Len(LogIn(d, k)) = Counter(d, k)
         /\ \A n \in 1..Counter(d, k) : LogIn(d, k)[n] = PostIn(d, k, n) /\ PostIn(d, k, n) \in PostType
<1>1. Counter(d, k) \in Nat
  <2>1. d.chats[k] \in ChatType
    BY ElementOfSeq DEF Stored
  <2>2. d.chats[k].last \in Nat \cup {NoCounter}
    BY <2>1 DEF ChatType
  <2> QED BY <2>2 DEF Counter
<1>2. NumbersIn(d, k) = 1..Counter(d, k)
  <2>1. DOMAIN d.messages = 1..Len(d.messages)
    BY DEF Stored
  <2>2. \A n : n \in NumbersIn(d, k) <=> IsNumber(d, k, n)
    BY <2>1 DEF NumbersIn, IsNumber
  <2> QED BY <2>2 DEF Counts
<1>3. LogIn(d, k) = [n \in 1..Counter(d, k) |-> PostIn(d, k, n)]
  BY <1>2 DEF LogIn
<1>4. ASSUME NEW n \in 1..Counter(d, k) PROVE PostIn(d, k, n) \in PostType
  <2>1. PICK id \in 1..Len(d.messages) : d.messages[id].chat = k /\ d.messages[id].seq = n
    BY DEF Counts, IsNumber
  <2>2. d.messages[id] \in MessageType
    BY ElementOfSeq DEF Stored
  <2>3. PostIn(d, k, n) = [sender |-> d.messages[id].sender, content |-> d.messages[id].content]
    BY <2>1, PostIs
  <2> QED BY <2>2, <2>3 DEF MessageType, PostType
<1> QED BY <1>1, <1>3, <1>4

\* A row is found under its message's chat and number and its user.
LEMMA ReceiptIs ==
  ASSUME NEW d, Stored(d), Counts(d)
  PROVE  /\ DOMAIN ReceiptsIn(d) = {KeyIn(d, r) : r \in DOMAIN d.inbox}
         /\ \A r \in DOMAIN d.inbox : ReceiptsIn(d)[KeyIn(d, r)] = d.inbox[r].status
         /\ \A r, s \in DOMAIN d.inbox : KeyIn(d, r) = KeyIn(d, s) => r = s
<1>1. DOMAIN ReceiptsIn(d) = {KeyIn(d, r) : r \in DOMAIN d.inbox}
  BY DEF ReceiptsIn
<1>2. ASSUME NEW r \in DOMAIN d.inbox, NEW s \in DOMAIN d.inbox, KeyIn(d, r) = KeyIn(d, s) PROVE r = s
  <2>1. /\ r = <<r[1], r[2]>> /\ s = <<s[1], s[2]>> /\ r[2] \in 1..Len(d.messages) /\ s[2] \in 1..Len(d.messages)
    BY DEF Stored
  <2>2. /\ d.messages[r[2]].chat = d.messages[s[2]].chat /\ d.messages[r[2]].seq = d.messages[s[2]].seq
        /\ r[1] = s[1]
    BY <1>2 DEF KeyIn
  <2>3. r[2] = s[2]
    BY <2>1, <2>2 DEF Counts
  <2> QED BY <2>1, <2>2, <2>3
<1>3. ASSUME NEW r \in DOMAIN d.inbox PROVE ReceiptsIn(d)[KeyIn(d, r)] = d.inbox[r].status
  <2> DEFINE c == CHOOSE s \in DOMAIN d.inbox : KeyIn(d, s) = KeyIn(d, r)
  <2>1. c \in DOMAIN d.inbox /\ KeyIn(d, c) = KeyIn(d, r)
    OBVIOUS
  <2>2. c = r
    BY <1>2, <2>1
  <2>3. ReceiptsIn(d)[KeyIn(d, r)] = StatusOf(d.inbox[c])
    BY DEF ReceiptsIn
  <2>4. StatusOf(d.inbox[r]) = d.inbox[r].status
    BY DEF Counts, StatusOf
  <2> QED BY <2>2, <2>3, <2>4
<1> QED BY <1>1, <1>2, <1>3
-----------------------------------------------------------------------------
\* What store_message writes, column by column.
Wrote(d, k, user, x, e) ==
  LET id == Len(d.messages) + 1
      n == Counter(d, k) + 1
      rows == {<<u, id>> : u \in d.chats[k].members \ {user}}
  IN  /\ Stored(e) /\ id \in Nat /\ Len(e.messages) = id /\ Len(e.chats) = Len(d.chats)
      /\ \A j \in 1..Len(d.chats) : e.chats[j].members = d.chats[j].members
      /\ Counter(e, k) = n
      /\ \A j \in 1..Len(d.chats) : j # k => Counter(e, j) = Counter(d, j)
      /\ \A i \in 1..Len(d.messages) : e.messages[i] = d.messages[i]
      /\ e.messages[id].chat = k /\ e.messages[id].seq = n
      /\ e.messages[id].sender = user /\ e.messages[id].content = x
      /\ DOMAIN e.inbox = DOMAIN d.inbox \cup rows
      /\ \A r \in DOMAIN d.inbox : r \notin rows /\ e.inbox[r] = d.inbox[r]
      /\ \A r \in rows : e.inbox[r].status = "pending" /\ e.inbox[r].delivered = FALSE

LEMMA StoreWrites ==
  ASSUME NEW d, Stored(d), NEW k \in 1..Len(d.chats), NEW user \in d.chats[k].members, NEW x \in Nat,
         NEW e, e = StoreMessage(d, k, user, x)
  PROVE  Wrote(d, k, user, x, e)
<1> DEFINE id == Len(d.messages) + 1  n == Counter(d, k) + 1
           rows == {<<u, id>> : u \in d.chats[k].members \ {user}}
<1> DEFINE next == IF d.chats[k].last = NoCounter THEN 1 ELSE d.chats[k].last + 1
           m == [chat |-> k, sender |-> user, seq |-> next, content |-> x]
           chats == [d.chats EXCEPT ![k].last = next]
           messages == Append(d.messages, m)
           fresh == [status |-> "pending", delivered |-> FALSE]
           inbox == [r \in DOMAIN d.inbox \cup rows |-> IF r \in rows THEN fresh ELSE d.inbox[r]]
<1>1. e.chats = chats /\ e.messages = messages /\ e.inbox = inbox
  BY DEF StoreMessage
<1>2. /\ Stored(e) /\ Len(e.messages) = id /\ Len(e.chats) = Len(d.chats) /\ Len(d.messages) \in Nat
      /\ \A j \in 1..Len(d.chats) : e.chats[j].members = d.chats[j].members
      /\ \A i \in 1..Len(d.messages) : e.messages[i] = d.messages[i]
  BY StoreIs, SMTT(30) DEF Stored, Grows
<1>3. d.chats[k] \in ChatType /\ d.chats \in Seq(ChatType)
  BY ElementOfSeq DEF Stored
<1>4. next \in Nat /\ next = n
  BY <1>3, ChatAssumption DEF ChatType, Counter
<1> HIDE DEF next
<1>5. chats[k].last = next /\ \A j \in 1..Len(d.chats) : j # k => chats[j] = d.chats[j]
  <2>1. DOMAIN d.chats = 1..Len(d.chats) /\ k \in DOMAIN d.chats
    BY <1>3
  <2>2. \E r : d.chats[k] = [members |-> d.chats[k].members, last |-> r]
    BY <1>3 DEF ChatType
  <2> QED BY <2>1, <2>2
<1>6. Counter(e, k) = n /\ \A j \in 1..Len(d.chats) : j # k => Counter(e, j) = Counter(d, j)
  <2>1. next # NoCounter
    BY <1>4, ChatAssumption
  <2> QED BY <1>1, <1>4, <1>5, <2>1 DEF Counter
<1>7. /\ e.messages[id].chat = k /\ e.messages[id].seq = n
      /\ e.messages[id].sender = user /\ e.messages[id].content = x
  <2>1. d.messages \in Seq(MessageType)
    BY DEF Stored
  <2> HIDE DEF m
  <2>2. messages[id] = m
    BY <2>1
  <2> QED BY <1>1, <1>4, <2>2 DEF m
<1>8. \A r \in DOMAIN d.inbox : r \notin rows
  <2> TAKE r \in DOMAIN d.inbox
  <2>1. r[2] \in 1..Len(d.messages)
    BY DEF Stored
  <2>2. r[2] # id
    BY <1>2, <2>1
  <2> QED BY <2>2
<1>9. fresh.status = "pending" /\ fresh.delivered = FALSE
  OBVIOUS
<1> HIDE DEF fresh, rows
<1>10. /\ DOMAIN e.inbox = DOMAIN d.inbox \cup rows
       /\ \A r \in DOMAIN d.inbox : e.inbox[r] = d.inbox[r]
       /\ \A r \in rows : e.inbox[r] = fresh
  BY <1>1, <1>8
<1> HIDE DEF inbox, chats, messages
<1>11. id \in Nat /\ \A r \in rows : e.inbox[r].status = "pending" /\ e.inbox[r].delivered = FALSE
  BY <1>2, <1>9, <1>10
<1> QED BY <1>2, <1>6, <1>7, <1>8, <1>10, <1>11 DEF Wrote, rows

\* It takes the chat's next number, and leaves the others theirs.
LEMMA StoreCounts ==
  ASSUME NEW d, Stored(d), Counts(d), NEW k \in 1..Len(d.chats), NEW user \in d.chats[k].members,
         NEW x \in Nat, NEW e, Wrote(d, k, user, x, e)
  PROVE  Counts(e)
<1> DEFINE id == Len(d.messages) + 1  n == Counter(d, k) + 1
           rows == {<<u, id>> : u \in d.chats[k].members \ {user}}
<1>0. id = Len(d.messages) + 1 /\ n = Counter(d, k) + 1 /\ rows = {<<u, id>> : u \in d.chats[k].members \ {user}}
  OBVIOUS
<1>1. /\ Stored(e) /\ id \in Nat /\ Len(e.messages) = id /\ Len(e.chats) = Len(d.chats)
      /\ Counter(e, k) = n
      /\ \A j \in 1..Len(d.chats) : j # k => Counter(e, j) = Counter(d, j)
      /\ \A i \in 1..Len(d.messages) : e.messages[i] = d.messages[i]
      /\ DOMAIN e.inbox = DOMAIN d.inbox \cup rows
      /\ \A r \in DOMAIN d.inbox : r \notin rows /\ e.inbox[r] = d.inbox[r]
      /\ \A r \in rows : e.inbox[r].status = "pending" /\ e.inbox[r].delivered = FALSE
  BY DEF Wrote
<1>2. e.messages[id].chat = k /\ e.messages[id].seq = n
  BY DEF Wrote
<1> HIDE DEF id, n, rows
<1>3. Len(d.messages) \in Nat /\ \A j \in 1..Len(d.chats) : Counter(d, j) \in Nat
  BY LogIs DEF Stored
<1>4. \A i \in 1..Len(e.messages) : i \in 1..Len(d.messages) \/ i = id
  BY <1>0, <1>1, <1>3
<1>5. \A i \in 1..Len(d.messages) : ~ (d.messages[i].chat = k /\ d.messages[i].seq = n)
  <2> SUFFICES ASSUME NEW i \in 1..Len(d.messages), d.messages[i].chat = k, d.messages[i].seq = n
               PROVE  FALSE
    OBVIOUS
  <2>1. n \in 1..Counter(d, k)
    BY DEF Counts, IsNumber
  <2> QED BY <1>0, <1>3, <2>1
<1>6. ASSUME NEW i \in 1..Len(e.messages), NEW j \in 1..Len(e.messages),
             e.messages[i].chat = e.messages[j].chat, e.messages[i].seq = e.messages[j].seq
      PROVE  i = j
  <2>1. CASE i \in 1..Len(d.messages) /\ j \in 1..Len(d.messages)
    BY <1>1, <1>6, <2>1 DEF Counts
  <2>2. CASE i \in 1..Len(d.messages) /\ j = id
    BY <1>1, <1>2, <1>5, <1>6, <2>2
  <2>3. CASE i = id /\ j \in 1..Len(d.messages)
    BY <1>1, <1>2, <1>5, <1>6, <2>3
  <2> QED BY <1>4, <2>1, <2>2, <2>3
<1>7. ASSUME NEW j \in 1..Len(e.chats), NEW l PROVE IsNumber(e, j, l) <=> l \in 1..Counter(e, j)
  <2>0. j \in 1..Len(d.chats) /\ Counter(d, j) \in Nat
    BY <1>1, <1>3
  <2>1. IsNumber(e, j, l) <=> IsNumber(d, j, l) \/ (j = k /\ l = n)
    <3>1. ASSUME IsNumber(e, j, l) PROVE IsNumber(d, j, l) \/ (j = k /\ l = n)
      <4>1. PICK i \in 1..Len(e.messages) : e.messages[i].chat = j /\ e.messages[i].seq = l
        BY <3>1 DEF IsNumber
      <4> QED BY <1>1, <1>2, <1>4, <4>1 DEF IsNumber
    <3>2. ASSUME IsNumber(d, j, l) PROVE IsNumber(e, j, l)
      <4>1. PICK i \in 1..Len(d.messages) : d.messages[i].chat = j /\ d.messages[i].seq = l
        BY <3>2 DEF IsNumber
      <4>2. i \in 1..Len(e.messages)
        BY <1>0, <1>1, <1>3
      <4> QED BY <1>1, <4>1, <4>2 DEF IsNumber
    <3>3. ASSUME j = k, l = n PROVE IsNumber(e, j, l)
      <4>1. id \in 1..Len(e.messages)
        BY <1>0, <1>1, <1>3
      <4> QED BY <1>2, <3>3, <4>1 DEF IsNumber
    <3> QED BY <3>1, <3>2, <3>3
  <2>2. IsNumber(d, j, l) <=> l \in 1..Counter(d, j)
    BY <2>0 DEF Counts
  <2>3. CASE j # k
    BY <1>1, <2>0, <2>1, <2>2, <2>3
  <2>4. CASE j = k
    <3>1. l \in 1..n <=> l \in 1..Counter(d, k) \/ l = n
      BY <1>0, <2>0, <2>4
    <3> QED BY <1>1, <2>1, <2>2, <2>4, <3>1
  <2> QED BY <2>3, <2>4
<1>8. ASSUME NEW r \in DOMAIN e.inbox PROVE e.inbox[r].delivered = (e.inbox[r].status # "pending")
  <2>1. CASE r \in DOMAIN d.inbox
    <3>1. d.inbox[r].delivered = (d.inbox[r].status # "pending") /\ e.inbox[r] = d.inbox[r]
      BY <1>1, <2>1 DEF Counts
    <3> QED BY <3>1
  <2>2. CASE r \in rows
    BY <1>1, <2>2
  <2> QED BY <1>1, <2>1, <2>2
<1> QED BY <1>6, <1>7, <1>8 DEF Counts

\* The post of a number stays the same where its message does.
LEMMA PostStays ==
  ASSUME NEW d, Stored(d), Counts(d), NEW e, Stored(e), Counts(e), Len(d.messages) <= Len(e.messages),
         \A i \in 1..Len(d.messages) : e.messages[i] = d.messages[i],
         NEW k \in 1..Len(d.chats), NEW n \in 1..Counter(d, k)
  PROVE  PostIn(e, k, n) = PostIn(d, k, n)
<1>1. PICK i \in 1..Len(d.messages) : d.messages[i].chat = k /\ d.messages[i].seq = n
  BY DEF Counts, IsNumber
<1>2. i \in 1..Len(e.messages)
  BY DEF Stored
<1>3. e.messages[i].chat = k /\ e.messages[i].seq = n
  BY <1>1
<1>4. PostIn(d, k, n) = [sender |-> d.messages[i].sender, content |-> d.messages[i].content]
  BY <1>1, PostIs
<1>5. PostIn(e, k, n) = [sender |-> e.messages[i].sender, content |-> e.messages[i].content]
  BY <1>2, <1>3, PostIs
<1> QED BY <1>4, <1>5

\* So does a chat whose counter and members do.
LEMMA LogStays ==
  ASSUME NEW d, Stored(d), Counts(d), NEW e, Stored(e), Counts(e), Len(d.messages) <= Len(e.messages),
         \A i \in 1..Len(d.messages) : e.messages[i] = d.messages[i],
         NEW k \in 1..Len(d.chats), k \in 1..Len(e.chats), Counter(e, k) = Counter(d, k)
  PROVE  LogIn(e, k) = LogIn(d, k)
<1>1. /\ LogIn(d, k) \in Seq(PostType) /\ Len(LogIn(d, k)) = Counter(d, k)
      /\ \A n \in 1..Counter(d, k) : LogIn(d, k)[n] = PostIn(d, k, n)
  BY LogIs
<1>2. /\ LogIn(e, k) \in Seq(PostType) /\ Len(LogIn(e, k)) = Counter(d, k)
      /\ \A n \in 1..Counter(d, k) : LogIn(e, k)[n] = PostIn(e, k, n)
  BY LogIs
<1>3. \A n \in 1..Counter(d, k) : PostIn(e, k, n) = PostIn(d, k, n)
  BY PostStays
<1> QED BY <1>1, <1>2, <1>3, SeqEqual

\* The chat of the message gets the post at its end.
LEMMA StorePosts ==
  ASSUME NEW d, Stored(d), Counts(d), NEW k \in 1..Len(d.chats), NEW user \in d.chats[k].members,
         NEW x \in Nat, NEW e, Wrote(d, k, user, x, e)
  PROVE  ChatsIn(e) = [ChatsIn(d) EXCEPT ![k].log = Append(@, [sender |-> user, content |-> x])]
<1> DEFINE id == Len(d.messages) + 1  n == Counter(d, k)  p == [sender |-> user, content |-> x]
           old == LogIn(d, k)  new == LogIn(e, k)
<1>0. Counts(e)
  BY StoreCounts
<1>1. /\ Stored(e) /\ Counts(e) /\ id \in Nat /\ Len(e.messages) = id /\ Len(e.chats) = Len(d.chats)
      /\ \A j \in 1..Len(d.chats) : e.chats[j].members = d.chats[j].members
      /\ Counter(e, k) = n + 1
      /\ \A j \in 1..Len(d.chats) : j # k => Counter(e, j) = Counter(d, j)
      /\ \A i \in 1..Len(d.messages) : e.messages[i] = d.messages[i]
      /\ e.messages[id].chat = k /\ e.messages[id].seq = n + 1
      /\ e.messages[id].sender = user /\ e.messages[id].content = x
  BY <1>0 DEF Wrote
<1>2. Len(d.messages) <= Len(e.messages) /\ id \in 1..Len(e.messages) /\ n \in Nat /\ Len(d.messages) \in Nat
  <2>1. n \in Nat
    BY LogIs
  <2>2. Len(d.messages) \in Nat
    BY DEF Stored
  <2> QED BY <1>1, <2>1, <2>2
<1>3. \A j \in 1..Len(d.chats) : j # k => LogIn(e, j) = LogIn(d, j)
  BY <1>1, <1>2, LogStays
<1>4. new = Append(old, p)
  <2>1. /\ old \in Seq(PostType) /\ Len(old) = n /\ \A l \in 1..n : old[l] = PostIn(d, k, l)
        /\ new \in Seq(PostType) /\ Len(new) = n + 1 /\ \A l \in 1..n + 1 : new[l] = PostIn(e, k, l)
    BY <1>1, LogIs
  <2>2. \A l \in 1..n : PostIn(e, k, l) = PostIn(d, k, l)
    BY <1>1, <1>2, PostStays
  <2>3. PostIn(e, k, n + 1) = p
    <3>1. PostIn(e, e.messages[id].chat, e.messages[id].seq)
            = [sender |-> e.messages[id].sender, content |-> e.messages[id].content]
      BY <1>1, <1>2, PostIs
    <3> QED BY <1>1, <3>1
  <2>4. p \in PostType
    <3>1. d.chats[k] \in ChatType
      BY ElementOfSeq DEF Stored
    <3> QED BY <3>1 DEF ChatType, PostType
  <2> HIDE DEF old, new, p, n
  <2>5. /\ Append(old, p) \in Seq(PostType) /\ Len(Append(old, p)) = n + 1 /\ Append(old, p)[n + 1] = p
        /\ \A l \in 1..n : Append(old, p)[l] = old[l]
    BY <1>2, <2>1, <2>4, AppendProperties
  <2>6. ASSUME NEW l \in 1..n + 1 PROVE new[l] = Append(old, p)[l]
    <3>1. l \in 1..n \/ l = n + 1
      BY <1>2
    <3>2. CASE l \in 1..n
      BY <2>1, <2>2, <2>5, <3>2
    <3>3. CASE l = n + 1
      BY <2>1, <2>3, <2>5, <3>3
    <3> QED BY <3>1, <3>2, <3>3
  <2> QED BY <2>1, <2>5, <2>6, SeqEqual
<1>5. DOMAIN d.chats = 1..Len(d.chats) /\ DOMAIN e.chats = 1..Len(d.chats)
  BY <1>1 DEF Stored
<1> HIDE DEF old, new, p
<1>6. \A j \in 1..Len(d.chats) :
        ChatsIn(e)[j] = IF j = k THEN [members |-> d.chats[j].members, log |-> Append(old, p)] ELSE ChatsIn(d)[j]
  BY <1>1, <1>3, <1>4, <1>5 DEF ChatsIn, new
<1>7. ChatsIn(d)[k] = [members |-> d.chats[k].members, log |-> old]
  BY <1>5 DEF ChatsIn, old
<1>8. DOMAIN ChatsIn(d) = 1..Len(d.chats) /\ ChatsIn(e) = [j \in 1..Len(d.chats) |-> ChatsIn(e)[j]]
  BY <1>5 DEF ChatsIn
<1> DEFINE cs == ChatsIn(d)  longer == Append(old, p)
<1>10. cs[k] = [members |-> d.chats[k].members, log |-> old] /\ DOMAIN cs = 1..Len(d.chats)
  BY <1>7, <1>8
<1> HIDE DEF cs, longer
<1>9. [ChatsIn(d) EXCEPT ![k].log = Append(@, p)]
        = [j \in 1..Len(d.chats) |-> IF j = k THEN [members |-> d.chats[k].members, log |-> Append(old, p)]
                                     ELSE ChatsIn(d)[j]]
  <2>1. [cs EXCEPT ![k].log = Append(@, p)] = [cs EXCEPT ![k] = [cs[k] EXCEPT !.log = Append(cs[k].log, p)]]
    OBVIOUS
  <2>2. cs[k].log = old
    BY <1>10
  <2>3. [cs[k] EXCEPT !.log = longer] = [members |-> d.chats[k].members, log |-> longer]
    BY <1>10
  <2>4. [cs EXCEPT ![k] = [members |-> d.chats[k].members, log |-> longer]]
          = [j \in 1..Len(d.chats) |-> IF j = k THEN [members |-> d.chats[k].members, log |-> longer] ELSE cs[j]]
    BY <1>10
  <2> QED BY <2>1, <2>2, <2>3, <2>4 DEF cs, longer
<1> QED BY <1>6, <1>8, <1>9 DEF p

\* Its recipients get pending receipts.
Fresh(d, k, user) == {<<k, Counter(d, k) + 1, u>> : u \in d.chats[k].members \ {user}}

Issues(d, e, fresh) ==
  ReceiptsIn(e) = [r \in DOMAIN ReceiptsIn(d) \cup fresh |-> IF r \in fresh THEN "pending" ELSE ReceiptsIn(d)[r]]

LEMMA StoreReceipts ==
  ASSUME NEW d, Stored(d), Counts(d), NEW k \in 1..Len(d.chats), NEW user \in d.chats[k].members,
         NEW x \in Nat, NEW e, Wrote(d, k, user, x, e)
  PROVE  Issues(d, e, Fresh(d, k, user))
<1> DEFINE id == Len(d.messages) + 1  n == Counter(d, k) + 1
           rows == {<<u, id>> : u \in d.chats[k].members \ {user}}  fresh == Fresh(d, k, user)
<1>0. /\ Counts(e) /\ id = Len(d.messages) + 1 /\ n = Counter(d, k) + 1
      /\ rows = {<<u, id>> : u \in d.chats[k].members \ {user}}
      /\ fresh = {<<k, Counter(d, k) + 1, u>> : u \in d.chats[k].members \ {user}}
  BY StoreCounts DEF Fresh
<1>1. /\ Stored(e) /\ Counts(e) /\ id \in Nat /\ Len(e.messages) = id
      /\ \A i \in 1..Len(d.messages) : e.messages[i] = d.messages[i]
      /\ e.messages[id].chat = k /\ e.messages[id].seq = n
      /\ DOMAIN e.inbox = DOMAIN d.inbox \cup rows
      /\ \A r \in DOMAIN d.inbox : r \notin rows /\ e.inbox[r] = d.inbox[r]
      /\ \A r \in rows : e.inbox[r].status = "pending"
  BY <1>0 DEF Wrote
<1> HIDE DEF rows, n, id, fresh
<1>2. \A r \in DOMAIN d.inbox : KeyIn(e, r) = KeyIn(d, r)
  <2> TAKE r \in DOMAIN d.inbox
  <2>1. r[2] \in 1..Len(d.messages)
    BY DEF Stored
  <2> QED BY <1>1, <2>1 DEF KeyIn
<1>3. \A u : KeyIn(e, <<u, id>>) = <<k, n, u>>
  BY <1>1 DEF KeyIn
<1>4. {KeyIn(e, r) : r \in rows} = fresh
  <2> DEFINE S == d.chats[k].members \ {user}
  <2>1. {KeyIn(e, r) : r \in rows} = {KeyIn(e, <<u, id>>) : u \in S}
    BY <1>0
  <2>2. fresh = {<<k, n, u>> : u \in S}
    BY <1>0
  <2> QED BY <1>3, <2>1, <2>2
<1>5. /\ DOMAIN ReceiptsIn(d) = {KeyIn(d, r) : r \in DOMAIN d.inbox}
      /\ \A r \in DOMAIN d.inbox : ReceiptsIn(d)[KeyIn(d, r)] = d.inbox[r].status
  BY ReceiptIs
<1>6. /\ DOMAIN ReceiptsIn(e) = {KeyIn(e, r) : r \in DOMAIN e.inbox}
      /\ \A r \in DOMAIN e.inbox : ReceiptsIn(e)[KeyIn(e, r)] = e.inbox[r].status
      /\ \A r, s \in DOMAIN e.inbox : KeyIn(e, r) = KeyIn(e, s) => r = s
  BY <1>1, ReceiptIs
<1>7. DOMAIN ReceiptsIn(e) = DOMAIN ReceiptsIn(d) \cup fresh
  BY <1>1, <1>2, <1>4, <1>5, <1>6
<1>8. ASSUME NEW q \in DOMAIN ReceiptsIn(e)
      PROVE  ReceiptsIn(e)[q] = IF q \in fresh THEN "pending" ELSE ReceiptsIn(d)[q]
  <2>1. PICK r \in DOMAIN e.inbox : q = KeyIn(e, r)
    BY <1>6
  <2>2. CASE r \in rows
    BY <1>1, <1>4, <1>6, <2>1, <2>2
  <2>3. CASE r \in DOMAIN d.inbox
    <3>1. q \notin fresh
      BY <1>1, <1>4, <1>6, <2>1, <2>3
    <3> QED BY <1>1, <1>2, <1>5, <1>6, <2>1, <2>3, <3>1
  <2> QED BY <1>1, <2>2, <2>3
<1>9. ReceiptsIn(e) = [q \in DOMAIN ReceiptsIn(e) |-> ReceiptsIn(e)[q]]
  BY DEF ReceiptsIn
<1>10. Issues(d, e, fresh)
  BY <1>7, <1>8, <1>9 DEF Issues
<1> QED BY <1>10 DEF fresh

-----------------------------------------------------------------------------
\* A row moves on, and with it its receipt.
Moved(d, e, key, status) ==
  /\ Stored(e) /\ e.messages = d.messages /\ e.chats = d.chats
  /\ DOMAIN e.inbox = DOMAIN d.inbox /\ e.inbox[key].status = status /\ e.inbox[key].delivered = TRUE
  /\ \A r \in DOMAIN d.inbox : r # key => e.inbox[r] = d.inbox[r]
  /\ \/ d.inbox[key].status = "pending" /\ status = "delivered"
     \/ d.inbox[key].status # "read" /\ status = "read"

LEMMA MovedReceipt ==
  ASSUME NEW d, Stored(d), Counts(d), NEW key \in DOMAIN d.inbox, NEW status, NEW e, Moved(d, e, key, status)
  PROVE  /\ Counts(e) /\ ChatsIn(e) = ChatsIn(d)
         /\ KeyIn(d, key) \in DOMAIN ReceiptsIn(d) /\ ReceiptsIn(d)[KeyIn(d, key)] = d.inbox[key].status
         /\ ReceiptsIn(e) = [ReceiptsIn(d) EXCEPT ![KeyIn(d, key)] = status]
<1>1. /\ Stored(e) /\ e.messages = d.messages /\ e.chats = d.chats
      /\ DOMAIN e.inbox = DOMAIN d.inbox /\ e.inbox[key].status = status /\ e.inbox[key].delivered = TRUE
      /\ \A r \in DOMAIN d.inbox : r # key => e.inbox[r] = d.inbox[r]
      /\ status \in {"delivered", "read"}
  BY DEF Moved
<1>2. Counts(e)
  <2>1. ASSUME NEW r \in DOMAIN e.inbox PROVE e.inbox[r].delivered = (e.inbox[r].status # "pending")
    <3>1. CASE r = key
      BY <1>1, <3>1
    <3>2. CASE r # key
      <4>1. e.inbox[r] = d.inbox[r] /\ d.inbox[r].delivered = (d.inbox[r].status # "pending")
        BY <1>1, <3>2 DEF Counts
      <4> QED BY <4>1
    <3> QED BY <3>1, <3>2
  <2>2. \A k : Counter(e, k) = Counter(d, k) /\ \A n : IsNumber(e, k, n) <=> IsNumber(d, k, n)
    BY <1>1 DEF Counter, IsNumber
  <2> QED BY <1>1, <2>1, <2>2 DEF Counts
<1>3. ChatsIn(e) = ChatsIn(d)
  BY <1>1 DEF ChatsIn, LogIn, NumbersIn, PostIn, MessageIn
<1>4. \A r : KeyIn(e, r) = KeyIn(d, r)
  BY <1>1 DEF KeyIn
<1>5. /\ DOMAIN ReceiptsIn(d) = {KeyIn(d, r) : r \in DOMAIN d.inbox}
      /\ \A r \in DOMAIN d.inbox : ReceiptsIn(d)[KeyIn(d, r)] = d.inbox[r].status
      /\ \A r, s \in DOMAIN d.inbox : KeyIn(d, r) = KeyIn(d, s) => r = s
  BY ReceiptIs
<1>6. /\ DOMAIN ReceiptsIn(e) = {KeyIn(e, r) : r \in DOMAIN e.inbox}
      /\ \A r \in DOMAIN e.inbox : ReceiptsIn(e)[KeyIn(e, r)] = e.inbox[r].status
  BY <1>1, <1>2, ReceiptIs
<1>7. DOMAIN ReceiptsIn(e) = DOMAIN ReceiptsIn(d)
  BY <1>1, <1>4, <1>5, <1>6
<1>8. ASSUME NEW q \in DOMAIN ReceiptsIn(d)
      PROVE  ReceiptsIn(e)[q] = IF q = KeyIn(d, key) THEN status ELSE ReceiptsIn(d)[q]
  <2>1. PICK r \in DOMAIN d.inbox : q = KeyIn(d, r)
    BY <1>5
  <2>2. ReceiptsIn(e)[q] = e.inbox[r].status /\ ReceiptsIn(d)[q] = d.inbox[r].status
    BY <1>1, <1>4, <1>5, <1>6, <2>1
  <2>3. q = KeyIn(d, key) <=> r = key
    BY <1>5, <2>1
  <2> QED BY <1>1, <2>2, <2>3
<1>9. ReceiptsIn(e) = [q \in DOMAIN ReceiptsIn(e) |-> ReceiptsIn(e)[q]]
      /\ ReceiptsIn(d) = [q \in DOMAIN ReceiptsIn(d) |-> ReceiptsIn(d)[q]]
  BY DEF ReceiptsIn
<1>10. ReceiptsIn(e) = [ReceiptsIn(d) EXCEPT ![KeyIn(d, key)] = status]
  BY <1>7, <1>8, <1>9
<1> QED BY <1>2, <1>3, <1>5, <1>10

\* A chat without messages is added at the end.
LEMMA ChatAdded ==
  ASSUME NEW d, Stored(d), Counts(d), NEW chat \in ChatType, chat.last \in {0, NoCounter},
         NEW e, e = [d EXCEPT !.chats = Append(d.chats, chat)]
  PROVE  /\ Counts(e) /\ ReceiptsIn(e) = ReceiptsIn(d)
         /\ ChatsIn(e) = Append(ChatsIn(d), [members |-> chat.members, log |-> << >>])
<1> DEFINE n == Len(d.chats)  added == [members |-> chat.members, log |-> << >>]
           S == [members : SUBSET Users, log : Seq(PostType)]
<1>1. Stored(e) /\ e.messages = d.messages /\ e.inbox = d.inbox
  BY ChatIs
<1>2. /\ n \in Nat /\ e.chats = Append(d.chats, chat) /\ Len(e.chats) = n + 1
      /\ \A k \in 1..n : e.chats[k] = d.chats[k]
      /\ DOMAIN d.chats = 1..n /\ DOMAIN e.chats = 1..n + 1
      /\ \A k \in 1..n : d.chats[k] \in ChatType
  <2>1. d.chats \in Seq(ChatType) /\ e.chats = Append(d.chats, chat)
    BY DEF Stored
  <2> QED BY <2>1, AppendProperties, ElementOfSeq
<1>3. e.chats[n + 1] = chat
  <2>1. d.chats \in Seq(ChatType)
    BY DEF Stored
  <2> QED BY <1>2, <2>1, AppendProperties
<1>4. Counter(e, n + 1) = 0 /\ \A k \in 1..n : Counter(e, k) = Counter(d, k)
  BY <1>2, <1>3 DEF Counter
<1>5. \A k, l : IsNumber(e, k, l) <=> IsNumber(d, k, l)
  BY <1>1 DEF IsNumber
<1>6. \A l : ~ IsNumber(e, n + 1, l)
  <2>1. \A i \in 1..Len(e.messages) : e.messages[i].chat \in 1..n
    BY <1>1 DEF Stored
  <2>2. n + 1 \notin 1..n
    BY <1>2
  <2> QED BY <2>1, <2>2 DEF IsNumber
<1> HIDE DEF n
<1>7. Counts(e)
  <2>1. ASSUME NEW k \in 1..Len(e.chats), NEW l PROVE IsNumber(e, k, l) <=> l \in 1..Counter(e, k)
    <3>1. CASE k = n + 1
      <4>1. Counter(e, k) = 0 /\ ~ IsNumber(e, k, l)
        BY <1>4, <1>6, <3>1
      <4>2. l \notin 1..0
        OBVIOUS
      <4> QED BY <4>1, <4>2
    <3>2. CASE k \in 1..n
      BY <1>4, <1>5, <3>2 DEF Counts, n
    <3> QED BY <1>2, <3>1, <3>2
  <2>2. \A i, j \in 1..Len(e.messages) :
          e.messages[i].chat = e.messages[j].chat /\ e.messages[i].seq = e.messages[j].seq => i = j
    BY <1>1 DEF Counts
  <2>3. \A r \in DOMAIN e.inbox : e.inbox[r].delivered = (e.inbox[r].status # "pending")
    BY <1>1 DEF Counts
  <2> QED BY <2>1, <2>2, <2>3 DEF Counts
<1>8. ReceiptsIn(e) = ReceiptsIn(d)
  BY <1>1 DEF ReceiptsIn, KeyIn
<1>9. ASSUME NEW k \in 1..n PROVE LogIn(e, k) = LogIn(d, k)
  BY <1>1 DEF LogIn, NumbersIn, PostIn, MessageIn
<1>10. LogIn(e, n + 1) = << >>
  <2>1. n + 1 \in 1..Len(e.chats)
    BY <1>2
  <2>2. LogIn(e, n + 1) \in Seq(PostType) /\ Len(LogIn(e, n + 1)) = 0
    BY <1>1, <1>4, <1>7, <2>1, LogIs
  <2> QED BY <2>2, EmptySeq
<1> DEFINE cs == ChatsIn(d)  new == ChatsIn(e)
<1>11. /\ DOMAIN cs = 1..n /\ \A k \in 1..n : cs[k] = [members |-> d.chats[k].members, log |-> LogIn(d, k)]
       /\ cs = [k \in 1..n |-> cs[k]]
  BY <1>2 DEF ChatsIn
<1>12. /\ DOMAIN new = 1..n + 1
       /\ \A k \in 1..n + 1 : new[k] = [members |-> e.chats[k].members, log |-> LogIn(e, k)]
       /\ new = [k \in 1..n + 1 |-> new[k]]
  BY <1>2 DEF ChatsIn
<1>13. ASSUME NEW k \in 1..n PROVE new[k] = cs[k] /\ cs[k] \in S /\ k \in 1..n + 1
  <2>1. k \in 1..n + 1
    BY <1>2
  <2>2. e.chats[k] = d.chats[k] /\ d.chats[k].members \in SUBSET Users
    BY <1>2 DEF ChatType
  <2>3. LogIn(d, k) \in Seq(PostType)
    BY LogIs DEF n
  <2>4. cs[k] = [members |-> d.chats[k].members, log |-> LogIn(d, k)]
    BY <1>11
  <2>5. cs[k] \in S
    BY <2>2, <2>3, <2>4
  <2> HIDE DEF cs, new, S
  <2> QED BY <1>9, <1>12, <2>1, <2>2, <2>4, <2>5
<1>14. new[n + 1] = added /\ added \in S
  <2>1. n + 1 \in 1..n + 1
    BY <1>2
  <2>2. chat.members \in SUBSET Users /\ << >> \in Seq(PostType)
    BY DEF ChatType
  <2> QED BY <1>3, <1>10, <1>12, <2>1, <2>2
<1> HIDE DEF cs, new, added, S
<1>15. cs \in Seq(S) /\ Len(cs) = n
  <2>1. cs = [k \in 1..n |-> cs[k]] /\ \A k \in 1..n : cs[k] \in S
    BY <1>11, <1>13
  <2>2. cs \in [1..n -> S]
    BY <2>1
  <2> QED BY <1>2, <2>2
<1>16. new \in Seq(S) /\ Len(new) = n + 1
  <2>1. \A k \in 1..n + 1 : k \in 1..n \/ k = n + 1
    BY <1>2
  <2>2. \A k \in 1..n + 1 : new[k] \in S
    BY <1>13, <1>14, <2>1
  <2>3. new \in [1..n + 1 -> S] /\ n + 1 \in Nat
    BY <1>2, <1>12, <2>2
  <2> QED BY <2>3
<1>17. /\ Append(cs, added) \in Seq(S) /\ Len(Append(cs, added)) = n + 1 /\ Append(cs, added)[n + 1] = added
       /\ \A k \in 1..n : Append(cs, added)[k] = cs[k]
  BY <1>14, <1>15, AppendProperties
<1>18. \A k \in 1..n + 1 : new[k] = Append(cs, added)[k]
  <2>1. \A k \in 1..n + 1 : k \in 1..n \/ k = n + 1
    BY <1>2
  <2> QED BY <1>13, <1>14, <1>17, <2>1
<1>19. new = Append(cs, added)
  BY <1>16, <1>17, <1>18, SeqEqual
<1> QED BY <1>7, <1>8, <1>19 DEF cs, new, added

-----------------------------------------------------------------------------
\* What is stored is numbered, and no text is older than its number of sends.
Numbering ==
  /\ Counts(db) /\ Len(db.messages) = used.sends /\ used.sends <= MaxSends
  /\ \A u \in Users : \A w \in unacked[u] : w[2] \in 1..Len(db.messages)

LEMMA NumberingInit == Init => Numbering
<1> SUFFICES ASSUME Init PROVE Numbering
  OBVIOUS
<1>1. PICK chats \in Seeds : db = [chats |-> chats, messages |-> << >>, inbox |-> Empty]
  BY DEF Init
<1>2. db.chats = chats /\ Len(db.messages) = 0 /\ DOMAIN db.inbox = {}
  BY <1>1 DEF Empty
<1>3. ASSUME NEW k \in 1..Len(db.chats) PROVE Counter(db, k) = 0
  <2> DEFINE seed == [members : SUBSET Users, last : {0, NoCounter}]
  <2>1. chats \in Seq(seed)
    BY ChatAssumption
  <2> HIDE DEF seed
  <2>2. chats[k] \in seed
    BY <1>2, <2>1, ElementOfSeq
  <2> QED BY <1>2, <2>2 DEF Counter, seed
<1>4. Counts(db)
  <2>1. 1..0 = {}
    OBVIOUS
  <2> QED BY <1>2, <1>3, <2>1 DEF Counts, IsNumber
<1>5. used.sends = 0 /\ MaxSends \in Nat /\ \A u \in Users : unacked[u] = {}
  BY ChatAssumption DEF Init
<1> QED BY <1>2, <1>4, <1>5 DEF Numbering

\* A request to send stores a text under the chat's next number: a new one, or
\* one that the user has no ACK for.
LEMMA SendWrites ==
  ASSUME Presence, Mail, Numbering, NEW c \in Conns, HandleSendMessage(c)
  PROVE  /\ used.sends < MaxSends /\ used'.sends = used.sends + 1
         /\ \E k \in 1..Len(db.chats) : \E x \in 1..Len(db.messages) + 1 :
              /\ UserOf[c] \in db.chats[k].members /\ Wrote(db, k, UserOf[c], x, db')
              /\ \A u \in Users : \A w \in unacked'[u] : w \in unacked[u] \/ w[2] = x
<1> DEFINE user == UserOf[c]  id == Len(db.messages) + 1
<1>1. PICK w \in {<<k, id>> : k \in {k \in DOMAIN db.chats : user \in db.chats[k].members}} \cup unacked[user] :
        /\ db' = StoreMessage(db, w[1], user, w[2])
        /\ unacked' = [unacked EXCEPT ![user] = @ \cup {w}]
  BY DEF HandleSendMessage
<1>2. Len(db.messages) \in Nat /\ DOMAIN db.chats = 1..Len(db.chats) /\ user \in Users
  BY MailSame DEF Stored
<1>3. w[1] \in 1..Len(db.chats) /\ user \in db.chats[w[1]].members /\ w[2] \in 1..id
  <2>1. CASE w \in unacked[user]
    <3>1. w[2] \in 1..Len(db.messages)
      BY <1>2, <2>1 DEF Numbering
    <3> QED BY <1>2, <2>1, <3>1 DEF Mail, UnackedOK
  <2>2. CASE w \notin unacked[user]
    <3>1. PICK k \in DOMAIN db.chats : w = <<k, id>> /\ user \in db.chats[k].members
      BY <1>1, <2>2
    <3> QED BY <1>2, <3>1
  <2> QED BY <2>1, <2>2
<1> DEFINE e == db'
<1>4. e = StoreMessage(db, w[1], user, w[2]) /\ w[2] \in Nat
  BY <1>1, <1>3
<1> HIDE DEF e, user, id
<1>5. Wrote(db, w[1], user, w[2], e)
  BY <1>3, <1>4, MailSame, StoreWrites
<1>6. \A u \in Users : \A v \in unacked'[u] : v \in unacked[u] \/ v[2] = w[2]
  BY <1>1, MailSame
<1>7. used.sends < MaxSends /\ used'.sends = used.sends + 1
  <2>1. used.sends < MaxSends /\ used' = [used EXCEPT !.sends = @ + 1, !.total = @ + 1]
    BY DEF HandleSendMessage, Spend
  <2> QED BY <2>1 DEF Presence, Counted
<1> QED BY <1>3, <1>5, <1>6, <1>7 DEF e, user, id

\* An acknowledgement or a read moves a row on, or does nothing.
LEMMA MarkMoves ==
  ASSUME Mail, NEW c \in Conns, HandleAck(c) \/ HandleRead(c)
  PROVE  \/ db' = db
         \/ \E key \in DOMAIN db.inbox : \E status \in {"delivered", "read"} : Moved(db, db', key, status)
<1>1. PICK id \in client[c].seen :
        \/ UpdateInbox(c, id, AckMatches(db.inbox[UserOf[c], id]), "delivered", "delivery_receipt")
        \/ UpdateInbox(c, id, ReadMatches(db.inbox[UserOf[c], id]), "read", "read_receipt")
  BY MarkingIs
<1> DEFINE key == <<UserOf[c], id>>  acks == AckMatches(db.inbox[key])  reads == ReadMatches(db.inbox[key])
<1>2. UpdateInbox(c, id, acks, "delivered", "delivery_receipt")
        \/ UpdateInbox(c, id, reads, "read", "read_receipt")
  BY <1>1
<1>3. (acks => db.inbox[key].status = "pending") /\ (reads => db.inbox[key].status # "read")
  BY DEF AckMatches, ReadMatches
<1>4. /\ UpdateInbox(c, id, acks, "delivered", "delivery_receipt") => acks \/ db' = db
      /\ UpdateInbox(c, id, reads, "read", "read_receipt") => reads \/ db' = db
  BY DEF UpdateInbox
<1>5. {"delivery_receipt", "read_receipt"} = Kinds
  BY DEF Kinds
<1> HIDE DEF acks, reads
<1>6. key \in DOMAIN db.inbox
  BY <1>2, <1>5, MarkIs
<1>7. CASE UpdateInbox(c, id, acks, "delivered", "delivery_receipt")
  <2>1. db' = db \/ Moves(c, id, "delivered", "delivery_receipt")
    BY <1>5, <1>7, MarkIs
  <2>2. db' = db \/ db.inbox[key].status = "pending"
    BY <1>3, <1>4, <1>7
  <2>3. db' # db => Moved(db, db', key, "delivered")
    BY <2>1, <2>2 DEF Moves, Moved
  <2> QED BY <1>6, <2>3
<1>8. CASE UpdateInbox(c, id, reads, "read", "read_receipt")
  <2>1. db' = db \/ Moves(c, id, "read", "read_receipt")
    BY <1>5, <1>8, MarkIs
  <2>2. db' = db \/ db.inbox[key].status # "read"
    BY <1>3, <1>4, <1>8
  <2>3. db' # db => Moved(db, db', key, "read")
    BY <2>1, <2>2 DEF Moves, Moved
  <2> QED BY <1>6, <2>3
<1> QED BY <1>2, <1>7, <1>8

\* A new chat, a chat cut short by a crash or by a failed second commit.
AddsChat(d, e) ==
  \E chat \in ChatType : chat.last \in {0, NoCounter} /\ e = [d EXCEPT !.chats = Append(d.chats, chat)]

LEMMA ChatRowAdds == \A d : AddsChat(d, ChatRow(d))
<1> TAKE d
<1> DEFINE chat == [members |-> {}, last |-> NoCounter]
<1>1. chat \in ChatType /\ chat.last = NoCounter
  BY DEF ChatType
<1>2. ChatRow(d) = [d EXCEPT !.chats = Append(d.chats, chat)]
  BY DEF ChatRow
<1> HIDE DEF chat
<1> QED BY <1>1, <1>2 DEF AddsChat

LEMMA CreateAdds ==
  ASSUME Mail, NEW c \in Conns, HandleCreateChat(c) PROVE AddsChat(db, db')
<1> DEFINE e == db'
<1>1. e = ChatRow(db) \/ \E others \in SUBSET Users : e = ChatOpened(db, others \cup {UserOf[c]})
  BY DEF HandleCreateChat
<1> HIDE DEF e
<1>2. ASSUME NEW others \in SUBSET Users, e = ChatOpened(db, others \cup {UserOf[c]}) PROVE AddsChat(db, e)
  <2> DEFINE chat == [members |-> others \cup {UserOf[c]}, last |-> 0]
  <2>1. UserOf[c] \in Users
    BY MailSame
  <2>2. chat \in ChatType /\ chat.last = 0
    BY <2>1 DEF ChatType
  <2>3. e = [db EXCEPT !.chats = Append(db.chats, chat)]
    BY <1>2 DEF ChatOpened
  <2> HIDE DEF chat
  <2> QED BY <2>2, <2>3 DEF AddsChat
<1>3. AddsChat(db, e)
  BY <1>1, <1>2, ChatRowAdds
<1> QED BY <1>3 DEF e

LEMMA CrashAdds == ASSUME Crash PROVE db' = db \/ AddsChat(db, db')
BY ChatRowAdds DEF Crash

-----------------------------------------------------------------------------
\* What a step does to the tables.
TableStep ==
  \/ db' = db
  \/ \E k \in 1..Len(db.chats) : \E user \in db.chats[k].members : \E x \in 1..MaxSends :
       Wrote(db, k, user, x, db')
  \/ \E key \in DOMAIN db.inbox : \E status \in {"delivered", "read"} : Moved(db, db', key, status)
  \/ AddsChat(db, db')

LEMMA TableStepIs == Presence /\ Mail /\ Numbering /\ [Next]_vars => TableStep
<1> SUFFICES ASSUME Presence, Mail, Numbering, [Next]_vars PROVE TableStep
  OBVIOUS
<1>1. ASSUME NEW c \in Conns, HandleSendMessage(c) PROVE TableStep
  <2>1. PICK k \in 1..Len(db.chats), x \in 1..Len(db.messages) + 1 :
          UserOf[c] \in db.chats[k].members /\ Wrote(db, k, UserOf[c], x, db')
    BY <1>1, SendWrites
  <2>2. used.sends < MaxSends
    BY <1>1, SendWrites
  <2>3. x \in 1..MaxSends
    <3>1. Len(db.messages) = used.sends /\ used.sends \in Nat /\ MaxSends \in Nat
      BY ChatAssumption DEF Numbering, Presence, Counted
    <3> QED BY <2>2, <3>1
  <2> QED BY <2>1, <2>3 DEF TableStep
<1>2. ASSUME NEW c \in Conns, HandleAck(c) \/ HandleRead(c) PROVE TableStep
  BY <1>2, MarkMoves DEF TableStep
<1>3. ASSUME NEW c \in Conns, HandleCreateChat(c) PROVE TableStep
  BY <1>3, CreateAdds DEF TableStep
<1>4. ASSUME Crash PROVE TableStep
  BY <1>4, CrashAdds DEF TableStep
<1>5. ASSUME NEW c \in Conns,
             \/ Connect(c) \/ RedisSubscribes(c) \/ Greet(c) \/ ClientCloses(c) \/ HandleEnd(c) \/ HandleSync(c)
             \/ HandleHeartbeat(c) \/ SendReply(c) \/ PublishMessage(c) \/ Forward(c)
      PROVE  TableStep
  <2>1. db' = db
    BY <1>5 DEF Connect, RedisSubscribes, Greet, ClientCloses, HandleEnd, HandleSync, HandleHeartbeat,
                SendReply, PublishMessage, Forward
  <2> QED BY <2>1 DEF TableStep
<1>6. ASSUME NEW u \in Users, LeaseExpires(u) PROVE TableStep
  BY <1>6 DEF LeaseExpires, TableStep
<1>7. ASSUME Restart \/ UNCHANGED vars PROVE TableStep
  BY <1>7 DEF Restart, vars, TableStep
<1> QED BY <1>1, <1>2, <1>3, <1>4, <1>5, <1>6, <1>7 DEF Next, Handle, Runs

\* Every such step keeps the numbering of the tables.
LEMMA TableCounts ==
  ASSUME Mail, Counts(db), TableStep PROVE Counts(db')
<1> DEFINE e == db'
<1>1. \/ e = db
      \/ \E k \in 1..Len(db.chats) : \E user \in db.chats[k].members : \E x \in 1..MaxSends :
           Wrote(db, k, user, x, e)
      \/ \E key \in DOMAIN db.inbox : \E status \in {"delivered", "read"} : Moved(db, e, key, status)
      \/ AddsChat(db, e)
  BY DEF TableStep
<1>2. Stored(db)
  BY MailSame
<1> HIDE DEF e
<1>3. ASSUME NEW k \in 1..Len(db.chats), NEW user \in db.chats[k].members, NEW x \in 1..MaxSends,
             Wrote(db, k, user, x, e)
      PROVE  Counts(e)
  <2>1. x \in Nat
    OBVIOUS
  <2> QED BY <1>2, <1>3, <2>1, StoreCounts
<1>4. ASSUME NEW key \in DOMAIN db.inbox, NEW status, Moved(db, e, key, status) PROVE Counts(e)
  BY <1>2, <1>4, MovedReceipt
<1>5. ASSUME AddsChat(db, e) PROVE Counts(e)
  BY <1>2, <1>5, ChatAdded DEF AddsChat
<1>6. Counts(e)
  BY <1>1, <1>3, <1>4, <1>5
<1> QED BY <1>6 DEF e

LEMMA NumberingStep == Presence /\ Mail /\ Numbering /\ [Next]_vars => Numbering'
<1> SUFFICES ASSUME Presence, Mail, Numbering, [Next]_vars PROVE Numbering'
  OBVIOUS
<1> DEFINE e == db'
<1>0. Counts(e)
  BY TableStepIs, TableCounts DEF Numbering
<1>1. Counts(db)'
  BY <1>0 DEF Counts, IsNumber, Counter
<1>2. used.sends \in Nat /\ MaxSends \in Nat /\ Len(db.messages) = used.sends /\ used.sends <= MaxSends
      /\ \A u \in Users : \A w \in unacked[u] : w[2] \in 1..Len(db.messages)
  BY ChatAssumption DEF Presence, Counted, Numbering
<1>3. ASSUME Len(db'.messages) = Len(db.messages), used'.sends = used.sends,
             \A u \in Users : unacked'[u] \subseteq unacked[u]
      PROVE  Numbering'
  BY <1>1, <1>2, <1>3 DEF Numbering
<1>4. ASSUME NEW c \in Conns, HandleSendMessage(c) PROVE Numbering'
  <2>1. PICK k \in 1..Len(db.chats), x \in 1..Len(db.messages) + 1 :
          /\ Wrote(db, k, UserOf[c], x, db')
          /\ \A u \in Users : \A w \in unacked'[u] : w \in unacked[u] \/ w[2] = x
    BY <1>4, SendWrites
  <2>2. used.sends < MaxSends /\ used'.sends = used.sends + 1
    BY <1>4, SendWrites
  <2>3. Len(db'.messages) = Len(db.messages) + 1
    BY <2>1 DEF Wrote
  <2>4. \A u \in Users : \A w \in unacked'[u] : w[2] \in 1..Len(db'.messages)
    <3>1. \A i \in 1..Len(db.messages) : i \in 1..Len(db'.messages)
      BY <1>2, <2>3
    <3> QED BY <1>2, <2>1, <2>3, <3>1
  <2> QED BY <1>1, <1>2, <2>2, <2>3, <2>4 DEF Numbering
<1>5. ASSUME NEW c \in Conns, HandleAck(c) \/ HandleRead(c) PROVE Numbering'
  <2>1. Len(db'.messages) = Len(db.messages)
    BY <1>5, MarkMoves DEF Moved
  <2>2. unacked' = unacked
    BY <1>5, MarkingIs
  <2>3. used'.sends = used.sends
    <3>1. used' = used \/ used' = [used EXCEPT !.receipts = @ + 1, !.total = @ + 1]
      BY <1>5 DEF HandleAck, HandleRead, UpdateInbox, Spend
    <3> QED BY <3>1 DEF Presence, Counted
  <2> QED BY <1>3, <2>1, <2>2, <2>3
<1>6. ASSUME NEW c \in Conns, HandleCreateChat(c) PROVE Numbering'
  <2>1. db'.messages = db.messages /\ unacked' = unacked
    BY <1>6, CreateIs
  <2>2. used' = used
    BY <1>6 DEF HandleCreateChat
  <2> QED BY <1>3, <2>1, <2>2
<1>7. ASSUME Crash PROVE Numbering'
  <2>1. db'.messages = db.messages /\ unacked' = unacked
    BY <1>7, CrashIs
  <2>2. used' = [used EXCEPT !.crashes = @ + 1, !.total = @ + 1]
    BY <1>7 DEF Crash, Spend
  <2>3. used'.sends = used.sends
    BY <2>2 DEF Presence, Counted
  <2> QED BY <1>3, <2>1, <2>3
<1>8. ASSUME NEW c \in Conns, SendReply(c) PROVE Numbering'
  <2>1. todo[c] # << >> /\ Head(todo[c]).do = "reply" /\ db' = db /\ used' = used
        /\ (unacked' = unacked \/ Receives(c, Head(todo[c]).msg))
    BY <1>8 DEF SendReply
  <2>2. Head(todo[c]).msg \in Heard(db, c)
    BY <2>1, MailSame, FrontIs, InstructionsAre
  <2>3. \A u \in Users : unacked'[u] \subseteq unacked[u]
    BY <2>1, <2>2, ReceivesIs
  <2> QED BY <1>3, <2>1, <2>3
<1>9. ASSUME NEW c \in Conns, Forward(c) PROVE Numbering'
  <2>1. channel[c] # << >> /\ db' = db /\ used' = used /\ (unacked' = unacked \/ Receives(c, Head(channel[c])))
    BY <1>9 DEF Forward
  <2>2. Head(channel[c]) \in Pushes(db, c)
    BY <2>1, MailSame, FrontIs
  <2>3. Head(channel[c]) \in Heard(db, c)
    BY <2>2 DEF Pushes, Heard
  <2>4. \A u \in Users : unacked'[u] \subseteq unacked[u]
    BY <2>1, <2>3, ReceivesIs
  <2> QED BY <1>3, <2>1, <2>4
<1>10. ASSUME NEW c \in Conns,
              \/ Connect(c) \/ RedisSubscribes(c) \/ Greet(c) \/ HandleEnd(c) \/ HandleSync(c)
              \/ HandleHeartbeat(c) \/ PublishMessage(c)
       PROVE  Numbering'
  <2>1. UNCHANGED <<db, used, unacked>>
    BY <1>10 DEF Connect, RedisSubscribes, Greet, HandleEnd, HandleSync, HandleHeartbeat, PublishMessage
  <2> QED BY <1>3, <2>1
<1>11. ASSUME NEW c \in Conns, ClientCloses(c) PROVE Numbering'
  <2>1. UNCHANGED <<db, unacked>> /\ used' = [used EXCEPT !.closes = @ + 1, !.total = @ + 1]
    BY <1>11 DEF ClientCloses, Spend
  <2>2. used'.sends = used.sends
    BY <2>1 DEF Presence, Counted
  <2> QED BY <1>3, <2>1, <2>2
<1>12. ASSUME NEW u \in Users, LeaseExpires(u) PROVE Numbering'
  <2>1. UNCHANGED <<db, used, unacked>>
    BY <1>12 DEF LeaseExpires
  <2> QED BY <1>3, <2>1
<1>13. ASSUME Restart \/ UNCHANGED vars PROVE Numbering'
  <2>1. UNCHANGED <<db, used, unacked>>
    BY <1>13 DEF Restart, vars
  <2> QED BY <1>3, <2>1
<1> QED
  BY <1>4, <1>5, <1>6, <1>7, <1>8, <1>9, <1>10, <1>11, <1>12, <1>13 DEF Next, Handle, Runs

-----------------------------------------------------------------------------
(* The refinement.                                                         *)

LEMMA StoreInit == Init => Store!Init
<1> SUFFICES ASSUME Init PROVE Store!Init
  OBVIOUS
<1>1. PICK seeds \in Seeds : db = [chats |-> seeds, messages |-> << >>, inbox |-> Empty]
  BY DEF Init
<1>2. db.chats = seeds /\ DOMAIN db.messages = {} /\ DOMAIN db.inbox = {} /\ Counts(db) /\ Stored(db)
  BY <1>1, NumberingInit, MailInit, MailSame DEF Empty, Numbering
<1>3. ASSUME NEW k \in DOMAIN db.chats PROVE LogIn(db, k) = << >>
  <2>1. NumbersIn(db, k) = {}
    BY <1>2 DEF NumbersIn
  <2>2. k \in 1..Len(db.chats)
    BY <1>2 DEF Stored
  <2>3. LogIn(db, k) \in Seq(PostType) /\ Len(LogIn(db, k)) \in Nat /\ DOMAIN LogIn(db, k) = 1..Len(LogIn(db, k))
    BY <1>2, <2>2, LogIs
  <2>4. DOMAIN LogIn(db, k) = {}
    BY <2>1 DEF LogIn
  <2>5. Len(LogIn(db, k)) = 0
    BY <2>3, <2>4
  <2> QED BY <2>3, <2>5, EmptySeq
<1>4. ChatsIn(db) = [k \in DOMAIN seeds |-> [members |-> seeds[k].members, log |-> << >>]]
  BY <1>2, <1>3 DEF ChatsIn
<1>5. ReceiptsIn(db) = [x \in {} |-> "pending"]
  BY <1>2 DEF ReceiptsIn
<1> QED BY <1>4, <1>5, MappingIs DEF Store!Init

\* A step of the tables is a step of the store, or none.
LEMMA StoreStep == ASSUME Mail, Numbering, TableStep PROVE db' = db \/ [Store!Next]_Store!vars
<1> DEFINE e == db'
<1>1. \/ e = db
      \/ \E k \in 1..Len(db.chats) : \E user \in db.chats[k].members : \E x \in 1..MaxSends :
           Wrote(db, k, user, x, e)
      \/ \E key \in DOMAIN db.inbox : \E status \in {"delivered", "read"} : Moved(db, e, key, status)
      \/ AddsChat(db, e)
  BY DEF TableStep
<1>2. Stored(db) /\ Counts(db) /\ DOMAIN ChatsIn(db) = 1..Len(db.chats)
  <2>1. Stored(db) /\ Counts(db)
    BY MailSame DEF Numbering
  <2> QED BY <2>1 DEF ChatsIn, Stored
<1>3. Chats = ChatsIn(db) /\ Receipts = ReceiptsIn(db) /\ Chats' = ChatsIn(e) /\ Receipts' = ReceiptsIn(e)
  BY MappingIs
<1> HIDE DEF e
<1>4. ASSUME NEW k \in 1..Len(db.chats), NEW user \in db.chats[k].members, NEW x \in 1..MaxSends,
             Wrote(db, k, user, x, e)
      PROVE  Store!Next
  <2> DEFINE fresh == Fresh(db, k, user)
  <2>1. x \in Nat
    OBVIOUS
  <2>2. ChatsIn(db)[k].members = db.chats[k].members /\ Len(ChatsIn(db)[k].log) = Counter(db, k)
    <3>1. Len(LogIn(db, k)) = Counter(db, k)
      BY <1>2, LogIs
    <3>2. ChatsIn(db)[k] = [members |-> db.chats[k].members, log |-> LogIn(db, k)]
      BY <1>2 DEF ChatsIn
    <3> QED BY <3>1, <3>2
  <2>3. ChatsIn(e) = [ChatsIn(db) EXCEPT ![k].log = Append(@, [sender |-> user, content |-> x])]
    BY <1>2, <1>4, <2>1, StorePosts
  <2>4. Issues(db, e, fresh)
    BY <1>2, <1>4, <2>1, StoreReceipts
  <2> HIDE DEF fresh
  <2>5. fresh = {<<k, Len(Chats[k].log) + 1, u>> : u \in Chats[k].members \ {user}} /\ user \in Chats[k].members
    BY <1>3, <2>2 DEF fresh, Fresh
  <2>7. Store!Post(k)
    BY <1>3, <2>3, <2>4, <2>5 DEF Store!Post, Issues
  <2>6. k \in DOMAIN Chats
    BY <1>2, <1>3
  <2> QED BY <2>6, <2>7 DEF Store!Next
<1>5. ASSUME NEW key \in DOMAIN db.inbox, NEW status \in {"delivered", "read"}, Moved(db, e, key, status)
      PROVE  Store!Next
  <2> DEFINE r == KeyIn(db, key)
  <2>1. /\ ChatsIn(e) = ChatsIn(db) /\ r \in DOMAIN ReceiptsIn(db) /\ ReceiptsIn(db)[r] = db.inbox[key].status
        /\ ReceiptsIn(e) = [ReceiptsIn(db) EXCEPT ![r] = status]
    BY <1>2, <1>5, MovedReceipt
  <2> HIDE DEF r
  <2>2. db.inbox[key].status \in {"pending", "delivered", "read"}
    BY <1>2 DEF Stored, RowType
  <2>3. /\ Store!Order["pending"] = 0 /\ Store!Order["delivered"] = 1 /\ Store!Order["read"] = 2
        /\ DOMAIN Store!Order = {"pending", "delivered", "read"}
    BY DEF Store!Order
  <2>4. \/ db.inbox[key].status = "pending" /\ status = "delivered"
        \/ db.inbox[key].status # "read" /\ status = "read"
    BY <1>5 DEF Moved
  <2>5. Store!Order[status] > Store!Order[db.inbox[key].status]
    BY <2>2, <2>3, <2>4
  <2>6. Store!Advance(r)
    BY <1>3, <2>1, <2>3, <2>5 DEF Store!Advance
  <2> QED BY <1>3, <2>1, <2>6 DEF Store!Next
<1>6. ASSUME AddsChat(db, e) PROVE Store!Next
  <2>1. PICK chat \in ChatType : chat.last \in {0, NoCounter} /\ e = [db EXCEPT !.chats = Append(db.chats, chat)]
    BY <1>6 DEF AddsChat
  <2>2. /\ ReceiptsIn(e) = ReceiptsIn(db)
        /\ ChatsIn(e) = Append(ChatsIn(db), [members |-> chat.members, log |-> << >>])
    BY <1>2, <2>1, ChatAdded
  <2>3. chat.members \in SUBSET Users
    BY DEF ChatType
  <2>4. Store!Open
    BY <1>3, <2>2, <2>3 DEF Store!Open
  <2> QED BY <2>4 DEF Store!Next
<1>7. e = db \/ Store!Next
  BY <1>1, <1>4, <1>5, <1>6
<1> QED BY <1>7 DEF e

\* What is retried, acknowledged twice, read before it is acknowledged, or cut
\* short by a crash leaves the chats without gaps, every message with a row for
\* each recipient, and no receipt moved back: the server implements ChatStore.
THEOREM ChatImplementsStore == Spec => ImplementsStore
<1>1. Init => Store!Init
  BY StoreInit
<1>2. Presence /\ Mail /\ Numbering /\ [Next]_vars => db' = db \/ [Store!Next]_Store!vars
  BY TableStepIs, StoreStep
<1>3. Spec => [](Presence /\ Mail)
  BY PresenceInit, PresenceStep, MailInit, MailStep, PTL DEF Spec
<1>4. Spec => []Numbering
  BY <1>3, NumberingInit, NumberingStep, PTL DEF Spec
<1> QED BY <1>1, <1>2, <1>3, <1>4, PTL DEF Spec, ImplementsStore
=============================================================================
