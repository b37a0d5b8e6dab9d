----------------------------- MODULE DocServer -----------------------------
(***************************************************************************)
(* The collaborative document server (google-docs/server/doc_server.py),   *)
(* one document of it, with its database, its Redis presence hash, its     *)
(* websocket connections and the DocClient that talks to it.               *)
(*                                                                         *)
(* The server is one asyncio event loop.  Between two awaits a handler     *)
(* runs alone, so that piece of it is one action, its blocking database    *)
(* calls included.  Every await is a send: the message is in the           *)
(* receiver's FIFO at once, and the handler may then be suspended if the   *)
(* receiver is slow to read.  What a handler has still to do is its todo,  *)
(* a sequence of instructions that Step executes.                          *)
(***************************************************************************)
EXTENDS OT, FiniteSets, SequencesExt

CONSTANTS
  Conns,         \* websocket connections, each used once
  UserOf,        \* the user of each connection
  Roles,         \* the possible collaborators of the seeded document: user -> role
  Seed,          \* the text of the seeded document's version 1
  Slow,          \* connections whose send can suspend its handler
  Rude,          \* connections whose client can vanish with a request unanswered
  Threshold,     \* operations that trigger a snapshot (50 in the code)
  MaxEdits, MaxSaves, MaxRestores, MaxCursors, MaxCloses, MaxCrashes,  \* bounds
  MaxTotal,      \* bound on their sum
  Free, NotLoaded, NoText

Users == {UserOf[c] : c \in Conns}

ASSUME DocAssumption ==
  /\ UserOf \in [Conns -> Nat] /\ Slow \subseteq Conns /\ Rude \subseteq Conns
  /\ Seed \in Seq(Nat) /\ Threshold \in Nat \ {0}
  /\ \A collab \in Roles :
       /\ DOMAIN collab \subseteq Users /\ Range(collab) \subseteq {"owner", "editor", "viewer"}
       /\ "owner" \in Range(collab)
  /\ {MaxEdits, MaxSaves, MaxRestores, MaxCursors, MaxCloses, MaxCrashes, MaxTotal} \subseteq Nat
  /\ Free \notin Conns /\ NoText \notin Seq(Nat)
  /\ NotLoaded \notin [text : Seq(Nat), version : Nat, pending : Nat, log : Seq(Operations(Nat, Users))]

\* Characters are marks, so that what becomes of one can be told: those of the
\* seed are below 100 and all different, the clients insert 100, 101, ...  The
\* server looks at positions and lengths only, never at a character.
ASSUME MarksAssumption ==
  \A i, j \in DOMAIN Seed : Seed[i] < 100 /\ (Seed[i] = Seed[j] => i = j)

VARIABLES
  up,        \* the server process is running
  doc,       \* documents[doc_id]: text, version, number of pending_ops, ops_log
  session,   \* doc_sessions[doc_id]: user -> its connection, cursor, role
  todo,      \* what each connection's handler has still to do
  loop,      \* the handler that runs, or Free when every one is suspended
  link,      \* each connection as the server sees it
  joined,    \* the connection has sent a join_doc (joined_docs)
  presence,  \* the Redis hash doc:<id>:presence: user -> cursor
  db,        \* the PostgreSQL rows of the document
  req,       \* requests sent and not yet handled
  inbox,     \* messages sent to a client and not yet received
  client,    \* each DocClient: its text, revision, and whether it waits
  origin,    \* history: the text when ops_log was last empty
  used       \* how often each bounded input has happened

memory == <<doc, session, todo, loop, link, joined>>
vars == <<up, doc, session, todo, loop, link, joined, presence, db, req, inbox,
          client, origin, used>>

Loaded == doc # NotLoaded
Empty == [x \in {} |-> 0]

\* The function f with x bound to v, whether or not it was bound before.
Bind(f, x, v) == [y \in DOMAIN f \cup {x} |-> IF y = x THEN v ELSE f[y]]

-----------------------------------------------------------------------------
(* The database.  Each handler's writes are a sequence of commits.         *)

LatestVersion(d) == IF d.snaps = Empty THEN 0 ELSE Max(DOMAIN d.snaps)

\* Mutant: "version > ?" in load_document's query.
ReplayedAfter(d, text, row) ==
  IF row.version > LatestVersion(d) THEN ApplyOperation(text, row.op) ELSE text

\* One operations row on load: those before the latest snapshot are in it.
Replayed(d, text, row) ==
  IF row.version >= LatestVersion(d) THEN ApplyOperation(text, row.op) ELSE text

\* load_document: the latest snapshot, and the operations since replayed in
\* insertion order.
LoadText(d) ==
  FoldLeft(LAMBDA text, row : Replayed(d, text, row),
           IF d.snaps = Empty THEN << >> ELSE d.snaps[LatestVersion(d)], d.ops)

LoadDocument ==
  IF Loaded THEN doc
  ELSE [text |-> LoadText(db), version |-> LatestVersion(db), pending |-> 0, log |-> << >>]

\* create_snapshot: a new snapshots row, then documents.current_version.
SnapshotCommits(d, m) ==
  LET inserted == [d EXCEPT !.snaps = Bind(@, m.version + 1, m.text)]
  IN  << inserted, [inserted EXCEPT !.current = m.version + 1] >>

\* Mutant: the document in memory keeps its old version.
SnapshottedSameVersion(m) == [m EXCEPT !.pending = 0]

Snapshotted(m) == [m EXCEPT !.version = @ + 1, !.pending = 0]

-----------------------------------------------------------------------------
(* Messages and instructions.                                              *)

Note == [type |-> "note"]      \* a message that does not concern the text
ErrorUnsent == Note            \* mutant: a refused request is only logged
Error == [type |-> "error"]
DocState(text, rev) == [type |-> "doc_state", text |-> text, rev |-> rev]
\* Mutant: the ACK carries one operation, as if none were ever split.
AckFirst(ops, rev) == [type |-> "ack", ops |-> UpTo(ops, 1), rev |-> rev]
Ack(ops, rev) == [type |-> "ack", ops |-> ops, rev |-> rev]
RemoteOp(op, rev) == [type |-> "remote_op", op |-> op, rev |-> rev]

\* Send to the handler's own connection; send to each of a set of connections
\* (broadcast_to_doc once it has copied the session); a broadcast not begun.
Reply(m) == [do |-> "reply", msg |-> m]
Broadcast(to, m) == [do |-> "broadcast", to |-> to, msg |-> m]
TellOthers(u) == [do |-> "tell", skip |-> {u}]
TellAll == [do |-> "tell", skip |-> {}]
SendOp(op) == [do |-> "op", op |-> op, doc |-> "live", rev |-> 0]
AutoSnapshot == [do |-> "autosnap", doc |-> "live", pending |-> 0]
Unload == [do |-> "unload", session |-> "live"]

Editors(skip) == {session[u].ws : u \in DOMAIN session \ skip}

-----------------------------------------------------------------------------
(* How handlers run.                                                       *)

\* The handler of c takes its next request; it keeps the loop until it yields.
Takes(c, type) ==
  /\ up /\ loop = Free /\ link[c] \in {"open", "gone"} /\ todo[c] = << >>
  /\ req[c] # << >> /\ Head(req[c]).type = type
  /\ req' = [req EXCEPT ![c] = Tail(@)]

Runs(c, script) ==
  /\ todo' = [todo EXCEPT ![c] = script]
  /\ loop' = IF script = << >> THEN Free ELSE c

\* The handler of c continues with its first instruction.
Running(c, kind) ==
  up /\ loop \in {Free, c} /\ todo[c] # << >> /\ Head(todo[c]).do = kind

Rest(c) == Tail(todo[c])

\* ws.send: into the receiver's FIFO, if the connection is open.
Deliver(d, m) ==
  inbox' = IF link[d] = "open" /\ m # Note THEN [inbox EXCEPT ![d] = Append(@, m)] ELSE inbox

\* After a send to d the handler of c goes on, or is suspended if d is slow.
Sent(c, d, script) ==
  /\ todo' = [todo EXCEPT ![c] = script]
  /\ loop' = IF script = << >> \/ (d \in Slow /\ link[d] = "open") THEN Free ELSE c

\* await send_json(ws, ...) of a handler to its own connection.  On a closed
\* connection it raises ConnectionClosed, so does the report of that error,
\* and the connection's loop is left with its remaining requests unread.
SendReply(c) ==
  /\ Running(c, "reply")
  /\ IF link[c] = "open"
       THEN Sent(c, c, Rest(c)) /\ Deliver(c, Head(todo[c]).msg) /\ UNCHANGED req
       ELSE /\ todo' = [todo EXCEPT ![c] = << >>] /\ loop' = c
            /\ req' = [req EXCEPT ![c] = << >>]
            /\ UNCHANGED inbox
  /\ UNCHANGED <<up, doc, session, link, joined, presence, db, client, origin, used>>

\* One await of broadcast_to_doc; a closed connection is passed over.
SendNext(c) ==
  /\ Running(c, "broadcast")
  /\ LET i == Head(todo[c])
     IN  \E d \in i.to :
           /\ Deliver(d, i.msg)
           /\ Sent(c, d, IF i.to = {d} THEN Rest(c)
                         ELSE << [i EXCEPT !.to = @ \ {d}] >> \o Rest(c))
  /\ UNCHANGED <<up, doc, session, link, joined, presence, db, req, client, origin, used>>

BroadcastTo(to, m) == IF to = {} THEN << >> ELSE << Broadcast(to, m) >>

\* broadcast_to_doc copies the session and builds the message.  A note to a
\* client that reads promptly has no effect, so only slow ones are listed.
BeginBroadcast(c) ==
  /\ Running(c, "tell") \/ Running(c, "op")
  /\ LET i == Head(todo[c])
         rev == IF i.doc = "live" THEN Len(doc.log) ELSE i.rev
         notes == BroadcastTo(Editors(i.skip) \cap Slow, Note)
         ops == BroadcastTo(Editors({UserOf[c]}), RemoteOp(i.op, rev))
     IN  Runs(c, (IF i.do = "tell" THEN notes ELSE ops) \o Rest(c))
  /\ UNCHANGED <<up, doc, session, link, joined, presence, db, req, inbox, client,
                 origin, used>>

\* Replaces documents[doc_id] and the database by the result of create_snapshot.
CreateSnapshot(m) ==
  /\ doc' = Snapshotted(m)
  /\ db' = Last(SnapshotCommits(db, m))

\* The end of handle_edit.
CheckAutoSnapshot(c) ==
  /\ Running(c, "autosnap")
  /\ LET i == Head(todo[c])
         pending == IF i.doc = "live" THEN doc.pending ELSE i.pending
     IN  IF pending >= Threshold /\ Loaded
           THEN CreateSnapshot(doc) /\ Runs(c, << TellAll >> \o Rest(c))
           ELSE Runs(c, Rest(c)) /\ UNCHANGED <<doc, db>>
  /\ UNCHANGED <<up, session, link, joined, presence, req, inbox, client, origin, used>>

-----------------------------------------------------------------------------
(* The message handlers.                                                   *)

HandleJoin(c) ==
  /\ Takes(c, "join")
  /\ joined' = [joined EXCEPT ![c] = TRUE]
  /\ LET u == UserOf[c]
         m == LoadDocument
     IN  IF u \notin DOMAIN db.collab
           THEN Runs(c, << Reply(Error) >>) /\ UNCHANGED <<doc, session, presence, origin>>
           ELSE /\ doc' = m
                /\ origin' = IF Loaded THEN origin ELSE m.text
                /\ session' = Bind(session, u, [ws |-> c, cursor |-> 0, role |-> db.collab[u]])
                /\ presence' = Bind(presence, u, 0)
                /\ Runs(c, << Reply(DocState(m.text, Len(m.log))), Reply(Note), TellOthers(u) >>)
  /\ UNCHANGED <<up, link, db, inbox, client, used>>

\* move_cursors over the applied operations: every other editor's caret, in
\* memory and, where it moved, in Redis.
MovedCursor(u, ops) == FoldLeft(TransformCursor, session[u].cursor, ops)

\* Mutant: carets move in memory only.
MoveCursorsInMemory(ops, author) ==
  /\ session' = [u \in DOMAIN session |->
                   IF u = author THEN session[u]
                   ELSE [session[u] EXCEPT !.cursor = MovedCursor(u, ops)]]
  /\ UNCHANGED presence

MoveCursors(ops, author) ==
  LET moved == {u \in DOMAIN session \ {author} :
                  \E k \in DOMAIN ops : MovedCursor(u, SubSeq(ops, 1, k))
                                          # MovedCursor(u, SubSeq(ops, 1, k - 1))}
  IN  /\ session' = [u \in DOMAIN session |->
                       IF u = author THEN session[u]
                       ELSE [session[u] EXCEPT !.cursor = MovedCursor(u, ops)]]
      /\ presence' = [u \in DOMAIN presence \cup moved |->
                        IF u \in moved THEN MovedCursor(u, ops) ELSE presence[u]]

\* Mutant: an edit is applied as it was sent.
AppliedVerbatim(m) == << m.op >>

\* The operations the server applies for an edit: transformed against
\* everything logged since the client's revision, clamped to the log.
Applied(m) ==
  LET since == Lesser(m.rev, Len(doc.log))
  IN  TransformOperations(m.op, SubSeq(doc.log, since + 1, Len(doc.log)))

\* Mutant: only the first operation of an edit is written.
LoggedFirst(d, version, ops) ==
  [d EXCEPT !.ops = @ \o [k \in 1 .. Lesser(1, Len(ops)) |-> [version |-> version, op |-> ops[k]]]]

\* The operations rows an edit commits, one at a time, and the database then.
Logged(d, version, ops) ==
  [d EXCEPT !.ops = @ \o [k \in DOMAIN ops |-> [version |-> version, op |-> ops[k]]]]

MayEdit(u) == u \in DOMAIN session => session[u].role # "viewer"

HandleEdit(c) ==
  /\ Takes(c, "edit")
  /\ LET m == Head(req[c])
         u == UserOf[c]
     IN  IF ~Loaded \/ ~MayEdit(u)
           THEN Runs(c, << Reply(Error) >>) /\ UNCHANGED <<doc, session, presence, db>>
           ELSE LET ops == Applied(m)
                    log == doc.log \o ops
                IN  /\ doc' = [doc EXCEPT !.text = ApplyOperations(@, ops), !.log = log,
                                          !.pending = @ + Len(ops)]
                    /\ db' = Logged(db, doc.version, ops)
                    /\ MoveCursors(ops, u)
                    /\ Runs(c, << Reply(Ack(ops, Len(log))) >>
                                 \o [k \in DOMAIN ops |-> SendOp(ops[k])]
                                 \o << AutoSnapshot >>)
  /\ UNCHANGED <<up, link, joined, inbox, client, origin, used>>

HandleCursorUpdate(c) ==
  /\ Takes(c, "cursor")
  /\ LET u == UserOf[c]
         p == Head(req[c]).position
     IN  /\ session' = IF u \in DOMAIN session THEN [session EXCEPT ![u].cursor = p] ELSE session
         /\ presence' = Bind(presence, u, p)
         /\ Runs(c, << TellOthers(u) >>)
  /\ UNCHANGED <<up, doc, link, joined, db, inbox, client, origin, used>>

HandleSaveSnapshot(c) ==
  /\ Takes(c, "save")
  /\ IF Loaded THEN CreateSnapshot(doc) ELSE UNCHANGED <<doc, db>>
  /\ Runs(c, << Reply(Note) >>)
  /\ UNCHANGED <<up, session, link, joined, presence, inbox, client, origin, used>>

\* The restored document as it is just before its snapshot: every client's
\* revision is meaningless now.
Restored(version) ==
  [LoadDocument EXCEPT !.text = db.snaps[version], !.pending = 0, !.log = << >>]

HandleRestoreVersion(c) ==
  /\ Takes(c, "restore")
  /\ LET v == Head(req[c]).version
     IN  IF v \notin DOMAIN db.snaps
           THEN Runs(c, << Reply(Note) >>) /\ UNCHANGED <<doc, db, origin>>
           ELSE /\ CreateSnapshot(Restored(v))
                /\ origin' = db.snaps[v]
                /\ Runs(c, BroadcastTo(Editors({}), DocState(db.snaps[v], 0)) \o << Reply(Note) >>)
  /\ UNCHANGED <<up, session, link, joined, presence, inbox, client, used>>

\* handle_create_doc: the documents row, its owner as collaborator, and an
\* empty snapshot 0, in three commits.  A second request creates another
\* document, with an id of its own.
CreateCommits(u) ==
  LET owned == [db EXCEPT !.row = TRUE, !.collab = Bind(Empty, u, "owner")]
  IN  << [db EXCEPT !.row = TRUE], owned, [owned EXCEPT !.snaps = Bind(Empty, 0, << >>)] >>

HandleCreateDoc(c) ==
  /\ Takes(c, "create")
  /\ db' = IF db.row THEN db ELSE Last(CreateCommits(UserOf[c]))
  /\ Runs(c, << Reply(Note) >>)
  /\ UNCHANGED <<up, doc, session, link, joined, presence, inbox, client, origin, used>>

-----------------------------------------------------------------------------
(* Connection lifecycle.                                                   *)

Connect(c) ==
  /\ up /\ link[c] = "new"
  /\ link' = [link EXCEPT ![c] = "open"]
  /\ UNCHANGED <<up, doc, session, todo, loop, joined, presence, db, req, inbox, client,
                 origin, used>>

\* Mutant: the entry in the session stays.
LeavePresence(u) ==
  /\ presence' = Restrict(presence, DOMAIN presence \ {u})
  /\ UNCHANGED session

\* The user's entry is deleted from the session and from Redis.
Leave(u) ==
  /\ session' = Restrict(session, DOMAIN session \ {u})
  /\ presence' = Restrict(presence, DOMAIN presence \ {u})

\* handle_disconnect up to its broadcast: the user's entry is removed, whoever
\* registered it.  todo then holds the check for an empty session.
HandleDisconnect(c) ==
  /\ up /\ loop \in {Free, c} /\ link[c] = "gone" /\ todo[c] = << >> /\ req[c] = << >>
  /\ link' = [link EXCEPT ![c] = "done"]
  /\ LET u == UserOf[c]
     IN  IF joined[c] /\ u \in DOMAIN session
           THEN Leave(u) /\ Runs(c, << TellAll, Unload >>)
           ELSE Runs(c, << >>) /\ UNCHANGED <<session, presence>>
  /\ UNCHANGED <<up, doc, joined, db, req, inbox, client, origin, used>>

\* A suspended handler keeps its references to the dicts that an unload
\* removes: what it will read from them is what they hold now.
Detached(i) ==
  CASE i.do = "op" /\ i.doc = "live" -> [i EXCEPT !.doc = "old", !.rev = Len(doc.log)]
    [] i.do = "autosnap" /\ i.doc = "live" -> [i EXCEPT !.doc = "old", !.pending = doc.pending]
    [] i.do = "unload" /\ i.session = "live" ->
         [i EXCEPT !.session = IF session = Empty THEN "empty" ELSE "busy"]
    [] OTHER -> i

\* Mutant: the document is unloaded whoever is still there.
NobodyAsked(i) == TRUE

\* "if not session" asks the dict the handler took before its broadcast.
NobodyLeft(i) == IF i.session = "live" THEN session = Empty ELSE i.session = "empty"

\* The end of handle_disconnect.
CheckUnload(c) ==
  /\ Running(c, "unload")
  /\ LET i == Head(todo[c])
     IN  IF NobodyLeft(i)
           THEN /\ db' = IF Loaded /\ doc.pending > 0 THEN Last(SnapshotCommits(db, doc)) ELSE db
                /\ doc' = NotLoaded /\ session' = Empty /\ presence' = Empty
                /\ todo' = [d \in Conns |-> IF d = c THEN Rest(c)
                                            ELSE [k \in DOMAIN todo[d] |-> Detached(todo[d][k])]]
           ELSE /\ todo' = [todo EXCEPT ![c] = Rest(c)]
                /\ UNCHANGED <<doc, session, presence, db>>
  /\ loop' = Free
  /\ UNCHANGED <<up, link, joined, req, inbox, client, origin, used>>
-----------------------------------------------------------------------------
(* The clients.                                                            *)

Spend(what, bound) ==
  /\ used[what] < bound /\ used.total < MaxTotal
  /\ used' = [used EXCEPT ![what] = @ + 1, !.total = @ + 1]

ClientSends(c, m) ==
  /\ link[c] = "open" /\ ~client[c].waiting
  /\ req' = [req EXCEPT ![c] = Append(@, m)]
  /\ UNCHANGED <<up, doc, session, todo, loop, link, joined, presence, db, inbox, origin>>

Waits(c) == client' = [client EXCEPT ![c].waiting = TRUE]

ClientJoins(c) ==
  /\ client[c].text = NoText
  /\ ClientSends(c, [type |-> "join"]) /\ Waits(c)
  /\ UNCHANGED used

\* What a client can do to the text it sees; the n-th edit inserts a character
\* of its own, so that no character occurs twice.
ClientOps(c) ==
  LET t == client[c].text
      u == UserOf[c]
  IN  {MakeInsert(p, << 100 + used.edits >>, u) : p \in 0 .. Len(t)}
        \cup {op \in {MakeDelete(p, n, u) : p \in 0 .. Len(t), n \in 1 .. Len(t)} : FitsText(op, t)}

\* DocClient.send_edit: quotes the client's revision, waits for the ACK.  seen
\* is a history field, the text the user was looking at.
ClientEdits(c) ==
  /\ client[c].text # NoText
  /\ \E op \in ClientOps(c) :
       ClientSends(c, [type |-> "edit", op |-> op, rev |-> client[c].rev, seen |-> client[c].text])
  /\ Waits(c) /\ Spend("edits", MaxEdits)

ClientMovesCursor(c) ==
  /\ client[c].text # NoText
  /\ \E p \in 0 .. Len(client[c].text) : ClientSends(c, [type |-> "cursor", position |-> p])
  /\ Spend("cursors", MaxCursors) /\ UNCHANGED client

ClientSaves(c) ==
  /\ client[c].text # NoText
  /\ ClientSends(c, [type |-> "save"])
  /\ Spend("saves", MaxSaves) /\ UNCHANGED client

\* A version the client found in the history, which only ever grows.
ClientRestores(c) ==
  /\ client[c].text # NoText
  /\ \E v \in DOMAIN db.snaps : ClientSends(c, [type |-> "restore", version |-> v])
  /\ Spend("restores", MaxRestores) /\ UNCHANGED client

ClientCreates(c) ==
  /\ ~db.row /\ req[c] = << >>
  /\ ClientSends(c, [type |-> "create"]) /\ UNCHANGED <<client, used>>

\* recv_message and collect_ack: a doc_state replaces the text, an operation
\* is applied to it, and either brings the revision.  seen is a history field:
\* the operations received since the last doc_state, on top of its revision.
ClientReceives(c) ==
  /\ inbox[c] # << >>
  /\ inbox' = [inbox EXCEPT ![c] = Tail(@)]
  /\ LET m == Head(inbox[c])
         k == client[c]
     IN  client' = [client EXCEPT ![c] =
           CASE m.type = "doc_state" ->
                  [text |-> m.text, rev |-> m.rev, seen |-> m.rev,
                   waiting |-> k.waiting /\ k.text # NoText]
             [] m.type = "ack" ->
                  [text |-> ApplyOperations(k.text, m.ops), rev |-> m.rev,
                   seen |-> k.seen + Len(m.ops), waiting |-> FALSE]
             [] m.type = "remote_op" ->
                  [k EXCEPT !.text = ApplyOperation(@, m.op), !.rev = m.rev, !.seen = @ + 1]
             [] m.type = "error" -> [k EXCEPT !.waiting = FALSE]]
  /\ UNCHANGED <<up, doc, session, todo, loop, link, joined, presence, db, req, origin, used>>

\* The connection ends.  Requests already sent are still handled.
ClientCloses(c) ==
  /\ link[c] = "open" /\ (c \in Rude \/ (~client[c].waiting /\ req[c] = << >>))
  /\ link' = [link EXCEPT ![c] = "gone"]
  /\ inbox' = [inbox EXCEPT ![c] = << >>]
  /\ client' = [client EXCEPT ![c] = [@ EXCEPT !.waiting = FALSE]]
  /\ Spend("closes", MaxCloses)
  /\ UNCHANGED <<up, doc, session, todo, loop, joined, presence, db, req, origin>>

-----------------------------------------------------------------------------
(* Crashes.                                                                *)

\* The databases that a process killed between two commits of the handler of c
\* leaves behind, when the loop is free for that handler to run.
CutShort(c) ==
  LET m == Head(req[c])
      AllButLast(commits) == {commits[k] : k \in 1 .. Len(commits) - 1}
  IN  IF todo[c] # << >>
        THEN IF /\ Loaded /\ doc.pending > 0
                /\ \/ Head(todo[c]).do = "autosnap" /\ doc.pending >= Threshold
                   \/ Head(todo[c]).do = "unload" /\ NobodyLeft(Head(todo[c]))
               THEN AllButLast(SnapshotCommits(db, doc)) ELSE {}
      ELSE IF req[c] = << >> THEN {}
      ELSE CASE m.type = "edit" /\ Loaded /\ MayEdit(UserOf[c]) ->
                  {Logged(db, doc.version, SubSeq(Applied(m), 1, k)) : k \in 0 .. Len(Applied(m)) - 1}
             [] m.type = "save" /\ Loaded -> AllButLast(SnapshotCommits(db, doc))
             [] m.type = "restore" /\ m.version \in DOMAIN db.snaps ->
                  AllButLast(SnapshotCommits(db, Restored(m.version)))
             [] m.type = "create" /\ ~db.row -> AllButLast(CreateCommits(UserOf[c]))
             [] OTHER -> {}

\* The process dies: memory is gone, Redis and the committed rows stay.
Crash ==
  /\ up /\ Spend("crashes", MaxCrashes)
  /\ db' \in {db} \cup UNION {CutShort(c) : c \in IF loop = Free THEN Conns ELSE {loop}}
  /\ up' = FALSE
  /\ doc' = NotLoaded /\ session' = Empty
  /\ todo' = [c \in Conns |-> << >>] /\ loop' = Free
  /\ link' = [c \in Conns |-> IF link[c] = "new" THEN "new" ELSE "done"]
  /\ joined' = [c \in Conns |-> FALSE]
  /\ req' = [c \in Conns |-> << >>] /\ inbox' = [c \in Conns |-> << >>]
  /\ client' = [c \in Conns |-> [client[c] EXCEPT !.waiting = FALSE]]
  /\ UNCHANGED <<presence, origin>>

Restart ==
  /\ ~up /\ up' = TRUE
  /\ UNCHANGED <<doc, session, todo, loop, link, joined, presence, db, req, inbox, client,
                 origin, used>>

-----------------------------------------------------------------------------
NoDocument == [row |-> FALSE, collab |-> Empty, snaps |-> Empty, ops |-> << >>, current |-> 0]

\* A document of the seed data: created empty, written by its owner, saved.
SeededDocument(collab) ==
  LET owner == CHOOSE u \in DOMAIN collab : collab[u] = "owner"
  IN  [row |-> TRUE, collab |-> collab, snaps |-> Bind(Bind(Empty, 0, << >>), 1, Seed),
       ops |-> << [version |-> 0, op |-> MakeInsert(0, Seed, owner)] >>, current |-> 1]

Init ==
  /\ up = TRUE
  /\ doc = NotLoaded /\ session = Empty /\ presence = Empty
  /\ todo = [c \in Conns |-> << >>] /\ loop = Free
  /\ link = [c \in Conns |-> "new"] /\ joined = [c \in Conns |-> FALSE]
  /\ db \in {NoDocument} \cup {SeededDocument(collab) : collab \in Roles}
  /\ req = [c \in Conns |-> << >>] /\ inbox = [c \in Conns |-> << >>]
  /\ client = [c \in Conns |-> [text |-> NoText, rev |-> 0, seen |-> 0, waiting |-> FALSE]]
  /\ origin = << >>
  /\ used = [edits |-> 0, saves |-> 0, restores |-> 0, cursors |-> 0, closes |-> 0, crashes |-> 0,
             total |-> 0]

Handle(c) ==
  \/ HandleJoin(c) \/ HandleEdit(c) \/ HandleCursorUpdate(c) \/ HandleSaveSnapshot(c)
  \/ HandleRestoreVersion(c) \/ HandleCreateDoc(c) \/ HandleDisconnect(c)

Step(c) ==
  \/ SendReply(c) \/ SendNext(c) \/ BeginBroadcast(c) \/ CheckAutoSnapshot(c) \/ CheckUnload(c)

ClientActs(c) ==
  \/ ClientJoins(c) \/ ClientEdits(c) \/ ClientMovesCursor(c) \/ ClientSaves(c)
  \/ ClientRestores(c) \/ ClientCreates(c) \/ ClientCloses(c)

Next ==
  \/ \E c \in Conns : Connect(c) \/ Handle(c) \/ Step(c) \/ ClientActs(c) \/ ClientReceives(c)
  \/ Crash \/ Restart

Spec == Init /\ [][Next]_vars

\* The event loop takes ready handlers in FIFO order, so one that can run again
\* and again does run, though others hold the loop in between; every client,
\* slow or prompt, reads in the end.  Nothing makes a user act, a connection
\* end or a process crash, or come back.
Fairness ==
  \A c \in Conns : SF_vars(Handle(c)) /\ SF_vars(Step(c)) /\ WF_vars(ClientReceives(c))

FairSpec == Spec /\ Fairness
=============================================================================
