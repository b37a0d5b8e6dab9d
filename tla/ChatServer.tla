----------------------------- MODULE ChatServer -----------------------------
(***************************************************************************)
(* The chat server (whatsapp/server/chat_server.py) with its PostgreSQL    *)
(* tables, the Redis channel of each user, the presence leases, and        *)
(* clients of several devices.                                             *)
(*                                                                         *)
(* One process, one event loop.  A handler runs alone between two awaits,  *)
(* so each such piece is one action, and every await is a place where any  *)
(* other task may come in between.  todo holds the sends and the publish   *)
(* that a handler has still to do; the pushes of a connection come from a  *)
(* task of their own, redis_subscriber.  What is sent to an open           *)
(* connection is received at once: a client's reactions are actions of     *)
(* their own, which come as late as they like.                             *)
(***************************************************************************)
EXTENDS Integers, Sequences, SequencesExt, FiniteSetsExt

CONSTANTS
  Conns,        \* websocket connections, each used once
  UserOf,       \* the user whose device each connection is
  Seeds,        \* the possible chats at the start: sequences of [members, last]
  Beating,      \* connections whose client sends its heartbeats in time
  Impatient,    \* the subscriber may give up waiting for Redis to confirm
  MaxSends, MaxReceipts, MaxCloses, MaxCrashes, MaxChats,  \* bounds
  MaxTotal,     \* bound on the sum of the first four
  NoCounter     \* the chat has no chat_sequences row

Users == {UserOf[c] : c \in Conns}

ASSUME ChatAssumption ==
  /\ UserOf \in [Conns -> Users] /\ Beating \subseteq Conns /\ Impatient \in BOOLEAN
  /\ Seeds \subseteq Seq([members : SUBSET Users, last : {0, NoCounter}])
  /\ {MaxSends, MaxReceipts, MaxCloses, MaxCrashes, MaxChats, MaxTotal} \subseteq Nat /\ NoCounter \notin Nat

VARIABLES
  up,           \* the server process is running
  phase,        \* how far each connection's handler is
  link,         \* each connection as the server sees it
  connections,  \* user -> its registered connections
  todo,         \* what a handler has still to send or publish
  task,         \* each connection's redis_subscriber
  channel,      \* what Redis has for a subscriber and it has not yet forwarded
  online,       \* the users whose presence key exists
  db,           \* chats with members and last_sequence, messages, inbox
  client,       \* each device: messages seen, receipts seen, whether it has synced
  unacked,      \* user -> what it sent and has no ACK for
  skipped,      \* history: messages whose publish was skipped
  used          \* how often each bounded input has happened

vars == <<up, phase, link, connections, todo, task, channel, online, db, client, unacked,
          skipped, used>>

Empty == [x \in {} |-> 0]

-----------------------------------------------------------------------------
(* The database.  A message's id is its place in messages.                 *)

Members(id) == db.chats[db.messages[id].chat].members

\* Whom store_message gives an inbox row: every participant but the sender.
Recipients(id) == Members(id) \ {db.messages[id].sender}

\* store_message, one transaction: the chat's next number, the message, and a
\* pending inbox row per recipient.
StoreMessage(d, k, user, content) ==
  LET n == IF d.chats[k].last = NoCounter THEN 1 ELSE d.chats[k].last + 1
      id == Len(d.messages) + 1
      rows == {<<u, id>> : u \in d.chats[k].members \ {user}}
  IN  [chats |-> [d.chats EXCEPT ![k].last = n],
       messages |-> Append(d.messages, [chat |-> k, sender |-> user, seq |-> n,
                                        content |-> content]),
       inbox |-> [r \in DOMAIN d.inbox \cup rows |->
                    IF r \in rows THEN [status |-> "pending", delivered |-> FALSE]
                    ELSE d.inbox[r]]]

\* handle_sync's rows: every pending one, in each chat by sequence number.
PendingFor(user) ==
  LET ids == {id \in DOMAIN db.messages : /\ <<user, id>> \in DOMAIN db.inbox
                                         /\ db.inbox[user, id].status = "pending"}
      precedes(i, j) == \/ db.messages[i].chat < db.messages[j].chat
                        \/ /\ db.messages[i].chat = db.messages[j].chat
                           /\ db.messages[i].seq < db.messages[j].seq
  IN  {rows \in Surjection(1..Cardinality(ids), ids) :
         \A i, j \in DOMAIN rows : i < j => precedes(rows[i], rows[j])}

-----------------------------------------------------------------------------
(* Messages.                                                               *)

New(id) == [type |-> "new_message", id |-> id]
Ack(k, content) == [type |-> "ack", what |-> <<k, content>>]
Receipt(kind, id, user) == [type |-> kind, id |-> id, user |-> user]
SyncComplete == [type |-> "sync_complete"]

Reply(m) == [do |-> "reply", msg |-> m]
Publish(id) == [do |-> "publish", id |-> id]

\* What device c makes of message m.
Receives(c, m) ==
  /\ client' = [client EXCEPT ![c] =
       CASE m.type = "new_message" -> [@ EXCEPT !.seen = client[c].seen \cup {m.id}]
         [] m.type = "sync_complete" -> [@ EXCEPT !.synced = TRUE]
         [] m.type = "ack" -> @
         [] OTHER -> [@ EXCEPT !.marks = Append(client[c].marks, m)]]
  /\ unacked' = IF m.type = "ack" THEN [unacked EXCEPT ![UserOf[c]] = @ \ {m.what}] ELSE unacked

\* PUBLISH on the channels of some users: every subscribed connection of theirs
\* gets it, nobody else ever does.
PublishTo(users, m) ==
  channel' = [c \in Conns |-> IF task[c] = "subscribed" /\ UserOf[c] \in users
                              THEN Append(channel[c], m) ELSE channel[c]]

\* An input whose number is bounded happens.
Spend(what, bound) ==
  /\ used[what] < bound /\ used.total < MaxTotal
  /\ used' = [used EXCEPT ![what] = @ + 1, !.total = @ + 1]

-----------------------------------------------------------------------------
(* The connection's handler, from its greeting to its end.                 *)

\* A device connects: registered, online, its subscriber started.
Connect(c) ==
  /\ up /\ phase[c] = "new"
  /\ phase' = [phase EXCEPT ![c] = "subscribing"]
  /\ link' = [link EXCEPT ![c] = "open"]
  /\ connections' = [connections EXCEPT ![UserOf[c]] = @ \cup {c}]
  /\ online' = online \cup {UserOf[c]}
  /\ task' = [task EXCEPT ![c] = "asked"]
  /\ UNCHANGED <<up, todo, channel, db, client, unacked, skipped, used>>

\* Redis processes the SUBSCRIBE; from here on it queues what is published.
RedisSubscribes(c) ==
  /\ task[c] = "asked"
  /\ task' = [task EXCEPT ![c] = "subscribed"]
  /\ UNCHANGED <<up, phase, link, connections, todo, channel, online, db, client, unacked,
                 skipped, used>>

\* Mutant: "connected" is sent without waiting for the subscription.
ReadyAtOnce(c) == TRUE

\* sub_ready: the confirmation was read, the task has ended since, or the budget
\* for it is used up.
Ready(c) == task[c] # "asked" \/ Impatient

\* The handler is woken and greets the client; if it has left, the send raises
\* and HandleEnd follows.
Greet(c) ==
  /\ phase[c] = "subscribing" /\ Ready(c)
  /\ phase' = [phase EXCEPT ![c] = "serving"]
  /\ UNCHANGED <<up, link, connections, todo, task, channel, online, db, client, unacked,
                 skipped, used>>

ClientCloses(c) ==
  /\ link[c] = "open"
  /\ link' = [link EXCEPT ![c] = "gone"]
  /\ Spend("closes", MaxCloses)
  /\ UNCHANGED <<up, phase, connections, todo, task, channel, online, db, client, unacked,
                 skipped>>

\* Mutant: every disconnect sets the user offline.
OfflineWith(left, user) == {user}

\* Who is set offline when a user is left with these connections.
OfflineIf(left, user) == IF left = {} THEN {user} ELSE {}

\* Mutant: the connection stays registered.
LeftStale(c) == connections[UserOf[c]]

\* The connections its user is left with when c ends.
Left(c) == connections[UserOf[c]] \ {c}

\* The finally block: unregistered, offline if it was the user's last device,
\* the subscriber cancelled.
HandleEnd(c) ==
  /\ phase[c] = "serving" /\ link[c] = "gone" /\ todo[c] = << >>
  /\ phase' = [phase EXCEPT ![c] = "done"]
  /\ connections' = [connections EXCEPT ![UserOf[c]] = Left(c)]
  /\ online' = online \ OfflineIf(Left(c), UserOf[c])
  /\ task' = [task EXCEPT ![c] = "ended"]
  /\ channel' = [channel EXCEPT ![c] = << >>]
  /\ UNCHANGED <<up, link, todo, db, client, unacked, skipped, used>>

-----------------------------------------------------------------------------
(* Requests.  A client asks when its handler is idle: a request that waits  *)
(* might as well be sent later.  The last send of a handler, after which   *)
(* it does nothing (ack_ok, read_ok, chat_created, heartbeat_ack), is left  *)
(* out: if it raises, HandleEnd follows as it does anyway.                  *)

Asks(c) == phase[c] = "serving" /\ link[c] = "open" /\ todo[c] = << >>

Does(c, script) == todo' = [todo EXCEPT ![c] = script]

\* handle_send_message: a new text in a chat of the user's, or one the user has
\* no ACK for, sent again.
HandleSendMessage(c) ==
  /\ Asks(c) /\ Spend("sends", MaxSends)
  /\ LET user == UserOf[c]
         id == Len(db.messages) + 1
         mine == {k \in DOMAIN db.chats : user \in db.chats[k].members}
     IN  \E what \in {<<k, id>> : k \in mine} \cup unacked[user] :
           /\ db' = StoreMessage(db, what[1], user, what[2])
           /\ unacked' = [unacked EXCEPT ![user] = @ \cup {what}]
           /\ Does(c, << Reply(Ack(what[1], what[2])), Publish(id) >>)
  /\ UNCHANGED <<up, phase, link, connections, task, channel, online, client, skipped>>

\* Mutants: the UPDATE without its guard on the status.
AckMatchesAny(row) == TRUE
ReadMatchesAny(row) == TRUE

AckMatches(row) == row.status = "pending"
ReadMatches(row) == row.status # "read"

\* An UPDATE of the user's inbox row that, where it matches, moves it to status,
\* stamps delivered_at, and tells the sender.
UpdateInbox(c, id, matches, status, receipt) ==
  LET key == <<UserOf[c], id>>
  IN  IF matches
        THEN /\ db' = [db EXCEPT !.inbox[key] = [status |-> status, delivered |-> TRUE]]
             /\ PublishTo({db.messages[id].sender}, Receipt(receipt, id, UserOf[c]))
             /\ Spend("receipts", MaxReceipts)
        ELSE UNCHANGED <<db, channel, used>>

\* A device acknowledges a message it has seen, for the first time or again.
HandleAck(c) ==
  /\ Asks(c)
  /\ \E id \in client[c].seen :
       UpdateInbox(c, id, AckMatches(db.inbox[UserOf[c], id]), "delivered", "delivery_receipt")
  /\ UNCHANGED <<up, phase, link, connections, todo, task, online, client, unacked, skipped>>

\* Its user reads it; the ACK may still be on its way.
HandleRead(c) ==
  /\ Asks(c)
  /\ \E id \in client[c].seen :
       UpdateInbox(c, id, ReadMatches(db.inbox[UserOf[c], id]), "read", "read_receipt")
  /\ UNCHANGED <<up, phase, link, connections, todo, task, online, client, unacked, skipped>>

HandleSync(c) ==
  /\ Asks(c)
  /\ \E rows \in PendingFor(UserOf[c]) :
       Does(c, [i \in DOMAIN rows |-> Reply(New(rows[i]))] \o << Reply(SyncComplete) >>)
  /\ UNCHANGED <<up, phase, link, connections, task, channel, online, db, client, unacked,
                 skipped, used>>

\* handle_create_chat's two commits: the chats row, then the participants and
\* the sequence counter.  The second fails if somebody named is not a user.
ChatRow(d) == [d EXCEPT !.chats = Append(@, [members |-> {}, last |-> NoCounter])]
ChatOpened(d, members) == [d EXCEPT !.chats = Append(@, [members |-> members, last |-> 0])]

HandleCreateChat(c) ==
  /\ Asks(c) /\ Len(db.chats) < MaxChats
  /\ \/ \E others \in SUBSET Users : db' = ChatOpened(db, others \cup {UserOf[c]})
     \/ db' = ChatRow(db)
  /\ UNCHANGED <<up, phase, link, connections, todo, task, channel, online, client, unacked,
                 skipped, used>>

HandleHeartbeat(c) ==
  /\ Asks(c)
  /\ online' = online \cup {UserOf[c]}
  /\ UNCHANGED <<up, phase, link, connections, todo, task, channel, db, client, unacked,
                 skipped, used>>

-----------------------------------------------------------------------------
(* What the tasks do next.                                                 *)

\* await send_json of a handler.  If the connection is closed it raises, so
\* does the report of the error, and what the handler had still to do is not
\* done.
SendReply(c) ==
  /\ todo[c] # << >> /\ Head(todo[c]).do = "reply"
  /\ IF link[c] = "open"
       THEN Does(c, Tail(todo[c])) /\ Receives(c, Head(todo[c]).msg) /\ UNCHANGED skipped
       ELSE /\ Does(c, << >>)
            /\ skipped' = skipped \cup {i.id : i \in {j \in Range(todo[c]) : j.do = "publish"}}
            /\ UNCHANGED <<client, unacked>>
  /\ UNCHANGED <<up, phase, link, connections, task, channel, online, db, used>>

\* The end of handle_send_message.
PublishMessage(c) ==
  /\ todo[c] # << >> /\ Head(todo[c]).do = "publish"
  /\ LET id == Head(todo[c]).id IN PublishTo(Recipients(id), New(id))
  /\ Does(c, Tail(todo[c]))
  /\ UNCHANGED <<up, phase, link, connections, task, online, db, client, unacked, skipped,
                 used>>

\* redis_subscriber takes one message off its channel and sends it; on a closed
\* connection the send raises and the task ends.
Forward(c) ==
  /\ task[c] = "subscribed" /\ channel[c] # << >>
  /\ IF link[c] = "open"
       THEN /\ Receives(c, Head(channel[c]))
            /\ channel' = [channel EXCEPT ![c] = Tail(@)]
            /\ UNCHANGED task
       ELSE /\ task' = [task EXCEPT ![c] = "ended"]
            /\ channel' = [channel EXCEPT ![c] = << >>]
            /\ UNCHANGED <<client, unacked>>
  /\ UNCHANGED <<up, phase, link, connections, todo, online, db, skipped, used>>

-----------------------------------------------------------------------------
(* Time and crashes.                                                       *)

\* The presence key lives 60 seconds from the last connect or heartbeat; a
\* client that beats in time, connected to a running server, renews it before.
LeaseExpires(user) ==
  /\ user \in online
  /\ ~ \E c \in connections[user] \cap Beating : link[c] = "open"
  /\ online' = online \ {user}
  /\ UNCHANGED <<up, phase, link, connections, todo, task, channel, db, client, unacked,
                 skipped, used>>

\* The process dies: its memory, its connections and its subscriptions are
\* gone; PostgreSQL and the presence keys stay.  A handler that was creating a
\* chat may have committed the first half.
Crash ==
  /\ up /\ Spend("crashes", MaxCrashes)
  /\ db' \in {db} \cup (IF Len(db.chats) < MaxChats /\ \E c \in Conns : Asks(c)
                          THEN {ChatRow(db)} ELSE {})
  /\ up' = FALSE
  /\ phase' = [c \in Conns |-> IF phase[c] = "new" THEN "new" ELSE "done"]
  /\ link' = [c \in Conns |-> IF phase[c] = "new" THEN link[c] ELSE "gone"]
  /\ connections' = [u \in Users |-> {}]
  /\ todo' = [c \in Conns |-> << >>] /\ channel' = [c \in Conns |-> << >>]
  /\ task' = [c \in Conns |-> IF task[c] = "none" THEN "none" ELSE "ended"]
  /\ UNCHANGED <<online, client, unacked, skipped>>

Restart ==
  /\ ~up /\ up' = TRUE
  /\ UNCHANGED <<phase, link, connections, todo, task, channel, online, db, client, unacked,
                 skipped, used>>

-----------------------------------------------------------------------------
Init ==
  /\ up = TRUE
  /\ phase = [c \in Conns |-> "new"] /\ link = [c \in Conns |-> "none"]
  /\ connections = [u \in Users |-> {}]
  /\ todo = [c \in Conns |-> << >>]
  /\ task = [c \in Conns |-> "none"] /\ channel = [c \in Conns |-> << >>]
  /\ online = {}
  /\ db \in {[chats |-> chats, messages |-> << >>, inbox |-> Empty] : chats \in Seeds}
  /\ client = [c \in Conns |-> [seen |-> {}, marks |-> << >>, synced |-> FALSE]]
  /\ unacked = [u \in Users |-> {}]
  /\ skipped = {} /\ used = [sends |-> 0, receipts |-> 0, closes |-> 0, crashes |-> 0, total |-> 0]

Handle(c) ==
  \/ HandleSendMessage(c) \/ HandleAck(c) \/ HandleRead(c) \/ HandleSync(c)
  \/ HandleCreateChat(c) \/ HandleHeartbeat(c)

\* What goes on without a user.
Runs(c) == Greet(c) \/ SendReply(c) \/ PublishMessage(c) \/ HandleEnd(c)

Next ==
  \/ \E c \in Conns : Connect(c) \/ RedisSubscribes(c) \/ Runs(c) \/ Forward(c)
                      \/ Handle(c) \/ ClientCloses(c)
  \/ \E u \in Users : LeaseExpires(u)
  \/ Crash \/ Restart

Spec == Init /\ [][Next]_vars
=============================================================================
