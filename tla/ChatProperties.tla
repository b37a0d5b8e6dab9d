--------------------------- MODULE ChatProperties ---------------------------
(* What ChatServer is checked for, and the store it implements.            *)
EXTENDS ChatServer

\* The numbers of chat k, and the message with a number.
Numbers(k) == {db.messages[id].seq : id \in {i \in DOMAIN db.messages : db.messages[i].chat = k}}
Numbered(k, n) ==
  db.messages[CHOOSE id \in DOMAIN db.messages :
                db.messages[id].chat = k /\ db.messages[id].seq = n]

Chats ==
  [k \in DOMAIN db.chats |->
     [members |-> db.chats[k].members,
      log |-> [n \in Numbers(k) |-> [sender |-> Numbered(k, n).sender,
                                     content |-> Numbered(k, n).content]]]]

\* A row that is read without being delivered has no status.
Receipts ==
  LET key(r) == <<db.messages[r[2]].chat, db.messages[r[2]].seq, r[1]>>
  IN  [x \in {key(r) : r \in DOMAIN db.inbox} |->
         LET row == db.inbox[CHOOSE r \in DOMAIN db.inbox : key(r) = x]
         IN  IF row.delivered = (row.status # "pending") THEN row.status ELSE "none"]

Store == INSTANCE ChatStore
  WITH Contents <- 1 .. MaxSends,
       Openings <- {[k \in DOMAIN s |-> [members |-> s[k].members, log |-> << >>]] : s \in Seeds},
       chats <- Chats, receipts <- Receipts

\* The server implements ChatStore: whatever is retried, acknowledged twice,
\* read before it is acknowledged or cut short by a crash, a chat has no gap,
\* no message lacks a recipient's row, and no receipt ever moves back.
ImplementsStore ==
  Store!Init /\ [][db' = db \/ [Store!Next]_Store!vars]_vars

-----------------------------------------------------------------------------
\* The connections whose handler has begun and not ended.
Active(c) == phase[c] \in {"subscribing", "serving"}

TypeOK ==
  /\ up \in BOOLEAN
  /\ phase \in [Conns -> {"new", "subscribing", "serving", "done"}]
  /\ link \in [Conns -> {"none", "open", "gone"}]
  /\ connections = [u \in Users |-> {c \in Conns : UserOf[c] = u /\ Active(c)}]
  /\ task \in [Conns -> {"none", "asked", "subscribed", "ended"}]
  /\ online \subseteq Users /\ skipped \subseteq DOMAIN db.messages
  /\ \A c \in Conns : client[c].seen \subseteq DOMAIN db.messages
  /\ DOMAIN db.inbox \subseteq Users \X DOMAIN db.messages

\* A device is told of each receipt at most once, and never that a message was
\* delivered after it was told that it was read, though acknowledgements and
\* reads are retried and come from several devices.
ReceiptsInOrder ==
  \A c \in Conns : \A i, j \in DOMAIN client[c].marks :
    LET first == client[c].marks[i]
        later == client[c].marks[j]
    IN  i < j /\ first.id = later.id /\ first.user = later.user =>
          first.type = "delivery_receipt" /\ later.type = "read_receipt"

\* A user with a connected device that sends its heartbeats is online, and one
\* who is online has a device connected, or had when the server died.
PresenceFollowsDevices ==
  \A u \in Users :
    /\ (\E c \in Beating : UserOf[c] = u /\ link[c] = "open" /\ Active(c)) => u \in online
    /\ u \in online => connections[u] # {} \/ used.crashes > 0

Pending(user, id) ==
  <<user, id>> \in DOMAIN db.inbox /\ db.inbox[user, id].status = "pending"

Quiet == \A c \in Conns : todo[c] = << >> /\ channel[c] = << >>

\* What a device that synced, before or since, should have received.
Missing(c) ==
  IF client[c].synced /\ link[c] = "open"
    THEN {id \in DOMAIN db.messages : UserOf[c] \in Recipients(id)} \ (skipped \cup client[c].seen)
    ELSE {}

\* "A client that has been told connected genuinely cannot miss a push": once
\* nothing is on its way, a connected device that has synced, before the message
\* was stored or after, has every message that is still pending for its user,
\* but for those whose sender left before its ACK.
MessagesArrive ==
  Quiet => \A c \in Conns : \A id \in Missing(c) :
             db.inbox[UserOf[c], id].status # "pending"

-----------------------------------------------------------------------------
\* "A retried send after a lost ACK is a no-op instead of a second message."
SentOnce ==
  \A i, j \in DOMAIN db.messages :
    db.messages[i].sender = db.messages[j].sender
      /\ db.messages[i].content = db.messages[j].content => i = j

\* "Bob has phone AND laptop: message must reach all devices": a connected device
\* that has synced has every message sent to its user, pending or not.
ReachesAllDevices == Quiet => \A c \in Conns : Missing(c) = {}
=============================================================================
