--------------------------- MODULE WebSocketRooms ---------------------------
(***************************************************************************)
(* The WebSocket server, websocket_server.py.  One coroutine,              *)
(* handle_client, serves each connection; they share `rooms` and           *)
(* `client_info` and may be interleaved at every send, the only places     *)
(* where they wait once a client has joined.                               *)
(***************************************************************************)
EXTENDS Integers, Sequences, FiniteSets, SequencesExt, Functions

CONSTANTS
  Clients, Rooms,
  MaxFrames       \* bound on frames after a join, over all clients

VARIABLES
  rooms,        \* rooms: room -> its clients, for the rooms there are
  client_info,  \* client_info: client -> its room, for those that joined
  socket,       \* client -> whether its connection is open
  handler,      \* client -> handle_client, see NewHandler
  received      \* client -> sender -> the latest note it got

vars == <<rooms, client_info, socket, handler, received>>

\* handle_client has yet to send `note` to the clients in `todo`.  History:
\* `audience` are those it was for.
None == <<0, "none">>
NewHandler == [at |-> "accepted", note |-> None, audience |-> {}, todo |-> {}, frames |-> 0]
NothingYet == [c \in Clients |-> None]

Init ==
  /\ rooms = << >> /\ client_info = << >>
  /\ socket = [c \in Clients |-> TRUE]
  /\ handler = [c \in Clients |-> NewHandler]
  /\ received = [c \in Clients |-> NothingYet]

In(rs, room) == IF room \in DOMAIN rs THEN rs[room] ELSE {}

\* broadcast_to_room: a note for a snapshot of the room.
Broadcast(c, audience, kind, frames, state) ==
  handler' = [handler EXCEPT ![c] = [at |-> state, note |-> <<frames, kind>>, frames |-> frames,
                                     audience |-> audience, todo |-> audience]]

\* The first frame is a join with a valid token, or with none: the client is
\* registered, and the handler about to welcome it.
Join(c, room) ==
  /\ handler[c].at = "accepted"
  /\ rooms' = [r \in DOMAIN rooms \cup {room} |-> In(rooms, r) \cup (IF r = room THEN {c} ELSE {})]
  /\ client_info' = [d \in DOMAIN client_info \cup {c} |-> IF d = c THEN room ELSE client_info[d]]
  /\ handler' = [handler EXCEPT ![c].at = "welcome"]
  /\ UNCHANGED <<socket, received>>

\* It is not, or the connection closes before it comes: nothing to clean up.
Refuse(c) ==
  /\ handler[c].at = "accepted"
  /\ handler' = [handler EXCEPT ![c].at = "gone"]
  /\ socket' = [socket EXCEPT ![c] = FALSE]
  /\ UNCHANGED <<rooms, client_info, received>>

\* The client is welcomed, and announced to the others.
Welcome(c) ==
  /\ handler[c].at = "welcome" /\ socket[c]
  /\ Broadcast(c, In(rooms, client_info[c]) \ {c}, "joined", 0, "serving")
  /\ UNCHANGED <<rooms, client_info, socket, received>>

\* A frame the client sent, before it went perhaps: a message goes to the whole
\* room, a sign of typing to the others.
Frame(c) ==
  /\ handler[c].at = "serving" /\ handler[c].todo = {}
  /\ SumFunction([d \in Clients |-> handler[d].frames]) < MaxFrames
  /\ LET all == In(rooms, client_info[c]) nr == handler[c].frames + 1
     IN  \/ Broadcast(c, all, "message", nr, "serving")
         \/ Broadcast(c, all \ {c}, "typing", nr, "serving")
  /\ UNCHANGED <<rooms, client_info, socket, received>>

\* Mutant: a receiver that has closed ends the broadcast.
RestNoCatch(c, r) == IF socket[r] THEN handler[c].todo \ {r} ELSE {}

\* Who is left after a send to r: a receiver that has closed is passed over.
Rest(c, r) == handler[c].todo \ {r}

Send(c) ==
  \E r \in handler[c].todo :
    /\ handler' = [handler EXCEPT ![c].todo = Rest(c, r)]
    /\ received' = IF socket[r] THEN [received EXCEPT ![r][c] = handler[c].note] ELSE received
    /\ UNCHANGED <<rooms, client_info, socket>>

\* The client goes, and what it got with it.
Disconnect(c) ==
  /\ socket[c]
  /\ socket' = [socket EXCEPT ![c] = FALSE]
  /\ received' = [received EXCEPT ![c] = NothingYet]
  /\ UNCHANGED <<rooms, client_info, handler>>

\* Mutant: the room goes with the client.
WithoutRoom(c) == [r \in DOMAIN rooms \ {client_info[c]} |-> rooms[r]]

\* rooms without c, and without its room if c was the last there.
Without(c) ==
  LET room == client_info[c]
      left == DOMAIN rooms \ (IF In(rooms, room) = {c} THEN {room} ELSE {})
  IN  [r \in left |-> rooms[r] \ {c}]

\* The finally clause, entered when there is nothing more to read, or when the
\* welcome cannot be sent.
Finally(c) ==
  /\ ~ socket[c]
  /\ handler[c].at \in {"welcome", "serving"} /\ handler[c].todo = {}
  /\ rooms' = Without(c)
  /\ client_info' = [d \in DOMAIN client_info \ {c} |-> client_info[d]]
  /\ Broadcast(c, In(Without(c), client_info[c]), "left", handler[c].frames, "gone")
  /\ UNCHANGED <<socket, received>>

Next ==
  \E c \in Clients :
    \/ \E room \in Rooms : Join(c, room)
    \/ Refuse(c) \/ Welcome(c) \/ Frame(c) \/ Send(c) \/ Disconnect(c) \/ Finally(c)

Spec == Init /\ [][Next]_vars
-----------------------------------------------------------------------------
Notes == Nat \X {"none", "joined", "message", "typing", "left"}

\* The shapes, and that the two registries agree with each other and with the
\* connections being served.  No empty room stays behind (websocket_server.py:92,
\* "Otherwise `rooms` grows one empty set per room, forever").
TypeOK ==
  /\ DOMAIN client_info = {c \in Clients : handler[c].at \in {"welcome", "serving"}}
  /\ rooms = [room \in Range(client_info) |-> {c \in DOMAIN client_info : client_info[c] = room}]
  /\ Range(client_info) \subseteq Rooms
  /\ socket \in [Clients -> BOOLEAN]
  /\ handler \in [Clients -> [at : {"accepted", "welcome", "serving", "gone"},
                              note : Notes, frames : Nat,
                              audience : SUBSET Clients, todo : SUBSET Clients]]
  /\ received \in [Clients -> [Clients -> Notes]]

\* A message, or news of somebody's coming and going, reaches everyone who was
\* in the room when its broadcast began and is still connected, whoever joins
\* or leaves while it is being sent (websocket_server.py:23, the snapshot).
MessagesReachRoom ==
  \A c, r \in Clients :
    LET h == handler[c]
    IN  r \in h.audience /\ socket[r] => r \in h.todo \/ received[r][c] = h.note
=============================================================================
