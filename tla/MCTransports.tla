---------------------------- MODULE MCTransports ----------------------------
(***************************************************************************)
(* Model of the real-time update servers for TLC.  The servers share       *)
(* nothing: a behaviour is one of one of them, `which`, and the others     *)
(* stay where they began.                                                  *)
(***************************************************************************)
EXTENDS Integers, Sequences, FiniteSets

CONSTANTS
  Readers, BufferSize, SseMessages, SseRequests,
  Pollers, LongMessages, LongLost,
  Posts, PostReaders, PollLost,
  Triggers, Subs, MaxAttempts,
  Clients, Rooms, MaxFrames

\* A delivery is attempted once at least; the buffer keeps some messages; there
\* are only so many requests to post.
ASSUME TransportsAssumption ==
  /\ MaxAttempts \in Nat \ {0} /\ BufferSize \in Nat \ {0}
  /\ IsFiniteSet(Posts)
  /\ {SseMessages, SseRequests, LongMessages, LongLost, PollLost, MaxFrames} \subseteq Nat

VARIABLES
  which,
  messageId, stream, wire, reader,
  posted, poll, cursor, got, lost,
  messages, clock, post, client,
  subscriptions, made, delivery, requests, answers, deliveries, processed, shipped,
  rooms, client_info, socket, handler, received

sseVars == <<messageId, stream, wire, reader>>
longVars == <<posted, poll, cursor, got, lost>>
pollVars == <<messages, clock, post, client>>
hookVars == <<subscriptions, made, delivery, requests, answers, deliveries, processed, shipped>>
roomVars == <<rooms, client_info, socket, handler, received>>
vars == <<which, sseVars, longVars, pollVars, hookVars, roomVars>>

Sse == INSTANCE SseStream WITH MaxMessages <- SseMessages, MaxRequests <- SseRequests
Long == INSTANCE LongPolling WITH Clients <- Pollers, MaxMessages <- LongMessages, MaxLost <- LongLost
Simple == INSTANCE SimplePolling WITH Clients <- PostReaders, MaxLost <- PollLost
Hook == INSTANCE WebhookDelivery
Room == INSTANCE WebSocketRooms

Init ==
  /\ which \in {"sse", "long", "poll", "hook", "room"}
  /\ Sse!Init /\ Long!Init /\ Simple!Init /\ Hook!Init /\ Room!Init

Next ==
  /\ UNCHANGED which
  /\ \/ which = "sse" /\ Sse!Next /\ UNCHANGED <<longVars, pollVars, hookVars, roomVars>>
     \/ which = "long" /\ Long!Next /\ UNCHANGED <<sseVars, pollVars, hookVars, roomVars>>
     \/ which = "poll" /\ Simple!Next /\ UNCHANGED <<sseVars, longVars, hookVars, roomVars>>
     \/ which = "hook" /\ Hook!Next /\ UNCHANGED <<sseVars, longVars, pollVars, roomVars>>
     \/ which = "room" /\ Room!Next /\ UNCHANGED <<sseVars, longVars, pollVars, hookVars>>

\* The fairness of LongPolling and WebhookDelivery, in the behaviours that are
\* theirs.
Fairness ==
  /\ \A c \in Pollers :
       /\ WF_longVars(which = "long" /\ Long!Poll(c))
       /\ WF_longVars(which = "long" /\ (Long!Wake(c) \/ Long!Timeout(c)))
       /\ WF_longVars(which = "long" /\ Long!Receive(c))
  /\ \A d \in Triggers \X Subs :
       /\ WF_hookVars(which = "hook" /\ Hook!Attempt(d))
       /\ WF_hookVars(which = "hook" /\ (Hook!Answered(d) \/ Hook!Excepted(d)))

Spec == Init /\ [][Next]_vars /\ Fairness
-----------------------------------------------------------------------------
\* Every server's state is of the shape its module declares; the rooms of the
\* WebSocket server agree with its clients, and none of them is empty.
TypeOK == Sse!TypeOK /\ Long!TypeOK /\ Simple!TypeOK /\ Hook!TypeOK /\ Room!TypeOK

\* sse_server.py: no message falls into a gap while a stream is set up.
StreamComplete == Sse!StreamComplete

\* sse_server.py: over all its connections a reader is given messages in order.
SseImplementsFeed == Sse!ImplementsFeed

\* long_polling_server.py: a client is given every message, once and in order.
LongPollingImplementsFeed == Long!ImplementsFeed

\* long_polling_server.py: a message reaches every client that goes on polling.
PollersCatchUp == Long!PollersCatchUp

\* simple_polling_server.py: only a message that was overtaken is missed.
OnlyOvertakenAreMissed == Simple!OnlyOvertakenAreMissed

\* webhook_server.py and its receiver: an order is shipped once.
ShippedOnce == Hook!ShippedOnce

\* webhook_server.py: what is logged as delivered was shipped, and is over.
VendorKnows == Hook!VendorKnows

\* webhook_server.py: each delivery of a trigger comes to an end.
TriggersAnswered == Hook!TriggersAnswered

\* websocket_server.py: a broadcast reaches all who were there at its start.
MessagesReachRoom == Room!MessagesReachRoom
=============================================================================
