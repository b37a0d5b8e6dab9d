----------------------------- MODULE LongPolling -----------------------------
(***************************************************************************)
(* The long polling server, long_polling_server.py, and the                *)
(* LongPollingClient of the lab (notebook 03).  Both handlers are          *)
(* coroutines of one event loop: each runs to its await, or to its end, in *)
(* one action.                                                             *)
(*                                                                         *)
(* A message is its number, which is its timestamp, too: the clock is      *)
(* taken to advance from one post to the next.                             *)
(***************************************************************************)
EXTENDS Integers, Sequences, SequencesExt

CONSTANTS
  Clients,
  MaxMessages, MaxLost    \* bounds on messages, and on answers that get lost

VARIABLES
  posted,   \* messages: how many
  poll,     \* client -> its request at the server
  cursor,   \* client -> last_timestamp
  got,      \* client -> the messages it was given
  lost      \* how many answers got lost

vars == <<posted, poll, cursor, got, lost>>

\* A request: none, held with the messages of its event, or answered.
Idle == [at |-> "client", messages |-> << >>, set |-> FALSE]
Held == [Idle EXCEPT !.at = "held"]
Answer(sent) == [Idle EXCEPT !.at = "answer", !.messages = sent]

Init ==
  /\ posted = 0 /\ lost = 0
  /\ poll = [c \in Clients |-> Idle]
  /\ cursor = [c \in Clients |-> 0]
  /\ got = [c \in Clients |-> << >>]

\* The messages after the first `since` of them, in order.
After(since) == [i \in 1..posted - since |-> since + i]

\* Mutant: "since" includes the message the client has.
NewMessagesSince(since) == After(IF since = 0 THEN 0 ELSE since - 1)

NewMessages(since) == After(since)

\* post_message: every held request gets the message, and its event is set.
Post ==
  /\ posted < MaxMessages
  /\ posted' = posted + 1
  /\ poll' = [c \in Clients |->
                IF poll[c].at = "held"
                THEN [poll[c] EXCEPT !.messages = Append(@, posted + 1), !.set = TRUE]
                ELSE poll[c]]
  /\ UNCHANGED <<cursor, got, lost>>

\* long_poll_messages: answered at once, or held; nothing comes in between.
Poll(c) ==
  /\ poll[c].at = "client"
  /\ poll' = [poll EXCEPT ![c] = LET new == NewMessages(cursor[c])
                                 IN  IF new # << >> THEN Answer(new) ELSE Held]
  /\ UNCHANGED <<posted, cursor, got, lost>>

\* event.wait() returns: what was posted meanwhile is in the answer as well.
Wake(c) ==
  /\ poll[c].at = "held" /\ poll[c].set
  /\ poll' = [poll EXCEPT ![c] = Answer(poll[c].messages)]
  /\ UNCHANGED <<posted, cursor, got, lost>>

\* The wait times out, in the same moment as a post perhaps: the answer is
\* empty even if the event has been set.
Timeout(c) ==
  /\ poll[c].at = "held"
  /\ poll' = [poll EXCEPT ![c] = Answer(<< >>)]
  /\ UNCHANGED <<posted, cursor, got, lost>>

\* Mutant: the cursor moves to server_time.
NextCursorNow(c) == posted

NextCursor(c) == IF poll[c].messages = << >> THEN cursor[c] ELSE Last(poll[c].messages)

\* long_poll_once
Receive(c) ==
  /\ poll[c].at = "answer"
  /\ poll' = [poll EXCEPT ![c] = Idle]
  /\ cursor' = [cursor EXCEPT ![c] = NextCursor(c)]
  /\ got' = [got EXCEPT ![c] = @ \o poll[c].messages]
  /\ UNCHANGED <<posted, lost>>

\* The client gives up, or the connection breaks: the request, held or
\* answered, is of no use to anybody.
Lose(c) ==
  /\ poll[c].at # "client"
  /\ lost < MaxLost
  /\ poll' = [poll EXCEPT ![c] = Idle]
  /\ lost' = lost + 1
  /\ UNCHANGED <<posted, cursor, got>>

Next ==
  \/ Post
  \/ \E c \in Clients : Poll(c) \/ Wake(c) \/ Timeout(c) \/ Receive(c) \/ Lose(c)

\* The server's wait ends in time, and clients poll again and again.
Fairness ==
  \A c \in Clients : WF_vars(Poll(c)) /\ WF_vars(Wake(c) \/ Timeout(c)) /\ WF_vars(Receive(c))

Spec == Init /\ [][Next]_vars /\ Fairness
-----------------------------------------------------------------------------
Messages == 1..MaxMessages

TypeOK ==
  /\ posted \in 0..MaxMessages
  /\ poll \in [Clients -> [at : {"client", "held", "answer"}, messages : Seq(Messages), set : BOOLEAN]]
  /\ cursor \in [Clients -> 0..MaxMessages]
  /\ got \in [Clients -> Seq(Messages)]
  /\ lost \in 0..MaxLost

\* Answers that were held, timed out as a message came in, or got lost: all
\* the same a client is given every message, once and in order.
AsFeed == INSTANCE Feed WITH Readers <- Clients, Gaps <- FALSE, published <- posted
ImplementsFeed == AsFeed!Spec

\* A message that was posted reaches every client that goes on polling, even if
\* the wait for it timed out, or its answer got lost (long_polling_server.py:44,
\* "nothing can be published in the gap").
PollersCatchUp ==
  \A c \in Clients, m \in Messages : posted >= m ~> m \in ToSet(got[c])
=============================================================================
