---------------------------- MODULE SimplePolling ----------------------------
(***************************************************************************)
(* The polling server, simple_polling_server.py, and the                   *)
(* SimplePollingClient of the lab (notebook 02).  The handlers are plain   *)
(* functions, which FastAPI runs in threads: a post numbers and stamps its *)
(* message before it takes the lock.                                       *)
(***************************************************************************)
EXTENDS Integers, Sequences, FiniteSets, SequencesExt

CONSTANTS
  Posts,      \* the requests to post, one message each
  Clients,
  MaxLost     \* bound on answers that get lost

VARIABLES
  messages,   \* messages: what was appended, in that order
  clock,      \* datetime.now(), one tick per reading that is kept
  post,       \* request to post -> where its thread is, and its message
  client      \* SimplePollingClient and its request, see NewClient

vars == <<messages, clock, post, client>>

\* The client makes nothing of the order within an answer.  History: `got` are
\* the messages it was given, `again` those it was given and had.
NewClient == [at |-> "idle", answer |-> {}, now |-> 0, cursor |-> 0, got |-> {}, again |-> {}, lost |-> 0]

Init ==
  /\ messages = << >>
  /\ clock = 0
  /\ post = [p \in Posts |-> [at |-> "new", id |-> 0, timestamp |-> 0]]
  /\ client = [c \in Clients |-> NewClient]

\* post_message: the id is read off the list,
Number(p) ==
  /\ post[p].at = "new"
  /\ post' = [post EXCEPT ![p] = [@ EXCEPT !.at = "numbered", !.id = Len(messages) + 1]]
  /\ UNCHANGED <<messages, clock, client>>

\* the time is read off the clock,
Stamp(p) ==
  /\ post[p].at = "numbered"
  /\ clock' = clock + 1
  /\ post' = [post EXCEPT ![p] = [@ EXCEPT !.at = "stamped", !.timestamp = clock + 1]]
  /\ UNCHANGED <<messages, client>>

\* and only then is the message put into the list, under the lock.
Put(p) ==
  /\ post[p].at = "stamped"
  /\ messages' = Append(messages, [id |-> post[p].id, timestamp |-> post[p].timestamp])
  /\ post' = [post EXCEPT ![p].at = "done"]
  /\ UNCHANGED <<clock, client>>

\* get_messages; server_time is read after the lock has been released, which
\* only a client that used it would notice.
Get(c) ==
  /\ client[c].at = "idle"
  /\ client' = [client EXCEPT
       ![c].at = "answered", ![c].now = clock,
       ![c].answer = {m \in ToSet(messages) : m.timestamp > client[c].cursor}]
  /\ UNCHANGED <<messages, clock, post>>

Timestamps(answer) == {m.timestamp : m \in answer}

\* Mutant: the cursor moves to the server's time.
NextCursorNow(c) == client[c].now

NextCursor(c) ==
  CHOOSE t \in Timestamps(client[c].answer) \cup {client[c].cursor} :
    \A u \in Timestamps(client[c].answer) : u <= t

\* poll_once; an answer that is lost leaves the client as it was.
Receive(c) ==
  /\ client[c].at = "answered"
  /\ LET me == client[c]
     IN  client' = [client EXCEPT ![c] = [me EXCEPT
           !.at = "idle", !.answer = {}, !.now = 0, !.cursor = NextCursor(c),
           !.got = me.got \cup me.answer, !.again = me.again \cup (me.answer \cap me.got)]]
  /\ UNCHANGED <<messages, clock, post>>

Lose(c) ==
  /\ client[c].at = "answered" /\ client[c].lost < MaxLost
  /\ client' = [client EXCEPT ![c] = [client[c] EXCEPT
       !.at = "idle", !.answer = {}, !.now = 0, !.lost = client[c].lost + 1]]
  /\ UNCHANGED <<messages, clock, post>>

Next ==
  \/ \E p \in Posts : Number(p) \/ Stamp(p) \/ Put(p)
  \/ \E c \in Clients : Get(c) \/ Receive(c) \/ Lose(c)

Spec == Init /\ [][Next]_vars
-----------------------------------------------------------------------------
Ticks == 0..Cardinality(Posts)
Stored == [id : 1..Cardinality(Posts), timestamp : Ticks]

TypeOK ==
  /\ messages \in Seq(Stored) /\ clock \in Ticks
  /\ post \in [Posts -> [at : {"new", "numbered", "stamped", "done"}, id : Ticks, timestamp : Ticks]]
  /\ client \in [Clients -> [at : {"idle", "answered"}, answer : SUBSET Stored, now : Ticks,
                             cursor : Ticks, got : SUBSET Stored, again : SUBSET Stored,
                             lost : 0..MaxLost]]

\* The cursor is as good as the order of the list: a client gets no message
\* twice, and the only one it will never ask for again without having got it is
\* one a later-stamped message overtook on the way to the lock
\* (simple_polling_server.py, post_message).
OnlyOvertakenAreMissed ==
  \A c \in Clients :
    LET me == client[c] IN
    /\ me.again = {}
    /\ \A i \in 1..Len(messages) :
         messages[i].timestamp <= me.cursor =>
           \/ messages[i] \in me.got
           \/ \E j \in 1..i - 1 : messages[j].timestamp > messages[i].timestamp
=============================================================================
