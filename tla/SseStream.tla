------------------------------ MODULE SseStream ------------------------------
(***************************************************************************)
(* The server-sent events server, sse_server.py, and the SSEClient of the  *)
(* lab (notebook 04).                                                      *)
(*                                                                         *)
(* Python code between two awaits, or two yields of the generator, is one  *)
(* action.  The generator of a reader's current request is stream[r]; that *)
(* of a request its reader has left is dropped at once, since what it      *)
(* still does reaches nobody.  A message is its id.                        *)
(***************************************************************************)
EXTENDS Integers, Sequences, SequencesExt

CONSTANTS
  Readers,
  BufferSize,     \* MESSAGE_BUFFER_SIZE
  MaxMessages, MaxRequests    \* bounds on messages, and requests per reader

VARIABLES
  messageId,      \* message_id: the id given out last
  stream,         \* reader -> generate() of its request, see Closed
  wire,           \* reader -> what was written to it and not read yet
  reader          \* reader -> SSEClient, see NewReader

vars == <<messageId, stream, wire, reader>>

\* The retry field and the connection event: they carry no id.
Greeting == 0

\* No generator.  `backlog` is what it yields before it waits on its queue.
Closed == [open |-> FALSE, backlog |-> << >>, queue |-> << >>]

\* `lastId` is last_id.  `parsing` is the message whose id line has been read
\* and whose data has not, or 0.  History: `given` are the messages passed on;
\* `from` is the id after which the reader is owed every message; `torn` are
\* those it left in the middle of, `evicted` those the buffer had dropped when
\* it came back.
NewReader == [lastId |-> 0, parsing |-> 0, given |-> << >>, requests |-> 0,
              from |-> 0, torn |-> {}, evicted |-> {}]

Init ==
  /\ messageId = 0
  /\ stream = [r \in Readers |-> Closed]
  /\ wire = [r \in Readers |-> << >>]
  /\ reader = [r \in Readers |-> NewReader]

\* message_buffer: the latest messages.
Buffered(id) == id \in 1..messageId /\ id > messageId - BufferSize

\* What is buffered after `id`, in order.
BufferedAfter(id) ==
  LET dropped == messageId - BufferSize
      from == IF id < dropped THEN dropped ELSE id
  IN  [i \in 1..messageId - from |-> from + i]

\* Mutant: the message the client says it has is replayed, too.
MissedInclusive(lastId) == IF lastId = 0 THEN << >> ELSE BufferedAfter(lastId - 1)

\* What is replayed for a Last-Event-ID: nothing when there is none.
Missed(lastId) == IF lastId = 0 THEN << >> ELSE BufferedAfter(lastId)

\* Mutant: the queue is registered when the backlog has been sent.
SubscribedAfterReplay(r) == stream[r].open /\ stream[r].backlog = << >>

\* A stream that has begun has its queue among the subscribers.
Subscribed(r) == stream[r].open

\* send_message: into the buffer, and into every subscriber's queue.  The
\* queues are unbounded, so that put never waits.
SendMessage ==
  /\ messageId < MaxMessages
  /\ messageId' = messageId + 1
  /\ stream' = [r \in Readers |->
                  IF Subscribed(r) THEN [stream[r] EXCEPT !.queue = Append(@, messageId + 1)]
                                   ELSE stream[r]]
  /\ UNCHANGED <<wire, reader>>

\* A request, up to the first yield of its generator: the queue is registered
\* and the missed messages are taken, in one go.
Request(r) ==
  LET me == reader[r] IN
  /\ ~ stream[r].open
  /\ me.requests < MaxRequests
  /\ stream' = [stream EXCEPT ![r] = [open |-> TRUE, queue |-> << >>,
                                      backlog |-> Append(Missed(me.lastId), Greeting)]]
  /\ reader' = [reader EXCEPT
       ![r].requests = @ + 1,
       ![r].from = IF me.lastId = 0 THEN messageId ELSE @,
       ![r].evicted = IF me.lastId = 0 THEN @
                      ELSE @ \cup {id \in me.lastId + 1..messageId : ~ Buffered(id)}]
  /\ UNCHANGED <<messageId, wire>>

\* The generator yields the next of its backlog, or what comes from its queue.
\* (A heartbeat changes nothing.)
Yield(r) ==
  LET s == stream[r] IN
  /\ s.open
  /\ \/ /\ s.backlog # << >>
        /\ wire' = [wire EXCEPT ![r] = Append(@, Head(s.backlog))]
        /\ stream' = [stream EXCEPT ![r].backlog = Tail(@)]
     \/ /\ s.backlog = << >> /\ s.queue # << >>
        /\ wire' = [wire EXCEPT ![r] = Append(@, Head(s.queue))]
        /\ stream' = [stream EXCEPT ![r].queue = Tail(@)]
  /\ UNCHANGED <<messageId, reader>>

\* The client reads line by line: an id line moves last_id at once,
ReadId(r) ==
  /\ wire[r] # << >> /\ reader[r].parsing = 0
  /\ wire' = [wire EXCEPT ![r] = Tail(@)]
  /\ reader' = IF Head(wire[r]) = Greeting THEN reader
               ELSE [reader EXCEPT ![r].lastId = Head(wire[r]), ![r].parsing = Head(wire[r])]
  /\ UNCHANGED <<messageId, stream>>

\* and the empty line at the end of the event passes the message on.
ReadEnd(r) ==
  /\ reader[r].parsing # 0
  /\ reader' = [reader EXCEPT ![r].parsing = 0, ![r].given = Append(@, reader[r].parsing)]
  /\ UNCHANGED <<messageId, stream, wire>>

\* The client stops, or the connection breaks, between any two lines.
Leave(r) ==
  /\ stream[r].open
  /\ stream' = [stream EXCEPT ![r] = Closed]
  /\ wire' = [wire EXCEPT ![r] = << >>]
  /\ reader' = [reader EXCEPT ![r].parsing = 0, ![r].torn = @ \cup ({reader[r].parsing} \ {0})]
  /\ UNCHANGED messageId

Next ==
  \/ SendMessage
  \/ \E r \in Readers : Request(r) \/ Yield(r) \/ ReadId(r) \/ ReadEnd(r) \/ Leave(r)

Spec == Init /\ [][Next]_vars
-----------------------------------------------------------------------------
Ids == 1..MaxMessages

TypeOK ==
  /\ messageId \in 0..MaxMessages
  /\ stream \in [Readers -> [open : BOOLEAN, backlog : Seq(Ids \cup {Greeting}), queue : Seq(Ids)]]
  /\ wire \in [Readers -> Seq(Ids \cup {Greeting})]
  /\ reader \in [Readers -> [lastId : Ids \cup {0}, parsing : Ids \cup {0}, given : Seq(Ids),
                             requests : 0..MaxRequests, from : Ids \cup {0},
                             torn : SUBSET Ids, evicted : SUBSET Ids]]

\* Everything between a reader's first event and the latest message is with a
\* connected reader or on its way to it, but for what it left in the middle of
\* and what the buffer had dropped before it came back: a message sent while
\* the stream is being set up falls into no gap (sse_server.py, generate).
StreamComplete ==
  \A r \in Readers : stream[r].open =>
    LET me == reader[r]
    IN  \A id \in me.from + 1..messageId :
          \/ id \in ToSet(me.given) \cup {me.parsing} \cup ToSet(wire[r])
          \/ id \in ToSet(stream[r].backlog) \cup ToSet(stream[r].queue)
          \/ id \in me.torn \cup me.evicted

\* Over all its connections a reader is given messages in order, none twice:
\* last_id, the replay and the queue of a new stream meet without an overlap.
AsFeed == INSTANCE Feed WITH published <- messageId, Gaps <- TRUE,
                             got <- [r \in Readers |-> reader[r].given]
ImplementsFeed == AsFeed!Spec
=============================================================================
