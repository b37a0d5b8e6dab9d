# A verification project for the system-design labs

This directory holds TLA+ specifications of the servers behind the
system-design labs, the TLC configurations that check them, and proofs checked
by TLAPS.  The labs are mostly notebooks and prose; what is specified here is
the code that keeps state and talks to several parties at once.

## 1. The system

The repository is a course.  Its own core logic is a set of small servers and
workflows, independent of one another, each with the notebooks that exercise it.

| component | source | state | operations | talks to |
|---|---|---|---|---|
| collaborative documents | `06-system-designs/google-docs/server/doc_server.py`, `db/init.sql`, the `DocClient` of `notebooks/03_realtime_collaboration_via_websockets.ipynb` | text, version, `pending_ops`, `ops_log` per loaded document; a session (user -> socket, caret, role); rows in PostgreSQL; carets in Redis | join, edit, cursor, save, restore, create, history, disconnect | websockets both ways, broadcasts, PostgreSQL, Redis |
| chat | `06-system-designs/whatsapp/server/chat_server.py` | sequence per chat, messages, inbox rows, sockets per user, presence leases | send, ack, read, sync, create chat, presence, heartbeat | websockets, PostgreSQL, Redis pub/sub |
| rate-limited gateway | `06-system-designs/rate-limiter/app/server.py` | a token bucket per client in Redis, the loaded script | request, rule reload | Redis Lua |
| real-time transports | `04-patterns/real-time-updates/servers/`, the clients of its notebooks 02, 03, 04 and 08 | message list, replay buffer, waiters, rooms, webhook deliveries; cursors and ledgers of the clients | post, poll, stream, reconnect, join, broadcast, deliver, retry | HTTP, SSE, websockets |
| ticket sale | `06-system-designs/ticketmaster/notebooks/03_payment_and_reservation_flow.ipynb`, `db/init.sql` | tickets and bookings in PostgreSQL; a lock per ticket and the set of reserved tickets in Redis | reserve, pay, confirm, cancel, extend, seat map | PostgreSQL, Redis |
| file synchronisation | `06-system-designs/dropbox/notebooks/02_file_sync_and_conflict_resolution.ipynb`, `db/init.sql` | metadata and change feed in PostgreSQL, bytes in MinIO, a cursor per device | update, resolve a conflict, poll | PostgreSQL, MinIO |
| order saga | `03-technologies/workflow-engines/temporal/worker/` | workflow position, compensations | activities with retries, compensations | Temporal |
| grains | `03-technologies/workflow-engines/orleans/labs/` | order, stock, counters, reminders | calls between grains | Orleans |
| event API | `01-foundations/api-design/server.py` | bookings, tickets sold, idempotency keys | book, cancel, list | PostgreSQL, Redis |
| SIEM | `security-certs/sc-200/siem/server.py` | alerts, incidents, comments | evaluate, correlate, patch | SQLite |
| token validation | `08-enterprise/azure-authentication/common/auth.py`, `fake-entra/server.py` | key cache, key ring | validate, rotate | HTTP |

The rest (CDN origin, Kubernetes sample apps, repository tools, notebooks,
generators, deliberately weak exercise targets) is stateless, sequential or
third-party; `PROJECT.json` lists every part with the reason.

What is hard in each, and what makes it right:

* **Documents.** Edits are made on texts that are already out of date, and
  rewritten by operational transformation.  The server is one event loop whose
  handlers are suspended at every send, and they keep references across it.
  Snapshots compact the operation log, disconnects unload the document,
  processes die between two commits.  *Right* means: an edit does what its
  author meant; everybody ends with the same text; a caret stays at its
  character; nothing acknowledged is lost; a document somebody edits stays
  loaded; version numbers never collide; a waiting client is answered.
* **Chat.** A push and a sync deliver the same message on one socket; receipts
  race and are retried; a lost ACK makes the client send again; presence is a
  lease that two devices share.  *Right*: a stored message reaches every
  participant who comes back, receipts only move forward, each is announced
  once, numbers of a chat have no gap.
* **Gateway.** Fractional refills, two roundings of Retry-After, script reload,
  Redis outages.  *Right*: never more than burst plus rate times time, and who
  waits as told gets in.
* **Transports.** Reconnects, a timeout that races a message, retries.
  *Right*: at least once or exactly once, in order, as each transport says.
* **Saga and grains.** One step of several fails, a step is retried after it
  took effect, calls wait on each other.  *Right*: nothing is shipped before it was paid, what
  the workflow knows was done is undone in reverse, an order comes to an end.
* **Ticket sale.** Locks expire while a payment is made, confirmations come
  twice, a process dies between the sale and the release.  *Right*: a ticket is
  sold once, nobody's lock is taken by a latecomer.
* **File synchronisation.** The version is checked in one store and the bytes go
  to another; events become visible out of order.  *Right*: refused bytes never
  replace accepted ones, a device learns of every change its cursor passes.
* **Event API, SIEM.** Read, decide, write, without a lock.  *Right*: no
  oversell, one incident per alert, no lost comment.
* **Token validation.** A cache against a rotation.  *Right*: a withdrawn key
  is refused after its time, a new one accepted.

`PROJECT.json` lists each hazard at its line, with the properties that cover it.

## 2. What is modelled, and how

### Collaborative documents

    OT ──── OTLog ── MCServices   (pure rules; one stale edit against a log)
     │  └── OTProofs ── OTLogProofs
     └──── DocServer ── DocProperties ── MCDoc        (the server; its properties)
                             │    └──── DocServerProofs ── DocReplicaProofs
                             └── INSTANCE DocStore    (what the store promises)

**`OT`** is the operational-transformation section of `doc_server.py`, function
by function: `transform_operation` (insert/insert with the tie broken by user,
insert/delete with the clamp, delete/insert with the split, delete/delete with
the overlap), `transform_operations` with its stable rightmost-first sort
(`RightmostFirst`, which places an operation by how many belong before it),
`transform_cursor`, `apply_operation` with Python's forgiving slices.  A
character is a number that occurs once in a text, so that what happened to a
character is what happened to its number.

**`OTLog`** puts one client's edit, made on a text it saw, behind a growing log
of other users' operations, which is the situation of `handle_edit`, and asks at
each length of the log what applying that edit now would do.  It has no connections
to keep, and is checked beside the services (`MCServices`).

**`DocServer`** is one document with everything around it.

* *The event loop.*  Python code between two awaits is atomic, so each such
  piece is one action, its blocking psycopg2 and Redis calls included.  Every
  await in the server is a `ws.send`.  A handler is a sequence of instructions
  `todo[c]` (replies, broadcasts, the check for an auto-snapshot, the check for
  an unload); `loop` is the handler that runs.  A send puts the message into the
  receiver's FIFO at once and may then suspend the handler when the receiver is
  slow (`Slow`), as the websockets library does when its write buffer is full.
  The receivers of a broadcast are served in any order, which includes the
  order of the session dict.
* *References kept across an await.*  `handle_disconnect` holds the session dict,
  `handle_edit` the document dict.  While another handler unloads the document,
  `Detached` turns an instruction that still points to the dropped dicts into
  one that remembers what they held.
* *The database* is `db`: the documents row, collaborators, snapshots,
  operations and `current_version`.  A handler with several commits lists the
  databases after each (`SnapshotCommits`, `CreateCommits`, `Logged`), and
  `Crash` may leave any of them (`CutShort`).  Redis keeps the presence hash
  across a crash, memory is lost, connections end.
* *The clients* are the lab's `DocClient`: one request at a time, the ACK's
  operations and remote operations applied as they come, the revision taken from
  the last message.  `client[c].seen` and `origin` are history variables.
* *Errors.*  A reply to a closed connection raises, so does the report of that
  error, and the connection's remaining requests are left unread (`SendReply`);
  a broadcast passes a closed connection over.

**`DocStore`** is the promise to somebody who only sees the stored document: a
current text and a history of versions; an edit inserts or deletes, a save adds
the text to the history, a restore to the history, a restore adds an old version again; nothing else
changes the text.  `DocProperties` maps it with `content <- Durable` (what a
process starting now would load) and `versions <- db.snaps`.  An edit may delete
several stretches at once, since a stale deletion can be split: `IsDeletion` says
that what remains are characters of the old text in their order.

### Chat

    ChatServer ── ChatProperties ── MCChat            (the server; its properties)
                       │   └─────── ChatServerProofs
                       └── INSTANCE ChatStore         (what it keeps)

**`ChatServer`** has one action per piece of code between two awaits.  psycopg2
and the Redis client block, so only the sends and the waits of
`redis_subscriber` are places where another task comes in.

* *The connection* `c` runs through `phase`: registered and online, waiting for
  its subscription (`Connect`), greeted (`Greet`), serving, ended by the
  `finally` block (`HandleEnd`).  `link` says whether its socket is open;
  `connections` is the registry of the code.
* *A handler* does its database work at once and leaves in `todo[c]` what it has
  still to send and publish: the ACK and then the publication of a message; the
  messages of a sync, one await each.  A send on a closed socket raises, and
  what came after it is not done (`SendReply`); `skipped` remembers the messages
  that were stored but not published for that reason.
* *Redis* gives each connection's subscriber what is published while it is
  subscribed (`channel[c]`), keeps nothing for anybody else, and confirms a
  subscription some time after it was asked (`RedisSubscribes`).  `Forward`
  passes a message on, in turn with whatever the handler sends to the socket.
* *The database* `db` holds chats with members and `last_sequence`, messages,
  and inbox rows with a status and whether `delivered_at` is set.
  `store_message` is one transaction; `handle_create_chat` makes two commits, the
  second of which may fail or be cut off by `Crash`.  A crash between a commit
  and its publication is a crash right after the handler's action: nothing that
  was on its way survives in either.
* *Presence* is the set of users whose key exists.  Instead of seconds,
  `LeaseExpires` has a guard: a client in `Beating` renews its key before it
  expires as long as it is connected; any other user's key may expire at any time.
* *Clients* send at any time, send again what they have no ACK for (from
  whatever connection they have then), acknowledge and read what they have seen,
  in either order and repeatedly.  A user's devices are connections of that user;
  a connection is used once, so a reconnection is another one.

**`ChatStore`** is what the database promises: a chat is a sequence without gaps,
to which posts are only ever added, each with a pending receipt for every other
member in the same instant; a receipt only moves forward.  `ChatProperties` maps
it by number: the log of a chat is a function from the sequence numbers that
occur, which is a sequence only if they have no gap and none occurs twice.

### Real-time transports

    SseStream ─┬─ INSTANCE Feed (what a reader is promised)
    LongPolling┘
    SimplePolling   WebhookDelivery   WebSocketRooms
    MCTransports: INSTANCE of all five
     └── TransportsProofs

The five servers share nothing, so `MCTransports` has a variable `which`: a
behaviour is one of one server, and the others stay where they began.  That is
only a way to ask all five in one run.

**`Feed`** is the promise to a reader: messages are numbered as they are
published, and it is given new ones in that order, none twice; without gaps if
`Gaps = FALSE`.

* **`SseStream`**: a message is its id.  The generator of a request runs to its
  first `yield` in one action (`Request`), in which the queue is registered *and*
  the buffer is read; each further `yield` is one (`Yield`).  The client reads
  line by line: the id line moves `last_id` at once (`ReadId`), the empty line at
  the end passes the message on (`ReadEnd`), and it may go in between (`Leave`).
  `torn` and `evicted` remember what it loses that way, and what the buffer
  had dropped.
* **`LongPolling`**: both handlers are coroutines, so that reading and registering
  is one step (`Poll`) and so is a post that wakes everybody.  The wait may time
  out in the moment a message arrives, and an answer may be lost.
* **`SimplePolling`**: the handlers run in threads.  A post reads the length of the
  list, reads the clock and takes the lock in three steps (`Number`, `Stamp`,
  `Put`).
* **`WebhookDelivery`**: `deliver` is posting, waiting, answered or excepted; each
  attempt is a request of its own, which the receiver may handle long after the
  vendor gave up on it.  The receiver's `hook` keeps its ledger of delivery ids.
* **`WebSocketRooms`**: `handle_client` waits at every send; between two of them
  others join, leave, and are cleaned up after.  `audience` is the snapshot a
  broadcast was made for.

### Services

    TicketBooking ── TicketBookingProofs
          │
    MCServices: EXTENDS TicketBooking, OTLog; INSTANCE OrderSaga, TokenBucket, Jwks, FileSync
     └── ServicesProofs (EXTENDS TicketBookingProofs, too)

Again a behaviour is one of one of them.  The text and the edit of `OTLog` are chosen
in the behaviours that are its only (`NoText`).

* **`TicketBooking`**: each Redis command and each transaction of a request is one
  action, and the request may stop after any (`Stop`).  `request[q].at` is where
  it is.  A lock may expire at any moment, which covers every time to live and
  `extend_reservation`.  A payment may be confirmed any number of times, by
  requests that overlap.
* **`OrderSaga`**: one workflow; an attempt of an activity succeeds, fails without
  effect, or is given up (`TimesOut`) and then takes effect at any later time or never
  (`late`, `TakesEffect`).  `effects` is what happened in the world, in its order, each
  with whether the workflow was `told` of it.  Temporal keeps the workflow's state.
* **`TokenBucket`**: the Lua script is one step.  Time is counted in ticks and
  tokens in parts, so that all arithmetic is exact in integers.  `Degraded` is a
  script that ran and whose answer was lost, `Evaporate` the EXPIRE, `Forget` a
  Redis without its data.
* **`Jwks`**: `validate_token` in threads; the answer to a fetch is taken at the
  provider at one moment and stored at a later one.  The provider publishes and
  withdraws keys at any time (the lab's `fake-entra` has a new key each time it
  is started).
* **`FileSync`**: an upload is a `plan` of steps (update, put, number, commit) in
  one of the orders the functions have, and may be stopped between any two.  An
  event's number is taken before it is visible, as a SERIAL is.

## 3. Runs

| run | what it asks | instance | result |
|---|---|---|---|
| `doc_prompt` | do replicas agree, do edits and carets mean what they meant, does the store implement `DocStore` | 2 editors, a seeded or a new document, threshold 2; 3 of: 2 edits, a restore, a disconnect, a crash | holds, 362,000 states |
| `doc_slow` | is memory what the database would give back, does no session entry outlive its connection, is a waiting client answered | one slow client, one that may vanish unanswered; owner with an editor or a viewer; 2 of: 2 edits, a save, a cursor move, 2 disconnects, a crash | holds, 117,000 states |
| `doc_unload` | is a document that somebody edits kept in memory | 3 editors, one slow | **violated** |
| `doc_revision` | is the revision the number of operations the client has seen | 2 editors, 2 edits | **violated** |
| `doc_diverge` | do replicas agree when clients are slow | 2 slow editors, 2 edits | **violated** |
| `chat` | do numbers have no gap, do receipts move forward and are they announced once, does presence follow the devices, does a device that has synced have what is pending | a sender, a user with two devices; a chat with or without a counter, or one still to be created; 3 of: 2 sends, 2 receipts, 2 lost connections, a crash | holds, 1,086,000 states |
| `chat_retry` | is a message that is sent again stored once | the same, 2 sends and a lost connection | **violated** |
| `chat_laptop` | does a message reach every device of its recipient | the same, one send and one receipt | **violated** |
| `transports` | do the stream and the long poll implement `Feed`, is a message in a gap, does polling miss only what was overtaken, is an order shipped once and a trigger answered, does a broadcast reach its room | one reader, 5 messages, a buffer of 2, 3 requests; two pollers, 3 messages, 2 lost answers; 3 posts and a poller; 2 subscribers, 2 attempts; 3 clients in a room | holds, 164,000 states |
| `services` | is a ticket sold once, is an order done or undone in turn, is the rate kept and Retry-After enough, do the keys follow their rotation, do refused bytes stay away and does a device learn what it was given the news of; does a stale edit keep its author's intent, does arrival order not matter, does a caret stay before its character | a ticket, 2 users, 2 bookings, 2 overlapping requests; 3 attempts, of which 3 are given up and may take effect; a burst of 2 and 4/3 tokens per second over 6 seconds; one key, 2 threads, 6 ticks; 2 devices, 3 edits; texts of up to 3 characters, up to 2 concurrent operations of one or two characters, users on both sides of the tie | holds, 687,000 states |
| `file_feed` | does a device that polls miss no event | the file of `services` | **violated** |
| `ticket_webhook` | does a confirmed booking stay confirmed | the ticket sale of `services` | **violated** |

*Bounds.*  `MaxEdits`, `MaxSaves`, ... bound each kind of input and `MaxTotal`
their sum; a join, a reply and everything the server does are unbounded.  Three
characters and two concurrent operations are what the hardest rule needs: a
delete that is split by one insert and then meets another.  Threshold 2 (50 in
the code) lets a snapshot happen between two edits of one window, and the two
halves of one split delete step over it.  Two connections are enough for a
broadcast, three for an unload that meets a join.  The code treats users alike
but for the tie-break, which compares two at a time.  In the chat, three
connections are one sender and two devices of one recipient, which is what
receipts, presence and sync are about; two receipts are an ACK and a read, or two
of either from both devices; the devices are interchangeable, so their
permutations are a symmetry.  `chat` has one chat, created or there from the
start: chats share only the database's counters for ids.

In `transports`, one reader is enough for the stream, since readers share only
`message_id` and the buffer, which readers do not change; 5 messages and a buffer
of 2 let the buffer drop what a returning reader misses, and 3 requests let it
lose the middle of one message and return.  3 posts are two that overtake each
other behind a cursor that the third has moved.  2 attempts (3 in the code) are a
late answer and a retry; two requests of a delivery may be with the receiver at
the same time.  3 clients are a sender, one who stays and one who goes.  In
`services`, two requests and two bookings are what a race on one ticket needs, a
lock that changes hands between two steps included; 3 attempts (5 in the code)
are a retry and a last one; `MaxGivenUp` = 3 given-up attempts are enough for every
attempt of one activity, or for one of each step, to take effect late; the rate is a fraction of a token per tick, so that
both roundings of Retry-After bite, and `Expiry` (3600 s) is longer than a refill
but shorter than the run; a time to live of 3, a refetch interval of 1 and fetches
of up to 1 tick keep their order in the code (300, 10 and 5 seconds); 3 edits let two
accepted versions and a conflict meet.

*Redis answers in time* in `chat` (`Impatient = FALSE`).  The subscriber stops
waiting for the confirmation after two seconds and greets the client all the
same; then `MessagesArrive` does not hold, and a push may be lost until the next
sync.  It also leaves out the messages in `skipped`, whose sender was gone before
its ACK: they wait for a sync, too.

*Deadlock* is not checked: clients may stop sending, after which nothing is left to do.

*Fairness* is assumed in `doc_slow`, and for three kinds of behaviour below.  asyncio runs ready callbacks first in,
first out, so a handler that is ready again and again does run, though others
hold the loop in between: strong fairness of `Handle(c)` and `Step(c)`.  Every
client reads in the end, slow or not (weak fairness of `ClientReceives`).  That
is needed: one client that never reads keeps the handlers that send to it
suspended.  Nothing makes a user act, a connection end, or a process stop or
come back.  In `transports`, weak fairness says that a client polls again
(`Poll`, `Receive`; the loop of the notebook), that a wait ends (`Wake` or
`Timeout`, by `asyncio.wait_for`), and that a delivery's pause and its request end
(`Attempt`, `Answered` or `Excepted`, by `asyncio.sleep` and the client's timeout
of five seconds); nothing makes the receiver handle or answer a request.  In
`services`, an activity's attempt ends by success, failure or
`start_to_close_timeout`, and the notification, which has no limit of attempts,
succeeds in the end (`Tell`).  The ticket sale, the bucket, the keys, the file
and the log of edits have no fairness, and no liveness is claimed of them.

*Every property has a mutant*: a definition of the code changed as a plausible
bug would change it, under which TLC finds the property violated.  They stand
before the definitions they replace, marked "Mutant".

### Findings

* `doc_unload`: `handle_disconnect` takes the session dict, awaits the
  `user_left` broadcast, and then asks that dict whether it is empty
  (`doc_server.py:661`).  Two editors leave while the first broadcast is
  suspended; the first to resume unloads; a third user joins and gets a new
  session and document; the second resumes, finds *its* dict empty, and drops
  the new ones.  The joined user is no longer told of edits.
* `doc_revision`: a remote operation carries `len(ops_log)` at the time it is
  broadcast (`:472`).  For the first half of a split delete that already counts
  the second half.  A client that answers between the two quotes a revision
  covering an operation it has not seen, and its edit is not transformed against
  it.  `EditsKeepIntent` therefore speaks of edits whose author's text *is* the
  text of the quoted revision (`Honest`).
* `doc_diverge`: while one handler's broadcast is suspended, another edit is
  applied and broadcast first (`:464`); a client receives the later operation
  before the earlier one, applies both as they are, and ends with another text.
  With clients that read promptly, `doc_prompt` shows that this does not happen.
* `chat_retry`: `store_message` never writes `client_message_id`
  (`chat_server.py:175`), and the unique index covers only rows that have one.  A
  send repeated after its ACK was lost is a second message with a second number,
  where the README and `init.sql` promise a no-op.
* `chat_laptop`: there is one inbox row per user, and `handle_sync` sends those
  that are pending (`:345`).  What the phone has acknowledged, the laptop that
  connects afterwards never gets.  `MessagesArrive` is what does hold: a connected
  device that has synced lacks nothing that is still pending.

* `ticket_webhook`: `confirm_booking` reads the status (notebook 03, line 681) and
  then the lock (703), and acts on the second without a second look at the first.
  Two confirmations of one payment both read `in-progress`; the first sells the
  ticket, confirms the booking and deletes the lock; the second takes the missing
  lock for an expired one and sets the booking to `cancelled`.  The notebook calls
  duplicate webhooks harmless (line 1397).  `SoldOnce` is what does hold: the ticket
  stays sold to that booking, and to no other.

* `file_feed`: an event has its number when its INSERT runs and is visible when that
  commits (`init.sql`, a SERIAL), and a poll moves the cursor to the highest number it is
  given (notebook 02, line 824).  One device has number 1 and has not committed; the
  conflict copy of another takes number 2 and commits; a poll gives number 2 and moves the
  cursor past 1, which commits then and is never given to anybody.  The notebook says
  that polling "never misses events" (line 701).  `CursorCoversChanges` is what does hold:
  the next event of the same file that the device *is* given brings the version with it,
  since the version comes from the row; for the copy nothing does.

Three more places, without a run of their own:

* The saga settles nothing that an attempt did which was given up
  (`start_to_close_timeout`, "Payment gateway timeout").  If it was the last attempt of
  `process_payment` or `ship_order`, the order ends as failed, charged and not refunded or
  shipped and refunded, and `OrderSaga` reaches these states; the message to the customer
  is then "failed and was rolled back" (`workflows.py:117`), and notebook 01 presents the
  workflow as the answer to partial failures.  `AllOrNothing` does not say the contrary:
  of a failed order it speaks of what the workflow was told.
* Notebook 04 (line 789) warns of messages that arrive twice when they are published
  during a replay; `SseImplementsFeed` shows that none does, since the queue is
  registered and the buffer read in one step.
* Two conflict copies from one device share a name, so that the second replaces the bytes
  of the first; the model leaves the bytes of copies out.

## 4. Proofs

All are checked by TLAPS, for every value of the constants.  Nothing is assumed
but the named `ASSUME`s of the modules, which TLC evaluates in the runs, and in
three theorems what they say themselves (`MessagesDoArrive`, `EditorsKept`,
`Converge`).  They give the constants their types (sets,
natural numbers, functions) and say besides: the stale client of `OTLog` is not
one of the others; the transports attempt a delivery at least once, keep some
messages, and have finitely many requests that post (`TransportsAssumption`); the
services' rates, times to live and attempts are positive, a bucket expires only
after it would be full again, the refetch interval is shorter than the time to
live, there are finitely many edits (`RulesMakeSense`); nobody is not a user
(`NobodyIsNoUser`); a document has an owner, and what stands for "no document" and
"no text" is none (`DocAssumption`); the characters of the seeded text are distinct
marks, unlike those that clients insert (`MarksAssumption`).

A safety theorem `Spec => []P` is proved from an inductive invariant, named here
with what it adds to `P` and why `P` alone does not do.  Where two properties need
the same facts, there is one invariant for both.

**`OTProofs`**, about the operators of `OT` for every text and operation:

* `TransformConverges` (TP1): for two operations of different users that fit a
  text, applying one and then the other's transform gives the same text in
  either order.  The argument compares the two results character by character:
  each is a concatenation of slices, whose length and elements `SubSeq` and `\o`
  determine; the cases are those of the four transform rules.
* `CaretStaysInText`: `transform_cursor` never leaves the new text.
* The lemmas about *many* operations, on which `IntentIsKept` rests.  Each loop of the
  server is a fold in the model, and each is shown to be that loop: there is a trace
  `out` of its successive values (`PendingIsLoop`, `RoundIsLoop`, `ApplyIsLoop`), and an
  induction over it looks for the least step that fails (`NatLeast`).  A deletion is a
  list of *pieces*, the rightmost first, that do not overlap (`Pieces`).
  `RoundOfPieces`: one round of `transform_operations` turns pieces into pieces of the
  new text, which cover just those characters that were there before and were covered
  (`Cut`, `Old`); the sort has nothing to do then (`SortedStay`), because the right
  half of a split comes first and pieces keep their order.  `PiecesApplied`: what the
  loop of `apply_operation` leaves are the characters that are not covered, in order.
* The lemmas about what an edit *means*.  A text without repeated characters is a
  list of marks; `Says` is what a transformed edit, not applied yet, still says of
  the text its author saw: an insertion is one insertion of the same characters,
  with the author's characters on the sides where they were seen (`Sides`); a deletion
  is a list of pieces that cover exactly the selected characters that are left.
  One round against another operation keeps that (`SaysRound`), and so does a whole
  log (`SaysAlong`); `Does` is what then happens to the text (`SaysDoes`).
  `DoesThroughLog` says it for the server: an edit made on the text after the first k
  operations of a log, transformed against the others and applied after all of them,
  does what was meant.  `CaretAlong` follows a caret and its character along a log.

**`OTLogProofs`**, for any users, any length of text and log:

* `TypeCorrect` (`[]LogTypeOK`) and `OrderIrrelevant` (`[]TP1`).  The invariant adds
  `OneEdit` to the types, namely that after one operation the text is that
  operation applied to the base; without it TP1 would speak of a text the log does
  not explain.
* `CaretsFollowText` (`[]CaretFollowsText`).  The property is about the characters
  of the first text; `Carets` says where they are in the present one: no character
  occurs twice, those an operation inserts are new (`EditsAreNew`), those of the
  first text are before the caret if and only if they were, and the one behind it,
  if it is there, is directly behind it (`Marks`).  `InsertKeepsMarks` and
  `DeleteKeepsMarks` follow each character through one operation.
* `IntentIsKept` (`[]IntentPreserved`), for a log of any length.  The property says
  what applying the stale edit *would* do now; it is not inductive, since from the
  result nothing follows about one operation more.  `Meant` speaks of the transformed
  edit before it is applied: it `Says` of the first text what its author said, and
  no other's characters are the author's (`Stranger`).  `MeantIsKept` goes from there
  to the result by `SaysDoes`, with `Carets` for that no character occurs twice.

**`DocServerProofs`** and **`DocReplicaProofs`**: for any connections, users, roles,
seed, threshold and bounds; the first is about the server alone, the second about what
it and its clients keep for each other (the last five theorems).  Every invariant and
every action property that `doc_prompt` and `doc_slow` check is a theorem here, and so
is the refinement of `DocStore`.  The invariants rest on each other in this order:

    Registry, Versions -> Types -> Stored     (NoGhosts, VersionNumbers, Shown, Recover,
                            |                   DocumentImplementsStore)
                            +-> Orderly, Awaited -> Spent            (DocTypeOK)
                            +-> Orderly, Turns -> Kept               (EditorsKept)
                            +-> Kept, Awaited -> Closing, Following  (Converge)
           Stored -> Marks                                 (EditsIntended, CaretsKept)

* `NoGhosts` (`[]NoGhostEditors`): a session entry belongs to a connection that
  joined and whose end is still to be handled.  The invariant `Registry` adds the
  shapes of `link`, `joined` and the entries; the case that matters is a
  disconnect of one of several connections of one user.
* `VersionNumbers` (`[]VersionsAdvance`): `create_snapshot` never meets its own
  UNIQUE constraint and `current_version` never passes the history.  Alone this
  is not inductive: `Versions` adds that what is loaded has the latest version,
  that the history is numbered, and that without a documents row there is
  nothing.  Every commit a crash can leave satisfies it (`CrashKeepsHistory`).
* `Shown` (`[]PresenceShowsEditors`): whoever is in the session is in the Redis hash
  with its caret.  `Types` is needed for it, and is most of the module: that
  every message, instruction, row and record in use is what it should be.
  Its parts that are more than types: a handler that still points to a dropped
  session or document holds a proper copy of it (`Detachable`), and a client that was
  sent an operation was sent a text before (`Greeted`), without which applying the
  operation would mean nothing.  What `transform_operations` returns is a list of
  well-formed operations whatever the log (`Made`), and `transform_cursor`,
  applied to each of them in turn, stays in the text.
* `Recover` (`[]Recoverable`): what is in memory is what a restart would load.
  The invariant `Stored` says that `load_document`'s replay of the rows since the
  latest snapshot gives `doc.text`, and adds `RowsKept`: no row is newer than that
  snapshot.  `handle_edit` appends its rows one by one, `create_snapshot` moves the
  snapshot to the text they gave; a crash leaves some of the commits and no memory.
* `DocumentImplementsStore` (`Spec => ImplementsStore`), with `content` mapped to what the
  database would give back, so that `Stored` tells what an edit does to it.  An insert
  is still one insert after all its transformations, and what a deletion leaves
  are characters of the old text in their order; a crash between the commits of an edit, a
  save or a restore is a step of `DocStore` or a stutter for *every* prefix of them.
* `DocTypeOK` (`[]TypeOK`): the types, and the bounds of the counters and of the request
  queues.  That no queue holds more than was paid for (`Spent`) needs `Awaited`:
  the request a client waits for is in exactly one place, its requests,
  its handler's script or its inbox (`Tidy`), because a handler answers
  first and once (`Orderly`).
* `EditorsKept` (`[]EditorsKeepDocument`), *if no send suspends a handler (`Slow = {}`)
  and no two connections are one user's (`Apart`)*.  Then handlers take turns and the
  check for an empty session asks the session there is (`Turns`); `Kept` says that a client
  with the text is in the session (`Member`) and a session has its document in memory.
  `doc_unload` shows that a slow receiver breaks it.
* `Converge` (`[]ReplicasConverge`), *if besides no client leaves with a request
  unanswered (`Rude = {}`)*.  The property is about moments when nothing is on
  its way; `Following` is about all others: the text a client has, changed by what is in
  its inbox and then by what the handler at work will still send to it (`Dues`),
  is the server's text (`Behind`).  That is a statement about a chain of
  texts (`Leads`), which every kind of step extends, shortens or moves a link of.
  `Closing` says that when a connection ends nothing of its handler is left that others
  wait for.  `doc_diverge` shows that slow receivers break this one, too.

  The instance of `doc_prompt` satisfies these three hypotheses, and has crashes, restores
  and disconnects; all other theorems of these modules have none.
* `EditsIntended` (`Spec => EditsKeepIntent`) and `CaretsKept` (`Spec => CaretsFollow`), two
  action properties that speak of single characters.  With `DoesThroughLog` and
  `CaretAlong` what is left to show is about where characters can be.  The invariant
  `Marks` says it of every text the document has had or may be given again, its
  snapshots, the text it was last loaded with, what a restart would load
  (`Sources`), and of `ops_log`: no text has a character twice, the operations
  logged insert single characters, each once and none of the text they started from
  (`Marked`); an insertion that still waits in some connection's queue is of a
  character nobody has seen, and of no other queue's (`Asking`); and the text in memory is
  the log applied to `origin`.  The steps that need the whole of it are a restore,
  which brings an old text back and empties the log while edits for the newer
  text are still queued, and a crash that leaves some rows of a split edit.
  That characters are marks at all is how the model is made and not how the
  server is: clients insert 100, 101, ... and the seed's characters are below 100
  and distinct (`MarksAssumption`).  The server compares positions and lengths
  and never a character, so the same happens to any other text.

**`ChatServerProofs`**: for any connections, users, chats, heartbeats and bounds,
by six invariants, each of which rests on those before it:

* `PresenceIsTrue` (`[]PresenceFollowsDevices`): a connected device that beats in
  time keeps its user online, and who is online has a device or lost it with the
  server.  `Presence` adds `Registry`, that `connections` holds exactly the
  connections whose handler has begun and not ended; without it, asking the
  registry for a user's last device (`OfflineIf`) would say nothing about devices.
* `ChatTypeCorrect` (`[]TypeOK`), from `Mail` and `Lines`.  `Mail` is what is stored
  and on its way: a message's chat exists, its inbox rows are those of the other
  members, and whatever a handler, a channel or a device holds is about a message
  that is stored, and addressed to that device's user.  `Lines` ties a
  connection's phase, link, subscriber and pending work to each other.
* `ReceiptsComeInOrder` (`[]ReceiptsInOrder`): a device is told of each receipt once,
  and of a delivery never after the read.  What it was told says nothing about
  what it will be told: `Told` speaks of what it has and what is in its channel
  together, and adds that each such receipt is what the row says (`Happened`), so
  that the next one, which `mark_receipt` makes only if the row moves, is new.
* `MessagesDoArrive` (`[]MessagesArrive`), provided the subscriber waits for Redis
  (`~ Impatient`, an assumption of the theorem, as the run has it).  `Delivery`
  covers the times between: once a device is owed what is pending (it has synced,
  or the end of a sync is among what its handler has to send), each of its
  messages is seen, no longer pending, skipped, or still to be published, in its
  channel, or to be sent.  The step that needs it is a sync: a message stored
  before it is among its answers, a later one is published to a channel that is
  subscribed, which `Lines` says.
* `ChatImplementsStore` (`Spec => ImplementsStore`): the server refines `ChatStore`.
  The initial states map to initial ones (`StoreInit`); a send is a `Post`
  (`SendWrites`), a chat's creation an `Open` (`CreateAdds`), a receipt an `Advance`
  (`MarkMoves`), all else is a stutter (`StoreStep`).  The map reads the log of a chat off the messages' numbers,
  so `Numbering` is needed: a chat's numbers are 1 to its counter and none occurs twice.

**`TransportsProofs`**: for any readers, pollers, posts,
deliveries, clients, rooms and bounds.  Each server has its own invariant;
`Servers` is their conjunction, and `ServersKeep` that every step of one keeps all.

* `TransportsTypeCorrect` (`[]TypeOK`), which includes that rooms and clients agree
  and that no room is empty.
* `StreamsImplementFeed` (`Spec => SseImplementsFeed`) and `StreamsAreComplete`
  (`[]StreamComplete`), both from `SseInv`.  What is on its way to a reader is
  *one* sequence: the wire, then the generator's backlog, then its queue.
  `InOrder` says that it ascends and begins after what the reader has, which is why
  a message published during a replay does not come twice; `Accounted`, that a
  message the reader is owed is given, in that sequence, or was torn off or evicted.
  A reader who has left is owed only what its `last_id` covers.
* `LongPollsImplementFeed` (`Spec => LongPollingImplementsFeed`, without gaps), from
  `LongInv`: a request carries exactly the messages that follow its client's cursor,
  one that is held has nothing behind it.
* `PollsMissOnlyOvertaken` (`[]OnlyOvertakenAreMissed`), from `PollInv`.  `Stamps` says
  that stamps are distinct and no later than the clock; `PollerKnows`, that an
  answer is what was new when the list had *some* length, since the server may append
  while it answers.  The highest stamp of an answer exists because the stamps are
  finitely many.
* `OrdersShipOnce` (`[]ShippedOnce`) and `VendorLogIsTrue` (`[]VendorKnows`), from
  `HookInv`: what is shipped is in the ledger, and only what is answered with 200
  was shipped; requests the vendor gave up on may be handled at any time.
* `BroadcastsReachRoom` (`[]MessagesReachRoom`), which is inductive with the types.

**`TicketBookingProofs`**: for any users, tickets, bookings and requests

* `TypeCorrect` (`[]TypeOK`), `TicketSoldOnce` (`[]SoldOnce`) and `LocksSurvive`
  (`OthersLocksSurvive`, an action property).  A request acts on what it read some
  steps ago, so the invariant `Inv` says what it may still rely on:
  `BookingsMakeSense` (a booking that exists has a ticket, only such a one is paid
  for, a confirmed one was sold its ticket) and `RequestsMakeSense` (a request agrees
  with the row it is about, which may have changed its status since; past the sale,
  the booking is among `sales`).  It says nothing of the locks: the sale is safe
  whatever happens to them, because the UPDATE asks for `status = 'available'`.
  `ReservingStep`, `ConfirmingStep`, `CancellingStep` and `OtherStep` are the cases of
  the induction; `Moves` and `Ends` the two shapes most of their steps have.

**`ServicesProofs`**: for any values of the constants that `RulesMakeSense` allows.
`Services` joins the invariants of the five services, `Inv` of the ticket sale included.

* `ServicesTypeCorrect` (`[]ServicesTypeOK`).
* `OrdersAllOrNothing` (`[]AllOrNothing`).  Its first part is about the world, attempts
  that were given up included: nothing is charged before the workflow knew that the order
  was created, or shipped before it knew of the payment.  An effect that is still to come
  must not break that, so `SagaInv` says it of `late` as well (`Follows`,
  `CancelFollows`).  The rest is about an order that has ended; `StepsRun` says of one that
  has not what was told, what there is to undo and what is left, with nothing undone and
  no attempt at it yet (`NothingUndone`), `RollbackRuns` what is still to be undone, and
  `Settled` what is.
* `BucketKeepsRate` (`[]RateKept`) and `RetryAfterIsEnough` (`[]RetryAfterHolds`).  The
  rate is about any stretch of time; `TokensAccounted` says of every stretch up to
  *now* that what was let through and what the bucket still holds came from a full
  bucket and the drip.  (`admitted[t]` is the number of requests admitted up to tick
  t.)  Evaporation does not break it, because the expiry is longer than the refill;
  that is why `RulesMakeSense` says so.  `PromiseKept` is Retry-After seen from now.
* `VerdictsFollowRotation` (`[]KeysFollowRotation`).  `AsOf(keys, t)` says that keys were
  the provider's at some time since t; a fetch that is under way brings keys as of
  its beginning, so the cache is as of its time less one fetch, even when an older
  answer is stored after a newer one.
* `FileBytesAreCurrent` (`[]BytesAreCurrent`) and `CursorsCoverChanges`
  (`[]CursorCoversChanges`), from `FileInv`: an upload has a version before it has an
  event's number and a number before it is visible (`OnItsWay`), bytes still to be put
  are of an accepted edit (`BytesAwaited`), and a cursor is at an event that was given.
  The step that needs this is a poll (`PollRound`): whatever update event it is given,
  the row is by then at the version of every update with a number up to that event's, the
  invisible ones included.

*How the long ones are laid out.*  A step that changes one connection, reader or row
is proved once, as a lemma about that change (`LinesKeep`, `HeededKept`, `Moves`,
`Wrote`, `Issues`), and each action is shown to be an instance of it.  Facts the
library lacks (the least of some numbers, the positions of a concatenation, how a
sum over ticks grows) are lemmas at the head of the modules.

*Only model-checked*:

* `RequestsAnswered`, `PollersCatchUp`, `TriggersAnswered` and `OrderEnds`: liveness under
  fairness, which needs `ENABLED`.  Every invariant, action property and refinement of a
  passing run is a theorem.

## 5. What is left out

* `get_history`, `get_presence` and unknown messages, and the heartbeats of the
  document server: they change no state.
* A database or Redis error other than a crash (`doc_server.py:437` with the text
  already changed in memory).  Planned.
* The 2-second timeouts of the lab's client; a client here waits or vanishes.
* More than one document: documents share nothing but the process.
* A second server process: the code keeps sessions in memory and has no
  cross-process broadcast.
* In the chat: `last_seen`, group names and roles, and the encrypted content,
  which no handler reads; a client that sends in a chat it is not in; a database
  error other than the failed insert of `handle_create_chat`.
* Carets after a restore: the code leaves them, and claims nothing about them.
* In the transports: heartbeats and statistics; an unparseable Last-Event-ID, which
  is a first connection; a restart of the webhook's receiver, whose ledger is in its
  memory; two subscriptions of one URL, which are two deliveries; a clock that does
  not advance between two posts (long polling) or steps back.
* In the gateway: a clock that steps back, the loss of digits in `tostring`, and
  requests let through while Redis is away, which nothing bounds.  The digits: `tostring`
  keeps 14, which rounds `last_refill` to 0.1 ms, so a client whose requests come faster
  than that can be refilled for a little more time than has passed; `RateKept` and
  `RetryAfterHolds` are about exact arithmetic.
* In the ticket sale: bookings of several tickets (`reserve_ticket` makes none) and
  the key `ticket:{id}:booking`, which nothing decides on.  The seat map's set is
  modelled, and may lose a ticket that is held; nothing is claimed of it but a
  cleanup.
* In the file synchronisation: pub/sub pushes, which change no cursor; shared files;
  chunked uploads; the bytes of conflict copies; a `SyncClient` that starts later, whose
  `start` moves the cursor to the end of the feed without reporting anything.
* Grains (Orleans): the code is examples of the runtime's features, one grain call
  at a time; what would be interesting, reentrancy and activation, is the runtime.
* The token endpoint and the APIs behind `validate_token`, which keep no state.

## 6. Plan

Done: documents, chat, transports, ticket sale, saga, token bucket, key cache, file
synchronisation.  What is left, most important first:

1. Database errors of the document server that are not crashes.
2. The Event API's bookings and the SIEM's correlation: two races of the kind read,
   decide, write, each in a small module of its own.
3. Shared files and pub/sub pushes in `FileSync`.
