----------------------------- MODULE MCServices -----------------------------
(***************************************************************************)
(* Model for TLC of the parts that have no connections to keep: the ticket *)
(* sale, the order saga, the rate limiter's bucket, the cache of signing   *)
(* keys, the synchronised file, and the rules by which a stale edit is     *)
(* rewritten.  They share nothing: a behaviour is one of one of them,      *)
(* `which`, and the others stay where they began.                          *)
(***************************************************************************)
EXTENDS TicketBooking, OTLog

CONSTANTS
  MaxAttempts, MaxGivenUp,
  Token, Drip, PerSecond, MaxTokens, Expiry, MaxTime,
  Kids, Another, Threads, Ttl, MinRefetch, MaxFetch, MaxKeyTime,
  Devices, Edits, Original

ASSUME RulesMakeSense ==
  /\ {MaxAttempts, Token, Drip, PerSecond, MaxTokens, Ttl, MinRefetch} \subseteq Nat \ {0}
  /\ {MaxGivenUp, Expiry, MaxTime, MaxFetch, MaxKeyTime} \subseteq Nat
  /\ Expiry * Drip >= MaxTokens * Token
  /\ MinRefetch < Ttl /\ Kids # {} /\ Another \notin Kids
  /\ IsFiniteSet(Edits) /\ Original \notin Edits

VARIABLES
  which,
  phase, activity, attempt, compensations, late, effects, exhausted,
  now, bucket, admitted, promise,
  keyTime, added, withdrawn, cache, thread, verdict,
  row, object, copies, numbers, visible, upload, client, versionOf, rivals

ticketVars == vars
sagaVars == <<phase, activity, attempt, compensations, late, effects, exhausted>>
bucketVars == <<now, bucket, admitted, promise>>
keyVars == <<keyTime, added, withdrawn, cache, thread, verdict>>
fileVars == <<row, object, copies, numbers, visible, upload, client, versionOf, rivals>>
serviceVars == <<which, ticketVars, sagaVars, bucketVars, keyVars, fileVars, logVars>>

Saga == INSTANCE OrderSaga
Bucket == INSTANCE TokenBucket
Keys == INSTANCE Jwks WITH now <- keyTime, MaxTime <- MaxKeyTime
File == INSTANCE FileSync

\* The text of the edit that waits while another part is looked at.
NoText == base = << >> /\ Len(mine.content) = 1

ServicesInit ==
  /\ which \in {"ticket", "saga", "bucket", "keys", "file", "log"}
  /\ Init /\ Saga!Init /\ Bucket!Init /\ Keys!Init /\ File!Init /\ LogInit
  /\ which # "log" => NoText

ServicesNext ==
  /\ UNCHANGED which
  /\ \/ which = "ticket" /\ Next /\ UNCHANGED <<sagaVars, bucketVars, keyVars, fileVars, logVars>>
     \/ which = "saga" /\ Saga!Next /\ UNCHANGED <<ticketVars, bucketVars, keyVars, fileVars, logVars>>
     \/ which = "bucket" /\ Bucket!Next /\ UNCHANGED <<ticketVars, sagaVars, keyVars, fileVars, logVars>>
     \/ which = "keys" /\ Keys!Next /\ UNCHANGED <<ticketVars, sagaVars, bucketVars, fileVars, logVars>>
     \/ which = "file" /\ File!Next /\ UNCHANGED <<ticketVars, sagaVars, bucketVars, keyVars, logVars>>
     \/ which = "log" /\ LogNext /\ UNCHANGED <<ticketVars, sagaVars, bucketVars, keyVars, fileVars>>

\* The fairness of OrderSaga, in the behaviours that are its.
Fairness ==
  /\ WF_sagaVars(which = "saga" /\ (Saga!Succeeds \/ Saga!Fails \/ Saga!TimesOut))
  /\ WF_sagaVars(which = "saga" /\ Saga!Tell)

ServicesSpec == ServicesInit /\ [][ServicesNext]_serviceVars /\ Fairness
-----------------------------------------------------------------------------
\* Every service's state is of the shape its module declares.
ServicesTypeOK == TypeOK /\ Saga!TypeOK /\ Bucket!TypeOK /\ Keys!TypeOK /\ File!TypeOK

\* workflows.py: an order is completed as a whole, or what its workflow was told of is
\* undone, and nothing was done out of turn.
AllOrNothing == Saga!AllOrNothing

\* workflows.py: an order comes to an end.
OrderEnds == which = "saga" => Saga!OrderEnds

\* rate-limiter/app/server.py: no burst beyond the bucket and its refill.
RateKept == Bucket!RateKept

\* rate-limiter/app/server.py: a client that waits as long as it is told finds a token.
RetryAfterHolds == Bucket!RetryAfterHolds

\* auth.py: accepted and refused keys follow the provider's, within bounds.
KeysFollowRotation == Keys!KeysFollowRotation

\* dropbox notebook 02: the bytes are those of an accepted edit, never of a refused one.
BytesAreCurrent == File!BytesAreCurrent

\* dropbox notebook 02: what the cursor has passed is known, but for events that were
\* invisible then and that no later event of their file has made up for.
CursorCoversChanges == File!CursorCoversChanges
=============================================================================
