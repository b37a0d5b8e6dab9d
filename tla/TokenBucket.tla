----------------------------- MODULE TokenBucket -----------------------------
(***************************************************************************)
(* One client's bucket of the rate limiter (rate-limiter/app/server.py),   *)
(* which any number of gateways share: the Lua script is one step, however *)
(* many of them call it.                                                   *)
(*                                                                         *)
(* Time is counted in ticks of the Redis server's clock, of which there    *)
(* are PerSecond to the second; tokens in parts, Token of them to a token, *)
(* so that a tick drips in a whole number, Drip.                           *)
(***************************************************************************)
EXTENDS Integers

CONSTANTS
  Token, Drip, PerSecond,
  MaxTokens,     \* max_tokens
  Expiry,        \* EXPIRE, in ticks: long enough to fill every bucket
  MaxTime        \* bound on the clock

VARIABLES
  now,       \* TIME
  bucket,    \* the hash of the bucket: tokens and last_refill, or Absent
  admitted,  \* history: tick -> requests admitted by its end, since Redis had its data
  promise    \* history: when the first to be turned away may come back, or Never

vars == <<now, bucket, admitted, promise>>

Full == MaxTokens * Token
Absent == [tokens |-> Full, last |-> -1]
Never == MaxTime + 100 * Token * PerSecond

Init ==
  /\ now = 0 /\ bucket = Absent
  /\ admitted = [t \in 0..MaxTime |-> 0]
  /\ promise = Never

\* Mutant: the bucket has no rim.
TokensUncapped == IF bucket = Absent THEN Full ELSE bucket.tokens + (now - bucket.last) * Drip

\* The lazy refill.
Tokens ==
  IF bucket = Absent THEN Full
  ELSE LET filled == bucket.tokens + (now - bucket.last) * Drip
       IN  IF filled < Full THEN filled ELSE Full

CeilDiv(a, b) == (a + b - 1) \div b

\* Mutant: the seconds are rounded down.
RetryAfterFloor(tokens) ==
  LET seconds == ((Token - tokens) \div (Drip * PerSecond)) IN IF seconds < 1 THEN 1 ELSE seconds

\* Retry-After, in seconds: rounded up, to milliseconds by the script and to
\* seconds by check_rate_limit, and one at least.
RetryAfter(tokens) ==
  LET seconds == CeilDiv(CeilDiv((Token - tokens) * 1000, Drip * PerSecond), 1000)
  IN  IF seconds < 1 THEN 1 ELSE seconds

\* TOKEN_BUCKET_SCRIPT.  evalsha that finds no script has done nothing, and the
\* second one does it all.
Request ==
  LET tokens == Tokens IN
  /\ IF tokens >= Token
     THEN /\ bucket' = [tokens |-> tokens - Token, last |-> now]
          /\ admitted' = [admitted EXCEPT ![now] = @ + 1]
          /\ promise' = Never
     ELSE /\ bucket' = [tokens |-> tokens, last |-> now]
          /\ LET back == now + RetryAfter(tokens) * PerSecond
             IN  promise' = IF back < promise THEN back ELSE promise
          /\ UNCHANGED admitted
  /\ UNCHANGED now

\* The script runs and its answer is lost: the token is gone, and the request
\* is let through or not as FAIL_MODE says; it is not counted as admitted.
Degraded ==
  /\ bucket' = [tokens |-> IF Tokens >= Token THEN Tokens - Token ELSE Tokens, last |-> now]
  /\ promise' = Never
  /\ UNCHANGED <<now, admitted>>

\* The key has not been written for an hour.
Evaporate ==
  /\ bucket # Absent /\ now - bucket.last >= Expiry
  /\ bucket' = Absent
  /\ UNCHANGED <<now, admitted, promise>>

\* Redis loses its data; every client begins anew.
Forget ==
  /\ bucket # Absent
  /\ bucket' = Absent
  /\ admitted' = [t \in 0..MaxTime |-> 0]
  /\ UNCHANGED <<now, promise>>

Tick ==
  /\ now < MaxTime
  /\ now' = now + 1
  /\ admitted' = [admitted EXCEPT ![now + 1] = admitted[now]]
  /\ UNCHANGED <<bucket, promise>>

Next == Request \/ Degraded \/ Evaporate \/ Forget \/ Tick

Spec == Init /\ [][Next]_vars
-----------------------------------------------------------------------------
TypeOK ==
  /\ now \in 0..MaxTime
  /\ bucket = Absent \/ (bucket.tokens \in 0..Full /\ bucket.last \in 0..now)
  /\ admitted \in [0..MaxTime -> Nat]
  /\ promise \in Nat

\* Requests admitted before a tick.
Before(from) == IF from = 0 THEN 0 ELSE admitted[from - 1]

\* In no stretch of time is a client let through more often than the full
\* bucket and what drips in allow, whether or not the idle bucket has evaporated
\* (server.py, TOKEN_BUCKET_SCRIPT).  The arithmetic is exact here; the script
\* stores last_refill with 14 digits, that is to 0.1 ms (line 72), and a client with
\* requests closer than that can gain by the rounding.
RateKept ==
  \A from \in 0..now : \A to \in from..now :
    (admitted[to] - Before(from)) * Token <= Full + (to - from) * Drip

\* "a client that waits the value we send is always past the refill, never
\* short" (server.py:150), unless another request of the client's was admitted.
RetryAfterHolds == now >= promise => Tokens >= Token
=============================================================================
