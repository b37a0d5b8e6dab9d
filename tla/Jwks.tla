-------------------------------- MODULE Jwks --------------------------------
(***************************************************************************)
(* The cache of signing keys behind validate_token                         *)
(* (azure-authentication/common/auth.py).  Requests are handled in         *)
(* threads: the answer to a fetch is taken at the identity provider at one *)
(* moment and stored at a later one, and another fetch may be stored in    *)
(* between.                                                                *)
(***************************************************************************)
EXTENDS Integers

CONSTANTS
  Kids,          \* the keys under observation
  Another,       \* a key the provider always has
  Threads,
  Ttl,           \* _JWKS_TTL_SECONDS
  MinRefetch,    \* _JWKS_MIN_REFETCH_SECONDS
  MaxFetch,      \* how long a fetch may take
  MaxTime        \* bound on the clock

VARIABLES
  now,
  added,      \* key -> when the provider published it, or Never
  withdrawn,  \* key -> when the provider withdrew it, or Never
  cache,      \* _jwks_cache
  thread,     \* thread -> its call of validate_token
  verdict     \* history: how a call ended, if the latest step ended one

vars == <<now, added, withdrawn, cache, thread, verdict>>

Never == MaxTime + 1
LongAgo == -1000
\* `keys` is what a fetch has brought, `since` when it began.
NoCall == [at |-> "idle", kid |-> CHOOSE k \in Kids : TRUE, forced |-> FALSE, since |-> 0, keys |-> {}]
Undecided == [kid |-> NoCall.kid, outcome |-> "none"]

Init ==
  /\ now = 0
  /\ added = [k \in Kids |-> Never]
  /\ withdrawn = [k \in Kids |-> Never]
  /\ cache = [keys |-> {}, at |-> LongAgo]
  /\ thread = [v \in Threads |-> NoCall]
  /\ verdict = Undecided

Published == {k \in Kids : added[k] <= now /\ withdrawn[k] > now} \cup {Another}

Publish(k) ==
  /\ added[k] = Never
  /\ added' = [added EXCEPT ![k] = now]
  /\ verdict' = Undecided
  /\ UNCHANGED <<now, withdrawn, cache, thread>>

Withdraw(k) ==
  /\ k \in Published
  /\ withdrawn' = [withdrawn EXCEPT ![k] = now]
  /\ verdict' = Undecided
  /\ UNCHANGED <<now, added, cache, thread>>

Age == now - cache.at

Fetching(v, kid, forced) ==
  /\ thread' = [thread EXCEPT ![v] = [at |-> "fetching", kid |-> kid, forced |-> forced,
                                      since |-> now, keys |-> {}]]
  /\ verdict' = Undecided

\* The kid is looked up in `keys`.  If it is not there the first time, there is
\* a second look.
LookUp(v, kid, keys, forced) ==
  IF kid \notin keys /\ ~ forced
  THEN /\ thread' = [thread EXCEPT ![v] = [NoCall EXCEPT !.at = "missed", !.kid = kid]]
       /\ verdict' = Undecided
  ELSE /\ thread' = [thread EXCEPT ![v] = NoCall]
       /\ verdict' = [kid |-> kid, outcome |-> IF kid \in keys THEN "accepted" ELSE "refused"]

\* validate_token begins, with _get_jwks().
FirstLook(v, kid) ==
  /\ thread[v].at = "idle"
  /\ IF Age < Ttl /\ cache.keys # {} THEN LookUp(v, kid, cache.keys, FALSE)
                                     ELSE Fetching(v, kid, FALSE)
  /\ UNCHANGED <<now, added, withdrawn, cache>>

\* Mutant: a forced look waits for the time to live, too.
MayRefetchLate(age) == age >= Ttl

MayRefetch(age) == age >= MinRefetch

\* _get_jwks(force=True)
SecondLook(v) ==
  /\ thread[v].at = "missed"
  /\ IF MayRefetch(Age) THEN Fetching(v, thread[v].kid, TRUE)
                        ELSE LookUp(v, thread[v].kid, cache.keys, TRUE)
  /\ UNCHANGED <<now, added, withdrawn, cache>>

\* _fetch_jwks: the provider answers,
Answer(v) ==
  /\ thread[v].at = "fetching"
  /\ thread' = [thread EXCEPT ![v].at = "answered", ![v].keys = Published]
  /\ verdict' = Undecided
  /\ UNCHANGED <<now, added, withdrawn, cache>>

\* the cache takes the answer, whatever it has got meanwhile;
Store(v) ==
  /\ thread[v].at = "answered"
  /\ cache' = [keys |-> thread[v].keys, at |-> now]
  /\ LookUp(v, thread[v].kid, thread[v].keys, thread[v].forced)
  /\ UNCHANGED <<now, added, withdrawn>>

\* or the fetch fails, and the request with it.
FetchFails(v) ==
  /\ thread[v].at = "fetching"
  /\ thread' = [thread EXCEPT ![v] = NoCall]
  /\ verdict' = Undecided
  /\ UNCHANGED <<now, added, withdrawn, cache>>

\* No fetch takes longer than MaxFetch.
Tick ==
  /\ now < MaxTime
  /\ \A v \in Threads : thread[v].at \in {"fetching", "answered"} => now - thread[v].since < MaxFetch
  /\ now' = now + 1
  /\ verdict' = Undecided
  /\ UNCHANGED <<added, withdrawn, cache, thread>>

Next ==
  \/ \E k \in Kids : Publish(k) \/ Withdraw(k)
  \/ \E v \in Threads : \/ \E k \in Kids : FirstLook(v, k)
                        \/ SecondLook(v) \/ Answer(v) \/ Store(v) \/ FetchFails(v)
  \/ Tick

Spec == Init /\ [][Next]_vars
-----------------------------------------------------------------------------
Times == 0..MaxTime + 1

TypeOK ==
  /\ now \in 0..MaxTime
  /\ added \in [Kids -> Times] /\ withdrawn \in [Kids -> Times]
  /\ cache \in [keys : SUBSET (Kids \cup {Another}), at : Times \cup {LongAgo}]
  /\ thread \in [Threads -> [at : {"idle", "missed", "fetching", "answered"}, kid : Kids,
                             forced : BOOLEAN, since : Times, keys : SUBSET (Kids \cup {Another})]]
  /\ verdict \in [kid : Kids, outcome : {"none", "accepted", "refused"}]

\* The cache follows the provider's key rotation.  A key that was withdrawn is
\* accepted for the time to live and one fetch at most, even if an old answer
\* is stored over a newer one; a key the provider has is refused for the
\* refetch interval and one fetch at most after its publication, not for the
\* time to live (auth.py:81-84).
KeysFollowRotation ==
  LET kid == verdict.kid IN
  /\ verdict.outcome = "accepted" => withdrawn[kid] > now - (Ttl + MaxFetch)
  /\ verdict.outcome = "refused" =>
       added[kid] > now - (MinRefetch + MaxFetch) \/ withdrawn[kid] <= now
=============================================================================
