------------------------------ MODULE DocStore ------------------------------
(***************************************************************************)
(* What the document server promises to keep: a current text and a history *)
(* of versions.  An edit changes the text by one operation, saving adds    *)
(* the current text to the history, restoring an old version adds that     *)
(* version again and makes it current.  Nothing is ever taken out of the   *)
(* history, and nothing else changes the text: no unload, reload or crash. *)
(***************************************************************************)
EXTENDS Integers, Sequences

CONSTANT Seed

VARIABLES content, versions

\* s is t with one run of characters added.
IsInsertion(t, s) ==
  LET n == Len(s) - Len(t)
  IN  n > 0 /\ \E p \in 0 .. Len(t) :
        t = SubSeq(s, 1, p) \o SubSeq(s, p + n + 1, Len(s))

\* s is t with some of its characters removed, the others in their order.
IsDeletion(t, s) ==
  Len(s) < Len(t) /\ \E kept \in [DOMAIN s -> DOMAIN t] :
    /\ \A i, j \in DOMAIN s : i < j => kept[i] < kept[j]
    /\ \A i \in DOMAIN s : s[i] = t[kept[i]]

\* The number after every version's: 0, or one more than the latest.
NextVersions == {n \in {0} \cup {v + 1 : v \in DOMAIN versions} : \A v \in DOMAIN versions : v < n}

\* The history with one more version.
WithVersion(n, text) == [v \in DOMAIN versions \cup {n} |-> IF v = n THEN text ELSE versions[v]]

Init ==
  \/ content = << >> /\ DOMAIN versions = {}
  \/ content = Seed /\ versions = [v \in {0, 1} |-> IF v = 0 THEN << >> ELSE Seed]

Edit ==
  /\ LET t == content
         s == content'
     IN  IsInsertion(t, s) \/ IsDeletion(t, s)
  /\ UNCHANGED versions

\* The first version of a document that has none is version 0 when it is
\* created and version 1 when it is saved.
Save ==
  /\ \E n \in NextVersions \cup ({1} \ DOMAIN versions) : versions' = WithVersion(n, content)
  /\ UNCHANGED content

Restore ==
  /\ \E v \in DOMAIN versions, n \in NextVersions :
       content' = versions[v] /\ versions' = WithVersion(n, versions[v])

Next == Edit \/ Save \/ Restore

vars == <<content, versions>>

Spec == Init /\ [][Next]_vars
=============================================================================
