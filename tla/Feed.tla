-------------------------------- MODULE Feed --------------------------------
(***************************************************************************)
(* What a reader of a feed of messages is promised.  The messages are      *)
(* numbered as they are published; a reader is given new ones in that      *)
(* order, none of them twice.  Where Gaps is FALSE it is given every one   *)
(* of them.                                                                *)
(***************************************************************************)
EXTENDS Integers, Sequences

CONSTANTS Readers, Gaps

VARIABLES
  published,  \* how many messages there are
  got         \* reader -> the messages it was given

Last(s) == IF s = << >> THEN 0 ELSE s[Len(s)]

Ascending(s) == \A i \in 1..Len(s) - 1 : s[i] < s[i + 1]

Init == published = 0 /\ got = [r \in Readers |-> << >>]

Publish == published' = published + 1 /\ UNCHANGED got

\* A reader is given some messages newer than all it has.
Deliver(r) ==
  /\ LET old == Len(got[r])
         new == SubSeq(got'[r], old + 1, Len(got'[r]))
     IN  /\ new # << >>
         /\ SubSeq(got'[r], 1, old) = got[r]
         /\ Ascending(<<Last(got[r])>> \o new)
         /\ Last(new) <= published
         /\ ~ Gaps => Len(new) = Last(new) - Last(got[r])
  /\ \A s \in Readers \ {r} : got'[s] = got[s]
  /\ UNCHANGED published

Next == Publish \/ \E r \in Readers : Deliver(r)

Spec == Init /\ [][Next]_<<published, got>>
=============================================================================
