------------------------------- MODULE MCChat -------------------------------
(* The instances of ChatServer that TLC checks.                            *)
EXTENDS ChatProperties

CONSTANTS a1, b1, b2

\* One device of user 1 and two of user 2.
TwoDevices == [c \in {a1, b1, b2} |-> IF c = a1 THEN 1 ELSE 2]

Chat(members, last) == << [members |-> members, last |-> last] >>

\* A chat, with its counter; the same, or one without, or none.
Pair == {Chat({1, 2}, 0)}
PairOrNone == {<< >>, Chat({1, 2}, 0), Chat({1, 2}, NoCounter)}

\* The two devices of user 2 are alike.
Devices == Permutations({b1, b2})
=============================================================================
