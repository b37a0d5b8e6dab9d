------------------------------ MODULE ChatStore ------------------------------
(***************************************************************************)
(* What the chat server promises to keep.  A chat is a sequence of posts   *)
(* without gaps, to which posts are only ever added.  A post comes with a  *)
(* receipt for every other member, in the same instant, and a receipt only *)
(* moves forward: pending, delivered, read.                                *)
(***************************************************************************)
EXTENDS Integers, Sequences

CONSTANTS
  Users, Contents,
  Openings          \* the possible chats at the start

VARIABLES
  chats,      \* sequence of [members, log], log a sequence of posts
  receipts    \* <<chat, number, user>> -> status

Order == [pending |-> 0, delivered |-> 1, read |-> 2]

Init == chats \in Openings /\ receipts = [x \in {} |-> "pending"]

\* A chat without members is one whose creation was cut short.
Open ==
  /\ \E members \in SUBSET Users : chats' = Append(chats, [members |-> members, log |-> << >>])
  /\ UNCHANGED receipts

Post(k) ==
  LET n == Len(chats[k].log) + 1
  IN  \E user \in chats[k].members :
        LET fresh == {<<k, n, u>> : u \in chats[k].members \ {user}}
        IN  /\ \E content \in Contents :
                 chats' = [chats EXCEPT ![k].log = Append(@, [sender |-> user, content |-> content])]
            /\ receipts' = [r \in DOMAIN receipts \cup fresh |->
                              IF r \in fresh THEN "pending" ELSE receipts[r]]

Advance(r) ==
  /\ \E status \in DOMAIN Order :
       Order[status] > Order[receipts[r]] /\ receipts' = [receipts EXCEPT ![r] = status]
  /\ UNCHANGED chats

Next == Open \/ (\E k \in DOMAIN chats : Post(k)) \/ (\E r \in DOMAIN receipts : Advance(r))

vars == <<chats, receipts>>

Spec == Init /\ [][Next]_vars
=============================================================================
