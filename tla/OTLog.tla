------------------------------- MODULE OTLog -------------------------------
(***************************************************************************)
(* One stale edit against a growing log.  A client looks at the text base  *)
(* and makes one operation, mine, and leaves its caret at start.  Before   *)
(* the server handles it, other users' operations are applied one by one.  *)
(* At every length of the log the properties ask what handle_edit would do *)
(* with mine, and where move_cursors has left the caret.                   *)
(*                                                                         *)
(* Characters are numbers and no number occurs twice in a text, so what    *)
(* happened to a character is what happened to its number.                 *)
(***************************************************************************)
EXTENDS OT

CONSTANTS
  Me,         \* the user id of the client whose edit is stale
  Others,     \* the user ids of the concurrent editors
  MaxBase,    \* bound on the length of base
  MaxLog      \* bound on the number of concurrent operations

ASSUME OTLogAssumption ==
  /\ Me \in Nat /\ Others \subseteq Nat \ {Me}
  /\ MaxBase \in Nat /\ MaxLog \in Nat

VARIABLES
  base,    \* the text the client saw
  mine,    \* the operation it made on base
  start,   \* its caret on base
  text,    \* the server's text: base with log applied
  log,     \* the operations applied since the client's revision
  caret    \* the caret as the server has moved it

logVars == <<base, mine, start, text, log, caret>>

Chars(t) == {t[i] : i \in DOMAIN t}

\* The operations user u can make on text t; the k-th operation inserts one
\* or two characters no other operation inserts.
EditsOn(t, u, k) ==
  {MakeInsert(p, SubSeq(<<MaxBase + 2 * k, MaxBase + 2 * k + 1>>, 1, n), u) :
     p \in 0 .. Len(t), n \in 1 .. 2}
    \cup {op \in {MakeDelete(p, n, u) : p \in 0 .. Len(t), n \in 1 .. Len(t)} : FitsText(op, t)}

LogInit ==
  \E n \in 0 .. MaxBase :
    /\ base = [i \in 1 .. n |-> i]
    /\ mine \in EditsOn(base, Me, 1)
    /\ start \in 0 .. n
    /\ text = base
    /\ log = << >>
    /\ caret = start

\* Another user's operation reaches the server first: applied, logged, and
\* every other editor's caret moved by it.
OtherEdit(op) ==
  /\ Len(log) < MaxLog
  /\ text' = ApplyOperation(text, op)
  /\ log' = Append(log, op)
  /\ caret' = TransformCursor(caret, op)
  /\ UNCHANGED <<base, mine, start>>

LogNext == \E u \in Others : \E op \in EditsOn(text, u, Len(log) + 2) : OtherEdit(op)

LogSpec == LogInit /\ [][LogNext]_logVars

-----------------------------------------------------------------------------
\* What the server would apply for mine now, and the text it would give.
Transformed == TransformOperations(mine, log)
Result == ApplyOperations(text, Transformed)

LogTypeOK ==
  /\ base \in Seq(Nat) /\ text \in Seq(Nat)
  /\ mine \in Operations(Nat, {Me}) /\ FitsText(mine, base)
  /\ log \in Seq(Operations(Nat, Others))
  /\ start \in 0 .. Len(base) /\ caret \in 0 .. Len(text)

Index(t, c) == CHOOSE i \in DOMAIN t : t[i] = c

\* Character c of the base lies before a caret at position p exactly if it
\* lies before a caret at position q of the text t.
SameSide(t, p, q) ==
  \A c \in Chars(base) \cap Chars(t) : Index(base, c) <= p <=> Index(t, c) <= q

\* An edit keeps its meaning however many concurrent operations precede it:
\* an insert survives whole, between the characters its author saw it between;
\* a delete removes exactly the characters its author selected that are still
\* there, and never one its author did not see (transform_operations, the
\* split of a delete and the rightmost-first order).
IntentPreserved ==
  IF mine.type = "insert"
    THEN /\ Chars(Result) = Chars(text) \cup Chars(mine.content)
         /\ \A c \in Chars(base) \cap Chars(text) : \A d \in Chars(mine.content) :
              Index(base, c) <= mine.position <=> Index(Result, c) < Index(Result, d)
         /\ \A k \in 1 .. Len(mine.content) :
              Result[Index(Result, mine.content[1]) + k - 1] = mine.content[k]
    ELSE LET picked == {base[i] : i \in mine.position + 1 .. EndOf(mine)}
         IN  /\ Chars(Result) = Chars(text) \ picked
             /\ \A i, j \in DOMAIN Result : i < j => Index(text, Result[i]) < Index(text, Result[j])

\* TP1, the property the lab's first notebook checks for its own copy of the
\* rules: of two concurrent edits the order of arrival does not matter.
TP1 ==
  Len(log) = 1 =>
    ApplyTransformed(text, TransformOperation(log[1], mine))
      = ApplyTransformed(ApplyOperation(base, mine), TransformOperation(mine, log[1]))

\* "Move a cursor so it keeps pointing at the same character": after any
\* number of remote edits the surviving characters of the base are on the same
\* side of the caret as before, and the one it was in front of, if it survives,
\* is still right behind it.
CaretFollowsText ==
  /\ SameSide(text, start, caret)
  /\ start < Len(base) /\ base[start + 1] \in Chars(text) =>
       caret < Len(text) /\ text[caret + 1] = base[start + 1]
=============================================================================
