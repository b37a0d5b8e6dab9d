--------------------------------- MODULE OT ---------------------------------
(***************************************************************************)
(* The operational-transformation functions of the collaborative document  *)
(* server (06-system-designs/google-docs/server/doc_server.py).  A text is *)
(* a sequence of characters; an operation is a record with the keys of the *)
(* server's dict.  Everything here is a pure operator: the server's state  *)
(* machine is DocServer, and OTLog checks these operators on their own.    *)
(***************************************************************************)
EXTENDS Integers, Sequences, FiniteSets, SequencesExt

\* The operations over characters Char by users Site.  length is meaningful
\* for a delete, content for an insert, as in the dict the handler builds.
Operations(Char, Site) ==
  [type : {"insert", "delete"}, position : Nat, content : Seq(Char),
   length : Nat, site : Site]

MakeInsert(position, content, site) ==
  [type |-> "insert", position |-> position, content |-> content,
   length |-> 0, site |-> site]

MakeDelete(position, length, site) ==
  [type |-> "delete", position |-> position, content |-> << >>,
   length |-> length, site |-> site]

\* Where a delete's half-open range [position, EndOf) stops.
EndOf(op) == op.position + op.length

Lesser(m, n)  == IF m <= n THEN m ELSE n
Greater(m, n) == IF m >= n THEN m ELSE n

-----------------------------------------------------------------------------
\* Mutant: two inserts at one spot are not ordered by site.
InsertPositionNoTie(a, b) ==
  IF a.type = "insert"
    THEN IF b.position >= a.position THEN b.position + Len(a.content) ELSE b.position
    ELSE IF b.position >= EndOf(a) THEN b.position - a.length
         ELSE Lesser(b.position, a.position)

\* B is an insert; A has been applied.  Inserts survive, only the position
\* moves; two inserts at one spot are ordered by site.
InsertPosition(a, b) ==
  IF a.type = "insert"
    THEN IF \/ b.position > a.position
            \/ b.position = a.position /\ a.site <= b.site
           THEN b.position + Len(a.content)
           ELSE b.position
    ELSE IF b.position >= EndOf(a) THEN b.position - a.length
         ELSE Lesser(b.position, a.position)

TransformInsert(a, b) == [b EXCEPT !.position = InsertPosition(a, b)]

\* Mutant: a delete is not split, it swallows what was inserted inside it.
TransformDeleteNoSplit(a, b) ==
  IF a.type = "insert"
    THEN IF a.position <= b.position
           THEN << MakeDelete(b.position + Len(a.content), b.length, b.site) >>
         ELSE IF a.position >= EndOf(b) THEN << b >>
         ELSE << MakeDelete(b.position, b.length + Len(a.content), b.site) >>
    ELSE LET overlap == Greater(0, Lesser(EndOf(a), EndOf(b))
                                     - Greater(a.position, b.position))
             before == Greater(0, Lesser(EndOf(a), b.position) - a.position)
         IN  IF b.length <= overlap THEN << >>
             ELSE << MakeDelete(b.position - before, b.length - overlap, b.site) >>

\* B is a delete.  An insert inside its range splits it (right half first);
\* a delete that overlaps it leaves B only what A did not remove.
TransformDelete(a, b) ==
  IF a.type = "insert"
    THEN IF a.position <= b.position
           THEN << MakeDelete(b.position + Len(a.content), b.length, b.site) >>
         ELSE IF a.position >= EndOf(b) THEN << b >>
         ELSE << MakeDelete(a.position + Len(a.content), EndOf(b) - a.position, b.site),
                 MakeDelete(b.position, a.position - b.position, b.site) >>
    ELSE LET overlap == Greater(0, Lesser(EndOf(a), EndOf(b))
                                     - Greater(a.position, b.position))
             remaining == b.length - overlap
             before == Greater(0, Lesser(EndOf(a), b.position) - a.position)
         IN  IF remaining <= 0 THEN << >>
             ELSE << MakeDelete(b.position - before, remaining, b.site) >>

\* Operation B, rewritten for a text to which the concurrent A was applied:
\* a sequence of none, one or two operations, to be applied in that order.
TransformOperation(a, b) ==
  IF b.type = "insert" THEN << TransformInsert(a, b) >> ELSE TransformDelete(a, b)

\* Every pending operation against A.
TransformPending(pending, a) ==
  FoldLeft(LAMBDA transformed, p : transformed \o TransformOperation(a, p), << >>, pending)

\* The operations by descending position, those at the same one as they were.
RightmostFirst(ops) ==
  LET Before(j, i) == \/ ops[j].position > ops[i].position
                      \/ ops[j].position = ops[i].position /\ j <= i
      Rank(i) == Cardinality({j \in DOMAIN ops : Before(j, i)})
  IN  [k \in DOMAIN ops |-> ops[CHOOSE i \in DOMAIN ops : Rank(i) = k]]

\* One round of transform_operations.
TransformRound(pending, a) == RightmostFirst(TransformPending(pending, a))

\* Operation B against every operation applied since its client's revision.
TransformOperations(b, applied) == FoldLeft(TransformRound, << b >>, applied)

\* Mutants: an insert at the caret leaves it behind; a caret inside a deleted
\* range is pulled back by the whole length.
TransformCursorStrict(position, op) ==
  IF op.type = "insert"
    THEN IF position > op.position THEN position + Len(op.content) ELSE position
    ELSE IF position >= EndOf(op) THEN position - op.length
         ELSE Lesser(position, op.position)

TransformCursorUnclamped(position, op) ==
  IF op.type = "insert"
    THEN IF position >= op.position THEN position + Len(op.content) ELSE position
    ELSE IF position > op.position THEN position - op.length ELSE position

\* A caret, moved so that it keeps pointing at the same character.
TransformCursor(position, op) ==
  IF op.type = "insert"
    THEN IF position >= op.position THEN position + Len(op.content) ELSE position
    ELSE IF position >= EndOf(op) THEN position - op.length
         ELSE Lesser(position, op.position)

-----------------------------------------------------------------------------
\* Python's text[:p] and text[p:], which stop at the end of the text.
UpTo(text, p) == SubSeq(text, 1, Lesser(p, Len(text)))
From(text, p) == SubSeq(text, Lesser(p, Len(text)) + 1, Len(text))

ApplyOperation(text, op) ==
  IF op.type = "insert"
    THEN UpTo(text, op.position) \o op.content \o From(text, op.position)
    ELSE UpTo(text, op.position) \o From(text, EndOf(op))

\* The loops "for op in ops: text = apply_operation(text, op)".
ApplyOperations(text, ops) == FoldLeft(ApplyOperation, text, ops)

\* The same for the result of one TransformOperation, which has at most two.
ApplyTransformed(text, ops) ==
  IF ops = << >> THEN text
  ELSE IF Len(ops) = 1 THEN ApplyOperation(text, ops[1])
  ELSE ApplyOperation(ApplyOperation(text, ops[1]), ops[2])

\* The operations a client can make on a text: an insert at a caret, or the
\* deletion of a non-empty run.
FitsText(op, text) ==
  IF op.type = "insert" THEN op.position <= Len(text)
  ELSE op.length >= 1 /\ EndOf(op) <= Len(text)
=============================================================================
