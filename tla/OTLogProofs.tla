---------------------------- MODULE OTLogProofs ----------------------------
(***************************************************************************)
(* OTLog for every user id, every set of concurrent editors, every length  *)
(* of text and every length of log: type correctness, the caret's range,   *)
(* TP1, that the caret follows the text, and that the stale edit keeps its *)
(* meaning.  The step from one state to the next rests on the theorems of  *)
(* OTProofs about a single operation and a single round of transforms.     *)
(***************************************************************************)
EXTENDS OTLog, OTProofs

\* What an editor does to a text of natural numbers is an operation by that
\* editor which fits the text.
LEMMA EditsFit ==
  ASSUME NEW t \in Seq(Nat), NEW u \in Nat, NEW k \in Nat, NEW op \in EditsOn(t, u, k)
  PROVE  op \in Operations(Nat, {u}) /\ FitsText(op, t)
<1> DEFINE run(n) == SubSeq(<<MaxBase + 2 * k, MaxBase + 2 * k + 1>>, 1, n)
           inserts == {MakeInsert(p, run(n), u) : p \in 0 .. Len(t), n \in 1 .. 2}
           deletes == {d \in {MakeDelete(p, n, u) : p \in 0 .. Len(t), n \in 1 .. Len(t)} :
                         FitsText(d, t)}
<1>0. op \in inserts \/ op \in deletes
  <2>1. EditsOn(t, u, k) = inserts \cup deletes
    BY DEF EditsOn
  <2> HIDE DEF inserts, deletes
  <2> QED BY <2>1
<1>1. CASE op \in inserts
  <2>1. PICK p \in 0 .. Len(t), n \in 1 .. 2 : op = MakeInsert(p, run(n), u)
    <3> HIDE DEF run
    <3> QED BY <1>1
  <2>2. <<MaxBase + 2 * k, MaxBase + 2 * k + 1>> \in Seq(Nat)
    <3>1. MaxBase + 2 * k \in Nat /\ MaxBase + 2 * k + 1 \in Nat
      BY OTLogAssumption
    <3> QED BY <3>1
  <2>3. run(n) \in Seq(Nat)
    <3>1. n = 1 \/ n = 2
      OBVIOUS
    <3>2. Len(<<MaxBase + 2 * k, MaxBase + 2 * k + 1>>) = 2
      OBVIOUS
    <3> QED BY <2>2, <3>1, <3>2
  <2>4. Len(t) \in Nat /\ p \in Nat /\ p <= Len(t)
    OBVIOUS
  <2>5. op \in Operations(Nat, {u})
    BY <2>1, <2>3, <2>4 DEF MakeInsert, Operations
  <2>6. FitsText(op, t)
    BY <2>1, <2>4 DEF MakeInsert, FitsText
  <2> QED BY <2>5, <2>6
<1>2. CASE op \in deletes
  <2>1. PICK p \in 0 .. Len(t), n \in 1 .. Len(t) : op = MakeDelete(p, n, u)
    BY <1>2
  <2>2. << >> \in Seq(Nat) /\ p \in Nat /\ n \in Nat
    OBVIOUS
  <2>3. op \in Operations(Nat, {u})
    BY <2>1, <2>2 DEF MakeDelete, Operations
  <2> QED BY <1>2, <2>3
<1> QED BY <1>0, <1>1, <1>2

\* The operations of some natural-numbered users are operations of OTProofs.
LEMMA SitesAreInts ==
  ASSUME NEW S \in SUBSET Nat, NEW op \in Operations(Nat, S)
  PROVE  op \in Operations(Nat, Int) /\ op.site \in S
<1>1. S \subseteq Int
  <2>1. Nat \subseteq Int
    OBVIOUS
  <2> QED BY <2>1
<1>2. \A s \in S : s \in Int
  BY <1>1
<1> QED BY ONLY op \in Operations(Nat, S), <1>2 DEF Operations

-----------------------------------------------------------------------------
\* LogTypeOK does not remember how text came about, which is what TP1 depends on.
OneEdit ==
  /\ log = << >> => text = base
  /\ Len(log) = 1 => FitsText(log[1], base) /\ text = ApplyOperation(base, log[1])

Inv == LogTypeOK /\ OneEdit

\* A text nobody else has edited yet, one edit made on it and a caret inside it.
LEMMA InitInv == LogInit => Inv
<1> SUFFICES ASSUME LogInit PROVE Inv
  OBVIOUS
<1>1. PICK n \in 0 .. MaxBase :
        /\ base = [i \in 1 .. n |-> i]
        /\ mine \in EditsOn(base, Me, 1)
        /\ start \in 0 .. n
        /\ text = base /\ log = << >> /\ caret = start
  BY DEF LogInit
<1>2. n \in Nat /\ Me \in Nat
  BY OTLogAssumption
<1>3. base \in Seq(Nat) /\ Len(base) = n
  BY <1>1, <1>2
<1>4. mine \in Operations(Nat, {Me}) /\ FitsText(mine, base)
  <2>1. mine \in EditsOn(base, Me, 1)
    BY <1>1
  <2> QED BY <1>2, <1>3, <2>1, EditsFit
<1>5. LogTypeOK
  <2>1. log \in Seq(Operations(Nat, Others))
    BY <1>1
  <2>2. start \in 0 .. Len(base) /\ caret \in 0 .. Len(text) /\ text \in Seq(Nat)
    BY <1>1, <1>3
  <2> QED BY <1>3, <1>4, <2>1, <2>2 DEF LogTypeOK
<1>6. OneEdit
  <2>1. Len(log) = 0
    BY <1>1
  <2> QED BY <1>1, <2>1 DEF OneEdit
<1> QED BY <1>5, <1>6 DEF Inv

\* One more operation of another user keeps text, log and caret in shape, and
\* the first one is remembered as an operation on base.
LEMMA StepInv == Inv /\ [LogNext]_logVars => Inv'
<1> SUFFICES ASSUME Inv, [LogNext]_logVars PROVE Inv'
  OBVIOUS
<1>1. CASE LogNext
  <2>1. PICK u \in Others : \E op \in EditsOn(text, u, Len(log) + 2) : OtherEdit(op)
    BY <1>1 DEF LogNext
  <2>2. PICK op \in EditsOn(text, u, Len(log) + 2) : OtherEdit(op)
    BY <2>1
  <2>3. /\ text \in Seq(Nat) /\ caret \in 0 .. Len(text)
        /\ log \in Seq(Operations(Nat, Others)) /\ Len(log) \in Nat
        /\ u \in Nat /\ Others \in SUBSET Nat
    BY OTLogAssumption DEF Inv, LogTypeOK
  <2>4. op \in Operations(Nat, {u}) /\ FitsText(op, text)
    <3>1. Len(log) + 2 \in Nat
      BY ONLY Len(log) \in Nat, <2>3
    <3> QED BY <2>2, <2>3, <3>1, EditsFit
  <2>5. op \in Operations(Nat, Others) /\ op \in Operations(Nat, Int)
    BY <2>3, <2>4 DEF Operations
  <2>6. /\ text' = ApplyOperation(text, op) /\ log' = Append(log, op)
        /\ caret' = TransformCursor(caret, op)
        /\ base' = base /\ mine' = mine /\ start' = start
    BY <2>2 DEF OtherEdit
  <2>7. text' \in Seq(Nat)
    BY <2>3, <2>4, <2>5, <2>6, ApplyTyped
  <2>8. caret' \in 0 .. Len(text')
    BY <2>3, <2>4, <2>5, <2>6, CaretStaysInText
  <2>9. log' \in Seq(Operations(Nat, Others)) /\ Len(log') = Len(log) + 1
    BY ONLY <2>3, <2>5, <2>6
  <2>10. LogTypeOK'
    BY <2>6, <2>7, <2>8, <2>9 DEF Inv, LogTypeOK, FitsText, EndOf
  <2>11. OneEdit'
    <3>1. log' # << >>
      BY <2>3, <2>9
    <3>2. ASSUME Len(log') = 1
          PROVE  FitsText(log'[1], base') /\ text' = ApplyOperation(base', log'[1])
      <4>1. Len(log) = 0
        BY ONLY <2>3, <2>9, <3>2
      <4>2. log = << >>
        BY ONLY <2>3, <4>1
      <4>3. log'[1] = op
        BY <2>6, <4>2
      <4>4. text = base
        BY <4>2 DEF Inv, OneEdit
      <4> QED BY <2>4, <2>6, <4>3, <4>4
    <3> QED BY <3>1, <3>2 DEF OneEdit
  <2> QED BY <2>10, <2>11 DEF Inv
<1>2. CASE UNCHANGED logVars
  <2>1. LogTypeOK'
    BY <1>2 DEF logVars, Inv, LogTypeOK, FitsText, EndOf
  <2>2. OneEdit'
    BY <1>2 DEF logVars, Inv, OneEdit, FitsText, EndOf
  <2> QED BY <2>1, <2>2 DEF Inv
<1> QED BY <1>1, <1>2

\* The inductive invariant holds in every state.
LEMMA AlwaysInv == LogSpec => []Inv
BY InitInv, StepInv, PTL DEF LogSpec

-----------------------------------------------------------------------------
\* Whatever is edited in whatever order, the text stays a text and the caret
\* move_cursors keeps for an editor stays inside it: transform_cursor needs no
\* clamp of its own.
THEOREM TypeCorrect == LogSpec => []LogTypeOK
<1>1. Inv => LogTypeOK
  BY DEF Inv
<1> QED BY AlwaysInv, <1>1, PTL

\* Two concurrent edits give the same text in either order of arrival, for
\* every text, every pair of edits and every pair of different users.
THEOREM OrderIrrelevant == LogSpec => []TP1
<1>1. Inv => TP1
  <2> SUFFICES ASSUME Inv, Len(log) = 1
               PROVE  ApplyTransformed(text, TransformOperation(log[1], mine))
                        = ApplyTransformed(ApplyOperation(base, mine),
                                           TransformOperation(mine, log[1]))
    BY DEF TP1
  <2>1. /\ Others \in SUBSET Nat /\ {Me} \in SUBSET Nat /\ Me \notin Others
        /\ log \in Seq(Operations(Nat, Others)) /\ base \in Seq(Nat)
        /\ mine \in Operations(Nat, {Me}) /\ FitsText(mine, base)
    BY OTLogAssumption DEF Inv, LogTypeOK
  <2>2. log[1] \in Operations(Nat, Others)
    <3> DEFINE ops == Operations(Nat, Others)
    <3>1. log \in Seq(ops) /\ 1 \in DOMAIN log
      BY ONLY <2>1, Len(log) = 1
    <3> HIDE DEF ops
    <3>2. log[1] \in ops
      BY ONLY <3>1
    <3> QED BY <3>2 DEF ops
  <2>3. /\ log[1] \in Operations(Nat, Int) /\ log[1].site \in Others
        /\ mine \in Operations(Nat, Int) /\ mine.site \in {Me}
    BY <2>1, <2>2, SitesAreInts
  <2>4. FitsText(log[1], base) /\ text = ApplyOperation(base, log[1])
    BY DEF Inv, OneEdit
  <2>5. log[1].site # mine.site
    BY <2>1, <2>3
  <2> QED BY <2>1, <2>3, <2>4, <2>5, TransformConverges
<1> QED BY AlwaysInv, <1>1, PTL

-----------------------------------------------------------------------------
(* The caret, character by character.                                      *)

\* The n characters of t: all below top, none twice; those of the base, which
\* are 1 .. m, are before q exactly if they are not after b, and b + 1 is right
\* behind q if it is there.
Marks(t, n, q, b, m, top) ==
  /\ \A i \in 1 .. n : t[i] \in Nat /\ t[i] < top
  /\ \A i, j \in 1 .. n : t[i] = t[j] => i = j
  /\ \A i \in 1 .. n : t[i] <= m => (t[i] <= b <=> i <= q)
  /\ b < m => \A i \in 1 .. n : t[i] = b + 1 => i = q + 1

\* New characters push the caret along if they come before it.
LEMMA InsertKeepsMarks ==
  ASSUME NEW t, NEW r, NEW w, NEW n \in Nat, NEW p \in Nat, NEW k \in Nat, NEW q \in Nat, NEW b \in Nat,
         NEW m \in Nat, NEW top \in Nat, p <= n, m < top, Marks(t, n, q, b, m, top), Inserted(r, t, n, p, w, k),
         \A i \in 1 .. k : w[i] \in Nat /\ top <= w[i] /\ w[i] < top + 2,
         \A i, j \in 1 .. k : w[i] = w[j] => i = j
  PROVE  Marks(r, n + k, IF q >= p THEN q + k ELSE q, b, m, top + 2)
<1> DEFINE s == IF q >= p THEN q + k ELSE q
           old(i) == IF i <= p THEN i ELSE i - k
           new(i) == p < i /\ i <= p + k
<1>1. ASSUME NEW i \in 1 .. n + k
      PROVE  /\ new(i) => i - p \in 1 .. k /\ r[i] = w[i - p]
             /\ ~ new(i) => old(i) \in 1 .. n /\ r[i] = t[old(i)] /\ (i <= s <=> old(i) <= q)
                            /\ (old(i) = q + 1 <=> i = s + 1)
  BY DEF Inserted
<1>2. \A i, j \in 1 .. n + k : ~ new(i) /\ ~ new(j) /\ old(i) = old(j) => i = j
  OBVIOUS
<1>3. s \in Nat
  OBVIOUS
<1> HIDE DEF s, old, new
<1>4. \A i \in 1 .. n + k : r[i] \in Nat /\ r[i] < top + 2 /\ (new(i) <=> r[i] >= top)
  <2> TAKE i \in 1 .. n + k
  <2>1. CASE new(i)
    BY <1>1, <2>1
  <2>2. CASE ~ new(i)
    BY <1>1, <2>2 DEF Marks
  <2> QED BY <2>1, <2>2
<1>5. ASSUME NEW i \in 1 .. n + k, NEW j \in 1 .. n + k, r[i] = r[j] PROVE i = j
  <2>1. new(i) <=> new(j)
    BY <1>4, <1>5
  <2>2. CASE new(i)
    <3>1. i - p = j - p
      BY <1>1, <1>5, <2>1, <2>2
    <3> QED BY <3>1
  <2>3. CASE ~ new(i)
    BY <1>1, <1>2, <1>5, <2>1, <2>3 DEF Marks
  <2> QED BY <2>2, <2>3
<1>6. ASSUME NEW i \in 1 .. n + k PROVE (r[i] <= m => (r[i] <= b <=> i <= s)) /\ (b < m /\ r[i] = b + 1 => i = s + 1)
  <2>1. CASE new(i)
    <3>1. r[i] \in Nat /\ r[i] >= top
      BY <1>4, <2>1
    <3> QED BY <3>1
  <2>2. CASE ~ new(i)
    BY <1>1, <2>2 DEF Marks
  <2> QED BY <2>1, <2>2
<1>7. Marks(r, n + k, s, b, m, top + 2)
  BY <1>4, <1>5, <1>6 DEF Marks
<1> QED BY <1>7 DEF s

\* Removed characters pull it back to where they were.
LEMMA DeleteKeepsMarks ==
  ASSUME NEW t, NEW r, NEW n \in Nat, NEW p \in Nat, NEW k \in Nat, NEW q \in Nat, NEW b \in Nat,
         NEW m \in Nat, NEW top \in Nat, p + k <= n, Marks(t, n, q, b, m, top), Deleted(r, t, n, p, k)
  PROVE  Marks(r, n - k, IF q >= p + k THEN q - k ELSE IF q <= p THEN q ELSE p, b, m, top + 2)
<1> DEFINE s == IF q >= p + k THEN q - k ELSE IF q <= p THEN q ELSE p
           old(i) == IF i <= p THEN i ELSE i + k
<1>1. ASSUME NEW i \in 1 .. n - k
      PROVE  /\ old(i) \in 1 .. n /\ r[i] = t[old(i)] /\ (i <= s <=> old(i) <= q)
             /\ (old(i) = q + 1 => i = s + 1)
  BY DEF Deleted
<1>2. \A i, j \in 1 .. n - k : old(i) = old(j) => i = j
  OBVIOUS
<1> HIDE DEF s, old
<1>3. \A i \in 1 .. n - k : r[i] \in Nat /\ r[i] < top + 2
  BY <1>1 DEF Marks
<1>4. \A i, j \in 1 .. n - k : r[i] = r[j] => i = j
  BY <1>1, <1>2 DEF Marks
<1>5. \A i \in 1 .. n - k : (r[i] <= m => (r[i] <= b <=> i <= s)) /\ (b < m /\ r[i] = b + 1 => i = s + 1)
  BY <1>1 DEF Marks
<1>6. Marks(r, n - k, s, b, m, top + 2)
  BY <1>3, <1>4, <1>5 DEF Marks
<1> QED BY <1>6 DEF s

-----------------------------------------------------------------------------
\* What an editor inserts are new characters, none twice.
LEMMA EditsAreNew ==
  ASSUME NEW t \in Seq(Nat), NEW u \in Nat, NEW k \in Nat, NEW op \in EditsOn(t, u, k), op.type = "insert",
         NEW top, top = MaxBase + 2 * k
  PROVE  /\ \A i \in 1 .. Len(op.content) : /\ op.content[i] \in Nat /\ top <= op.content[i]
                                            /\ op.content[i] < top + 2
         /\ \A i, j \in 1 .. Len(op.content) : op.content[i] = op.content[j] => i = j
<1> DEFINE pair == <<MaxBase + 2 * k, MaxBase + 2 * k + 1>>
           run(n) == SubSeq(pair, 1, n)
           inserts == {MakeInsert(p, run(n), u) : p \in 0 .. Len(t), n \in 1 .. 2}
<1>1. PICK p \in 0 .. Len(t), n \in 1 .. 2 : op = MakeInsert(p, run(n), u)
  <2>1. op \in inserts \/ \E q, m : op = MakeDelete(q, m, u)
    <3> HIDE DEF run
    <3> QED BY DEF EditsOn, run
  <2>2. op \in inserts
    <3> HIDE DEF inserts
    <3>1. \A q, m : MakeDelete(q, m, u).type = "delete"
      BY DEF MakeDelete
    <3> QED BY <2>1, <3>1
  <2> HIDE DEF run
  <2> QED BY <2>2
<1>2. op.content = run(n)
  BY <1>1 DEF MakeInsert
<1>3. top \in Nat /\ pair[1] = top /\ pair[2] = top + 1 /\ pair \in Seq(Nat) /\ Len(pair) = 2
  <2>1. MaxBase + 2 * k \in Nat /\ MaxBase + 2 * k + 1 \in Nat
    BY OTLogAssumption
  <2> QED BY <2>1
<1> HIDE DEF pair
<1>4. Len(run(n)) = n /\ \A i \in 1 .. n : run(n)[i] = pair[i]
  <2>1. n = 1 \/ n = 2
    OBVIOUS
  <2> QED BY <1>3, <2>1
<1> HIDE DEF run
<1>5. \A i \in 1 .. n : run(n)[i] = IF i = 1 THEN top ELSE top + 1
  <2>1. \A i \in 1 .. n : i = 1 \/ i = 2
    OBVIOUS
  <2> QED BY <1>3, <1>4, <2>1
<1>6. \A i, j \in 1 .. n : i # j => (i = 1 /\ j = 2) \/ (i = 2 /\ j = 1)
  OBVIOUS
<1> DEFINE w == op.content
<1>7. w = run(n) /\ Len(w) = n
  BY <1>2, <1>4
<1> HIDE DEF w
<1>8. \A i \in 1 .. n : w[i] \in Nat /\ top <= w[i] /\ w[i] < top + 2
  BY <1>3, <1>5, <1>7, SMTT(30)
<1>9. \A i, j \in 1 .. n : w[i] = w[j] => i = j
  BY <1>3, <1>5, <1>6, <1>7
<1> QED BY <1>7, <1>8, <1>9 DEF w

-----------------------------------------------------------------------------
\* No character occurs twice, the next operation's are new, and the caret has
\* the characters of the base on the sides where they were.
Carets ==
  /\ Len(base) <= MaxBase /\ \A i \in 1 .. Len(base) : base[i] = i
  /\ Marks(text, Len(text), caret, start, Len(base), MaxBase + 2 * (Len(log) + 2))

\* On the text the client saw the caret is where it left it.
LEMMA CaretsInit == LogInit => Carets
<1> SUFFICES ASSUME LogInit PROVE Carets
  OBVIOUS
<1>1. PICK n \in 0 .. MaxBase :
        /\ base = [i \in 1 .. n |-> i] /\ start \in 0 .. n
        /\ text = base /\ log = << >> /\ caret = start
  BY DEF LogInit
<1>2. n \in Nat /\ MaxBase \in Nat /\ Len(log) = 0 /\ Len(base) = n
  BY <1>1, OTLogAssumption
<1>3. \A i \in 1 .. n : text[i] = i
  BY <1>1
<1>4. Marks(text, n, caret, start, n, MaxBase + 4)
  BY <1>1, <1>2, <1>3 DEF Marks
<1>5. MaxBase + 2 * (Len(log) + 2) = MaxBase + 4
  BY <1>2
<1> QED BY <1>1, <1>2, <1>3, <1>4, <1>5 DEF Carets

\* One more operation moves the caret with the characters around it.
LEMMA CaretsStep == Inv /\ Carets /\ [LogNext]_logVars => Carets'
<1> SUFFICES ASSUME Inv, Carets, [LogNext]_logVars PROVE Carets'
  OBVIOUS
<1>1. CASE LogNext
  <2>1. PICK u \in Others : \E op \in EditsOn(text, u, Len(log) + 2) : OtherEdit(op)
    BY <1>1 DEF LogNext
  <2>2. PICK op \in EditsOn(text, u, Len(log) + 2) : OtherEdit(op)
    BY <2>1
  <2>3. /\ text' = ApplyOperation(text, op) /\ log' = Append(log, op) /\ caret' = TransformCursor(caret, op)
        /\ base' = base /\ start' = start
    BY <2>2 DEF OtherEdit
  <2>4. /\ text \in Seq(Nat) /\ Len(text) \in Nat /\ caret \in 0 .. Len(text) /\ start \in 0 .. Len(base)
        /\ base \in Seq(Nat) /\ Len(base) \in Nat
        /\ log \in Seq(Operations(Nat, Others)) /\ Len(log) \in Nat /\ u \in Nat /\ MaxBase \in Nat
    BY OTLogAssumption DEF Inv, LogTypeOK
  <2> DEFINE k == Len(log) + 2  top == MaxBase + 2 * k  n == Len(text)  m == Len(base)
  <2>5. k \in Nat /\ top \in Nat /\ m < top /\ MaxBase + 2 * (k + 1) = top + 2
    BY <2>4 DEF Carets
  <2>6. Len(log') + 2 = k + 1
    BY <2>3, <2>4
  <2>7. op \in Operations(Nat, {u}) /\ FitsText(op, text)
    BY <2>2, <2>4, <2>5, EditsFit
  <2>8. Marks(text, n, caret, start, m, top)
    BY DEF Carets
  <2>9. caret \in Nat /\ start \in Nat /\ n \in Nat /\ m \in Nat
    BY <2>4
  <2>14. top = MaxBase + 2 * k
    OBVIOUS
  <2> HIDE DEF k, top, n, m
  <2>10. Marks(text', Len(text'), caret', start, m, top + 2)
    <3>1. CASE op.type = "insert"
      <4> DEFINE w == op.content  l == Len(w)  p == op.position
      <4>1. /\ w \in Seq(Nat) /\ l \in Nat /\ p \in Nat /\ p <= n
        BY <2>7, <3>1 DEF Operations, FitsText, n
      <4>2. text' = Insert(text, p, w)
        BY <2>3, <3>1, ApplyInsert
      <4>3. Len(text') = n + l /\ Inserted(text', text, n, p, w, l)
        <5>1. p <= Len(text)
          BY <4>1 DEF n
        <5> HIDE DEF w, l, p
        <5> QED BY <2>4, <4>1, <4>2, <5>1, InsertText DEF n, l
      <4>4. caret' = IF caret >= p THEN caret + l ELSE caret
        BY <2>3, <3>1 DEF TransformCursor
      <4>5. /\ \A i \in 1 .. l : w[i] \in Nat /\ top <= w[i] /\ w[i] < top + 2
            /\ \A i, j \in 1 .. l : w[i] = w[j] => i = j
        <5>1. text \in Seq(Nat) /\ u \in Nat /\ k \in Nat /\ op \in EditsOn(text, u, k) /\ op.type = "insert"
              /\ top = MaxBase + 2 * k
          BY <2>2, <2>4, <2>5, <2>14, <3>1 DEF k
        <5> HIDE DEF k, top
        <5> QED BY ONLY <5>1, EditsAreNew, SMTT(30) DEF w, l
      <4> HIDE DEF w, l, p
      <4>6. Marks(text', n + l, IF caret >= p THEN caret + l ELSE caret, start, m, top + 2)
        BY <2>5, <2>8, <2>9, <4>1, <4>3, <4>5, InsertKeepsMarks
      <4> QED BY <4>3, <4>4, <4>6
    <3>2. CASE op.type = "delete"
      <4> DEFINE l == op.length  p == op.position
      <4>1. l \in Nat /\ p \in Nat /\ p + l <= n /\ EndOf(op) = p + l
        BY <2>7, <3>2 DEF Operations, FitsText, EndOf, n
      <4>2. text' = Delete(text, p, l)
        BY <2>3, <3>2, ApplyDelete
      <4>3. Len(text') = n - l /\ Deleted(text', text, n, p, l)
        <5>1. p + l <= Len(text)
          BY <4>1 DEF n
        <5> HIDE DEF l, p
        <5>2. text \in Seq(Nat) /\ p \in Nat /\ l \in Nat
          BY <2>4, <4>1
        <5>3. Len(Delete(text, p, l)) = Len(text) - l /\ Deleted(Delete(text, p, l), text, Len(text), p, l)
          BY ONLY <5>1, <5>2, DeleteText
        <5> QED BY <4>2, <5>3 DEF n
      <4>4. caret' = IF caret >= p + l THEN caret - l ELSE IF caret <= p THEN caret ELSE p
        BY <2>3, <3>2, <4>1 DEF TransformCursor, Lesser
      <4> HIDE DEF l, p
      <4>5. Marks(text', n - l, IF caret >= p + l THEN caret - l ELSE IF caret <= p THEN caret ELSE p,
                  start, m, top + 2)
        BY <2>5, <2>8, <2>9, <4>1, <4>3, DeleteKeepsMarks
      <4> QED BY <4>3, <4>4, <4>5
    <3> QED BY <2>7, <3>1, <3>2 DEF Operations
  <2>11. MaxBase + 2 * (Len(log') + 2) = top + 2
    BY <2>5, <2>6
  <2> QED BY <2>3, <2>10, <2>11 DEF Carets, m
<1>2. CASE UNCHANGED logVars
  BY <1>2 DEF logVars, Carets, Marks
<1> QED BY <1>1, <1>2

\* "Move a cursor so it keeps pointing at the same character": whatever others
\* edit in whatever order, the surviving characters of the text a client saw
\* stay on their side of its caret, and the one behind it stays behind it.
THEOREM CaretsFollowText == LogSpec => []CaretFollowsText
<1>1. Inv /\ Carets => CaretFollowsText
  <2> SUFFICES ASSUME Inv, Carets PROVE CaretFollowsText
    OBVIOUS
  <2>1. /\ text \in Seq(Nat) /\ base \in Seq(Nat) /\ caret \in 0 .. Len(text) /\ start \in 0 .. Len(base)
        /\ Len(text) \in Nat /\ Len(base) \in Nat
        /\ DOMAIN text = 1 .. Len(text) /\ DOMAIN base = 1 .. Len(base)
    BY DEF Inv, LogTypeOK
  <2>2. Chars(base) = 1 .. Len(base) /\ \A i \in 1 .. Len(base) : Index(base, i) = i
    <3>1. \A i \in 1 .. Len(base) : base[i] = i
      BY DEF Carets
    <3>2. Chars(base) = 1 .. Len(base)
      BY <2>1, <3>1 DEF Chars
    <3>3. ASSUME NEW i \in 1 .. Len(base) PROVE Index(base, i) = i
      <4>1. \A j \in 1 .. Len(base) : base[j] = i <=> j = i
        BY <3>1
      <4> QED BY <2>1, <4>1 DEF Index
    <3> QED BY <3>2, <3>3
  <2>3. ASSUME NEW c \in Chars(base) \cap Chars(text) PROVE Index(base, c) <= start <=> Index(text, c) <= caret
    <3>1. PICK i \in 1 .. Len(text) : text[i] = c
      BY <2>1 DEF Chars
    <3>2. \A j \in 1 .. Len(text) : text[j] = c => j = i
      BY <3>1 DEF Carets, Marks
    <3>3. Index(text, c) = i
      BY <2>1, <3>1, <3>2 DEF Index
    <3>4. c <= Len(base) /\ Index(base, c) = c
      BY <2>1, <2>2
    <3> QED BY <3>1, <3>3, <3>4 DEF Carets, Marks
  <2>4. ASSUME start < Len(base), base[start + 1] \in Chars(text)
        PROVE  caret < Len(text) /\ text[caret + 1] = base[start + 1]
    <3>1. PICK i \in 1 .. Len(text) : text[i] = base[start + 1]
      BY <2>1, <2>4 DEF Chars
    <3>2. base[start + 1] = start + 1
      BY <2>1, <2>4 DEF Carets
    <3>3. i = caret + 1
      BY <2>4, <3>1, <3>2 DEF Carets, Marks
    <3> QED BY <2>1, <3>1, <3>3
  <2> QED BY <2>3, <2>4 DEF CaretFollowsText, SameSide
<1>2. LogSpec => []Carets
  BY AlwaysInv, CaretsInit, CaretsStep, PTL DEF LogSpec
<1> QED BY AlwaysInv, <1>1, <1>2, PTL

-----------------------------------------------------------------------------
(* What the author meant.                                                  *)

\* The text's characters are none of those that mine inserts, and mine has not
\* stopped saying what its author meant.
Stranger(c) == c <= Len(base) \/ c >= MaxBase + 4
MineIsNew ==
  mine.type = "insert" =>
    /\ \A i \in 1 .. Len(mine.content) : MaxBase + 2 <= mine.content[i] /\ mine.content[i] < MaxBase + 4
    /\ \A i, j \in 1 .. Len(mine.content) : mine.content[i] = mine.content[j] => i = j
Meant ==
  /\ MineIsNew
  /\ \A i \in 1 .. Len(text) : Stranger(text[i])
  /\ Says(mine, base, {Me}, Transformed, text)

\* On the text the author saw it says what it says.
LEMMA MeantInit == LogInit => Meant
<1> SUFFICES ASSUME LogInit PROVE Meant
  OBVIOUS
<1>1. PICK n \in 0 .. MaxBase :
        /\ base = [i \in 1 .. n |-> i] /\ mine \in EditsOn(base, Me, 1)
        /\ text = base /\ log = << >>
  BY DEF LogInit
<1>2. /\ n \in Nat /\ MaxBase \in Nat /\ Me \in Nat /\ Len(base) = n /\ base \in Seq(Nat)
      /\ \A i \in 1 .. n : base[i] = i
  BY <1>1, OTLogAssumption
<1>3. mine \in Operations(Nat, {Me}) /\ FitsText(mine, base)
  BY <1>1, <1>2, EditsFit
<1>4. Transformed = << mine >>
  BY <1>1, NoRound DEF Transformed
<1>5. \A i \in 1 .. Len(text) : Stranger(text[i])
  BY <1>1, <1>2 DEF Stranger
<1>6. MineIsNew
  <2> SUFFICES ASSUME mine.type = "insert"
               PROVE  /\ \A i \in 1 .. Len(mine.content) : MaxBase + 2 <= mine.content[i] /\ mine.content[i] < MaxBase + 4
                      /\ \A i, j \in 1 .. Len(mine.content) : mine.content[i] = mine.content[j] => i = j
    BY DEF MineIsNew
  <2> DEFINE top == MaxBase + 2
  <2>1. top = MaxBase + 2 * 1 /\ top + 2 = MaxBase + 4
    BY <1>2
  <2> HIDE DEF top
  <2>2. /\ \A i \in 1 .. Len(mine.content) : /\ mine.content[i] \in Nat /\ top <= mine.content[i]
                                             /\ mine.content[i] < top + 2
        /\ \A i, j \in 1 .. Len(mine.content) : mine.content[i] = mine.content[j] => i = j
    <3>1. base \in Seq(Nat) /\ Me \in Nat /\ 1 \in Nat /\ mine \in EditsOn(base, Me, 1) /\ mine.type = "insert"
          /\ top = MaxBase + 2 * 1
      BY <1>1, <1>2, <2>1
    <3> QED BY ONLY <3>1, EditsAreNew
  <2> QED BY <2>1, <2>2 DEF top
<1>7. Says(mine, base, {Me}, Transformed, text)
  <2>1. Unlike(base)
    BY <1>2 DEF Unlike
  <2>2. Says(mine, base, {Me}, << mine >>, base)
    BY <1>2, <1>3, <2>1, SaysFirst
  <2> QED BY <1>1, <1>4, <2>2
<1> QED BY <1>5, <1>6, <1>7 DEF Meant

\* Transformed against one more operation, which inserts nothing that the text
\* its author saw had, it still does.
LEMMA MeantStep == Inv /\ Carets /\ Meant /\ [LogNext]_logVars => Meant'
<1> SUFFICES ASSUME Inv, Carets, Meant, [LogNext]_logVars PROVE Meant'
  OBVIOUS
<1>1. CASE LogNext
  <2>1. PICK u \in Others : \E op \in EditsOn(text, u, Len(log) + 2) : OtherEdit(op)
    BY <1>1 DEF LogNext
  <2>2. PICK op \in EditsOn(text, u, Len(log) + 2) : OtherEdit(op)
    BY <2>1
  <2>3. /\ text' = ApplyOperation(text, op) /\ log' = Append(log, op) /\ base' = base /\ mine' = mine
    BY <2>2 DEF OtherEdit
  <2>4. /\ text \in Seq(Nat) /\ base \in Seq(Nat) /\ Len(base) \in Nat /\ DOMAIN base = 1 .. Len(base)
        /\ mine \in Operations(Nat, {Me}) /\ FitsText(mine, base)
        /\ log \in Seq(Operations(Nat, Others)) /\ Len(log) \in Nat /\ u \in Nat /\ MaxBase \in Nat
    BY OTLogAssumption DEF Inv, LogTypeOK
  <2> DEFINE k == Len(log) + 2  top == MaxBase + 2 * k  S == Operations(Nat, Others)
  <2>5. k \in Nat /\ top \in Nat /\ top >= MaxBase + 4 /\ Len(base) <= MaxBase /\ top = MaxBase + 2 * k
    BY <2>4 DEF Carets
  <2>6. op \in Operations(Nat, {u}) /\ FitsText(op, text)
    BY <2>2, <2>4, <2>5, EditsFit
  <2>7. op \in S /\ log \in Seq(S)
    <3>1. \A v \in {u} : v \in Others
      BY <2>1
    <3> QED BY ONLY <2>4, <2>6, <3>1 DEF Operations, S
  <2>8. Transformed' = TransformRound(Transformed, op)
    <3> HIDE DEF S
    <3>1. TransformOperations(mine, Append(log, op)) = TransformRound(TransformOperations(mine, log), op)
      BY <2>7, OneMoreRound
    <3> QED BY <2>3, <3>1 DEF Transformed
  <2>9. op.type = "insert" => \A i \in 1 .. Len(op.content) : op.content[i] \in Nat /\ top <= op.content[i]
    <3>1. ASSUME op.type = "insert" PROVE \A i \in 1 .. Len(op.content) : op.content[i] \in Nat /\ top <= op.content[i]
      <4>1. text \in Seq(Nat) /\ u \in Nat /\ k \in Nat /\ op \in EditsOn(text, u, k) /\ op.type = "insert"
            /\ top = MaxBase + 2 * k
        BY <2>2, <2>4, <2>5, <3>1
      <4> HIDE DEF top, k
      <4> QED BY ONLY <4>1, EditsAreNew
    <3> QED BY <3>1
  <2> HIDE DEF k, top, S
  <2>10. Foreign(op, Range(base))
    <3>1. \A x \in Range(base) : x \in Nat /\ x <= MaxBase
      <4>1. \A i \in 1 .. Len(base) : base[i] = i
        BY DEF Carets
      <4> QED BY <2>4, <2>5, <4>1 DEF Range
    <3> QED BY <2>4, <2>5, <2>9, <3>1 DEF Foreign
  <2>11. text' \in Seq(Nat) /\ Says(mine, base, {Me}, Transformed', text')
    <3>1. Says(mine, base, {Me}, Transformed, text)
      BY DEF Meant
    <3> DEFINE v == Transformed
    <3> HIDE DEF v
    <3>2. /\ ApplyOperation(text, op) \in Seq(Nat)
          /\ Says(mine, base, {Me}, TransformRound(v, op), ApplyOperation(text, op))
      BY <2>4, <2>7, <2>10, <3>1, SaysRound DEF S, v
    <3> QED BY <2>3, <2>8, <3>2 DEF v
  <2>12. \A i \in 1 .. Len(text') : Stranger(text'[i])
    <3> TAKE i \in 1 .. Len(text')
    <3>1. DOMAIN text = 1 .. Len(text) /\ DOMAIN text' = 1 .. Len(text')
      BY <2>4, <2>11
    <3> DEFINE x == text'[i]
    <3>2. x \in Range(ApplyOperation(text, op))
      BY <2>3, <3>1 DEF Range
    <3> HIDE DEF x
    <3>3. x \in Range(text) \/ (op.type = "insert" /\ \E g \in 1 .. Len(op.content) : op.content[g] = x)
      BY <2>4, <2>7, <3>2, AppliedFrom DEF S
    <3>4. CASE x \in Range(text)
      <4>1. PICK j \in 1 .. Len(text) : text[j] = x
        BY <3>1, <3>4 DEF Range
      <4> QED BY <4>1 DEF Meant, x
    <3>5. CASE op.type = "insert" /\ \E g \in 1 .. Len(op.content) : op.content[g] = x
      <4>1. x \in Nat /\ top <= x
        BY <2>9, <3>5
      <4> QED BY <2>4, <2>5, <4>1 DEF Stranger, x
    <3> QED BY <3>3, <3>4, <3>5
  <2>13. MineIsNew'
    BY <2>3 DEF MineIsNew, Meant
  <2>14. Says(mine, base, {Me}, Transformed, text)'
    BY <2>3, <2>11
  <2> QED BY <2>3, <2>12, <2>13, <2>14 DEF Meant, Stranger
<1>2. CASE UNCHANGED logVars
  BY <1>2 DEF logVars, Meant, MineIsNew, Stranger, Transformed
<1> QED BY <1>1, <1>2

\* What the transformed operation says is what it does.
LEMMA MeantIsKept == Inv /\ Carets /\ Meant => IntentPreserved
<1> SUFFICES ASSUME Inv, Carets, Meant PROVE IntentPreserved
  OBVIOUS
<1>1. /\ text \in Seq(Nat) /\ base \in Seq(Nat) /\ Len(base) \in Nat /\ DOMAIN text = 1 .. Len(text)
      /\ mine \in Operations(Nat, {Me}) /\ FitsText(mine, base) /\ MaxBase \in Nat
  BY OTLogAssumption DEF Inv, LogTypeOK
<1>2. mine.type \in {"insert", "delete"}
  BY <1>1 DEF Operations
<1>3. Unlike(text) /\ Unlike(base) /\ Len(base) <= MaxBase
  BY DEF Carets, Marks, Unlike
<1>4. ASSUME mine.type = "insert" PROVE Unlike(mine.content) /\ Foreign(mine, Range(text))
  <2>1. \A j \in 1 .. Len(mine.content) : MaxBase + 2 <= mine.content[j] /\ mine.content[j] < MaxBase + 4
    BY <1>4 DEF Meant, MineIsNew
  <2>2. ASSUME NEW j \in 1 .. Len(mine.content), mine.content[j] \in Range(text) PROVE FALSE
    <3>1. PICK i \in 1 .. Len(text) : text[i] = mine.content[j]
      BY <1>1, <2>2 DEF Range
    <3>2. Stranger(text[i]) /\ text[i] \in Nat
      BY <1>1 DEF Meant
    <3> QED BY <1>1, <1>3, <2>1, <3>1, <3>2 DEF Stranger
  <2> QED BY <1>4, <2>2 DEF Meant, MineIsNew, Unlike, Foreign
<1>5. Does(mine, base, text, Result)
  <2> DEFINE v == Transformed
  <2>1. Says(mine, base, {Me}, v, text) /\ Result = ApplyOperations(text, v)
    BY DEF Meant, Result
  <2> HIDE DEF v
  <2> QED BY <1>1, <1>3, <1>4, <2>1, SaysDoes
<1>6. /\ \A t, x : Index(t, x) = Place(t, x)
      /\ \A t : Chars(t) = Range(t)
  BY DEF Index, Place, Chars, Range
<1>7. {base[i] : i \in mine.position + 1 .. EndOf(mine)} = Picked(mine, base)
  BY DEF Picked
<1>8. CASE mine.type = "insert"
  BY <1>5, <1>6, <1>8 DEF Does, IntentPreserved
<1>9. CASE mine.type = "delete"
  BY <1>5, <1>6, <1>7, <1>9 DEF Does, IntentPreserved, Thinned
<1> QED BY <1>2, <1>8, <1>9

\* An edit keeps its meaning however many others are applied before it, however
\* they overlap it: an insert comes in whole between the characters its author
\* saw, a delete takes out exactly those of the selected characters that are
\* left (transform_operations and the loop of apply_operation in handle_edit).
THEOREM IntentIsKept == LogSpec => []IntentPreserved
<1>1. LogSpec => []Carets
  BY AlwaysInv, CaretsInit, CaretsStep, PTL DEF LogSpec
<1>2. LogSpec => []Meant
  BY AlwaysInv, <1>1, MeantInit, MeantStep, PTL DEF LogSpec
<1> QED BY AlwaysInv, <1>1, <1>2, MeantIsKept, PTL
=============================================================================
