------------------------------ MODULE OTProofs ------------------------------
(***************************************************************************)
(* What the OT operators do to every text and every operation: the two     *)
(* orders in which a server may get two concurrent edits give one text     *)
(* (TransformConverges), and a caret that follows an edit stays inside the *)
(* text (CaretStaysInText).  Texts are compared character by character:    *)
(* the pointwise lemmas speak of lengths as numbers and of texts as maps   *)
(* from positions, which is what the SMT solver can decide.  The second    *)
(* half is about many operations: the loops as traces, a deletion as a     *)
(* list of pieces through a round of transform_operations (RoundOfPieces), *)
(* and what applying such a list leaves of a text (PiecesApplied).  The    *)
(* last part is about texts without repeated characters: what an edit      *)
(* means after a log it did not know (DoesThroughLog), and where carets go *)
(* (CaretAlong).                                                           *)
(***************************************************************************)
EXTENDS OT, WellFoundedInduction, FiniteSetTheorems, TLAPS

-----------------------------------------------------------------------------
(* Texts, character by character.                                          *)

\* The two ways an operation changes a text.
Insert(t, p, c) == UpTo(t, p) \o c \o From(t, p)
Delete(t, p, n) == UpTo(t, p) \o From(t, p + n)

\* r is t, of length n, with the k characters of c after its first p.
Inserted(r, t, n, p, c, k) ==
  \A i \in 1 .. n + k :
    /\ i <= p => r[i] = t[i]
    /\ p < i /\ i <= p + k => r[i] = c[i - p]
    /\ p + k < i => r[i] = t[i - k]

\* r is t, of length n, without the k characters after its first p.
Deleted(r, t, n, p, k) ==
  \A i \in 1 .. n - k :
    /\ i <= p => r[i] = t[i]
    /\ p < i => r[i] = t[i + k]

\* Texts of one length with the same character everywhere are one text.
LEMMA SameElements ==
  ASSUME NEW Char, NEW r \in Seq(Char), NEW s \in Seq(Char), Len(r) = Len(s),
         \A i \in 1 .. Len(r) : r[i] = s[i]
  PROVE  r = s
OBVIOUS

\* The characters of a concatenation.
LEMMA ConcatElements ==
  ASSUME NEW Char, NEW s \in Seq(Char), NEW u \in Seq(Char)
  PROVE  /\ s \o u \in Seq(Char) /\ Len(s \o u) = Len(s) + Len(u)
         /\ \A i \in 1 .. Len(s) + Len(u) :
              (s \o u)[i] = IF i <= Len(s) THEN s[i] ELSE u[i - Len(s)]
OBVIOUS

\* The characters of Python's text[:p].
LEMMA UpToElements ==
  ASSUME NEW Char, NEW t \in Seq(Char), NEW p \in Nat, p <= Len(t)
  PROVE  /\ UpTo(t, p) \in Seq(Char) /\ Len(UpTo(t, p)) = p
         /\ \A i \in 1 .. p : UpTo(t, p)[i] = t[i]
BY DEF UpTo, Lesser

\* The characters of Python's text[p:].
LEMMA FromElements ==
  ASSUME NEW Char, NEW t \in Seq(Char), NEW p \in Nat, p <= Len(t)
  PROVE  /\ From(t, p) \in Seq(Char) /\ Len(From(t, p)) = Len(t) - p
         /\ \A i \in 1 .. Len(t) - p : From(t, p)[i] = t[p + i]
BY DEF From, Lesser

\* text[:p] + c + text[p:]: its type, its length and its characters.
LEMMA InsertText ==
  ASSUME NEW Char, NEW t \in Seq(Char), NEW c \in Seq(Char), NEW p \in Nat, p <= Len(t)
  PROVE  /\ Insert(t, p, c) \in Seq(Char)
         /\ Len(Insert(t, p, c)) = Len(t) + Len(c)
         /\ Inserted(Insert(t, p, c), t, Len(t), p, c, Len(c))
<1> DEFINE n == Len(t)
           k == Len(c)
           l == UpTo(t, p)
           f == From(t, p)
           g == l \o c
           x == g \o f
<1>1. n \in Nat /\ k \in Nat /\ p \in Nat /\ p <= n
  OBVIOUS
<1>2. l \in Seq(Char) /\ Len(l) = p
  BY UpToElements
<1>3. \A i \in 1 .. p : l[i] = t[i]
  BY UpToElements
<1>4. f \in Seq(Char) /\ Len(f) = n - p
  BY FromElements
<1>5. \A i \in 1 .. n - p : f[i] = t[p + i]
  BY FromElements
<1>6. g \in Seq(Char) /\ Len(g) = p + k
  <2> HIDE DEF l
  <2> QED BY <1>2, ConcatElements
<1>7. \A i \in 1 .. p + k : /\ i <= p => g[i] = l[i]
                            /\ p < i => g[i] = c[i - p]
  <2> HIDE DEF l
  <2> QED BY <1>1, <1>2, ConcatElements
<1>8. x \in Seq(Char) /\ Len(x) = n + k
  <2>1. x \in Seq(Char) /\ Len(x) = Len(g) + Len(f)
    <3>1. g \in Seq(Char) /\ f \in Seq(Char)
      BY <1>4, <1>6
    <3> HIDE DEF g, f
    <3> QED BY <3>1, ConcatElements
  <2> HIDE DEF x, g, f, n, k
  <2> QED BY <1>1, <1>4, <1>6, <2>1
<1>9. \A i \in 1 .. n + k : /\ i <= p + k => x[i] = g[i]
                            /\ p + k < i => x[i] = f[i - (p + k)]
  <2>1. \A i \in 1 .. Len(g) + Len(f) : x[i] = IF i <= Len(g) THEN g[i] ELSE f[i - Len(g)]
    <3>1. g \in Seq(Char) /\ f \in Seq(Char)
      BY <1>4, <1>6
    <3> HIDE DEF g, f
    <3> QED BY <3>1, ConcatElements
  <2> HIDE DEF x, g, f, n, k
  <2>2. Len(g) = p + k /\ Len(g) + Len(f) = n + k
    BY <1>1, <1>4, <1>6
  <2>3. \A i \in 1 .. n + k : x[i] = IF i <= p + k THEN g[i] ELSE f[i - (p + k)]
    BY ONLY <2>1, <2>2
  <2> QED BY ONLY <1>1, <2>3
<1> HIDE DEF n, k, l, f, g, x
<1>10. Inserted(x, t, n, p, c, k)
  BY ONLY <1>1, <1>3, <1>5, <1>7, <1>9 DEF Inserted
<1> QED BY <1>8, <1>10 DEF n, k, x, g, l, f, Insert

\* text[:p] + text[p + k:]: its type, its length and its characters.
LEMMA DeleteText ==
  ASSUME NEW Char, NEW t \in Seq(Char), NEW p \in Nat, NEW k \in Nat, p + k <= Len(t)
  PROVE  /\ Delete(t, p, k) \in Seq(Char)
         /\ Len(Delete(t, p, k)) = Len(t) - k
         /\ Deleted(Delete(t, p, k), t, Len(t), p, k)
<1> DEFINE n == Len(t)
           e == p + k
           l == UpTo(t, p)
           f == From(t, e)
           x == l \o f
<1>1. n \in Nat /\ k \in Nat /\ p \in Nat /\ p + k <= n /\ e = p + k /\ e \in Nat
  OBVIOUS
<1>2. l \in Seq(Char) /\ Len(l) = p
  BY <1>1, UpToElements
<1>3. \A i \in 1 .. p : l[i] = t[i]
  <2>1. p <= Len(t)
    BY <1>1
  <2> QED BY <2>1, UpToElements
<1> HIDE DEF e
<1>4. f \in Seq(Char) /\ Len(f) = n - e
  BY <1>1, FromElements
<1>5. \A i \in 1 .. n - e : f[i] = t[e + i]
  BY <1>1, FromElements
<1>6. x \in Seq(Char) /\ Len(x) = Len(l) + Len(f)
  <2>1. l \in Seq(Char) /\ f \in Seq(Char)
    BY <1>2, <1>4
  <2> HIDE DEF l, f
  <2> QED BY <2>1, ConcatElements
<1>7. \A i \in 1 .. Len(l) + Len(f) : x[i] = IF i <= Len(l) THEN l[i] ELSE f[i - Len(l)]
  <2>1. l \in Seq(Char) /\ f \in Seq(Char)
    BY <1>2, <1>4
  <2> HIDE DEF l, f
  <2> QED BY <2>1, ConcatElements
<1>8. x \in Seq(Char) /\ Len(x) = n - k
  <2> HIDE DEF x, l, f, n
  <2> QED BY <1>1, <1>2, <1>4, <1>6
<1>9. \A i \in 1 .. n - k : /\ i <= p => x[i] = l[i]
                            /\ p < i => x[i] = f[i - p]
  <2> HIDE DEF x, l, f, n
  <2>1. Len(l) = p /\ Len(l) + Len(f) = n - k
    BY <1>1, <1>2, <1>4
  <2> QED BY <1>1, <1>7, <2>1
<1> HIDE DEF n, l, f, x
<1>10. Deleted(x, t, n, p, k)
  <2> SUFFICES ASSUME NEW i \in 1 .. n - k
               PROVE  (i <= p => x[i] = t[i]) /\ (p < i => x[i] = t[i + k])
    BY DEF Deleted
  <2>1. CASE i <= p
    BY ONLY <1>1, <1>3, <1>9, i \in 1 .. n - k, <2>1
  <2>2. CASE p < i
    <3>1. x[i] = f[i - p]
      BY ONLY <1>9, i \in 1 .. n - k, <2>2
    <3>2. i - p \in 1 .. n - e /\ e + (i - p) = i + k
      BY ONLY <1>1, i \in 1 .. n - k, <2>2
    <3>3. f[i - p] = t[e + (i - p)]
      BY ONLY <1>5, <3>2
    <3> QED BY ONLY <1>1, i \in 1 .. n - k, <2>2, <3>1, <3>2, <3>3
  <2> QED BY <1>1, <2>1, <2>2
<1> QED BY <1>8, <1>10 DEF n, x, l, f, e, Delete

\* Two inserts, the left one first or second.
LEMMA InsertsCommute ==
  ASSUME NEW Char, NEW t \in Seq(Char), NEW c \in Seq(Char), NEW d \in Seq(Char),
         NEW p \in Nat, NEW q \in Nat, p <= q, q <= Len(t)
  PROVE  Insert(Insert(t, p, c), q + Len(c), d)
           = Insert(Insert(t, q, d), p, c)
<1> DEFINE n == Len(t)
           k == Len(c)
           l == Len(d)
           tp == Insert(t, p, c)
           tq == Insert(t, q, d)
           x == Insert(tp, q + k, d)
           y == Insert(tq, p, c)
<1>1. n \in Nat /\ k \in Nat /\ l \in Nat /\ p \in Nat /\ q \in Nat /\ p <= q /\ q <= n
  OBVIOUS
<1>2. /\ tp \in Seq(Char) /\ Len(tp) = n + k
      /\ Inserted(tp, t, n, p, c, k)
  <2>1. p \in Nat /\ p <= n
    BY <1>1
  <2> QED BY <2>1, InsertText
<1>3. Len(tp) = n + k
  BY <1>2
<1>4. Inserted(tp, t, n, p, c, k)
  BY <1>2
<1>5. /\ tq \in Seq(Char) /\ Len(tq) = n + l
      /\ Inserted(tq, t, n, q, d, l)
  <2>1. q \in Nat /\ q <= n
    BY <1>1
  <2> QED BY <2>1, InsertText
<1>6. Len(tq) = n + l
  BY <1>5
<1>7. Inserted(tq, t, n, q, d, l)
  BY <1>5
<1>8. /\ x \in Seq(Char) /\ Len(x) = Len(tp) + l
      /\ Inserted(x, tp, Len(tp), q + k, d, l)
  <2>1. q + k \in Nat /\ q + k <= Len(tp)
    BY <1>1, <1>3
  <2> HIDE DEF tp
  <2> QED BY <1>2, <2>1, InsertText
<1>9. Len(x) = n + k + l
  BY <1>1, <1>8, <1>3
<1>10. Inserted(x, tp, n + k, q + k, d, l)
  BY <1>8, <1>3
<1>11. /\ y \in Seq(Char) /\ Len(y) = Len(tq) + k
      /\ Inserted(y, tq, Len(tq), p, c, k)
  <2>1. p \in Nat /\ p <= Len(tq)
    BY <1>1, <1>6
  <2> HIDE DEF tq
  <2> QED BY <1>5, <2>1, InsertText
<1>12. Len(y) = n + l + k
  BY <1>1, <1>11, <1>6
<1>13. Inserted(y, tq, n + l, p, c, k)
  BY <1>11, <1>6
<1> HIDE DEF n, k, l, tp, tq, x, y
<1>14. \A i \in 1 .. n + k + l : x[i] = y[i]
  BY ONLY <1>1, <1>4, <1>7, <1>10, <1>13 DEF Inserted
<1>15. Len(x) = n + k + l /\ Len(y) = n + k + l
  BY <1>1, <1>9, <1>12
<1>16. x = y
  BY <1>8, <1>11, <1>14, <1>15, SameElements
<1> QED BY <1>16 DEF n, k, l, tp, tq, x, y

\* An insert left of a deleted run.
LEMMA InsertBeforeDelete ==
  ASSUME NEW Char, NEW t \in Seq(Char), NEW c \in Seq(Char),
         NEW p \in Nat, NEW q \in Nat, NEW m \in Nat, p <= q, q + m <= Len(t)
  PROVE  Delete(Insert(t, p, c), q + Len(c), m)
           = Insert(Delete(t, q, m), p, c)
<1> DEFINE n == Len(t)
           k == Len(c)
           tp == Insert(t, p, c)
           tq == Delete(t, q, m)
           x == Delete(tp, q + k, m)
           y == Insert(tq, p, c)
<1>1. n \in Nat /\ k \in Nat /\ m \in Nat /\ p \in Nat /\ q \in Nat /\ p <= q /\ q + m <= n
  OBVIOUS
<1>2. /\ tp \in Seq(Char) /\ Len(tp) = n + k
      /\ Inserted(tp, t, n, p, c, k)
  <2>1. p \in Nat /\ p <= n
    BY <1>1
  <2> QED BY <2>1, InsertText
<1>3. Len(tp) = n + k
  BY <1>2
<1>4. Inserted(tp, t, n, p, c, k)
  BY <1>2
<1>5. /\ tq \in Seq(Char) /\ Len(tq) = n - m
      /\ Deleted(tq, t, n, q, m)
  <2>1. q \in Nat /\ m \in Nat /\ q + m <= n
    BY <1>1
  <2> QED BY <2>1, DeleteText
<1>6. Len(tq) = n - m
  BY <1>5
<1>7. Deleted(tq, t, n, q, m)
  BY <1>5
<1>8. /\ x \in Seq(Char) /\ Len(x) = Len(tp) - m
      /\ Deleted(x, tp, Len(tp), q + k, m)
  <2>1. q + k \in Nat /\ m \in Nat /\ (q + k) + m <= Len(tp)
    BY <1>1, <1>3
  <2> HIDE DEF tp
  <2> QED BY <1>2, <2>1, DeleteText
<1>9. Len(x) = (n + k) - m
  BY <1>1, <1>8, <1>3
<1>10. Deleted(x, tp, n + k, q + k, m)
  BY <1>8, <1>3
<1>11. /\ y \in Seq(Char) /\ Len(y) = Len(tq) + k
      /\ Inserted(y, tq, Len(tq), p, c, k)
  <2>1. p \in Nat /\ p <= Len(tq)
    BY <1>1, <1>6
  <2> HIDE DEF tq
  <2> QED BY <1>5, <2>1, InsertText
<1>12. Len(y) = (n - m) + k
  BY <1>1, <1>11, <1>6
<1>13. Inserted(y, tq, n - m, p, c, k)
  BY <1>11, <1>6
<1> HIDE DEF n, k, tp, tq, x, y
<1>14. \A i \in 1 .. (n + k) - m : x[i] = y[i]
  <2> SUFFICES ASSUME NEW i \in 1 .. (n + k) - m PROVE x[i] = y[i]
    OBVIOUS
  <2>1. CASE i <= p
    <3>1. x[i] = tp[i]
      BY ONLY <1>1, <1>10, i \in 1 .. (n + k) - m, <2>1 DEF Deleted
    <3>2. tp[i] = t[i]
      BY ONLY <1>1, <1>4, i \in 1 .. (n + k) - m, <2>1 DEF Inserted
    <3>3. y[i] = tq[i]
      BY ONLY <1>1, <1>13, i \in 1 .. (n + k) - m, <2>1 DEF Inserted
    <3>4. tq[i] = t[i]
      BY ONLY <1>1, <1>7, i \in 1 .. (n + k) - m, <2>1 DEF Deleted
    <3> QED BY ONLY <3>1, <3>2, <3>3, <3>4
  <2>2. CASE p < i /\ i <= p + k
    <3>1. x[i] = tp[i]
      BY ONLY <1>1, <1>10, i \in 1 .. (n + k) - m, <2>2 DEF Deleted
    <3>2. tp[i] = c[i - p]
      BY ONLY <1>1, <1>4, i \in 1 .. (n + k) - m, <2>2 DEF Inserted
    <3>3. y[i] = c[i - p]
      BY ONLY <1>1, <1>13, i \in 1 .. (n + k) - m, <2>2 DEF Inserted
    <3> QED BY ONLY <3>1, <3>2, <3>3
  <2>3. CASE p + k < i /\ i <= q + k
    <3>1. x[i] = tp[i]
      BY ONLY <1>1, <1>10, i \in 1 .. (n + k) - m, <2>3 DEF Deleted
    <3>2. tp[i] = t[i - k]
      BY ONLY <1>1, <1>4, i \in 1 .. (n + k) - m, <2>3 DEF Inserted
    <3>3. y[i] = tq[i - k]
      <4>1. i \in 1 .. (n - m) + k /\ p + k < i
        BY ONLY <1>1, i \in 1 .. (n + k) - m, <2>3
      <4> QED BY ONLY <1>13, <4>1 DEF Inserted
    <3>4. tq[i - k] = t[i - k]
      <4>1. i - k \in 1 .. n - m /\ i - k <= q
        BY ONLY <1>1, i \in 1 .. (n + k) - m, <2>3
      <4> QED BY ONLY <1>7, <4>1 DEF Deleted
    <3> QED BY ONLY <3>1, <3>2, <3>3, <3>4
  <2>4. CASE q + k < i
    <3>1. x[i] = tp[i + m]
      <4>1. i \in 1 .. (n + k) - m /\ q + k < i
        BY ONLY i \in 1 .. (n + k) - m, <2>4
      <4> QED BY ONLY <1>10, <4>1 DEF Deleted
    <3>2. tp[i + m] = t[(i + m) - k]
      <4>1. i + m \in 1 .. n + k /\ p + k < i + m
        BY ONLY <1>1, i \in 1 .. (n + k) - m, <2>4
      <4> QED BY ONLY <1>4, <4>1 DEF Inserted
    <3>3. y[i] = tq[i - k]
      <4>1. i \in 1 .. (n - m) + k /\ p + k < i
        BY ONLY <1>1, i \in 1 .. (n + k) - m, <2>4
      <4> QED BY ONLY <1>13, <4>1 DEF Inserted
    <3>4. tq[i - k] = t[(i - k) + m]
      <4>1. i - k \in 1 .. n - m /\ q < i - k
        BY ONLY <1>1, i \in 1 .. (n + k) - m, <2>4
      <4> QED BY ONLY <1>7, <4>1 DEF Deleted
    <3> QED BY ONLY <1>1, i \in 1 .. (n + k) - m, <3>1, <3>2, <3>3, <3>4
  <2> QED BY <1>1, <2>1, <2>2, <2>3, <2>4
<1>15. Len(x) = (n + k) - m /\ Len(y) = (n + k) - m
  BY <1>1, <1>9, <1>12
<1>16. x = y
  BY <1>8, <1>11, <1>14, <1>15, SameElements
<1> QED BY <1>16 DEF n, k, tp, tq, x, y

\* An insert right of a deleted run.
LEMMA InsertAfterDelete ==
  ASSUME NEW Char, NEW t \in Seq(Char), NEW c \in Seq(Char),
         NEW p \in Nat, NEW q \in Nat, NEW m \in Nat, q + m <= p, p <= Len(t)
  PROVE  Delete(Insert(t, p, c), q, m)
           = Insert(Delete(t, q, m), p - m, c)
<1> DEFINE n == Len(t)
           k == Len(c)
           tp == Insert(t, p, c)
           tq == Delete(t, q, m)
           x == Delete(tp, q, m)
           y == Insert(tq, p - m, c)
<1>1. n \in Nat /\ k \in Nat /\ m \in Nat /\ p \in Nat /\ q \in Nat /\ q + m <= p /\ p <= n
  OBVIOUS
<1>2. /\ tp \in Seq(Char) /\ Len(tp) = n + k
      /\ Inserted(tp, t, n, p, c, k)
  <2>1. p \in Nat /\ p <= n
    BY <1>1
  <2> QED BY <2>1, InsertText
<1>3. Len(tp) = n + k
  BY <1>2
<1>4. Inserted(tp, t, n, p, c, k)
  BY <1>2
<1>5. /\ tq \in Seq(Char) /\ Len(tq) = n - m
      /\ Deleted(tq, t, n, q, m)
  <2>1. q \in Nat /\ m \in Nat /\ q + m <= n
    BY <1>1
  <2> QED BY <2>1, DeleteText
<1>6. Len(tq) = n - m
  BY <1>5
<1>7. Deleted(tq, t, n, q, m)
  BY <1>5
<1>8. /\ x \in Seq(Char) /\ Len(x) = Len(tp) - m
      /\ Deleted(x, tp, Len(tp), q, m)
  <2>1. q \in Nat /\ m \in Nat /\ q + m <= Len(tp)
    BY <1>1, <1>3
  <2> HIDE DEF tp
  <2> QED BY <1>2, <2>1, DeleteText
<1>9. Len(x) = (n + k) - m
  BY <1>1, <1>8, <1>3
<1>10. Deleted(x, tp, n + k, q, m)
  BY <1>8, <1>3
<1>11. /\ y \in Seq(Char) /\ Len(y) = Len(tq) + k
      /\ Inserted(y, tq, Len(tq), p - m, c, k)
  <2>1. p - m \in Nat /\ p - m <= Len(tq)
    BY <1>1, <1>6
  <2> HIDE DEF tq
  <2> QED BY <1>5, <2>1, InsertText
<1>12. Len(y) = (n - m) + k
  BY <1>1, <1>11, <1>6
<1>13. Inserted(y, tq, n - m, p - m, c, k)
  BY <1>11, <1>6
<1> HIDE DEF n, k, tp, tq, x, y
<1>14. \A i \in 1 .. (n + k) - m : x[i] = y[i]
  <2> SUFFICES ASSUME NEW i \in 1 .. (n + k) - m PROVE x[i] = y[i]
    OBVIOUS
  <2>1. CASE i <= q
    <3>1. x[i] = tp[i]
      <4>1. i \in 1 .. (n + k) - m /\ i <= q
        BY ONLY <1>1, i \in 1 .. (n + k) - m, <2>1
      <4> QED BY ONLY <1>10, <4>1 DEF Deleted
    <3>2. tp[i] = t[i]
      <4>1. i \in 1 .. n + k /\ i <= p
        BY ONLY <1>1, i \in 1 .. (n + k) - m, <2>1
      <4> QED BY ONLY <1>4, <4>1 DEF Inserted
    <3>3. y[i] = tq[i]
      <4>1. i \in 1 .. (n - m) + k /\ i <= p - m
        BY ONLY <1>1, i \in 1 .. (n + k) - m, <2>1
      <4> QED BY ONLY <1>13, <4>1 DEF Inserted
    <3>4. tq[i] = t[i]
      <4>1. i \in 1 .. n - m /\ i <= q
        BY ONLY <1>1, i \in 1 .. (n + k) - m, <2>1
      <4> QED BY ONLY <1>7, <4>1 DEF Deleted
    <3> QED BY ONLY <3>1, <3>2, <3>3, <3>4
  <2>2. CASE q < i /\ i <= p - m
    <3>1. x[i] = tp[i + m]
      <4>1. i \in 1 .. (n + k) - m /\ q < i
        BY ONLY <1>1, i \in 1 .. (n + k) - m, <2>2
      <4> QED BY ONLY <1>10, <4>1 DEF Deleted
    <3>2. tp[i + m] = t[i + m]
      <4>1. i + m \in 1 .. n + k /\ i + m <= p
        BY ONLY <1>1, i \in 1 .. (n + k) - m, <2>2
      <4> QED BY ONLY <1>4, <4>1 DEF Inserted
    <3>3. y[i] = tq[i]
      <4>1. i \in 1 .. (n - m) + k /\ i <= p - m
        BY ONLY <1>1, i \in 1 .. (n + k) - m, <2>2
      <4> QED BY ONLY <1>13, <4>1 DEF Inserted
    <3>4. tq[i] = t[i + m]
      <4>1. i \in 1 .. n - m /\ q < i
        BY ONLY <1>1, i \in 1 .. (n + k) - m, <2>2
      <4> QED BY ONLY <1>7, <4>1 DEF Deleted
    <3> QED BY ONLY <3>1, <3>2, <3>3, <3>4
  <2>3. CASE p - m < i /\ i <= (p - m) + k
    <3>1. x[i] = tp[i + m]
      <4>1. i \in 1 .. (n + k) - m /\ q < i
        BY ONLY <1>1, i \in 1 .. (n + k) - m, <2>3
      <4> QED BY ONLY <1>10, <4>1 DEF Deleted
    <3>2. tp[i + m] = c[(i + m) - p]
      <4>1. i + m \in 1 .. n + k /\ p < i + m /\ i + m <= p + k
        BY ONLY <1>1, i \in 1 .. (n + k) - m, <2>3
      <4> QED BY ONLY <1>4, <4>1 DEF Inserted
    <3>3. y[i] = c[i - (p - m)]
      <4>1. /\ i \in 1 .. (n - m) + k
            /\ p - m < i /\ i <= (p - m) + k
        BY ONLY <1>1, i \in 1 .. (n + k) - m, <2>3
      <4> QED BY ONLY <1>13, <4>1 DEF Inserted
    <3>4. (i + m) - p = i - (p - m)
      BY ONLY <1>1, i \in 1 .. (n + k) - m
    <3> QED BY ONLY <3>1, <3>2, <3>3, <3>4
  <2>4. CASE (p - m) + k < i
    <3>1. x[i] = tp[i + m]
      <4>1. i \in 1 .. (n + k) - m /\ q < i
        BY ONLY <1>1, i \in 1 .. (n + k) - m, <2>4
      <4> QED BY ONLY <1>10, <4>1 DEF Deleted
    <3>2. tp[i + m] = t[(i + m) - k]
      <4>1. i + m \in 1 .. n + k /\ p + k < i + m
        BY ONLY <1>1, i \in 1 .. (n + k) - m, <2>4
      <4> QED BY ONLY <1>4, <4>1 DEF Inserted
    <3>3. y[i] = tq[i - k]
      <4>1. i \in 1 .. (n - m) + k /\ (p - m) + k < i
        BY ONLY <1>1, i \in 1 .. (n + k) - m, <2>4
      <4> QED BY ONLY <1>13, <4>1 DEF Inserted
    <3>4. tq[i - k] = t[(i - k) + m]
      <4>1. i - k \in 1 .. n - m /\ q < i - k
        BY ONLY <1>1, i \in 1 .. (n + k) - m, <2>4
      <4> QED BY ONLY <1>7, <4>1 DEF Deleted
    <3>5. (i + m) - k = (i - k) + m
      BY ONLY <1>1, i \in 1 .. (n + k) - m
    <3> QED BY ONLY <3>1, <3>2, <3>3, <3>4, <3>5
  <2> QED BY <1>1, <2>1, <2>2, <2>3, <2>4
<1>15. Len(x) = (n + k) - m /\ Len(y) = (n + k) - m
  BY <1>1, <1>9, <1>12
<1>16. x = y
  BY <1>8, <1>11, <1>14, <1>15, SameElements
<1> QED BY <1>16 DEF n, k, tp, tq, x, y

\* An insert inside a deleted run: the delete is split, right half first.
LEMMA InsertInsideDelete ==
  ASSUME NEW Char, NEW t \in Seq(Char), NEW c \in Seq(Char),
         NEW p \in Nat, NEW q \in Nat, NEW m \in Nat, q <= p, p <= q + m, q + m <= Len(t)
  PROVE  Delete(Delete(Insert(t, p, c), p + Len(c), (q + m) - p), q, p - q)
           = Insert(Delete(t, q, m), q, c)
<1> DEFINE n == Len(t)
           k == Len(c)
           tp == Insert(t, p, c)
           tq == Delete(t, q, m)
           z == Delete(tp, p + k, (q + m) - p)
           x == Delete(z, q, p - q)
           y == Insert(tq, q, c)
<1>1. /\ n \in Nat /\ k \in Nat /\ m \in Nat /\ p \in Nat /\ q \in Nat
      /\ q <= p /\ p <= q + m /\ q + m <= n
  OBVIOUS
<1>2. /\ tp \in Seq(Char) /\ Len(tp) = n + k
      /\ Inserted(tp, t, n, p, c, k)
  <2>1. p \in Nat /\ p <= n
    BY <1>1
  <2> QED BY <2>1, InsertText
<1>3. Len(tp) = n + k
  BY <1>2
<1>4. Inserted(tp, t, n, p, c, k)
  BY <1>2
<1>5. /\ tq \in Seq(Char) /\ Len(tq) = n - m
      /\ Deleted(tq, t, n, q, m)
  <2>1. q \in Nat /\ m \in Nat /\ q + m <= n
    BY <1>1
  <2> QED BY <2>1, DeleteText
<1>6. Len(tq) = n - m
  BY <1>5
<1>7. Deleted(tq, t, n, q, m)
  BY <1>5
<1>8. /\ z \in Seq(Char) /\ Len(z) = Len(tp) - ((q + m) - p)
      /\ Deleted(z, tp, Len(tp), p + k, (q + m) - p)
  <2>1. p + k \in Nat /\ (q + m) - p \in Nat /\ (p + k) + ((q + m) - p) <= Len(tp)
    BY <1>1, <1>3
  <2> HIDE DEF tp
  <2> QED BY <1>2, <2>1, DeleteText
<1>9. Len(z) = (n + k) - ((q + m) - p)
  BY <1>1, <1>8, <1>3
<1>10. Deleted(z, tp, n + k, p + k, (q + m) - p)
  BY <1>8, <1>3
<1>11. /\ x \in Seq(Char) /\ Len(x) = Len(z) - (p - q)
      /\ Deleted(x, z, Len(z), q, p - q)
  <2>1. q \in Nat /\ p - q \in Nat /\ q + (p - q) <= Len(z)
    BY <1>1, <1>9
  <2> HIDE DEF z
  <2> QED BY <1>8, <2>1, DeleteText
<1>12. Len(x) = (n + k) - m
  <2> HIDE DEF x, z, n, k
  <2> QED BY <1>1, <1>11, <1>9
<1>13. Deleted(x, z, (n + k) - ((q + m) - p), q, p - q)
  BY <1>11, <1>9
<1>14. /\ y \in Seq(Char) /\ Len(y) = Len(tq) + k
      /\ Inserted(y, tq, Len(tq), q, c, k)
  <2>1. q \in Nat /\ q <= Len(tq)
    BY <1>1, <1>6
  <2> HIDE DEF tq
  <2> QED BY <1>5, <2>1, InsertText
<1>15. Len(y) = (n - m) + k
  BY <1>1, <1>14, <1>6
<1>16. Inserted(y, tq, n - m, q, c, k)
  BY <1>14, <1>6
<1> HIDE DEF n, k, tp, tq, z, x, y
<1>17. \A i \in 1 .. (n + k) - m : x[i] = y[i]
  <2> SUFFICES ASSUME NEW i \in 1 .. (n + k) - m PROVE x[i] = y[i]
    OBVIOUS
  <2>1. CASE i <= q
    <3>1. x[i] = z[i]
      BY ONLY <1>1, <1>13, i \in 1 .. (n + k) - m, <2>1 DEF Deleted
    <3>2. z[i] = tp[i]
      BY ONLY <1>1, <1>10, i \in 1 .. (n + k) - m, <2>1 DEF Deleted
    <3>3. tp[i] = t[i]
      BY ONLY <1>1, <1>4, i \in 1 .. (n + k) - m, <2>1 DEF Inserted
    <3>4. y[i] = tq[i] /\ tq[i] = t[i]
      BY ONLY <1>1, <1>7, <1>16, i \in 1 .. (n + k) - m, <2>1 DEF Inserted, Deleted
    <3> QED BY ONLY <3>1, <3>2, <3>3, <3>4
  <2>2. CASE q < i /\ i <= q + k
    <3>1. x[i] = z[i + (p - q)]
      BY ONLY <1>1, <1>13, i \in 1 .. (n + k) - m, <2>2 DEF Deleted
    <3>2. z[i + (p - q)] = tp[i + (p - q)]
      BY ONLY <1>1, <1>10, i \in 1 .. (n + k) - m, <2>2 DEF Deleted
    <3>3. tp[i + (p - q)] = c[(i + (p - q)) - p]
      BY ONLY <1>1, <1>4, i \in 1 .. (n + k) - m, <2>2 DEF Inserted
    <3>4. y[i] = c[i - q]
      BY ONLY <1>1, <1>16, i \in 1 .. (n + k) - m, <2>2 DEF Inserted
    <3> QED BY ONLY <1>1, i \in 1 .. (n + k) - m, <3>1, <3>2, <3>3, <3>4
  <2>3. CASE q + k < i
    <3>1. x[i] = z[i + (p - q)]
      BY ONLY <1>1, <1>13, i \in 1 .. (n + k) - m, <2>3 DEF Deleted
    <3>2. z[i + (p - q)] = tp[(i + (p - q)) + ((q + m) - p)]
      <4>1. /\ i + (p - q) \in 1 .. (n + k) - ((q + m) - p)
            /\ p + k < i + (p - q)
        BY ONLY <1>1, i \in 1 .. (n + k) - m, <2>3
      <4> QED BY ONLY <1>10, <4>1 DEF Deleted
    <3>3. (i + (p - q)) + ((q + m) - p) = i + m
      BY ONLY <1>1, i \in 1 .. (n + k) - m
    <3>4. tp[i + m] = t[(i + m) - k]
      <4>1. i + m \in 1 .. n + k /\ p + k < i + m
        BY ONLY <1>1, i \in 1 .. (n + k) - m, <2>3
      <4> QED BY ONLY <1>4, <4>1 DEF Inserted
    <3>5. y[i] = tq[i - k]
      BY ONLY <1>1, <1>16, i \in 1 .. (n + k) - m, <2>3 DEF Inserted
    <3>6. tq[i - k] = t[(i - k) + m]
      <4>1. i - k \in 1 .. n - m /\ q < i - k
        BY ONLY <1>1, i \in 1 .. (n + k) - m, <2>3
      <4> QED BY ONLY <1>7, <4>1 DEF Deleted
    <3> QED BY ONLY <1>1, i \in 1 .. (n + k) - m, <3>1, <3>2, <3>3, <3>4, <3>5, <3>6
  <2> QED BY <1>1, <2>1, <2>2, <2>3
<1>18. Len(x) = (n + k) - m /\ Len(y) = (n + k) - m
  BY <1>1, <1>12, <1>15
<1>19. x = y
  BY <1>11, <1>14, <1>17, <1>18, SameElements
<1> QED BY <1>19 DEF n, k, tp, tq, z, x, y

\* Two deleted runs that do not meet.
LEMMA DeletesApart ==
  ASSUME NEW Char, NEW t \in Seq(Char), NEW p \in Nat, NEW q \in Nat, NEW l \in Nat, NEW m \in Nat,
         p + l <= q, q + m <= Len(t)
  PROVE  Delete(Delete(t, p, l), q - l, m)
           = Delete(Delete(t, q, m), p, l)
<1> DEFINE n == Len(t)
           tp == Delete(t, p, l)
           tq == Delete(t, q, m)
           x == Delete(tp, q - l, m)
           y == Delete(tq, p, l)
<1>1. /\ n \in Nat /\ l \in Nat /\ m \in Nat /\ p \in Nat /\ q \in Nat
      /\ p + l <= q /\ q + m <= n
  OBVIOUS
<1>2. /\ tp \in Seq(Char) /\ Len(tp) = n - l
      /\ Deleted(tp, t, n, p, l)
  <2>1. p \in Nat /\ l \in Nat /\ p + l <= n
    BY <1>1
  <2> QED BY <2>1, DeleteText
<1>3. Len(tp) = n - l
  BY <1>2
<1>4. Deleted(tp, t, n, p, l)
  BY <1>2
<1>5. /\ tq \in Seq(Char) /\ Len(tq) = n - m
      /\ Deleted(tq, t, n, q, m)
  <2>1. q \in Nat /\ m \in Nat /\ q + m <= n
    BY <1>1
  <2> QED BY <2>1, DeleteText
<1>6. Len(tq) = n - m
  BY <1>5
<1>7. Deleted(tq, t, n, q, m)
  BY <1>5
<1>8. /\ x \in Seq(Char) /\ Len(x) = Len(tp) - m
      /\ Deleted(x, tp, Len(tp), q - l, m)
  <2>1. q - l \in Nat /\ m \in Nat /\ (q - l) + m <= Len(tp)
    BY <1>1, <1>3
  <2> HIDE DEF tp
  <2> QED BY <1>2, <2>1, DeleteText
<1>9. Len(x) = (n - l) - m
  BY <1>1, <1>8, <1>3
<1>10. Deleted(x, tp, n - l, q - l, m)
  BY <1>8, <1>3
<1>11. /\ y \in Seq(Char) /\ Len(y) = Len(tq) - l
      /\ Deleted(y, tq, Len(tq), p, l)
  <2>1. p \in Nat /\ l \in Nat /\ p + l <= Len(tq)
    BY <1>1, <1>6
  <2> HIDE DEF tq
  <2> QED BY <1>5, <2>1, DeleteText
<1>12. Len(y) = (n - m) - l
  BY <1>1, <1>11, <1>6
<1>13. Deleted(y, tq, n - m, p, l)
  BY <1>11, <1>6
<1> HIDE DEF n, tp, tq, x, y
<1>14. \A i \in 1 .. (n - l) - m : x[i] = y[i]
  <2> SUFFICES ASSUME NEW i \in 1 .. (n - l) - m PROVE x[i] = y[i]
    OBVIOUS
  <2>1. CASE i <= p
    BY ONLY <1>1, <1>4, <1>7, <1>10, <1>13, i \in 1 .. (n - l) - m, <2>1 DEF Deleted
  <2>2. CASE p < i /\ i <= q - l
    BY ONLY <1>1, <1>4, <1>7, <1>10, <1>13, i \in 1 .. (n - l) - m, <2>2 DEF Deleted
  <2>3. CASE q - l < i
    BY ONLY <1>1, <1>4, <1>7, <1>10, <1>13, i \in 1 .. (n - l) - m, <2>3 DEF Deleted
  <2> QED BY <1>1, <2>1, <2>2, <2>3
<1>15. Len(x) = (n - l) - m /\ Len(y) = (n - l) - m
  BY <1>1, <1>9, <1>12
<1>16. x = y
  BY <1>8, <1>11, <1>14, <1>15, SameElements
<1> QED BY <1>16 DEF n, tp, tq, x, y

\* Two deleted runs that overlap, each deleting some the other does not.
LEMMA DeletesOverlap ==
  ASSUME NEW Char, NEW t \in Seq(Char), NEW p \in Nat, NEW q \in Nat, NEW l \in Nat, NEW m \in Nat,
         p <= q, q <= p + l, p + l <= q + m, q + m <= Len(t)
  PROVE  Delete(Delete(t, p, l), p, (q + m) - (p + l))
           = Delete(Delete(t, q, m), p, q - p)
<1> DEFINE n == Len(t)
           tp == Delete(t, p, l)
           tq == Delete(t, q, m)
           x == Delete(tp, p, (q + m) - (p + l))
           y == Delete(tq, p, q - p)
<1>1. /\ n \in Nat /\ l \in Nat /\ m \in Nat /\ p \in Nat /\ q \in Nat
      /\ p <= q /\ q <= p + l /\ p + l <= q + m /\ q + m <= n
  OBVIOUS
<1>2. /\ tp \in Seq(Char) /\ Len(tp) = n - l
      /\ Deleted(tp, t, n, p, l)
  <2>1. p \in Nat /\ l \in Nat /\ p + l <= n
    BY <1>1
  <2> QED BY <2>1, DeleteText
<1>3. Len(tp) = n - l
  BY <1>2
<1>4. Deleted(tp, t, n, p, l)
  BY <1>2
<1>5. /\ tq \in Seq(Char) /\ Len(tq) = n - m
      /\ Deleted(tq, t, n, q, m)
  <2>1. q \in Nat /\ m \in Nat /\ q + m <= n
    BY <1>1
  <2> QED BY <2>1, DeleteText
<1>6. Len(tq) = n - m
  BY <1>5
<1>7. Deleted(tq, t, n, q, m)
  BY <1>5
<1>8. /\ x \in Seq(Char) /\ Len(x) = Len(tp) - ((q + m) - (p + l))
      /\ Deleted(x, tp, Len(tp), p, (q + m) - (p + l))
  <2> DEFINE r == (q + m) - (p + l)
  <2>1. p \in Nat /\ r \in Nat /\ p + r <= Len(tp) /\ tp \in Seq(Char)
    BY <1>1, <1>2, <1>3
  <2> HIDE DEF tp, r
  <2>2. /\ Delete(tp, p, r) \in Seq(Char) /\ Len(Delete(tp, p, r)) = Len(tp) - r
        /\ Deleted(Delete(tp, p, r), tp, Len(tp), p, r)
    BY <2>1, DeleteText
  <2> QED BY <2>2 DEF r
<1>9. Len(x) = n - ((q + m) - p)
  BY <1>1, <1>8, <1>3
<1>10. Deleted(x, tp, n - l, p, (q + m) - (p + l))
  BY <1>8, <1>3
<1>11. /\ y \in Seq(Char) /\ Len(y) = Len(tq) - (q - p)
      /\ Deleted(y, tq, Len(tq), p, q - p)
  <2> DEFINE r == q - p
  <2>1. p \in Nat /\ r \in Nat /\ p + r <= Len(tq) /\ tq \in Seq(Char)
    BY <1>1, <1>5, <1>6
  <2> HIDE DEF tq, r
  <2>2. /\ Delete(tq, p, r) \in Seq(Char) /\ Len(Delete(tq, p, r)) = Len(tq) - r
        /\ Deleted(Delete(tq, p, r), tq, Len(tq), p, r)
    BY <2>1, DeleteText
  <2> QED BY <2>2 DEF r
<1>12. Len(y) = n - ((q + m) - p)
  BY <1>1, <1>11, <1>6
<1>13. Deleted(y, tq, n - m, p, q - p)
  BY <1>11, <1>6
<1> HIDE DEF n, tp, tq, x, y
<1>14. \A i \in 1 .. n - ((q + m) - p) : x[i] = y[i]
  <2> SUFFICES ASSUME NEW i \in 1 .. n - ((q + m) - p) PROVE x[i] = y[i]
    OBVIOUS
  <2>1. CASE i <= p
    BY ONLY <1>1, <1>4, <1>7, <1>10, <1>13, i \in 1 .. n - ((q + m) - p), <2>1 DEF Deleted
  <2>2. CASE p < i
    BY ONLY <1>1, <1>4, <1>7, <1>10, <1>13, i \in 1 .. n - ((q + m) - p), <2>2 DEF Deleted
  <2> QED BY <1>1, <2>1, <2>2
<1>15. Len(x) = n - ((q + m) - p) /\ Len(y) = n - ((q + m) - p)
  BY <1>1, <1>9, <1>12
<1>16. x = y
  BY <1>8, <1>11, <1>14, <1>15, SameElements
<1> QED BY <1>16 DEF n, tp, tq, x, y

\* A deleted run inside another.
LEMMA DeleteInsideDelete ==
  ASSUME NEW Char, NEW t \in Seq(Char), NEW p \in Nat, NEW q \in Nat, NEW l \in Nat, NEW m \in Nat,
         p <= q, q + m <= p + l, p + l <= Len(t)
  PROVE  Delete(t, p, l)
           = Delete(Delete(t, q, m), p, l - m)
<1> DEFINE n == Len(t)
           tp == Delete(t, p, l)
           tq == Delete(t, q, m)
           y == Delete(tq, p, l - m)
<1>1. /\ n \in Nat /\ l \in Nat /\ m \in Nat /\ p \in Nat /\ q \in Nat
      /\ p <= q /\ q + m <= p + l /\ p + l <= n
  OBVIOUS
<1>2. /\ tp \in Seq(Char) /\ Len(tp) = n - l
      /\ Deleted(tp, t, n, p, l)
  <2>1. p \in Nat /\ l \in Nat /\ p + l <= n
    BY <1>1
  <2> QED BY <2>1, DeleteText
<1>3. Len(tp) = n - l
  BY <1>2
<1>4. Deleted(tp, t, n, p, l)
  BY <1>2
<1>5. /\ tq \in Seq(Char) /\ Len(tq) = n - m
      /\ Deleted(tq, t, n, q, m)
  <2>1. q \in Nat /\ m \in Nat /\ q + m <= n
    BY <1>1
  <2> QED BY <2>1, DeleteText
<1>6. Len(tq) = n - m
  BY <1>5
<1>7. Deleted(tq, t, n, q, m)
  BY <1>5
<1>8. /\ y \in Seq(Char) /\ Len(y) = Len(tq) - (l - m)
      /\ Deleted(y, tq, Len(tq), p, l - m)
  <2> DEFINE r == l - m
  <2>1. p \in Nat /\ r \in Nat /\ p + r <= Len(tq) /\ tq \in Seq(Char)
    BY <1>1, <1>5, <1>6
  <2> HIDE DEF tq, r
  <2>2. /\ Delete(tq, p, r) \in Seq(Char) /\ Len(Delete(tq, p, r)) = Len(tq) - r
        /\ Deleted(Delete(tq, p, r), tq, Len(tq), p, r)
    BY <2>1, DeleteText
  <2> QED BY <2>2 DEF r
<1>9. Len(y) = n - l
  BY <1>1, <1>8, <1>6
<1>10. Deleted(y, tq, n - m, p, l - m)
  BY <1>8, <1>6
<1> HIDE DEF n, tp, tq, y
<1>11. \A i \in 1 .. n - l : tp[i] = y[i]
  <2> SUFFICES ASSUME NEW i \in 1 .. n - l PROVE tp[i] = y[i]
    OBVIOUS
  <2>1. CASE i <= p
    <3>1. tp[i] = t[i]
      BY ONLY <1>1, <1>4, i \in 1 .. n - l, <2>1 DEF Deleted
    <3>2. y[i] = tq[i] /\ tq[i] = t[i]
      BY ONLY <1>1, <1>7, <1>10, i \in 1 .. n - l, <2>1 DEF Deleted
    <3> QED BY ONLY <3>1, <3>2
  <2>2. CASE p < i
    <3>1. tp[i] = t[i + l]
      BY ONLY <1>1, <1>4, i \in 1 .. n - l, <2>2 DEF Deleted
    <3>2. y[i] = tq[i + (l - m)]
      <4>1. i \in 1 .. (n - m) - (l - m) /\ p < i
        BY ONLY <1>1, i \in 1 .. n - l, <2>2
      <4> QED BY ONLY <1>10, <4>1 DEF Deleted
    <3>3. tq[i + (l - m)] = t[(i + (l - m)) + m]
      <4>1. i + (l - m) \in 1 .. n - m /\ q < i + (l - m)
        BY ONLY <1>1, i \in 1 .. n - l, <2>2
      <4> QED BY ONLY <1>7, <4>1 DEF Deleted
    <3>4. (i + (l - m)) + m = i + l
      BY ONLY <1>1, i \in 1 .. n - l
    <3> QED BY ONLY <3>1, <3>2, <3>3, <3>4
  <2> QED BY <1>1, <2>1, <2>2
<1>12. Len(tp) = n - l /\ Len(y) = n - l
  BY <1>1, <1>3, <1>9
<1>13. tp = y
  BY <1>2, <1>8, <1>11, <1>12, SameElements
<1> QED BY <1>13 DEF n, tp, tq, y

-----------------------------------------------------------------------------
(* Operations.                                                             *)

\* apply_operation of an insert.
LEMMA ApplyInsert ==
  ASSUME NEW t, NEW op, op.type = "insert"
  PROVE  ApplyOperation(t, op) = Insert(t, op.position, op.content)
BY DEF ApplyOperation, Insert

\* apply_operation of a delete.
LEMMA ApplyDelete ==
  ASSUME NEW t, NEW op, op.type = "delete"
  PROVE  ApplyOperation(t, op) = Delete(t, op.position, op.length)
BY DEF ApplyOperation, Delete, EndOf

\* The two orders of arrival of the concurrent operations a and b agree.
Commute(t, a, b) ==
  ApplyTransformed(ApplyOperation(t, a), TransformOperation(a, b))
    = ApplyTransformed(ApplyOperation(t, b), TransformOperation(b, a))

\* Two inserts, a at the left or, at one position, with the smaller site id.
LEMMA TwoInserts ==
  ASSUME NEW Char, NEW t \in Seq(Char),
         NEW a \in Operations(Char, Int), NEW b \in Operations(Char, Int),
         a.type = "insert", b.type = "insert", FitsText(a, t), FitsText(b, t),
         a.position < b.position \/ (a.position = b.position /\ a.site < b.site)
  PROVE  Commute(t, a, b)
<1> DEFINE b1 == TransformInsert(a, b)
           a1 == TransformInsert(b, a)
<1>1. /\ a.position \in Nat /\ b.position \in Nat /\ a.position <= b.position
      /\ b.position <= Len(t) /\ a.content \in Seq(Char) /\ b.content \in Seq(Char)
  BY DEF Operations, FitsText
<1>2. /\ b1.type = "insert" /\ b1.content = b.content
      /\ b1.position = b.position + Len(a.content)
  BY DEF TransformInsert, InsertPosition, Operations
<1>3. a1.type = "insert" /\ a1.content = a.content /\ a1.position = a.position
  BY DEF TransformInsert, InsertPosition, Operations
<1>4. TransformOperation(a, b) = << b1 >> /\ TransformOperation(b, a) = << a1 >>
  BY DEF TransformOperation
<1> HIDE DEF a1, b1
<1>5. ApplyTransformed(ApplyOperation(t, a), << b1 >>)
        = Insert(Insert(t, a.position, a.content), b.position + Len(a.content), b.content)
  BY <1>2, ApplyInsert DEF ApplyTransformed
<1>6. ApplyTransformed(ApplyOperation(t, b), << a1 >>)
        = Insert(Insert(t, b.position, b.content), a.position, a.content)
  BY <1>3, ApplyInsert DEF ApplyTransformed
<1>7. Insert(Insert(t, a.position, a.content), b.position + Len(a.content), b.content)
        = Insert(Insert(t, b.position, b.content), a.position, a.content)
  BY <1>1, InsertsCommute
<1> QED BY <1>4, <1>5, <1>6, <1>7 DEF Commute

\* An insert and a delete: beside it, or inside it, where the delete splits.
LEMMA InsertAndDelete ==
  ASSUME NEW Char, NEW t \in Seq(Char),
         NEW a \in Operations(Char, Int), NEW b \in Operations(Char, Int),
         a.type = "insert", b.type = "delete", FitsText(a, t), FitsText(b, t)
  PROVE  Commute(t, a, b)
<1> DEFINE a1 == TransformInsert(b, a)
           p == a.position
           q == b.position
           m == b.length
           c == a.content
           k == Len(c)
<1>1. /\ p \in Nat /\ q \in Nat /\ m \in Nat /\ m >= 1 /\ p <= Len(t) /\ q + m <= Len(t)
      /\ c \in Seq(Char) /\ k \in Nat /\ EndOf(b) = q + m
  BY DEF Operations, FitsText, EndOf
<1>2. a1.type = "insert" /\ a1.content = c /\ a1.position = InsertPosition(b, a)
  BY DEF TransformInsert, Operations
<1>3. TransformOperation(b, a) = << a1 >> /\ TransformOperation(a, b) = TransformDelete(a, b)
  BY DEF TransformOperation
<1> HIDE DEF a1
<1>4. ApplyTransformed(ApplyOperation(t, b), << a1 >>)
        = Insert(Delete(t, q, m), InsertPosition(b, a), c)
  BY <1>2, ApplyInsert, ApplyDelete DEF ApplyTransformed
<1>5. ApplyOperation(t, a) = Insert(t, p, c)
  BY ApplyInsert
<1>6. CASE p <= q
  <2> DEFINE d == MakeDelete(q + k, m, b.site)
  <2>1. TransformDelete(a, b) = << d >>
    BY <1>6 DEF TransformDelete
  <2>2. d.type = "delete" /\ d.position = q + k /\ d.length = m
    BY DEF MakeDelete
  <2> HIDE DEF d
  <2>3. ApplyTransformed(Insert(t, p, c), << d >>) = Delete(Insert(t, p, c), q + k, m)
    BY <2>2, ApplyDelete DEF ApplyTransformed
  <2>4. InsertPosition(b, a) = p
    BY <1>1, <1>6 DEF InsertPosition, Lesser
  <2>5. Delete(Insert(t, p, c), q + k, m) = Insert(Delete(t, q, m), p, c)
    <3> HIDE DEF p, q, m, c
    <3> QED BY <1>1, <1>6, InsertBeforeDelete
  <2> QED BY <1>3, <1>4, <1>5, <2>1, <2>3, <2>4, <2>5 DEF Commute
<1>7. CASE p >= EndOf(b)
  <2>1. TransformDelete(a, b) = << b >>
    BY <1>1, <1>7 DEF TransformDelete
  <2>2. ApplyTransformed(Insert(t, p, c), << b >>) = Delete(Insert(t, p, c), q, m)
    BY ApplyDelete DEF ApplyTransformed
  <2>3. InsertPosition(b, a) = p - m
    BY <1>1, <1>7 DEF InsertPosition
  <2>4. Delete(Insert(t, p, c), q, m) = Insert(Delete(t, q, m), p - m, c)
    <3>1. q + m <= p
      BY <1>1, <1>7
    <3> HIDE DEF p, q, m, c
    <3> QED BY <1>1, <3>1, InsertAfterDelete
  <2> QED BY <1>3, <1>4, <1>5, <2>1, <2>2, <2>3, <2>4 DEF Commute
<1>8. CASE q < p /\ p < EndOf(b)
  <2> DEFINE d == MakeDelete(p + k, EndOf(b) - p, b.site)
             e == MakeDelete(q, p - q, b.site)
  <2>1. TransformDelete(a, b) = << d, e >>
    BY <1>1, <1>8 DEF TransformDelete
  <2>2. /\ d.type = "delete" /\ d.position = p + k /\ d.length = (q + m) - p
        /\ e.type = "delete" /\ e.position = q /\ e.length = p - q
    BY <1>1 DEF MakeDelete
  <2> HIDE DEF d, e
  <2>3. ApplyTransformed(Insert(t, p, c), << d, e >>)
          = Delete(Delete(Insert(t, p, c), p + k, (q + m) - p), q, p - q)
    BY <2>2, ApplyDelete DEF ApplyTransformed
  <2>4. InsertPosition(b, a) = q
    BY <1>1, <1>8 DEF InsertPosition, Lesser
  <2>5. Delete(Delete(Insert(t, p, c), p + k, (q + m) - p), q, p - q)
          = Insert(Delete(t, q, m), q, c)
    <3>1. q <= p /\ p <= q + m
      BY <1>1, <1>8
    <3> HIDE DEF p, q, m, c
    <3> QED BY <1>1, <3>1, InsertInsideDelete
  <2> QED BY <1>3, <1>4, <1>5, <2>1, <2>3, <2>4, <2>5 DEF Commute
<1> QED BY <1>1, <1>6, <1>7, <1>8

\* Two deletes: apart, overlapping, or one inside the other.
LEMMA TwoDeletes ==
  ASSUME NEW Char, NEW t \in Seq(Char),
         NEW a \in Operations(Char, Int), NEW b \in Operations(Char, Int),
         a.type = "delete", b.type = "delete", FitsText(a, t), FitsText(b, t),
         a.position <= b.position
  PROVE  Commute(t, a, b)
<1> DEFINE p == a.position
           l == a.length
           q == b.position
           m == b.length
<1>1. /\ p \in Nat /\ l \in Nat /\ l >= 1 /\ q \in Nat /\ m \in Nat /\ m >= 1 /\ p <= q
      /\ p + l <= Len(t) /\ q + m <= Len(t) /\ EndOf(a) = p + l /\ EndOf(b) = q + m
  BY DEF Operations, FitsText, EndOf
<1>2. /\ TransformOperation(a, b) = TransformDelete(a, b)
      /\ TransformOperation(b, a) = TransformDelete(b, a)
      /\ ApplyOperation(t, a) = Delete(t, p, l) /\ ApplyOperation(t, b) = Delete(t, q, m)
  BY ApplyDelete DEF TransformOperation
\* What is left of one delete after the other.
<1>3. ASSUME NEW s, NEW o, NEW r \in Nat, NEW n \in Nat
      PROVE  ApplyTransformed(s, << MakeDelete(r, n, o) >>) = Delete(s, r, n)
  <2> DEFINE d == MakeDelete(r, n, o)
  <2>1. d.type = "delete" /\ d.position = r /\ d.length = n
    BY DEF MakeDelete
  <2> HIDE DEF d
  <2>2. ApplyTransformed(s, << d >>) = Delete(s, r, n)
    BY <2>1, ApplyDelete DEF ApplyTransformed
  <2> QED BY <2>2 DEF d
<1>4. ASSUME NEW s PROVE ApplyTransformed(s, << >>) = s
  BY DEF ApplyTransformed
<1>5. CASE p + l <= q
  <2>1. TransformDelete(a, b) = << MakeDelete(q - l, m, b.site) >>
    BY <1>1, <1>5 DEF TransformDelete, Lesser, Greater
  <2>2. TransformDelete(b, a) = << MakeDelete(p, l, a.site) >>
    BY <1>1, <1>5 DEF TransformDelete, Lesser, Greater
  <2>3. q - l \in Nat
    BY <1>1, <1>5
  <2>4. Delete(Delete(t, p, l), q - l, m) = Delete(Delete(t, q, m), p, l)
    <3> HIDE DEF p, q, m, l
    <3> QED BY <1>1, <1>5, DeletesApart
  <2> QED BY <1>1, <1>2, <1>3, <2>1, <2>2, <2>3, <2>4 DEF Commute
<1>6. CASE q < p + l /\ p + l < q + m
  <2>1. TransformDelete(a, b) = << MakeDelete(p, (q + m) - (p + l), b.site) >>
    BY <1>1, <1>6 DEF TransformDelete, Lesser, Greater
  <2>2. CASE p < q
    <3>1. TransformDelete(b, a) = << MakeDelete(p, q - p, a.site) >>
      BY <1>1, <1>6, <2>2 DEF TransformDelete, Lesser, Greater
    <3>2. q - p \in Nat /\ (q + m) - (p + l) \in Nat /\ q <= p + l /\ p + l <= q + m
      BY <1>1, <1>6
    <3>3. Delete(Delete(t, p, l), p, (q + m) - (p + l)) = Delete(Delete(t, q, m), p, q - p)
      <4> HIDE DEF p, q, m, l
      <4> QED BY <1>1, <3>2, DeletesOverlap
    <3> QED BY <1>1, <1>2, <1>3, <2>1, <3>1, <3>2, <3>3 DEF Commute
  <2>3. CASE p = q
    <3>1. TransformDelete(b, a) = << >>
      BY <1>1, <1>6, <2>3 DEF TransformDelete, Lesser, Greater
    <3>2. (q + m) - (p + l) \in Nat /\ (q + m) - (p + l) = m - l
      BY <1>1, <1>6, <2>3
    <3>3. Delete(t, q, m) = Delete(Delete(t, p, l), q, m - l)
      <4>1. q <= p /\ p + l <= q + m
        BY <1>1, <1>6, <2>3
      <4> HIDE DEF p, q, m, l
      <4> QED BY <1>1, <4>1, DeleteInsideDelete
    <3> QED BY <1>1, <1>2, <1>3, <1>4, <2>1, <2>3, <3>1, <3>2, <3>3 DEF Commute
  <2> QED BY <1>1, <2>2, <2>3
<1>7. CASE q < p + l /\ q + m <= p + l
  <2>1. TransformDelete(a, b) = << >>
    BY <1>1, <1>7 DEF TransformDelete, Lesser, Greater
  <2>2. Delete(t, p, l) = Delete(Delete(t, q, m), p, l - m)
    <3> HIDE DEF p, q, m, l
    <3> QED BY <1>1, <1>7, DeleteInsideDelete
  <2>3. CASE m < l
    <3>1. TransformDelete(b, a) = << MakeDelete(p, l - m, a.site) >>
      BY <1>1, <1>7, <2>3 DEF TransformDelete, Lesser, Greater
    <3>2. l - m \in Nat
      BY <1>1, <2>3
    <3> QED BY <1>1, <1>2, <1>3, <1>4, <2>1, <2>2, <3>1, <3>2 DEF Commute
  <2>4. CASE m = l
    <3>1. TransformDelete(b, a) = << >>
      BY <1>1, <1>7, <2>4 DEF TransformDelete, Lesser, Greater
    <3>2. p = q
      BY <1>1, <1>7, <2>4
    <3> QED BY <1>2, <1>4, <2>1, <2>4, <3>1, <3>2 DEF Commute
  <2> QED BY <1>1, <1>7, <2>3, <2>4
<1> QED BY <1>1, <1>5, <1>6, <1>7

\* TP1, for every text and every pair of operations: whichever of two
\* concurrent edits of different users the server gets first, transforming
\* the other one (transform_operation) and applying it gives the same text.
THEOREM TransformConverges ==
  ASSUME NEW Char, NEW t \in Seq(Char),
         NEW a \in Operations(Char, Int), NEW b \in Operations(Char, Int),
         FitsText(a, t), FitsText(b, t), a.site # b.site
  PROVE  ApplyTransformed(ApplyOperation(t, a), TransformOperation(a, b))
           = ApplyTransformed(ApplyOperation(t, b), TransformOperation(b, a))
<1>1. a.type \in {"insert", "delete"} /\ b.type \in {"insert", "delete"}
  BY DEF Operations
<1>2. a.position \in Int /\ b.position \in Int /\ a.site \in Int /\ b.site \in Int
  BY DEF Operations
<1>3. Commute(t, a, b) <=> Commute(t, b, a)
  BY DEF Commute
<1>4. CASE a.type = "insert" /\ b.type = "insert"
  <2>1. \/ a.position < b.position \/ (a.position = b.position /\ a.site < b.site)
        \/ b.position < a.position \/ (b.position = a.position /\ b.site < a.site)
    BY <1>2
  <2> QED BY <1>3, <1>4, <2>1, TwoInserts DEF Commute
<1>5. CASE a.type = "insert" /\ b.type = "delete"
  BY <1>5, InsertAndDelete DEF Commute
<1>6. CASE a.type = "delete" /\ b.type = "insert"
  BY <1>3, <1>6, InsertAndDelete DEF Commute
<1>7. CASE a.type = "delete" /\ b.type = "delete"
  <2>1. a.position <= b.position \/ b.position <= a.position
    BY <1>2
  <2> QED BY <1>3, <1>7, <2>1, TwoDeletes DEF Commute
<1> QED BY <1>1, <1>4, <1>5, <1>6, <1>7

\* apply_operation gives a text again, of the length the operation says.
LEMMA ApplyTyped ==
  ASSUME NEW Char, NEW t \in Seq(Char), NEW op \in Operations(Char, Int), FitsText(op, t)
  PROVE  /\ ApplyOperation(t, op) \in Seq(Char)
         /\ op.type = "insert" => Len(ApplyOperation(t, op)) = Len(t) + Len(op.content)
         /\ op.type = "delete" => Len(ApplyOperation(t, op)) = Len(t) - op.length
<1>1. CASE op.type = "insert"
  <2>1. op.position \in Nat /\ op.position <= Len(t) /\ op.content \in Seq(Char)
    BY <1>1 DEF Operations, FitsText
  <2>2. ApplyOperation(t, op) = Insert(t, op.position, op.content)
    BY <1>1, ApplyInsert
  <2>3. /\ Insert(t, op.position, op.content) \in Seq(Char)
        /\ Len(Insert(t, op.position, op.content)) = Len(t) + Len(op.content)
    BY ONLY t \in Seq(Char), <2>1, InsertText
  <2> QED BY <1>1, <2>2, <2>3
<1>2. CASE op.type = "delete"
  <2>1. op.position \in Nat /\ op.length \in Nat /\ op.position + op.length <= Len(t)
    BY <1>2 DEF Operations, FitsText, EndOf
  <2>2. ApplyOperation(t, op) = Delete(t, op.position, op.length)
    BY <1>2, ApplyDelete
  <2>3. /\ Delete(t, op.position, op.length) \in Seq(Char)
        /\ Len(Delete(t, op.position, op.length)) = Len(t) - op.length
    BY ONLY t \in Seq(Char), <2>1, DeleteText
  <2> QED BY <1>2, <2>2, <2>3
<1> QED BY <1>1, <1>2 DEF Operations

\* transform_cursor never sends a caret out of the document: a caret inside the
\* text is inside the text that apply_operation makes of it.
THEOREM CaretStaysInText ==
  ASSUME NEW Char, NEW t \in Seq(Char), NEW op \in Operations(Char, Int), FitsText(op, t),
         NEW p \in 0 .. Len(t)
  PROVE  TransformCursor(p, op) \in 0 .. Len(ApplyOperation(t, op))
<1>1. CASE op.type = "insert"
  <2>1. Len(ApplyOperation(t, op)) = Len(t) + Len(op.content)
    BY <1>1, ApplyTyped
  <2>2. Len(op.content) \in Nat /\ Len(t) \in Nat
    BY DEF Operations
  <2>3. TransformCursor(p, op) \in {p, p + Len(op.content)}
    BY <1>1 DEF TransformCursor
  <2> QED BY <2>1, <2>2, <2>3
<1>2. CASE op.type = "delete"
  <2>1. Len(ApplyOperation(t, op)) = Len(t) - op.length
    BY <1>2, ApplyTyped
  <2>2. /\ op.position \in Nat /\ op.length \in Nat /\ EndOf(op) = op.position + op.length
        /\ op.position + op.length <= Len(t) /\ Len(t) \in Nat
    BY <1>2 DEF Operations, FitsText, EndOf
  <2>3. TransformCursor(p, op)
          = IF p >= EndOf(op) THEN p - op.length ELSE Lesser(p, op.position)
    BY <1>2 DEF TransformCursor
  <2> QED BY <2>1, <2>2, <2>3 DEF Lesser
<1> QED BY <1>1, <1>2 DEF Operations

-----------------------------------------------------------------------------
(* The loops.                                                              *)

\* The smallest of some natural numbers.
LEMMA NatLeast ==
  ASSUME NEW T \in SUBSET Nat, T # {}
  PROVE  \E n \in T : \A m \in T : n <= m
<1> DEFINE R == OpToRel(<, Nat)
<1>0. \A x, y \in Nat : <<x, y>> \in R <=> x < y
  BY DEF OpToRel
<1>1. IsWellFoundedOn(R, Nat)
  BY NatLessThanWellFounded
<1> HIDE DEF R
<1>2. PICK n \in T : \A m \in T : ~(<<m, n>> \in R)
  BY <1>1, WFMin
<1>3. \A m \in T : m \in Nat /\ n \in Nat /\ ~ (m < n)
  BY <1>0, <1>2
<1> QED BY <1>3

\* The largest of 1 .. n.
LEMMA LargestIs ==
  ASSUME NEW n \in Nat, NEW S \in SUBSET (1 .. n), n \in S
  PROVE  Max(S) = n
<1>1. \A y \in S : n >= y
  OBVIOUS
<1>2. ASSUME NEW x \in S, \A y \in S : x >= y PROVE x = n
  <2>1. x \in 1 .. n /\ x >= n
    BY <1>2
  <2> QED BY <2>1
<1> QED BY <1>1, <1>2 DEF Max

\* The list comprehension of transform_operations, one pending operation at a
\* time: out[k] is what the first k have become.
PendingSteps(out, a, ops, n) ==
  /\ out[0] = << >>
  /\ \A k \in 1 .. n : out[k] = out[k - 1] \o TransformOperation(a, ops[k])

\* The fold is that loop.
LEMMA PendingIsLoop ==
  ASSUME NEW a, NEW ops, NEW n \in Nat, DOMAIN ops = 1 .. n
  PROVE  \E out : PendingSteps(out, a, ops, n) /\ TransformPending(ops, a) = out[n]
<1> DEFINE Folding(it, m) ==
      it = [S \in SUBSET (1 .. m) |->
              IF S = {} THEN << >> ELSE it[S \ {Max(S)}] \o TransformOperation(a, ops[Max(S)])]
<1>1. TransformPending(ops, a) = (CHOOSE it : Folding(it, n))[1 .. n]
  BY DEF TransformPending, FoldLeft, MapThenFoldSet
<1>2. \E it : Folding(it, 0)
  <2>1. SUBSET (1 .. 0) = {{}}
    OBVIOUS
  <2>2. Folding([S \in {{}} |-> << >>], 0)
    BY <2>1
  <2> QED BY <2>2
<1>3. ASSUME NEW m \in Nat, NEW it, Folding(it, m) PROVE \E new : Folding(new, m + 1)
  <2> DEFINE M == m + 1
             new == [S \in SUBSET (1 .. M) |-> IF M \in S THEN it[S \ {M}] \o TransformOperation(a, ops[M])
                                               ELSE it[S]]
  <2>1. ASSUME NEW S \in SUBSET (1 .. M)
        PROVE  new[S] = IF S = {} THEN << >> ELSE new[S \ {Max(S)}] \o TransformOperation(a, ops[Max(S)])
    <3>1. CASE M \in S
      <4>1. Max(S) = M
        BY <3>1, LargestIs
      <4>2. S \ {M} \in SUBSET (1 .. M) /\ M \notin S \ {M}
        OBVIOUS
      <4>3. new[S \ {M}] = it[S \ {M}]
        BY <4>2
      <4> QED BY <3>1, <4>1, <4>3
    <3>2. CASE M \notin S
      <4>1. S \in SUBSET (1 .. m) /\ S \ {Max(S)} \in SUBSET (1 .. M) /\ M \notin S \ {Max(S)}
        <5>1. \A x \in 1 .. M : x # M => x \in 1 .. m
          OBVIOUS
        <5> HIDE DEF M
        <5> QED BY <3>2, <5>1
      <4>2. new[S \ {Max(S)}] = it[S \ {Max(S)}] /\ new[S] = it[S]
        BY <3>2, <4>1
      <4> HIDE DEF new
      <4> QED BY <1>3, <4>1, <4>2
    <3> QED BY <3>1, <3>2
  <2>2. Folding(new, M)
    <3>1. new = [S \in SUBSET (1 .. M) |-> new[S]]
      OBVIOUS
    <3> HIDE DEF new
    <3> QED BY <2>1, <3>1
  <2> QED BY <2>2
<1>4. \E it : Folding(it, n)
  <2> DEFINE T == {m \in Nat : ~ \E it : Folding(it, m)}
  <2> HIDE DEF Folding
  <2> SUFFICES ASSUME n \in T PROVE FALSE
    OBVIOUS
  <2>1. PICK m \in T : \A k \in T : m <= k
    BY NatLeast
  <2>2. m # 0 /\ m \in Nat
    BY <1>2
  <2>3. m - 1 \in Nat /\ m - 1 \notin T /\ (m - 1) + 1 = m
    BY <2>1, <2>2
  <2> QED BY <1>3, <2>3
<1> DEFINE it == CHOOSE it : Folding(it, n)
           out == [k \in 0 .. n |-> it[1 .. k]]
<1>5. Folding(it, n)
  <2> HIDE DEF Folding
  <2> QED BY <1>4
<1> HIDE DEF it
<1>6. out[0] = << >>
  <2>1. 1 .. 0 = {}
    OBVIOUS
  <2> QED BY <1>5, <2>1
<1>7. ASSUME NEW k \in 1 .. n PROVE out[k] = out[k - 1] \o TransformOperation(a, ops[k])
  <2>1. 1 .. k \in SUBSET (1 .. n) /\ Max(1 .. k) = k /\ (1 .. k) \ {k} = 1 .. k - 1 /\ k \in 1 .. k
    BY LargestIs
  <2>2. it[1 .. k] = it[1 .. k - 1] \o TransformOperation(a, ops[k])
    BY <1>5, <2>1
  <2> QED BY <2>2
<1>8. TransformPending(ops, a) = out[n]
  BY <1>1 DEF it
<1> HIDE DEF out
<1> QED BY <1>6, <1>7, <1>8 DEF PendingSteps
\* The loop of transform_operations: out[k] is what has become of the new
\* operation after k of the applied ones.
RoundSteps(out, b, ops, n) ==
  /\ out[0] = << b >>
  /\ \A k \in 1 .. n : out[k] = TransformRound(out[k - 1], ops[k])

\* The fold is that loop.
LEMMA RoundIsLoop ==
  ASSUME NEW b, NEW ops, NEW n \in Nat, DOMAIN ops = 1 .. n
  PROVE  \E out : RoundSteps(out, b, ops, n) /\ TransformOperations(b, ops) = out[n]
<1> DEFINE Folding(it, m) ==
      it = [S \in SUBSET (1 .. m) |->
              IF S = {} THEN << b >> ELSE TransformRound(it[S \ {Max(S)}], ops[Max(S)])]
<1>1. TransformOperations(b, ops) = (CHOOSE it : Folding(it, n))[1 .. n]
  BY DEF TransformOperations, FoldLeft, MapThenFoldSet
<1>2. \E it : Folding(it, 0)
  <2>1. SUBSET (1 .. 0) = {{}}
    OBVIOUS
  <2>2. Folding([S \in {{}} |-> << b >>], 0)
    BY <2>1
  <2> QED BY <2>2
<1>3. ASSUME NEW m \in Nat, NEW it, Folding(it, m) PROVE \E new : Folding(new, m + 1)
  <2> DEFINE M == m + 1
             new == [S \in SUBSET (1 .. M) |-> IF M \in S THEN TransformRound(it[S \ {M}], ops[M])
                                               ELSE it[S]]
  <2>1. ASSUME NEW S \in SUBSET (1 .. M)
        PROVE  new[S] = IF S = {} THEN << b >> ELSE TransformRound(new[S \ {Max(S)}], ops[Max(S)])
    <3>1. CASE M \in S
      <4>1. Max(S) = M
        BY <3>1, LargestIs
      <4>2. S \ {M} \in SUBSET (1 .. M) /\ M \notin S \ {M}
        OBVIOUS
      <4>3. new[S \ {M}] = it[S \ {M}]
        BY <4>2
      <4> QED BY <3>1, <4>1, <4>3
    <3>2. CASE M \notin S
      <4>1. S \in SUBSET (1 .. m) /\ S \ {Max(S)} \in SUBSET (1 .. M) /\ M \notin S \ {Max(S)}
        <5>1. \A x \in 1 .. M : x # M => x \in 1 .. m
          OBVIOUS
        <5> HIDE DEF M
        <5> QED BY <3>2, <5>1
      <4>2. new[S \ {Max(S)}] = it[S \ {Max(S)}] /\ new[S] = it[S]
        BY <3>2, <4>1
      <4> HIDE DEF new
      <4> QED BY <1>3, <4>1, <4>2
    <3> QED BY <3>1, <3>2
  <2>2. Folding(new, M)
    <3>1. new = [S \in SUBSET (1 .. M) |-> new[S]]
      OBVIOUS
    <3> HIDE DEF new
    <3> QED BY <2>1, <3>1
  <2> QED BY <2>2
<1>4. \E it : Folding(it, n)
  <2> DEFINE T == {m \in Nat : ~ \E it : Folding(it, m)}
  <2> HIDE DEF Folding
  <2> SUFFICES ASSUME n \in T PROVE FALSE
    OBVIOUS
  <2>1. PICK m \in T : \A k \in T : m <= k
    BY NatLeast
  <2>2. m # 0 /\ m \in Nat
    BY <1>2
  <2>3. m - 1 \in Nat /\ m - 1 \notin T /\ (m - 1) + 1 = m
    BY <2>1, <2>2
  <2> QED BY <1>3, <2>3
<1> DEFINE it == CHOOSE it : Folding(it, n)
           out == [k \in 0 .. n |-> it[1 .. k]]
<1>5. Folding(it, n)
  <2> HIDE DEF Folding
  <2> QED BY <1>4
<1> HIDE DEF it
<1>6. out[0] = << b >>
  <2>1. 1 .. 0 = {}
    OBVIOUS
  <2> QED BY <1>5, <2>1
<1>7. ASSUME NEW k \in 1 .. n PROVE out[k] = TransformRound(out[k - 1], ops[k])
  <2>1. 1 .. k \in SUBSET (1 .. n) /\ Max(1 .. k) = k /\ (1 .. k) \ {k} = 1 .. k - 1 /\ k \in 1 .. k
    BY LargestIs
  <2>2. it[1 .. k] = TransformRound(it[1 .. k - 1], ops[k])
    BY <1>5, <2>1
  <2> QED BY <2>2
<1>8. TransformOperations(b, ops) = out[n]
  BY <1>1 DEF it
<1> HIDE DEF out
<1> QED BY <1>6, <1>7, <1>8 DEF RoundSteps
\* "for op in ops: text = apply_operation(text, op)".
ApplySteps(out, t, ops, n) ==
  /\ out[0] = t
  /\ \A k \in 1 .. n : out[k] = ApplyOperation(out[k - 1], ops[k])

\* The fold is that loop.
LEMMA ApplyIsLoop ==
  ASSUME NEW t, NEW ops, NEW n \in Nat, DOMAIN ops = 1 .. n
  PROVE  \E out : ApplySteps(out, t, ops, n) /\ ApplyOperations(t, ops) = out[n]
<1> DEFINE Folding(it, m) ==
      it = [S \in SUBSET (1 .. m) |->
              IF S = {} THEN t ELSE ApplyOperation(it[S \ {Max(S)}], ops[Max(S)])]
<1>1. ApplyOperations(t, ops) = (CHOOSE it : Folding(it, n))[1 .. n]
  BY DEF ApplyOperations, FoldLeft, MapThenFoldSet
<1>2. \E it : Folding(it, 0)
  <2>1. SUBSET (1 .. 0) = {{}}
    OBVIOUS
  <2>2. Folding([S \in {{}} |-> t], 0)
    BY <2>1
  <2> QED BY <2>2
<1>3. ASSUME NEW m \in Nat, NEW it, Folding(it, m) PROVE \E new : Folding(new, m + 1)
  <2> DEFINE M == m + 1
             new == [S \in SUBSET (1 .. M) |-> IF M \in S THEN ApplyOperation(it[S \ {M}], ops[M])
                                               ELSE it[S]]
  <2>1. ASSUME NEW S \in SUBSET (1 .. M)
        PROVE  new[S] = IF S = {} THEN t ELSE ApplyOperation(new[S \ {Max(S)}], ops[Max(S)])
    <3>1. CASE M \in S
      <4>1. Max(S) = M
        BY <3>1, LargestIs
      <4>2. S \ {M} \in SUBSET (1 .. M) /\ M \notin S \ {M}
        OBVIOUS
      <4>3. new[S \ {M}] = it[S \ {M}]
        BY <4>2
      <4> QED BY <3>1, <4>1, <4>3
    <3>2. CASE M \notin S
      <4>1. S \in SUBSET (1 .. m) /\ S \ {Max(S)} \in SUBSET (1 .. M) /\ M \notin S \ {Max(S)}
        <5>1. \A x \in 1 .. M : x # M => x \in 1 .. m
          OBVIOUS
        <5> HIDE DEF M
        <5> QED BY <3>2, <5>1
      <4>2. new[S \ {Max(S)}] = it[S \ {Max(S)}] /\ new[S] = it[S]
        BY <3>2, <4>1
      <4> HIDE DEF new
      <4> QED BY <1>3, <4>1, <4>2
    <3> QED BY <3>1, <3>2
  <2>2. Folding(new, M)
    <3>1. new = [S \in SUBSET (1 .. M) |-> new[S]]
      OBVIOUS
    <3> HIDE DEF new
    <3> QED BY <2>1, <3>1
  <2> QED BY <2>2
<1>4. \E it : Folding(it, n)
  <2> DEFINE T == {m \in Nat : ~ \E it : Folding(it, m)}
  <2> HIDE DEF Folding
  <2> SUFFICES ASSUME n \in T PROVE FALSE
    OBVIOUS
  <2>1. PICK m \in T : \A k \in T : m <= k
    BY NatLeast
  <2>2. m # 0 /\ m \in Nat
    BY <1>2
  <2>3. m - 1 \in Nat /\ m - 1 \notin T /\ (m - 1) + 1 = m
    BY <2>1, <2>2
  <2> QED BY <1>3, <2>3
<1> DEFINE it == CHOOSE it : Folding(it, n)
           out == [k \in 0 .. n |-> it[1 .. k]]
<1>5. Folding(it, n)
  <2> HIDE DEF Folding
  <2> QED BY <1>4
<1> HIDE DEF it
<1>6. out[0] = t
  <2>1. 1 .. 0 = {}
    OBVIOUS
  <2> QED BY <1>5, <2>1
<1>7. ASSUME NEW k \in 1 .. n PROVE out[k] = ApplyOperation(out[k - 1], ops[k])
  <2>1. 1 .. k \in SUBSET (1 .. n) /\ Max(1 .. k) = k /\ (1 .. k) \ {k} = 1 .. k - 1 /\ k \in 1 .. k
    BY LargestIs
  <2>2. it[1 .. k] = ApplyOperation(it[1 .. k - 1], ops[k])
    BY <1>5, <2>1
  <2> QED BY <2>2
<1>8. ApplyOperations(t, ops) = out[n]
  BY <1>1 DEF it
<1> HIDE DEF out
<1> QED BY <1>6, <1>7, <1>8 DEF ApplySteps
\* The next operation in the log is one more round.
LEMMA OneMoreRound ==
  ASSUME NEW b, NEW S, NEW applied \in Seq(S), NEW a \in S
  PROVE  TransformOperations(b, Append(applied, a)) = TransformRound(TransformOperations(b, applied), a)
<1> DEFINE n == Len(applied)
           more == Append(applied, a)
<1>1. /\ n \in Nat /\ DOMAIN applied = 1 .. n /\ DOMAIN more = 1 .. n + 1 /\ more[n + 1] = a
      /\ \A k \in 1 .. n : more[k] = applied[k]
  OBVIOUS
<1> HIDE DEF n, more
<1>2. PICK out : RoundSteps(out, b, applied, n) /\ TransformOperations(b, applied) = out[n]
  BY <1>1, RoundIsLoop
<1>3. PICK new : RoundSteps(new, b, more, n + 1) /\ TransformOperations(b, more) = new[n + 1]
  <2>1. n + 1 \in Nat
    BY <1>1
  <2> QED BY <1>1, <2>1, RoundIsLoop
<1>4. new[n] = out[n]
  <2> DEFINE T == {k \in 0 .. n : new[k] # out[k]}
  <2> SUFFICES ASSUME n \in T PROVE FALSE
    BY <1>1
  <2>1. PICK m \in T : \A k \in T : m <= k
    <3>1. T \in SUBSET Nat
      OBVIOUS
    <3> HIDE DEF T
    <3> QED BY <3>1, NatLeast
  <2>2. m # 0
    BY <1>2, <1>3 DEF RoundSteps
  <2>3. m \in 1 .. n /\ m \in 1 .. n + 1 /\ m - 1 \in 0 .. n /\ m - 1 \notin T
    BY <1>1, <2>1, <2>2
  <2>4. new[m] = TransformRound(new[m - 1], more[m]) /\ out[m] = TransformRound(out[m - 1], applied[m])
    BY <1>2, <1>3, <2>3 DEF RoundSteps
  <2> QED BY <1>1, <2>3, <2>4
<1>5. new[n + 1] = TransformRound(new[(n + 1) - 1], more[n + 1])
  <2>1. n + 1 \in 1 .. n + 1
    BY <1>1
  <2> QED BY <1>3, <2>1 DEF RoundSteps
<1>6. (n + 1) - 1 = n
  BY <1>1
<1> QED BY <1>1, <1>2, <1>3, <1>4, <1>5, <1>6 DEF more

\* Before the first there is the new operation.
LEMMA NoRound ==
  ASSUME NEW b
  PROVE  TransformOperations(b, << >>) = << b >>
<1> DEFINE applied == << >>
<1>1. DOMAIN applied = 1 .. 0
  OBVIOUS
<1> HIDE DEF applied
<1>2. PICK out : RoundSteps(out, b, applied, 0) /\ TransformOperations(b, applied) = out[0]
  BY <1>1, RoundIsLoop
<1> QED BY <1>2 DEF RoundSteps, applied

-----------------------------------------------------------------------------
(* The pieces of a delete.                                                 *)

\* Deletion op removes the i-th character.
Covers(op, i) == op.position < i /\ i <= EndOf(op)

\* Some of the first n operations removes the i-th character.
Cut(ops, n, i) == \E k \in 1 .. n : Covers(ops[k], i)

\* A deletion of something in a text of m characters.
IsPiece(op, m) ==
  /\ op.type = "delete" /\ op.position \in Nat /\ op.length \in Nat /\ op.length >= 1
  /\ EndOf(op) \in Nat /\ EndOf(op) <= m

\* Such deletions, the rightmost first, that do not overlap.
Pieces(ops, n, m) ==
  /\ \A k \in 1 .. n : IsPiece(ops[k], m)
  /\ \A j, k \in 1 .. n : j < k => EndOf(ops[k]) <= ops[j].position

\* They are between lo and hi.
Within(ops, n, lo, hi) == \A k \in 1 .. n : lo <= ops[k].position /\ EndOf(ops[k]) <= hi

\* Nothing, one operation and two as pieces.
LEMMA NoPieces ==
  ASSUME NEW m, NEW lo, NEW hi
  PROVE  /\ Len(<< >>) = 0 /\ Pieces(<< >>, 0, m) /\ Within(<< >>, 0, lo, hi)
         /\ \A i : ~ Cut(<< >>, 0, i)
BY DEF Pieces, Within, Cut

\* One deletion.
LEMMA OnePiece ==
  ASSUME NEW x, NEW m \in Nat, IsPiece(x, m)
  PROVE  /\ Len(<< x >>) = 1 /\ Pieces(<< x >>, 1, m) /\ Within(<< x >>, 1, x.position, EndOf(x))
         /\ \A i : Cut(<< x >>, 1, i) <=> Covers(x, i)
<1> DEFINE s == << x >>
<1>1. Len(s) = 1 /\ s[1] = x
  OBVIOUS
<1> HIDE DEF s
<1>2. \A k \in 1 .. 1 : k = 1
  OBVIOUS
<1>3. x.position <= x.position /\ EndOf(x) <= EndOf(x)
  BY DEF IsPiece
<1>4. Pieces(s, 1, m)
  BY <1>1, <1>2 DEF Pieces
<1>5. Within(s, 1, x.position, EndOf(x))
  BY <1>1, <1>2, <1>3 DEF Within
<1>6. \A i : Cut(s, 1, i) <=> Covers(x, i)
  BY <1>1, <1>2 DEF Cut
<1> QED BY <1>1, <1>4, <1>5, <1>6 DEF s

\* Two deletions, the right one first.
LEMMA TwoPieces ==
  ASSUME NEW x, NEW y, NEW m \in Nat, IsPiece(x, m), IsPiece(y, m), EndOf(y) <= x.position
  PROVE  /\ Len(<< x, y >>) = 2 /\ Pieces(<< x, y >>, 2, m) /\ Within(<< x, y >>, 2, y.position, EndOf(x))
         /\ \A i : Cut(<< x, y >>, 2, i) <=> Covers(x, i) \/ Covers(y, i)
<1> DEFINE s == << x, y >>
<1>1. Len(s) = 2 /\ s[1] = x /\ s[2] = y
  OBVIOUS
<1> HIDE DEF s
<1>2. \A k \in 1 .. 2 : k = 1 \/ k = 2
  OBVIOUS
<1>3. y.position <= x.position /\ EndOf(y) <= EndOf(x) /\ y.position <= y.position /\ EndOf(x) <= EndOf(x)
  BY DEF IsPiece, EndOf
<1>4. Pieces(s, 2, m)
  BY <1>1, <1>2 DEF Pieces
<1>5. Within(s, 2, y.position, EndOf(x))
  BY <1>1, <1>2, <1>3 DEF Within
<1>6. \A i : Cut(s, 2, i) <=> Covers(x, i) \/ Covers(y, i)
  <2>1. 1 \in 1 .. 2 /\ 2 \in 1 .. 2
    OBVIOUS
  <2> QED BY <1>1, <1>2, <2>1 DEF Cut
<1> QED BY <1>1, <1>4, <1>5, <1>6 DEF s

\* Pieces of a text of m characters between lo and hi; a list that removes what
\* either of two others removes.
Tiles(ops, m, lo, hi) == Pieces(ops, Len(ops), m) /\ Within(ops, Len(ops), lo, hi)
CutBoth(s, a, b) == \A i : Cut(s, Len(s), i) <=> Cut(a, Len(a), i) \/ Cut(b, Len(b), i)

\* Pieces before other pieces.
LEMMA TilesJoin ==
  ASSUME NEW S, NEW a \in Seq(S), NEW b \in Seq(S),
         NEW m \in Nat, NEW lo \in Nat, NEW hi \in Nat, NEW mid \in Nat, NEW lower \in Nat,
         Tiles(a, m, mid, hi), Tiles(b, m, lo, lower), lower <= mid, lo <= mid, lower <= hi
  PROVE  a \o b \in Seq(S) /\ Tiles(a \o b, m, lo, hi) /\ CutBoth(a \o b, a, b)
<1> DEFINE s == a \o b
           k == Len(a)
           l == Len(b)
<1>1. /\ Pieces(a, k, m) /\ Pieces(b, l, m) /\ Within(a, k, mid, hi) /\ Within(b, l, lo, lower)
  BY DEF Tiles
<1>2. /\ k \in Nat /\ l \in Nat /\ s \in Seq(S) /\ Len(s) = k + l
      /\ \A i \in 1 .. k + l : s[i] = IF i <= k THEN a[i] ELSE b[i - k]
  BY ConcatElements
<1>3. \A i, j \in 1 .. k + l : k < i /\ i < j => i - k \in 1 .. l /\ j - k \in 1 .. l /\ i - k < j - k
  BY <1>2
<1> HIDE DEF s, k, l
<1>4. \A i \in 1 .. k + l : (i <= k /\ i \in 1 .. k) \/ (i > k /\ i - k \in 1 .. l)
  BY <1>2
<1>5. /\ \A i \in 1 .. k : i \in 1 .. k + l /\ s[i] = a[i]
      /\ \A i \in 1 .. l : k + i \in 1 .. k + l /\ s[k + i] = b[i]
  <2>1. \A i \in 1 .. l : k + i \in 1 .. k + l /\ ~ (k + i <= k) /\ (k + i) - k = i
    BY <1>2
  <2>2. \A i \in 1 .. k : i \in 1 .. k + l /\ i <= k
    BY <1>2
  <2>3. ASSUME NEW i \in 1 .. l PROVE s[k + i] = b[i]
    <3>1. s[k + i] = IF k + i <= k THEN a[k + i] ELSE b[(k + i) - k]
      BY ONLY <1>2, <2>1
    <3> QED BY ONLY <2>1, <3>1
  <2> QED BY <1>2, <2>1, <2>2, <2>3
<1>6. ASSUME NEW i \in 1 .. k + l
      PROVE  IsPiece(s[i], m) /\ lo <= s[i].position /\ EndOf(s[i]) <= hi
  <2>1. CASE i <= k
    <3>1. s[i] = a[i] /\ i \in 1 .. k
      BY <1>2, <2>1
    <3>2. IsPiece(s[i], m) /\ mid <= s[i].position /\ EndOf(s[i]) <= hi
      BY <1>1, <3>1 DEF Pieces, Within
    <3> QED BY <3>2 DEF IsPiece
  <2>2. CASE i > k
    <3>1. s[i] = b[i - k] /\ i - k \in 1 .. l
      BY <1>2, <2>2
    <3>2. IsPiece(s[i], m) /\ lo <= s[i].position /\ EndOf(s[i]) <= lower
      BY <1>1, <3>1 DEF Pieces, Within
    <3> QED BY <3>2 DEF IsPiece
  <2> QED BY <1>2, <2>1, <2>2
<1>7. ASSUME NEW i \in 1 .. k + l, NEW j \in 1 .. k + l, i < j PROVE EndOf(s[j]) <= s[i].position
  <2>1. CASE j <= k
    <3>1. s[i] = a[i] /\ s[j] = a[j] /\ i \in 1 .. k /\ j \in 1 .. k
      BY <1>2, <1>7, <2>1
    <3> QED BY <1>7, <1>1, <3>1 DEF Pieces
  <2>2. CASE i > k
    <3>1. s[i] = b[i - k] /\ s[j] = b[j - k] /\ i - k \in 1 .. l /\ j - k \in 1 .. l /\ i - k < j - k
      <4>1. ~ (i <= k) /\ ~ (j <= k)
        BY <1>2, <1>7, <2>2
      <4> QED BY <1>2, <1>7, <1>3, <2>2, <4>1
    <3> QED BY <1>1, <3>1 DEF Pieces
  <2>3. CASE i <= k /\ j > k
    <3>1. s[i] = a[i] /\ s[j] = b[j - k] /\ i \in 1 .. k /\ j - k \in 1 .. l
      BY <1>2, <2>3
    <3>2. mid <= s[i].position /\ EndOf(s[j]) <= lower /\ s[i].position \in Nat /\ EndOf(s[j]) \in Nat
      BY <1>6, <1>1, <3>1 DEF Within, IsPiece
    <3> QED BY <3>2
  <2> QED BY <1>2, <2>1, <2>2, <2>3
<1>8. \A i : Cut(s, k + l, i) <=> Cut(a, k, i) \/ Cut(b, l, i)
  <2> TAKE i
  <2>1. ASSUME Cut(s, k + l, i) PROVE Cut(a, k, i) \/ Cut(b, l, i)
    <3>1. PICK j \in 1 .. k + l : Covers(s[j], i)
      BY <2>1 DEF Cut
    <3>2. (j \in 1 .. k /\ s[j] = a[j]) \/ (j - k \in 1 .. l /\ s[j] = b[j - k])
      BY <1>2, <1>4
    <3> QED BY <3>1, <3>2 DEF Cut
  <2>2. ASSUME Cut(a, k, i) \/ Cut(b, l, i) PROVE Cut(s, k + l, i)
    BY <1>5, <2>2 DEF Cut
  <2> QED BY <2>1, <2>2
<1>9. Pieces(s, k + l, m) /\ Within(s, k + l, lo, hi)
  BY <1>6, <1>7 DEF Pieces, Within
<1> QED BY <1>2, <1>8, <1>9 DEF s, k, l, Tiles, CutBoth

-----------------------------------------------------------------------------
(* A piece and a concurrent operation.                                     *)

\* How the text of m characters changes when operation a is applied: its length,
\* whether its i-th character was there before, and where; where a range that
\* begins or ends at x begins or ends.
NewLength(a, m) == IF a.type = "insert" THEN m + Len(a.content) ELSE m - a.length
IsOld(a, i) == a.type = "insert" => ~ (a.position < i /\ i <= a.position + Len(a.content))
Old(a, i) == IF i <= a.position THEN i
             ELSE IF a.type = "insert" THEN i - Len(a.content) ELSE i + a.length
Pulled(a, x) == IF x <= a.position THEN x ELSE IF x >= EndOf(a) THEN x - a.length ELSE a.position
Beginning(a, x) == IF a.type = "insert" THEN IF a.position <= x THEN x + Len(a.content) ELSE x
                   ELSE Pulled(a, x)
Ending(a, x) == IF a.type = "insert" THEN IF a.position < x THEN x + Len(a.content) ELSE x
                ELSE Pulled(a, x)

\* An operation on a text of m characters, as FitsText says, or a deletion of
\* nothing.
Fits(a, m) ==
  \/ a.type = "insert" /\ a.position \in Nat /\ Len(a.content) \in Nat /\ a.position <= m
  \/ a.type = "delete" /\ a.position \in Nat /\ a.length \in Nat /\ EndOf(a) <= m

\* The list v removes what d removes of the characters that are still there.
Becomes(v, a, d, m) ==
  /\ Pieces(v, Len(v), NewLength(a, m))
  /\ Within(v, Len(v), Beginning(a, d.position), Ending(a, EndOf(d)))
  /\ \A i \in Nat : Cut(v, Len(v), i) <=> IsOld(a, i) /\ Covers(d, Old(a, i))

\* Boundaries keep their order and stay in the text.
LEMMA Boundaries ==
  ASSUME NEW m \in Nat, NEW a, Fits(a, m)
  PROVE  /\ NewLength(a, m) \in Nat /\ Ending(a, m) <= NewLength(a, m)
         /\ \A x \in 0 .. m : /\ Beginning(a, x) \in Nat /\ Ending(a, x) \in Nat
                              /\ Beginning(a, x) <= NewLength(a, m)
         /\ \A x, y \in 0 .. m : x <= y => /\ Ending(a, x) <= Beginning(a, y) /\ Ending(a, x) <= Ending(a, y)
                                           /\ Beginning(a, x) <= Beginning(a, y)
         /\ \A x, y \in 0 .. m : x < y => Beginning(a, x) <= Ending(a, y)
<1>1. CASE a.type = "insert"
  <2> DEFINE p == a.position  l == Len(a.content)
  <2>1. p \in Nat /\ l \in Nat /\ p <= m
    BY <1>1 DEF Fits, IsPiece
  <2> HIDE DEF p, l
  <2>2. /\ NewLength(a, m) = m + l
        /\ \A x : Beginning(a, x) = IF p <= x THEN x + l ELSE x
        /\ \A x : Ending(a, x) = IF p < x THEN x + l ELSE x
    BY <1>1 DEF NewLength, Beginning, Ending, p, l
  <2>3. \A x, y \in 0 .. m : x <= y => /\ Ending(a, x) <= Beginning(a, y) /\ Ending(a, x) <= Ending(a, y)
                                       /\ Beginning(a, x) <= Beginning(a, y)
    BY <2>1, <2>2
  <2>4. \A x \in 0 .. m : /\ Beginning(a, x) \in Nat /\ Ending(a, x) \in Nat
                          /\ Beginning(a, x) <= NewLength(a, m)
    BY <2>1, <2>2
  <2>5. \A x, y \in 0 .. m : x < y => Beginning(a, x) <= Ending(a, y)
    BY <2>1, <2>2
  <2> QED BY <2>1, <2>2, <2>3, <2>4, <2>5
<1>2. CASE a.type # "insert"
  <2> DEFINE p == a.position  l == a.length
  <2>1. p \in Nat /\ l \in Nat /\ p + l <= m /\ EndOf(a) = p + l
    BY <1>2 DEF Fits, IsPiece, EndOf
  <2> HIDE DEF p, l
  <2>2. /\ NewLength(a, m) = m - l
        /\ \A x : Beginning(a, x) = IF x <= p THEN x ELSE IF x >= p + l THEN x - l ELSE p
        /\ \A x : Ending(a, x) = Beginning(a, x)
    BY <1>2, <2>1 DEF NewLength, Beginning, Ending, Pulled, p, l
  <2>3. \A x, y \in 0 .. m : x <= y => Beginning(a, x) <= Beginning(a, y)
    BY <2>1, <2>2
  <2>4. \A x \in 0 .. m : Beginning(a, x) \in Nat /\ Beginning(a, x) <= NewLength(a, m)
    BY <2>1, <2>2
  <2>5. m \in 0 .. m
    OBVIOUS
  <2>6. NewLength(a, m) \in Nat
    BY <2>1, <2>2
  <2>7. Ending(a, m) <= NewLength(a, m)
    BY <2>2, <2>4, <2>5
  <2>8. \A x \in 0 .. m : /\ Beginning(a, x) \in Nat /\ Ending(a, x) \in Nat
                          /\ Beginning(a, x) <= NewLength(a, m)
    BY <2>2, <2>4
  <2>9. \A x, y \in 0 .. m : x <= y => /\ Ending(a, x) <= Beginning(a, y) /\ Ending(a, x) <= Ending(a, y)
                                       /\ Beginning(a, x) <= Beginning(a, y)
    BY <2>2, <2>3
  <2>10. \A x, y \in 0 .. m : x < y => Beginning(a, x) <= Ending(a, y)
    BY <2>2, <2>3
  <2> QED BY <2>6, <2>7, <2>8, <2>9, <2>10
<1> QED BY <1>1, <1>2

\* A deletion made by make_delete.
LEMMA MadePiece ==
  ASSUME NEW p \in Nat, NEW l \in Nat, l >= 1, NEW site, NEW m \in Nat, p + l <= m
  PROVE  /\ IsPiece(MakeDelete(p, l, site), m) /\ MakeDelete(p, l, site).position = p
         /\ EndOf(MakeDelete(p, l, site)) = p + l
BY DEF IsPiece, MakeDelete, EndOf

\* Concurrent text moves a deletion, or splits it.
LEMMA InsertAndPiece ==
  ASSUME NEW m \in Nat, NEW a, Fits(a, m), a.type = "insert", NEW d, IsPiece(d, m)
  PROVE  Becomes(TransformDelete(a, d), a, d, m)
<1> DEFINE p == a.position  l == Len(a.content)  s == d.position  k == d.length  n == m + l
           v == TransformDelete(a, d)
<1>1. p \in Nat /\ l \in Nat /\ p <= m /\ s \in Nat /\ k \in Nat /\ k >= 1 /\ s + k <= m /\ EndOf(d) = s + k /\ n \in Nat
  BY DEF Fits, IsPiece, EndOf
<1>2. v = IF p <= s THEN << MakeDelete(s + l, k, d.site) >>
          ELSE IF p >= s + k THEN << d >>
          ELSE << MakeDelete(p + l, (s + k) - p, d.site), MakeDelete(s, p - s, d.site) >>
  BY <1>1 DEF TransformDelete
<1> DEFINE b == IF p <= s THEN s + l ELSE s
           e == IF p < s + k THEN s + k + l ELSE s + k
           isOld(i) == ~ (p < i /\ i <= p + l)
           old(i) == IF i <= p THEN i ELSE i - l
<1>3. /\ NewLength(a, m) = n /\ Beginning(a, s) = b /\ Ending(a, EndOf(d)) = e
      /\ \A i : IsOld(a, i) <=> isOld(i)
      /\ \A i : Old(a, i) = old(i)
  BY <1>1 DEF NewLength, Beginning, Ending, IsOld, Old
<1>4. \A x, i : Covers(x, i) <=> x.position < i /\ i <= EndOf(x)
  BY DEF Covers
<1> SUFFICES /\ Pieces(v, Len(v), n) /\ Within(v, Len(v), b, e)
             /\ \A i \in Nat : Cut(v, Len(v), i) <=> isOld(i) /\ s < old(i) /\ old(i) <= s + k
  <2>1. v = TransformDelete(a, d) /\ EndOf(d) = s + k
    BY <1>1
  <2> HIDE DEF v, n, b, e, isOld, old, p, l, k
  <2>2. \A i \in Nat : Cut(v, Len(v), i) <=> IsOld(a, i) /\ Covers(d, Old(a, i))
    BY <1>3, <1>4, <2>1
  <2> QED BY <1>3, <2>1, <2>2 DEF Becomes
<1> HIDE DEF v, n
<1>5. CASE p <= s
  <2> DEFINE x == MakeDelete(s + l, k, d.site)
  <2>1. IsPiece(x, n) /\ x.position = s + l /\ EndOf(x) = s + l + k
    <3>1. s + l \in Nat /\ s + l + k <= n
      BY <1>1 DEF n
    <3> QED BY <1>1, <3>1, MadePiece
  <2>2. v = << x >>
    BY <1>2, <1>5
  <2> HIDE DEF x
  <2>3. /\ Len(v) = 1 /\ Pieces(v, 1, n) /\ Within(v, 1, s + l, s + l + k)
        /\ \A i : Cut(v, 1, i) <=> s + l < i /\ i <= s + l + k
    BY <1>1, <1>4, <2>1, <2>2, OnePiece
  <2>4. b = s + l /\ e = s + l + k
    BY <1>1, <1>5
  <2>5. \A i \in Nat : s + l < i /\ i <= s + l + k <=> isOld(i) /\ s < old(i) /\ old(i) <= s + k
    BY <1>1, <1>5
  <2> QED BY <2>3, <2>4, <2>5
<1>6. CASE p >= s + k
  <2>1. v = << d >>
    BY <1>1, <1>2, <1>6
  <2>2. IsPiece(d, n)
    BY <1>1 DEF IsPiece, n
  <2>3. /\ Len(v) = 1 /\ Pieces(v, 1, n) /\ Within(v, 1, s, s + k)
        /\ \A i : Cut(v, 1, i) <=> s < i /\ i <= s + k
    BY <1>1, <1>4, <2>1, <2>2, OnePiece
  <2>4. b = s /\ e = s + k
    BY <1>1, <1>6
  <2>5. \A i \in Nat : s < i /\ i <= s + k <=> isOld(i) /\ s < old(i) /\ old(i) <= s + k
    BY <1>1, <1>6
  <2> QED BY <2>3, <2>4, <2>5
<1>7. CASE s < p /\ p < s + k
  <2> DEFINE x == MakeDelete(p + l, (s + k) - p, d.site)
             y == MakeDelete(s, p - s, d.site)
  <2>1. IsPiece(x, n) /\ x.position = p + l /\ EndOf(x) = s + k + l
    <3>1. p + l \in Nat /\ (s + k) - p \in Nat /\ (s + k) - p >= 1 /\ (p + l) + ((s + k) - p) <= n
          /\ (p + l) + ((s + k) - p) = s + k + l
      BY <1>1, <1>7 DEF n
    <3> QED BY <1>1, <3>1, MadePiece, SMTT(30)
  <2>2. IsPiece(y, n) /\ y.position = s /\ EndOf(y) = p
    <3>1. p - s \in Nat /\ p - s >= 1 /\ s + (p - s) <= n /\ s + (p - s) = p
      BY <1>1, <1>7 DEF n
    <3> QED BY <1>1, <3>1, MadePiece
  <2>3. v = << x, y >>
    BY <1>1, <1>2, <1>7
  <2>4. EndOf(y) <= x.position
    BY <1>1, <2>1, <2>2
  <2> HIDE DEF x, y
  <2>5. /\ Len(v) = 2 /\ Pieces(v, 2, n) /\ Within(v, 2, s, s + k + l)
        /\ \A i : Cut(v, 2, i) <=> (p + l < i /\ i <= s + k + l) \/ (s < i /\ i <= p)
    BY <1>1, <1>4, <2>1, <2>2, <2>3, <2>4, TwoPieces
  <2>6. b = s /\ e = s + k + l
    BY <1>1, <1>7
  <2>7. \A i \in Nat : (p + l < i /\ i <= s + k + l) \/ (s < i /\ i <= p)
                         <=> isOld(i) /\ s < old(i) /\ old(i) <= s + k
    BY <1>1, <1>7
  <2> QED BY <2>5, <2>6, <2>7
<1> QED BY <1>1, <1>5, <1>6, <1>7

\* Of what a concurrent deletion removed nothing is left to remove.
LEMMA DeleteAndPiece ==
  ASSUME NEW m \in Nat, NEW a, Fits(a, m), a.type = "delete", NEW d, IsPiece(d, m)
  PROVE  Becomes(TransformDelete(a, d), a, d, m)
<1> DEFINE p == a.position  l == a.length  s == d.position  k == d.length  n == m - l
           v == TransformDelete(a, d)
           b == IF s <= p THEN s ELSE IF s >= p + l THEN s - l ELSE p
           e == IF s + k <= p THEN s + k ELSE IF s + k >= p + l THEN s + k - l ELSE p
           old(i) == IF i <= p THEN i ELSE i + l
<1>1. /\ a.type # "insert" /\ p \in Nat /\ l \in Nat /\ p + l <= m /\ EndOf(a) = p + l
      /\ s \in Nat /\ k \in Nat /\ k >= 1 /\ s + k <= m /\ EndOf(d) = s + k /\ n \in Nat
  BY DEF Fits, IsPiece, EndOf
<1>2. b \in Nat /\ e \in Nat /\ b <= e /\ e <= n
  BY <1>1
<1>3. v = IF e - b <= 0 THEN << >> ELSE << MakeDelete(b, e - b, d.site) >>
  <2> DEFINE overlap == Greater(0, Lesser(EndOf(a), EndOf(d)) - Greater(a.position, d.position))
             before == Greater(0, Lesser(EndOf(a), d.position) - a.position)
  <2>1. v = IF k - overlap <= 0 THEN << >> ELSE << MakeDelete(s - before, k - overlap, d.site) >>
    BY <1>1 DEF TransformDelete
  <2>2. overlap = Greater(0, Lesser(p + l, s + k) - Greater(p, s)) /\ before = Greater(0, Lesser(p + l, s) - p)
    BY <1>1
  <2> HIDE DEF overlap, before, v
  <2>3. k - overlap = e - b
    <3> HIDE DEF p, l, s, k
    <3> QED BY <1>1, <2>2, SMTT(30) DEF Greater, Lesser
  <2>4. s - before = b
    BY <1>1, <2>2 DEF Greater, Lesser
  <2> HIDE DEF b, e
  <2> QED BY <2>1, <2>3, <2>4
<1>4. /\ NewLength(a, m) = n /\ Beginning(a, s) = b /\ Ending(a, EndOf(d)) = e
      /\ \A i : IsOld(a, i)
      /\ \A i : Old(a, i) = old(i)
  BY <1>1 DEF NewLength, Beginning, Ending, Pulled, IsOld, Old
<1>5. \A x, i : Covers(x, i) <=> x.position < i /\ i <= EndOf(x)
  BY DEF Covers
<1>6. \A i \in Nat : b < i /\ i <= e <=> s < old(i) /\ old(i) <= s + k
  BY <1>1
<1> SUFFICES /\ Pieces(v, Len(v), n) /\ Within(v, Len(v), b, e)
             /\ \A i \in Nat : Cut(v, Len(v), i) <=> b < i /\ i <= e
  <2>1. v = TransformDelete(a, d) /\ EndOf(d) = s + k
    BY <1>1
  <2> HIDE DEF v, n, b, e, old, p, l, k
  <2>2. \A i \in Nat : Cut(v, Len(v), i) <=> IsOld(a, i) /\ Covers(d, Old(a, i))
    BY <1>4, <1>5, <1>6, <2>1
  <2> QED BY <1>4, <2>1, <2>2 DEF Becomes
<1> HIDE DEF v, n, b, e
<1>7. CASE e <= b
  <2>1. v = << >>
    BY <1>2, <1>3, <1>7
  <2>2. /\ Len(v) = 0 /\ Pieces(v, 0, n) /\ Within(v, 0, b, e)
        /\ \A i : ~ Cut(v, 0, i)
    BY <2>1, NoPieces
  <2>3. \A i \in Nat : ~ (b < i /\ i <= e)
    BY <1>2, <1>7
  <2> QED BY <2>2, <2>3
<1>8. CASE b < e
  <2> DEFINE x == MakeDelete(b, e - b, d.site)
  <2>1. IsPiece(x, n) /\ x.position = b /\ EndOf(x) = e
    <3>1. e - b \in Nat /\ e - b >= 1 /\ b + (e - b) <= n /\ b + (e - b) = e
      BY <1>2, <1>8
    <3> QED BY <1>1, <1>2, <3>1, MadePiece
  <2>2. v = << x >>
    BY <1>2, <1>3, <1>8
  <2> HIDE DEF x
  <2>3. /\ Len(v) = 1 /\ Pieces(v, 1, n) /\ Within(v, 1, b, e)
        /\ \A i : Cut(v, 1, i) <=> b < i /\ i <= e
    BY <1>1, <1>5, <2>1, <2>2, OnePiece
  <2> QED BY <2>3
<1> QED BY <1>2, <1>7, <1>8

-----------------------------------------------------------------------------
(* A round of transform_operations.                                        *)

\* What an operation becomes are operations by the same user.
LEMMA TransformTypes ==
  ASSUME NEW Char, NEW S, NEW T, NEW a \in Operations(Char, S), NEW b \in Operations(Char, T)
  PROVE  TransformOperation(a, b) \in Seq(Operations(Char, T))
<1> DEFINE Ops == Operations(Char, T)
           p == a.position  l == a.length  c == Len(a.content)  s == b.position  k == b.length
<1> SUFFICES TransformOperation(a, b) \in Seq(Ops)
  OBVIOUS
<1>1. /\ p \in Nat /\ l \in Nat /\ c \in Nat /\ s \in Nat /\ k \in Nat /\ b.site \in T /\ b \in Ops
      /\ a.type \in {"insert", "delete"} /\ b.type \in {"insert", "delete"} /\ b.content \in Seq(Char)
      /\ EndOf(a) = p + l /\ EndOf(b) = s + k
  BY DEF Operations, EndOf
<1>2. \A q \in Nat, n \in Nat : MakeDelete(q, n, b.site) \in Ops
  <2>1. << >> \in Seq(Char)
    OBVIOUS
  <2> QED BY <1>1, <2>1 DEF MakeDelete, Operations
<1>3. \A x \in Ops, y \in Ops : << >> \in Seq(Ops) /\ << x >> \in Seq(Ops) /\ << x, y >> \in Seq(Ops)
  <2> HIDE DEF Ops
  <2> QED OBVIOUS
<1>4. CASE b.type = "insert"
  <2>1. InsertPosition(a, b) \in Nat
    <3>1. InsertPosition(a, b) = IF a.type = "insert" THEN IF s > p \/ (s = p /\ a.site <= b.site) THEN s + c ELSE s
                                 ELSE IF s >= p + l THEN s - l ELSE Lesser(s, p)
      BY <1>1 DEF InsertPosition
    <3> HIDE DEF p, l, c, s
    <3> QED BY <1>1, <3>1 DEF Lesser
  <2>2. TransformInsert(a, b) \in Ops
    BY <2>1 DEF TransformInsert, Operations
  <2> QED BY <1>3, <1>4, <2>2 DEF TransformOperation
<1>5. CASE b.type = "delete" /\ a.type = "insert"
  <2>1. TransformOperation(a, b) = IF p <= s THEN << MakeDelete(s + c, k, b.site) >>
                                   ELSE IF p >= s + k THEN << b >>
                                   ELSE << MakeDelete(p + c, (s + k) - p, b.site), MakeDelete(s, p - s, b.site) >>
    BY <1>1, <1>5 DEF TransformOperation, TransformDelete
  <2> HIDE DEF Ops, p, l, c, s, k
  <2>2. CASE p <= s
    <3>1. s + c \in Nat
      BY <1>1
    <3> DEFINE x == MakeDelete(s + c, k, b.site)
    <3>2. x \in Ops
      BY <1>1, <1>2, <3>1
    <3>3. TransformOperation(a, b) = << x >>
      BY <2>1, <2>2
    <3> HIDE DEF x
    <3> QED BY <1>3, <3>2, <3>3
  <2>3. CASE s < p /\ p >= s + k
    BY <1>1, <1>3, <2>1, <2>3
  <2>4. CASE s < p /\ p < s + k
    <3>1. p + c \in Nat /\ (s + k) - p \in Nat /\ p - s \in Nat
      BY <1>1, <2>4
    <3> DEFINE x == MakeDelete(p + c, (s + k) - p, b.site)
               y == MakeDelete(s, p - s, b.site)
    <3>2. x \in Ops /\ y \in Ops
      BY <1>1, <1>2, <3>1
    <3>3. ~ (p <= s) /\ ~ (p >= s + k)
      BY <1>1, <2>4
    <3>4. TransformOperation(a, b) = << x, y >>
      BY <2>1, <3>3
    <3> HIDE DEF x, y
    <3> QED BY <1>3, <3>2, <3>4
  <2> QED BY <1>1, <2>2, <2>3, <2>4
<1>6. CASE b.type = "delete" /\ a.type = "delete"
  <2> DEFINE overlap == Greater(0, Lesser(p + l, s + k) - Greater(p, s))
             before == Greater(0, Lesser(p + l, s) - p)
  <2>1. TransformOperation(a, b) = IF k - overlap <= 0 THEN << >> ELSE << MakeDelete(s - before, k - overlap, b.site) >>
    BY <1>1, <1>6 DEF TransformOperation, TransformDelete
  <2>2. overlap \in Nat /\ before \in Nat /\ before <= s
    <3> HIDE DEF p, l, s, k
    <3> QED BY <1>1 DEF Greater, Lesser
  <2> HIDE DEF Ops, p, l, c, s, k, overlap, before
  <2>3. CASE k - overlap <= 0
    BY <1>1, <1>3, <2>1, <2>3
  <2>4. CASE ~ (k - overlap <= 0)
    <3>1. k - overlap \in Nat /\ s - before \in Nat
      BY <1>1, <2>2, <2>4
    <3> DEFINE x == MakeDelete(s - before, k - overlap, b.site)
    <3>2. x \in Ops
      BY <1>2, <3>1
    <3>3. TransformOperation(a, b) = << x >>
      BY <2>1, <2>4
    <3> HIDE DEF x
    <3> QED BY <1>3, <3>2, <3>3
  <2> QED BY <2>3, <2>4
<1> QED BY <1>1, <1>4, <1>5, <1>6

\* So are those that several become.
LEMMA PendingTypes ==
  ASSUME NEW Char, NEW S, NEW T, NEW a \in Operations(Char, S), NEW ops \in Seq(Operations(Char, T))
  PROVE  TransformPending(ops, a) \in Seq(Operations(Char, T))
<1> DEFINE Ops == Operations(Char, T)
           n == Len(ops)
<1>0. ops \in Seq(Ops)
  OBVIOUS
<1>1. n \in Nat /\ DOMAIN ops = 1 .. n /\ \A k \in 1 .. n : ops[k] \in Ops
  <2> HIDE DEF Ops
  <2> QED BY <1>0
<1>2. PICK out : PendingSteps(out, a, ops, n) /\ TransformPending(ops, a) = out[n]
  BY <1>1, PendingIsLoop
<1>3. \A k \in 1 .. n : TransformOperation(a, ops[k]) \in Seq(Ops)
  BY <1>1, TransformTypes
<1> HIDE DEF Ops
<1>4. out[n] \in Seq(Ops)
  <2> DEFINE U == {k \in 0 .. n : out[k] \notin Seq(Ops)}
  <2> SUFFICES ASSUME n \in U PROVE FALSE
    BY <1>1
  <2>1. PICK m \in U : \A k \in U : m <= k
    <3>1. U \in SUBSET Nat
      OBVIOUS
    <3> HIDE DEF U
    <3> QED BY <3>1, NatLeast
  <2>2. m # 0
    <3>1. << >> \in Seq(Ops)
      OBVIOUS
    <3> QED BY <1>2, <3>1 DEF PendingSteps
  <2>3. m \in 1 .. n /\ m - 1 \in 0 .. n /\ m - 1 \notin U
    BY <1>1, <2>1, <2>2
  <2>4. out[m] = out[m - 1] \o TransformOperation(a, ops[m]) /\ out[m - 1] \in Seq(Ops)
    BY <1>2, <2>3 DEF PendingSteps
  <2>5. out[m] \in Seq(Ops)
    BY <1>3, <2>3, <2>4, ConcatElements
  <2> QED BY <2>5
<1> QED BY <1>2, <1>4 DEF Ops

\* What is sorted stays as it is.
LEMMA SortedStay ==
  ASSUME NEW S, NEW ops \in Seq(S), NEW n, n = Len(ops),
         \A k \in 1 .. n : ops[k].position \in Nat,
         \A j, k \in 1 .. n : j < k => ops[k].position <= ops[j].position
  PROVE  RightmostFirst(ops) = ops
<1> DEFINE Before(j, i) == \/ ops[j].position > ops[i].position
                           \/ ops[j].position = ops[i].position /\ j <= i
           Rank(i) == Cardinality({j \in 1 .. n : Before(j, i)})
<1>1. n \in Nat /\ DOMAIN ops = 1 .. n
  OBVIOUS
<1>2. ASSUME NEW i \in 1 .. n PROVE Rank(i) = i
  <2>1. \A j \in 1 .. n : Before(j, i) <=> j <= i
    <3> TAKE j \in 1 .. n
    <3>1. CASE j < i
      BY <1>1, <3>1
    <3>2. CASE j = i
      BY <1>1, <3>2
    <3>3. CASE i < j
      BY <1>1, <3>3
    <3> QED BY <1>1, <3>1, <3>2, <3>3
  <2> HIDE DEF Before
  <2>2. {j \in 1 .. n : Before(j, i)} = 1 .. i
    BY <1>1, <2>1
  <2>3. Cardinality(1 .. i) = i
    <3>1. 1 \in Int /\ i \in Int /\ 1 <= i
      BY <1>1
    <3>2. Cardinality(1 .. i) = IF 1 > i THEN 0 ELSE i - 1 + 1
      BY <3>1, FS_Interval
    <3> QED BY <3>1, <3>2
  <2> QED BY <2>2, <2>3
<1>3. RightmostFirst(ops) = [k \in 1 .. n |-> ops[CHOOSE i \in 1 .. n : Rank(i) = k]]
  BY <1>1 DEF RightmostFirst
<1> HIDE DEF Rank, Before
<1>4. \A k \in 1 .. n : (CHOOSE i \in 1 .. n : Rank(i) = k) = k
  BY <1>2
<1>5. RightmostFirst(ops) = [k \in 1 .. n |-> ops[k]]
  BY <1>3, <1>4
<1> QED BY <1>1, <1>5

-----------------------------------------------------------------------------

\* An operation fits a text as it fits the text's length.
LEMMA FitsIs ==
  ASSUME NEW Char, NEW S, NEW a \in Operations(Char, S), NEW t \in Seq(Char), FitsText(a, t), NEW m, m = Len(t)
  PROVE  Fits(a, m)
<1>1. /\ a.type \in {"insert", "delete"} /\ a.position \in Nat /\ a.content \in Seq(Char) /\ a.length \in Nat
      /\ m \in Nat /\ EndOf(a) \in Nat
  BY DEF Operations, EndOf
<1> QED BY <1>1 DEF FitsText, Fits, IsPiece

\* A round leaves pieces, which remove what they removed before.
LEMMA RoundOfPieces ==
  ASSUME NEW Char, NEW S, NEW T, NEW a \in Operations(Char, S), NEW ops \in Seq(Operations(Char, T)),
         NEW m \in Nat, Fits(a, m), Pieces(ops, Len(ops), m), NEW v, v = TransformRound(ops, a)
  PROVE  /\ v \in Seq(Operations(Char, T)) /\ Pieces(v, Len(v), NewLength(a, m))
         /\ \A i \in Nat : Cut(v, Len(v), i) <=> IsOld(a, i) /\ Cut(ops, Len(ops), Old(a, i))
<1> DEFINE Ops == Operations(Char, T)
           n == Len(ops)
           new == NewLength(a, m)
           mid(k) == IF k = 0 THEN new ELSE Beginning(a, ops[k].position)
<1>0. ops \in Seq(Ops)
  OBVIOUS
<1>1. n \in Nat /\ DOMAIN ops = 1 .. n /\ \A k \in 1 .. n : ops[k] \in Ops
  <2> HIDE DEF Ops
  <2> QED BY <1>0
<1>2. PICK out : PendingSteps(out, a, ops, n) /\ TransformPending(ops, a) = out[n]
  BY <1>1, PendingIsLoop
<1>3. ASSUME NEW k \in 1 .. n
      PROVE  /\ TransformOperation(a, ops[k]) \in Seq(Ops)
             /\ Becomes(TransformOperation(a, ops[k]), a, ops[k], m)
             /\ ops[k].position \in 0 .. m /\ EndOf(ops[k]) \in 0 .. m /\ ops[k].position < EndOf(ops[k])
  <2>1. IsPiece(ops[k], m)
    BY DEF Pieces
  <2>2. TransformOperation(a, ops[k]) = TransformDelete(a, ops[k])
    BY <2>1 DEF IsPiece, TransformOperation
  <2>3. Becomes(TransformOperation(a, ops[k]), a, ops[k], m)
    <3>1. CASE a.type = "insert"
      BY <2>1, <2>2, <3>1, InsertAndPiece
    <3>2. CASE a.type # "insert"
      <4>1. a.type = "delete"
        BY <3>2 DEF Fits
      <4> QED BY <2>1, <2>2, <4>1, DeleteAndPiece
    <3> QED BY <3>1, <3>2
  <2>4. TransformOperation(a, ops[k]) \in Seq(Ops)
    BY <1>1, TransformTypes
  <2>5. ops[k].position \in 0 .. m /\ EndOf(ops[k]) \in 0 .. m /\ ops[k].position < EndOf(ops[k])
    BY <2>1 DEF IsPiece, EndOf
  <2> QED BY <2>3, <2>4, <2>5
<1>4. /\ new \in Nat /\ Ending(a, m) <= new
      /\ \A x \in 0 .. m : Beginning(a, x) \in Nat /\ Ending(a, x) \in Nat /\ Beginning(a, x) <= new
      /\ \A x, y \in 0 .. m : x <= y => /\ Ending(a, x) <= Beginning(a, y) /\ Ending(a, x) <= Ending(a, y)
                                        /\ Beginning(a, x) <= Beginning(a, y)
      /\ \A x, y \in 0 .. m : x < y => Beginning(a, x) <= Ending(a, y)
  BY Boundaries
<1> HIDE DEF Ops, n, new
\* The first k of them have become pieces from mid(k) on.
<1> DEFINE Done(k, o) ==
      /\ o \in Seq(Ops) /\ Pieces(o, Len(o), new) /\ Within(o, Len(o), mid(k), new)
      /\ \A i \in Nat : Cut(o, Len(o), i) <=> IsOld(a, i) /\ Cut(ops, k, Old(a, i))
<1>5. Done(0, out[0])
  <2> DEFINE e == << >>
  <2>1. e \in Seq(Ops) /\ Len(e) = 0 /\ Pieces(e, 0, new) /\ Within(e, 0, mid(0), new) /\ \A i : ~ Cut(e, 0, i)
    BY NoPieces
  <2>2. out[0] = e
    BY <1>2 DEF PendingSteps
  <2>3. \A i : ~ Cut(ops, 0, i)
    BY DEF Cut
  <2> HIDE DEF e, mid
  <2> QED BY <2>1, <2>2, <2>3
<1>6. ASSUME NEW k \in 1 .. n, Done(k - 1, out[k - 1]) PROVE Done(k, out[k])
  <2> DEFINE o == out[k - 1]
             d == ops[k]
             w == TransformOperation(a, d)
             lo == Beginning(a, d.position)
             lower == Ending(a, EndOf(d))
             from == mid(k - 1)
  <2>1. out[k] = o \o w
    BY <1>2 DEF PendingSteps
  <2>2. /\ w \in Seq(Ops) /\ Pieces(w, Len(w), new) /\ Within(w, Len(w), lo, lower)
        /\ \A i \in Nat : Cut(w, Len(w), i) <=> IsOld(a, i) /\ Covers(d, Old(a, i))
    BY <1>3 DEF Becomes, new
  <2>3. lo \in Nat /\ lower \in Nat /\ lo <= lower /\ lower <= new
    <3>1. d.position \in 0 .. m /\ EndOf(d) \in 0 .. m /\ d.position < EndOf(d) /\ m \in 0 .. m /\ EndOf(d) <= m
      BY <1>3
    <3>2. lo \in Nat /\ lower \in Nat
      BY <1>4, <3>1
    <3>3. lower <= Ending(a, m) /\ Ending(a, m) \in Nat
      <4> DEFINE e == EndOf(d)
      <4>1. e \in 0 .. m /\ m \in 0 .. m /\ e <= m
        BY <3>1
      <4> HIDE DEF e
      <4>2. Ending(a, e) <= Ending(a, m) /\ Ending(a, m) \in Nat
        BY ONLY <1>4, <4>1
      <4> QED BY <4>2 DEF e
    <3>4. lo <= lower
      BY <1>4, <3>1
    <3> QED BY <1>4, <3>2, <3>3, <3>4
  <2>4. from \in Nat /\ lower <= from /\ from <= new
    <3>1. CASE k = 1
      BY <1>4, <2>3, <3>1
    <3>2. CASE k # 1
      <4>1. k - 1 \in 1 .. n /\ k - 1 < k /\ k - 1 # 0
        BY <1>1, <3>2
      <4>2. EndOf(d) <= ops[k - 1].position
        BY <4>1 DEF Pieces, n
      <4>3. ops[k - 1].position \in 0 .. m /\ EndOf(d) \in 0 .. m
        BY <1>3, <4>1
      <4>4. from = Beginning(a, ops[k - 1].position)
        BY <4>1
      <4> QED BY <1>4, <4>2, <4>3, <4>4
    <3> QED BY <3>1, <3>2
  <2>5. /\ o \in Seq(Ops) /\ Pieces(o, Len(o), new) /\ Within(o, Len(o), from, new)
        /\ \A i \in Nat : Cut(o, Len(o), i) <=> IsOld(a, i) /\ Cut(ops, k - 1, Old(a, i))
    BY <1>6
  <2>6. mid(k) = lo
    BY <1>1
  <2>7. \A i : Cut(ops, k, i) <=> Cut(ops, k - 1, i) \/ Covers(d, i)
    <3>1. \A j : j \in 1 .. k <=> j \in 1 .. k - 1 \/ j = k
      BY <1>1
    <3> QED BY <3>1 DEF Cut
  <2> HIDE DEF mid, o, d, w, lo, lower, from
  <2>8. lo <= from /\ lower <= new
    BY <1>4, <2>3, <2>4
  <2>9. /\ o \o w \in Seq(Ops) /\ Pieces(o \o w, Len(o \o w), new) /\ Within(o \o w, Len(o \o w), lo, new)
        /\ \A i : Cut(o \o w, Len(o \o w), i) <=> Cut(o, Len(o), i) \/ Cut(w, Len(w), i)
    <3>1. Tiles(o, new, from, new) /\ Tiles(w, new, lo, lower)
      BY <2>2, <2>5 DEF Tiles
    <3>2. o \in Seq(Ops) /\ w \in Seq(Ops)
      BY <2>2, <2>5
    <3>3. new \in Nat /\ lo \in Nat /\ from \in Nat /\ lower \in Nat /\ lower <= from /\ lo <= from /\ lower <= new
      BY <1>4, <2>3, <2>4, <2>8
    <3>4. o \o w \in Seq(Ops) /\ Tiles(o \o w, new, lo, new) /\ CutBoth(o \o w, o, w)
      BY ONLY <3>1, <3>2, <3>3, TilesJoin
    <3> QED BY <3>4 DEF Tiles, CutBoth
  <2>10. ASSUME NEW i \in Nat
         PROVE  Cut(o \o w, Len(o \o w), i) <=> IsOld(a, i) /\ Cut(ops, k, Old(a, i))
    BY <2>2, <2>5, <2>7, <2>9
  <2> QED BY <2>1, <2>6, <2>9, <2>10 DEF o, w
<1>7. Done(n, out[n])
  <2> DEFINE U == {k \in 0 .. n : ~ Done(k, out[k])}
  <2> HIDE DEF Done
  <2> SUFFICES ASSUME n \in U PROVE FALSE
    BY <1>1
  <2>1. PICK k \in U : \A j \in U : k <= j
    <3>1. U \in SUBSET Nat
      OBVIOUS
    <3> HIDE DEF U
    <3> QED BY <3>1, NatLeast
  <2>2. k # 0
    BY <1>5
  <2>3. k \in 1 .. n /\ k - 1 \in 0 .. n /\ k - 1 \notin U
    BY <1>1, <2>1, <2>2
  <2> QED BY <1>6, <2>3
<1>8. RightmostFirst(out[n]) = out[n]
  <2> DEFINE o == out[n]
  <2>1. \A k \in 1 .. Len(o) : o[k].position \in Nat /\ o[k].length \in Nat /\ EndOf(o[k]) = o[k].position + o[k].length
    BY <1>7 DEF Pieces, IsPiece, EndOf
  <2>2. \A j, k \in 1 .. Len(o) : j < k => EndOf(o[k]) <= o[j].position
    BY <1>7 DEF Pieces
  <2>3. ASSUME NEW j \in 1 .. Len(o), NEW k \in 1 .. Len(o), j < k PROVE o[k].position <= o[j].position
    <3> DEFINE x == o[k].position  l == o[k].length  e == EndOf(o[k])  y == o[j].position
    <3>1. x \in Nat /\ l \in Nat /\ e = x + l /\ y \in Nat /\ e <= y
      BY <2>1, <2>2, <2>3
    <3> HIDE DEF x, l, e, y
    <3>2. x <= y
      BY ONLY <3>1
    <3> QED BY <3>2 DEF x, y
  <2>4. o \in Seq(Ops)
    BY <1>7
  <2> HIDE DEF o
  <2> QED BY <2>1, <2>3, <2>4, SortedStay DEF o
<1>9. v = out[n]
  BY <1>2, <1>8 DEF TransformRound
<1> QED BY <1>7, <1>9 DEF Ops, n, new

\* An insertion stays one.
LEMMA RoundOfInsert ==
  ASSUME NEW Char, NEW S, NEW T, NEW a \in Operations(Char, S), NEW b \in Operations(Char, T), b.type = "insert"
  PROVE  TransformRound(<< b >>, a) = << TransformInsert(a, b) >>
<1> DEFINE ops == << b >>
           x == TransformInsert(a, b)
           Ops == Operations(Char, T)
<1>1. DOMAIN ops = 1 .. 1 /\ ops[1] = b /\ 1 \in Nat
  OBVIOUS
<1>2. TransformOperation(a, b) = << x >>
  BY DEF TransformOperation
<1>3. << x >> \in Seq(Ops)
  BY <1>2, TransformTypes
<1> HIDE DEF ops
<1>4. PICK out : PendingSteps(out, a, ops, 1) /\ TransformPending(ops, a) = out[1]
  BY <1>1, PendingIsLoop
<1>5. out[1] = << >> \o << x >>
  <2>1. 1 \in 1 .. 1 /\ 1 - 1 = 0
    OBVIOUS
  <2>2. out[1] = out[1 - 1] \o TransformOperation(a, ops[1])
    BY <1>4, <2>1 DEF PendingSteps
  <2>3. out[0] = << >>
    BY <1>4 DEF PendingSteps
  <2> QED BY ONLY <1>1, <1>2, <2>1, <2>2, <2>3
<1> HIDE DEF x, Ops
<1>6. out[1] = << x >>
  BY <1>5
<1>7. RightmostFirst(<< x >>) = << x >>
  <2> DEFINE s == << x >>
  <2>1. s \in Seq(Ops) /\ Len(s) = 1 /\ s[1] = x
    BY <1>3
  <2>2. x.position \in Nat
    <3>1. x \in Ops
      BY <1>3, <2>1
    <3> QED BY <3>1 DEF Ops, Operations
  <2> HIDE DEF s
  <2>3. \A k \in 1 .. 1 : k = 1
    OBVIOUS
  <2>4. RightmostFirst(s) = s
    BY <2>1, <2>2, <2>3, SortedStay
  <2> QED BY <2>4 DEF s
<1> QED BY <1>4, <1>6, <1>7 DEF TransformRound, ops, x

-----------------------------------------------------------------------------
(* Applying the pieces.                                                    *)

\* r is what the first n operations leave of t: character i of r is character
\* f[i] of t, in order, and those that are not cut are there.
Rising(f, n) == \A i, j \in 1 .. n : i < j => f[i] < f[j]
Reaches(f, n, x) == \E i \in 1 .. n : f[i] = x
Left(r, t, f, ops, n) ==
  /\ r \in Seq(Nat) /\ f \in [1 .. Len(r) -> 1 .. Len(t)] /\ Rising(f, Len(r))
  /\ \A i \in 1 .. Len(r) : r[i] = t[f[i]]
  /\ \A x \in 1 .. Len(t) : Reaches(f, Len(r), x) <=> ~ Cut(ops, n, x)

\* Up to there nothing was removed yet.
Whole(f, n, e) == e \in Nat /\ e <= n /\ \A i \in 1 .. e : f[i] = i

\* The indices that are left after p + 1 .. p + l are taken out.
Skip(f, n, p, l) == [i \in 1 .. n - l |-> f[IF i <= p THEN i ELSE i + l]]

\* Those left are still in order and lack just what was taken out.
LEMMA SkipIs ==
  ASSUME NEW n \in Nat, NEW N \in Nat, NEW f \in [1 .. n -> 1 .. N], Rising(f, n), NEW e, Whole(f, n, e),
         NEW p \in Nat, NEW l \in Nat, p + l <= e
  PROVE  /\ Skip(f, n, p, l) \in [1 .. n - l -> 1 .. N] /\ Rising(Skip(f, n, p, l), n - l)
         /\ Whole(Skip(f, n, p, l), n - l, p)
         /\ \A x \in 1 .. N : Reaches(Skip(f, n, p, l), n - l, x) <=> Reaches(f, n, x) /\ ~ (p < x /\ x <= p + l)
<1> DEFINE g == Skip(f, n, p, l)
           old(i) == IF i <= p THEN i ELSE i + l
<1>1. n - l \in Nat /\ e \in Nat /\ e <= n /\ p <= n - l
  BY DEF Whole
<1>2. \A i \in 1 .. n - l : old(i) \in 1 .. n /\ g[i] = f[old(i)]
  BY <1>1 DEF Skip
<1>3. \A i, j \in 1 .. n - l : i < j => old(i) < old(j)
  BY <1>1
<1>4. g \in [1 .. n - l -> 1 .. N]
  <2>1. g = [i \in 1 .. n - l |-> f[old(i)]]
    BY DEF Skip
  <2> HIDE DEF g, old
  <2> QED BY <1>2, <2>1
<1>5. Rising(g, n - l)
  <2> HIDE DEF g, old
  <2> QED BY <1>2, <1>3 DEF Rising
<1>6. Whole(g, n - l, p)
  <2>1. \A i \in 1 .. p : old(i) = i /\ i \in 1 .. n - l /\ i \in 1 .. e
    BY <1>1
  <2> HIDE DEF g, old
  <2> QED BY <1>1, <1>2, <2>1 DEF Whole
<1>7. \A i, j \in 1 .. n : f[i] = f[j] => i = j
  <2> SUFFICES ASSUME NEW i \in 1 .. n, NEW j \in 1 .. n, f[i] = f[j], i # j PROVE FALSE
    OBVIOUS
  <2>1. f[i] \in Nat /\ f[j] \in Nat
    OBVIOUS
  <2>2. i < j \/ j < i
    OBVIOUS
  <2>3. f[i] < f[j] \/ f[j] < f[i]
    BY <2>2 DEF Rising
  <2> QED BY <2>1, <2>3
<1>8. ASSUME NEW x \in 1 .. N
      PROVE  Reaches(g, n - l, x) <=> Reaches(f, n, x) /\ ~ (p < x /\ x <= p + l)
  <2>1. ASSUME Reaches(g, n - l, x) PROVE Reaches(f, n, x) /\ ~ (p < x /\ x <= p + l)
    <3>1. PICK i \in 1 .. n - l : g[i] = x
      BY <2>1 DEF Reaches
    <3>2. old(i) \in 1 .. n /\ f[old(i)] = x
      BY <1>2, <3>1
    <3>3. ~ (p < old(i) /\ old(i) <= p + l)
      BY <1>1
    <3> HIDE DEF old
    <3>4. ASSUME p < x, x <= p + l PROVE FALSE
      <4>1. x \in 1 .. e /\ x \in 1 .. n
        BY <1>1, <3>4
      <4>2. f[x] = x
        BY <4>1 DEF Whole
      <4>3. old(i) = x
        BY <1>7, <3>2, <4>1, <4>2
      <4> QED BY <3>3, <3>4, <4>3
    <3> QED BY <3>2, <3>4 DEF Reaches
  <2>2. ASSUME Reaches(f, n, x), ~ (p < x /\ x <= p + l) PROVE Reaches(g, n - l, x)
    <3>1. PICK j \in 1 .. n : f[j] = x
      BY <2>2 DEF Reaches
    <3>2. ~ (p < j /\ j <= p + l)
      <4>1. ASSUME p < j, j <= p + l PROVE FALSE
        <5>1. j \in 1 .. e
          BY <1>1, <4>1
        <5>2. f[j] = j
          BY <5>1 DEF Whole
        <5> QED BY <2>2, <3>1, <4>1, <5>2
      <4> QED BY <4>1
    <3> DEFINE i == IF j <= p THEN j ELSE j - l
    <3>3. i \in 1 .. n - l /\ old(i) = j
      BY <1>1, <3>2
    <3> HIDE DEF i, old, g
    <3> QED BY <1>2, <3>1, <3>3 DEF Reaches
  <2> QED BY <2>1, <2>2
<1> QED BY <1>4, <1>5, <1>6, <1>8

\* Pieces applied from the right remove just what they cover.
LEMMA PiecesApplied ==
  ASSUME NEW t \in Seq(Nat), NEW S, NEW ops \in Seq(S), Pieces(ops, Len(ops), Len(t))
  PROVE  \E f : Left(ApplyOperations(t, ops), t, f, ops, Len(ops))
<1> DEFINE n == Len(ops)
           m == Len(t)
           end(k) == IF k = 0 THEN m ELSE ops[k].position
<1>1. n \in Nat /\ DOMAIN ops = 1 .. n /\ m \in Nat
  OBVIOUS
<1> HIDE DEF n
<1>2. PICK out : ApplySteps(out, t, ops, n) /\ ApplyOperations(t, ops) = out[n]
  BY <1>1, ApplyIsLoop
<1> DEFINE Done(k) == \E f : Left(out[k], t, f, ops, k) /\ Whole(f, Len(out[k]), end(k))
<1>3. Done(0)
  <2> DEFINE f == [i \in 1 .. m |-> i]
  <2>1. out[0] = t
    BY <1>2 DEF ApplySteps
  <2>2. Rising(f, m) /\ Whole(f, m, m)
    BY <1>1 DEF Rising, Whole
  <2>3. \A x \in 1 .. m : Reaches(f, m, x) /\ ~ Cut(ops, 0, x)
    BY DEF Reaches, Cut
  <2>4. f \in [1 .. m -> 1 .. m] /\ \A i \in 1 .. m : f[i] = i
    OBVIOUS
  <2> HIDE DEF f
  <2>5. Left(t, t, f, ops, 0) /\ Whole(f, Len(t), end(0))
    BY <2>2, <2>3, <2>4 DEF Left
  <2> QED BY <2>1, <2>5
<1>4. ASSUME NEW k \in 1 .. n, Done(k - 1) PROVE Done(k)
  <2> DEFINE r == out[k - 1]
             p == ops[k].position
             l == ops[k].length
             e == end(k - 1)
             N == Len(r)
  <2>1. PICK f : Left(r, t, f, ops, k - 1) /\ Whole(f, N, e)
    BY <1>4
  <2>2. IsPiece(ops[k], m)
    BY DEF Pieces, n
  <2>3. p \in Nat /\ l \in Nat /\ EndOf(ops[k]) = p + l /\ p + l <= m /\ ops[k].type = "delete"
    BY <2>2 DEF IsPiece, EndOf
  <2>4. p + l <= e
    <3>1. CASE k = 1
      BY <2>3, <3>1
    <3>2. CASE k # 1
      <4>1. k - 1 \in 1 .. n /\ k - 1 < k /\ k - 1 # 0
        BY <1>1, <3>2
      <4>2. EndOf(ops[k]) <= ops[k - 1].position
        BY <4>1 DEF Pieces, n
      <4> QED BY <2>3, <4>1, <4>2
    <3> QED BY <3>1, <3>2
  <2>5. out[k] = Delete(r, p, l)
    BY <1>2, <2>3, ApplyDelete DEF ApplySteps
  <2>6. end(k) = p
    OBVIOUS
  <2>7. /\ r \in Seq(Nat) /\ N \in Nat /\ f \in [1 .. N -> 1 .. m] /\ Rising(f, N)
        /\ \A i \in 1 .. N : r[i] = t[f[i]]
        /\ \A x \in 1 .. m : Reaches(f, N, x) <=> ~ Cut(ops, k - 1, x)
    BY <2>1 DEF Left
  <2>8. p + l <= N
    <3>1. e \in Nat /\ e <= N
      <4> HIDE DEF e, N
      <4> QED BY <2>1 DEF Whole
    <3> HIDE DEF e, N, p, l
    <3> QED BY <2>3, <2>4, <2>7, <3>1
  <2>9. Delete(r, p, l) \in Seq(Nat) /\ Len(Delete(r, p, l)) = N - l /\ Deleted(Delete(r, p, l), r, N, p, l)
    <3> HIDE DEF r, p, l
    <3> QED BY <2>3, <2>7, <2>8, DeleteText DEF N
  <2> DEFINE g == Skip(f, N, p, l)
  <2> HIDE DEF r, p, l, e, m, end
  <2>10. N \in Nat /\ m \in Nat /\ f \in [1 .. N -> 1 .. m] /\ Rising(f, N) /\ Whole(f, N, e)
         /\ p \in Nat /\ l \in Nat /\ p + l <= e
    BY <1>1, <2>1, <2>3, <2>4, <2>7
  <2> HIDE DEF N
  <2>11. /\ g \in [1 .. N - l -> 1 .. m] /\ Rising(g, N - l) /\ Whole(g, N - l, p)
         /\ \A x \in 1 .. m : Reaches(g, N - l, x) <=> Reaches(f, N, x) /\ ~ (p < x /\ x <= p + l)
    BY ONLY <2>10, SkipIs
  <2>12. \A x : Cut(ops, k, x) <=> Cut(ops, k - 1, x) \/ (p < x /\ x <= p + l)
    <3>1. \A j : j \in 1 .. k <=> j \in 1 .. k - 1 \/ j = k
      BY <1>1
    <3>2. \A x : Covers(ops[k], x) <=> p < x /\ x <= p + l
      BY <2>3 DEF Covers, p
    <3> QED BY <3>1, <3>2 DEF Cut
  <2>13. \A i \in 1 .. N - l : Delete(r, p, l)[i] = t[g[i]]
    <3> TAKE i \in 1 .. N - l
    <3>1. (IF i <= p THEN i ELSE i + l) \in 1 .. N
      BY <2>10
    <3>2. Delete(r, p, l)[i] = r[IF i <= p THEN i ELSE i + l]
      BY <2>9, <2>10, SMTT(30) DEF Deleted
    <3>3. g[i] = f[IF i <= p THEN i ELSE i + l]
      BY DEF Skip
    <3> QED BY <2>7, <3>1, <3>2, <3>3
  <2> HIDE DEF g
  <2>14. out[k] \in Seq(Nat) /\ Len(out[k]) = N - l
    BY <2>5, <2>9
  <2>15. \A x \in 1 .. m : Reaches(g, N - l, x) <=> ~ Cut(ops, k, x)
    BY <2>7, <2>11, <2>12
  <2>16. Left(out[k], t, g, ops, k)
    BY <2>5, <2>11, <2>13, <2>14, <2>15 DEF Left, m
  <2> QED BY <2>6, <2>11, <2>14, <2>16 DEF end, p
<1>5. Done(n)
  <2> DEFINE U == {k \in 0 .. n : ~ Done(k)}
  <2> HIDE DEF Done
  <2> SUFFICES ASSUME n \in U PROVE FALSE
    BY <1>1
  <2>1. PICK k \in U : \A j \in U : k <= j
    <3>1. U \in SUBSET Nat
      OBVIOUS
    <3> HIDE DEF U
    <3> QED BY <3>1, NatLeast
  <2>2. k # 0
    BY <1>3
  <2>3. k \in 1 .. n /\ k - 1 \in 0 .. n /\ k - 1 \notin U
    BY <1>1, <2>1, <2>2
  <2> QED BY <1>4, <2>3
<1> QED BY <1>2, <1>5 DEF n

-----------------------------------------------------------------------------
(* Texts in which no character occurs twice.                               *)

\* No character occurs twice.
Unlike(t) == \A i, j \in 1 .. Len(t) : t[i] = t[j] => i = j

\* Where a character is.
Place(t, x) == CHOOSE i \in DOMAIN t : t[i] = x

\* A character that occurs once is where it is.
LEMMA PlaceIs ==
  ASSUME NEW t \in Seq(Nat), Unlike(t), NEW i \in 1 .. Len(t)
  PROVE  Place(t, t[i]) = i
<1>1. DOMAIN t = 1 .. Len(t)
  OBVIOUS
<1>2. \A j \in 1 .. Len(t) : t[j] = t[i] <=> j = i
  BY DEF Unlike
<1> QED BY <1>1, <1>2 DEF Place

\* The characters of w come in whole, between those up to q and the others.
Spliced(r, t, q, w) ==
  /\ Range(r) = Range(t) \cup Range(w)
  /\ \A j \in 1 .. Len(w) : r[q + j] = w[j] /\ Place(r, w[j]) = q + j
  /\ \A i \in 1 .. Len(t) : Place(r, t[i]) = IF i <= q THEN i ELSE i + Len(w)

\* Inserting characters that are not in the text.
LEMMA InsertSplices ==
  ASSUME NEW t \in Seq(Nat), NEW w \in Seq(Nat), NEW q \in Nat, q <= Len(t), Unlike(t), Unlike(w),
         \A i \in 1 .. Len(t) : \A j \in 1 .. Len(w) : t[i] # w[j]
  PROVE  Spliced(Insert(t, q, w), t, q, w)
<1> DEFINE r == Insert(t, q, w)
           n == Len(t)
           k == Len(w)
           new(i) == q < i /\ i <= q + k
           old(i) == IF i <= q THEN i ELSE i - k
           at(i) == IF i <= q THEN i ELSE i + k
<1>1. r \in Seq(Nat) /\ Len(r) = n + k /\ Inserted(r, t, n, q, w, k)
  BY InsertText
<1>2. n \in Nat /\ k \in Nat /\ DOMAIN t = 1 .. n /\ DOMAIN w = 1 .. k /\ DOMAIN r = 1 .. n + k
  BY <1>1
<1> HIDE DEF r, n, k
<1>3. ASSUME NEW i \in 1 .. n + k
      PROVE  /\ new(i) => i - q \in 1 .. k /\ r[i] = w[i - q]
             /\ ~ new(i) => old(i) \in 1 .. n /\ r[i] = t[old(i)]
  BY <1>1, <1>2 DEF Inserted, n
<1>4. \A j \in 1 .. k : q + j \in 1 .. n + k /\ new(q + j) /\ r[q + j] = w[j]
  <2> TAKE j \in 1 .. k
  <2>1. q + j \in 1 .. n + k /\ new(q + j) /\ (q + j) - q = j
    BY <1>2 DEF n
  <2> HIDE DEF new
  <2> QED BY <1>3, <2>1
<1>5. \A i \in 1 .. n : at(i) \in 1 .. n + k /\ ~ new(at(i)) /\ r[at(i)] = t[i]
  <2> TAKE i \in 1 .. n
  <2>1. at(i) \in 1 .. n + k /\ ~ new(at(i)) /\ old(at(i)) = i
    BY <1>2 DEF n
  <2> HIDE DEF new, at, old
  <2> QED BY <1>3, <2>1
<1>6. Unlike(r)
  <2> SUFFICES ASSUME NEW i \in 1 .. n + k, NEW j \in 1 .. n + k, r[i] = r[j] PROVE i = j
    BY <1>1 DEF Unlike
  <2>1. CASE new(i) /\ new(j)
    <3>1. i - q = j - q
      <4> HIDE DEF new
      <4>1. i - q \in 1 .. Len(w) /\ j - q \in 1 .. Len(w) /\ w[i - q] = w[j - q]
        BY <1>3, <2>1 DEF k
      <4> QED BY ONLY <4>1, Unlike(w) DEF Unlike
    <3> QED BY <1>2, <3>1
  <2>2. CASE ~ new(i) /\ ~ new(j)
    <3>1. old(i) = old(j)
      <4> HIDE DEF new, old
      <4> QED BY <1>3, <2>2 DEF Unlike, n
    <3> QED BY <1>2, <2>2, <3>1
  <2>3. CASE new(i) /\ ~ new(j)
    <3> HIDE DEF new, old
    <3> QED BY <1>3, <2>3 DEF n, k
  <2>4. CASE ~ new(i) /\ new(j)
    <3> HIDE DEF new, old
    <3> QED BY <1>3, <2>4 DEF n, k
  <2> QED BY <2>1, <2>2, <2>3, <2>4
<1>7. \A i \in 1 .. n + k : Place(r, r[i]) = i
  BY <1>1, <1>6, PlaceIs
<1>8. Range(r) = Range(t) \cup Range(w)
  <2> HIDE DEF new, old, at
  <2>1. ASSUME NEW x PROVE x \in Range(r) <=> x \in Range(t) \/ x \in Range(w)
    <3>1. ASSUME x \in Range(r) PROVE x \in Range(t) \/ x \in Range(w)
      <4>1. PICK i \in 1 .. n + k : r[i] = x
        BY <1>2, <3>1 DEF Range
      <4> QED BY <1>2, <1>3, <4>1 DEF Range
    <3>2. ASSUME x \in Range(t) PROVE x \in Range(r)
      <4>1. PICK i \in 1 .. n : t[i] = x
        BY <1>2, <3>2 DEF Range
      <4> QED BY <1>2, <1>5, <4>1 DEF Range
    <3>3. ASSUME x \in Range(w) PROVE x \in Range(r)
      <4>1. PICK j \in 1 .. k : w[j] = x
        BY <1>2, <3>3 DEF Range
      <4> QED BY <1>2, <1>4, <4>1 DEF Range
    <3> QED BY <3>1, <3>2, <3>3
  <2> QED BY <2>1
<1>9. \A j \in 1 .. k : r[q + j] = w[j] /\ Place(r, w[j]) = q + j
  BY <1>4, <1>7
<1>10. \A i \in 1 .. n : Place(r, t[i]) = at(i)
  <2> HIDE DEF at
  <2> QED BY <1>5, <1>7
<1> QED BY <1>8, <1>9, <1>10 DEF Spliced, r, n, k

\* What the pieces leave is what was not selected, in the order it was in.
Thinned(r, t, picked) ==
  /\ Range(r) = Range(t) \ picked
  /\ \A i, j \in DOMAIN r : i < j => Place(t, r[i]) < Place(t, r[j])

\* Applying the pieces, in terms of the characters.
LEMMA LeftIsThinned ==
  ASSUME NEW t \in Seq(Nat), Unlike(t), NEW r, NEW f, NEW ops, NEW n, Left(r, t, f, ops, n), NEW picked,
         \A i \in 1 .. Len(t) : Cut(ops, n, i) <=> t[i] \in picked
  PROVE  Thinned(r, t, picked)
<1> DEFINE m == Len(t)
           k == Len(r)
<1>1. /\ r \in Seq(Nat) /\ f \in [1 .. k -> 1 .. m] /\ Rising(f, k)
      /\ \A i \in 1 .. k : r[i] = t[f[i]]
      /\ \A x \in 1 .. m : Reaches(f, k, x) <=> ~ Cut(ops, n, x)
  BY DEF Left
<1>2. DOMAIN t = 1 .. m /\ DOMAIN r = 1 .. k /\ m \in Nat /\ k \in Nat
  BY <1>1
<1>3. ASSUME NEW i \in 1 .. k PROVE Place(t, r[i]) = f[i]
  <2>1. f[i] \in 1 .. m /\ r[i] = t[f[i]]
    BY <1>1
  <2>2. Place(t, t[f[i]]) = f[i]
    BY ONLY t \in Seq(Nat), Unlike(t), <2>1, PlaceIs
  <2> QED BY <2>1, <2>2
<1> HIDE DEF m, k
<1>4. ASSUME NEW c PROVE c \in Range(r) <=> c \in Range(t) /\ c \notin picked
  <2>1. ASSUME c \in Range(r) PROVE c \in Range(t) /\ c \notin picked
    <3>1. PICK i \in 1 .. k : r[i] = c
      BY <1>2, <2>1 DEF Range
    <3>2. f[i] \in 1 .. m /\ Reaches(f, k, f[i]) /\ t[f[i]] = c
      BY <1>1, <3>1 DEF Reaches
    <3> QED BY <1>1, <1>2, <3>2 DEF Range, m
  <2>2. ASSUME c \in Range(t), c \notin picked PROVE c \in Range(r)
    <3>1. PICK x \in 1 .. m : t[x] = c
      BY <1>2, <2>2 DEF Range
    <3>2. Reaches(f, k, x)
      BY <1>1, <2>2, <3>1 DEF m
    <3>3. PICK i \in 1 .. k : f[i] = x
      BY <3>2 DEF Reaches
    <3> QED BY <1>1, <1>2, <3>1, <3>3 DEF Range
  <2> QED BY <2>1, <2>2
<1>5. \A i, j \in 1 .. k : i < j => Place(t, r[i]) < Place(t, r[j])
  BY <1>1, <1>3 DEF Rising
<1> QED BY <1>2, <1>4, <1>5 DEF Thinned

-----------------------------------------------------------------------------
(* An edit and what others do before it.                                   *)

\* Of the characters of t that are in A, those in B are before place q.
Sides(t, n, q, B, A) == \A i \in 1 .. n : t[i] \in A => (t[i] \in B <=> i <= q)

\* Python's slices stop at the end of the text: what a does to a text of n
\* characters.
Clamped(a, n) ==
  IF a.type = "insert" THEN [a EXCEPT !.position = Lesser(a.position, n)]
  ELSE [a EXCEPT !.position = Lesser(a.position, n), !.length = Lesser(EndOf(a), n) - Lesser(a.position, n)]

\* That is an operation on that text.
LEMMA ClampedIs ==
  ASSUME NEW Char, NEW S, NEW a \in Operations(Char, S), NEW n \in Nat, NEW c, c = Clamped(a, n)
  PROVE  /\ c \in Operations(Char, S) /\ Fits(c, n) /\ c.type = a.type /\ c.content = a.content
         /\ c.position = Lesser(a.position, n) /\ c.site = a.site
         /\ a.type = "delete" => EndOf(c) = Lesser(EndOf(a), n)
<1> DEFINE p == Lesser(a.position, n)  e == Lesser(EndOf(a), n)
<1>1. /\ a.type \in {"insert", "delete"} /\ a.position \in Nat /\ a.length \in Nat /\ a.content \in Seq(Char)
      /\ a.site \in S /\ Len(a.content) \in Nat /\ EndOf(a) = a.position + a.length
      /\ a = [type |-> a.type, position |-> a.position, content |-> a.content, length |-> a.length, site |-> a.site]
  BY DEF Operations, EndOf
<1>2. p \in Nat /\ e \in Nat /\ p <= n /\ e <= n /\ p <= e /\ e - p \in Nat /\ p + (e - p) = e
  BY <1>1 DEF Lesser
<1> HIDE DEF p, e
<1>3. CASE a.type = "insert"
  <2>1. c = [a EXCEPT !.position = p]
    BY <1>3 DEF Clamped, p
  <2>2. c = [type |-> a.type, position |-> p, content |-> a.content, length |-> a.length, site |-> a.site]
    BY <1>1, <2>1
  <2>3. c \in Operations(Char, S)
    BY <1>1, <1>2, <2>2 DEF Operations
  <2> QED BY <1>1, <1>2, <1>3, <2>2, <2>3 DEF Fits, p
<1>4. CASE a.type = "delete"
  <2>1. c = [a EXCEPT !.position = p, !.length = e - p]
    BY <1>4 DEF Clamped, p, e
  <2>2. c = [type |-> a.type, position |-> p, content |-> a.content, length |-> e - p, site |-> a.site]
    BY <1>1, <2>1
  <2>3. c \in Operations(Char, S)
    BY <1>1, <1>2, <2>2 DEF Operations
  <2>4. EndOf(c) = e
    BY <1>2, <2>2 DEF EndOf
  <2> QED BY <1>1, <1>2, <1>4, <2>2, <2>3, <2>4 DEF Fits, p, e
<1> QED BY <1>1, <1>3, <1>4

\* r is what op makes of t, of length n.
Changed(r, t, n, op) ==
  /\ r \in Seq(Nat) /\ Len(r) = NewLength(op, n) /\ Len(r) \in Nat
  /\ op.type = "insert" => op.position <= n /\ Inserted(r, t, n, op.position, op.content, Len(op.content))
  /\ op.type = "delete" => op.position + op.length <= n /\ Deleted(r, t, n, op.position, op.length)

\* What any operation makes of a text.
LEMMA AppliedIs ==
  ASSUME NEW t \in Seq(Nat), NEW S, NEW a \in Operations(Nat, S), NEW n, n = Len(t), NEW c, c = Clamped(a, n)
  PROVE  Changed(ApplyOperation(t, a), t, n, c)
<1>1. n \in Nat
  OBVIOUS
<1>2. /\ c \in Operations(Nat, S) /\ Fits(c, n) /\ c.type = a.type /\ c.content = a.content
      /\ c.position = Lesser(a.position, n) /\ (a.type = "delete" => EndOf(c) = Lesser(EndOf(a), n))
  BY <1>1, ClampedIs
<1>3. /\ a.type \in {"insert", "delete"} /\ c.position \in Nat /\ c.length \in Nat /\ c.content \in Seq(Nat)
      /\ EndOf(c) = c.position + c.length /\ a.position \in Nat /\ EndOf(a) \in Nat
  BY <1>2 DEF Operations, EndOf
<1> HIDE DEF Clamped
<1> DEFINE p == c.position  w == c.content  l == c.length  r == ApplyOperation(t, a)
<1>4. Lesser(a.position, n) = Lesser(p, n) /\ (a.type = "delete" => Lesser(EndOf(a), n) = Lesser(p + l, n))
  BY <1>1, <1>2, <1>3 DEF Lesser
<1>5. CASE a.type = "insert"
  <2>1. r = Insert(t, p, w)
    BY <1>2, <1>4, <1>5 DEF ApplyOperation, Insert, UpTo, From
  <2>2. p \in Nat /\ p <= n /\ w \in Seq(Nat) /\ NewLength(c, n) = n + Len(w)
    BY <1>2, <1>3, <1>5 DEF Fits, NewLength
  <2> HIDE DEF p, w
  <2>3. r \in Seq(Nat) /\ Len(r) = n + Len(w) /\ Inserted(r, t, n, p, w, Len(w))
    BY <2>1, <2>2, InsertText
  <2>4. Len(w) \in Nat
    BY <2>2
  <2> HIDE DEF r
  <2> QED BY <1>1, <1>2, <1>5, <2>2, <2>3, <2>4 DEF Changed, p, w, r
<1>6. CASE a.type = "delete"
  <2>1. r = Delete(t, p, l)
    BY <1>2, <1>4, <1>6 DEF ApplyOperation, Delete, UpTo, From
  <2>2. p \in Nat /\ l \in Nat /\ p + l <= n /\ NewLength(c, n) = n - l
    BY <1>2, <1>3, <1>6 DEF Fits, NewLength
  <2> HIDE DEF p, l
  <2>3. r \in Seq(Nat) /\ Len(r) = n - l /\ Deleted(r, t, n, p, l)
    <3>1. t \in Seq(Nat) /\ p \in Nat /\ l \in Nat /\ p + l <= Len(t)
      BY <2>2
    <3> QED BY <2>1, <3>1, DeleteText
  <2> HIDE DEF r
  <2> QED BY <1>1, <1>2, <1>6, <2>2, <2>3 DEF Changed, p, l, r
<1> QED BY <1>3, <1>5, <1>6

\* Where the characters of the new text come from.
LEMMA ChangedIs ==
  ASSUME NEW r, NEW t, NEW n \in Nat, NEW S, NEW op \in Operations(Nat, S), Changed(r, t, n, op), NEW i \in 1 .. Len(r)
  PROVE  /\ IsOld(op, i) => Old(op, i) \in 1 .. n /\ r[i] = t[Old(op, i)]
         /\ ~ IsOld(op, i) => /\ op.type = "insert" /\ i - op.position \in 1 .. Len(op.content)
                              /\ r[i] = op.content[i - op.position]
<1> DEFINE p == op.position  w == op.content  k == Len(w)  l == op.length
<1>1. op.type \in {"insert", "delete"} /\ p \in Nat /\ k \in Nat /\ l \in Nat
  BY DEF Operations
<1>2. CASE op.type = "insert"
  <2>1. /\ p <= n /\ Len(r) = n + k /\ Inserted(r, t, n, p, w, k)
        /\ (IsOld(op, i) <=> ~ (p < i /\ i <= p + k)) /\ Old(op, i) = IF i <= p THEN i ELSE i - k
    BY <1>2 DEF Changed, NewLength, IsOld, Old
  <2> HIDE DEF p, k
  <2>2. CASE IsOld(op, i)
    BY <1>1, <2>1, <2>2 DEF Inserted
  <2>3. CASE ~ IsOld(op, i)
    BY <1>1, <1>2, <2>1, <2>3 DEF Inserted, p, k
  <2> QED BY <2>2, <2>3
<1>3. CASE op.type = "delete"
  <2>1. /\ p + l <= n /\ Len(r) = n - l /\ Deleted(r, t, n, p, l)
        /\ IsOld(op, i) /\ Old(op, i) = IF i <= p THEN i ELSE i + l
    BY <1>3 DEF Changed, NewLength, IsOld, Old
  <2> HIDE DEF p, l
  <2> QED BY <1>1, <2>1 DEF Deleted
<1> QED BY <1>1, <1>2, <1>3

\* Beyond the end of a text there is nothing to delete: a deletion in the text
\* becomes what it becomes by what a does there.
LEMMA ClampedDelete ==
  ASSUME NEW S, NEW a \in Operations(Nat, S), NEW n \in Nat, NEW c, c = Clamped(a, n), NEW d, IsPiece(d, n)
  PROVE  TransformOperation(a, d) = TransformOperation(c, d)
<1> DEFINE p == a.position  e == EndOf(a)  q == c.position  f == EndOf(c)  s == d.position  x == EndOf(d)
<1>1. /\ c.type = a.type /\ c.content = a.content /\ q = Lesser(p, n) /\ (a.type = "delete" => f = Lesser(e, n))
      /\ a.type \in {"insert", "delete"} /\ p \in Nat /\ e \in Nat /\ p <= e
  BY ClampedIs DEF Operations, EndOf
<1>2. d.type = "delete" /\ s \in Nat /\ x \in Nat /\ s < x /\ x <= n
  BY DEF IsPiece, EndOf
<1>3. TransformOperation(a, d) = TransformDelete(a, d) /\ TransformOperation(c, d) = TransformDelete(c, d)
  BY <1>2 DEF TransformOperation
<1> HIDE DEF p, e, q, f, s, x
<1>4. CASE a.type = "insert"
  <2>1. (p <= s <=> q <= s) /\ (p >= x <=> q >= x) /\ (~ (p <= s) /\ ~ (p >= x) => p = q)
    BY <1>1, <1>2 DEF Lesser
  <2> QED BY <1>1, <1>3, <1>4, <2>1 DEF TransformDelete, p, q, s, x
<1>5. CASE a.type = "delete"
  <2>1. Greater(0, Lesser(e, x) - Greater(p, s)) = Greater(0, Lesser(f, x) - Greater(q, s))
    BY <1>1, <1>2, <1>5 DEF Lesser, Greater
  <2>2. Greater(0, Lesser(e, s) - p) = Greater(0, Lesser(f, s) - q)
    BY <1>1, <1>2, <1>5 DEF Lesser, Greater
  <2> QED BY <1>1, <1>3, <1>5, <2>1, <2>2 DEF TransformDelete, p, e, q, f, s, x
<1> QED BY <1>1, <1>4, <1>5

\* So do several.
LEMMA ClampedRound ==
  ASSUME NEW S, NEW T, NEW a \in Operations(Nat, S), NEW n \in Nat, NEW c, c = Clamped(a, n),
         NEW ops \in Seq(Operations(Nat, T)), Pieces(ops, Len(ops), n)
  PROVE  TransformRound(ops, a) = TransformRound(ops, c)
<1> DEFINE l == Len(ops)
<1>1. l \in Nat /\ DOMAIN ops = 1 .. l
  OBVIOUS
<1>2. PICK f : PendingSteps(f, a, ops, l) /\ TransformPending(ops, a) = f[l]
  BY <1>1, PendingIsLoop
<1>3. PICK g : PendingSteps(g, c, ops, l) /\ TransformPending(ops, c) = g[l]
  BY <1>1, PendingIsLoop
<1>4. \A k \in 1 .. l : TransformOperation(a, ops[k]) = TransformOperation(c, ops[k])
  BY ClampedDelete DEF Pieces
<1> HIDE DEF l
<1>5. f[l] = g[l]
  <2> DEFINE U == {k \in 0 .. l : f[k] # g[k]}
  <2> SUFFICES ASSUME l \in U PROVE FALSE
    BY <1>1
  <2>1. U \in SUBSET Nat
    OBVIOUS
  <2> HIDE DEF U
  <2>2. PICK m \in U : \A k \in U : m <= k
    BY <2>1, NatLeast
  <2>3. m \in 1 .. l /\ m - 1 \in 0 .. l /\ m - 1 \notin U
    BY <1>1, <1>2, <1>3, <2>2 DEF U, PendingSteps
  <2>4. f[m - 1] = g[m - 1]
    BY <2>3 DEF U
  <2>5. f[m] = g[m]
    BY <1>2, <1>3, <1>4, <2>3, <2>4 DEF PendingSteps
  <2> QED BY <2>2, <2>5 DEF U
<1> QED BY <1>2, <1>3, <1>5 DEF TransformRound

\* What a inserts, if it inserts, is not in A.
Foreign(a, A) == a.type = "insert" => \A i \in 1 .. Len(a.content) : a.content[i] \notin A

\* An insertion moves with the characters around it.
LEMMA SidesThrough ==
  ASSUME NEW S, NEW T, NEW a \in Operations(Nat, S), NEW n \in Nat, NEW c, c = Clamped(a, n),
         NEW t, NEW r, Changed(r, t, n, c), NEW b \in Operations(Nat, T), b.type = "insert", b.position <= n,
         NEW A, NEW B, Foreign(a, A), Sides(t, n, b.position, B, A), NEW s, s = InsertPosition(a, b)
  PROVE  s \in 0 .. Len(r) /\ Sides(r, Len(r), s, B, A)
<1> DEFINE p == a.position  e == EndOf(a)  q == b.position  k == Len(a.content)  l == a.length
           x == c.position  y == EndOf(c)
<1>1. /\ c \in Operations(Nat, S) /\ c.type = a.type /\ c.content = a.content /\ x = Lesser(p, n)
      /\ (a.type = "delete" => y = Lesser(e, n) /\ y <= n)
      /\ a.type \in {"insert", "delete"} /\ p \in Nat /\ e \in Nat /\ k \in Nat /\ l \in Nat /\ e = p + l
  <2>1. /\ c \in Operations(Nat, S) /\ c.type = a.type /\ c.content = a.content /\ x = Lesser(p, n)
        /\ (a.type = "delete" => y = Lesser(e, n))
    BY ClampedIs
  <2>2. a.type \in {"insert", "delete"} /\ p \in Nat /\ e \in Nat /\ k \in Nat /\ l \in Nat /\ e = p + l
    BY DEF Operations, EndOf
  <2>3. Lesser(e, n) <= n
    BY <2>2 DEF Lesser
  <2> QED BY <2>1, <2>2, <2>3
<1>2. q \in Nat /\ c.length \in Nat /\ x \in Nat /\ y = x + c.length
  BY <1>1 DEF Operations, EndOf
<1>3. Len(r) = NewLength(c, n) /\ Len(r) \in Nat
  BY DEF Changed
<1>6. ASSUME NEW i \in 1 .. Len(r)
      PROVE  /\ IsOld(c, i) => Old(c, i) \in 1 .. n /\ r[i] = t[Old(c, i)]
             /\ ~ IsOld(c, i) => \E j \in 1 .. Len(a.content) : r[i] = a.content[j]
  <2> DEFINE j == i - c.position
  <2>1. c \in Operations(Nat, S)
    BY <1>1
  <2>2. /\ IsOld(c, i) => Old(c, i) \in 1 .. n /\ r[i] = t[Old(c, i)]
        /\ ~ IsOld(c, i) => j \in 1 .. Len(c.content) /\ r[i] = c.content[j]
    BY ONLY n \in Nat, Changed(r, t, n, c), i \in 1 .. Len(r), <2>1, ChangedIs
  <2> HIDE DEF j
  <2> QED BY <1>1, <2>2
<1> HIDE DEF p, e, q, k, l, x, y
<1>4. CASE a.type = "insert"
  <2>1. s = q \/ s = q + k
    BY <1>4 DEF InsertPosition, q, k
  <2>2. q > x => s = q + k
    <3>1. q > x => q > p
      BY <1>1, <1>2 DEF Lesser, q
    <3> QED BY <1>4, <3>1 DEF InsertPosition, p, q, k
  <2>3. q < x => s = q
    <3>1. q < x => ~ (q > p) /\ q # p
      BY <1>1, <1>2 DEF Lesser
    <3> QED BY <1>4, <3>1 DEF InsertPosition, p, q, k
  <2>4. Len(r) = n + k /\ x <= n
    BY <1>1, <1>3, <1>4 DEF NewLength, k, Lesser
  <2>5. s \in 0 .. Len(r)
    BY <1>1, <1>2, <2>1, <2>4 DEF q
  <2>6. ASSUME NEW i \in 1 .. Len(r), IsOld(c, i) PROVE i <= s <=> Old(c, i) <= q
    <3>1. ~ (x < i /\ i <= x + k) /\ Old(c, i) = IF i <= x THEN i ELSE i - k
      BY <1>1, <1>4, <2>6 DEF IsOld, Old, x, k
    <3> QED BY <1>1, <1>2, <2>1, <2>2, <2>3, <2>4, <3>1
  <2>7. ASSUME NEW i \in 1 .. Len(r), r[i] \in A PROVE r[i] \in B <=> i <= s
    <3>1. IsOld(c, i)
      BY <1>4, <1>6, <2>7 DEF Foreign
    <3>2. Old(c, i) \in 1 .. n /\ r[i] = t[Old(c, i)]
      BY <1>6, <3>1
    <3> QED BY <2>6, <2>7, <3>1, <3>2 DEF Sides, q
  <2> QED BY <2>5, <2>7 DEF Sides
<1>5. CASE a.type = "delete"
  <2>1. s = IF q >= e THEN q - l ELSE Lesser(q, p)
    BY <1>5 DEF InsertPosition, p, q, e, l
  <2>2. Len(r) = n - c.length /\ x <= n /\ y <= n /\ q <= n
    BY <1>1, <1>3, <1>5 DEF NewLength, Lesser, q
  <2>3. s = IF q >= y THEN q - c.length ELSE IF q <= x THEN q ELSE x
    <3>1. CASE q >= e
      BY <1>1, <1>2, <1>5, <2>1, <2>2, <3>1 DEF Lesser
    <3>2. CASE ~ (q >= e)
      BY <1>1, <1>2, <1>5, <2>1, <2>2, <3>2 DEF Lesser
    <3> QED BY <3>1, <3>2
  <2>4. s \in 0 .. Len(r)
    BY <1>2, <2>2, <2>3
  <2>5. ASSUME NEW i \in 1 .. Len(r)
        PROVE  /\ i <= s <=> Old(c, i) <= q
               /\ Old(c, i) \in 1 .. n /\ r[i] = t[Old(c, i)]
    <3>1. IsOld(c, i) /\ Old(c, i) = IF i <= x THEN i ELSE i + c.length
      BY <1>1, <1>5 DEF IsOld, Old, x
    <3>2. Old(c, i) \in 1 .. n /\ r[i] = t[Old(c, i)]
      BY <1>6, <3>1
    <3> QED BY <1>2, <2>2, <2>3, <3>1, <3>2
  <2> QED BY <2>4, <2>5 DEF Sides, q
<1> QED BY <1>1, <1>4, <1>5

\* The pieces of a deletion cover what they covered.
LEMMA PiecesThrough ==
  ASSUME NEW S, NEW T, NEW a \in Operations(Nat, S), NEW n \in Nat, NEW c, c = Clamped(a, n),
         NEW t, NEW r, Changed(r, t, n, c), NEW ops \in Seq(Operations(Nat, T)), Pieces(ops, Len(ops), n),
         NEW A, Foreign(a, A), \A i \in 1 .. n : Cut(ops, Len(ops), i) <=> t[i] \in A,
         NEW v, v = TransformRound(ops, a)
  PROVE  /\ v \in Seq(Operations(Nat, T)) /\ Pieces(v, Len(v), Len(r))
         /\ \A i \in 1 .. Len(r) : Cut(v, Len(v), i) <=> r[i] \in A
<1>1. c \in Operations(Nat, S) /\ Fits(c, n) /\ c.type = a.type /\ c.content = a.content
  BY ClampedIs
<1>2. v = TransformRound(ops, c)
  BY ClampedRound
<1> HIDE DEF Clamped
<1>3. /\ v \in Seq(Operations(Nat, T)) /\ Pieces(v, Len(v), NewLength(c, n))
      /\ \A i \in Nat : Cut(v, Len(v), i) <=> IsOld(c, i) /\ Cut(ops, Len(ops), Old(c, i))
  BY <1>1, <1>2, RoundOfPieces
<1>4. Len(r) = NewLength(c, n)
  BY DEF Changed
<1>5. ASSUME NEW i \in 1 .. Len(r) PROVE Cut(v, Len(v), i) <=> r[i] \in A
  <2>1. CASE IsOld(c, i)
    <3>1. Old(c, i) \in 1 .. n /\ r[i] = t[Old(c, i)]
      BY <1>1, <2>1, ChangedIs
    <3> QED BY <1>3, <2>1, <3>1
  <2>2. CASE ~ IsOld(c, i)
    <3>1. c.type = "insert" /\ i - c.position \in 1 .. Len(c.content) /\ r[i] = c.content[i - c.position]
      BY <1>1, <2>2, ChangedIs
    <3>2. r[i] \notin A
      BY <1>1, <3>1 DEF Foreign
    <3> QED BY <1>3, <2>2, <3>2
  <2> QED BY <2>1, <2>2
<1> QED BY <1>3, <1>4, <1>5

\* No character occurs twice in the new text, if those inserted are new to it.
LEMMA UnlikeThrough ==
  ASSUME NEW S, NEW a \in Operations(Nat, S), NEW n \in Nat, NEW c, c = Clamped(a, n), NEW t \in Seq(Nat), n = Len(t),
         NEW r, Changed(r, t, n, c), Unlike(t), a.type = "insert" => Unlike(a.content), Foreign(a, Range(t))
  PROVE  Unlike(r)
<1>1. /\ c \in Operations(Nat, S) /\ c.type = a.type /\ c.content = a.content /\ c.position \in Nat
      /\ c.type \in {"insert", "delete"} /\ c.length \in Nat /\ Len(c.content) \in Nat
  BY ClampedIs DEF Operations
<1>2. ASSUME NEW i \in 1 .. Len(r), NEW j \in 1 .. Len(r), r[i] = r[j] PROVE i = j
  <2>1. ASSUME NEW k \in 1 .. Len(r)
        PROVE  /\ IsOld(c, k) => Old(c, k) \in 1 .. n /\ r[k] = t[Old(c, k)]
               /\ ~ IsOld(c, k) => /\ c.type = "insert" /\ k - c.position \in 1 .. Len(c.content)
                                   /\ r[k] = c.content[k - c.position]
    BY <1>1, ChangedIs
  <2>2. CASE IsOld(c, i) /\ IsOld(c, j)
    <3>1. Old(c, i) = Old(c, j)
      BY <1>2, <2>1, <2>2 DEF Unlike
    <3>2. Len(r) \in Nat
      BY DEF Changed
    <3> QED BY <1>1, <2>2, <3>1, <3>2 DEF Old, IsOld
  <2>3. CASE ~ IsOld(c, i) /\ ~ IsOld(c, j)
    <3>1. i - c.position = j - c.position
      <4> DEFINE w == c.content  x == i - c.position  y == j - c.position
      <4>1. x \in 1 .. Len(w) /\ y \in 1 .. Len(w) /\ w[x] = w[y] /\ Unlike(w)
        BY <1>1, <1>2, <2>1, <2>3
      <4> HIDE DEF w, x, y
      <4>2. x = y
        BY ONLY <4>1 DEF Unlike
      <4> QED BY <4>2 DEF x, y
    <3> QED BY <1>1, <3>1
  <2>4. ASSUME NEW k \in 1 .. Len(r), NEW m \in 1 .. Len(r), IsOld(c, k), ~ IsOld(c, m) PROVE r[k] # r[m]
    <3>1. r[k] \in Range(t)
      BY <2>1, <2>4 DEF Range
    <3>2. PICK h \in 1 .. Len(a.content) : r[m] = a.content[h] /\ a.type = "insert"
      BY <1>1, <2>1, <2>4
    <3>3. r[m] \notin Range(t)
      BY ONLY Foreign(a, Range(t)), <3>2 DEF Foreign
    <3> QED BY <3>1, <3>3
  <2> QED BY <1>2, <2>2, <2>3, <2>4
<1> QED BY <1>2 DEF Unlike

-----------------------------------------------------------------------------
(* What an edit says of a text, and what it then does to it.               *)

\* What is before an insertion, and what a deletion selects.
Before(b, s) == {s[i] : i \in 1 .. b.position}
Picked(b, s) == {s[i] : i \in b.position + 1 .. EndOf(b)}

\* The operations v say of the text t what b says of s: an insertion belongs
\* between the same characters, the pieces of a deletion cover those of the
\* selected characters that are left.
Says(b, s, T, v, t) ==
  /\ b.type = "insert" =>
       \E q \in 0 .. Len(t) : v = << [b EXCEPT !.position = q] >> /\ Sides(t, Len(t), q, Before(b, s), Range(s))
  /\ b.type = "delete" =>
       /\ v \in Seq(Operations(Nat, T)) /\ Pieces(v, Len(v), Len(t))
       /\ \A i \in 1 .. Len(t) : Cut(v, Len(v), i) <=> t[i] \in Picked(b, s)

\* An operation that fits a text, in terms of the text's length.
LEMMA FitsBounds ==
  ASSUME NEW T, NEW b \in Operations(Nat, T), NEW s \in Seq(Nat), FitsText(b, s)
  PROVE  /\ b.type \in {"insert", "delete"} /\ b.position \in Nat /\ b.length \in Nat /\ Len(s) \in Nat
         /\ b.content \in Seq(Nat) /\ EndOf(b) = b.position + b.length /\ DOMAIN s = 1 .. Len(s)
         /\ b.type = "insert" => b.position <= Len(s)
         /\ b.type = "delete" => b.length >= 1 /\ EndOf(b) <= Len(s)
BY DEF FitsText, Operations, EndOf

\* Of the text its author saw an edit says what it says.
LEMMA SaysFirst ==
  ASSUME NEW T, NEW b \in Operations(Nat, T), NEW s \in Seq(Nat), Unlike(s), FitsText(b, s)
  PROVE  Says(b, s, T, << b >>, s)
<1> DEFINE n == Len(s)  p == b.position  e == EndOf(b)
<1>1. /\ b.type \in {"insert", "delete"} /\ p \in Nat /\ b.length \in Nat /\ n \in Nat /\ e = p + b.length
      /\ b.type = "insert" => p <= n
      /\ b.type = "delete" => b.length >= 1 /\ e <= n
  BY FitsBounds
<1>2. \A i \in 1 .. n : \A x, y \in Nat : x >= 1 /\ y <= n => (s[i] \in {s[j] : j \in x .. y} <=> x <= i /\ i <= y)
  <2> SUFFICES ASSUME NEW i \in 1 .. n, NEW x \in Nat, NEW y \in Nat, x >= 1, y <= n
               PROVE  s[i] \in {s[j] : j \in x .. y} <=> x <= i /\ i <= y
    OBVIOUS
  <2>1. \A j \in x .. y : j \in 1 .. n
    BY <1>1
  <2>2. \A j \in x .. y : s[j] = s[i] => j = i
    BY <2>1 DEF Unlike
  <2>3. x <= i /\ i <= y <=> i \in x .. y
    BY <1>1
  <2> QED BY <2>2, <2>3
<1> HIDE DEF n, p, e
<1>3. CASE b.type = "insert"
  <2>1. \A i \in 1 .. n : s[i] \in Before(b, s) <=> i <= p
    <3>1. p <= n /\ 1 \in Nat /\ 1 >= 1
      BY <1>1, <1>3
    <3>2. \A i \in 1 .. n : s[i] \in {s[j] : j \in 1 .. p} <=> 1 <= i /\ i <= p
      BY <1>1, <1>2, <3>1
    <3> QED BY <1>1, <3>2 DEF Before, p
  <2>2. [b EXCEPT !.position = p] = b
    BY DEF Operations, p
  <2>3. p \in 0 .. n
    BY <1>1, <1>3
  <2>4. Sides(s, n, p, Before(b, s), Range(s))
    BY <2>1 DEF Sides
  <2> QED BY <1>3, <2>2, <2>3, <2>4 DEF Says, n
<1>4. CASE b.type = "delete"
  <2>1. IsPiece(b, n) /\ p + 1 \in Nat /\ p + 1 >= 1 /\ e \in Nat /\ e <= n
    BY <1>1, <1>4 DEF IsPiece, p, e, EndOf
  <2>2. Len(<< b >>) = 1 /\ Pieces(<< b >>, 1, n) /\ \A i : Cut(<< b >>, 1, i) <=> Covers(b, i)
    BY <1>1, <2>1, OnePiece
  <2>3. \A i \in 1 .. n : s[i] \in {s[j] : j \in p + 1 .. e} <=> p + 1 <= i /\ i <= e
    BY <1>2, <2>1
  <2>4. \A i \in 1 .. n : Covers(b, i) <=> s[i] \in Picked(b, s)
    BY <1>1, <2>3 DEF Covers, Picked, p, e
  <2>5. << b >> \in Seq(Operations(Nat, T))
    OBVIOUS
  <2> DEFINE v == << b >>
  <2>6. v \in Seq(Operations(Nat, T)) /\ Len(v) = 1 /\ Pieces(v, 1, n) /\ \A i : Cut(v, 1, i) <=> Covers(b, i)
    BY <2>2, <2>5
  <2> HIDE DEF v
  <2>7. Says(b, s, T, v, s)
    BY <1>4, <2>4, <2>6 DEF Says, n
  <2> QED BY <2>7 DEF v
<1> QED BY <1>1, <1>3, <1>4

\* Rewritten for one more operation it still says that.
LEMMA SaysRound ==
  ASSUME NEW S, NEW T, NEW a \in Operations(Nat, S), NEW b \in Operations(Nat, T), NEW s \in Seq(Nat), FitsText(b, s),
         NEW t \in Seq(Nat), NEW v, Says(b, s, T, v, t), Foreign(a, Range(s))
  PROVE  ApplyOperation(t, a) \in Seq(Nat) /\ Says(b, s, T, TransformRound(v, a), ApplyOperation(t, a))
<1> DEFINE n == Len(t)  c == Clamped(a, n)  r == ApplyOperation(t, a)  z == TransformRound(v, a)
<1>1. n \in Nat /\ c = Clamped(a, n) /\ Changed(r, t, n, c)
  BY AppliedIs
<1>2. r \in Seq(Nat)
  BY <1>1 DEF Changed
<1>3. /\ b.type \in {"insert", "delete"} /\ b.position \in Nat /\ b.length \in Nat /\ EndOf(b) = b.position + b.length
      /\ DOMAIN s = 1 .. Len(s) /\ Len(s) \in Nat
      /\ b.type = "delete" => EndOf(b) <= Len(s)
  BY FitsBounds
<1>4. CASE b.type = "insert"
  <2>1. PICK q \in 0 .. n : v = << [b EXCEPT !.position = q] >> /\ Sides(t, n, q, Before(b, s), Range(s))
    BY <1>4 DEF Says
  <2> DEFINE x == [b EXCEPT !.position = q]  y == InsertPosition(a, x)
  <2>2. q \in Nat /\ q <= n /\ x \in Operations(Nat, T) /\ x.type = "insert" /\ x.position = q
    <3>1. q \in Nat /\ q <= n
      BY <1>1
    <3> HIDE DEF n
    <3> QED BY <1>4, <3>1 DEF Operations
  <2>3. z = << TransformInsert(a, x) >>
    <3>1. v = << x >>
      BY <2>1
    <3> HIDE DEF x
    <3> QED BY <2>2, <3>1, RoundOfInsert
  <2>4. TransformInsert(a, x) = [b EXCEPT !.position = y]
    BY DEF TransformInsert, Operations
  <2>5. y \in 0 .. Len(r) /\ Sides(r, Len(r), y, Before(b, s), Range(s))
    <3>1. y = InsertPosition(a, x) /\ Sides(t, n, x.position, Before(b, s), Range(s)) /\ x.position <= n
      BY <2>1, <2>2
    <3> HIDE DEF x, y, c, r, n
    <3> QED BY <1>1, <2>2, <3>1, SidesThrough
  <2> HIDE DEF y, r, z
  <2>6. Says(b, s, T, z, r)
    BY <1>4, <2>3, <2>4, <2>5 DEF Says
  <2> QED BY <1>2, <2>6 DEF z, r
<1>5. CASE b.type = "delete"
  <2> DEFINE A == Picked(b, s)
  <2>1. /\ v \in Seq(Operations(Nat, T)) /\ Pieces(v, Len(v), n)
        /\ \A i \in 1 .. n : Cut(v, Len(v), i) <=> t[i] \in A
    BY <1>5 DEF Says
  <2>2. A \subseteq Range(s)
    <3>1. \A i \in b.position + 1 .. EndOf(b) : i \in 1 .. Len(s)
      BY <1>3, <1>5
    <3> QED BY <1>3, <3>1 DEF Picked, Range
  <2>3. Foreign(a, A)
    BY <2>2 DEF Foreign
  <2> HIDE DEF A, c, n, r
  <2>4. /\ z \in Seq(Operations(Nat, T)) /\ Pieces(z, Len(z), Len(r))
        /\ \A i \in 1 .. Len(r) : Cut(z, Len(z), i) <=> r[i] \in A
    <3>1. z = TransformRound(v, a)
      OBVIOUS
    <3> HIDE DEF z
    <3> QED BY <1>1, <2>1, <2>3, <3>1, PiecesThrough
  <2> HIDE DEF z
  <2>5. Says(b, s, T, z, r)
    BY <1>5, <2>4 DEF Says, A
  <2> QED BY <1>2, <2>5 DEF z, r
<1> QED BY <1>3, <1>4, <1>5

\* So it does after any number of them.
LEMMA SaysAlong ==
  ASSUME NEW S, NEW T, NEW b \in Operations(Nat, T), NEW s \in Seq(Nat), Unlike(s), FitsText(b, s),
         NEW ops, NEW n \in Nat, \A k \in 1 .. n : ops[k] \in Operations(Nat, S) /\ Foreign(ops[k], Range(s)),
         NEW tx, ApplySteps(tx, s, ops, n), NEW out, RoundSteps(out, b, ops, n)
  PROVE  tx[n] \in Seq(Nat) /\ Says(b, s, T, out[n], tx[n])
<1> DEFINE P(k) == tx[k] \in Seq(Nat) /\ Says(b, s, T, out[k], tx[k])
           U == {k \in 0 .. n : ~ P(k)}
<1>1. P(0)
  BY SaysFirst DEF ApplySteps, RoundSteps
<1>2. ASSUME NEW k \in 1 .. n, P(k - 1) PROVE P(k)
  <2> DEFINE a == ops[k]  t == tx[k - 1]  v == out[k - 1]
  <2>1. /\ a \in Operations(Nat, S) /\ Foreign(a, Range(s)) /\ t \in Seq(Nat) /\ Says(b, s, T, v, t)
        /\ tx[k] = ApplyOperation(t, a) /\ out[k] = TransformRound(v, a)
    BY <1>2 DEF ApplySteps, RoundSteps
  <2> HIDE DEF a, t, v
  <2>2. ApplyOperation(t, a) \in Seq(Nat) /\ Says(b, s, T, TransformRound(v, a), ApplyOperation(t, a))
    BY <2>1, SaysRound
  <2> QED BY <2>1, <2>2
<1> HIDE DEF P
<1> SUFFICES ASSUME n \in U PROVE FALSE
  BY DEF P
<1>3. PICK m \in U : \A k \in U : m <= k
  <2>1. U \in SUBSET Nat
    OBVIOUS
  <2> HIDE DEF U
  <2> QED BY <2>1, NatLeast
<1>4. m \in 1 .. n /\ m - 1 \in 0 .. n /\ m - 1 \notin U
  BY <1>1, <1>3
<1> QED BY <1>2, <1>3, <1>4

\* r is what is meant by b, said of s, for t: an insertion comes in whole and
\* between the characters its author put it between; a deletion takes out those
\* that its author selected and no other.
Does(b, s, t, r) ==
  /\ b.type = "insert" =>
       /\ Range(r) = Range(t) \cup Range(b.content)
       /\ \A x \in Range(s) \cap Range(t) : \A y \in Range(b.content) :
            Place(s, x) <= b.position <=> Place(r, x) < Place(r, y)
       /\ \A k \in 1 .. Len(b.content) : r[Place(r, b.content[1]) + k - 1] = b.content[k]
  /\ b.type = "delete" => Thinned(r, t, Picked(b, s))

\* What is said of a text is what is then done to it.
LEMMA SaysDoes ==
  ASSUME NEW T, NEW b \in Operations(Nat, T), NEW s \in Seq(Nat), Unlike(s), FitsText(b, s),
         NEW t \in Seq(Nat), Unlike(t), NEW v, Says(b, s, T, v, t),
         b.type = "insert" => Unlike(b.content) /\ Foreign(b, Range(t))
  PROVE  Does(b, s, t, ApplyOperations(t, v))
<1> DEFINE n == Len(t)  w == b.content  p == b.position  r == ApplyOperations(t, v)
<1>1. /\ b.type \in {"insert", "delete"} /\ p \in Nat /\ w \in Seq(Nat) /\ n \in Nat /\ DOMAIN s = 1 .. Len(s)
      /\ DOMAIN t = 1 .. n /\ Len(s) \in Nat /\ (b.type = "insert" => p <= Len(s))
  BY FitsBounds
<1>2. CASE b.type = "insert"
  <2>1. PICK q \in 0 .. n : v = << [b EXCEPT !.position = q] >> /\ Sides(t, n, q, Before(b, s), Range(s))
    BY <1>2 DEF Says
  <2> DEFINE x == [b EXCEPT !.position = q]
  <2>2. q \in Nat /\ q <= n /\ x.type = "insert" /\ x.position = q /\ x.content = w
    BY <1>1, <1>2 DEF Operations
  <2>3. r = Insert(t, q, w)
    <3>1. DOMAIN v = 1 .. 1 /\ v[1] = x /\ 1 \in Nat
      BY <2>1
    <3> HIDE DEF x, w, r
    <3>2. PICK out : ApplySteps(out, t, v, 1) /\ ApplyOperations(t, v) = out[1]
      BY <3>1, ApplyIsLoop
    <3>3. 1 \in 1 .. 1 /\ 1 - 1 = 0
      OBVIOUS
    <3>4. out[1] = ApplyOperation(t, x)
      BY <3>1, <3>2, <3>3 DEF ApplySteps
    <3> QED BY <2>2, <3>2, <3>4, ApplyInsert DEF r
  <2>4. Unlike(w) /\ \A i \in 1 .. n : \A j \in 1 .. Len(w) : t[i] # w[j]
    BY <1>1, <1>2 DEF Foreign, Range
  <2> HIDE DEF w, x, r, p
  <2>5. Spliced(r, t, q, w)
    <3> HIDE DEF n
    <3>1. \A i \in 1 .. Len(t) : \A j \in 1 .. Len(w) : t[i] # w[j]
      BY <2>4 DEF n
    <3>2. q <= Len(t)
      BY <2>2 DEF n
    <3> QED BY <1>1, <2>2, <2>3, <2>4, <3>1, <3>2, InsertSplices
  <2>6. DOMAIN w = 1 .. Len(w) /\ Len(w) \in Nat
    BY <1>1
  <2>7. ASSUME NEW c \in Range(s) \cap Range(t), NEW d \in Range(w)
        PROVE  Place(s, c) <= p <=> Place(r, c) < Place(r, d)
    <3>1. PICK i \in 1 .. n : t[i] = c
      BY <1>1 DEF Range
    <3>2. PICK h \in 1 .. Len(s) : s[h] = c
      BY <1>1 DEF Range
    <3>3. PICK j \in 1 .. Len(w) : w[j] = d
      BY <2>6 DEF Range
    <3>4. Place(r, d) = q + j /\ Place(r, c) = IF i <= q THEN i ELSE i + Len(w)
      BY <2>5, <3>1, <3>3 DEF Spliced, n
    <3>5. Place(s, c) = h
      BY <3>2, PlaceIs
    <3>6. c \in Before(b, s) <=> h <= p
      <4>1. \A g \in 1 .. p : s[g] = s[h] <=> g = h
        <5>1. \A g \in 1 .. p : g \in 1 .. Len(s)
          BY <1>1, <1>2
        <5> QED BY <5>1 DEF Unlike
      <4>2. c \in Before(b, s) <=> \E g \in 1 .. p : s[g] = s[h]
        BY <3>2 DEF Before, p
      <4>3. h \in Nat /\ h >= 1 /\ p \in Nat
        BY <1>1
      <4> QED BY <4>1, <4>2, <4>3
    <3>7. c \in Before(b, s) <=> i <= q
      BY <2>1, <3>1 DEF Sides
    <3>8. i \in Nat /\ j \in Nat /\ j >= 1 /\ j <= Len(w)
      BY <2>6
    <3> QED BY <2>2, <2>6, <3>4, <3>5, <3>6, <3>7, <3>8
  <2>8. ASSUME NEW k \in 1 .. Len(w) PROVE r[Place(r, w[1]) + k - 1] = w[k]
    <3>1. 1 \in 1 .. Len(w)
      BY <2>6
    <3>2. Place(r, w[1]) = q + 1 /\ r[q + k] = w[k]
      BY <2>5, <3>1 DEF Spliced
    <3>3. (q + 1) + k - 1 = q + k
      BY <2>2, <2>6
    <3> QED BY <3>2, <3>3
  <2>9. Range(r) = Range(t) \cup Range(w)
    BY <2>5 DEF Spliced
  <2>10. Does(b, s, t, r)
    BY <1>2, <2>7, <2>8, <2>9 DEF Does, w, p
  <2> QED BY <2>10 DEF r
<1>3. CASE b.type = "delete"
  <2>1. /\ v \in Seq(Operations(Nat, T)) /\ Pieces(v, Len(v), Len(t))
        /\ \A i \in 1 .. Len(t) : Cut(v, Len(v), i) <=> t[i] \in Picked(b, s)
    BY <1>3 DEF Says
  <2>2. PICK f : Left(ApplyOperations(t, v), t, f, v, Len(v))
    BY <2>1, PiecesApplied
  <2>3. Thinned(ApplyOperations(t, v), t, Picked(b, s))
    BY <2>1, <2>2, LeftIsThinned
  <2> QED BY <1>3, <2>3 DEF Does
<1> QED BY <1>1, <1>2, <1>3

\* Every character of a text was there before or has just been inserted.
LEMMA AppliedFrom ==
  ASSUME NEW S, NEW a \in Operations(Nat, S), NEW y \in Seq(Nat), NEW x \in Range(ApplyOperation(y, a))
  PROVE  x \in Range(y) \/ (a.type = "insert" /\ \E g \in 1 .. Len(a.content) : a.content[g] = x)
<1> DEFINE m == Len(y)  c == Clamped(a, m)  r == ApplyOperation(y, a)
<1>1. m \in Nat /\ c = Clamped(a, m) /\ Changed(r, y, m, c)
  BY AppliedIs
<1>2. DOMAIN y = 1 .. m
  OBVIOUS
<1> HIDE DEF m, c
<1>3. /\ c \in Operations(Nat, S) /\ Fits(c, m) /\ c.type = a.type /\ c.content = a.content
      /\ c.position = Lesser(a.position, m) /\ c.site = a.site
      /\ a.type = "delete" => EndOf(c) = Lesser(EndOf(a), m)
  BY ONLY <1>1, a \in Operations(Nat, S), ClampedIs
<1>4. PICK i \in 1 .. Len(r) : r[i] = x
  <2>1. r \in Seq(Nat) /\ x \in Range(r)
    BY <1>1 DEF Changed
  <2> HIDE DEF r
  <2>2. DOMAIN r = 1 .. Len(r)
    BY <2>1
  <2> QED BY <2>1, <2>2 DEF Range
<1> HIDE DEF r
<1> DEFINE g == i - c.position
<1>5. /\ IsOld(c, i) => Old(c, i) \in 1 .. m /\ r[i] = y[Old(c, i)]
      /\ ~ IsOld(c, i) => c.type = "insert" /\ g \in 1 .. Len(c.content) /\ r[i] = c.content[g]
  BY ONLY <1>1, <1>3, i \in 1 .. Len(r), ChangedIs
<1> HIDE DEF g
<1>6. CASE IsOld(c, i)
  BY <1>2, <1>4, <1>5, <1>6 DEF Range
<1>7. CASE ~ IsOld(c, i)
  BY <1>3, <1>4, <1>5, <1>7
<1> QED BY <1>6, <1>7

\* Operations which insert single characters, each of them once, and none of A.
Novel(ops, n, A) ==
  \A k \in 1 .. n : ops[k].type = "insert" =>
    /\ Len(ops[k].content) = 1 /\ ops[k].content[1] \notin A
    /\ \A j \in 1 .. n : ops[j].type = "insert" /\ ops[j].content[1] = ops[k].content[1] => j = k

\* The character x is one of those that the first n operations insert.
Brought(ops, n, x) == \E j \in 1 .. n : ops[j].type = "insert" /\ ops[j].content[1] = x

\* The k-th of such operations inserts nothing that the text before it has.
LEMMA NextIsForeign ==
  ASSUME NEW ops, NEW n \in Nat, NEW A, Novel(ops, n, A), NEW k \in 1 .. n,
         NEW y, \A x \in Range(y) : x \in A \/ Brought(ops, k - 1, x)
  PROVE  Foreign(ops[k], Range(y)) /\ (ops[k].type = "insert" => Unlike(ops[k].content))
<1> SUFFICES ASSUME ops[k].type = "insert"
             PROVE  Foreign(ops[k], Range(y)) /\ Unlike(ops[k].content)
  BY DEF Foreign
<1>1. Len(ops[k].content) = 1
  BY DEF Novel
<1>2. ops[k].content[1] \notin Range(y)
  <2> SUFFICES ASSUME ops[k].content[1] \in Range(y) PROVE FALSE
    OBVIOUS
  <2>1. ops[k].content[1] \notin A
    BY DEF Novel
  <2>2. PICK j \in 1 .. k - 1 : ops[j].type = "insert" /\ ops[j].content[1] = ops[k].content[1]
    BY <2>1 DEF Brought
  <2>3. j \in 1 .. n /\ j # k
    OBVIOUS
  <2> QED BY <2>2, <2>3 DEF Novel
<1>3. \A i \in 1 .. Len(ops[k].content) : i = 1
  <2>1. \A i \in 1 .. 1 : i = 1
    OBVIOUS
  <2> QED BY <1>1, <2>1
<1> QED BY <1>2, <1>3 DEF Foreign, Unlike

\* The texts along such operations: no character twice, none from elsewhere.
LEMMA TextsAlong ==
  ASSUME NEW S, NEW t \in Seq(Nat), Unlike(t), NEW ops, NEW n \in Nat, \A k \in 1 .. n : ops[k] \in Operations(Nat, S),
         Novel(ops, n, Range(t)), NEW tx, ApplySteps(tx, t, ops, n), NEW h \in 0 .. n
  PROVE  /\ tx[h] \in Seq(Nat) /\ Unlike(tx[h])
         /\ \A x \in Range(tx[h]) : x \in Range(t) \/ Brought(ops, h, x)
<1> DEFINE P(k) == /\ tx[k] \in Seq(Nat) /\ Unlike(tx[k])
                   /\ \A x \in Range(tx[k]) : x \in Range(t) \/ Brought(ops, k, x)
           U == {k \in 0 .. n : ~ P(k)}
<1>1. P(0)
  BY DEF ApplySteps
<1>2. ASSUME NEW k \in 1 .. n, P(k - 1) PROVE P(k)
  <2> DEFINE a == ops[k]  r == tx[k]  y == tx[k - 1]  m == Len(y)  c == Clamped(a, m)
  <2>1. a \in Operations(Nat, S) /\ y \in Seq(Nat) /\ r = ApplyOperation(y, a) /\ Unlike(y)
    BY <1>2 DEF ApplySteps
  <2>2. m \in Nat /\ m = Len(y) /\ c = Clamped(a, m)
    BY <2>1
  <2>3. \A x \in Range(y) : x \in Range(t) \/ Brought(ops, k - 1, x)
    BY <1>2
  <2>4. a.type = "insert" => Len(a.content) = 1
    BY DEF Novel
  <2>5. Foreign(a, Range(y)) /\ (a.type = "insert" => Unlike(a.content))
    BY <2>3, NextIsForeign
  <2>6. \A x : Brought(ops, k, x) <=> Brought(ops, k - 1, x) \/ (a.type = "insert" /\ a.content[1] = x)
    <3>1. \A j : j \in 1 .. k <=> j \in 1 .. k - 1 \/ j = k
      OBVIOUS
    <3> HIDE DEF a
    <3> QED BY <3>1 DEF Brought, a
  <2> HIDE DEF a, y, m, c, r
  <2>7. Changed(r, y, m, c)
    BY <2>1, <2>2, AppliedIs
  <2>8. r \in Seq(Nat) /\ Unlike(r)
    BY <2>1, <2>2, <2>5, <2>7, UnlikeThrough DEF Changed
  <2>9. ASSUME NEW x \in Range(r) PROVE x \in Range(y) \/ (a.type = "insert" /\ a.content[1] = x)
    <3>1. x \in Range(y) \/ (a.type = "insert" /\ \E g \in 1 .. Len(a.content) : a.content[g] = x)
      BY <2>1, AppliedFrom
    <3>2. ASSUME a.type = "insert", NEW g \in 1 .. Len(a.content) PROVE g = 1
      <4>1. Len(a.content) = 1
        BY ONLY <2>4, <3>2
      <4>2. g \in 1 .. 1
        BY ONLY <3>2, <4>1
      <4> QED BY ONLY <4>2
    <3> QED BY <3>1, <3>2
  <2>10. \A x \in Range(r) : x \in Range(t) \/ Brought(ops, k, x)
    BY <2>3, <2>6, <2>9
  <2> QED BY <2>8, <2>10 DEF r
<1> HIDE DEF P
<1> SUFFICES ASSUME h \in U PROVE FALSE
  BY DEF P
<1>3. PICK m \in U : \A k \in U : m <= k
  <2>1. U \in SUBSET Nat
    OBVIOUS
  <2> HIDE DEF U
  <2> QED BY <2>1, NatLeast
<1>4. m \in 1 .. n /\ m - 1 \in 0 .. n /\ m - 1 \notin U
  BY <1>1, <1>3
<1> QED BY <1>2, <1>3, <1>4

-----------------------------------------------------------------------------
(* Whole runs of operations.                                               *)

\* Step by step from 0 one comes to n.
LEMMA Stepwise ==
  ASSUME NEW n \in Nat, NEW P, 0 \in P, \A k \in 1 .. n : k - 1 \in P => k \in P
  PROVE  n \in P
<1> DEFINE U == {k \in 0 .. n : k \notin P}
<1> SUFFICES ASSUME n \in U PROVE FALSE
  OBVIOUS
<1>1. PICK m \in U : \A k \in U : m <= k
  <2>1. U \in SUBSET Nat
    OBVIOUS
  <2> HIDE DEF U
  <2> QED BY <2>1, NatLeast
<1>2. m \in 1 .. n /\ m - 1 \in 0 .. n /\ m - 1 \notin U
  BY <1>1
<1> QED BY <1>1, <1>2

\* The texts along a loop are what the loop makes of them, wherever one looks.
LEMMA TextIs ==
  ASSUME NEW t, NEW ops, NEW n \in Nat, DOMAIN ops = 1 .. n, NEW m \in Nat, NEW tx, ApplySteps(tx, t, ops, m), n <= m
  PROVE  tx[n] = ApplyOperations(t, ops)
<1>1. PICK out : ApplySteps(out, t, ops, n) /\ ApplyOperations(t, ops) = out[n]
  BY ApplyIsLoop
<1> DEFINE P == {k \in 0 .. n : tx[k] = out[k]}
<1>2. 0 \in P
  BY <1>1 DEF ApplySteps
<1>3. ASSUME NEW k \in 1 .. n, k - 1 \in P PROVE k \in P
  <2>1. k \in 1 .. m /\ k \in 0 .. n
    OBVIOUS
  <2>2. tx[k] = ApplyOperation(tx[k - 1], ops[k]) /\ out[k] = ApplyOperation(out[k - 1], ops[k])
    BY <1>1, <2>1 DEF ApplySteps
  <2> QED BY <1>3, <2>1, <2>2
<1> HIDE DEF P
<1>4. n \in P
  BY <1>2, <1>3, Stepwise
<1> QED BY <1>1, <1>4 DEF P

\* More operations apply to what the first ones left.
LEMMA AppliedOnTop ==
  ASSUME NEW S, NEW t, NEW a \in Seq(S), NEW b \in Seq(S)
  PROVE  ApplyOperations(t, a \o b) = ApplyOperations(ApplyOperations(t, a), b)
<1> DEFINE n == Len(a)  m == Len(b)  ab == a \o b
<1>1. /\ n \in Nat /\ m \in Nat /\ n + m \in Nat /\ DOMAIN a = 1 .. n /\ DOMAIN b = 1 .. m /\ DOMAIN ab = 1 .. n + m
      /\ \A k \in 1 .. n : ab[k] = a[k]
      /\ \A k \in 1 .. m : ab[n + k] = b[k]
  OBVIOUS
<1> HIDE DEF n, m, ab
<1>2. PICK out : ApplySteps(out, t, ab, n + m) /\ ApplyOperations(t, ab) = out[n + m]
  BY <1>1, ApplyIsLoop
<1>3. out[n] = ApplyOperations(t, a)
  <2>1. ApplySteps(out, t, a, n)
    <3>1. \A k \in 1 .. n : k \in 1 .. n + m
      BY <1>1
    <3> QED BY <1>1, <1>2, <3>1 DEF ApplySteps
  <2> QED BY <1>1, <2>1, TextIs
<1> DEFINE rest == [k \in 0 .. m |-> out[n + k]]
<1>4. rest[m] = ApplyOperations(out[n], b)
  <2>1. rest[0] = out[n]
    <3>1. 0 \in 0 .. m /\ n + 0 = n
      BY <1>1
    <3> QED BY <3>1
  <2>2. ASSUME NEW k \in 1 .. m PROVE rest[k] = ApplyOperation(rest[k - 1], b[k])
    <3>1. k \in 0 .. m /\ k - 1 \in 0 .. m /\ n + k \in 1 .. n + m /\ (n + k) - 1 = n + (k - 1)
      BY <1>1
    <3>2. out[n + k] = ApplyOperation(out[(n + k) - 1], ab[n + k])
      BY <1>2, <3>1 DEF ApplySteps
    <3> QED BY <1>1, <3>1, <3>2
  <2> HIDE DEF rest
  <2>3. ApplySteps(rest, out[n], b, m)
    BY <2>1, <2>2 DEF ApplySteps
  <2>4. m <= m
    BY <1>1
  <2> QED BY <1>1, <2>3, <2>4, TextIs
<1>5. rest[m] = out[n + m]
  BY <1>1
<1> QED BY <1>2, <1>3, <1>4, <1>5 DEF ab

-----------------------------------------------------------------------------
(* A caret and the character behind it.                                    *)

\* Where the caret before the i-th character of n goes with an operation.
LEMMA CaretKept ==
  ASSUME NEW S, NEW t \in Seq(Nat), Unlike(t), NEW a \in Operations(Nat, S), Foreign(a, Range(t)),
         NEW p \in Nat, p < Len(t), t[p + 1] \in Range(ApplyOperation(t, a)), NEW q, q = TransformCursor(p, a)
  PROVE  q \in Nat /\ q < Len(ApplyOperation(t, a)) /\ ApplyOperation(t, a)[q + 1] = t[p + 1]
<1> DEFINE n == Len(t)  c == Clamped(a, n)  r == ApplyOperation(t, a)
<1>1. n \in Nat /\ c = Clamped(a, n) /\ Changed(r, t, n, c) /\ p < n
  BY AppliedIs
<1>2. DOMAIN t = 1 .. n
  OBVIOUS
<1>3. /\ a.type \in {"insert", "delete"} /\ a.position \in Nat /\ a.length \in Nat /\ Len(a.content) \in Nat
      /\ EndOf(a) = a.position + a.length
  BY DEF Operations, EndOf
<1> HIDE DEF n, c
<1>4. /\ c \in Operations(Nat, S) /\ Fits(c, n) /\ c.type = a.type /\ c.content = a.content
      /\ c.position = Lesser(a.position, n) /\ c.site = a.site
      /\ a.type = "delete" => EndOf(c) = Lesser(EndOf(a), n)
  BY ONLY <1>1, a \in Operations(Nat, S), ClampedIs
<1>5. c.position \in Nat /\ c.length \in Nat /\ EndOf(c) = c.position + c.length
  BY <1>4 DEF Operations, EndOf
<1>6. PICK i \in 1 .. Len(r) : r[i] = t[p + 1]
  <2>1. r \in Seq(Nat)
    BY <1>1 DEF Changed
  <2>2. t[p + 1] \in Range(r)
    OBVIOUS
  <2> HIDE DEF r
  <2>3. DOMAIN r = 1 .. Len(r)
    BY <2>1
  <2> QED BY <2>2, <2>3 DEF Range
<1>7. Len(r) \in Nat /\ Len(r) = NewLength(c, n)
  BY <1>1 DEF Changed
<1> HIDE DEF r
<1>8. p + 1 \in 1 .. n
  BY <1>1
<1>9. IsOld(c, i) /\ Old(c, i) = p + 1
  <2> DEFINE g == i - c.position
  <2>1. /\ IsOld(c, i) => Old(c, i) \in 1 .. n /\ r[i] = t[Old(c, i)]
        /\ ~ IsOld(c, i) => c.type = "insert" /\ g \in 1 .. Len(c.content) /\ r[i] = c.content[g]
    BY ONLY <1>1, <1>4, i \in 1 .. Len(r), ChangedIs
  <2> HIDE DEF g
  <2>2. IsOld(c, i)
    <3> SUFFICES ASSUME ~ IsOld(c, i) PROVE FALSE
      OBVIOUS
    <3>1. a.type = "insert" /\ g \in 1 .. Len(a.content) /\ a.content[g] = t[p + 1]
      BY <1>4, <1>6, <2>1
    <3>2. t[p + 1] \in Range(t)
      BY <1>2, <1>8 DEF Range
    <3> QED BY <3>1, <3>2 DEF Foreign
  <2>3. Old(c, i) \in 1 .. Len(t) /\ p + 1 \in 1 .. Len(t) /\ t[Old(c, i)] = t[p + 1]
    BY <1>6, <1>8, <2>1, <2>2 DEF n
  <2> QED BY <2>2, <2>3 DEF Unlike
<1>10. i = q + 1 /\ q \in Nat
  <2> DEFINE x == c.position  k == Len(a.content)  l == c.length  h == a.position  e == EndOf(a)  y == EndOf(c)
  <2>1. CASE a.type = "insert"
    <3>1. q = IF p >= h THEN p + k ELSE p
      BY <2>1 DEF TransformCursor
    <3>2. ~ (x < i /\ i <= x + k) /\ p + 1 = IF i <= x THEN i ELSE i - k
      BY <1>4, <1>9, <2>1 DEF IsOld, Old
    <3>3. x = (IF h <= n THEN h ELSE n) /\ x \in Nat /\ k \in Nat /\ h \in Nat
      BY <1>3, <1>4, <1>5 DEF Lesser
    <3> HIDE DEF x, k, h
    <3> QED BY ONLY <1>1, <3>1, <3>2, <3>3, i \in 1 .. Len(r), <1>7, p \in Nat
  <2>2. CASE a.type = "delete"
    <3> DEFINE f == a.length
    <3>1. q = IF p >= e THEN p - f ELSE IF p <= h THEN p ELSE h
      BY <2>2 DEF TransformCursor, Lesser, f
    <3>2. p + 1 = IF i <= x THEN i ELSE i + l
      BY <1>4, <1>9, <2>2 DEF Old
    <3>3. /\ x = (IF h <= n THEN h ELSE n) /\ x \in Nat /\ l \in Nat /\ h \in Nat /\ f \in Nat
          /\ e = h + f /\ y = (IF e <= n THEN e ELSE n) /\ y = x + l
      BY <1>3, <1>4, <1>5, <2>2 DEF Lesser, f
    <3>4. i \in Nat /\ i >= 1 /\ p \in Nat /\ p < n /\ n \in Nat /\ f >= 0
      BY <1>1, <1>7, <3>3
    <3> HIDE DEF x, l, h, e, y, f
    <3>5. CASE i <= x
      <4>1. p + 1 = i /\ x <= h /\ h <= e
        BY ONLY <3>2, <3>3, <3>4, <3>5
      <4>2. ~ (p >= e) /\ p <= h
        BY ONLY <3>3, <3>4, <3>5, <4>1
      <4> QED BY ONLY <3>1, <3>4, <4>1, <4>2
    <3>6. CASE ~ (i <= x)
      <4>1. p + 1 = i + l /\ p >= x + l
        BY ONLY <3>2, <3>3, <3>4, <3>6
      <4>2. y = e /\ p >= e
        BY ONLY <3>3, <3>4, <4>1
      <4>3. x = h /\ l = f
        BY ONLY <3>3, <3>4, <4>1, <4>2
      <4> QED BY ONLY <3>1, <3>3, <3>4, <4>1, <4>2, <4>3
    <3> QED BY <3>5, <3>6
  <2> QED BY <1>3, <2>1, <2>2
<1>11. q < Len(r) /\ r[q + 1] = t[p + 1]
  BY <1>6, <1>7, <1>10
<1> QED BY <1>10, <1>11 DEF r

\* Through several operations a caret stays before its character.
LEMMA CaretAlong ==
  ASSUME NEW S, NEW t \in Seq(Nat), Unlike(t), NEW ops, NEW n \in Nat, \A k \in 1 .. n : ops[k] \in Operations(Nat, S),
         Novel(ops, n, Range(t)), NEW tx, ApplySteps(tx, t, ops, n), NEW p \in Nat, p < Len(t),
         t[p + 1] \in Range(tx[n]), NEW out, out[0] = p,
         \A k \in 1 .. n : out[k] = TransformCursor(out[k - 1], ops[k])
  PROVE  out[n] \in Nat /\ out[n] < Len(tx[n]) /\ tx[n][out[n] + 1] = t[p + 1]
<1> DEFINE x == t[p + 1]
           Q(k) == x \in Range(tx[k]) => out[k] \in Nat /\ out[k] < Len(tx[k]) /\ tx[k][out[k] + 1] = x
           P == {k \in 0 .. n : Q(k)}
<1>1. x \in Range(t)
  <2>1. p + 1 \in 1 .. Len(t) /\ DOMAIN t = 1 .. Len(t)
    OBVIOUS
  <2> QED BY <2>1 DEF Range
<1> HIDE DEF x
<1>2. 0 \in P
  BY DEF ApplySteps, x
<1>3. ASSUME NEW k \in 1 .. n, k - 1 \in P PROVE k \in P
  <2> DEFINE a == ops[k]  y == tx[k - 1]  r == tx[k]  s == out[k - 1]
  <2>1. a \in Operations(Nat, S) /\ r = ApplyOperation(y, a) /\ out[k] = TransformCursor(s, a) /\ k - 1 \in 0 .. n
    BY DEF ApplySteps
  <2>2. /\ y \in Seq(Nat) /\ Unlike(y)
        /\ \A z \in Range(y) : z \in Range(t) \/ Brought(ops, k - 1, z)
    BY <2>1, TextsAlong
  <2>3. Foreign(a, Range(y))
    BY <2>2, NextIsForeign
  <2>4. a.type = "insert" => \A g \in 1 .. Len(a.content) : a.content[g] # x
    <3> SUFFICES ASSUME a.type = "insert", NEW g \in 1 .. Len(a.content) PROVE a.content[g] # x
      OBVIOUS
    <3>1. Len(a.content) = 1 /\ a.content[1] \notin Range(t)
      BY DEF Novel
    <3>2. g \in 1 .. 1
      BY ONLY g \in 1 .. Len(a.content), <3>1
    <3>3. g = 1
      BY ONLY <3>2
    <3> QED BY <1>1, <3>1, <3>3
  <2>5. Q(k - 1)
    BY <1>3
  <2> HIDE DEF a, s, r, y
  <2>6. ASSUME x \in Range(r) PROVE out[k] \in Nat /\ out[k] < Len(r) /\ r[out[k] + 1] = x
    <3>1. x \in Range(y)
      BY <2>1, <2>2, <2>4, <2>6, AppliedFrom
    <3>2. s \in Nat /\ s < Len(y) /\ y[s + 1] = x
      BY <2>5, <3>1 DEF y, s
    <3>3. y[s + 1] \in Range(ApplyOperation(y, a))
      BY <2>1, <2>6, <3>2
    <3>4. /\ out[k] \in Nat /\ out[k] < Len(ApplyOperation(y, a)) /\ ApplyOperation(y, a)[out[k] + 1] = y[s + 1]
      BY ONLY <2>1, <2>2, <2>3, <3>2, <3>3, CaretKept
    <3> QED BY <2>1, <3>2, <3>4
  <2> QED BY <2>6 DEF r
<1> HIDE DEF Q
<1>4. n \in P
  <2> HIDE DEF P
  <2> QED BY <1>2, <1>3, Stepwise
<1>5. Q(n)
  BY <1>4
<1> QED BY <1>5 DEF Q, x

-----------------------------------------------------------------------------
(* An edit and the log it is transformed against.                          *)

\* An edit of the text after the first k operations of the log, transformed
\* against the others and applied, does to the text after all of them what was
\* meant for the text it was made on.
LEMMA DoesThroughLog ==
  ASSUME NEW S, NEW org \in Seq(Nat), Unlike(org), NEW log \in Seq(Operations(Nat, S)), Novel(log, Len(log), Range(org)),
         NEW k \in Nat, k <= Len(log), NEW b \in Operations(Nat, S), NEW s, s = ApplyOperations(org, SubSeq(log, 1, k)),
         FitsText(b, s), NEW t, t = ApplyOperations(org, log), b.type = "insert" => Unlike(b.content) /\ Foreign(b, Range(t)),
         NEW v, v = TransformOperations(b, SubSeq(log, k + 1, Len(log)))
  PROVE  Does(b, s, t, ApplyOperations(t, v))
<1> DEFINE R == Operations(Nat, S)  n == Len(log)  l == n - k  few == SubSeq(log, 1, k)  part == SubSeq(log, k + 1, n)
<1>1. /\ n \in Nat /\ DOMAIN log = 1 .. n /\ l \in Nat /\ k \in 0 .. n /\ n \in 0 .. n /\ k + l = n
      /\ \A i \in 1 .. n : log[i] \in R
      /\ DOMAIN few = 1 .. k /\ \A i \in 1 .. k : few[i] = log[i] /\ i \in 1 .. n
      /\ DOMAIN part = 1 .. l /\ \A i \in 1 .. l : part[i] = log[k + i] /\ k + i \in 1 .. n
  <2>1. log \in Seq(R) /\ k \in Nat /\ k <= Len(log)
    OBVIOUS
  <2> HIDE DEF R
  <2>2. n \in Nat /\ DOMAIN log = 1 .. n /\ \A i \in 1 .. n : log[i] \in R
    BY ONLY <2>1 DEF n
  <2>3. k \in Nat /\ n \in Nat /\ k <= n
    BY ONLY <2>1, <2>2 DEF n
  <2>4. l \in Nat /\ k \in 0 .. n /\ n \in 0 .. n /\ k + l = n
    BY ONLY <2>3 DEF l
  <2>5. DOMAIN few = 1 .. k /\ \A i \in 1 .. k : few[i] = log[i] /\ i \in 1 .. n
    BY ONLY <2>1, <2>2, <2>3 DEF few
  <2>6. DOMAIN part = 1 .. l /\ \A i \in 1 .. l : part[i] = log[k + i] /\ k + i \in 1 .. n
    BY ONLY <2>1, <2>2, <2>3, <2>4 DEF part, l
  <2> QED BY ONLY <2>2, <2>4, <2>5, <2>6
<1>2. s = ApplyOperations(org, few) /\ v = TransformOperations(b, part) /\ Novel(log, n, Range(org))
  OBVIOUS
<1> HIDE DEF few, part, n, l
<1>3. PICK tx : ApplySteps(tx, org, log, n) /\ t = tx[n]
  BY <1>1, ApplyIsLoop
<1>4. tx[k] = s
  <2>1. ApplySteps(tx, org, few, k)
    BY <1>1, <1>3 DEF ApplySteps
  <2>2. k <= k
    OBVIOUS
  <2> QED BY <1>1, <1>2, <2>1, <2>2, TextIs
<1>5. /\ s \in Seq(Nat) /\ Unlike(s) /\ \A x \in Range(s) : x \in Range(org) \/ Brought(log, k, x)
      /\ t \in Seq(Nat) /\ Unlike(t)
  <2>1. /\ org \in Seq(Nat) /\ Unlike(org) /\ n \in Nat /\ \A i \in 1 .. n : log[i] \in Operations(Nat, S)
        /\ Novel(log, n, Range(org)) /\ ApplySteps(tx, org, log, n)
    BY <1>1, <1>2, <1>3
  <2>2. ASSUME NEW h \in 0 .. n
        PROVE  /\ tx[h] \in Seq(Nat) /\ Unlike(tx[h])
               /\ \A x \in Range(tx[h]) : x \in Range(org) \/ Brought(log, h, x)
    BY ONLY <2>1, <2>2, TextsAlong
  <2> QED BY <1>1, <1>3, <1>4, <2>2
<1>6. \A i \in 1 .. l : part[i] \in R /\ Foreign(part[i], Range(s))
  <2> TAKE i \in 1 .. l
  <2>1. k + i \in 1 .. n /\ part[i] = log[k + i] /\ log[k + i] \in R
    BY <1>1
  <2>2. \A x \in Range(s) : x \in Range(org) \/ Brought(log, (k + i) - 1, x)
    <3>1. \A j \in 1 .. k : j \in 1 .. (k + i) - 1
      BY <1>1
    <3> QED BY <1>5, <3>1 DEF Brought
  <2> DEFINE j == k + i
  <2>3. j \in 1 .. n /\ part[i] = log[j] /\ \A x \in Range(s) : x \in Range(org) \/ Brought(log, j - 1, x)
    BY <2>1, <2>2
  <2> HIDE DEF j
  <2>4. Foreign(log[j], Range(s))
    BY <1>1, <1>2, <2>3, NextIsForeign
  <2> QED BY <2>1, <2>3, <2>4
<1>7. PICK out : RoundSteps(out, b, part, l) /\ v = out[l]
  BY <1>1, <1>2, RoundIsLoop
<1> DEFINE ty == [i \in 0 .. l |-> tx[k + i]]
<1>8. ApplySteps(ty, s, part, l) /\ ty[l] = t
  <2>1. ty[0] = s /\ ty[l] = t
    BY <1>1, <1>3, <1>4
  <2>2. ASSUME NEW i \in 1 .. l PROVE ty[i] = ApplyOperation(ty[i - 1], part[i])
    <3>1. i \in 0 .. l /\ i - 1 \in 0 .. l /\ k + (i - 1) = (k + i) - 1 /\ k + i \in 1 .. n
      BY <1>1
    <3>2. ty[i] = tx[k + i] /\ ty[i - 1] = tx[(k + i) - 1]
      BY <3>1
    <3>3. tx[k + i] = ApplyOperation(tx[(k + i) - 1], log[k + i])
      BY <1>3, <3>1 DEF ApplySteps
    <3> QED BY <1>1, <3>2, <3>3
  <2> HIDE DEF ty
  <2> QED BY <2>1, <2>2 DEF ApplySteps
<1> HIDE DEF ty
<1>9. Says(b, s, S, v, t)
  <2>1. \A i \in 1 .. l : part[i] \in Operations(Nat, S) /\ Foreign(part[i], Range(s))
    BY <1>6
  <2>2. b \in Operations(Nat, S) /\ s \in Seq(Nat) /\ Unlike(s) /\ FitsText(b, s) /\ l \in Nat
    BY <1>1, <1>5
  <2>3. ApplySteps(ty, s, part, l) /\ RoundSteps(out, b, part, l)
    BY <1>7, <1>8
  <2>4. Says(b, s, S, out[l], ty[l])
    BY ONLY <2>1, <2>2, <2>3, SaysAlong
  <2> QED BY <1>7, <1>8, <2>4
<1> QED BY <1>5, <1>9, SaysDoes

=============================================================================
