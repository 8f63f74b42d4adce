------------------------ MODULE ResultCollectorProofs ------------------------
(***************************************************************************)
(* Theorems about ResultCollector, for every set of texts, their lengths,  *)
(* limits and results of any size.  Induction, over the elements of a sum, *)
(* is by the least number for which a fact would fail.                     *)
(***************************************************************************)
EXTENDS ResultCollector, SequenceTheorems, WellFoundedInduction, TLAPS

-----------------------------------------------------------------------------
(* The inductive invariant.                                                *)

\* What a collector can hold.
Retained == [columns : Seq(Text), rows : Seq(Seq(Cell)), tag : Cell, affected : Cell]

TypeInv == TypeOK /\ retained \in Retained

\* The first n elements of s.
Start(s, n) == SubSeq(s, 1, n)

\* Columns are a start of the statement's, and short of it only after an error.
ColumnsInv ==
  \E n \in 0..Len(whole.columns) :
    /\ retained.columns = Start(whole.columns, n)
    /\ n \in {0, Len(whole.columns)} \/ firstError # "none"

\* Until an error nothing that arrived is missing, the tag with its count comes last.
PrefixInv ==
  /\ pc = "rows" => retained.tag = Null /\ retained.affected = Null
  /\ firstError = "none" =>
       /\ sent > 0 \/ pc = "drained" => retained.columns = whole.columns
       /\ retained.rows = Start(whole.rows, sent)
       /\ pc = "drained" => sent = Len(whole.rows)
  /\ firstError = "none" /\ pc = "drained" =>
       retained.tag = whole.tag /\ retained.affected = whole.affected

\* The error that is returned is the one that stands, or the loss of the connection.
OutcomeInv ==
  /\ firstError # "shape"
  /\ pc = "returned" => outcome \in {"lost", IF firstError = "none" THEN "ok" ELSE firstError}
  /\ outcome = "ok" => retained = whole

\* The result while its count is still to come.
Uncounted == [whole EXCEPT !.affected = Null]

\* Nothing that fits is refused.
Overflows == ~Fits(whole) \/ ~Fits(Uncounted)
LimitInv == firstError = "limit" => Overflows

\* The inductive invariant.
IndInv == TypeInv /\ ColumnsInv /\ PrefixInv /\ OutcomeInv /\ RetainedFits /\ LimitInv

-----------------------------------------------------------------------------
(* Results and their parts.                                                *)

\* The parts of what a statement returns.
LEMMA WholeType ==
  ASSUME NEW r \in Results
  PROVE  /\ r.columns \in Seq(Text) /\ r.rows \in Seq(Seq(Cell))
         /\ r.tag \in Text /\ r.affected \in Cell
         /\ r \in Retained
<1>1. PICK n \in 0..MaxColumns :
        r \in [columns : TupleOf(Text, n), rows : BoundedSeq(TupleOf(Cell, n), MaxRows),
               tag : Text, affected : Count \cup {Null}]
  BY DEF Results
<1>2. r.columns \in [1..n -> Text]
  BY <1>1 DEF TupleOf
<1>3. PICK m \in 0..MaxRows : r.rows \in [1..m -> [1..n -> Cell]]
  BY <1>1 DEF TupleOf, BoundedSeq, SeqOf
<1>4. n \in Nat /\ m \in Nat
  BY ResultAssumption
<1>5. r.columns \in Seq(Text)
  BY <1>2, <1>4, SeqDef
<1>6. [1..n -> Cell] \subseteq Seq(Cell)
  BY <1>4, SeqDef
<1>7. r.rows \in Seq(Seq(Cell))
  BY <1>3, <1>4, <1>6, SeqDef
<1>8. r.tag \in Text /\ r.affected \in Cell
  BY <1>1, ResultAssumption DEF Cell
<1> QED
  BY <1>1, <1>5, <1>7, <1>8 DEF Retained, Cell

\* TypeOK speaks of the elements of what is retained.
LEMMA RetainedElements ==
  ASSUME NEW r \in Retained
  PROVE  /\ ToSet(r.columns) \subseteq Text
         /\ \A row \in ToSet(r.rows) : ToSet(row) \subseteq Cell
         /\ r.tag \in Cell /\ r.affected \in Cell
  BY ElementOfSeq, LenProperties DEF Retained, ToSet

\* One element more.
LEMMA StartStep ==
  ASSUME NEW S, NEW s \in Seq(S), NEW n \in Nat, n < Len(s)
  PROVE  Append(Start(s, n), s[n + 1]) = Start(s, n + 1)
  BY SubSeqProperties, AppendProperties, LenProperties DEF Start

\* All of a sequence, and nothing of it.
LEMMA StartWhole ==
  ASSUME NEW S, NEW s \in Seq(S)
  PROVE  Start(s, Len(s)) = s /\ Start(s, 0) = <<>>
  BY SubSeqProperties, LenProperties, EmptySeq DEF Start

\* A start of n elements has n of them, the first n.
LEMMA StartType ==
  ASSUME NEW S, NEW s \in Seq(S), NEW n \in 0..Len(s)
  PROVE  /\ Start(s, n) \in Seq(S) /\ Len(Start(s, n)) = n
         /\ \A i \in 1..n : Start(s, n)[i] = s[i] /\ i \in 1..Len(s)
  BY SubSeqProperties, LenProperties DEF Start

\* The limits of a query are fixed: what fits goes on to fit.
LEMMA FitsOn ==
  ASSUME NEW r, Fits(r), UNCHANGED limits, retained' = r
  PROVE  RetainedFits'
  BY DEF RetainedFits, Fits, CellsFit

\* An empty result is within every limit.
LEMMA EmptyFits ==
  ASSUME limits \in Limits
  PROVE  Fits(NoResult)
<1>1. NoResult.columns = <<>> /\ NoResult.rows = <<>> /\ NoResult.tag = Null
      /\ NoResult.affected = Null
  BY DEF NoResult
<1>2. CellsFit(<<>> \o <<Null, Null>>)
  <2>1. <<>> \o <<Null, Null>> = <<Null, Null>>
    BY DEF Cell
  <2>2. ToSet(<<Null, Null>>) = {Null}
    BY DEF ToSet
  <2> QED
    BY <2>1, <2>2 DEF CellsFit
<1>3. ToSet(<<>>) = {}
  BY DEF ToSet
<1>4. limits.columns >= 0 /\ limits.rows >= 0 /\ limits.bytes \in ByteLimits
  BY ResultAssumption DEF Limits
<1> QED
  BY <1>1, <1>2, <1>3, <1>4, ByteLimitAssumption DEF Fits

-----------------------------------------------------------------------------
(* Sums, and the bytes of a start of a result.                             *)

\* A set of numbers that is not empty has a least one.
LEMMA LeastNumber ==
  ASSUME NEW M \in SUBSET Nat, M # {}
  PROVE  \E x \in M : \A y \in M : x <= y
<1>1. PICK x \in M : \A y \in M : ~(<<y, x>> \in OpToRel(<, Nat))
  BY WFMin, NatLessThanWellFounded
<1>2. \A y \in M : ~(y < x)
  BY <1>1 DEF OpToRel
<1> QED
  BY <1>2

\* f sums up the first n numbers of s, for each n up to m.
SumsUp(f, s, m) ==
  /\ f \in [0..m -> Nat]
  /\ f[0] = 0
  /\ \A n \in 1..m : f[n] = f[n - 1] + s[n]

\* There are such sums, by the least m for which there would be none.
LEMMA SumsExist ==
  ASSUME NEW s \in Seq(Nat)
  PROVE  \E f : SumsUp(f, s, Len(s))
<1> DEFINE P(m) == \E f : SumsUp(f, s, m)
           M == {m \in 0..Len(s) : ~P(m)}
<1>1. Len(s) \in Nat /\ \A n \in 1..Len(s) : s[n] \in Nat
  BY ElementOfSeq, LenProperties
<1>2. P(0)
  <2>1. SumsUp([n \in 0..0 |-> 0], s, 0)
    BY DEF SumsUp
  <2> QED
    BY <2>1
<1>3. ASSUME NEW m \in 1..Len(s), P(m - 1)
      PROVE  P(m)
  <2>1. PICK f : SumsUp(f, s, m - 1)
    BY <1>3
  <2> DEFINE g == [n \in 0..m |-> IF n = m THEN f[m - 1] + s[m] ELSE f[n]]
  <2>2. m \in Nat /\ m - 1 \in 0..m - 1 /\ s[m] \in Nat
    BY <1>1
  <2>3. f \in [0..m - 1 -> Nat] /\ f[0] = 0 /\ \A n \in 1..m - 1 : f[n] = f[n - 1] + s[n]
    BY <2>1 DEF SumsUp
  <2>4. \A n \in 0..m : g[n] = IF n = m THEN f[m - 1] + s[m] ELSE f[n]
    OBVIOUS
  <2>5. \A n \in 0..m : g[n] \in Nat
    BY <1>3, <2>2, <2>3, <2>4
  <2>6. g \in [0..m -> Nat]
    BY <2>5
  <2> HIDE DEF g
  <2>7. \A n \in 1..m : g[n] = g[n - 1] + s[n]
    <3>1. g[m] = g[m - 1] + s[m]
      BY <1>3, <2>2, <2>4
    <3>2. ASSUME NEW n \in 1..m - 1
          PROVE  g[n] = g[n - 1] + s[n]
      <4>1. n \in 0..m /\ n - 1 \in 0..m /\ n # m /\ n - 1 # m
        BY <2>2
      <4>2. g[n] = f[n] /\ g[n - 1] = f[n - 1]
        BY <2>4, <4>1
      <4> QED
        BY <2>3, <4>2
    <3>3. \A n \in 1..m : n = m \/ n \in 1..m - 1
      BY <2>2
    <3> QED
      BY <3>1, <3>2, <3>3
  <2>8. g[0] = 0
    BY <1>3, <2>2, <2>3, <2>4
  <2> QED
    BY <2>6, <2>7, <2>8 DEF SumsUp
<1>4. ASSUME M # {} PROVE FALSE
  <2>1. M \in SUBSET Nat
    BY <1>1
  <2>2. PICK m \in M : \A n \in M : m <= n
    BY <1>4, <2>1, LeastNumber
  <2>3. m \in 0..Len(s) /\ ~P(m)
    OBVIOUS
  <2> HIDE DEF P
  <2>4. m \in 1..Len(s)
    BY <1>1, <1>2, <2>3
  <2>5. m - 1 \in 0..Len(s) /\ m - 1 < m
    BY <1>1, <2>4
  <2>6. P(m - 1)
    BY <2>2, <2>5
  <2> QED
    BY <1>3, <2>3, <2>4, <2>6
<1> QED
  BY <1>1, <1>4

\* Sum is the last of them.
LEMMA SumIsLast ==
  ASSUME NEW s \in Seq(Nat)
  PROVE  \E f : SumsUp(f, s, Len(s)) /\ Sum(s) = f[Len(s)]
<1> DEFINE T(f) == [n \in 0..Len(s) |-> IF n = 0 THEN 0 ELSE f[n - 1] + s[n]]
           total == CHOOSE f : f = T(f)
<1>1. Len(s) \in Nat
  BY LenProperties
<1>2. PICK f : SumsUp(f, s, Len(s))
  BY SumsExist
<1>3. f = T(f)
  BY <1>1, <1>2 DEF SumsUp
<1>4. total = T(total)
  <2> HIDE DEF T
  <2> QED
    BY <1>3
<1>5. Sum(s) = total[Len(s)]
  BY DEF Sum
<1> HIDE DEF total
<1>6. \A n \in 0..Len(s) : total[n] = IF n = 0 THEN 0 ELSE total[n - 1] + s[n]
  BY <1>4
<1>7. /\ f \in [0..Len(s) -> Nat] /\ f[0] = 0
      /\ \A n \in 1..Len(s) : f[n] = f[n - 1] + s[n]
  BY <1>2 DEF SumsUp
<1> DEFINE M == {n \in 0..Len(s) : total[n] # f[n]}
<1>8. ASSUME M # {} PROVE FALSE
  <2>1. M \in SUBSET Nat
    BY <1>1
  <2>2. PICK m \in M : \A n \in M : m <= n
    BY <1>8, <2>1, LeastNumber
  <2>3. m \in 1..Len(s)
    BY <1>1, <1>6, <1>7
  <2>4. m - 1 \in 0..Len(s) /\ m - 1 < m
    BY <1>1, <2>3
  <2>5. total[m - 1] = f[m - 1]
    BY <2>2, <2>4
  <2>6. total[m] = total[m - 1] + s[m] /\ f[m] = f[m - 1] + s[m]
    BY <1>1, <1>6, <1>7, <2>3
  <2> QED
    BY <2>5, <2>6
<1>9. total[Len(s)] = f[Len(s)]
  BY <1>1, <1>8
<1> QED
  BY <1>2, <1>5, <1>9

\* A sum with more numbers, or greater ones, is at least as great.
LEMMA SumGrows ==
  ASSUME NEW s \in Seq(Nat), NEW t \in Seq(Nat), Len(s) <= Len(t),
         \A n \in 1..Len(s) : s[n] <= t[n]
  PROVE  Sum(s) \in Nat /\ Sum(t) \in Nat /\ Sum(s) <= Sum(t)
<1> DEFINE j == Len(s)
           k == Len(t)
<1>1. /\ j \in Nat /\ k \in Nat
      /\ \A n \in 1..j : s[n] \in Nat
      /\ \A n \in 1..k : t[n] \in Nat
  BY ElementOfSeq, LenProperties
<1>2. PICK f : SumsUp(f, s, j) /\ Sum(s) = f[j]
  BY SumIsLast
<1>3. PICK g : SumsUp(g, t, k) /\ Sum(t) = g[k]
  BY SumIsLast
<1> HIDE DEF j, k
<1>4. /\ f \in [0..j -> Nat] /\ f[0] = 0
      /\ \A n \in 1..j : f[n] = f[n - 1] + s[n]
  BY <1>2 DEF SumsUp
<1>5. /\ g \in [0..k -> Nat] /\ g[0] = 0
      /\ \A n \in 1..k : g[n] = g[n - 1] + t[n]
  BY <1>3 DEF SumsUp
<1>6. j <= k /\ \A n \in 1..j : s[n] <= t[n]
  BY DEF j, k
<1> DEFINE M == {n \in 0..k : g[n] < IF n <= j THEN f[n] ELSE f[j]}
<1>7. ASSUME M # {} PROVE FALSE
  <2>1. M \in SUBSET Nat
    BY <1>1
  <2>2. PICK m \in M : \A n \in M : m <= n
    BY <1>7, <2>1, LeastNumber
  <2>3. m \in 1..k
    BY <1>1, <1>4, <1>5
  <2>4. m - 1 \in 0..k /\ m - 1 < m
    BY <1>1, <2>3
  <2>5. ~(g[m - 1] < IF m - 1 <= j THEN f[m - 1] ELSE f[j])
    BY <2>2, <2>4
  <2>6. g[m] = g[m - 1] + t[m] /\ g[m - 1] \in Nat /\ t[m] \in Nat
    BY <1>1, <1>5, <2>3, <2>4
  <2>7. CASE m <= j
    <3>1. m \in 1..j /\ m - 1 \in 0..j
      BY <1>1, <2>3, <2>7
    <3>2. f[m] = f[m - 1] + s[m] /\ f[m - 1] \in Nat /\ s[m] \in Nat /\ s[m] <= t[m]
      BY <1>1, <1>4, <1>6, <3>1
    <3>3. ~(g[m - 1] < f[m - 1]) /\ g[m] < f[m]
      BY <1>1, <2>5, <2>7, <3>1
    <3> QED
      <4>1. \A a, b, c, d \in Nat : ~(c < a) /\ b <= d => ~(c + d < a + b)
        OBVIOUS
      <4> HIDE DEF M
      <4>2. ~(g[m - 1] + t[m] < f[m - 1] + s[m])
        BY <2>6, <3>2, <3>3, <4>1
      <4> QED
        BY <2>6, <3>2, <3>3, <4>2
  <2>8. CASE m > j
    <3>1. f[j] \in Nat /\ g[m] < f[j]
      BY <1>1, <1>4, <2>3, <2>8
    <3>2. ~(g[m - 1] < f[j])
      <4>1. m - 1 = j \/ ~(m - 1 <= j)
        BY <1>1, <2>3, <2>8
      <4> QED
        BY <2>5, <4>1
    <3> QED
      BY <2>6, <3>1, <3>2
  <2> QED
    BY <1>1, <2>3, <2>7, <2>8
<1>8. k \in 0..k /\ j \in 0..j /\ f[j] \in Nat /\ g[k] \in Nat
  BY <1>1, <1>4, <1>5
<1>9. ~(g[k] < IF k <= j THEN f[k] ELSE f[j])
  BY <1>7, <1>8
<1>10. f[j] <= g[k]
  BY <1>1, <1>6, <1>8, <1>9
<1> QED
  BY <1>2, <1>3, <1>8, <1>10

\* So is a JSON array.
LEMMA ArrayGrows ==
  ASSUME NEW s \in Seq(Nat), NEW t \in Seq(Nat), Len(s) <= Len(t),
         \A n \in 1..Len(s) : s[n] <= t[n]
  PROVE  Array(s) \in Nat /\ Array(t) \in Nat /\ Array(s) <= Array(t)
<1>1. Sum(s) \in Nat /\ Sum(t) \in Nat /\ Sum(s) <= Sum(t)
  BY SumGrows
<1>2. Len(s) \in Nat /\ Len(t) \in Nat /\ (s = <<>> <=> Len(s) = 0) /\ (t = <<>> <=> Len(t) = 0)
  BY LenProperties, EmptySeq
<1>3. Array(s) = 2 + Sum(s) + (IF s = <<>> THEN 0 ELSE Len(s) - 1)
  BY DEF Array
<1>4. Array(t) = 2 + Sum(t) + (IF t = <<>> THEN 0 ELSE Len(t) - 1)
  BY DEF Array
<1>5. CASE s = <<>>
  BY <1>1, <1>2, <1>3, <1>4, <1>5
<1>6. CASE s # <<>>
  <2>1. t # <<>> /\ Len(s) - 1 \in Nat /\ Len(t) - 1 \in Nat /\ Len(s) - 1 <= Len(t) - 1
    BY <1>2, <1>6
  <2>2. Array(s) = 2 + Sum(s) + (Len(s) - 1) /\ Array(t) = 2 + Sum(t) + (Len(t) - 1)
    BY <1>3, <1>4, <1>6, <2>1
  <2> QED
    BY <1>1, <2>1, <2>2
<1> QED
  BY <1>5, <1>6

\* The lengths of columns, of the cells of a row, and of rows.
ColumnLengths(r) == [i \in DOMAIN r.columns |-> ColumnKeys + Encoded[r.columns[i]]]
CellLengths(cells) == [i \in DOMAIN cells |-> Encoded[cells[i]]]
RowLengths(r) == [i \in DOMAIN r.rows |-> Array(CellLengths(r.rows[i]))]

\* A function on 1..n is a sequence of length n.
LEMMA FunctionIsSeq ==
  ASSUME NEW S, NEW n \in Nat, NEW f \in [1..n -> S]
  PROVE  f \in Seq(S) /\ Len(f) = n
<1>1. f \in Seq(S)
  BY SeqDef
<1> QED
  BY <1>1, LenProperties

\* Lengths are natural numbers, one for each column and row.
LEMMA LengthsType ==
  ASSUME NEW r \in Retained
  PROVE  /\ ColumnLengths(r) \in Seq(Nat) /\ Len(ColumnLengths(r)) = Len(r.columns)
         /\ RowLengths(r) \in Seq(Nat) /\ Len(RowLengths(r)) = Len(r.rows)
<1>1. /\ r.columns \in Seq(Text) /\ DOMAIN r.columns = 1..Len(r.columns)
      /\ Len(r.columns) \in Nat /\ \A i \in 1..Len(r.columns) : r.columns[i] \in Cell
  BY ElementOfSeq, LenProperties DEF Retained, Cell
<1>2. \A i \in 1..Len(r.columns) : ColumnKeys + Encoded[r.columns[i]] \in Nat
  BY <1>1, ResultAssumption
<1>3. ColumnLengths(r) \in [1..Len(r.columns) -> Nat]
  BY <1>1, <1>2 DEF ColumnLengths
<1>4. ColumnLengths(r) \in Seq(Nat) /\ Len(ColumnLengths(r)) = Len(r.columns)
  BY <1>1, <1>3, FunctionIsSeq
<1>5. /\ r.rows \in Seq(Seq(Cell)) /\ DOMAIN r.rows = 1..Len(r.rows)
      /\ Len(r.rows) \in Nat /\ \A i \in 1..Len(r.rows) : r.rows[i] \in Seq(Cell)
  BY ElementOfSeq, LenProperties DEF Retained
<1>6. ASSUME NEW cells \in Seq(Cell)
      PROVE  Array(CellLengths(cells)) \in Nat
  <2>1. DOMAIN cells = 1..Len(cells) /\ Len(cells) \in Nat
        /\ \A i \in 1..Len(cells) : cells[i] \in Cell
    BY ElementOfSeq, LenProperties
  <2>2. CellLengths(cells) \in [1..Len(cells) -> Nat]
    BY <2>1, ResultAssumption DEF CellLengths
  <2>3. CellLengths(cells) \in Seq(Nat)
    BY <2>1, <2>2, FunctionIsSeq
  <2>4. Len(CellLengths(cells)) \in Nat
        /\ \A n \in 1..Len(CellLengths(cells)) : CellLengths(cells)[n] \in Nat
    BY <2>3, LenProperties, ElementOfSeq
  <2> HIDE DEF CellLengths
  <2>5. Len(CellLengths(cells)) <= Len(CellLengths(cells))
        /\ \A n \in 1..Len(CellLengths(cells)) : CellLengths(cells)[n] <= CellLengths(cells)[n]
    BY <2>4
  <2> QED
    BY <2>3, <2>5, ArrayGrows
<1>7. RowLengths(r) \in [1..Len(r.rows) -> Nat]
  BY <1>5, <1>6 DEF RowLengths
<1>8. RowLengths(r) \in Seq(Nat) /\ Len(RowLengths(r)) = Len(r.rows)
  BY <1>5, <1>7, FunctionIsSeq
<1> QED
  BY <1>4, <1>8

\* What has arrived of a result before its tag.
StartOf(r, w) ==
  /\ \E n \in 0..Len(w.columns) : r.columns = Start(w.columns, n)
  /\ \E n \in 0..Len(w.rows) : r.rows = Start(w.rows, n)
  /\ r.tag = Null /\ r.affected = w.affected

\* It has no more bytes than the result.
LEMMA BytesGrow ==
  ASSUME NEW r \in Retained, NEW w \in Retained, w.tag \in Text, StartOf(r, w)
  PROVE  Bytes(r) \in Nat /\ Bytes(w) \in Nat /\ Bytes(r) <= Bytes(w)
<1>1. PICK n \in 0..Len(w.columns) : r.columns = Start(w.columns, n)
  BY DEF StartOf
<1>2. PICK m \in 0..Len(w.rows) : r.rows = Start(w.rows, m)
  BY DEF StartOf
<1>3. /\ w.columns \in Seq(Text) /\ r.columns \in Seq(Text) /\ Len(w.columns) \in Nat
      /\ w.rows \in Seq(Seq(Cell)) /\ r.rows \in Seq(Seq(Cell)) /\ Len(w.rows) \in Nat
  BY LenProperties DEF Retained
<1>4. /\ ColumnLengths(r) \in Seq(Nat) /\ Len(ColumnLengths(r)) = Len(r.columns)
      /\ ColumnLengths(w) \in Seq(Nat) /\ Len(ColumnLengths(w)) = Len(w.columns)
      /\ RowLengths(r) \in Seq(Nat) /\ Len(RowLengths(r)) = Len(r.rows)
      /\ RowLengths(w) \in Seq(Nat) /\ Len(RowLengths(w)) = Len(w.rows)
  BY LengthsType
<1>5. /\ Array(ColumnLengths(r)) \in Nat /\ Array(ColumnLengths(w)) \in Nat
      /\ Array(ColumnLengths(r)) <= Array(ColumnLengths(w))
  <2>1. Len(r.columns) = n /\ \A i \in 1..n : r.columns[i] = w.columns[i] /\ i \in 1..Len(w.columns)
    <3>0. w.columns \in Seq(Text) /\ n \in 0..Len(w.columns)
      BY <1>3
    <3>1. /\ Len(Start(w.columns, n)) = n
          /\ \A i \in 1..n : Start(w.columns, n)[i] = w.columns[i] /\ i \in 1..Len(w.columns)
      BY <3>0, StartType
    <3> QED
      BY <1>1, <3>1
  <2>2. DOMAIN r.columns = 1..n /\ DOMAIN w.columns = 1..Len(w.columns)
    BY <1>3, <2>1, LenProperties
  <2>3. \A i \in 1..n : ColumnLengths(r)[i] = ColumnLengths(w)[i]
    BY <2>1, <2>2 DEF ColumnLengths
  <2>4. \A i \in 1..n : ColumnLengths(w)[i] \in Nat
    BY <1>3, <1>4, <2>1, ElementOfSeq
  <2>5. \A i \in 1..Len(ColumnLengths(r)) : ColumnLengths(r)[i] <= ColumnLengths(w)[i]
    BY <1>4, <2>1, <2>3, <2>4
  <2>6. Len(ColumnLengths(r)) <= Len(ColumnLengths(w))
    BY <1>3, <1>4, <2>1
  <2> QED
    BY <1>4, <2>5, <2>6, ArrayGrows
<1>6. /\ Array(RowLengths(r)) \in Nat /\ Array(RowLengths(w)) \in Nat
      /\ Array(RowLengths(r)) <= Array(RowLengths(w))
  <2>1. Len(r.rows) = m /\ \A i \in 1..m : r.rows[i] = w.rows[i] /\ i \in 1..Len(w.rows)
    <3>0. w.rows \in Seq(Seq(Cell)) /\ m \in 0..Len(w.rows)
      BY <1>3
    <3>1. /\ Len(Start(w.rows, m)) = m
          /\ \A i \in 1..m : Start(w.rows, m)[i] = w.rows[i] /\ i \in 1..Len(w.rows)
      BY <3>0, StartType
    <3> QED
      BY <1>2, <3>1
  <2>2. DOMAIN r.rows = 1..m /\ DOMAIN w.rows = 1..Len(w.rows)
    BY <1>3, <2>1, LenProperties
  <2>3. \A i \in 1..m : RowLengths(r)[i] = RowLengths(w)[i]
    BY <2>1, <2>2 DEF RowLengths
  <2>4. \A i \in 1..m : RowLengths(w)[i] \in Nat
    BY <1>3, <1>4, <2>1, ElementOfSeq
  <2>5. \A i \in 1..Len(RowLengths(r)) : RowLengths(r)[i] <= RowLengths(w)[i]
    BY <1>4, <2>1, <2>3, <2>4
  <2>6. Len(RowLengths(r)) <= Len(RowLengths(w))
    BY <1>3, <1>4, <2>1
  <2> QED
    BY <1>4, <2>5, <2>6, ArrayGrows
<1>7. /\ Encoded[r.affected] = Encoded[w.affected] /\ Encoded[w.affected] \in Nat
      /\ EncodedTag(r.tag) = 2 /\ EncodedTag(w.tag) >= 2 /\ EncodedTag(w.tag) \in Nat
  BY ResultAssumption DEF StartOf, EncodedTag, Retained, Cell
<1>8. Bytes(r) = Encoded[r.affected] + EncodedTag(r.tag) + Array(ColumnLengths(r))
                   + Array(RowLengths(r))
  BY DEF Bytes, ColumnLengths, RowLengths, CellLengths
<1>9. Bytes(w) = Encoded[w.affected] + EncodedTag(w.tag) + Array(ColumnLengths(w))
                   + Array(RowLengths(w))
  BY DEF Bytes, ColumnLengths, RowLengths, CellLengths
<1> DEFINE a == Encoded[w.affected]
           tag == EncodedTag(w.tag)
           fewColumns == Array(ColumnLengths(r))
           allColumns == Array(ColumnLengths(w))
           fewRows == Array(RowLengths(r))
           allRows == Array(RowLengths(w))
<1>10. /\ a \in Nat /\ tag \in Nat /\ 2 <= tag
       /\ fewColumns \in Nat /\ allColumns \in Nat /\ fewColumns <= allColumns
       /\ fewRows \in Nat /\ allRows \in Nat /\ fewRows <= allRows
  BY <1>5, <1>6, <1>7
<1>11. Bytes(r) = a + 2 + fewColumns + fewRows /\ Bytes(w) = a + tag + allColumns + allRows
  BY <1>7, <1>8, <1>9
<1> HIDE DEF a, tag, fewColumns, allColumns, fewRows, allRows
<1> QED
  BY <1>10, <1>11

\* No cell of it is longer than those of the result.
LEMMA StartCells ==
  ASSUME NEW c \in Seq(Text), NEW n \in 0..Len(c), NEW t, CellsFit(c \o <<t, Null>>)
  PROVE  CellsFit(Start(c, n) \o <<Null, Null>>)
<1> DEFINE S == Text \cup {t, Null}
           few == Start(c, n) \o <<Null, Null>>
           all == c \o <<t, Null>>
<1>1. /\ Start(c, n) \in Seq(S) /\ Len(Start(c, n)) = n /\ c \in Seq(S)
      /\ \A i \in 1..n : Start(c, n)[i] = c[i] /\ i \in 1..Len(c)
      /\ n \in Nat /\ Len(c) \in Nat
  <2>1. c \in Seq(S) /\ Len(c) \in Nat /\ n \in 0..Len(c)
    <3>1. Len(c) \in Nat /\ c \in [1..Len(c) -> Text]
      BY LenProperties
    <3>2. c \in [1..Len(c) -> S]
      BY <3>1
    <3> HIDE DEF S
    <3> QED
      BY <3>1, <3>2, FunctionIsSeq
  <2> HIDE DEF S
  <2> QED
    BY <2>1, StartType
<1>2. /\ <<Null, Null>> \in Seq(S) /\ Len(<<Null, Null>>) = 2
      /\ <<t, Null>> \in Seq(S) /\ Len(<<t, Null>>) = 2
  OBVIOUS
<1> HIDE DEF S
<1>3. /\ few \in Seq(S) /\ Len(few) = n + 2
      /\ \A i \in 1..n + 2 : few[i] = IF i <= n THEN Start(c, n)[i] ELSE <<Null, Null>>[i - n]
  BY <1>1, <1>2, ConcatProperties
<1>4. /\ all \in Seq(S) /\ Len(all) = Len(c) + 2
      /\ \A i \in 1..Len(c) + 2 : all[i] = IF i <= Len(c) THEN c[i] ELSE <<t, Null>>[i - Len(c)]
  BY <1>1, <1>2, ConcatProperties
<1>5. DOMAIN few = 1..n + 2 /\ DOMAIN all = 1..Len(c) + 2
  BY <1>3, <1>4, LenProperties
<1> HIDE DEF few, all
<1>6. \A i \in 1..n : few[i] = all[i] /\ i \in DOMAIN all
  BY <1>1, <1>3, <1>4, <1>5
<1>7. few[n + 1] = Null /\ few[n + 2] = Null
  <2>1. /\ n + 1 \in 1..n + 2 /\ ~(n + 1 <= n) /\ (n + 1) - n = 1
        /\ n + 2 \in 1..n + 2 /\ ~(n + 2 <= n) /\ (n + 2) - n = 2
    BY <1>1
  <2>2. few[n + 1] = <<Null, Null>>[1] /\ few[n + 2] = <<Null, Null>>[2]
    BY <1>3, <2>1
  <2> QED
    BY <2>2
<1>8. \A cell \in ToSet(few) : cell = Null \/ cell \in ToSet(all)
  <2>1. ASSUME NEW i \in DOMAIN few
        PROVE  few[i] = Null \/ few[i] \in ToSet(all)
    <3>1. i \in 1..n \/ i = n + 1 \/ i = n + 2
      BY <1>1, <1>5
    <3> QED
      BY <1>6, <1>7, <3>1 DEF ToSet
  <2> QED
    BY <2>1 DEF ToSet
<1>9. CellsFit(all)
  BY DEF all
<1>10. CellsFit(few)
  BY <1>8, <1>9 DEF CellsFit
<1> QED
  BY <1>10 DEF few

\* So it fits if the result does, unless rows came before their columns.
LEMMA StartFits ==
  ASSUME limits \in Limits, NEW r \in Retained, NEW w \in Retained,
         w.tag \in Text, w.affected = Null, StartOf(r, w),
         r.rows = <<>> \/ r.columns = w.columns, Fits(w)
  PROVE  Fits(r)
<1>1. PICK n \in 0..Len(w.columns) : r.columns = Start(w.columns, n)
  BY DEF StartOf
<1>2. PICK m \in 0..Len(w.rows) : r.rows = Start(w.rows, m)
  BY DEF StartOf
<1>3. w.columns \in Seq(Text) /\ Len(w.columns) \in Nat
  BY LenProperties DEF Retained
<1>4. w.rows \in Seq(Seq(Cell)) /\ Len(w.rows) \in Nat /\ m \in 0..Len(w.rows)
  BY LenProperties DEF Retained
<1>5. Len(r.columns) = n
  <2>1. Len(Start(w.columns, n)) = n
    BY <1>3, StartType
  <2> QED
    BY <1>1, <2>1
<1>6. Len(r.rows) = m /\ \A i \in 1..m : r.rows[i] = w.rows[i] /\ i \in 1..Len(w.rows)
  <2>1. /\ Len(Start(w.rows, m)) = m
        /\ \A i \in 1..m : Start(w.rows, m)[i] = w.rows[i] /\ i \in 1..Len(w.rows)
    <3> DEFINE s == w.rows
    <3>1. s \in Seq(Seq(Cell)) /\ m \in 0..Len(s)
      BY <1>4
    <3> HIDE DEF s
    <3>2. Len(Start(s, m)) = m /\ \A i \in 1..m : Start(s, m)[i] = s[i] /\ i \in 1..Len(s)
      BY <3>1, StartType
    <3> QED
      BY <3>2 DEF s
  <2> QED
    BY <1>2, <2>1
<1>7. /\ Len(w.columns) <= limits.columns /\ Len(w.rows) <= limits.rows
      /\ CellsFit(w.columns \o <<w.tag, Null>>)
      /\ \A row \in ToSet(w.rows) : Len(row) = Len(w.columns) /\ CellsFit(row)
      /\ Bytes(w) <= limits.bytes
  BY DEF Fits
<1>8. limits.columns \in Nat /\ limits.rows \in Nat /\ limits.bytes \in Nat
  <2>1. limits.columns \in 1..MaxColumns /\ limits.rows \in 1..MaxRows
        /\ limits.bytes \in ByteLimits
    BY DEF Limits
  <2>2. MaxColumns \in Nat /\ MaxRows \in Nat /\ ByteLimits \subseteq Nat
    BY ResultAssumption
  <2>3. limits.bytes \in Nat
    BY <2>1, <2>2
  <2> QED
    BY <2>1, <2>2, <2>3
<1>9. Len(r.columns) <= limits.columns /\ Len(r.rows) <= limits.rows
  BY <1>3, <1>4, <1>5, <1>6, <1>7, <1>8
<1>10. CellsFit(r.columns \o <<r.tag, r.affected>>)
  <2>1. CellsFit(Start(w.columns, n) \o <<Null, Null>>)
    BY <1>3, <1>7, StartCells
  <2> QED
    BY <1>1, <2>1 DEF StartOf
<1>11. ASSUME NEW row \in ToSet(r.rows)
       PROVE  Len(row) = Len(r.columns) /\ CellsFit(row)
  <2>1. r.rows \in Seq(Seq(Cell)) /\ DOMAIN r.rows = 1..m /\ DOMAIN w.rows = 1..Len(w.rows)
    BY <1>4, <1>6, LenProperties DEF Retained
  <2>2. PICK i \in 1..m : row = r.rows[i]
    BY <2>1 DEF ToSet
  <2>3. row \in ToSet(w.rows)
    BY <1>6, <2>1, <2>2 DEF ToSet
  <2>4. r.columns = w.columns
    BY <1>4, <1>6, <2>2
  <2> QED
    BY <1>7, <2>3, <2>4
<1>12. Bytes(r) <= limits.bytes
  <2>1. Bytes(r) \in Nat /\ Bytes(w) \in Nat /\ Bytes(r) <= Bytes(w)
    BY BytesGrow
  <2> QED
    BY <1>7, <1>8, <2>1
<1> QED
  BY <1>9, <1>10, <1>11, <1>12 DEF Fits

-----------------------------------------------------------------------------
(* The collector's operations.                                             *)

\* What a collector is left with, and the error that stopped it.
Steps == [kept : Retained, error : {"none", "limit", "shape", "database"}]

\* A candidate either stays, and then it fits, or leaves all as it was and the error.
LEMMA KeepStep ==
  ASSUME NEW step \in Steps, NEW candidate \in Retained, Fits(step.kept)
  PROVE  LET s == Keep(step, candidate)
         IN  /\ s \in Steps /\ Fits(s.kept)
             /\ \/ s.kept = candidate /\ s.error = step.error
                \/ s.kept = step.kept /\ s.error = "limit" /\ ~Fits(candidate)
<1>1. CASE Fits(candidate)
  <2>1. Keep(step, candidate) = [step EXCEPT !.kept = candidate]
    BY <1>1 DEF Keep
  <2>2. /\ [step EXCEPT !.kept = candidate].kept = candidate
        /\ [step EXCEPT !.kept = candidate].error = step.error
        /\ [step EXCEPT !.kept = candidate] \in Steps
    BY DEF Steps
  <2> QED
    BY <1>1, <2>1, <2>2
<1>2. CASE ~Fits(candidate)
  <2>1. Keep(step, candidate) = [step EXCEPT !.error = "limit"]
    BY <1>2 DEF Keep, Refuse
  <2>2. /\ [step EXCEPT !.error = "limit"].kept = step.kept
        /\ [step EXCEPT !.error = "limit"].error = "limit"
        /\ [step EXCEPT !.error = "limit"] \in Steps
    BY DEF Steps
  <2> QED
    BY <1>2, <2>1, <2>2
<1> QED
  BY <1>1, <1>2

\* The columns that fit are a start of all of them: one more does not fit.
LEMMA FirstMissing ==
  ASSUME NEW n \in Nat, NEW fitting \in SUBSET (0..n), 0 \in fitting
  PROVE  \E k \in fitting : k + 1 \notin fitting
<1> DEFINE M == {k \in Nat : k \notin fitting}
<1>1. n + 1 \in M
  OBVIOUS
<1>2. PICK x \in M : \A y \in M : x <= y
  BY <1>1, LeastNumber
<1>3. \A y \in M : ~(y < x)
  BY <1>2
<1>4. x # 0 /\ x \in Nat
  OBVIOUS
<1>5. x - 1 \in Nat /\ x - 1 < x /\ (x - 1) + 1 = x
  BY <1>4
<1>6. x - 1 \in fitting
  BY <1>3, <1>5
<1>7. x \notin fitting
  OBVIOUS
<1> QED
  BY <1>5, <1>6, <1>7

\* The collector with other columns.
WithColumns(r, columns) == [r EXCEPT !.columns = columns]

\* Nothing else of it changes.
LEMMA WithColumnsType ==
  ASSUME NEW r \in Retained, NEW columns \in Seq(Text)
  PROVE  /\ WithColumns(r, columns) \in Retained
         /\ WithColumns(r, columns).columns = columns
         /\ WithColumns(r, columns).rows = r.rows
         /\ WithColumns(r, columns).tag = r.tag
         /\ WithColumns(r, columns).affected = r.affected
         /\ columns = r.columns => WithColumns(r, columns) = r
  BY DEF Retained, WithColumns

\* Columns are added to a collector that has none: the longest start that fits.
LEMMA AddColumnsStep ==
  ASSUME TypeInv, NEW step \in Steps, Fits(step.kept), step.kept.columns = <<>>
  PROVE  LET s == AddColumns(step)
         IN  /\ s \in Steps /\ Fits(s.kept)
             /\ \E n \in 0..Len(whole.columns) :
                  /\ s.kept = WithColumns(step.kept, Start(whole.columns, n))
                  /\ s.error = IF n = Len(whole.columns) THEN "none" ELSE "limit"
             /\ s.error = "limit" =>
                  \E n \in 0..Len(whole.columns) :
                    ~Fits(WithColumns(step.kept, Start(whole.columns, n)))
<1> DEFINE first(n) == WithColumns(step.kept, Start(whole.columns, n))
           N == Len(whole.columns)
           fitting == {n \in 0..N : \A m \in 1..n : Fits(first(m))}
           k == CHOOSE n \in fitting : n + 1 \notin fitting
<1>1. whole.columns \in Seq(Text) /\ N \in Nat
  BY WholeType, LenProperties DEF TypeInv, TypeOK
<1>2. 0 \in fitting
  BY <1>1
<1>3. k \in fitting /\ k + 1 \notin fitting
  <2>1. fitting \in SUBSET (0..N)
    OBVIOUS
  <2> HIDE DEF fitting
  <2>2. \E n \in fitting : n + 1 \notin fitting
    BY <1>1, <1>2, <2>1, FirstMissing
  <2> QED
    BY <2>2
<1>4. AddColumns(step) = [kept |-> first(k), error |-> IF k = N THEN "none" ELSE "limit"]
  BY DEF AddColumns, WithColumns, Start
<1> HIDE DEF k
<1>5. k \in 0..N
  BY <1>3
<1>6. step.kept \in Retained
  BY DEF Steps
<1>7. first(k) \in Retained
  BY <1>1, <1>5, <1>6, StartType, WithColumnsType
<1>8. Fits(first(k))
  <2>1. CASE k = 0
    <3>1. Start(whole.columns, 0) = <<>> /\ <<>> \in Seq(Text)
      BY <1>1, StartWhole, EmptySeq
    <3>2. WithColumns(step.kept, <<>>) = step.kept
      <4>1. step.kept.columns \in Seq(Text)
        BY <3>1
      <4>2. step.kept = WithColumns(step.kept, step.kept.columns)
        BY <1>6, <4>1, WithColumnsType
      <4> QED
        BY <4>2
    <3> QED
      BY <2>1, <3>1, <3>2
  <2>2. CASE k # 0
    BY <1>1, <1>3, <1>5, <2>2
  <2> QED
    BY <2>1, <2>2
<1>9. k # N => \E n \in 0..N : ~Fits(first(n))
  <2> HAVE k # N
  <2>1. k + 1 \in 0..N /\ \E m \in 1..k + 1 : ~Fits(first(m))
    BY <1>1, <1>3, <1>5
  <2> HIDE DEF first
  <2> QED
    BY <1>1, <1>5, <2>1
<1> HIDE DEF first, N, fitting
<1>10. AddColumns(step) \in Steps /\ AddColumns(step).kept = first(k)
      /\ AddColumns(step).error = IF k = N THEN "none" ELSE "limit"
  BY <1>4, <1>7 DEF Steps
<1> QED
  BY <1>5, <1>8, <1>9, <1>10 DEF first, N

\* What is kept of the columns when a result arrives: all of them, unless there is an
\* error; a result of another shape comes only after one.
LEMMA ColumnsStep ==
  ASSUME TypeInv, ColumnsInv, RetainedFits
  PROVE  LET s == Columns(Arrived)
         IN  /\ s \in Steps /\ Fits(s.kept)
             /\ s.error = "shape" => firstError # "none"
             /\ \E n \in 0..Len(whole.columns) :
                  /\ s.kept = WithColumns(retained, Start(whole.columns, n))
                  /\ s.error = "none" => n = Len(whole.columns)
<1> DEFINE N == Len(whole.columns)
           s == Columns(Arrived)
<1>1. whole.columns \in Seq(Text) /\ N \in Nat /\ limits.columns \in Nat
  BY WholeType, LenProperties, ResultAssumption DEF TypeInv, TypeOK, Limits
<1>2. retained \in Retained /\ retained.columns \in Seq(Text)
  BY DEF TypeInv, Retained
<1>3. PICK n \in 0..N : /\ retained.columns = Start(whole.columns, n)
                        /\ n \in {0, N} \/ firstError # "none"
  BY DEF ColumnsInv
<1>4. Len(retained.columns) = n
  <2>1. Len(Start(whole.columns, n)) = n
    BY <1>1, StartType
  <2> QED
    BY <1>3, <2>1
<1>5. retained = WithColumns(retained, Start(whole.columns, n))
  <2>1. retained = WithColumns(retained, retained.columns)
    BY <1>2, WithColumnsType
  <2> QED
    BY <1>3, <2>1
<1>6. Arrived \in Steps /\ Arrived.kept = retained /\ Arrived.error = "none" /\ Fits(retained)
  BY <1>2 DEF Arrived, Steps, RetainedFits
<1>7. \A error \in {"limit", "shape"} :
        /\ Refuse(Arrived, error) \in Steps
        /\ Refuse(Arrived, error).kept = retained
        /\ Refuse(Arrived, error).error = error
  BY <1>2 DEF Refuse, Arrived, Steps
<1>8. CASE N > limits.columns
  <2>1. s = Refuse(Arrived, "limit")
    BY <1>1, <1>8 DEF Columns
  <2> QED
    BY <1>3, <1>5, <1>6, <1>7, <2>1
<1>9. CASE N <= limits.columns /\ n = 0
  <2>1. s = AddColumns(Arrived)
    BY <1>1, <1>4, <1>6, <1>9 DEF Columns
  <2>2. Arrived.kept.columns = <<>>
    <3>1. Start(whole.columns, 0) = <<>>
      BY <1>1, StartWhole
    <3> QED
      BY <1>3, <1>6, <1>9, <3>1
  <2> HIDE DEF N, s
  <2>3. /\ s \in Steps /\ Fits(s.kept)
        /\ \E m \in 0..Len(whole.columns) :
             /\ s.kept = WithColumns(retained, Start(whole.columns, m))
             /\ s.error = IF m = Len(whole.columns) THEN "none" ELSE "limit"
    BY <1>6, <2>1, <2>2, AddColumnsStep
  <2> QED
    BY <2>3 DEF N, s
<1>10. CASE N <= limits.columns /\ n \notin {0, N}
  <2>1. s = Refuse(Arrived, "shape")
    BY <1>1, <1>4, <1>6, <1>10 DEF Columns
  <2> QED
    BY <1>3, <1>5, <1>6, <1>7, <1>10, <2>1
<1>11. CASE N <= limits.columns /\ n = N /\ n # 0
  <2>1. s = Arrived
    BY <1>1, <1>4, <1>6, <1>11 DEF Columns
  <2> QED
    BY <1>3, <1>5, <1>6, <1>11, <2>1
<1> QED
  BY <1>1, <1>3, <1>8, <1>9, <1>10, <1>11

\* What arrives after the columns is added to the kept rows, unless there is an error.
LEMMA AddRowStep ==
  ASSUME NEW step \in Steps, Fits(step.kept), NEW row \in Seq(Cell)
  PROVE  LET s == AddRow(step, row)
         IN  /\ s \in Steps /\ Fits(s.kept)
             /\ s.kept.columns = step.kept.columns
             /\ s.kept.tag = step.kept.tag /\ s.kept.affected = step.kept.affected
             /\ s.error = "shape" => step.error = "shape"
             /\ s.error = "none" =>
                  step.error = "none" /\ s.kept.rows = Append(step.kept.rows, row)
             /\ s.error = "limit" /\ step.error # "limit" =>
                  step.error = "none" /\ ~Fits([step.kept EXCEPT !.rows = Append(@, row)])
<1> DEFINE candidate == [step.kept EXCEPT !.rows = Append(@, row)]
<1>1. /\ candidate \in Retained
      /\ candidate.columns = step.kept.columns
      /\ candidate.rows = Append(step.kept.rows, row)
      /\ candidate.tag = step.kept.tag /\ candidate.affected = step.kept.affected
  BY AppendProperties DEF Steps, Retained
<1> HIDE DEF candidate
<1>2. CASE step.error = "none"
  <2>1. AddRow(step, row) = Keep(step, candidate)
    BY <1>2 DEF AddRow, candidate
  <2> DEFINE s == AddRow(step, row)
  <2>2. /\ s \in Steps /\ Fits(s.kept)
        /\ \/ s.kept = candidate /\ s.error = step.error
           \/ s.kept = step.kept /\ s.error = "limit" /\ ~Fits(candidate)
    BY <1>1, <2>1, KeepStep
  <2> HIDE DEF s
  <2>3. s.error = "limit" => ~Fits(candidate)
    BY <1>2, <2>2
  <2>4. s.error = "limit" => ~Fits([step.kept EXCEPT !.rows = Append(@, row)])
    BY <2>3 DEF candidate
  <2> QED
    BY <1>1, <1>2, <2>2, <2>4 DEF s
<1>3. CASE step.error # "none"
  BY <1>3 DEF AddRow
<1> QED
  BY <1>2, <1>3

\* So are the tag and the count of a command.
LEMMA AddCommandStep ==
  ASSUME TypeInv, NEW step \in Steps, Fits(step.kept), step.kept.affected = Null
  PROVE  LET s == AddCommand(step)
         IN  /\ s \in Steps /\ Fits(s.kept)
             /\ s.kept.columns = step.kept.columns /\ s.kept.rows = step.kept.rows
             /\ s.error = "shape" => step.error = "shape"
             /\ s.error = "none" =>
                  /\ step.error = "none"
                  /\ s.kept.tag = whole.tag /\ s.kept.affected = whole.affected
             /\ s.error = "limit" /\ step.error # "limit" =>
                  /\ step.error = "none"
                  /\ \/ ~Fits([step.kept EXCEPT !.tag = whole.tag])
                     \/ ~Fits([step.kept EXCEPT !.tag = whole.tag, !.affected = whole.affected])
<1> DEFINE candidate == [step.kept EXCEPT !.tag = whole.tag]
           tagged == Keep(step, candidate)
           counted == [tagged.kept EXCEPT !.affected = whole.affected]
<1>1. whole.tag \in Cell /\ whole.affected \in Cell
  BY WholeType DEF TypeInv, TypeOK, Cell
<1>2. /\ candidate \in Retained
      /\ candidate.columns = step.kept.columns /\ candidate.rows = step.kept.rows
      /\ candidate.tag = whole.tag /\ candidate.affected = step.kept.affected
  BY <1>1 DEF Steps, Retained
<1> HIDE DEF candidate
<1>3. /\ tagged \in Steps /\ Fits(tagged.kept)
      /\ \/ tagged.kept = candidate /\ tagged.error = step.error
         \/ tagged.kept = step.kept /\ tagged.error = "limit" /\ ~Fits(candidate)
  BY <1>2, KeepStep
<1> HIDE DEF tagged
<1>4. /\ counted \in Retained
      /\ counted.columns = tagged.kept.columns /\ counted.rows = tagged.kept.rows
      /\ counted.tag = tagged.kept.tag /\ counted.affected = whole.affected
  BY <1>1, <1>3 DEF Steps, Retained
<1>5. tagged.kept = candidate =>
        counted = [step.kept EXCEPT !.tag = whole.tag, !.affected = whole.affected]
  BY DEF candidate
<1>6. candidate = [step.kept EXCEPT !.tag = whole.tag]
  BY DEF candidate
<1> HIDE DEF counted
<1>7. CASE step.error # "none"
  BY <1>7 DEF AddCommand
<1>8. CASE step.error = "none" /\ (tagged.error # "none" \/ whole.affected = Null)
  <2>1. AddCommand(step) = tagged
    BY <1>8 DEF AddCommand, tagged, candidate
  <2>2. tagged.error = "limit" => ~Fits([step.kept EXCEPT !.tag = whole.tag])
    BY <1>3, <1>6, <1>8
  <2>3. /\ tagged.kept.columns = step.kept.columns /\ tagged.kept.rows = step.kept.rows
        /\ tagged.error # "shape"
        /\ tagged.error = "none" => tagged.kept.tag = whole.tag /\ tagged.kept.affected = Null
    BY <1>2, <1>3, <1>8
  <2> QED
    BY <1>3, <1>8, <2>1, <2>2, <2>3
<1>9. CASE step.error = "none" /\ tagged.error = "none" /\ whole.affected # Null
  <2> DEFINE s == AddCommand(step)
  <2>1. s = Keep(tagged, counted)
    BY <1>9 DEF AddCommand, tagged, candidate, counted
  <2>2. /\ s \in Steps /\ Fits(s.kept)
        /\ \/ s.kept = counted /\ s.error = tagged.error
           \/ s.kept = tagged.kept /\ s.error = "limit" /\ ~Fits(counted)
    BY <1>3, <1>4, <2>1, KeepStep
  <2> HIDE DEF s
  <2>3. tagged.kept = candidate
    BY <1>3, <1>9
  <2>4. s.error = "limit" =>
          ~Fits([step.kept EXCEPT !.tag = whole.tag, !.affected = whole.affected])
    BY <1>5, <1>9, <2>2, <2>3
  <2> QED
    BY <1>2, <1>4, <1>9, <2>2, <2>3, <2>4 DEF s
<1> QED
  BY <1>7, <1>8, <1>9

-----------------------------------------------------------------------------
(* A result is refused only if it is too large.                            *)

\* What fits, and what does not, with the limits of the query and what the server sent.
LEMMA OverflowsOn ==
  ASSUME Overflows, UNCHANGED <<limits, whole>>
  PROVE  Overflows'
  BY DEF Overflows, Uncounted, Fits, CellsFit

\* The result without its count.
LEMMA UncountedType ==
  ASSUME TypeInv
  PROVE  /\ Uncounted \in Retained
         /\ Uncounted.columns = whole.columns /\ Uncounted.rows = whole.rows
         /\ Uncounted.tag = whole.tag /\ Uncounted.tag \in Text /\ Uncounted.affected = Null
<1>1. whole \in Retained /\ whole.tag \in Text
  BY WholeType DEF TypeInv, TypeOK
<1> QED
  BY <1>1 DEF Uncounted, Retained, Cell

\* A start of the result that does not fit shows that the result does not.
LEMMA StartOverflows ==
  ASSUME TypeInv, NEW r \in Retained,
         NEW n \in 0..Len(whole.columns), r.columns = Start(whole.columns, n),
         NEW m \in 0..Len(whole.rows), r.rows = Start(whole.rows, m),
         r.tag = Null, r.affected = Null,
         m = 0 \/ n = Len(whole.columns), ~Fits(r)
  PROVE  Overflows
<1>1. limits \in Limits /\ whole \in Results
  BY DEF TypeInv, TypeOK
<1>2. /\ Uncounted \in Retained
      /\ Uncounted.columns = whole.columns /\ Uncounted.rows = whole.rows
      /\ Uncounted.tag \in Text /\ Uncounted.affected = Null
  BY UncountedType
<1>3. StartOf(r, Uncounted)
  BY <1>2 DEF StartOf
<1>4. m = 0 => r.rows = <<>>
  BY <1>1, WholeType, StartWhole
<1>5. n = Len(whole.columns) => r.columns = Uncounted.columns
  <2>1. Start(whole.columns, Len(whole.columns)) = whole.columns
    BY <1>1, WholeType, StartWhole
  <2> QED
    BY <1>2, <2>1
<1>6. r.rows = <<>> \/ r.columns = Uncounted.columns
  BY <1>4, <1>5
<1>7. ~Fits(Uncounted)
  BY <1>1, <1>2, <1>3, <1>6, StartFits
<1> QED
  BY <1>7 DEF Overflows

\* The columns alone overflow only if the result does.
LEMMA ColumnsOverflow ==
  ASSUME TypeInv, ColumnsInv, PrefixInv, RetainedFits, pc = "rows", firstError = "none",
         Columns(Arrived).error = "limit"
  PROVE  Overflows
<1> DEFINE N == Len(whole.columns)
<1>1. /\ whole.columns \in Seq(Text) /\ whole.rows \in Seq(Seq(Cell))
      /\ N \in Nat /\ limits.columns \in Nat /\ sent \in 0..Len(whole.rows)
  BY WholeType, LenProperties, ResultAssumption DEF TypeInv, TypeOK, Limits
<1>2. /\ retained \in Retained /\ retained.tag = Null /\ retained.affected = Null
      /\ retained.rows = Start(whole.rows, sent)
      /\ sent > 0 => retained.columns = whole.columns
  BY DEF TypeInv, PrefixInv
<1>3. Arrived \in Steps /\ Arrived.kept = retained /\ Arrived.error = "none"
      /\ Refuse(Arrived, "shape").error = "shape" /\ Fits(retained)
  BY <1>2 DEF Arrived, Steps, RetainedFits, Refuse
<1>4. CASE N > limits.columns
  <2>1. ~Fits(whole)
    BY <1>1, <1>4 DEF Fits
  <2> QED
    BY <2>1 DEF Overflows
<1>5. CASE N <= limits.columns
  <2>1. Len(retained.columns) = 0 /\ Columns(Arrived) = AddColumns(Arrived)
    <3>1. Len(retained.columns) \in Nat
      BY <1>2, LenProperties DEF Retained
    <3> QED
      BY <1>1, <1>3, <1>5, <3>1 DEF Columns
  <2>2. retained.columns = <<>>
    BY <1>2, <2>1, EmptySeq DEF Retained
  <2>3. \E n \in 0..N : ~Fits(WithColumns(retained, Start(whole.columns, n)))
    BY <1>3, <2>1, <2>2, AddColumnsStep
  <2>4. PICK n \in 0..N : ~Fits(WithColumns(retained, Start(whole.columns, n)))
    BY <2>3
  <2>5. sent = 0 \/ n = N
    <3>1. sent > 0 => whole.columns = <<>>
      BY <1>2, <2>2
    <3> QED
      BY <1>1, <3>1
  <2>6. Start(whole.columns, n) \in Seq(Text)
    BY <1>1, StartType
  <2> DEFINE r == WithColumns(retained, Start(whole.columns, n))
  <2>7. /\ r \in Retained /\ r.columns = Start(whole.columns, n)
        /\ r.rows = Start(whole.rows, sent) /\ r.tag = Null /\ r.affected = Null
    BY <1>2, <2>6, WithColumnsType
  <2>8. ~Fits(r)
    BY <2>4
  <2> HIDE DEF r
  <2> QED
    BY <1>1, <2>5, <2>7, <2>8, StartOverflows
<1> QED
  BY <1>1, <1>4, <1>5

-----------------------------------------------------------------------------
(* The invariant is inductive.                                             *)

\* What the collector is left with is taken: all but PrefixInv follows from what holds of
\* the columns.
LEMMA TakeStep ==
  ASSUME IndInv, pc = "rows",
         NEW step \in Steps, Fits(step.kept),
         step.error = "shape" => firstError # "none",
         NEW n \in 0..Len(whole.columns),
         step.kept.columns = Start(whole.columns, n),
         step.error = "none" => n = Len(whole.columns),
         firstError = "none" /\ step.error = "limit" => Overflows,
         Take(step), sent' \in 0..Len(whole.rows), pc' \in {"rows", "drained"},
         UNCHANGED <<limits, whole, outcome>>
  PROVE  /\ TypeInv' /\ ColumnsInv' /\ OutcomeInv' /\ RetainedFits' /\ LimitInv'
         /\ retained' = step.kept
         /\ firstError' = "none" =>
              /\ firstError = "none" /\ step.error = "none"
              /\ retained'.columns = whole.columns
<1>1. /\ retained' = step.kept
      /\ firstError' = IF firstError = "none" THEN step.error ELSE firstError
  BY DEF Take
<1>2. TypeInv /\ OutcomeInv /\ TypeOK
  BY DEF IndInv, TypeInv
<1>3. step.kept \in Retained /\ step.error \in {"none", "limit", "shape", "database"}
  BY DEF Steps
<1>4. firstError' # "shape"
  BY <1>1, <1>2 DEF OutcomeInv
<1>5. outcome' = "none"
  BY <1>2 DEF TypeOK
<1>6. TypeInv'
  <2>1. TypeOK'
    BY <1>1, <1>2, <1>3, <1>4, <1>5, RetainedElements DEF TypeOK
  <2> QED
    BY <1>1, <1>3, <2>1 DEF TypeInv
<1>7. OutcomeInv'
  BY <1>4, <1>5 DEF OutcomeInv
<1>8. RetainedFits'
  BY <1>1, FitsOn
<1>9. firstError' = "none" => firstError = "none" /\ step.error = "none"
  BY <1>1
<1>10. ColumnsInv'
  BY <1>1, <1>9 DEF ColumnsInv
<1>11. firstError' = "none" => retained'.columns = whole.columns
  <2>1. Start(whole.columns, Len(whole.columns)) = whole.columns
    BY <1>2, WholeType, StartWhole DEF TypeOK
  <2> QED
    BY <1>1, <1>9, <2>1
<1>12. LimitInv'
  <2>1. firstError' = "limit" => Overflows
    BY <1>1 DEF IndInv, LimitInv
  <2> QED
    BY <2>1, OverflowsOn DEF LimitInv
<1> QED
  BY <1>1, <1>6, <1>7, <1>8, <1>9, <1>10, <1>11, <1>12

\* Nothing has arrived: the empty collector fits.
LEMMA InitInv ==
  ASSUME Init
  PROVE  IndInv
<1>1. /\ limits \in Limits /\ whole \in Results /\ sent = 0 /\ retained = NoResult
      /\ firstError = "none" /\ pc = "rows" /\ outcome = "none"
  BY DEF Init
<1>2. /\ retained.columns = <<>> /\ retained.rows = <<>> /\ retained.tag = Null
      /\ retained.affected = Null
  BY <1>1 DEF NoResult
<1>3. retained \in Retained
  <2>1. <<>> \in Seq(Text) /\ <<>> \in Seq(Seq(Cell)) /\ Null \in Cell
    BY EmptySeq DEF Cell
  <2> QED
    BY <1>1, <2>1 DEF NoResult, Retained
<1>4. Len(whole.rows) \in Nat /\ Len(whole.columns) \in Nat
  BY <1>1, WholeType, LenProperties
<1>5. TypeInv
  BY <1>1, <1>3, <1>4, RetainedElements DEF TypeInv, TypeOK
<1>6. Start(whole.columns, 0) = <<>> /\ Start(whole.rows, 0) = <<>>
  BY <1>1, WholeType, StartWhole
<1>7. ColumnsInv
  BY <1>2, <1>4, <1>6 DEF ColumnsInv
<1>8. PrefixInv /\ OutcomeInv
  BY <1>1, <1>2, <1>6 DEF PrefixInv, OutcomeInv
<1>9. RetainedFits /\ LimitInv
  BY <1>1, EmptyFits DEF RetainedFits, LimitInv
<1> QED
  BY <1>5, <1>7, <1>8, <1>9 DEF IndInv

\* A row is added after the columns.
LEMMA SingleTupleStep ==
  ASSUME IndInv, SingleTuple
  PROVE  IndInv'
<1> DEFINE c == Columns(Arrived)
           row == whole.rows[sent + 1]
           s == AddRow(c, row)
<1>1. /\ pc = "rows" /\ pc' = "rows" /\ sent < Len(whole.rows) /\ sent' = sent + 1 /\ Take(s)
      /\ UNCHANGED <<limits, whole, pc, outcome>>
  BY DEF SingleTuple
<1>2. /\ whole \in Results /\ sent \in Nat /\ TypeInv /\ ColumnsInv /\ PrefixInv /\ RetainedFits
      /\ whole.rows \in Seq(Seq(Cell)) /\ Len(whole.rows) \in Nat
  BY WholeType, LenProperties DEF IndInv, TypeInv, TypeOK
<1>3. row \in Seq(Cell)
  BY <1>1, <1>2, ElementOfSeq
<1>4. PICK n \in 0..Len(whole.columns) :
        /\ c.kept = WithColumns(retained, Start(whole.columns, n))
        /\ c.error = "none" => n = Len(whole.columns)
  BY <1>2, ColumnsStep
<1>5. c \in Steps /\ Fits(c.kept) /\ (c.error = "shape" => firstError # "none")
  BY <1>2, ColumnsStep
<1>6. /\ c.kept.columns = Start(whole.columns, n) /\ c.kept.rows = retained.rows
      /\ c.kept.tag = retained.tag /\ c.kept.affected = retained.affected
  <2>1. retained \in Retained /\ Start(whole.columns, n) \in Seq(Text)
    BY <1>2, WholeType, StartType DEF TypeInv
  <2> QED
    BY <1>4, <2>1, WithColumnsType
<1>7. /\ s \in Steps /\ Fits(s.kept)
      /\ s.kept.columns = c.kept.columns
      /\ s.kept.tag = c.kept.tag /\ s.kept.affected = c.kept.affected
      /\ s.error = "shape" => c.error = "shape"
      /\ s.error = "none" => c.error = "none" /\ s.kept.rows = Append(c.kept.rows, row)
      /\ s.error = "limit" /\ c.error # "limit" =>
           c.error = "none" /\ ~Fits([c.kept EXCEPT !.rows = Append(@, row)])
  BY <1>3, <1>5, AddRowStep
<1>8. Append(Start(whole.rows, sent), row) = Start(whole.rows, sent + 1)
  BY <1>1, <1>2, StartStep
<1>9. firstError = "none" /\ s.error = "limit" => Overflows
  <2>1. CASE firstError = "none" /\ c.error = "limit"
    BY <1>1, <1>2, <2>1, ColumnsOverflow
  <2>2. CASE firstError = "none" /\ s.error = "limit" /\ c.error # "limit"
    <3> DEFINE r == [c.kept EXCEPT !.rows = Append(@, row)]
    <3>1. c.error = "none" /\ ~Fits(r)
      BY <1>7, <2>2
    <3>2. n = Len(whole.columns)
      BY <1>4, <3>1
    <3>3. c.kept.rows = Start(whole.rows, sent) /\ c.kept.tag = Null /\ c.kept.affected = Null
      BY <1>1, <1>2, <1>6, <2>2 DEF PrefixInv
    <3>4. /\ r \in Retained /\ r.columns = c.kept.columns
          /\ r.rows = Append(c.kept.rows, row)
          /\ r.tag = c.kept.tag /\ r.affected = c.kept.affected
      BY <1>3, <1>5, AppendProperties DEF Steps, Retained
    <3> HIDE DEF r, c, s, row
    <3>5. sent + 1 \in 0..Len(whole.rows)
      BY <1>1, <1>2
    <3>6. r.columns = Start(whole.columns, n) /\ r.rows = Start(whole.rows, sent + 1)
          /\ r.tag = Null /\ r.affected = Null
      BY <1>6, <1>8, <3>3, <3>4
    <3> QED
      BY <1>2, <3>1, <3>2, <3>4, <3>5, <3>6, StartOverflows
  <2> QED
    BY <2>1, <2>2
<1> HIDE DEF c, s, row
<1>10. /\ TypeInv' /\ ColumnsInv' /\ OutcomeInv' /\ RetainedFits' /\ LimitInv'
       /\ retained' = s.kept
       /\ firstError' = "none" =>
            firstError = "none" /\ s.error = "none" /\ retained'.columns = whole.columns
  <2>1. sent' \in 0..Len(whole.rows)
    BY <1>1, <1>2
  <2> QED
    BY <1>1, <1>4, <1>5, <1>6, <1>7, <1>9, <2>1, TakeStep
<1>11. PrefixInv'
  <2>1. retained'.tag = Null /\ retained'.affected = Null
    BY <1>1, <1>2, <1>6, <1>7, <1>10 DEF PrefixInv
  <2>2. firstError' = "none" => retained'.rows = Start(whole.rows, sent + 1)
    BY <1>1, <1>2, <1>6, <1>7, <1>8, <1>10 DEF PrefixInv
  <2> QED
    BY <1>1, <1>2, <1>10, <2>1, <2>2 DEF PrefixInv
<1> QED
  BY <1>10, <1>11 DEF IndInv

\* The tag and the count come last.
LEMMA CompletedStep ==
  ASSUME IndInv, Completed
  PROVE  IndInv'
<1> DEFINE c == Columns(Arrived)
           s == AddCommand(c)
<1>1. /\ pc = "rows" /\ pc' = "drained" /\ sent = Len(whole.rows) /\ Take(s)
      /\ UNCHANGED <<limits, whole, sent, outcome>>
  BY DEF Completed
<1>2. /\ whole \in Results /\ TypeInv /\ ColumnsInv /\ PrefixInv /\ RetainedFits
      /\ Len(whole.rows) \in Nat
  BY WholeType, LenProperties DEF IndInv, TypeInv, TypeOK
<1>3. PICK n \in 0..Len(whole.columns) :
        /\ c.kept = WithColumns(retained, Start(whole.columns, n))
        /\ c.error = "none" => n = Len(whole.columns)
  BY <1>2, ColumnsStep
<1>4. c \in Steps /\ Fits(c.kept) /\ (c.error = "shape" => firstError # "none")
  BY <1>2, ColumnsStep
<1>5. /\ c.kept.columns = Start(whole.columns, n) /\ c.kept.rows = retained.rows
      /\ c.kept.affected = Null
  <2>1. retained \in Retained /\ Start(whole.columns, n) \in Seq(Text)
    BY <1>2, WholeType, StartType DEF TypeInv
  <2>2. retained.affected = Null
    BY <1>1, <1>2 DEF PrefixInv
  <2> QED
    BY <1>3, <2>1, <2>2, WithColumnsType
<1>6. /\ s \in Steps /\ Fits(s.kept)
      /\ s.kept.columns = c.kept.columns /\ s.kept.rows = c.kept.rows
      /\ s.error = "shape" => c.error = "shape"
      /\ s.error = "none" =>
           c.error = "none" /\ s.kept.tag = whole.tag /\ s.kept.affected = whole.affected
      /\ s.error = "limit" /\ c.error # "limit" =>
           /\ c.error = "none"
           /\ \/ ~Fits([c.kept EXCEPT !.tag = whole.tag])
              \/ ~Fits([c.kept EXCEPT !.tag = whole.tag, !.affected = whole.affected])
  BY <1>2, <1>4, <1>5, AddCommandStep
<1> HIDE DEF c, s
<1>7. firstError = "none" /\ s.error = "limit" => Overflows
  <2>1. CASE firstError = "none" /\ c.error = "limit"
    BY <1>1, <1>2, <2>1, ColumnsOverflow DEF c
  <2>2. CASE firstError = "none" /\ s.error = "limit" /\ c.error # "limit"
    <3> DEFINE r == [c.kept EXCEPT !.tag = whole.tag]
               all == [c.kept EXCEPT !.tag = whole.tag, !.affected = whole.affected]
    <3>1. /\ c.error = "none" /\ (~Fits(r) \/ ~Fits(all))
          /\ c.kept \in Retained
      BY <1>4, <1>6, <2>2 DEF Steps
    <3>2. c.kept.columns = whole.columns /\ c.kept.rows = whole.rows
      <4>1. retained.rows = Start(whole.rows, sent) /\ n = Len(whole.columns)
        BY <1>2, <1>3, <2>2, <3>1 DEF PrefixInv
      <4>2. /\ Start(whole.rows, Len(whole.rows)) = whole.rows
            /\ Start(whole.columns, Len(whole.columns)) = whole.columns
        BY <1>2, WholeType, StartWhole
      <4> QED
        BY <1>1, <1>5, <4>1, <4>2
    <3>3. whole \in Retained /\ Uncounted \in Retained
      BY <1>2, WholeType, UncountedType
    <3>4. all = whole
      BY <3>1, <3>2, <3>3 DEF Retained
    <3>5. r = Uncounted
      <4>1. r.columns = whole.columns /\ r.rows = whole.rows /\ r.tag = whole.tag
            /\ r.affected = Null /\ r \in Retained
        BY <1>5, <3>1, <3>2, <3>3 DEF Retained
      <4>2. /\ Uncounted.columns = whole.columns /\ Uncounted.rows = whole.rows
            /\ Uncounted.tag = whole.tag /\ Uncounted.affected = Null
        BY <1>2, UncountedType
      <4> HIDE DEF r
      <4> QED
        BY <3>3, <4>1, <4>2 DEF Retained
    <3> HIDE DEF r, all
    <3> QED
      BY <3>1, <3>4, <3>5 DEF Overflows
  <2> QED
    BY <2>1, <2>2
<1>8. /\ TypeInv' /\ ColumnsInv' /\ OutcomeInv' /\ RetainedFits' /\ LimitInv'
      /\ retained' = s.kept
      /\ firstError' = "none" =>
           firstError = "none" /\ s.error = "none" /\ retained'.columns = whole.columns
  <2>1. sent' \in 0..Len(whole.rows)
    BY <1>1, <1>2
  <2> QED
    BY <1>1, <1>3, <1>4, <1>5, <1>6, <1>7, <2>1, TakeStep
<1>9. PrefixInv'
  BY <1>1, <1>2, <1>5, <1>6, <1>8 DEF PrefixInv
<1> QED
  BY <1>8, <1>9 DEF IndInv

\* What is kept stays, with an error.
LEMMA StatementFailsStep ==
  ASSUME IndInv, StatementFails
  PROVE  IndInv'
<1> DEFINE s == Refuse(Arrived, "database")
<1>1. /\ pc = "rows" /\ pc' = "drained" /\ Take(s) /\ UNCHANGED <<limits, whole, sent, outcome>>
  BY DEF StatementFails
<1>2. retained \in Retained /\ Fits(retained) /\ sent \in 0..Len(whole.rows)
  BY DEF IndInv, TypeInv, TypeOK, RetainedFits
<1>3. s \in Steps /\ s.kept = retained /\ s.error = "database"
  BY <1>2 DEF Refuse, Arrived, Steps
<1>4. PICK n \in 0..Len(whole.columns) : retained.columns = Start(whole.columns, n)
  BY DEF IndInv, ColumnsInv
<1> HIDE DEF s
<1>5. /\ TypeInv' /\ ColumnsInv' /\ OutcomeInv' /\ RetainedFits' /\ LimitInv'
      /\ firstError' = "none" => s.error = "none"
  BY <1>1, <1>2, <1>3, <1>4, TakeStep
<1>6. PrefixInv'
  BY <1>1, <1>3, <1>5 DEF PrefixInv
<1> QED
  BY <1>5, <1>6 DEF IndInv

\* Nothing but the error changes.
LEMMA InterruptStep ==
  ASSUME IndInv, Interrupt
  PROVE  IndInv'
<1>1. /\ pc = "rows" /\ firstError' = "interrupted"
      /\ UNCHANGED <<limits, whole, sent, retained, pc, outcome>>
  BY DEF Interrupt
<1>2. TypeInv' /\ RetainedFits' /\ LimitInv'
  BY <1>1, FitsOn DEF IndInv, TypeInv, TypeOK, RetainedFits, LimitInv
<1>3. ColumnsInv' /\ PrefixInv' /\ OutcomeInv'
  BY <1>1 DEF IndInv, TypeInv, TypeOK, ColumnsInv, PrefixInv, OutcomeInv
<1> QED
  BY <1>2, <1>3 DEF IndInv

\* Only a return sets the outcome, and nothing else but the program counter.
LEMMA ReturnStep ==
  ASSUME IndInv, pc # "returned", NEW result, Return(result),
         result \in {"lost", IF firstError = "none" THEN "ok" ELSE firstError},
         result = "ok" => retained = whole
  PROVE  IndInv'
<1>1. /\ outcome' = result /\ pc' = "returned"
      /\ UNCHANGED <<limits, whole, sent, retained, firstError>>
  BY DEF Return
<1>2. firstError \in {"none", "limit", "database", "interrupted"}
  BY DEF IndInv, TypeInv, TypeOK, OutcomeInv
<1>3. TypeInv'
  BY <1>1, <1>2 DEF IndInv, TypeInv, TypeOK
<1>4. ColumnsInv' /\ PrefixInv' /\ OutcomeInv'
  BY <1>1, <1>2 DEF IndInv, ColumnsInv, PrefixInv, OutcomeInv
<1>5. RetainedFits' /\ LimitInv'
  BY <1>1, FitsOn, OverflowsOn DEF IndInv, RetainedFits, LimitInv
<1> QED
  BY <1>3, <1>4, <1>5 DEF IndInv

\* Without an error all that was sent is retained when the statement has ended.
LEMMA FinishStep ==
  ASSUME IndInv, Finish
  PROVE  IndInv'
<1>1. pc = "drained" /\ Return(IF firstError = "none" THEN "ok" ELSE firstError)
  BY DEF Finish
<1>2. whole \in Results /\ retained \in Retained /\ PrefixInv
  BY DEF IndInv, TypeInv, TypeOK
<1>3. firstError = "none" => retained = whole
  <2> HAVE firstError = "none"
  <2>1. retained.columns = whole.columns /\ retained.rows = Start(whole.rows, Len(whole.rows))
        /\ retained.tag = whole.tag /\ retained.affected = whole.affected
    BY <1>1, <1>2 DEF PrefixInv
  <2>2. Start(whole.rows, Len(whole.rows)) = whole.rows /\ whole \in Retained
    BY <1>2, WholeType, StartWhole
  <2> QED
    BY <1>2, <2>1, <2>2 DEF Retained
<1>4. firstError # "ok"
  BY DEF IndInv, TypeInv, TypeOK
<1> QED
  BY <1>1, <1>3, <1>4, ReturnStep

\* A lost connection is an error.
LEMMA LoseStep ==
  ASSUME IndInv, Lose
  PROVE  IndInv'
<1>1. pc = "rows"
  BY DEF Lose
<1>2. PICK error \in {"lost", firstError} \ {"none"} : Return(error)
  BY DEF Lose
<1>3. error # "ok"
  BY DEF IndInv, TypeInv, TypeOK
<1> QED
  BY <1>1, <1>2, <1>3, ReturnStep

\* Every step keeps the invariant.
LEMMA NextInv ==
  ASSUME IndInv, [Next]_vars
  PROVE  IndInv'
<1>1. ASSUME UNCHANGED vars
      PROVE  IndInv'
  <2>1. UNCHANGED <<limits, whole, sent, retained, firstError, pc, outcome>>
    BY <1>1 DEF vars
  <2>2. TypeInv' /\ ColumnsInv' /\ PrefixInv' /\ OutcomeInv'
    BY <2>1 DEF IndInv, TypeInv, TypeOK, ColumnsInv, PrefixInv, OutcomeInv
  <2>3. RetainedFits' /\ LimitInv'
    BY <2>1, FitsOn, OverflowsOn DEF IndInv, RetainedFits, LimitInv
  <2> QED
    BY <2>2, <2>3 DEF IndInv
<1> QED
  BY <1>1, SingleTupleStep, CompletedStep, StatementFailsStep, InterruptStep, FinishStep,
     LoseStep DEF Next

-----------------------------------------------------------------------------
(* Theorems.                                                               *)

\* The invariant holds of every behaviour of the collector.
THEOREM CollectorInvariant == Spec => []IndInv
<1>1. Init => IndInv
  BY InitInv
<1>2. IndInv /\ [Next]_vars => IndInv'
  BY NextInv
<1> QED
  BY <1>1, <1>2, PTL DEF Spec

\* Type correctness of the collector and of collect_results.
THEOREM CollectorTypes == Spec => []TypeOK
<1>1. IndInv => TypeOK
  BY DEF IndInv, TypeInv
<1> QED
  BY <1>1, CollectorInvariant, PTL

\* At no time is more retained than a result may have, even while the rest of an
\* overflowing one is drained (DESIGN.md:45).
THEOREM RetainedAlwaysFits == Spec => []RetainedFits
<1>1. IndInv => RetainedFits
  BY DEF IndInv
<1> QED
  BY <1>1, CollectorInvariant, PTL

\* A success has every column, row and cell, the tag and the count the server sent.
THEOREM SuccessIsWhole == Spec => []OnlyWholeResults
<1>1. IndInv => OnlyWholeResults
  BY DEF IndInv, OutcomeInv, OnlyWholeResults
<1> QED
  BY <1>1, CollectorInvariant, PTL

\* The columns or rows that an overflow left out cause no other error, and no result
\* that overflows succeeds.
THEOREM OverflowsAreNamed == Spec => []OverflowIsNamed
<1>1. IndInv => OverflowIsNamed
  <2> HAVE IndInv
  <2>1. outcome # "shape"
    BY DEF IndInv, TypeInv, TypeOK, OutcomeInv
  <2>2. outcome = "ok" => Fits(whole)
    BY DEF IndInv, OutcomeInv, RetainedFits
  <2> QED
    BY <2>1, <2>2 DEF OverflowIsNamed
<1> QED
  BY <1>1, CollectorInvariant, PTL

\* No result that fits, with its count and with null in the count's place, is refused as
\* too large, whatever else interrupts the query (ensure_candidate_fits).
THEOREM RefusalsAreDeserved == Spec => []RefusedResultsOverflow
<1>1. IndInv => RefusedResultsOverflow
  <2> HAVE IndInv
  <2>1. outcome = "limit" => firstError = "limit"
    BY DEF IndInv, TypeInv, TypeOK, OutcomeInv
  <2> QED
    BY <2>1 DEF IndInv, LimitInv, Overflows, Uncounted, RefusedResultsOverflow
<1> QED
  BY <1>1, CollectorInvariant, PTL

=============================================================================
