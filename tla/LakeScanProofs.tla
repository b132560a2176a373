---------------------------- MODULE LakeScanProofs ----------------------------
(***************************************************************************)
(* Theorems about the range pruner, deletes and LakeScan.                  *)
(***************************************************************************)
EXTENDS LakeScan, FiniteSetTheorems, SequenceTheorems, NaturalsInduction,
        WellFoundedInduction, TLAPS

(***************************************************************************)
(* What the range pruner of the optimizer may be relied on for, for every  *)
(* literal, every range of keys and every row, and which rows a delete     *)
(* keeps.  TLC finds that the pruner goes wrong (the runs of MCLakeScan);  *)
(* the theorems draw the line: they name the comparisons and the rows for  *)
(* which it goes right.                                                    *)
(***************************************************************************)
(* The operators reverseComparator turns into one that allows as much. *)
Reversible == {"<", ">", "=="}

(* A comparison, and a row, the pruner is right about: on the left of the  *)
(* literal the key is not null(int64), which CompareInt64 reads as zero    *)
(* and the order of keys as largest; on its right the operator can be      *)
(* reversed.                                                               *)
Fits(c, row) ==
    \/ c.on = "other"
    \/ ~c.literalFirst /\ row.key.kind # "nullint"
    \/ c.literalFirst /\ c.op \in Reversible

(* The operator a pruner tests, with the key on its left. *)
Tested(c) == IF c.literalFirst THEN reverseComparator(c.op) ELSE c.op

----------------------------------------------------------------------------
(* A key in a range is an integer between the integer ends of the range,   *)
(* and one that is an integer has a least key that is one.                 *)
LEMMA InRangeBounds ==
    ASSUME NEW row \in Rows, NEW min \in Keys, NEW max \in Keys,
           InRange(row, min, max), row.key.kind = "int"
    PROVE  /\ min.kind = "int" /\ min.val <= row.key.val
           /\ max.kind = "int" => row.key.val <= max.val
BY DEF InRange, Less, IsNull, Rows, Keys, KeyKinds

(* A comparison of the key that is true of a row is true of an integer     *)
(* key, if the pruner is right about the two.                              *)
LEMMA TrueOfInt ==
    ASSUME NEW c \in Comparisons, NEW row \in Rows, c.on = "key",
           Fits(c, row), EvalOne(c, row) = "true"
    PROVE  /\ row.key.kind = "int"
           /\ IF c.literalFirst THEN Compare(c.op, c.lit, row.key.val)
                                ELSE Compare(c.op, row.key.val, c.lit)
<1>1. row.key.kind # "missing"
  BY DEF EvalOne
<1>2. CASE c.literalFirst
  BY <1>1, <1>2 DEF EvalOne, CompareRelative, Bool
<1>3. CASE ~c.literalFirst
  BY <1>1, <1>3 DEF EvalOne, CompareInt64, Bool, Fits
<1>4. QED
  BY <1>2, <1>3 DEF Comparisons

(* If the operator the pruner tests rules a range out, no integer in the   *)
(* range satisfies it.                                                     *)
LEMMA RangeRuledOut ==
    ASSUME NEW row \in Rows, NEW min \in Keys, NEW max \in Keys,
           NEW op \in Operators, NEW lit \in Int,
           InRange(row, min, max), row.key.kind = "int",
           rangePrunerPred(op, lit, min, max)
    PROVE  ~Compare(op, row.key.val, lit)
<1>1. /\ min.kind = "int" /\ min.val <= row.key.val
      /\ max.kind = "int" => row.key.val <= max.val
  BY InRangeBounds
<1>2. /\ row.key.val \in Int /\ min.val \in Int /\ max.val \in Int
  BY DEF Rows, Keys
<1>3. CASE op = "<"
  BY <1>1, <1>2, <1>3 DEF rangePrunerPred, Compare, Less, IsNull, Key
<1>4. CASE op = "<="
  BY <1>1, <1>2, <1>4 DEF rangePrunerPred, Compare, Less, IsNull, Key
<1>5. CASE op = ">"
  BY <1>1, <1>2, <1>5 DEF rangePrunerPred, Compare, Less, IsNull, Key
<1>6. CASE op = ">="
  BY <1>1, <1>2, <1>6 DEF rangePrunerPred, Compare, Less, IsNull, Key
<1>7. CASE op = "=="
  BY <1>1, <1>2, <1>7 DEF rangePrunerPred, Compare, Less, IsNull, Key
<1>8. QED
  BY <1>3, <1>4, <1>5, <1>6, <1>7 DEF Operators

(* A reversible operator with the literal on the left implies the operator *)
(* the pruner tests instead, or the pruner tests a weaker one that still   *)
(* holds.                                                                  *)
LEMMA ReversalAllowsAsMuch ==
    ASSUME NEW op \in Reversible, NEW lit \in Int, NEW val \in Int,
           Compare(op, lit, val)
    PROVE  /\ reverseComparator(op) \in Operators
           /\ Compare(reverseComparator(op), val, lit)
<1>1. CASE op = "<"
  BY <1>1 DEF Compare, reverseComparator, Operators
<1>2. CASE op = ">"
  BY <1>2 DEF Compare, reverseComparator, Operators
<1>3. CASE op = "=="
  BY <1>3 DEF Compare, reverseComparator, Operators
<1>4. QED
  BY <1>1, <1>2, <1>3 DEF Reversible

(* A pruned comparison is true of no row in the range. *)
LEMMA PrunedOneIsNotTrue ==
    ASSUME NEW c \in Comparisons, NEW row \in Rows,
           NEW min \in Keys, NEW max \in Keys,
           Fits(c, row), InRange(row, min, max), PrunesOne(c, min, max)
    PROVE  EvalOne(c, row) # "true"
<1> SUFFICES ASSUME EvalOne(c, row) = "true" PROVE FALSE
  OBVIOUS
<1>1. c.on = "key" /\ rangePrunerPred(Tested(c), c.lit, min, max)
  BY DEF PrunesOne, Tested
<1>2. /\ row.key.kind = "int"
      /\ IF c.literalFirst THEN Compare(c.op, c.lit, row.key.val)
                           ELSE Compare(c.op, row.key.val, c.lit)
  BY <1>1, TrueOfInt
<1>3. c.lit \in Int /\ row.key.val \in Int /\ c.op \in Operators
  BY DEF Comparisons, Rows, Keys
<1>4. Tested(c) \in Operators /\ Compare(Tested(c), row.key.val, c.lit)
  <2>1. CASE c.literalFirst
    <3>1. c.op \in Reversible
      BY <1>1, <2>1 DEF Fits
    <3>2. QED
      BY <1>2, <1>3, <2>1, <3>1, ReversalAllowsAsMuch DEF Tested
  <2>2. CASE ~c.literalFirst
    BY <1>2, <1>3, <2>2 DEF Tested
  <2>3. QED
    BY <2>1, <2>2
<1>5. ~Compare(Tested(c), row.key.val, c.lit)
  BY <1>1, <1>2, <1>3, <1>4, RangeRuledOut
<1>6. QED
  BY <1>4, <1>5

----------------------------------------------------------------------------
(* The pruner leaves out no row that the query's filter selects: what      *)
(* optimizer.go:541-546 says of it holds for every row of every range if   *)
(* both comparisons fit the row.  For the others it fails: 2 <= key is     *)
(* reversed to key > 2, which rules out a range that ends at 2, and a row  *)
(* whose key is null(int64) satisfies key < 1 in a range above 1.          *)
THEOREM PrunerIsSound ==
    ASSUME NEW p \in Predicates, NEW row \in Rows, NEW min \in Keys, NEW max \in Keys,
           Fits(p.l, row), Fits(p.r, row)
    PROVE  PrunesFor(p, row, min, max)
<1> SUFFICES ASSUME Prunes(p, min, max), InRange(row, min, max)
             PROVE  Eval(p, row) # "true"
  BY DEF PrunesFor, Selected
<1>1. p.l \in Comparisons /\ p.r \in Comparisons /\ p.form \in {"one", "and", "or"}
  BY DEF Predicates
<1>2. PrunesOne(p.l, min, max) => EvalOne(p.l, row) # "true"
  BY <1>1, PrunedOneIsNotTrue
<1>3. PrunesOne(p.r, min, max) => EvalOne(p.r, row) # "true"
  BY <1>1, PrunedOneIsNotTrue
<1>4. CASE p.form = "one"
  BY <1>2, <1>4 DEF Prunes, Eval
<1>5. CASE p.form = "and"
  BY <1>2, <1>3, <1>5 DEF Prunes, Eval, And
<1>6. CASE p.form = "or"
  BY <1>2, <1>3, <1>6 DEF Prunes, Eval, Or
<1>7. QED
  BY <1>1, <1>4, <1>5, <1>6

(* An evaluation has one of four outcomes. *)
LEMMA EvalOutcome ==
    ASSUME NEW p \in Predicates, NEW row \in Rows
    PROVE  Eval(p, row) \in Outcomes
<1>1. ASSUME NEW c \in Comparisons PROVE EvalOne(c, row) \in Outcomes
  <2>1. row.other \in Outcomes
    BY DEF Rows
  <2>2. QED
    BY <2>1 DEF EvalOne, CompareInt64, CompareRelative, Bool, Outcomes
<1>2. EvalOne(p.l, row) \in Outcomes /\ EvalOne(p.r, row) \in Outcomes
  BY <1>1 DEF Predicates
<1>3. p.form \in {"one", "and", "or"}
  BY DEF Predicates
<1>4. QED
  BY <1>2, <1>3 DEF Eval, And, Or

(* The rows that "!p or missing(p)" keeps are those that p does not        *)
(* select, but for the rows on which p is an error other than missing,     *)
(* which a query does not select and a delete does not keep.               *)
THEOREM DeleteKeepsTheRest ==
    ASSUME NEW p \in Predicates, NEW row \in Rows
    PROVE  Kept(p, row) <=> ~Selected(p, row) /\ Eval(p, row) # "error"
<1>1. Eval(p, row) \in {"true", "false", "missing", "error"}
  BY EvalOutcome DEF Outcomes
<1>2. QED
  BY <1>1 DEF Kept, Selected, Or, Not, IsMissing

(* A delete passes over an object the pruner rules out without reading     *)
(* it.  It misses nothing there: a rewrite of the object would have kept   *)
(* each of its rows, but for those on which the predicate is an error.     *)
THEOREM PrunedObjectsAreKept ==
    ASSUME NEW p \in Predicates, NEW row \in Rows, NEW min \in Keys, NEW max \in Keys,
           Fits(p.l, row), Fits(p.r, row), Eval(p, row) # "error",
           Prunes(p, min, max), InRange(row, min, max)
    PROVE  Kept(p, row)
<1>1. ~Selected(p, row)
  BY PrunerIsSound DEF PrunesFor
<1>2. QED
  BY <1>1, DeleteKeepsTheRest

----------------------------------------------------------------------------
(* Folds.  Induction is over a set of naturals, so that no operator has to *)
(* be instantiated; a fold is then known by its stages.                    *)

LEMMA NatSetInduction ==
  ASSUME NEW P, 0 \in P, \A n \in Nat : n \in P => n + 1 \in P
  PROVE Nat \subseteq P
<1> DEFINE T == Nat \ P
<1> SUFFICES ASSUME T # {} PROVE FALSE
  OBVIOUS
<1>1. IsWellFoundedOn(OpToRel(<, Nat), Nat)
  BY NatLessThanWellFounded
<1>2. T \subseteq Nat
  OBVIOUS
<1> HIDE DEF T
<1>3. PICK x \in T : \A y \in T : ~ (<<y, x>> \in OpToRel(<, Nat))
  BY <1>1, <1>2, WFMin, Zenon
<1>5. \A y \in T : ~ (y < x)
  BY <1>2, <1>3 DEF OpToRel
<1>6. x \in Nat /\ x \notin P /\ x # 0
  BY DEF T
<1>8. x - 1 \in Nat /\ (x - 1) + 1 = x
  BY <1>6
<1>9. x - 1 \in P
  BY <1>5, <1>8 DEF T
<1> QED
  BY <1>6, <1>8, <1>9

LEMMA MaxIsLast ==
  ASSUME NEW m \in Nat, NEW s \in SUBSET (1 .. m + 1), m + 1 \in s
  PROVE Max(s) = m + 1
<1>1. \A y \in s : m + 1 >= y
  OBVIOUS
<1>2. Max(s) \in s /\ \A y \in s : Max(s) >= y
  BY <1>1 DEF Max
<1>3. Max(s) \in 1 .. m + 1 /\ Max(s) >= m + 1
  BY <1>2
<1> QED
  BY <1>3

LEMMA MaxInSet ==
  ASSUME NEW n \in Nat, NEW s \in SUBSET (1 .. n), s # {}
  PROVE Max(s) \in s
<1> DEFINE P == {m \in Nat : \A t \in SUBSET (1 .. m) : t # {} => Max(t) \in t}
<1>1. 0 \in P
  <2>1. 1 .. 0 = {}
    OBVIOUS
  <2> QED
    BY <2>1
<1>2. ASSUME NEW m \in Nat, m \in P PROVE m + 1 \in P
  <2> SUFFICES ASSUME NEW t \in SUBSET (1 .. m + 1), t # {} PROVE Max(t) \in t
    OBVIOUS
  <2>1. CASE m + 1 \in t
    BY <2>1, MaxIsLast
  <2>2. CASE m + 1 \notin t
    <3>1. t \in SUBSET (1 .. m)
      BY <2>2
    <3> QED
      BY <3>1, <1>2
  <2> QED
    BY <2>1, <2>2
<1> HIDE DEF P
<1>3. Nat \subseteq P
  BY <1>1, <1>2, NatSetInduction
<1> QED
  BY <1>3 DEF P

IsFold(f, D, n, base, step) ==
    /\ f = [s \in SUBSET (1 .. n) |-> IF s = {} THEN base ELSE step[Max(s)][f[s \ {Max(s)}]]]
    /\ \A s \in SUBSET (1 .. n) : f[s] \in D

LEMMA FoldExists ==
  ASSUME NEW D, NEW n \in Nat, NEW base \in D, NEW step,
         \A i \in 1 .. n, d \in D : step[i][d] \in D
  PROVE \E f : IsFold(f, D, n, base, step)
<1> DEFINE Is(f, m) == /\ f \in [SUBSET (1 .. m) -> D]
                       /\ f[{}] = base
                       /\ \A s \in SUBSET (1 .. m) :
                            s # {} => f[s] = step[Max(s)][f[s \ {Max(s)}]]
           P == {m \in Nat : m <= n => \E f : Is(f, m)}
<1> HIDE DEF Is
<1>1. 0 \in P
  <2> DEFINE f == [s \in SUBSET (1 .. 0) |-> base]
  <2>1. 1 .. 0 = {}
    OBVIOUS
  <2>2. /\ f \in [SUBSET (1 .. 0) -> D]
        /\ f[{}] = base
        /\ \A s \in SUBSET (1 .. 0) : s = {}
    BY <2>1
  <2>3. Is(f, 0)
    BY <2>2 DEF Is
  <2> QED
    BY <2>3
<1>2. ASSUME NEW m \in Nat, m \in P PROVE m + 1 \in P
  <2> SUFFICES ASSUME m + 1 <= n PROVE \E f : Is(f, m + 1)
    OBVIOUS
  <2>1. PICK f : Is(f, m)
    <3>1. m <= n
      OBVIOUS
    <3> QED
      BY <1>2, <3>1
  <2> DEFINE g == [s \in SUBSET (1 .. m + 1) |->
                    IF m + 1 \in s THEN step[m + 1][f[s \ {m + 1}]] ELSE f[s]]
  <2>2. \A s \in SUBSET (1 .. m + 1) :
          /\ s \ {m + 1} \in SUBSET (1 .. m)
          /\ m + 1 \notin s => s \in SUBSET (1 .. m)
    <3>1. \A i \in 1 .. m + 1 : i = m + 1 \/ i \in 1 .. m
      OBVIOUS
    <3> QED
      BY <3>1
  <2>3. ASSUME NEW s \in SUBSET (1 .. m + 1) PROVE g[s] \in D
    BY <2>1, <2>2 DEF Is
  <2>4. g[{}] = base
    BY <2>1 DEF Is
  <2>5. ASSUME NEW s \in SUBSET (1 .. m + 1), s # {}
        PROVE g[s] = step[Max(s)][g[s \ {Max(s)}]]
    <3>1. CASE m + 1 \in s
      <4>1. Max(s) = m + 1
        BY <3>1, MaxIsLast
      <4>2. g[s \ {m + 1}] = f[s \ {m + 1}]
        BY <2>2
      <4> QED
        BY <3>1, <4>1, <4>2
    <3>2. CASE m + 1 \notin s
      <4>1. s \in SUBSET (1 .. m) /\ s \ {Max(s)} \in SUBSET (1 .. m + 1)
              /\ m + 1 \notin s \ {Max(s)}
        BY <3>2, <2>2
      <4>2. g[s] = f[s] /\ g[s \ {Max(s)}] = f[s \ {Max(s)}]
        BY <3>2, <4>1
      <4> QED
        BY <2>1, <2>5, <4>1, <4>2 DEF Is
    <3> QED
      BY <3>1, <3>2
  <2>6. g = [s \in SUBSET (1 .. m + 1) |-> g[s]]
    OBVIOUS
  <2> HIDE DEF g
  <2>7. g \in [SUBSET (1 .. m + 1) -> D]
    BY <2>3, <2>6
  <2>8. Is(g, m + 1)
    BY <2>4, <2>5, <2>7 DEF Is
  <2> QED
    BY <2>8
<1> HIDE DEF P
<1>3. Nat \subseteq P
  BY <1>1, <1>2, NatSetInduction
<1>4. PICK f : Is(f, n)
  <2>1. n <= n
    OBVIOUS
  <2> QED
    BY <1>3, <2>1 DEF P
<1>5. f = [s \in SUBSET (1 .. n) |->
            IF s = {} THEN base ELSE step[Max(s)][f[s \ {Max(s)}]]]
  <2>1. f = [s \in SUBSET (1 .. n) |-> f[s]]
    BY <1>4 DEF Is
  <2>2. \A s \in SUBSET (1 .. n) :
          f[s] = IF s = {} THEN base ELSE step[Max(s)][f[s \ {Max(s)}]]
    BY <1>4 DEF Is
  <2> QED
    BY <2>1, <2>2
<1>6. \A s \in SUBSET (1 .. n) : f[s] \in D
  BY <1>4 DEF Is
<1> QED
  BY <1>5, <1>6 DEF IsFold

----------------------------------------------------------------------------
(* What Picked, LookupSeekRange and ReadRanges do at one element. *)

PickNext(S, acc, x) == IF x \in S THEN Append(acc, x) ELSE acc

RangeNext(p, ranges, e) == IF Prunes(p, e.min, e.max) THEN ranges ELSE RangesAppend(ranges, e)

ReadNext(rows, rs, g) == rs \o SubSeq(rows, g.offset + 1, g.offset + g.length)

LEMMA PickedStages ==
  ASSUME NEW T, NEW s \in Seq(T), NEW S
  PROVE \E g : /\ g[0] = <<>>
               /\ \A k \in 0 .. Len(s) - 1 : g[k + 1] = PickNext(S, g[k], s[k + 1])
               /\ Picked(s, S) = g[Len(s)]
<1> DEFINE n == Len(s)
           D == Seq(T)
           step == [i \in 1 .. n |-> [d \in D |-> PickNext(S, d, s[i])]]
           Eq(f) == f = [u \in SUBSET (DOMAIN s) |->
                          IF u = {} THEN <<>> ELSE PickNext(S, f[u \ {Max(u)}], s[Max(u)])]
<1>1. n \in Nat /\ DOMAIN s = 1 .. n /\ \A i \in 1 .. n : s[i] \in T
  OBVIOUS
<1>2. \A i \in 1 .. n, d \in D : PickNext(S, d, s[i]) \in D
  BY <1>1 DEF PickNext
<1>3. \A i \in 1 .. n, d \in D : step[i][d] = PickNext(S, d, s[i])
  OBVIOUS
<1>0. <<>> \in D
  OBVIOUS
<1> HIDE DEF n, step, D
<1>4. PICK f : IsFold(f, D, n, <<>>, step)
  <2>1. \A i \in 1 .. n, d \in D : step[i][d] \in D
    BY <1>2, <1>3
  <2> QED
    BY <1>0, <1>1, <2>1, FoldExists
<1>5. \A u \in SUBSET (1 .. n) : u # {} =>
         step[Max(u)][f[u \ {Max(u)}]] = PickNext(S, f[u \ {Max(u)}], s[Max(u)])
  <2> SUFFICES ASSUME NEW u \in SUBSET (1 .. n), u # {}
               PROVE step[Max(u)][f[u \ {Max(u)}]] = PickNext(S, f[u \ {Max(u)}], s[Max(u)])
    OBVIOUS
  <2>1. Max(u) \in 1 .. n /\ f[u \ {Max(u)}] \in D
    BY <1>1, <1>4, MaxInSet DEF IsFold
  <2> QED
    BY <2>1, <1>3
<1>6. Eq(f)
  BY <1>1, <1>4, <1>5 DEF IsFold
<1> DEFINE h == CHOOSE x : Eq(x)
<1>7. Eq(h)
  BY <1>6
<1>8. Picked(s, S) = h[DOMAIN s]
  BY DEF Picked, FoldLeft, MapThenFoldSet, PickNext
<1> HIDE DEF h
<1> DEFINE g == [k \in 0 .. n |-> h[1 .. k]]
<1>9. g[0] = <<>>
  <2>1. 1 .. 0 = {} /\ 0 \in 0 .. n
    BY <1>1
  <2> QED
    BY <1>7, <2>1
<1>10. ASSUME NEW k \in 0 .. n - 1 PROVE g[k + 1] = PickNext(S, g[k], s[k + 1])
  <2>1. 1 .. k + 1 \in SUBSET (1 .. n) /\ 1 .. k + 1 # {}
    BY <1>1
  <2>2. (1 .. k + 1) \ {k + 1} = 1 .. k
    OBVIOUS
  <2>3. Max(1 .. k + 1) = k + 1
    BY MaxIsLast
  <2>4. h[1 .. k + 1] = PickNext(S, h[1 .. k], s[k + 1])
    BY <1>1, <1>7, <2>1, <2>2, <2>3
  <2>5. k \in 0 .. n /\ k + 1 \in 0 .. n
    BY <1>1
  <2> QED
    BY <2>4, <2>5
<1>11. g[n] = h[DOMAIN s]
  BY <1>1
<1> HIDE DEF g
<1> QED
  BY <1>8, <1>9, <1>10, <1>11 DEF n

(* q is a subsequence of s: f says where its elements are, and finds all   *)
(* the places in C.                                                        *)
Embeds(f, q, s, C) ==
    /\ f \in [DOMAIN q -> DOMAIN s]
    /\ \A i, j \in DOMAIN q : i < j => f[i] < f[j]
    /\ \A i \in DOMAIN q : q[i] = s[f[i]]
    /\ \A k \in C : \E i \in DOMAIN q : f[i] = k

IsPick(q, s, S) == \E f : Embeds(f, q, s, {k \in DOMAIN s : s[k] \in S})

(* Picked gives the subsequence of the elements in S. *)
LEMMA PickedEmbeds ==
  ASSUME NEW T, NEW s \in Seq(T), NEW S
  PROVE /\ Picked(s, S) \in Seq(T)
        /\ \A i \in DOMAIN Picked(s, S) : Picked(s, S)[i] \in S
        /\ IsPick(Picked(s, S), s, S)
<1>1. PICK g : /\ g[0] = <<>>
               /\ \A k \in 0 .. Len(s) - 1 : g[k + 1] = PickNext(S, g[k], s[k + 1])
               /\ Picked(s, S) = g[Len(s)]
  BY PickedStages
<1> DEFINE n == Len(s)
           Is(f, k) == /\ f \in [1 .. Len(g[k]) -> 1 .. k]
                       /\ \A i, j \in 1 .. Len(g[k]) : i < j => f[i] < f[j]
                       /\ \A i \in 1 .. Len(g[k]) : g[k][i] = s[f[i]] /\ g[k][i] \in S
                       /\ \A j \in 1 .. k : s[j] \in S => \E i \in 1 .. Len(g[k]) : f[i] = j
           P == {k \in Nat : k <= n => g[k] \in Seq(T) /\ \E f : Is(f, k)}
<1> HIDE DEF Is
<1>2. 0 \in P
  <2> DEFINE f == [i \in 1 .. 0 |-> 0]
  <2>1. Is(f, 0)
    <3>1. 1 .. 0 = {} /\ Len(g[0]) = 0
      BY <1>1
    <3> QED
      BY <3>1 DEF Is
  <2> HIDE DEF f
  <2>2. g[0] \in Seq(T)
    BY <1>1
  <2> QED
    BY <2>1, <2>2
<1>3. ASSUME NEW k \in Nat, k \in P PROVE k + 1 \in P
  <2> SUFFICES ASSUME k + 1 <= n PROVE g[k + 1] \in Seq(T) /\ \E f : Is(f, k + 1)
    OBVIOUS
  <2>1. g[k] \in Seq(T) /\ k \in 0 .. n - 1 /\ s[k + 1] \in T /\ n \in Nat
    BY <1>3
  <2>2. PICK f : Is(f, k)
    BY <1>3
  <2>3. g[k + 1] = PickNext(S, g[k], s[k + 1])
    BY <1>1, <2>1
  <2>4. CASE s[k + 1] \in S
    <3> DEFINE m == Len(g[k])
               h == [i \in 1 .. m + 1 |-> IF i = m + 1 THEN k + 1 ELSE f[i]]
    <3>1. g[k + 1] = Append(g[k], s[k + 1])
      BY <2>3, <2>4 DEF PickNext
    <3>2. /\ g[k + 1] \in Seq(T) /\ Len(g[k + 1]) = m + 1 /\ m \in Nat
          /\ g[k + 1][m + 1] = s[k + 1]
          /\ \A i \in 1 .. m : g[k + 1][i] = g[k][i]
      BY <2>1, <3>1
    <3> HIDE DEF m
    <3>3. \A i \in 1 .. m + 1 : i = m + 1 \/ i \in 1 .. m
      BY <3>2
    <3>0. f \in [1 .. m -> 1 .. k]
      BY <2>2 DEF Is, m
    <3>4. \A i \in 1 .. m : h[i] = f[i] /\ f[i] \in 1 .. k
      BY <3>0, <3>2
    <3>5. h[m + 1] = k + 1
      BY <3>2
    <3>6. h \in [1 .. m + 1 -> 1 .. k + 1]
      <4>1. \A i \in 1 .. m + 1 : h[i] \in 1 .. k + 1
        <5>1. 1 .. k \subseteq 1 .. k + 1 /\ k + 1 \in 1 .. k + 1
          OBVIOUS
        <5> QED
          BY <3>3, <3>4, <3>5, <5>1
      <4> QED
        BY <4>1
    <3> HIDE DEF h
    <3>7. ASSUME NEW i \in 1 .. m + 1, NEW j \in 1 .. m + 1, i < j PROVE h[i] < h[j]
      <4>1. i \in 1 .. m
        BY <3>2, <3>7
      <4>2. CASE j = m + 1
        BY <2>1, <3>4, <3>5, <4>1, <4>2
      <4>3. CASE j \in 1 .. m
        BY <2>2, <3>4, <3>7, <4>1, <4>3 DEF Is, m
      <4> QED
        BY <3>3, <4>2, <4>3
    <3>8. ASSUME NEW i \in 1 .. m + 1 PROVE g[k + 1][i] = s[h[i]] /\ g[k + 1][i] \in S
      <4>1. CASE i = m + 1
        BY <2>4, <3>2, <3>5, <4>1
      <4>2. CASE i \in 1 .. m
        BY <2>2, <3>2, <3>4, <4>2 DEF Is, m
      <4> QED
        BY <3>3, <4>1, <4>2
    <3>9. ASSUME NEW j \in 1 .. k + 1, s[j] \in S PROVE \E i \in 1 .. m + 1 : h[i] = j
      <4>1. CASE j = k + 1
        BY <3>2, <3>5, <4>1
      <4>2. CASE j # k + 1
        <5>1. j \in 1 .. k
          BY <2>1, <4>2
        <5>2. PICK i \in 1 .. m : f[i] = j
          BY <2>2, <3>9, <5>1 DEF Is, m
        <5> QED
          BY <3>2, <3>4, <5>2
      <4> QED
        BY <4>1, <4>2
    <3>10. Is(h, k + 1)
      BY <3>2, <3>6, <3>7, <3>8, <3>9 DEF Is
    <3> QED
      BY <3>2, <3>10
  <2>5. CASE s[k + 1] \notin S
    <3>1. g[k + 1] = g[k]
      BY <2>3, <2>5 DEF PickNext
    <3>2. \A j \in 1 .. k + 1 : j = k + 1 \/ j \in 1 .. k
      BY <2>1
    <3>3. f \in [1 .. Len(g[k]) -> 1 .. k + 1]
      BY <2>1, <2>2 DEF Is
    <3>4. Is(f, k + 1)
      BY <2>2, <2>5, <3>1, <3>2, <3>3 DEF Is
    <3> QED
      BY <2>1, <3>1, <3>4
  <2> QED
    BY <2>4, <2>5
<1>4. Nat \subseteq P
  <2> HIDE DEF P
  <2> QED
    BY <1>2, <1>3, NatSetInduction
<1>5. n \in Nat /\ n <= n /\ n \in P
  BY <1>4
<1>6. g[n] \in Seq(T)
  BY <1>5
<1>7. PICK f : Is(f, n)
  BY <1>5
<1>8. DOMAIN g[n] = 1 .. Len(g[n]) /\ DOMAIN s = 1 .. n
  BY <1>6
<1>9. Embeds(f, g[n], s, {k \in DOMAIN s : s[k] \in S})
  BY <1>7, <1>8 DEF Embeds, Is
<1>10. IsPick(g[n], s, S)
  BY <1>9 DEF IsPick
<1> QED
  BY <1>1, <1>6, <1>7, <1>8, <1>10 DEF Is

Entries == [min : Keys, max : Keys, offset : Nat, length : Nat]

Ranges == [offset : Nat, length : Nat]

End(g) == g.offset + g.length

LEMMA RangesAppendType ==
  ASSUME NEW R \in Seq(Ranges), NEW e \in Entries
  PROVE /\ RangesAppend(R, e) \in Seq(Ranges)
        /\ IF R = <<>> \/ End(R[Len(R)]) < e.offset
           THEN /\ Len(RangesAppend(R, e)) = Len(R) + 1
                /\ \A i \in 1 .. Len(R) : RangesAppend(R, e)[i] = R[i]
                /\ RangesAppend(R, e)[Len(R) + 1] = [offset |-> e.offset, length |-> e.length]
           ELSE /\ Len(RangesAppend(R, e)) = Len(R) /\ Len(R) > 0
                /\ \A i \in 1 .. Len(R) - 1 : RangesAppend(R, e)[i] = R[i]
                /\ RangesAppend(R, e)[Len(R)] =
                     [offset |-> R[Len(R)].offset, length |-> R[Len(R)].length + e.length]
<1>1. e.offset \in Nat /\ e.length \in Nat
  BY DEF Entries
<1>2. CASE R = <<>> \/ End(R[Len(R)]) < e.offset
  <2>1. RangesAppend(R, e) = Append(R, [offset |-> e.offset, length |-> e.length])
    BY <1>2 DEF RangesAppend, Last, End
  <2>2. [offset |-> e.offset, length |-> e.length] \in Ranges
    BY <1>1 DEF Ranges
  <2> QED
    BY <1>2, <2>1, <2>2
<1>3. CASE ~(R = <<>> \/ End(R[Len(R)]) < e.offset)
  <2> DEFINE n == Len(R)
             g == [offset |-> R[n].offset, length |-> R[n].length + e.length]
  <2>1. n \in Nat \ {0} /\ R \in [1 .. n -> Ranges]
    BY <1>3
  <2>2. R[n] \in Ranges /\ n \in 1 .. n
    BY <2>1
  <2>3. RangesAppend(R, e) = [R EXCEPT ![n] = [R[n] EXCEPT !.length = @ + e.length]]
    BY <1>3 DEF RangesAppend, Last, End
  <2>4. [R[n] EXCEPT !.length = @ + e.length] = g /\ g \in Ranges
    <3> HIDE DEF n
    <3>1. R[n] = [offset |-> R[n].offset, length |-> R[n].length]
      BY <2>2 DEF Ranges
    <3>2. R[n].offset \in Nat /\ R[n].length \in Nat
      BY <2>2 DEF Ranges
    <3>3. [R[n] EXCEPT !.length = @ + e.length] = g
      BY <3>1
    <3>4. g \in Ranges
      BY <1>1, <3>2 DEF Ranges
    <3> QED
      BY <3>3, <3>4
  <2>5. RangesAppend(R, e) = [R EXCEPT ![n] = g]
    BY <2>3, <2>4
  <2> HIDE DEF g
  <2>6. [R EXCEPT ![n] = g] \in [1 .. n -> Ranges]
    BY <2>1, <2>4
  <2>7. RangesAppend(R, e) \in Seq(Ranges) /\ Len(RangesAppend(R, e)) = n
    BY <2>1, <2>5, <2>6
  <2>8. /\ RangesAppend(R, e)[n] = g
        /\ \A i \in 1 .. n - 1 : RangesAppend(R, e)[i] = R[i]
    <3> HIDE DEF n
    <3>1. \A i \in 1 .. n - 1 : i \in 1 .. n /\ i # n
      BY <2>1
    <3> QED
      BY <2>1, <2>2, <2>5, <3>1
  <2> QED
    BY <1>3, <2>1, <2>7, <2>8 DEF g
<1> QED
  BY <1>2, <1>3

LEMMA RangeNextType ==
  ASSUME NEW p, NEW R \in Seq(Ranges), NEW e \in Entries
  PROVE RangeNext(p, R, e) \in Seq(Ranges)
BY RangesAppendType DEF RangeNext

LEMMA SubSeqInBounds ==
  ASSUME NEW T, NEW s \in Seq(T), NEW a \in Nat, NEW l \in Nat, a + l <= Len(s)
  PROVE /\ SubSeq(s, a + 1, a + l) \in Seq(T)
        /\ Len(SubSeq(s, a + 1, a + l)) = l
        /\ \A i \in 1 .. l : SubSeq(s, a + 1, a + l)[i] = s[a + i]
<1>1. \A i \in (a + 1) .. (a + l) : i \in 1 .. Len(s) /\ s[i] \in T
  OBVIOUS
<1>2. SubSeq(s, a + 1, a + l) = [i \in 1 .. l |-> s[a + i]]
  <2>1. SubSeq(s, a + 1, a + l) = [i \in 1 .. (a + l) - (a + 1) + 1 |-> s[(a + 1) + i - 1]]
    BY SubSeqProperties, <1>1
  <2>2. (a + l) - (a + 1) + 1 = l /\ \A i \in 1 .. l : (a + 1) + i - 1 = a + i
    OBVIOUS
  <2> QED
    BY <2>1, <2>2
<1>3. \A i \in 1 .. l : s[a + i] \in T
  BY <1>1
<1>4. [i \in 1 .. l |-> s[a + i]] \in Seq(T)
  BY <1>3
<1> QED
  BY <1>2, <1>4

LEMMA ReadNextType ==
  ASSUME NEW T, NEW rows \in Seq(T), NEW rs \in Seq(T), NEW g \in Ranges, End(g) <= Len(rows)
  PROVE ReadNext(rows, rs, g) \in Seq(T)
<1>1. SubSeq(rows, g.offset + 1, g.offset + g.length) \in Seq(T)
  BY SubSeqInBounds DEF Ranges, End
<1> QED
  BY <1>1 DEF ReadNext

LEMMA Prefix ==
  ASSUME NEW n \in Nat, NEW k \in 0 .. n - 1
  PROVE 1 .. k + 1 \in SUBSET (1 .. n) /\ 1 .. k + 1 # {}
OBVIOUS

LEMMA LookupStages ==
  ASSUME NEW obj, NEW p, obj.index \in Seq(Entries)
  PROVE \E g : /\ g[0] = <<>>
               /\ \A k \in 0 .. Len(obj.index) - 1 : g[k + 1] = RangeNext(p, g[k], obj.index[k + 1])
               /\ LookupSeekRange(obj, p) = g[Len(obj.index)]
<1> DEFINE n == Len(obj.index)
           D == Seq(Ranges)
           step == [i \in 1 .. n |-> [d \in D |-> RangeNext(p, d, obj.index[i])]]
           Eq(f) == f = [u \in SUBSET (DOMAIN obj.index) |->
                          IF u = {} THEN <<>> ELSE RangeNext(p, f[u \ {Max(u)}], obj.index[Max(u)])]
<1>1. n \in Nat /\ DOMAIN obj.index = 1 .. n /\ \A i \in 1 .. n : obj.index[i] \in Entries
  OBVIOUS
<1>2. \A i \in 1 .. n, d \in D : RangeNext(p, d, obj.index[i]) \in D
  BY <1>1, RangeNextType
<1>3. \A i \in 1 .. n, d \in D : step[i][d] = RangeNext(p, d, obj.index[i])
  OBVIOUS
<1>0. <<>> \in D
  OBVIOUS
<1> HIDE DEF n, step, D
<1>4. PICK f : IsFold(f, D, n, <<>>, step)
  <2>1. \A i \in 1 .. n, d \in D : step[i][d] \in D
    BY <1>2, <1>3
  <2> QED
    BY <1>0, <1>1, <2>1, FoldExists
<1>5. \A u \in SUBSET (1 .. n) : u # {} =>
         step[Max(u)][f[u \ {Max(u)}]] = RangeNext(p, f[u \ {Max(u)}], obj.index[Max(u)])
  <2> SUFFICES ASSUME NEW u \in SUBSET (1 .. n), u # {}
               PROVE step[Max(u)][f[u \ {Max(u)}]] = RangeNext(p, f[u \ {Max(u)}], obj.index[Max(u)])
    OBVIOUS
  <2>1. Max(u) \in 1 .. n /\ f[u \ {Max(u)}] \in D
    BY <1>1, <1>4, MaxInSet DEF IsFold
  <2> QED
    BY <2>1, <1>3
<1>6. Eq(f)
  BY <1>1, <1>4, <1>5 DEF IsFold
<1> DEFINE h == CHOOSE x : Eq(x)
<1>7. Eq(h)
  BY <1>6
<1>8. LookupSeekRange(obj, p) = h[DOMAIN obj.index]
  BY DEF LookupSeekRange, FoldLeft, MapThenFoldSet, RangeNext
<1> HIDE DEF h
<1> DEFINE g == [k \in 0 .. n |-> h[1 .. k]]
<1>9. g[0] = <<>>
  <2>1. 1 .. 0 = {} /\ 0 \in 0 .. n
    BY <1>1
  <2> QED
    BY <1>7, <2>1
<1>10. ASSUME NEW k \in 0 .. n - 1 PROVE g[k + 1] = RangeNext(p, g[k], obj.index[k + 1])
  <2>0. n \in Nat
    BY <1>1
  <2>1. 1 .. k + 1 \in SUBSET (1 .. n) /\ 1 .. k + 1 # {}
    BY <2>0, Prefix
  <2>2. (1 .. k + 1) \ {k + 1} = 1 .. k
    OBVIOUS
  <2>3. Max(1 .. k + 1) = k + 1
    BY MaxIsLast
  <2>4. h[1 .. k + 1] = RangeNext(p, h[1 .. k], obj.index[k + 1])
    BY <1>1, <1>7, <2>1, <2>2, <2>3
  <2>5. k \in 0 .. n /\ k + 1 \in 0 .. n
    BY <1>1
  <2> QED
    BY <2>4, <2>5
<1>11. g[n] = h[DOMAIN obj.index]
  BY <1>1
<1> HIDE DEF g
<1> QED
  BY <1>8, <1>9, <1>10, <1>11 DEF n

LEMMA ReadStages ==
  ASSUME NEW T, NEW obj, NEW R \in Seq(Ranges), obj.rows \in Seq(T), R # <<>>,
         \A i \in DOMAIN R : End(R[i]) <= Len(obj.rows)
  PROVE \E g : /\ g[0] = <<>>
               /\ \A k \in 0 .. Len(R) - 1 : g[k + 1] = ReadNext(obj.rows, g[k], R[k + 1])
               /\ ReadRanges(obj, R) = g[Len(R)]
<1> DEFINE n == Len(R)
           D == Seq(T)
           step == [i \in 1 .. n |-> [d \in D |-> ReadNext(obj.rows, d, R[i])]]
           Eq(f) == f = [u \in SUBSET (DOMAIN R) |->
                          IF u = {} THEN <<>> ELSE ReadNext(obj.rows, f[u \ {Max(u)}], R[Max(u)])]
<1>1. n \in Nat /\ DOMAIN R = 1 .. n /\ \A i \in 1 .. n : R[i] \in Ranges
  OBVIOUS
<1>2. \A i \in 1 .. n, d \in D : ReadNext(obj.rows, d, R[i]) \in D
  BY <1>1, ReadNextType
<1>3. \A i \in 1 .. n, d \in D : step[i][d] = ReadNext(obj.rows, d, R[i])
  OBVIOUS
<1>0. <<>> \in D
  OBVIOUS
<1> HIDE DEF n, step, D
<1>4. PICK f : IsFold(f, D, n, <<>>, step)
  <2>1. \A i \in 1 .. n, d \in D : step[i][d] \in D
    BY <1>2, <1>3
  <2> QED
    BY <1>0, <1>1, <2>1, FoldExists
<1>5. \A u \in SUBSET (1 .. n) : u # {} =>
         step[Max(u)][f[u \ {Max(u)}]] = ReadNext(obj.rows, f[u \ {Max(u)}], R[Max(u)])
  <2> SUFFICES ASSUME NEW u \in SUBSET (1 .. n), u # {}
               PROVE step[Max(u)][f[u \ {Max(u)}]] = ReadNext(obj.rows, f[u \ {Max(u)}], R[Max(u)])
    OBVIOUS
  <2>1. Max(u) \in 1 .. n /\ f[u \ {Max(u)}] \in D
    BY <1>1, <1>4, MaxInSet DEF IsFold
  <2> QED
    BY <2>1, <1>3
<1>6. Eq(f)
  BY <1>1, <1>4, <1>5 DEF IsFold
<1> DEFINE h == CHOOSE x : Eq(x)
<1>7. Eq(h)
  BY <1>6
<1>8. ReadRanges(obj, R) = h[DOMAIN R]
  BY DEF ReadRanges, FoldLeft, MapThenFoldSet, ReadNext
<1> HIDE DEF h
<1> DEFINE g == [k \in 0 .. n |-> h[1 .. k]]
<1>9. g[0] = <<>>
  <2>1. 1 .. 0 = {} /\ 0 \in 0 .. n
    BY <1>1
  <2> QED
    BY <1>7, <2>1
<1>10. ASSUME NEW k \in 0 .. n - 1 PROVE g[k + 1] = ReadNext(obj.rows, g[k], R[k + 1])
  <2>1. 1 .. k + 1 \in SUBSET (1 .. n) /\ 1 .. k + 1 # {}
    BY <1>1
  <2>2. (1 .. k + 1) \ {k + 1} = 1 .. k
    OBVIOUS
  <2>3. Max(1 .. k + 1) = k + 1
    BY MaxIsLast
  <2>4. h[1 .. k + 1] = ReadNext(obj.rows, h[1 .. k], R[k + 1])
    BY <1>1, <1>7, <2>1, <2>2, <2>3
  <2>5. k \in 0 .. n /\ k + 1 \in 0 .. n
    BY <1>1
  <2> QED
    BY <2>4, <2>5
<1>11. g[n] = h[DOMAIN R]
  BY <1>1
<1> HIDE DEF g
<1> QED
  BY <1>8, <1>9, <1>10, <1>11 DEF n

(* The entries of a seek index follow each other without a gap. *)
Tiles(index, n) ==
    /\ index \in Seq(Entries)
    /\ \A i \in DOMAIN index : /\ index[i].offset = IF i = 1 THEN 0 ELSE End(index[i - 1])
                               /\ End(index[i]) <= n

(* Ranges come in order, without overlap and within n rows. *)
InSequence(R, n) ==
    /\ R \in Seq(Ranges)
    /\ \A i \in DOMAIN R : End(R[i]) <= n
    /\ \A i, j \in DOMAIN R : i < j => End(R[i]) <= R[j].offset

LEMMA EndType ==
  ASSUME NEW R \in Seq(Ranges), NEW i \in DOMAIN R
  PROVE /\ R[i] \in Ranges /\ R[i].offset \in Nat /\ R[i].length \in Nat
        /\ End(R[i]) \in Nat
<1>1. R[i] \in Ranges
  OBVIOUS
<1> QED
  BY <1>1 DEF Ranges, End

Holds(g, e) == g.offset <= e.offset /\ End(e) <= End(g)

(* RangesAppend after all other ranges. *)
LEMMA RangesGrow ==
  ASSUME NEW n \in Nat, NEW R, InSequence(R, n), NEW e \in Entries, n = e.offset
  PROVE /\ InSequence(RangesAppend(R, e), End(e))
        /\ \E i \in DOMAIN RangesAppend(R, e) : Holds(RangesAppend(R, e)[i], e)
        /\ \A x \in Entries : (\E i \in DOMAIN R : Holds(R[i], x)) =>
              \E i \in DOMAIN RangesAppend(R, e) : Holds(RangesAppend(R, e)[i], x)
<1> DEFINE Q == RangesAppend(R, e)
           m == Len(R)
<1>1. R \in Seq(Ranges) /\ m \in Nat /\ DOMAIN R = 1 .. m
  BY DEF InSequence
<1>2. /\ e.offset \in Nat /\ e.length \in Nat /\ End(e) \in Nat /\ e.offset <= End(e)
      /\ \A x \in Entries : x.offset \in Nat /\ x.length \in Nat
      /\ \A g \in Ranges : g.offset \in Nat /\ g.length \in Nat
  BY DEF Entries, End, Ranges
<1>3. Q \in Seq(Ranges)
  BY <1>1, RangesAppendType
<1>4. \A i \in 1 .. m : R[i] \in Ranges /\ End(R[i]) <= n /\ End(R[i]) \in Nat
  BY <1>1, <1>2 DEF InSequence, End
<1>5. CASE R = <<>> \/ End(R[m]) < e.offset
  <2>1. /\ Len(Q) = m + 1
        /\ \A i \in 1 .. m : Q[i] = R[i]
        /\ Q[m + 1] = [offset |-> e.offset, length |-> e.length]
    BY <1>1, <1>5, RangesAppendType
  <2> HIDE DEF Q, m
  <2>2. DOMAIN Q = 1 .. m + 1 /\ \A i \in 1 .. m + 1 : i = m + 1 \/ i \in 1 .. m
    BY <1>1, <1>3, <2>1
  <2>3. End(Q[m + 1]) = End(e) /\ Q[m + 1].offset = e.offset
    BY <2>1 DEF End
  <2>4. \A i \in 1 .. m + 1 : End(Q[i]) <= End(e)
    BY <1>2, <1>4, <2>1, <2>2, <2>3
  <2>5. ASSUME NEW i \in 1 .. m + 1, NEW j \in 1 .. m + 1, i < j PROVE End(Q[i]) <= Q[j].offset
    <3>1. i \in 1 .. m
      BY <1>1, <2>5
    <3>2. CASE j = m + 1
      BY <1>4, <2>1, <2>3, <3>1, <3>2
    <3>3. CASE j \in 1 .. m
      BY <1>1, <2>1, <2>5, <3>1, <3>3 DEF InSequence
    <3> QED
      BY <2>2, <3>2, <3>3
  <2>6. InSequence(Q, End(e))
    BY <1>3, <2>2, <2>4, <2>5 DEF InSequence
  <2>7. Holds(Q[m + 1], e) /\ m + 1 \in DOMAIN Q
    BY <1>1, <1>2, <2>2, <2>3 DEF Holds
  <2>8. \A i \in 1 .. m : i \in DOMAIN Q /\ Q[i] = R[i]
    BY <1>1, <2>1, <2>2
  <2> QED
    BY <1>1, <2>6, <2>7, <2>8 DEF Q
<1>6. CASE ~(R = <<>> \/ End(R[m]) < e.offset)
  <2>1. /\ Len(Q) = m /\ m > 0
        /\ \A i \in 1 .. m - 1 : Q[i] = R[i]
        /\ Q[m] = [offset |-> R[m].offset, length |-> R[m].length + e.length]
    BY <1>1, <1>6, RangesAppendType
  <2> HIDE DEF Q, m
  <2>2. DOMAIN Q = 1 .. m /\ m \in 1 .. m /\ \A i \in 1 .. m : i = m \/ i \in 1 .. m - 1
    BY <1>1, <1>3, <2>1
  <2>3. End(R[m]) = e.offset
    BY <1>2, <1>4, <1>6, <2>2
  <2>4. End(Q[m]) = End(e) /\ Q[m].offset = R[m].offset /\ R[m].offset <= e.offset
    BY <1>2, <1>4, <2>1, <2>2, <2>3, SMTT(30) DEF End
  <2>5. \A i \in 1 .. m - 1 : i \in 1 .. m
    BY <1>1
  <2>6. \A i \in 1 .. m : End(Q[i]) <= End(e)
    BY <1>2, <1>4, <2>1, <2>2, <2>4, <2>5
  <2>7. ASSUME NEW i \in 1 .. m, NEW j \in 1 .. m, i < j PROVE End(Q[i]) <= Q[j].offset
    <3>1. i \in 1 .. m - 1 /\ Q[i] = R[i]
      BY <1>1, <2>1, <2>7
    <3>2. Q[j].offset = R[j].offset
      BY <2>1, <2>2, <2>4
    <3> QED
      BY <1>1, <2>7, <3>1, <3>2 DEF InSequence
  <2>8. InSequence(Q, End(e))
    BY <1>3, <2>2, <2>6, <2>7 DEF InSequence
  <2>9. Holds(Q[m], e)
    BY <1>2, <2>4 DEF Holds
  <2>10. ASSUME NEW x \in Entries, NEW i \in 1 .. m, Holds(R[i], x) PROVE Holds(Q[i], x)
    <3>1. CASE i = m
      <4>1. End(x) \in Nat
        BY <1>2 DEF End
      <4>2. x.offset \in Nat /\ R[m].offset \in Nat
        BY <1>2, <1>4, <2>2
      <4> QED
        BY <1>2, <2>3, <2>4, <2>10, <3>1, <4>1, <4>2 DEF Holds
    <3>2. CASE i \in 1 .. m - 1
      BY <2>1, <2>10, <3>2
    <3> QED
      BY <2>2, <3>1, <3>2
  <2> QED
    BY <1>1, <2>2, <2>8, <2>9, <2>10 DEF Q
<1> QED
  BY <1>5, <1>6

(* The ranges a lookup finds are in sequence and hold every entry that the *)
(* pruner does not rule out.                                               *)
LEMMA LookupFinds ==
  ASSUME NEW obj, NEW p, NEW n \in Nat, Tiles(obj.index, n)
  PROVE /\ InSequence(LookupSeekRange(obj, p), n)
        /\ \A j \in DOMAIN obj.index :
             ~Prunes(p, obj.index[j].min, obj.index[j].max) =>
                \E i \in DOMAIN LookupSeekRange(obj, p) :
                    Holds(LookupSeekRange(obj, p)[i], obj.index[j])
<1> DEFINE ix == obj.index
           m == Len(ix)
           Stop(k) == IF k = 0 THEN 0 ELSE End(ix[k])
<1>1. ix \in Seq(Entries) /\ m \in Nat /\ DOMAIN ix = 1 .. m
  BY DEF Tiles
<1>2. PICK g : /\ g[0] = <<>>
               /\ \A k \in 0 .. m - 1 : g[k + 1] = RangeNext(p, g[k], ix[k + 1])
               /\ LookupSeekRange(obj, p) = g[m]
  BY <1>1, LookupStages
<1> DEFINE Found(k) == \A j \in 1 .. k : ~Prunes(p, ix[j].min, ix[j].max) =>
                          \E i \in DOMAIN g[k] : Holds(g[k][i], ix[j])
           P == {k \in Nat : k <= m => InSequence(g[k], Stop(k)) /\ Found(k)}
<1> HIDE DEF ix, m, Stop, Found
<1>3. 0 \in P
  <2>1. InSequence(<<>>, 0)
    BY DEF InSequence
  <2>2. Found(0)
    BY DEF Found
  <2> QED
    BY <1>2, <2>1, <2>2 DEF Stop
<1>4. ASSUME NEW k \in Nat, k \in P PROVE k + 1 \in P
  <2> SUFFICES ASSUME k + 1 <= m PROVE InSequence(g[k + 1], Stop(k + 1)) /\ Found(k + 1)
    OBVIOUS
  <2>1. /\ k \in 0 .. m - 1 /\ k + 1 \in 1 .. m /\ k <= m
        /\ \A j \in 1 .. k : j \in 1 .. m
        /\ \A j \in 1 .. k + 1 : j = k + 1 \/ j \in 1 .. k
    BY <1>1
  <2>2. InSequence(g[k], Stop(k)) /\ Found(k)
    BY <1>4, <2>1
  <2> DEFINE e == ix[k + 1]
  <2>3. e \in Entries /\ \A j \in 1 .. k : ix[j] \in Entries
    BY <1>1, <2>1
  <2>4. Stop(k + 1) = End(e)
    BY <2>1 DEF Stop
  <2>5. e.offset = Stop(k)
    <3>1. e.offset = IF k + 1 = 1 THEN 0 ELSE End(ix[k + 1 - 1])
      BY <1>1, <2>1 DEF Tiles, ix
    <3>2. k + 1 - 1 = k /\ (k + 1 = 1 <=> k = 0)
      OBVIOUS
    <3> QED
      BY <3>1, <3>2 DEF Stop
  <2>6. e.offset \in Nat /\ e.length \in Nat
    BY <2>3 DEF Entries
  <2>7. g[k + 1] = RangeNext(p, g[k], e)
    BY <1>2, <2>1
  <2> HIDE DEF e
  <2>8. CASE Prunes(p, e.min, e.max)
    <3>1. g[k + 1] = g[k]
      BY <2>7, <2>8 DEF RangeNext
    <3>2. Found(k + 1)
      BY <2>1, <2>2, <2>8, <3>1 DEF Found, e
    <3>3. e.offset <= End(e) /\ End(e) \in Nat
      BY <2>6 DEF End
    <3>4. \A i \in DOMAIN g[k] : End(g[k][i]) \in Nat
      BY <2>2, EndType DEF InSequence
    <3>5. InSequence(g[k + 1], End(e))
      BY <2>2, <2>5, <2>6, <3>1, <3>3, <3>4 DEF InSequence
    <3> QED
      BY <2>4, <3>2, <3>5
  <2>9. CASE ~Prunes(p, e.min, e.max)
    <3>1. g[k + 1] = RangesAppend(g[k], e)
      BY <2>7, <2>9 DEF RangeNext
    <3>2. InSequence(g[k], e.offset)
      BY <2>2, <2>5
    <3>3. /\ InSequence(g[k + 1], End(e))
          /\ \E i \in DOMAIN g[k + 1] : Holds(g[k + 1][i], e)
          /\ \A x \in Entries : (\E i \in DOMAIN g[k] : Holds(g[k][i], x)) =>
                \E i \in DOMAIN g[k + 1] : Holds(g[k + 1][i], x)
      BY <2>3, <2>6, <3>1, <3>2, RangesGrow
    <3>4. Found(k + 1)
      BY <2>1, <2>2, <2>3, <3>3 DEF Found, e
    <3> QED
      BY <2>4, <3>3, <3>4
  <2> QED
    BY <2>8, <2>9
<1>5. m \in P
  <2> HIDE DEF P
  <2> QED
    BY <1>1, <1>3, <1>4, NatSetInduction
<1>6. InSequence(g[m], Stop(m)) /\ Found(m)
  BY <1>1, <1>5
<1>7. Stop(m) <= n /\ Stop(m) \in Nat
  <2>1. CASE m = 0
    BY <2>1 DEF Stop
  <2>2. CASE m # 0
    <3>1. m \in 1 .. m
      BY <1>1, <2>2
    <3>2. End(ix[m]) <= n
      BY <1>1, <3>1 DEF Tiles, ix
    <3>3. ix[m] \in Entries
      BY <1>1, <3>1
    <3> QED
      BY <2>2, <3>2, <3>3 DEF Stop, End, Entries
  <2> QED
    BY <2>1, <2>2
<1>8. \A i \in DOMAIN g[m] : End(g[m][i]) \in Nat
  BY <1>6, EndType DEF InSequence
<1>9. InSequence(g[m], n)
  BY <1>6, <1>7, <1>8 DEF InSequence
<1> QED
  BY <1>1, <1>2, <1>6, <1>9 DEF Found, ix

LEMMA ConcatParts ==
  ASSUME NEW T, NEW a \in Seq(T), NEW b \in Seq(T)
  PROVE /\ a \o b \in Seq(T) /\ Len(a \o b) = Len(a) + Len(b)
        /\ \A i \in 1 .. Len(a) : (a \o b)[i] = a[i]
        /\ \A i \in 1 .. Len(b) : (a \o b)[Len(a) + i] = b[i]
        /\ \A i \in DOMAIN (a \o b) : i \in 1 .. Len(a) \/ \E j \in 1 .. Len(b) : i = Len(a) + j
<1>1. /\ a \o b \in Seq(T) /\ Len(a \o b) = Len(a) + Len(b)
      /\ \A i \in 1 .. Len(a) + Len(b) : (a \o b)[i] = IF i <= Len(a) THEN a[i] ELSE b[i - Len(a)]
  BY ConcatProperties
<1>2. Len(a) \in Nat /\ Len(b) \in Nat
  OBVIOUS
<1>3. \A i \in 1 .. Len(a) : i \in 1 .. Len(a) + Len(b) /\ i <= Len(a)
  BY <1>2
<1>4. \A i \in 1 .. Len(b) : /\ Len(a) + i \in 1 .. Len(a) + Len(b) /\ ~(Len(a) + i <= Len(a))
                             /\ (Len(a) + i) - Len(a) = i
  BY <1>2
<1>5. ASSUME NEW i \in 1 .. Len(a) + Len(b)
      PROVE i \in 1 .. Len(a) \/ \E j \in 1 .. Len(b) : i = Len(a) + j
  <2>1. i \in 1 .. Len(a) \/ (i - Len(a) \in 1 .. Len(b) /\ i = Len(a) + (i - Len(a)))
    BY <1>2
  <2> QED
    BY <2>1
<1>6. DOMAIN (a \o b) = 1 .. Len(a) + Len(b)
  BY <1>1
<1> QED
  BY <1>1, <1>3, <1>4, <1>5, <1>6

(* Reading ranges that are in sequence gives the rows in them, in order. *)
LEMMA ReadFinds ==
  ASSUME NEW T, NEW obj, obj.rows \in Seq(T), NEW R, R # <<>>,
         InSequence(R, Len(obj.rows))
  PROVE /\ ReadRanges(obj, R) \in Seq(T)
        /\ \E f : Embeds(f, ReadRanges(obj, R), obj.rows,
                         {k \in DOMAIN obj.rows :
                            \E i \in DOMAIN R : R[i].offset < k /\ k <= End(R[i])})
<1> DEFINE rows == obj.rows
           m == Len(R)
           Stop(k) == IF k = 0 THEN 0 ELSE End(R[k])
<1>1. R \in Seq(Ranges) /\ m \in Nat /\ DOMAIN R = 1 .. m /\ rows \in Seq(T)
  BY DEF InSequence
<1>2. PICK g : /\ g[0] = <<>>
               /\ \A k \in 0 .. m - 1 : g[k + 1] = ReadNext(rows, g[k], R[k + 1])
               /\ ReadRanges(obj, R) = g[m]
  BY <1>1, ReadStages DEF InSequence
<1> DEFINE Is(f, k) == /\ f \in [1 .. Len(g[k]) -> 1 .. Stop(k)]
                       /\ \A i, j \in 1 .. Len(g[k]) : i < j => f[i] < f[j]
                       /\ \A i \in 1 .. Len(g[k]) : g[k][i] = rows[f[i]]
                       /\ \A l \in 1 .. k, x \in 1 .. Len(rows) :
                            R[l].offset < x /\ x <= End(R[l]) => \E i \in 1 .. Len(g[k]) : f[i] = x
           P == {k \in Nat : k <= m => g[k] \in Seq(T) /\ \E f : Is(f, k)}
<1> HIDE DEF rows, m, Stop, Is
<1>3. 0 \in P
  <2> DEFINE f == [i \in 1 .. 0 |-> 0]
  <2>1. Is(f, 0)
    <3>1. 1 .. 0 = {} /\ Len(g[0]) = 0
      BY <1>2
    <3> QED
      BY <3>1 DEF Is
  <2>2. g[0] \in Seq(T)
    BY <1>2
  <2> HIDE DEF f
  <2> QED
    BY <2>1, <2>2
<1>4. ASSUME NEW k \in Nat, k \in P PROVE k + 1 \in P
  <2> SUFFICES ASSUME k + 1 <= m PROVE g[k + 1] \in Seq(T) /\ \E f : Is(f, k + 1)
    OBVIOUS
  <2>1. /\ k \in 0 .. m - 1 /\ k + 1 \in 1 .. m /\ k <= m
        /\ \A j \in 1 .. k : j \in 1 .. m
        /\ \A j \in 1 .. k + 1 : j = k + 1 \/ j \in 1 .. k
    BY <1>1
  <2>2. g[k] \in Seq(T)
    BY <1>4, <2>1
  <2>3. PICK f : Is(f, k)
    BY <1>4, <2>1
  <2> DEFINE a == R[k + 1].offset
             l == R[k + 1].length
             c == Len(g[k])
             part == SubSeq(rows, a + 1, a + l)
             h == [i \in 1 .. c + l |-> IF i <= c THEN f[i] ELSE a + (i - c)]
  <2>4. /\ a \in Nat /\ l \in Nat /\ c \in Nat /\ Stop(k + 1) = a + l
        /\ a + l <= Len(rows) /\ Len(rows) \in Nat
    <3>1. a \in Nat /\ l \in Nat
      BY <1>1, <2>1, EndType
    <3>2. c \in Nat /\ Len(rows) \in Nat
      BY <1>1, <2>2
    <3>3. End(R[k + 1]) = a + l
      BY DEF End
    <3>4. Stop(k + 1) = End(R[k + 1])
      BY <2>1 DEF Stop
    <3>5. End(R[k + 1]) <= Len(rows)
      BY <1>1, <2>1 DEF InSequence, rows
    <3> QED
      BY <3>1, <3>2, <3>3, <3>4, <3>5
  <2>5. Stop(k) <= a /\ Stop(k) \in Nat
    <3>1. CASE k = 0
      BY <2>4, <3>1 DEF Stop
    <3>2. CASE k # 0
      <4>1. k \in 1 .. m /\ k < k + 1
        BY <2>1, <3>2
      <4> QED
        BY <1>1, <2>1, <3>2, <4>1, EndType DEF Stop, InSequence
    <3> QED
      BY <3>1, <3>2
  <2>6. part \in Seq(T) /\ Len(part) = l /\ \A i \in 1 .. l : part[i] = rows[a + i]
    <3> HIDE DEF a, l
    <3> QED
      BY <1>1, <2>4, SubSeqInBounds
  <2>7. g[k + 1] = g[k] \o part
    BY <1>2, <2>1 DEF ReadNext
  <2> HIDE DEF part
  <2>8. /\ g[k + 1] \in Seq(T) /\ Len(g[k + 1]) = c + l
        /\ \A i \in 1 .. c : g[k + 1][i] = g[k][i]
        /\ \A i \in 1 .. l : g[k + 1][c + i] = part[i]
    <3> HIDE DEF l
    <3>1. part \in Seq(T) /\ Len(part) = l
      BY <2>6
    <3>2. g[k] \o part \in Seq(T)
      BY <2>2, <3>1, ConcatParts
    <3>3. Len(g[k] \o part) = Len(g[k]) + Len(part)
      BY <2>2, <3>1, ConcatParts
    <3>4. \A i \in 1 .. Len(g[k]) : (g[k] \o part)[i] = g[k][i]
      BY <2>2, <3>1, ConcatParts
    <3>5. \A i \in 1 .. Len(part) : (g[k] \o part)[Len(g[k]) + i] = part[i]
      BY <2>2, <3>1, ConcatParts
    <3> QED
      BY <2>7, <3>1, <3>2, <3>3, <3>4, <3>5
  <2> HIDE DEF a, l, c
  <2>9. \A i \in 1 .. c + l : i \in 1 .. c \/ (i > c /\ i - c \in 1 .. l /\ i = c + (i - c))
    BY <2>4
  <2>10. \A i \in 1 .. c : i \in 1 .. c + l /\ i <= c
    BY <2>4
  <2>11. f \in [1 .. c -> 1 .. Stop(k)] /\ \A i, j \in 1 .. c : i < j => f[i] < f[j]
    BY <2>3 DEF Is, c
  <2>12. \A i \in 1 .. c : h[i] = f[i] /\ f[i] \in 1 .. Stop(k)
    BY <2>10, <2>11
  <2>13. \A i \in 1 .. l : h[c + i] = a + i
    <3> SUFFICES ASSUME NEW i \in 1 .. l PROVE h[c + i] = a + i
      OBVIOUS
    <3>1. c + i \in 1 .. c + l /\ ~(c + i <= c) /\ (c + i) - c = i
      BY <2>4
    <3> QED
      BY <3>1
  <2>14. DOMAIN h = 1 .. c + l /\ h = [i \in 1 .. c + l |-> h[i]]
    OBVIOUS
  <2> HIDE DEF h
  <2>15. h \in [1 .. c + l -> 1 .. a + l]
    <3>1. ASSUME NEW i \in 1 .. c + l PROVE h[i] \in 1 .. a + l
      <4>1. CASE i \in 1 .. c
        BY <2>4, <2>5, <2>12, <4>1
      <4>2. CASE i - c \in 1 .. l /\ i = c + (i - c)
        <5>1. h[i] = a + (i - c)
          BY <2>13, <4>2
        <5> QED
          BY <2>4, <4>2, <5>1
      <4> QED
        BY <2>9, <4>1, <4>2
    <3> QED
      BY <2>14, <3>1
  <2>16. ASSUME NEW i \in 1 .. c + l, NEW j \in 1 .. c + l, i < j PROVE h[i] < h[j]
    <3>1. CASE i \in 1 .. c /\ j \in 1 .. c
      BY <2>11, <2>12, <2>16, <3>1
    <3>2. CASE i \in 1 .. c /\ j - c \in 1 .. l /\ j = c + (j - c)
      <4>1. h[j] = a + (j - c)
        BY <2>13, <3>2
      <4>2. h[i] \in 1 .. Stop(k)
        BY <2>12, <3>2
      <4> QED
        BY <2>4, <2>5, <3>2, <4>1, <4>2
    <3>3. CASE i > c /\ i - c \in 1 .. l /\ i = c + (i - c)
      <4>1. j - c \in 1 .. l /\ j = c + (j - c)
        BY <2>4, <2>9, <2>16, <3>3
      <4>2. h[i] = a + (i - c) /\ h[j] = a + (j - c)
        BY <2>13, <3>3, <4>1
      <4> QED
        BY <2>4, <2>16, <4>2
    <3> QED
      BY <2>9, <3>1, <3>2, <3>3
  <2>17. ASSUME NEW i \in 1 .. c + l PROVE g[k + 1][i] = rows[h[i]]
    <3>1. CASE i \in 1 .. c
      BY <2>3, <2>8, <2>12, <3>1 DEF Is, c
    <3>2. CASE i - c \in 1 .. l /\ i = c + (i - c)
      BY <2>6, <2>8, <2>13, <3>2
    <3> QED
      BY <2>9, <3>1, <3>2
  <2>18. ASSUME NEW z \in 1 .. k + 1, NEW x \in 1 .. Len(rows), R[z].offset < x, x <= End(R[z])
         PROVE \E i \in 1 .. c + l : h[i] = x
    <3>1. CASE z = k + 1
      <4>1. a < x /\ x <= a + l
        BY <2>18, <3>1 DEF a, l, End
      <4>2. x - a \in 1 .. l /\ c + (x - a) \in 1 .. c + l
        BY <2>4, <4>1
      <4>3. h[c + (x - a)] = a + (x - a)
        BY <2>13, <4>2
      <4> QED
        BY <2>4, <4>2, <4>3
    <3>2. CASE z \in 1 .. k
      <4>1. PICK i \in 1 .. c : f[i] = x
        BY <2>3, <2>18, <3>2 DEF Is, c
      <4> QED
        BY <2>10, <2>12, <4>1
    <3> QED
      BY <2>1, <3>1, <3>2
  <2>19. Is(h, k + 1)
    BY <2>4, <2>8, <2>15, <2>16, <2>17, <2>18 DEF Is
  <2> QED
    BY <2>8, <2>19
<1>5. m \in P
  <2> HIDE DEF P
  <2> QED
    BY <1>1, <1>3, <1>4, NatSetInduction
<1>6. g[m] \in Seq(T)
  BY <1>1, <1>5
<1>7. PICK f : Is(f, m)
  BY <1>1, <1>5
<1>8. Stop(m) <= Len(rows) /\ Stop(m) \in Nat /\ Len(rows) \in Nat
  <2>1. m \in 1 .. m
    BY <1>1 DEF m
  <2> QED
    BY <1>1, <2>1, EndType DEF Stop, InSequence, rows
<1>9. DOMAIN g[m] = 1 .. Len(g[m]) /\ DOMAIN rows = 1 .. Len(rows)
  BY <1>1, <1>6
<1>10. f \in [DOMAIN g[m] -> DOMAIN rows]
  BY <1>7, <1>8, <1>9 DEF Is
<1>11. Embeds(f, g[m], rows, {k \in DOMAIN rows : \E i \in DOMAIN R : R[i].offset < k /\ k <= End(R[i])})
  BY <1>1, <1>7, <1>9, <1>10 DEF Embeds, Is
<1> QED
  BY <1>2, <1>6, <1>11 DEF rows

----------------------------------------------------------------------------
(* The orders of keys, of rows and of sequences of rows. *)

LEMMA LessIsOrder ==
  ASSUME NEW a \in Keys, NEW b \in Keys, NEW c \in Keys
  PROVE /\ ~Less(a, a)
        /\ Less(a, b) /\ Less(b, c) => Less(a, c)
        /\ Less(a, b) => Less(a, c) \/ Less(c, b)
BY DEF Less, IsNull, Keys, KeyKinds

LEMMA BeforeIsOrder ==
  ASSUME NEW o, NEW a \in Keys, NEW b \in Keys, NEW c \in Keys
  PROVE /\ ~Before(o, a, a)
        /\ Before(o, a, b) /\ Before(o, b, c) => Before(o, a, c)
        /\ Before(o, a, b) => Before(o, a, c) \/ Before(o, c, b)
        /\ SameKey(a, b) <=> ~Before(o, a, b) /\ ~Before(o, b, a)
BY LessIsOrder DEF Before, SameKey

LEMMA RowBeforeIsOrder ==
  ASSUME NEW o, NEW r \in Rows, NEW q \in Rows, NEW s \in Rows
  PROVE /\ ~RowBefore(o, r, r)
        /\ RowBefore(o, r, q) /\ RowBefore(o, q, s) => RowBefore(o, r, s)
        /\ r.id # q.id => RowBefore(o, r, q) \/ RowBefore(o, q, r)
        /\ RowBefore(o, r, q) => ~Before(o, q.key, r.key)
        /\ Before(o, r.key, q.key) => RowBefore(o, r, q)
<1>1. /\ r.key \in Keys /\ q.key \in Keys /\ s.key \in Keys
      /\ r.id \in Nat /\ q.id \in Nat /\ s.id \in Nat
  BY DEF Rows
<1>2. /\ ~Before(o, r.key, r.key) /\ SameKey(r.key, r.key)
      /\ Before(o, r.key, q.key) => ~Before(o, q.key, r.key)
      /\ SameKey(r.key, q.key) <=> ~Before(o, r.key, q.key) /\ ~Before(o, q.key, r.key)
  BY <1>1, BeforeIsOrder
<1>3. /\ Before(o, r.key, q.key) /\ Before(o, q.key, s.key) => Before(o, r.key, s.key)
      /\ Before(o, r.key, q.key) /\ SameKey(q.key, s.key) => Before(o, r.key, s.key)
      /\ SameKey(r.key, q.key) /\ Before(o, q.key, s.key) => Before(o, r.key, s.key)
      /\ SameKey(r.key, q.key) /\ SameKey(q.key, s.key) => SameKey(r.key, s.key)
  BY <1>1, BeforeIsOrder
<1>4. ~RowBefore(o, r, r)
  BY <1>1, <1>2 DEF RowBefore
<1>5. RowBefore(o, r, q) => ~Before(o, q.key, r.key)
  BY <1>2 DEF RowBefore
<1>6. Before(o, r.key, q.key) => RowBefore(o, r, q)
  BY DEF RowBefore
<1>7. r.id # q.id => RowBefore(o, r, q) \/ RowBefore(o, q, r)
  <2>1. SameKey(q.key, r.key) <=> SameKey(r.key, q.key)
    BY DEF SameKey
  <2>2. r.id # q.id => r.id < q.id \/ q.id < r.id
    BY <1>1
  <2> QED
    BY <1>2, <2>1, <2>2 DEF RowBefore
<1>8. ASSUME RowBefore(o, r, q), RowBefore(o, q, s) PROVE RowBefore(o, r, s)
  <2>1. CASE SameKey(r.key, q.key) /\ SameKey(q.key, s.key)
    <3>1. ~Before(o, r.key, q.key) /\ ~Before(o, q.key, s.key)
      BY <1>1, <2>1, BeforeIsOrder
    <3>2. SameKey(r.key, s.key)
      BY <1>3, <2>1
    <3> QED
      BY <1>1, <1>8, <3>1, <3>2 DEF RowBefore
  <2>2. CASE ~(SameKey(r.key, q.key) /\ SameKey(q.key, s.key))
    <3>1. Before(o, r.key, s.key)
      BY <1>3, <1>8, <2>2 DEF RowBefore
    <3> QED
      BY <3>1 DEF RowBefore
  <2> QED
    BY <2>1, <2>2
<1> QED
  BY <1>4, <1>5, <1>6, <1>7, <1>8

(* KeyOf gives a key of the same place in the order. *)
LEMMA KeyOfRow ==
  ASSUME NEW r \in Rows, NEW k \in Keys, NEW o
  PROVE /\ KeyOf(r) \in Keys
        /\ Less(KeyOf(r), k) <=> Less(r.key, k)
        /\ Less(k, KeyOf(r)) <=> Less(k, r.key)
        /\ Before(o, KeyOf(r), k) <=> Before(o, r.key, k)
        /\ Before(o, k, KeyOf(r)) <=> Before(o, k, r.key)
<1>1. r.key \in Keys
  BY DEF Rows
<1>2. /\ KeyOf(r) \in Keys
      /\ Less(KeyOf(r), k) <=> Less(r.key, k)
      /\ Less(k, KeyOf(r)) <=> Less(k, r.key)
  BY <1>1 DEF KeyOf, Key, Keys, KeyKinds, Less, IsNull
<1> QED
  BY <1>2 DEF Before

LEMMA EmbeddedRows ==
  ASSUME NEW T, NEW s \in Seq(T), NEW q \in Seq(T), NEW C \in SUBSET DOMAIN s,
         NEW f, Embeds(f, q, s, C), NEW o
  PROVE /\ ToSet(q) \subseteq ToSet(s)
        /\ {s[k] : k \in C} \subseteq ToSet(q)
        /\ Ordered(o, s) => Ordered(o, q)
        /\ IsInjective(s) => IsInjective(q)
<1>1. \A i \in DOMAIN q : f[i] \in DOMAIN s /\ q[i] = s[f[i]] /\ i \in Int
  BY DEF Embeds
<1>2. ToSet(q) \subseteq ToSet(s)
  <2> SUFFICES ASSUME NEW i \in DOMAIN q PROVE q[i] \in ToSet(s)
    BY DEF ToSet
  <2> QED
    BY <1>1 DEF ToSet
<1>3. {s[k] : k \in C} \subseteq ToSet(q)
  BY <1>1 DEF ToSet, Embeds
<1>4. Ordered(o, s) => Ordered(o, q)
  BY <1>1 DEF Ordered, Embeds
<1>5. ASSUME IsInjective(s), NEW i \in DOMAIN q, NEW j \in DOMAIN q, q[i] = q[j] PROVE i = j
  <2>1. f[i] = f[j] /\ f[i] \in Int
    BY <1>1, <1>5 DEF IsInjective
  <2>2. ~(i < j) /\ ~(j < i)
    BY <2>1 DEF Embeds
  <2> QED
    BY <1>1, <2>2
<1>6. IsInjective(s) => IsInjective(q)
  BY <1>5 DEF IsInjective
<1> QED
  BY <1>2, <1>3, <1>4, <1>6

(* The same of Picked. *)
LEMMA PickedParts ==
  ASSUME NEW T, NEW s \in Seq(T), NEW S, NEW o
  PROVE /\ Picked(s, S) \in Seq(T)
        /\ ToSet(Picked(s, S)) = ToSet(s) \cap S
        /\ Ordered(o, s) => Ordered(o, Picked(s, S))
        /\ IsInjective(s) => IsInjective(Picked(s, S))
<1> DEFINE q == Picked(s, S)
           C == {k \in DOMAIN s : s[k] \in S}
<1>0. q \in Seq(T)
  BY PickedEmbeds
<1>1. \A i \in DOMAIN q : q[i] \in S
  BY PickedEmbeds
<1>7. IsPick(q, s, S)
  BY PickedEmbeds
<1>2. PICK f : Embeds(f, q, s, C)
  BY <1>7 DEF IsPick
<1>3. C \in SUBSET DOMAIN s
  OBVIOUS
<1> HIDE DEF q, C
<1>4. /\ ToSet(q) \subseteq ToSet(s)
      /\ {s[k] : k \in C} \subseteq ToSet(q)
      /\ Ordered(o, s) => Ordered(o, q)
      /\ IsInjective(s) => IsInjective(q)
  BY <1>0, <1>2, <1>3, EmbeddedRows
<1>5. ToSet(s) \cap S \subseteq {s[k] : k \in C}
  BY DEF C, ToSet
<1>6. ToSet(q) \subseteq S
  BY <1>1 DEF ToSet
<1> QED
  BY <1>0, <1>4, <1>5, <1>6 DEF q

(* Rows that the order tells apart. *)
Distinct(rs) == rs \subseteq Rows /\ \A r, q \in rs : r # q => r.id # q.id

(* Sorted lists the rows of a set in order, each once: by rank, which      *)
(* grows with the order and so takes every value once.                     *)
LEMMA SortedRows ==
  ASSUME NEW o, NEW rs, IsFiniteSet(rs), Distinct(rs)
  PROVE /\ Sorted(o, rs) \in Seq(Rows)
        /\ Ordered(o, Sorted(o, rs)) /\ ToSet(Sorted(o, rs)) = rs
        /\ IsInjective(Sorted(o, rs))
<1> DEFINE n == Cardinality(rs)
           Below(r) == {q \in rs : RowBefore(o, q, r)}
           rank == [r \in rs |-> Cardinality(Below(r)) + 1]
           s == Sorted(o, rs)
<1>1. n \in Nat /\ rs \subseteq Rows
  BY FS_CardinalityType DEF Distinct
<1>2. ASSUME NEW r \in rs
      PROVE /\ IsFiniteSet(Below(r)) /\ Cardinality(Below(r)) \in 0 .. n - 1
            /\ rank[r] \in 1 .. n
  <2>1. Below(r) \in SUBSET (rs \ {r})
    BY <1>1, RowBeforeIsOrder
  <2>2. IsFiniteSet(rs \ {r}) /\ Cardinality(rs \ {r}) = n - 1
    BY FS_RemoveElement
  <2> HIDE DEF n, Below
  <2>3. IsFiniteSet(Below(r)) /\ Cardinality(Below(r)) <= n - 1
    BY <2>1, <2>2, FS_Subset
  <2>4. Cardinality(Below(r)) \in Nat
    BY <2>3, FS_CardinalityType
  <2> QED
    BY <1>1, <2>3, <2>4
<1>3. ASSUME NEW q \in rs, NEW r \in rs, RowBefore(o, q, r)
      PROVE Cardinality(Below(q)) < Cardinality(Below(r))
  <2>1. Below(q) \in SUBSET Below(r)
    BY <1>1, <1>3, RowBeforeIsOrder
  <2>2. q \in Below(r) /\ q \notin Below(q)
    BY <1>1, <1>3, RowBeforeIsOrder
  <2> HIDE DEF Below, n
  <2>3. /\ Cardinality(Below(q)) <= Cardinality(Below(r))
        /\ Cardinality(Below(r)) # Cardinality(Below(q))
    BY <1>2, <2>1, <2>2, FS_Subset
  <2>4. Cardinality(Below(q)) \in Nat /\ Cardinality(Below(r)) \in Nat
    BY <1>1, <1>2
  <2> QED
    BY <2>3, <2>4
<1>4. ASSUME NEW q \in rs, NEW r \in rs, q # r
      PROVE (RowBefore(o, q, r) \/ RowBefore(o, r, q)) /\ rank[q] # rank[r]
  <2>1. q.id # r.id /\ q \in Rows /\ r \in Rows
    BY <1>4 DEF Distinct
  <2>2. RowBefore(o, q, r) \/ RowBefore(o, r, q)
    BY <2>1, RowBeforeIsOrder
  <2> HIDE DEF Below, n
  <2>3. Cardinality(Below(q)) \in Int /\ Cardinality(Below(r)) \in Int
    BY <1>1, <1>2
  <2>4. Cardinality(Below(q)) # Cardinality(Below(r))
    BY <1>3, <2>2, <2>3
  <2> QED
    BY <2>2, <2>3, <2>4
<1> HIDE DEF Below
<1>5. rank \in Surjection(rs, 1 .. n)
  <2>1. rank \in [rs -> 1 .. n]
    BY <1>2
  <2> HIDE DEF rank, n
  <2>2. DOMAIN rank = rs
    BY <2>1
  <2>3. rank \in Injection(rs, 1 .. n)
    BY <1>4, <2>1, <2>2 DEF Injection, IsInjective
  <2>4. IsFiniteSet(1 .. n) /\ Cardinality(1 .. n) = n
    BY <1>1, FS_Interval
  <2> QED
    BY <2>3, <2>4, FS_Injection DEF n
<1>6. ASSUME NEW i \in 1 .. n
      PROVE s[i] \in rs /\ Cardinality(Below(s[i])) = i - 1
  <2>1. PICK r \in rs : rank[r] = i
    BY <1>5 DEF Surjection
  <2>2. Cardinality(Below(r)) = i - 1
    BY <1>1, <1>2, <2>1
  <2>3. s[i] = CHOOSE x \in rs : Cardinality(Below(x)) = i - 1
    BY DEF Sorted, Below
  <2> QED
    BY <2>2, <2>3
<1>7. s \in [1 .. n -> rs]
  <2> DEFINE F(i) == CHOOSE x \in rs : Cardinality({q \in rs : RowBefore(o, q, x)}) = i - 1
  <2>1. s = [i \in 1 .. n |-> F(i)]
    BY DEF Sorted
  <2> HIDE DEF s, F
  <2>2. \A i \in 1 .. n : F(i) \in rs
    BY <1>6, <2>1
  <2> QED
    BY <2>1, <2>2
<1> HIDE DEF s
<1>8. s \in Seq(Rows) /\ DOMAIN s = 1 .. n
  <2> HIDE DEF n
  <2>1. s \in [1 .. n -> Rows]
    BY <1>1, <1>6, <1>7
  <2> QED
    BY <1>1, <2>1
<1>9. Ordered(o, s)
  <2> SUFFICES ASSUME NEW i \in 1 .. n, NEW j \in 1 .. n, i < j
               PROVE RowBefore(o, s[i], s[j])
    BY <1>8 DEF Ordered
  <2> HIDE DEF n
  <2>1. s[i] \in rs /\ s[j] \in rs /\ Cardinality(Below(s[i])) < Cardinality(Below(s[j]))
    BY <1>1, <1>6
  <2>2. s[i] # s[j] /\ ~(Cardinality(Below(s[j])) < Cardinality(Below(s[i])))
    BY <1>1, <1>6, <2>1
  <2> QED
    BY <1>3, <1>4, <2>1, <2>2
<1>10. ToSet(s) = rs
  <2> HIDE DEF n, rank
  <2>1. ToSet(s) \subseteq rs
    BY <1>6, <1>8 DEF ToSet
  <2>2. ASSUME NEW r \in rs PROVE r \in ToSet(s)
    <3>1. rank[r] \in 1 .. n
      BY <1>2
    <3>2. s[rank[r]] \in rs /\ Cardinality(Below(s[rank[r]])) = rank[r] - 1
      BY <1>6, <3>1
    <3>3. rank[s[rank[r]]] = rank[r]
      BY <1>1, <3>1, <3>2 DEF rank
    <3>4. s[rank[r]] = r
      BY <1>4, <3>2, <3>3
    <3> QED
      BY <1>8, <3>1, <3>4 DEF ToSet
  <2> QED
    BY <2>1, <2>2
<1>11. IsInjective(s)
  <2> HIDE DEF n
  <2> SUFFICES ASSUME NEW i \in 1 .. n, NEW j \in 1 .. n, s[i] = s[j] PROVE i = j
    BY <1>8 DEF IsInjective
  <2> QED
    BY <1>1, <1>6
<1> QED
  BY <1>8, <1>9, <1>10, <1>11 DEF s

----------------------------------------------------------------------------
(* Objects as writers make them. *)

LEMMA EndsAscend ==
  ASSUME NEW n \in Nat \ {0}, NEW S \in SUBSET (1 .. n), n \in S,
         NEW E, E = Picked([i \in 1 .. n |-> i], S)
  PROVE /\ E \in Seq(1 .. n) /\ E # <<>> /\ E[Len(E)] = n
        /\ \A i \in DOMAIN E : E[i] \in 1 .. n
        /\ \A i, j \in DOMAIN E : i < j => E[i] < E[j]
<1> DEFINE s == [i \in 1 .. n |-> i]
<1>1. s \in Seq(1 .. n) /\ DOMAIN s = 1 .. n /\ \A i \in 1 .. n : s[i] = i
  OBVIOUS
<1> HIDE DEF s
<1>2. E = Picked(s, S)
  BY DEF s
<1>3. E \in Seq(1 .. n)
  BY <1>1, <1>2, PickedEmbeds
<1>4. IsPick(E, s, S)
  BY <1>1, <1>2, PickedEmbeds
<1>5. PICK f : Embeds(f, E, s, {k \in DOMAIN s : s[k] \in S})
  BY <1>4 DEF IsPick
<1>6. \A i \in DOMAIN E : E[i] = f[i] /\ E[i] \in 1 .. n
  BY <1>1, <1>3, <1>5 DEF Embeds
<1>7. \A i, j \in DOMAIN E : i < j => E[i] < E[j]
  BY <1>5, <1>6 DEF Embeds
<1>8. PICK i \in DOMAIN E : E[i] = n
  <2>1. n \in {k \in DOMAIN s : s[k] \in S}
    BY <1>1
  <2> QED
    BY <1>5, <1>6, <2>1 DEF Embeds
<1>9. Len(E) \in DOMAIN E /\ i \in 1 .. Len(E) /\ Len(E) \in Nat
  BY <1>3, <1>8
<1>10. i = Len(E)
  <2> SUFFICES ASSUME i < Len(E) PROVE FALSE
    BY <1>9
  <2>1. n < E[Len(E)] /\ E[Len(E)] \in 1 .. n
    BY <1>6, <1>7, <1>8, <1>9
  <2> QED
    BY <2>1
<1>11. E # <<>>
  BY <1>8
<1> QED
  BY <1>3, <1>6, <1>7, <1>8, <1>10, <1>11

(* The keys of rows from one place of an ordered sequence to another are   *)
(* in the range that the keys there give.                                  *)
LEMMA KeysBetween ==
  ASSUME NEW o \in {"asc", "desc"}, NEW rs \in Seq(Rows), Ordered(o, rs),
         NEW a \in DOMAIN rs, NEW b \in DOMAIN rs, NEW k \in DOMAIN rs, a <= k, k <= b
  PROVE InRange(rs[k], IF o = "asc" THEN KeyOf(rs[a]) ELSE KeyOf(rs[b]),
                       IF o = "asc" THEN KeyOf(rs[b]) ELSE KeyOf(rs[a]))
<1>1. rs[a] \in Rows /\ rs[b] \in Rows /\ rs[k] \in Rows
  OBVIOUS
<1>2. rs[a].key \in Keys /\ rs[b].key \in Keys /\ rs[k].key \in Keys
  BY <1>1 DEF Rows
<1>3. ~Before(o, rs[k].key, rs[a].key) /\ ~Before(o, rs[b].key, rs[k].key)
  <2>1. a = k \/ RowBefore(o, rs[a], rs[k])
    BY DEF Ordered
  <2>2. k = b \/ RowBefore(o, rs[k], rs[b])
    BY DEF Ordered
  <2>3. ~Before(o, rs[k].key, rs[k].key)
    BY <1>2, BeforeIsOrder
  <2> QED
    BY <1>1, <2>1, <2>2, <2>3, RowBeforeIsOrder
<1>4. ~Before(o, rs[k].key, KeyOf(rs[a])) /\ ~Before(o, KeyOf(rs[b]), rs[k].key)
  BY <1>1, <1>2, <1>3, KeyOfRow
<1> QED
  BY <1>4 DEF InRange, Before

(* What makes an object: its rows lie in its range and its seek index      *)
(* tiles them, each entry with the range of its rows.                      *)
LEMMA SeekIndexFacts ==
  ASSUME NEW o \in {"asc", "desc"}, NEW rs \in Seq(Rows), rs # <<>>, Ordered(o, rs),
         NEW ix, ix = SeekIndex(o, rs)
  PROVE /\ Tiles(ix, Len(rs)) /\ ix # <<>> /\ End(ix[Len(ix)]) = Len(rs)
        /\ \A m \in DOMAIN ix : \A k \in ix[m].offset + 1 .. End(ix[m]) :
              k \in DOMAIN rs /\ InRange(rs[k], ix[m].min, ix[m].max)
<1> DEFINE n == Len(rs)
           E == Picked([i \in 1 .. n |-> i], EntryEnds(rs))
           start(m) == IF m = 1 THEN 0 ELSE E[m - 1]
           e(m) == Entry(o, KeyOf(rs[start(m) + 1]), KeyOf(rs[E[m]]), start(m), E[m] - start(m))
<1>1. n \in Nat \ {0} /\ DOMAIN rs = 1 .. n
  OBVIOUS
<1>2. EntryEnds(rs) \in SUBSET (1 .. n) /\ n \in EntryEnds(rs)
  BY <1>1 DEF EntryEnds
<1>3. ix = [m \in 1 .. Len(E) |-> e(m)]
  BY DEF SeekIndex
<1> HIDE DEF E, n
<1>4. /\ E \in Seq(1 .. n) /\ E # <<>> /\ E[Len(E)] = n
      /\ \A i \in DOMAIN E : E[i] \in 1 .. n
      /\ \A i, j \in DOMAIN E : i < j => E[i] < E[j]
  BY <1>1, <1>2, EndsAscend DEF E
<1>5. Len(E) \in Nat \ {0} /\ DOMAIN E = 1 .. Len(E) /\ \A m \in 1 .. Len(E) : E[m] \in 1 .. n
  <2>1. E \in Seq(1 .. n) /\ E # <<>>
    BY <1>4
  <2>2. Len(E) \in Nat \ {0} /\ DOMAIN E = 1 .. Len(E)
    BY <2>1
  <2>3. \A m \in 1 .. Len(E) : E[m] \in 1 .. n
    BY <1>4, <2>2
  <2> QED
    BY <2>2, <2>3
<1>6. ASSUME NEW m \in 1 .. Len(E) PROVE start(m) \in 0 .. n - 1 /\ start(m) < E[m]
  <2>1. CASE m = 1
    BY <1>1, <1>5, <2>1
  <2>2. CASE m # 1
    <3>1. m - 1 \in 1 .. Len(E) /\ m - 1 < m
      BY <1>5, <2>2
    <3>2. E[m - 1] < E[m] /\ E[m - 1] \in 1 .. n /\ E[m] \in 1 .. n
      BY <1>4, <1>5, <3>1
    <3> QED
      BY <1>1, <2>2, <3>2
  <2> QED
    BY <2>1, <2>2
<1> HIDE DEF start
<1>7. ASSUME NEW m \in 1 .. Len(E)
      PROVE /\ e(m) \in Entries /\ e(m).offset = start(m) /\ End(e(m)) = E[m]
            /\ \A k \in start(m) + 1 .. E[m] : k \in 1 .. n /\ InRange(rs[k], e(m).min, e(m).max)
  <2>1. /\ start(m) \in Nat /\ E[m] \in 1 .. n /\ start(m) + 1 \in 1 .. n
        /\ E[m] - start(m) \in Nat /\ start(m) + (E[m] - start(m)) = E[m]
    BY <1>1, <1>5, <1>6
  <2>2. rs[start(m) + 1] \in Rows /\ rs[E[m]] \in Rows
    BY <1>1, <2>1
  <2>3. KeyOf(rs[start(m) + 1]) \in Keys /\ KeyOf(rs[E[m]]) \in Keys
    BY <2>2, KeyOfRow DEF Rows
  <2>4. e(m) \in Entries /\ e(m).offset = start(m) /\ End(e(m)) = E[m]
    BY <2>1, <2>3 DEF Entry, Entries, End
  <2>5. ASSUME NEW k \in start(m) + 1 .. E[m]
        PROVE k \in 1 .. n /\ InRange(rs[k], e(m).min, e(m).max)
    <3>1. k \in 1 .. n /\ start(m) + 1 <= k /\ k <= E[m]
      BY <1>1, <2>1
    <3>2. InRange(rs[k], IF o = "asc" THEN KeyOf(rs[start(m) + 1]) ELSE KeyOf(rs[E[m]]),
                         IF o = "asc" THEN KeyOf(rs[E[m]]) ELSE KeyOf(rs[start(m) + 1]))
      BY <1>1, <2>1, <3>1, KeysBetween
    <3> QED
      BY <3>1, <3>2 DEF Entry
  <2> QED
    BY <2>4, <2>5
<1> HIDE DEF e
<1>8. ix \in Seq(Entries) /\ DOMAIN ix = 1 .. Len(E) /\ Len(ix) = Len(E)
  <2>1. ix \in [1 .. Len(E) -> Entries]
    BY <1>3, <1>7
  <2> QED
    BY <1>5, <2>1
<1>9. \A m \in 1 .. Len(E) : ix[m] = e(m)
  BY <1>3
<1>10. ASSUME NEW m \in 1 .. Len(E)
       PROVE /\ ix[m].offset = IF m = 1 THEN 0 ELSE End(ix[m - 1])
             /\ End(ix[m]) <= n
  <2>1. ix[m].offset = start(m) /\ End(ix[m]) = E[m]
    BY <1>7, <1>9
  <2>2. End(ix[m]) <= n
    BY <1>1, <1>5, <2>1
  <2>3. m # 1 => m - 1 \in 1 .. Len(E)
    BY <1>5
  <2>4. m # 1 => End(ix[m - 1]) = E[m - 1]
    BY <1>7, <1>9, <2>3
  <2> QED
    BY <2>1, <2>2, <2>4 DEF start
<1>11. Tiles(ix, n)
  BY <1>8, <1>10 DEF Tiles
<1>12. ix # <<>> /\ End(ix[Len(ix)]) = n
  <2>1. Len(E) \in 1 .. Len(E)
    BY <1>5
  <2> QED
    BY <1>4, <1>5, <1>7, <1>8, <1>9, <2>1
<1>13. \A m \in DOMAIN ix : \A k \in ix[m].offset + 1 .. End(ix[m]) :
         k \in 1 .. n /\ InRange(rs[k], ix[m].min, ix[m].max)
  BY <1>7, <1>8, <1>9
<1> QED
  BY <1>1, <1>11, <1>12, <1>13 DEF n

LEMMA WrittenFacts ==
  ASSUME NEW o \in {"asc", "desc"}, NEW obj, Written(o, obj)
  PROVE /\ obj.rows \in Seq(Rows) /\ obj.rows # <<>> /\ Ordered(o, obj.rows)
        /\ obj.count = Len(obj.rows) /\ obj.index = SeekIndex(o, obj.rows)
        /\ obj.min \in Keys /\ obj.max \in Keys
        /\ From(o, obj) = KeyOf(obj.rows[1]) /\ To(o, obj) = KeyOf(obj.rows[Len(obj.rows)])
<1> DEFINE rs == obj.rows
<1>1. rs \in Seq(Rows) /\ rs # <<>> /\ Ordered(o, rs)
  BY DEF Written
<1>2. 1 \in DOMAIN rs /\ Len(rs) \in DOMAIN rs
  BY <1>1
<1>3. rs[1] \in Rows /\ rs[Len(rs)] \in Rows
  BY <1>1, <1>2
<1>4. KeyOf(rs[1]) \in Keys /\ KeyOf(rs[Len(rs)]) \in Keys
  BY <1>3, KeyOfRow DEF Rows
<1>5. obj = NewObject(o, obj.id, rs)
  BY DEF Written
<1> HIDE DEF rs
<1>6. /\ obj.count = Len(rs) /\ obj.index = SeekIndex(o, rs)
      /\ obj.min = (IF o = "asc" THEN KeyOf(rs[1]) ELSE KeyOf(rs[Len(rs)]))
      /\ obj.max = (IF o = "asc" THEN KeyOf(rs[Len(rs)]) ELSE KeyOf(rs[1]))
  BY <1>5 DEF NewObject
<1>7. From(o, obj) = KeyOf(rs[1]) /\ To(o, obj) = KeyOf(rs[Len(rs)])
  BY <1>6 DEF From, To
<1> QED
  BY <1>1, <1>4, <1>6, <1>7 DEF rs

(* The rows of an object are in its range, in the pool's order too. *)
LEMMA WrittenRange ==
  ASSUME NEW o \in {"asc", "desc"}, NEW obj, Written(o, obj), NEW k \in DOMAIN obj.rows
  PROVE /\ obj.rows[k] \in Rows /\ obj.rows[k].key \in Keys
        /\ InRange(obj.rows[k], obj.min, obj.max)
        /\ ~Before(o, obj.rows[k].key, From(o, obj)) /\ ~Before(o, To(o, obj), obj.rows[k].key)
<1> DEFINE rs == obj.rows
<1>1. /\ rs \in Seq(Rows) /\ rs # <<>> /\ Ordered(o, rs)
      /\ From(o, obj) = KeyOf(rs[1]) /\ To(o, obj) = KeyOf(rs[Len(rs)])
  BY WrittenFacts
<1>2. 1 \in DOMAIN rs /\ Len(rs) \in DOMAIN rs /\ 1 <= k /\ k <= Len(rs) /\ rs[k] \in Rows
  BY <1>1
<1>3. InRange(rs[k], IF o = "asc" THEN KeyOf(rs[1]) ELSE KeyOf(rs[Len(rs)]),
                     IF o = "asc" THEN KeyOf(rs[Len(rs)]) ELSE KeyOf(rs[1]))
  BY <1>1, <1>2, KeysBetween
<1>4. InRange(rs[k], obj.min, obj.max)
  BY <1>1, <1>3 DEF From, To
<1>5. ~Before(o, rs[k].key, From(o, obj)) /\ ~Before(o, To(o, obj), rs[k].key)
  BY <1>4 DEF InRange, Before, From, To
<1> QED
  BY <1>2, <1>4, <1>5 DEF Rows

LEMMA WrittenOrder ==
  ASSUME NEW o \in {"asc", "desc"}, NEW obj, Written(o, obj)
  PROVE /\ From(o, obj) \in Keys /\ To(o, obj) \in Keys /\ ~Before(o, To(o, obj), From(o, obj))
        /\ ~Less(obj.max, obj.min)
<1>1. /\ obj.rows \in Seq(Rows) /\ obj.rows # <<>> /\ obj.min \in Keys /\ obj.max \in Keys
  BY WrittenFacts
<1>2. 1 \in DOMAIN obj.rows
  BY <1>1
<1>3. /\ obj.rows[1].key \in Keys /\ InRange(obj.rows[1], obj.min, obj.max)
  BY <1>2, WrittenRange
<1>4. ~Less(obj.max, obj.min)
  BY <1>1, <1>3, LessIsOrder DEF InRange
<1> QED
  BY <1>1, <1>4 DEF From, To, Before

(* Readers can rely on what writers make. *)
LEMMA WrittenIsWellFormed ==
  ASSUME order \in {"asc", "desc"}, NEW obj, Written(order, obj)
  PROVE WellFormed(obj)
<1> DEFINE rs == obj.rows
           ix == obj.index
<1>1. /\ rs \in Seq(Rows) /\ rs # <<>> /\ Ordered(order, rs) /\ obj.count = Len(rs)
      /\ ix = SeekIndex(order, rs)
  BY WrittenFacts
<1>2. \A i \in 1 .. Len(rs) : InRange(rs[i], obj.min, obj.max)
  BY <1>1, WrittenRange
<1>3. /\ Tiles(ix, Len(rs)) /\ ix # <<>> /\ End(ix[Len(ix)]) = Len(rs)
      /\ \A m \in DOMAIN ix : \A k \in ix[m].offset + 1 .. End(ix[m]) :
            k \in DOMAIN rs /\ InRange(rs[k], ix[m].min, ix[m].max)
  BY <1>1, SeekIndexFacts
<1>4. ix \in Seq(Entries) /\ DOMAIN ix = 1 .. Len(ix)
  BY <1>3 DEF Tiles
<1> HIDE DEF rs, ix
<1>5. \A i \in 1 .. Len(ix) :
        /\ ix[i].offset = IF i = 1 THEN 0 ELSE ix[i - 1].offset + ix[i - 1].length
        /\ \A k \in ix[i].offset + 1 .. ix[i].offset + ix[i].length :
              InRange(rs[k], ix[i].min, ix[i].max)
  BY <1>3, <1>4 DEF Tiles, End
<1>6. Last(ix).offset + Last(ix).length = Len(rs)
  BY <1>3 DEF Last, End
<1> QED
  BY <1>1, <1>2, <1>5, <1>6 DEF WellFormed, rs, ix

(* A writer makes an object of what it is given in order. *)
LEMMA NewIsWritten ==
  ASSUME NEW o, NEW id, NEW rs \in Seq(Rows), rs # <<>>, Ordered(o, rs)
  PROVE /\ Written(o, NewObject(o, id, rs)) /\ NewObject(o, id, rs).rows = rs
        /\ NewObject(o, id, rs).id = id
<1>1. NewObject(o, id, rs).rows = rs /\ NewObject(o, id, rs).id = id
  BY DEF NewObject
<1> QED
  BY <1>1 DEF Written

----------------------------------------------------------------------------
(* What a scan reads of an object. *)

LEMMA OrderedInjective ==
  ASSUME NEW o, NEW rs \in Seq(Rows), Ordered(o, rs)
  PROVE IsInjective(rs)
<1> SUFFICES ASSUME NEW i \in DOMAIN rs, NEW j \in DOMAIN rs, rs[i] = rs[j], i # j PROVE FALSE
  BY DEF IsInjective
<1>1. i < j \/ j < i
  OBVIOUS
<1>2. rs[i] \in Rows
  OBVIOUS
<1> QED
  BY <1>1, <1>2, RowBeforeIsOrder DEF Ordered

(* Every row is in an entry. *)
LEMMA TilesCover ==
  ASSUME NEW ix, NEW n \in Nat, Tiles(ix, n), ix # <<>>, End(ix[Len(ix)]) = n, NEW x \in 1 .. n
  PROVE \E m \in DOMAIN ix : ix[m].offset < x /\ x <= End(ix[m])
<1> DEFINE l == Len(ix)
           P == {k \in Nat : k \in 1 .. l /\ x <= End(ix[k]) =>
                    \E m \in 1 .. l : ix[m].offset < x /\ x <= End(ix[m])}
<1>1. ix \in Seq(Entries) /\ l \in Nat \ {0} /\ DOMAIN ix = 1 .. l
  BY DEF Tiles
<1> HIDE DEF l
<1>2. 0 \in P
  OBVIOUS
<1>3. ASSUME NEW k \in Nat, k \in P PROVE k + 1 \in P
  <2> SUFFICES ASSUME k + 1 \in 1 .. l, x <= End(ix[k + 1])
               PROVE \E m \in 1 .. l : ix[m].offset < x /\ x <= End(ix[m])
    OBVIOUS
  <2>0. ix[k + 1] \in Entries
    BY <1>1
  <2>1. ix[k + 1].offset \in Nat
    BY <2>0 DEF Entries
  <2>2. CASE ix[k + 1].offset < x
    BY <2>2
  <2>3. CASE ~(ix[k + 1].offset < x)
    <3>1. ix[k + 1].offset >= x
      BY <2>1, <2>3
    <3>2. ix[k + 1].offset = IF k + 1 = 1 THEN 0 ELSE End(ix[k + 1 - 1])
      BY <1>1 DEF Tiles
    <3>3. k # 0 /\ k + 1 - 1 = k /\ k \in 1 .. l
      BY <1>1, <3>1, <3>2
    <3>4. x <= End(ix[k])
      BY <3>1, <3>2, <3>3
    <3> QED
      BY <1>3, <3>3, <3>4
  <2> QED
    BY <2>2, <2>3
<1>4. l \in P
  <2> HIDE DEF P
  <2> QED
    BY <1>1, <1>2, <1>3, NatSetInduction
<1>5. l \in 1 .. l /\ x <= End(ix[l])
  BY <1>1 DEF l
<1> QED
  BY <1>1, <1>4, <1>5

(* The pruner is right about the rows. *)
Sound(p, rs) == \A r \in rs, min, max \in Keys : PrunesFor(p, r, min, max)

(* Pruning by the seek index leaves a subsequence with all selected rows. *)
LEMMA RangesRead ==
  ASSUME NEW o \in {"asc", "desc"}, NEW obj, Written(o, obj), NEW p,
         NEW q, q = ReadRanges(obj, LookupSeekRange(obj, p))
  PROVE /\ q \in Seq(Rows) /\ Ordered(o, q) /\ ToSet(q) \subseteq ToSet(obj.rows)
        /\ Sound(p, ToSet(obj.rows)) =>
              {r \in ToSet(obj.rows) : Selected(p, r)} \subseteq ToSet(q)
<1> DEFINE rs == obj.rows
           ix == obj.index
           R == LookupSeekRange(obj, p)
<1>1. /\ rs \in Seq(Rows) /\ rs # <<>> /\ Ordered(o, rs) /\ ix = SeekIndex(o, rs)
  BY WrittenFacts
<1>2. /\ Tiles(ix, Len(rs)) /\ ix # <<>> /\ End(ix[Len(ix)]) = Len(rs)
      /\ \A m \in DOMAIN ix : \A k \in ix[m].offset + 1 .. End(ix[m]) :
            k \in DOMAIN rs /\ InRange(rs[k], ix[m].min, ix[m].max)
  BY <1>1, SeekIndexFacts
<1>3. Len(rs) \in Nat /\ DOMAIN rs = 1 .. Len(rs)
  BY <1>1
<1>4. InSequence(R, Len(rs))
  BY <1>2, <1>3, LookupFinds
<1>5. \A j \in DOMAIN ix : ~Prunes(p, ix[j].min, ix[j].max) =>
         \E i \in DOMAIN R : Holds(R[i], ix[j])
  BY <1>2, <1>3, LookupFinds
<1>6. CASE R = <<>>
  <2>1. q = rs
    BY <1>6 DEF ReadRanges
  <2> QED
    BY <1>1, <2>1
<1>7. CASE R # <<>>
  <2> DEFINE C == {k \in DOMAIN rs : \E i \in DOMAIN R : R[i].offset < k /\ k <= End(R[i])}
  <2>1. q \in Seq(Rows) /\ \E f : Embeds(f, q, rs, C)
    BY <1>1, <1>4, <1>7, ReadFinds
  <2>2. PICK f : Embeds(f, q, rs, C)
    BY <2>1
  <2>3. C \in SUBSET DOMAIN rs
    OBVIOUS
  <2> HIDE DEF C, rs, ix, R
  <2>4. /\ ToSet(q) \subseteq ToSet(rs) /\ {rs[k] : k \in C} \subseteq ToSet(q) /\ Ordered(o, q)
    BY <1>1, <2>1, <2>2, <2>3, EmbeddedRows
  <2>5. ASSUME Sound(p, ToSet(rs)), NEW r \in ToSet(rs), Selected(p, r) PROVE r \in ToSet(q)
    <3>1. PICK k \in 1 .. Len(rs) : rs[k] = r
      BY <1>3 DEF ToSet
    <3>2. PICK m \in DOMAIN ix : ix[m].offset < k /\ k <= End(ix[m])
      BY <1>2, <1>3, TilesCover
    <3>3. ix[m] \in Entries
      BY <1>2 DEF Tiles
    <3>4. /\ ix[m].min \in Keys /\ ix[m].max \in Keys
          /\ ix[m].offset \in Nat /\ End(ix[m]) \in Nat
      BY <3>3 DEF Entries, End
    <3>5. k \in ix[m].offset + 1 .. End(ix[m])
      BY <3>2, <3>4
    <3>6. InRange(r, ix[m].min, ix[m].max)
      BY <1>2, <3>1, <3>5
    <3>7. ~Prunes(p, ix[m].min, ix[m].max)
      BY <2>5, <3>4, <3>6 DEF Sound, PrunesFor
    <3>8. PICK i \in DOMAIN R : Holds(R[i], ix[m])
      BY <1>5, <3>7
    <3>9. R[i].offset \in Nat /\ End(R[i]) \in Nat
      BY <1>4, EndType DEF InSequence
    <3>10. R[i].offset < k /\ k <= End(R[i])
      BY <3>2, <3>4, <3>8, <3>9 DEF Holds
    <3>11. k \in C
      BY <1>3, <3>10 DEF C
    <3> QED
      BY <2>4, <3>1, <3>11
  <2> QED
    BY <2>1, <2>4, <2>5 DEF rs
<1> QED
  BY <1>6, <1>7

LEMMA ReadFacts ==
  ASSUME order \in {"asc", "desc"}, NEW obj, Written(order, obj)
  PROVE /\ Read(obj) \in Seq(Rows) /\ Ordered(order, Read(obj)) /\ IsInjective(Read(obj))
        /\ ToSet(Read(obj)) \subseteq {r \in ToSet(obj.rows) : Keeps(r)}
        /\ (job.kind \in {"query", "ordered"} => Sound(job.pred, ToSet(obj.rows))) =>
              ToSet(Read(obj)) = {r \in ToSet(obj.rows) : Keeps(r)}
<1> DEFINE rs == obj.rows
           K == {r \in ToSet(rs) : Keeps(r)}
           q == IF job.kind \in {"query", "ordered"}
                THEN ReadRanges(obj, LookupSeekRange(obj, job.pred)) ELSE rs
<1>1. rs \in Seq(Rows) /\ Ordered(order, rs)
  BY WrittenFacts
<1>2. Read(obj) = Picked(q, K)
  BY DEF Read
<1>3. q \in Seq(Rows) /\ Ordered(order, q) /\ ToSet(q) \subseteq ToSet(rs)
  <2>1. CASE job.kind \in {"query", "ordered"}
    BY <2>1, RangesRead
  <2>2. CASE job.kind \notin {"query", "ordered"}
    BY <1>1, <2>2
  <2> QED
    BY <2>1, <2>2
<1>4. ASSUME job.kind \in {"query", "ordered"} => Sound(job.pred, ToSet(rs))
      PROVE K \subseteq ToSet(q)
  <2>1. CASE job.kind \in {"query", "ordered"}
    <3>1. {r \in ToSet(obj.rows) : Selected(job.pred, r)} \subseteq ToSet(q)
      BY <1>4, <2>1, RangesRead
    <3>2. \A r \in ToSet(rs) : Keeps(r) => Selected(job.pred, r)
      BY <2>1 DEF Keeps
    <3> QED
      BY <3>1, <3>2
  <2>2. CASE job.kind \notin {"query", "ordered"}
    BY <2>2
  <2> QED
    BY <2>1, <2>2
<1> HIDE DEF q, K
<1>5. /\ Read(obj) \in Seq(Rows) /\ ToSet(Read(obj)) = ToSet(q) \cap K
      /\ Ordered(order, Read(obj))
  <2>1. /\ Picked(q, K) \in Seq(Rows) /\ ToSet(Picked(q, K)) = ToSet(q) \cap K
        /\ Ordered(order, Picked(q, K))
    <3>1. Picked(q, K) \in Seq(Rows)
      BY <1>3, PickedParts
    <3>2. ToSet(Picked(q, K)) = ToSet(q) \cap K
      BY <1>3, PickedParts
    <3>3. Ordered(order, Picked(q, K))
      BY <1>3, PickedParts
    <3> QED
      BY <3>1, <3>2, <3>3
  <2> QED
    BY <1>2, <2>1
<1>6. IsInjective(Read(obj))
  BY <1>5, OrderedInjective
<1>7. K = {r \in ToSet(obj.rows) : Keeps(r)}
  BY DEF K
<1> QED
  BY <1>4, <1>5, <1>6, <1>7


----------------------------------------------------------------------------
(* Sequences put together. *)

LEMMA ConcatSets ==
  ASSUME NEW T, NEW a \in Seq(T), NEW b \in Seq(T)
  PROVE /\ a \o b \in Seq(T) /\ ToSet(a \o b) = ToSet(a) \cup ToSet(b)
<1>1. /\ a \o b \in Seq(T) /\ Len(a \o b) = Len(a) + Len(b)
      /\ \A i \in 1 .. Len(a) : (a \o b)[i] = a[i]
      /\ \A i \in 1 .. Len(b) : (a \o b)[Len(a) + i] = b[i]
      /\ \A i \in DOMAIN (a \o b) : i \in 1 .. Len(a) \/ \E j \in 1 .. Len(b) : i = Len(a) + j
  BY ConcatParts
<1>2. DOMAIN a = 1 .. Len(a) /\ DOMAIN b = 1 .. Len(b) /\ Len(a) \in Nat /\ Len(b) \in Nat
  OBVIOUS
<1> DEFINE c == a \o b
<1>3. DOMAIN c = 1 .. Len(a) + Len(b)
  BY <1>1
<1> HIDE DEF c
<1>4. \A i \in DOMAIN c : c[i] \in ToSet(a) \/ c[i] \in ToSet(b)
  BY <1>1, <1>2 DEF ToSet, c
<1>5. \A i \in DOMAIN a : i \in DOMAIN c /\ c[i] = a[i]
  BY <1>1, <1>2, <1>3 DEF c
<1>6. \A i \in DOMAIN b : Len(a) + i \in DOMAIN c /\ c[Len(a) + i] = b[i]
  BY <1>1, <1>2, <1>3 DEF c
<1>7. ToSet(c) = ToSet(a) \cup ToSet(b)
  BY <1>4, <1>5, <1>6 DEF ToSet
<1> QED
  BY <1>1, <1>7 DEF c

LEMMA ConcatInjective ==
  ASSUME NEW T, NEW a \in Seq(T), NEW b \in Seq(T)
  PROVE IsInjective(a \o b) <=>
          IsInjective(a) /\ IsInjective(b) /\ ToSet(a) \cap ToSet(b) = {}
<1> DEFINE c == a \o b
           n == Len(a)
<1>0. /\ c \in Seq(T) /\ Len(c) = n + Len(b)
      /\ \A i \in 1 .. n : c[i] = a[i]
      /\ \A i \in 1 .. Len(b) : c[n + i] = b[i]
      /\ \A i \in DOMAIN c : i \in 1 .. n \/ \E j \in 1 .. Len(b) : i = n + j
  BY ConcatParts
<1>2. n \in Nat /\ DOMAIN a = 1 .. n /\ DOMAIN b = 1 .. Len(b) /\ Len(b) \in Nat
  OBVIOUS
<1> HIDE DEF c, n
<1>1. /\ \A i \in DOMAIN a : i \in DOMAIN c /\ c[i] = a[i]
      /\ \A i \in DOMAIN b : n + i \in DOMAIN c /\ c[n + i] = b[i]
      /\ \A i \in DOMAIN c : i \in DOMAIN a \/ \E j \in DOMAIN b : i = n + j
  <2>1. DOMAIN c = 1 .. n + Len(b)
    BY <1>0
  <2>2. \A i \in DOMAIN a : i \in DOMAIN c /\ c[i] = a[i]
    BY <1>0, <1>2, <2>1
  <2>3. \A i \in DOMAIN b : n + i \in DOMAIN c /\ c[n + i] = b[i]
    BY <1>0, <1>2, <2>1
  <2>4. \A i \in DOMAIN c : i \in DOMAIN a \/ \E j \in DOMAIN b : i = n + j
    BY <1>0, <1>2
  <2> QED
    BY <2>2, <2>3, <2>4
<1>3. ASSUME IsInjective(c) PROVE IsInjective(a)
  BY <1>1, <1>3 DEF IsInjective
<1>4. ASSUME IsInjective(c) PROVE IsInjective(b)
  <2> SUFFICES ASSUME NEW i \in DOMAIN b, NEW j \in DOMAIN b, b[i] = b[j] PROVE i = j
    BY DEF IsInjective
  <2>1. n + i = n + j
    BY <1>1, <1>4 DEF IsInjective
  <2> QED
    BY <1>2, <2>1
<1>5. ASSUME IsInjective(c) PROVE ToSet(a) \cap ToSet(b) = {}
  <2> SUFFICES ASSUME NEW i \in DOMAIN a, NEW j \in DOMAIN b, a[i] = b[j] PROVE FALSE
    BY DEF ToSet
  <2>1. i = n + j
    BY <1>1, <1>5 DEF IsInjective
  <2> QED
    BY <1>2, <2>1
<1>6. ASSUME IsInjective(a), IsInjective(b), ToSet(a) \cap ToSet(b) = {}
      PROVE IsInjective(c)
  <2> SUFFICES ASSUME NEW i \in DOMAIN c, NEW j \in DOMAIN c, c[i] = c[j] PROVE i = j
    BY DEF IsInjective
  <2>1. CASE i \in DOMAIN a /\ j \in DOMAIN a
    BY <1>1, <1>6, <2>1 DEF IsInjective
  <2>2. CASE \E k \in DOMAIN b : i = n + k
    <3>1. PICK k \in DOMAIN b : i = n + k
      BY <2>2
    <3>2. CASE j \in DOMAIN a
      BY <1>1, <1>6, <3>1, <3>2, SMTT(30) DEF ToSet
    <3>3. CASE \E l \in DOMAIN b : j = n + l
      BY <1>1, <1>6, <3>1, <3>3 DEF IsInjective
    <3> QED
      BY <1>1, <3>2, <3>3
  <2>3. CASE i \in DOMAIN a /\ \E k \in DOMAIN b : j = n + k
    <3>1. PICK k \in DOMAIN b : j = n + k
      BY <2>3
    <3>2. a[i] = b[k]
      BY <1>1, <2>3, <3>1
    <3>3. a[i] \in ToSet(a) /\ b[k] \in ToSet(b)
      BY <2>3 DEF ToSet
    <3> QED
      BY <1>6, <3>2, <3>3
  <2> QED
    BY <1>1, <2>1, <2>2, <2>3
<1> QED
  BY <1>3, <1>4, <1>5, <1>6 DEF c

LEMMA ConcatOrdered ==
  ASSUME NEW o, NEW a \in Seq(Rows), NEW b \in Seq(Rows)
  PROVE Ordered(o, a \o b) <=>
          /\ Ordered(o, a) /\ Ordered(o, b)
          /\ \A r \in ToSet(a), q \in ToSet(b) : RowBefore(o, r, q)
<1> DEFINE c == a \o b
           n == Len(a)
<1>0. /\ c \in Seq(Rows) /\ Len(c) = n + Len(b)
      /\ \A i \in 1 .. n : c[i] = a[i]
      /\ \A i \in 1 .. Len(b) : c[n + i] = b[i]
      /\ \A i \in DOMAIN c : i \in 1 .. n \/ \E j \in 1 .. Len(b) : i = n + j
  <2> DEFINE Parts(T, s, t) ==
        /\ s \o t \in Seq(T) /\ Len(s \o t) = Len(s) + Len(t)
        /\ \A i \in 1 .. Len(s) : (s \o t)[i] = s[i]
        /\ \A i \in 1 .. Len(t) : (s \o t)[Len(s) + i] = t[i]
        /\ \A i \in DOMAIN (s \o t) :
             i \in 1 .. Len(s) \/ \E j \in 1 .. Len(t) : i = Len(s) + j
  <2>1. \A T : \A s, t \in Seq(T) : Parts(T, s, t)
    BY ConcatParts
  <2> HIDE DEF Parts
  <2>2. Parts(Rows, a, b)
    BY <2>1
  <2> QED
    BY <2>2 DEF Parts
<1>2. n \in Nat /\ DOMAIN a = 1 .. n /\ DOMAIN b = 1 .. Len(b) /\ Len(b) \in Nat
  OBVIOUS
<1> HIDE DEF c, n
<1>1. /\ \A i \in DOMAIN a : i \in DOMAIN c /\ c[i] = a[i]
      /\ \A i \in DOMAIN b : n + i \in DOMAIN c /\ c[n + i] = b[i]
      /\ \A i \in DOMAIN c : i \in DOMAIN a \/ \E j \in DOMAIN b : i = n + j
  <2>1. DOMAIN c = 1 .. n + Len(b)
    BY <1>0
  <2>2. \A i \in DOMAIN a : i \in DOMAIN c /\ c[i] = a[i]
    BY <1>0, <1>2, <2>1
  <2>3. \A i \in DOMAIN b : n + i \in DOMAIN c /\ c[n + i] = b[i]
    BY <1>0, <1>2, <2>1
  <2>4. \A i \in DOMAIN c : i \in DOMAIN a \/ \E j \in DOMAIN b : i = n + j
    BY <1>0, <1>2
  <2> QED
    BY <2>2, <2>3, <2>4
<1>3. ASSUME Ordered(o, c) PROVE Ordered(o, a)
  BY <1>1, <1>3 DEF Ordered
<1>4. ASSUME Ordered(o, c) PROVE Ordered(o, b)
  <2> SUFFICES ASSUME NEW i \in DOMAIN b, NEW j \in DOMAIN b, i < j
               PROVE RowBefore(o, b[i], b[j])
    BY DEF Ordered
  <2>1. n + i < n + j
    BY <1>2
  <2> QED
    BY <1>1, <1>4, <2>1 DEF Ordered
<1>5. ASSUME Ordered(o, c), NEW r \in ToSet(a), NEW q \in ToSet(b) PROVE RowBefore(o, r, q)
  <2>1. PICK i \in DOMAIN a, j \in DOMAIN b : r = a[i] /\ q = b[j]
    BY DEF ToSet
  <2>2. i < n + j
    BY <1>2
  <2> QED
    BY <1>1, <1>5, <2>1, <2>2 DEF Ordered
<1>6. ASSUME Ordered(o, a), Ordered(o, b),
             \A r \in ToSet(a), q \in ToSet(b) : RowBefore(o, r, q)
      PROVE Ordered(o, c)
  <2> SUFFICES ASSUME NEW i \in DOMAIN c, NEW j \in DOMAIN c, i < j
               PROVE RowBefore(o, c[i], c[j])
    BY DEF Ordered
  <2>1. CASE i \in DOMAIN a /\ j \in DOMAIN a
    BY <1>1, <1>6, <2>1 DEF Ordered
  <2>2. CASE \E k \in DOMAIN b : i = n + k
    <3>1. PICK k \in DOMAIN b : i = n + k
      BY <2>2
    <3>2. j \notin DOMAIN a
      BY <1>2, <3>1
    <3>3. PICK l \in DOMAIN b : j = n + l
      BY <1>1, <3>2
    <3>4. k < l
      BY <1>2, <3>1, <3>3
    <3> QED
      BY <1>1, <1>6, <3>1, <3>3, <3>4 DEF Ordered
  <2>3. CASE i \in DOMAIN a /\ \E k \in DOMAIN b : j = n + k
    BY <1>1, <1>6, <2>3 DEF ToSet
  <2> QED
    BY <1>1, <2>1, <2>2, <2>3
<1> QED
  BY <1>3, <1>4, <1>5, <1>6 DEF c

LEMMA SelfSeq ==
  ASSUME NEW T, NEW s \in Seq(T)
  PROVE s \in Seq(ToSet(s)) /\ ToSet(s) \subseteq T /\ (s # <<>> <=> ToSet(s) # {})
<1>1. \A i \in 1 .. Len(s) : s[i] \in ToSet(s)
  BY DEF ToSet
<1>2. s # <<>> => 1 \in DOMAIN s
  OBVIOUS
<1>3. s = <<>> => ToSet(s) = {}
  BY DEF ToSet
<1> QED
  BY <1>1, <1>2, <1>3 DEF ToSet

LEMMA AppendSet ==
  ASSUME NEW T, NEW s \in Seq(T), NEW e
  PROVE /\ Append(s, e) \in Seq(ToSet(Append(s, e)))
        /\ ToSet(Append(s, e)) = ToSet(s) \cup {e}
        /\ Len(Append(s, e)) = Len(s) + 1 /\ Append(s, e)[Len(s) + 1] = e
        /\ \A i \in DOMAIN s : Append(s, e)[i] = s[i]
        /\ \A i \in DOMAIN Append(s, e) : i \in DOMAIN s \/ i = Len(s) + 1
<1> DEFINE U == T \cup {e}
           c == Append(s, e)
<1>1. s \in Seq(U) /\ e \in U
  <2>1. \A i \in 1 .. Len(s) : s[i] \in U
    OBVIOUS
  <2> QED
    BY <2>1
<1>2. c \in Seq(U) /\ Len(c) = Len(s) + 1 /\ c[Len(s) + 1] = e /\ \A i \in DOMAIN s : c[i] = s[i]
  BY <1>1
<1>3. DOMAIN c = 1 .. Len(s) + 1 /\ DOMAIN s = 1 .. Len(s) /\ Len(s) \in Nat
  BY <1>2
<1>4. \A i \in DOMAIN c : i \in DOMAIN s \/ i = Len(s) + 1
  BY <1>3
<1>5. DOMAIN s \subseteq DOMAIN c /\ Len(s) + 1 \in DOMAIN c
  BY <1>3
<1>6. c \in Seq(ToSet(c))
  BY <1>2, SelfSeq
<1> HIDE DEF c
<1>7. ToSet(c) = ToSet(s) \cup {e}
  BY <1>2, <1>4, <1>5 DEF ToSet
<1> QED
  BY <1>2, <1>4, <1>6, <1>7 DEF c

LEMMA MoveHead ==
  ASSUME NEW T, NEW a \in Seq(T), NEW s \in Seq(T), s # <<>>
  PROVE /\ Append(a, Head(s)) \o Tail(s) = a \o s
        /\ Append(a, Head(s)) \in Seq(T) /\ Tail(s) \in Seq(T)
        /\ Head(s) \in ToSet(s) /\ ToSet(Tail(s)) \subseteq ToSet(s)
<1>1. /\ Append(a, Head(s)) \in Seq(T) /\ Tail(s) \in Seq(T) /\ Head(s) = s[1] /\ 1 \in DOMAIN s
      /\ Len(Tail(s)) = Len(s) - 1 /\ Len(s) \in Nat \ {0}
      /\ \A i \in 1 .. Len(s) - 1 : Tail(s)[i] = s[i + 1]
  OBVIOUS
<1>2. ToSet(Tail(s)) \subseteq ToSet(s)
  <2> SUFFICES ASSUME NEW i \in 1 .. Len(s) - 1 PROVE s[i + 1] \in ToSet(s)
    BY <1>1 DEF ToSet
  <2> QED
    BY <1>1 DEF ToSet
<1>3. Append(a, Head(s)) \o Tail(s) = a \o s
  BY <1>1
<1> QED
  BY <1>1, <1>2, <1>3 DEF ToSet

LEMMA MinInSet ==
  ASSUME NEW s \in SUBSET Nat, s # {}
  PROVE Min(s) \in s /\ \A y \in s : Min(s) <= y
<1>1. IsWellFoundedOn(OpToRel(<, Nat), Nat)
  BY NatLessThanWellFounded
<1>2. PICK x \in s : \A y \in s : ~ (<<y, x>> \in OpToRel(<, Nat))
  BY <1>1, WFMin, Zenon
<1>3. \A y \in s : ~ (y < x)
  BY <1>2 DEF OpToRel
<1>4. x \in s /\ \A y \in s : x <= y
  BY <1>3
<1> QED
  BY <1>4 DEF Min

(* A sequence s cut in three: n elements, the next one, and the rest. *)
IsCut(T, s, n, a, b, c) ==
    /\ a \in Seq(T) /\ Len(a) = n /\ \A i \in 1 .. n : a[i] = s[i]
    /\ n = Len(s) => b = <<>> /\ c = <<>>
    /\ n < Len(s) =>
         /\ b \in Seq(T) /\ Len(b) = 1 /\ b[1] = s[n + 1]
         /\ c \in Seq(T) /\ Len(c) = Len(s) - (n + 1)
         /\ \A i \in 1 .. Len(s) - (n + 1) : c[i] = s[n + 1 + i]

LEMMA CutPieces ==
  ASSUME NEW T, NEW s \in Seq(T), NEW n \in 0 .. Len(s)
  PROVE IsCut(T, s, n, SubSeq(s, 1, n), SubSeq(s, n + 1, Min({n + 1, Len(s)})),
              SubSeq(s, n + 2, Len(s)))
<1> DEFINE a == SubSeq(s, 1, n)
           b == SubSeq(s, n + 1, Min({n + 1, Len(s)}))
           c == SubSeq(s, n + 2, Len(s))
<1>1. n \in Nat /\ Len(s) \in Nat /\ n <= Len(s)
  OBVIOUS
<1>2. Min({n + 1, Len(s)}) = IF n = Len(s) THEN n ELSE n + 1
  <2>1. Min({n + 1, Len(s)}) \in {n + 1, Len(s)} /\ \A y \in {n + 1, Len(s)} : Min({n + 1, Len(s)}) <= y
    <3>1. {n + 1, Len(s)} \in SUBSET Nat /\ {n + 1, Len(s)} # {}
      BY <1>1
    <3> QED
      BY <3>1, MinInSet
  <2> QED
    BY <1>1, <2>1
<1>3. a \in Seq(T) /\ Len(a) = n /\ \A i \in 1 .. n : a[i] = s[i]
  BY <1>1
<1>4. n = Len(s) => b = <<>> /\ c = <<>>
  BY <1>1, <1>2
<1>5. ASSUME n < Len(s) PROVE b \in Seq(T) /\ Len(b) = 1 /\ b[1] = s[n + 1]
  <2>1. /\ SubSeq(s, n + 1, n + 1) \in Seq(T) /\ Len(SubSeq(s, n + 1, n + 1)) = 1
        /\ \A i \in 1 .. 1 : SubSeq(s, n + 1, n + 1)[i] = s[n + i]
    BY <1>1, <1>5, SubSeqInBounds
  <2>2. b = SubSeq(s, n + 1, n + 1)
    BY <1>2, <1>5
  <2>3. 1 \in 1 .. 1
    OBVIOUS
  <2> HIDE DEF b
  <2> QED
    BY <2>1, <2>2, <2>3
<1>6. ASSUME n < Len(s)
      PROVE /\ c \in Seq(T) /\ Len(c) = Len(s) - (n + 1)
            /\ \A i \in 1 .. Len(s) - (n + 1) : c[i] = s[n + 1 + i]
  <2> DEFINE m == n + 1
             l == Len(s) - (n + 1)
  <2>1. m \in Nat /\ l \in Nat /\ m + l = Len(s) /\ m + 1 = n + 2 /\ m + l <= Len(s)
    BY <1>1, <1>6
  <2> HIDE DEF m, l
  <2>2. /\ SubSeq(s, m + 1, m + l) \in Seq(T) /\ Len(SubSeq(s, m + 1, m + l)) = l
        /\ \A i \in 1 .. l : SubSeq(s, m + 1, m + l)[i] = s[m + i]
    BY <2>1, SubSeqInBounds
  <2>3. c = SubSeq(s, m + 1, m + l)
    BY <2>1
  <2> HIDE DEF c
  <2>4. c \in Seq(T) /\ Len(c) = l /\ \A i \in 1 .. l : c[i] = s[m + i]
    BY <2>2, <2>3
  <2> QED
    BY <2>4 DEF m, l
<1> HIDE DEF a, b, c
<1> QED
  BY <1>3, <1>4, <1>5, <1>6 DEF a, b, c, IsCut

LEMMA CutInThree ==
  ASSUME NEW T, NEW s \in Seq(T), NEW n \in 0 .. Len(s), NEW a, NEW b, NEW c,
         IsCut(T, s, n, a, b, c)
  PROVE /\ b \in Seq(T) /\ c \in Seq(T) /\ Len(b) <= 1
        /\ \A i \in DOMAIN a : i \in DOMAIN s /\ i <= n /\ a[i] = s[i]
        /\ \A i \in DOMAIN b : n + 1 \in DOMAIN s /\ b[i] = s[n + 1]
        /\ \A i \in DOMAIN c : n + 1 + i \in DOMAIN s /\ c[i] = s[n + 1 + i]
        /\ ToSet(s) = ToSet(a) \cup ToSet(b) \cup ToSet(c)
<1>1. n \in Nat /\ Len(s) \in Nat /\ n <= Len(s) /\ DOMAIN s = 1 .. Len(s)
  OBVIOUS
<1>a. a \in Seq(T) /\ Len(a) = n /\ DOMAIN a = 1 .. n /\ \A i \in 1 .. n : a[i] = s[i]
  BY DEF IsCut
<1>b. ASSUME n = Len(s) PROVE b = <<>> /\ c = <<>>
  BY <1>b DEF IsCut
<1>c. ASSUME n < Len(s)
      PROVE /\ b \in Seq(T) /\ Len(b) = 1 /\ b[1] = s[n + 1]
            /\ c \in Seq(T) /\ Len(c) = Len(s) - (n + 1)
            /\ \A i \in 1 .. Len(s) - (n + 1) : c[i] = s[n + 1 + i]
  BY <1>c DEF IsCut
<1>6. n = Len(s) \/ n < Len(s)
  <2> DEFINE l == Len(s)
  <2>1. n \in Nat /\ l \in Nat /\ n <= l
    BY <1>1
  <2> HIDE DEF l
  <2>2. n = l \/ n < l
    BY <2>1
  <2> QED
    BY <2>2 DEF l
<1>2. b \in Seq(T) /\ c \in Seq(T) /\ Len(b) <= 1
  <2>1. CASE n = Len(s)
    BY <1>b, <2>1
  <2>2. CASE n < Len(s)
    <3>1. b \in Seq(T) /\ Len(b) = 1 /\ c \in Seq(T)
      BY <1>c, <2>2
    <3> QED
      BY <3>1
  <2> QED
    BY <1>6, <2>1, <2>2
<1>3. \A i \in DOMAIN a : i \in DOMAIN s /\ i <= n /\ a[i] = s[i]
  <2> SUFFICES ASSUME NEW i \in 1 .. n PROVE i \in 1 .. Len(s) /\ i <= n /\ a[i] = s[i]
    BY <1>1, <1>a
  <2> QED
    BY <1>1, <1>a
<1>4. CASE n = Len(s)
  <2>1. DOMAIN b = {} /\ DOMAIN c = {}
    BY <1>b, <1>4
  <2>2. ToSet(s) = ToSet(a)
    BY <1>1, <1>a, <1>4 DEF ToSet
  <2>3. ToSet(b) = {} /\ ToSet(c) = {}
    BY <2>1 DEF ToSet
  <2> QED
    BY <1>2, <1>3, <2>1, <2>2, <2>3
<1>5. CASE n < Len(s)
  <2>1. DOMAIN b = {1} /\ DOMAIN c = 1 .. Len(s) - (n + 1) /\ n + 1 \in DOMAIN s
    BY <1>1, <1>c, <1>5
  <2>2. \A i \in DOMAIN b : n + 1 \in DOMAIN s /\ b[i] = s[n + 1]
    BY <1>c, <1>5, <2>1
  <2>3. ASSUME NEW i \in DOMAIN c PROVE n + 1 + i \in DOMAIN s /\ c[i] = s[n + 1 + i]
    <3>1. c[i] = s[n + 1 + i]
      BY <1>c, <1>5, <2>1
    <3>2. n + 1 + i \in DOMAIN s
      BY <1>1, <2>1
    <3> QED
      BY <3>1, <3>2
  <2>4. ToSet(a) \subseteq ToSet(s)
    BY <1>3 DEF ToSet
  <2>5. ToSet(b) \subseteq ToSet(s)
    BY <2>2 DEF ToSet
  <2>6. ToSet(c) \subseteq ToSet(s)
    BY <2>3 DEF ToSet
  <2>7. ASSUME NEW i \in DOMAIN s PROVE s[i] \in ToSet(a) \cup ToSet(b) \cup ToSet(c)
    <3>1. CASE i <= n
      <4>1. i \in 1 .. n
        BY <1>1, <3>1
      <4>2. i \in DOMAIN a /\ a[i] = s[i]
        BY <1>a, <4>1
      <4> QED
        BY <4>2 DEF ToSet
    <3>2. CASE i = n + 1
      BY <1>c, <1>5, <2>1, <3>2 DEF ToSet
    <3>3. CASE i > n + 1
      <4>1. i \in Nat /\ i <= Len(s)
        BY <1>1
      <4>2. i - (n + 1) \in DOMAIN c /\ n + 1 + (i - (n + 1)) = i
        <5>1. i - (n + 1) \in 1 .. Len(s) - (n + 1) /\ n + 1 + (i - (n + 1)) = i
          BY <1>1, <3>3, <4>1
        <5> QED
          BY <2>1, <5>1
      <4>3. c[i - (n + 1)] = s[i]
        BY <2>3, <4>2
      <4> QED
        BY <4>2, <4>3 DEF ToSet
    <3>4. i \in Nat
      BY <1>1
    <3>5. i <= n \/ i = n + 1 \/ i > n + 1
      BY <1>1, <3>4
    <3> QED
      BY <3>1, <3>2, <3>3, <3>5
  <2>8. ToSet(s) \subseteq ToSet(a) \cup ToSet(b) \cup ToSet(c)
    BY <2>7 DEF ToSet
  <2> QED
    BY <1>2, <1>3, <2>2, <2>3, <2>4, <2>5, <2>6, <2>8
<1> QED
  BY <1>4, <1>5, <1>6

(* Rows of objects one of which ends before the other begins. *)
LEMMA ApartRows ==
  ASSUME NEW o \in {"asc", "desc"}, NEW a, NEW b, Written(o, a), Written(o, b),
         Before(o, To(o, a), From(o, b)),
         NEW r \in ToSet(a.rows), NEW q \in ToSet(b.rows)
  PROVE /\ r \in Rows /\ q \in Rows /\ r # q
        /\ Before(o, r.key, q.key) /\ RowBefore(o, r, q)
<1>1. PICK i \in DOMAIN a.rows : r = a.rows[i]
  BY DEF ToSet
<1>2. PICK j \in DOMAIN b.rows : q = b.rows[j]
  BY DEF ToSet
<1>3. r \in Rows /\ r.key \in Keys /\ ~Before(o, To(o, a), r.key)
  BY <1>1, WrittenRange
<1>4. q \in Rows /\ q.key \in Keys /\ ~Before(o, q.key, From(o, b))
  BY <1>2, WrittenRange
<1>5. To(o, a) \in Keys /\ From(o, b) \in Keys
  BY WrittenOrder
<1>6. Before(o, To(o, a), q.key)
  BY <1>4, <1>5, BeforeIsOrder
<1>7. Before(o, r.key, q.key)
  BY <1>3, <1>4, <1>5, <1>6, BeforeIsOrder
<1>8. r # q
  BY <1>3, <1>7, BeforeIsOrder
<1>9. RowBefore(o, r, q)
  BY <1>3, <1>4, <1>7, RowBeforeIsOrder
<1> QED
  BY <1>3, <1>4, <1>7, <1>8, <1>9

----------------------------------------------------------------------------
(* The invariant of LakeScan.  Each part says one thing about one of the   *)
(* actors, whatever operation is running.                                  *)

Results == {"none", "ok", "partial", "error", "empty", "deleted", "compacted"}

TheTrunk == CHOOSE t \in Trunks : TRUE

Running == job.kind # "idle"

Given == UNION {parts[i] : i \in DOMAIN parts}

Pending == ToSet(slicer) \cup ToSet(listing)

(* What trunk t has returned and has yet to return of its partition. *)
Returned(t) == out[t] \o trunk[t].left

(* In descending order no row has the key zero beside a row without a key: *)
(* the bytes of the two are the same, and sortObjects takes them for equal. *)
ZeroApart(o, rs) ==
    o = "desc" => \A r, q \in rs : IsNull(r.key) /\ ~IsNull(q.key) => q.key.val # 0

(* The pools whose lists sortObjects puts in order. *)
ZeroIsNotNull == \A p \in Pools : ZeroApart(p.order, RowsOf(p.objs))

(* No row is in two objects. *)
Stored(os) ==
    /\ IsFiniteSet(os) /\ Distinct(RowsOf(os)) /\ ZeroApart(order, RowsOf(os))
    /\ \A a, b \in os : a # b => ToSet(a.rows) \cap ToSet(b.rows) = {}

DataInv ==
    /\ order \in {"asc", "desc"}
    /\ \A obj \in objs : Written(order, obj)
    /\ job.result # "deleted" => Stored(objs)

(* What runs, and on what: a query or a delete on the pool there was at    *)
(* the start, a compaction for the manager.                                *)
JobInv ==
    /\ job \in [kind : Kinds \cup {"idle"}, pred : Predicates, src : {job.src},
                err : BOOLEAN, result : Results]
    /\ Running => job.src \subseteq objs /\ job.result \in {"none", "partial"}
    /\ job.kind \in {"query", "ordered", "delete"} => mgr.pc = "off" /\ job.src = objs
    /\ job.kind \in {"query", "ordered", "delete"} \/ job.result = "ok" => job.pred \in Preds
    /\ job.kind = "compact" =>
         mgr.pc \in {"scan", "send", "last", "wait"} /\ ~mgr.err /\ job.src # {}
    /\ job.result = "deleted" => ~Running /\ mgr.pc = "off"
    /\ mgr.pc = "off" /\ job.result # "deleted" => \E p \in Pools : order = p.order /\ objs = p.objs

(* The list is in the pool's order and, if it is sliced, what is given out *)
(* is before what is not.                                                  *)
InTurn(s) ==
    \A i, j \in DOMAIN s : i < j =>
        s[i] # s[j] /\ ~Before(order, From(order, s[j]), From(order, s[i]))

PrecedesObject(a, b) == Before(order, To(order, a), From(order, b))

ListInv ==
    Running =>
    /\ listing \in Seq(job.src) /\ slicer \in Seq(job.src) /\ parts \in Seq(SUBSET job.src)
    /\ InTurn(listing) /\ Len(slicer) <= 1
    /\ \A a \in ToSet(slicer), b \in ToSet(listing) :
         a # b /\ ~Before(order, From(order, b), From(order, a))
    /\ Pending \cap Given = {}
    /\ ~Sliced => slicer = <<>>
    /\ Sliced =>
         /\ \A i, j \in DOMAIN parts : i < j =>
              \A a \in parts[i], b \in parts[j] : PrecedesObject(a, b)
         /\ \A a \in Given, b \in Pending : PrecedesObject(a, b)

(* A trunk returns rows of what it was given, each once and in order. *)
TrunkInv ==
    /\ trunk \in [Trunks -> [pc : {"pull", "scan", "done"}, left : Seq(Rows)]]
    /\ out \in [Trunks -> Seq(Rows)]
    /\ \A t \in Trunks : trunk[t].pc # "scan" => trunk[t].left = <<>>
    /\ Running =>
         /\ \A t \in Trunks :
              /\ ToSet(Returned(t)) \subseteq {r \in RowsOf(Given) : Keeps(r)}
              /\ IsInjective(Returned(t))
              /\ Sliced => Ordered(order, Returned(t))
         /\ \A t, u \in Trunks : t # u => ToSet(Returned(t)) \cap ToSet(Returned(u)) = {}

(* The writer of a delete sorts buffers of rows of the pool. *)
DeleteInv ==
    job.kind = "delete" =>
    /\ ToSet(writer.vals) \cup ToSet(writer.recs) \subseteq RowsOf(job.src)
    /\ writer.flip => writer.vals # <<>>
    /\ writer.buffer = "busy" => writer.recs # <<>>

(* The writer of a compaction is given sorted rows, by one trunk, and ends *)
(* objects between rows of different keys.                                 *)
CompactInv ==
    job.kind = "compact" =>
    /\ ~writer.flip /\ ~writer.closing /\ writer.buffer = "free" /\ writer.recs = <<>>
    /\ \A t \in Trunks \ {TheTrunk} : trunk[t].pc = "done" /\ out[t] = <<>>
    /\ ToSet(out[TheTrunk]) = ToSet(writer.vals) \cup RowsOf(ToSet(writer.objects))
    /\ out[TheTrunk] # <<>> => writer.vals # <<>>
    /\ Ordered(order, writer.vals)
    /\ \A i, j \in DOMAIN writer.objects : i < j =>
         PrecedesObject(writer.objects[i], writer.objects[j])
    /\ \A obj \in ToSet(writer.objects), r \in ToSet(writer.vals) :
         Before(order, To(order, obj), r.key)
    /\ ~job.err /\ out[TheTrunk] = <<>> =>
         \/ trunk[TheTrunk].left # <<>>
         \/ trunk[TheTrunk].pc = "pull" /\ Pending # {}

WriterInv ==
    /\ writer \in [vals : Seq(Rows), flip : BOOLEAN, closing : BOOLEAN,
                   buffer : {"free", "busy", "closed"}, recs : Seq(Rows),
                   objects : Seq(ToSet(writer.objects))]
    /\ job.kind \notin {"delete", "compact"} => writer = NewWriter
    /\ \A obj \in ToSet(writer.objects) : Written(order, obj)
    /\ DeleteInv /\ CompactInv

(* Where the manager has an object of the branch: in the run it builds, in *)
(* the list it has yet to scan, or in the run that is compacted.  The rest *)
(* is settled.                                                             *)
InRun   == IF mgr.pc \in {"scan", "send", "last"} THEN ToSet(mgr.run) ELSE {}
ToDo    == IF mgr.pc \in {"scan", "send"} THEN ToSet(mgr.todo) ELSE {}
Moving  == IF job.kind = "compact" THEN job.src ELSE {}
Settled == objs \ (InRun \cup ToDo \cup Moving)

RangeBelow(a, b) == Less(a.max, b.min)

(* Settled objects overlap nothing: all that is still to come is above     *)
(* them and above the run that is compacted, and each of them is below the *)
(* whole of that run or above it.                                          *)
Separated(settled, moving, coming) ==
    /\ \A a, b \in settled : a # b => ~Overlap(a, b)
    /\ \A a \in settled \cup moving, b \in coming : RangeBelow(a, b)
    /\ \A a \in settled :
         \/ \A b \in moving : RangeBelow(a, b)
         \/ \A b \in moving : RangeBelow(b, a)

SettledInv ==
    mgr.pc # "off" /\ ~mgr.err /\ ~mgr.cut =>
        Separated(Settled, Moving, InRun \cup ToDo)

(* mgr.max bounds the run from above and mgr.min is its least key. *)
Spans(run, min, max) ==
    run # {} =>
    /\ min \in Keys /\ max \in Keys
    /\ \A obj \in run : ~Less(max, obj.max)
    /\ \E obj \in run : min = obj.min

RunInv ==
    /\ mgr.pc \in {"scan", "send"} =>
         /\ \A i, j \in DOMAIN mgr.todo : i < j => ~Less(mgr.todo[j].min, mgr.todo[i].min)
         /\ \A i, j \in DOMAIN mgr.todo : i # j => mgr.todo[i] # mgr.todo[j]
         /\ \A a \in InRun, b \in ToDo : ~Less(b.min, a.min)
    /\ Spans(InRun, mgr.min, mgr.max)
    /\ mgr.pc \in {"send", "last"} => mgr.run # <<>>
    /\ mgr.pc = "send" =>
         mgr.todo # <<>> /\ \A a \in InRun, b \in ToDo : RangeBelow(a, b)

MgrRecord(m) ==
    m \in [pc : {"off", "scan", "send", "last", "wait", "done"},
           todo : Seq(ToSet(m.todo)), run : Seq(ToSet(m.run)),
           min : {m.min}, max : {m.max}, cut : BOOLEAN, err : BOOLEAN]

MgrInv ==
    /\ MgrRecord(mgr)
    /\ mgr.pc \in {"off", "scan", "send"} => ~mgr.cut
    /\ mgr.pc = "off" => ~mgr.err
    /\ InRun \subseteq objs /\ ToDo \subseteq objs
    /\ InRun \cap ToDo = {} /\ (InRun \cup ToDo) \cap Moving = {}
    /\ RunInv /\ SettledInv

LakeInv == DataInv /\ JobInv /\ ListInv /\ TrunkInv /\ WriterInv /\ MgrInv

----------------------------------------------------------------------------
(* What the Lister and the Slicer give. *)

LEMMA ApartInTurn ==
  ASSUME order \in {"asc", "desc"}, NEW a, NEW b, Written(order, a), Written(order, b),
         ~Before(order, From(order, b), From(order, a)),
         Less(b.max, a.min) \/ Less(a.max, b.min)
  PROVE PrecedesObject(a, b)
<1>1. /\ a.min \in Keys /\ a.max \in Keys /\ b.min \in Keys /\ b.max \in Keys
      /\ ~Less(a.max, a.min) /\ ~Less(b.max, b.min)
  BY WrittenFacts, WrittenOrder
<1>2. CASE order = "asc"
  <2>1. ~Less(b.min, a.min)
    BY <1>2 DEF Before, From
  <2>2. ~Less(b.max, a.min)
    BY <1>1, <2>1, LessIsOrder
  <2> QED
    BY <1>2, <2>2 DEF PrecedesObject, Before, From, To
<1>3. CASE order = "desc"
  <2>1. ~Less(a.max, b.max)
    BY <1>3 DEF Before, From
  <2>2. ~Less(a.max, b.min)
    BY <1>1, <2>1, LessIsOrder
  <2> QED
    BY <1>3, <2>2 DEF PrecedesObject, Before, From, To
<1> QED
  BY <1>2, <1>3

LEMMA PrecedesInTurn ==
  ASSUME order \in {"asc", "desc"}, NEW a, NEW b, NEW c,
         Written(order, a), Written(order, b), Written(order, c),
         PrecedesObject(a, b), ~Before(order, From(order, c), From(order, b))
  PROVE PrecedesObject(a, c)
<1>1. To(order, a) \in Keys /\ From(order, b) \in Keys /\ From(order, c) \in Keys
  BY WrittenOrder
<1> QED
  BY <1>1, BeforeIsOrder DEF PrecedesObject

(* The list without what the pruner drops is in order too, and so it is    *)
(* behind the object the Slicer has kept.                                  *)
LEMMA LiveFacts ==
  ASSUME LakeInv, Running, NEW live, live = slicer \o Unpruned
  PROVE /\ live \in Seq(job.src) /\ InTurn(live)
        /\ ToSet(live) = ToSet(slicer) \cup {obj \in ToSet(listing) : ~Pruned(obj)}
        /\ Unpruned \in Seq(job.src) /\ InTurn(Unpruned)
        /\ ToSet(Unpruned) = {obj \in ToSet(listing) : ~Pruned(obj)}
<1> DEFINE S == {obj \in ToSet(listing) : ~Pruned(obj)}
           u == Unpruned
<1>1. /\ listing \in Seq(job.src) /\ slicer \in Seq(job.src) /\ InTurn(listing) /\ Len(slicer) <= 1
      /\ \A a \in ToSet(slicer), b \in ToSet(listing) :
           a # b /\ ~Before(order, From(order, b), From(order, a))
  BY DEF LakeInv, ListInv
<1>2. u \in Seq(job.src) /\ IsPick(u, listing, S)
  BY <1>1, PickedEmbeds DEF Unpruned
<1>3. ToSet(u) = S
  <2>1. ToSet(Picked(listing, S)) = ToSet(listing) \cap S
    BY <1>1, PickedParts
  <2>2. u = Picked(listing, S)
    BY DEF Unpruned
  <2>3. S \subseteq ToSet(listing)
    OBVIOUS
  <2> HIDE DEF u, S
  <2> QED
    BY <2>1, <2>2, <2>3
<1> HIDE DEF u, S
<1>4. PICK f : Embeds(f, u, listing, {k \in DOMAIN listing : listing[k] \in S})
  BY <1>2 DEF IsPick
<1>5. InTurn(u)
  BY <1>1, <1>4 DEF InTurn, Embeds
<1>6. live \in Seq(job.src) /\ ToSet(live) = ToSet(slicer) \cup ToSet(u)
  BY <1>1, <1>2, ConcatSets DEF u
<1>7. InTurn(live)
  <2> DEFINE m == Len(slicer)
  <2>1. /\ \A i \in 1 .. m : live[i] = slicer[i]
        /\ \A i \in 1 .. Len(u) : live[m + i] = u[i]
        /\ \A i \in DOMAIN live : i \in 1 .. m \/ \E j \in 1 .. Len(u) : i = m + j
    BY <1>1, <1>2, ConcatParts DEF u
  <2>2. m \in Nat /\ m <= 1 /\ DOMAIN slicer = 1 .. m /\ DOMAIN u = 1 .. Len(u) /\ Len(u) \in Nat
    BY <1>1, <1>2
  <2> HIDE DEF m
  <2> SUFFICES ASSUME NEW i \in DOMAIN live, NEW j \in DOMAIN live, i < j
               PROVE live[i] # live[j] /\ ~Before(order, From(order, live[j]), From(order, live[i]))
    BY DEF InTurn
  <2>3. PICK l \in 1 .. Len(u) : j = m + l
    <3>1. j \notin 1 .. m
      <4>1. i >= 1
        BY <2>1, <2>2
      <4> QED
        BY <2>2, <4>1
    <3> QED
      BY <2>1, <3>1
  <2>4. live[j] = u[l] /\ l \in DOMAIN u
    BY <2>1, <2>2, <2>3
  <2>5. CASE i \in 1 .. m
    <3>1. live[i] \in ToSet(slicer)
      BY <2>1, <2>2, <2>5 DEF ToSet
    <3>2. u[l] \in ToSet(u)
      BY <2>4 DEF ToSet
    <3>3. u[l] \in ToSet(listing)
      BY <1>3, <3>2 DEF S
    <3> QED
      BY <1>1, <2>4, <3>1, <3>3
  <2>6. CASE \E k \in 1 .. Len(u) : i = m + k
    <3>1. PICK k \in 1 .. Len(u) : i = m + k
      BY <2>6
    <3>2. k < l /\ k \in DOMAIN u /\ live[i] = u[k]
      BY <2>1, <2>2, <2>3, <3>1
    <3> QED
      BY <1>5, <2>4, <3>2 DEF InTurn
  <2> QED
    BY <2>1, <2>5, <2>6
<1> QED
  BY <1>2, <1>3, <1>5, <1>6, <1>7 DEF u, S

(* A cut of a sequence in turn. *)
LEMMA CutInTurn ==
  ASSUME NEW T, NEW s \in Seq(T), NEW n \in 0 .. Len(s), NEW a, NEW b, NEW c,
         IsCut(T, s, n, a, b, c), InTurn(s)
  PROVE /\ InTurn(c)
        /\ \A x \in ToSet(b), y \in ToSet(c) : x # y /\ ~Before(order, From(order, y), From(order, x))
        /\ ToSet(a) \cap (ToSet(b) \cup ToSet(c)) = {}
        /\ IsInjective(a)
<1>1. /\ \A i \in DOMAIN a : i \in DOMAIN s /\ i <= n /\ a[i] = s[i]
      /\ \A i \in DOMAIN b : n + 1 \in DOMAIN s /\ b[i] = s[n + 1]
      /\ \A i \in DOMAIN c : n + 1 + i \in DOMAIN s /\ c[i] = s[n + 1 + i]
      /\ a \in Seq(T) /\ b \in Seq(T) /\ c \in Seq(T)
  <2>1. a \in Seq(T)
    BY DEF IsCut
  <2> QED
    BY <2>1, CutInThree
<1>2. n \in Nat
  OBVIOUS
<1>3. DOMAIN c = 1 .. Len(c) /\ Len(c) \in Nat /\ DOMAIN a \subseteq Nat
  BY <1>1
<1>4. InTurn(c)
  <2> SUFFICES ASSUME NEW i \in DOMAIN c, NEW j \in DOMAIN c, i < j
               PROVE c[i] # c[j] /\ ~Before(order, From(order, c[j]), From(order, c[i]))
    BY DEF InTurn
  <2>1. n + 1 + i < n + 1 + j
    BY <1>2, <1>3
  <2> QED
    BY <1>1, <2>1 DEF InTurn
<1>5. ASSUME NEW x \in ToSet(b), NEW y \in ToSet(c)
      PROVE x # y /\ ~Before(order, From(order, y), From(order, x))
  <2>1. PICK j \in DOMAIN c : y = c[j]
    BY DEF ToSet
  <2>2. x = s[n + 1] /\ n + 1 \in DOMAIN s
    BY <1>1 DEF ToSet
  <2>3. n + 1 < n + 1 + j
    BY <1>2, <1>3
  <2> QED
    BY <1>1, <2>1, <2>2, <2>3 DEF InTurn
<1>6. ToSet(a) \cap (ToSet(b) \cup ToSet(c)) = {}
  <2> SUFFICES ASSUME NEW i \in DOMAIN a, a[i] \in ToSet(b) \cup ToSet(c) PROVE FALSE
    BY DEF ToSet
  <2>1. PICK j \in DOMAIN s : j > n /\ a[i] = s[j]
    <3>1. CASE a[i] \in ToSet(b)
      BY <1>1, <1>2, <3>1 DEF ToSet
    <3>2. CASE a[i] \in ToSet(c)
      <4>1. PICK k \in DOMAIN c : a[i] = c[k]
        BY <3>2 DEF ToSet
      <4>2. n + 1 + k > n
        BY <1>2, <1>3
      <4> QED
        BY <1>1, <4>1, <4>2
    <3> QED
      BY <3>1, <3>2
  <2>2. i < j /\ i \in DOMAIN s /\ a[i] = s[i]
    BY <1>1, <1>2, <1>3, <2>1
  <2> QED
    BY <2>1, <2>2 DEF InTurn
<1>7. IsInjective(a)
  <2> SUFFICES ASSUME NEW i \in DOMAIN a, NEW j \in DOMAIN a, a[i] = a[j], i # j PROVE FALSE
    BY DEF IsInjective
  <2>1. i < j \/ j < i
    BY <1>3
  <2> QED
    BY <1>1, <2>1 DEF InTurn
<1> QED
  BY <1>4, <1>5, <1>6, <1>7

(* What is left of the list and the Slicer after a trunk has pulled. *)
LeftOf(next) == ToSet(next.slicer) \cup ToSet(next.rest)

(* What the trunks' parent may be relied on for. *)
Pulled(next) ==
    /\ next.part \in Seq(job.src) /\ next.slicer \in Seq(job.src) /\ next.rest \in Seq(job.src)
    /\ InTurn(next.rest) /\ Len(next.slicer) <= 1
    /\ \A x \in ToSet(next.slicer), y \in ToSet(next.rest) :
         x # y /\ ~Before(order, From(order, y), From(order, x))
    /\ IsInjective(next.part) /\ ToSet(next.part) \cap LeftOf(next) = {}
    /\ ToSet(next.part) \cup LeftOf(next) \subseteq Pending
    /\ Pending \subseteq ToSet(next.part) \cup LeftOf(next) \cup {obj \in job.src : Pruned(obj)}
    /\ next.part = <<>> => LeftOf(next) = {}
    /\ ~Sliced => next.slicer = <<>> /\ Len(next.part) <= 1
    /\ Sliced => \A a \in ToSet(next.part), b \in LeftOf(next) : PrecedesObject(a, b)

LEMMA PartitionPulled ==
  ASSUME LakeInv, Running, Sliced, NEW next, next = NextPartition
  PROVE Pulled(next)
<1> DEFINE live == slicer \o Unpruned
           ends == {i \in 2 .. Len(live) : Apart(live, i)}
           n == IF ends = {} THEN Len(live) ELSE Min(ends) - 1
           a == next.part
           b == next.slicer
           c == next.rest
           T == job.src
<1>1. /\ live \in Seq(T) /\ InTurn(live)
      /\ ToSet(live) = ToSet(slicer) \cup {obj \in ToSet(listing) : ~Pruned(obj)}
  BY LiveFacts
<1>2. ToSet(live) \subseteq Pending
  BY <1>1 DEF Pending
<1>3. Pending \subseteq ToSet(live) \cup {obj \in T : Pruned(obj)}
  <2>1. ToSet(listing) \subseteq T
    BY SelfSeq DEF LakeInv, ListInv
  <2> QED
    BY <1>1, <2>1 DEF Pending
<1>4. a = SubSeq(live, 1, n) /\ b = SubSeq(live, n + 1, Min({n + 1, Len(live)}))
      /\ c = SubSeq(live, n + 2, Len(live))
  BY DEF NextPartition
<1> HIDE DEF live
<1>5. Len(live) \in Nat /\ DOMAIN live = 1 .. Len(live)
  BY <1>1
<1>6. /\ n \in 0 .. Len(live) /\ (n = 0 => live = <<>>)
      /\ n < Len(live) => n + 1 \in 2 .. Len(live) /\ Apart(live, n + 1)
  <2>1. CASE ends = {}
    BY <1>1, <1>5, <2>1
  <2>2. CASE ends # {}
    <3>1. ends \in SUBSET Nat
      OBVIOUS
    <3> HIDE DEF ends
    <3>2. Min(ends) \in ends
      BY <2>2, <3>1, MinInSet
    <3>3. Min(ends) \in 2 .. Len(live) /\ Apart(live, Min(ends)) /\ n = Min(ends) - 1
      BY <2>2, <3>2 DEF ends
    <3>4. n + 1 = Min(ends) /\ n \in 0 .. Len(live) /\ n # 0
      BY <1>5, <3>3
    <3> QED
      BY <3>3, <3>4
  <2> QED
    BY <2>1, <2>2
<1> HIDE DEF n, ends
<1>7. IsCut(T, live, n, a, b, c)
  BY <1>1, <1>4, <1>6, CutPieces
<1> HIDE DEF a, b, c
<1>8. a \in Seq(T) /\ Len(a) = n
  BY <1>7 DEF IsCut
<1>9. /\ b \in Seq(T) /\ c \in Seq(T) /\ Len(b) <= 1
      /\ \A i \in DOMAIN a : i \in DOMAIN live /\ i <= n /\ a[i] = live[i]
      /\ \A i \in DOMAIN b : n + 1 \in DOMAIN live /\ b[i] = live[n + 1]
      /\ \A i \in DOMAIN c : n + 1 + i \in DOMAIN live /\ c[i] = live[n + 1 + i]
      /\ ToSet(live) = ToSet(a) \cup ToSet(b) \cup ToSet(c)
  BY <1>1, <1>6, <1>7, <1>8, CutInThree
<1>10. /\ InTurn(c)
       /\ \A x \in ToSet(b), y \in ToSet(c) : x # y /\ ~Before(order, From(order, y), From(order, x))
       /\ ToSet(a) \cap (ToSet(b) \cup ToSet(c)) = {}
       /\ IsInjective(a)
  BY <1>1, <1>6, <1>7, CutInTurn
<1>11. a = <<>> => ToSet(b) \cup ToSet(c) = {}
  <2> SUFFICES ASSUME a = <<>> PROVE ToSet(b) \cup ToSet(c) = {}
    OBVIOUS
  <2>1. n = 0
    BY <1>8
  <2>2. b = <<>> /\ c = <<>>
    BY <1>6, <1>7, <2>1 DEF IsCut
  <2> QED
    BY <2>2 DEF ToSet
<1>12. ASSUME NEW x \in ToSet(a), NEW y \in ToSet(b) \cup ToSet(c) PROVE PrecedesObject(x, y)
  <2>0. order \in {"asc", "desc"} /\ \A obj \in T : Written(order, obj)
    BY DEF LakeInv, DataInv, JobInv
  <2>1. PICK k \in DOMAIN a : x = a[k]
    BY DEF ToSet
  <2>2. k \in DOMAIN live /\ k <= n /\ x = live[k] /\ k \in Nat
    BY <1>5, <1>9, <2>1
  <2>3. n < Len(live)
    <3>1. y \in ToSet(live) /\ y \notin ToSet(a)
      BY <1>9, <1>10
    <3>2. n = Len(live) => b = <<>> /\ c = <<>>
      BY <1>7 DEF IsCut
    <3>3. n # Len(live)
      BY <3>2 DEF ToSet
    <3> QED
      <4> DEFINE l == Len(live)
      <4>1. l \in Nat /\ n \in 0 .. l /\ n # l
        BY <1>5, <1>6, <3>3
      <4> HIDE DEF l
      <4>2. n < l
        BY <4>1
      <4> QED
        BY <4>2 DEF l
  <2> DEFINE m == live[n + 1]
  <2>4. n + 1 \in DOMAIN live /\ Apart(live, n + 1)
    BY <1>5, <1>6, <2>3
  <2>5. m \in T /\ x \in T /\ y \in T
    BY <1>1, <1>9, <2>2, <2>4, SelfSeq
  <2>6. Less(m.max, x.min) \/ Less(x.max, m.min)
    <3>1. k \in 1 .. (n + 1) - 1
      BY <1>5, <1>6, <2>2
    <3> QED
      BY <2>2, <2>4, <3>1 DEF Apart
  <2>7. ~Before(order, From(order, m), From(order, x))
    <3>1. k < n + 1
      BY <1>6, <2>2
    <3> QED
      BY <1>1, <2>2, <2>4, <3>1 DEF InTurn
  <2> HIDE DEF m
  <2>8. PrecedesObject(x, m)
    BY <2>0, <2>5, <2>6, <2>7, ApartInTurn
  <2>9. CASE y \in ToSet(b)
    <3>1. y = m
      BY <1>9, <2>9 DEF ToSet, m
    <3> QED
      BY <2>8, <3>1
  <2>10. CASE y \in ToSet(c)
    <3>1. PICK j \in DOMAIN c : y = c[j]
      BY <2>10 DEF ToSet
    <3>2. n + 1 + j \in DOMAIN live /\ y = live[n + 1 + j]
      BY <1>9, <3>1
    <3>3. n + 1 < n + 1 + j
      <4>1. j \in Nat /\ j >= 1 /\ n \in Nat
        BY <1>6, <1>9, <3>1
      <4> QED
        BY <4>1
    <3>4. ~Before(order, From(order, y), From(order, m))
      BY <1>1, <2>4, <3>2, <3>3 DEF InTurn, m
    <3> QED
      BY <2>0, <2>5, <2>8, <3>4, PrecedesInTurn
  <2> QED
    BY <2>9, <2>10
<1>13. ToSet(b) \cup ToSet(c) = LeftOf(next)
  BY DEF b, c, LeftOf
<1>14. /\ ToSet(a) \cup LeftOf(next) \subseteq Pending
       /\ Pending \subseteq ToSet(a) \cup LeftOf(next) \cup {obj \in T : Pruned(obj)}
  BY <1>2, <1>3, <1>9, <1>13
<1>15. Pulled(next)
  <2>1. /\ next.part \in Seq(job.src) /\ next.slicer \in Seq(job.src) /\ next.rest \in Seq(job.src)
        /\ Len(next.slicer) <= 1
    BY <1>8, <1>9 DEF a, b, c
  <2>2. /\ InTurn(next.rest)
        /\ \A x \in ToSet(next.slicer), y \in ToSet(next.rest) :
             x # y /\ ~Before(order, From(order, y), From(order, x))
        /\ IsInjective(next.part)
    BY <1>10 DEF a, b, c
  <2>3. /\ ToSet(next.part) \cap LeftOf(next) = {}
        /\ next.part = <<>> => LeftOf(next) = {}
    BY <1>10, <1>11, <1>13 DEF a
  <2>4. \A x \in ToSet(next.part), y \in LeftOf(next) : PrecedesObject(x, y)
    BY <1>12, <1>13 DEF a
  <2>5. /\ ToSet(next.part) \cup LeftOf(next) \subseteq Pending
        /\ Pending \subseteq ToSet(next.part) \cup LeftOf(next) \cup {obj \in job.src : Pruned(obj)}
    BY <1>14 DEF a
  <2> QED
    BY <2>1, <2>2, <2>3, <2>4, <2>5 DEF Pulled
<1> QED
  BY <1>15

LEMMA OneSeq ==
  ASSUME NEW T, NEW e \in T
  PROVE <<e>> \in Seq(T) /\ Len(<<e>>) = 1 /\ <<e>> # <<>> /\ ToSet(<<e>>) = {e}
<1>1. <<e>> \in Seq(T) /\ Len(<<e>>) = 1 /\ <<e>> # <<>>
  OBVIOUS
<1>2. DOMAIN <<e>> = {1} /\ <<e>>[1] = e
  OBVIOUS
<1> QED
  BY <1>1, <1>2 DEF ToSet

LEMMA DropFirst ==
  ASSUME NEW T, NEW s \in Seq(T), s # <<>>
  PROVE /\ SubSeq(s, 2, Len(s)) \in Seq(T) /\ Len(SubSeq(s, 2, Len(s))) = Len(s) - 1
        /\ \A i \in 1 .. Len(s) - 1 : SubSeq(s, 2, Len(s))[i] = s[1 + i]
<1> DEFINE l == Len(s) - 1
           m == 1
<1>1. l \in Nat /\ m \in Nat /\ m + 1 = 2 /\ m + l = Len(s) /\ m = 1 /\ m + l <= Len(s)
  OBVIOUS
<1> HIDE DEF l, m
<1>2. /\ SubSeq(s, m + 1, m + l) \in Seq(T) /\ Len(SubSeq(s, m + 1, m + l)) = l
      /\ \A i \in 1 .. l : SubSeq(s, m + 1, m + l)[i] = s[m + i]
  BY <1>1, SubSeqInBounds
<1>3. SubSeq(s, 2, Len(s)) = SubSeq(s, m + 1, m + l)
  BY <1>1
<1>4. /\ SubSeq(s, 2, Len(s)) \in Seq(T) /\ Len(SubSeq(s, 2, Len(s))) = l
      /\ \A i \in 1 .. l : SubSeq(s, 2, Len(s))[i] = s[m + i]
  BY <1>2, <1>3
<1> QED
  BY <1>1, <1>4 DEF l

LEMMA ObjectPulled ==
  ASSUME LakeInv, Running, ~Sliced, NEW next, next = NextObject
  PROVE Pulled(next)
<1> DEFINE u == Unpruned
           T == job.src
<1>1. u \in Seq(T) /\ InTurn(u) /\ ToSet(u) = {obj \in ToSet(listing) : ~Pruned(obj)}
  BY LiveFacts
<1>2. ToSet(listing) \subseteq T /\ slicer = <<>>
  BY SelfSeq DEF LakeInv, ListInv
<1>3. /\ next.slicer = <<>>
      /\ u = <<>> => next.part = <<>> /\ next.rest = <<>>
      /\ u # <<>> => next.part = <<u[1]>> /\ next.rest = SubSeq(u, 2, Len(u))
  BY <1>2 DEF NextObject
<1> HIDE DEF u
<1>4. ToSet(<<>>) = {} /\ <<>> \in Seq(T) /\ Len(<<>>) = 0
  BY DEF ToSet
<1>5. Pending = ToSet(listing)
  BY <1>2, <1>4 DEF Pending
<1>6. /\ next.part \in Seq(T) /\ next.rest \in Seq(T) /\ Len(next.part) <= 1
      /\ ToSet(u) = ToSet(next.part) \cup ToSet(next.rest)
      /\ ToSet(next.part) \cap ToSet(next.rest) = {}
      /\ InTurn(next.rest) /\ (next.part = <<>> => next.rest = <<>>)
  <2>1. CASE u = <<>>
    <3>1. next.part = <<>> /\ next.rest = <<>>
      BY <1>3, <2>1
    <3>2. InTurn(<<>>)
      BY DEF InTurn
    <3> QED
      BY <1>4, <2>1, <3>1, <3>2
  <2>2. CASE u # <<>>
    <3>1. Len(u) \in Nat /\ Len(u) >= 1 /\ DOMAIN u = 1 .. Len(u) /\ u[1] \in T
      BY <1>1, <2>2
    <3> DEFINE p == next.part
               s == next.rest
               l == Len(u) - 1
    <3>2. p = <<u[1]>> /\ s = SubSeq(u, 2, Len(u))
      BY <1>3, <2>2
    <3>3. p \in Seq(T) /\ Len(p) = 1 /\ p # <<>> /\ ToSet(p) = {u[1]}
      <4>1. <<u[1]>> \in Seq(T) /\ Len(<<u[1]>>) = 1 /\ <<u[1]>> # <<>> /\ ToSet(<<u[1]>>) = {u[1]}
        BY <3>1, OneSeq
      <4> HIDE DEF p
      <4> QED
        BY <3>2, <4>1
    <3>4. l \in Nat /\ 1 + l = Len(u)
      BY <3>1
    <3>5. /\ SubSeq(u, 2, Len(u)) \in Seq(T) /\ Len(SubSeq(u, 2, Len(u))) = l
          /\ \A i \in 1 .. l : SubSeq(u, 2, Len(u))[i] = u[1 + i]
      BY <1>1, <2>2, DropFirst
    <3> HIDE DEF l
    <3>6. s \in Seq(T) /\ Len(s) = l /\ \A i \in 1 .. l : s[i] = u[1 + i]
      BY <3>2, <3>5
    <3> HIDE DEF p, s
    <3>7. DOMAIN s = 1 .. l
      BY <3>6
    <3>8. \A i \in DOMAIN s : 1 + i \in DOMAIN u /\ s[i] = u[1 + i] /\ 1 < 1 + i /\ i \in Nat
      BY <3>1, <3>4, <3>6, <3>7
    <3>9. InTurn(s)
      <4> SUFFICES ASSUME NEW i \in DOMAIN s, NEW j \in DOMAIN s, i < j
                   PROVE s[i] # s[j] /\ ~Before(order, From(order, s[j]), From(order, s[i]))
        BY DEF InTurn
      <4>1. 1 + i < 1 + j
        BY <3>8
      <4> QED
        BY <1>1, <3>8, <4>1 DEF InTurn
    <3>10. {u[1]} \cap ToSet(s) = {}
      <4> SUFFICES ASSUME NEW i \in DOMAIN s PROVE s[i] # u[1]
        BY DEF ToSet
      <4>1. 1 \in DOMAIN u
        BY <3>1
      <4> QED
        BY <1>1, <3>8, <4>1 DEF InTurn
    <3>11. ToSet(u) \subseteq {u[1]} \cup ToSet(s)
      <4> SUFFICES ASSUME NEW i \in DOMAIN u, i # 1 PROVE u[i] \in ToSet(s)
        BY DEF ToSet
      <4>1. i - 1 \in DOMAIN s /\ 1 + (i - 1) = i
        BY <3>1, <3>4, <3>7
      <4>2. s[i - 1] = u[i]
        BY <3>8, <4>1
      <4> QED
        BY <4>1, <4>2 DEF ToSet
    <3>12. {u[1]} \cup ToSet(s) \subseteq ToSet(u)
      BY <3>1, <3>8 DEF ToSet
    <3> QED
      BY <3>3, <3>6, <3>9, <3>10, <3>11, <3>12 DEF p, s
  <2> QED
    BY <2>1, <2>2
<1>7. LeftOf(next) = ToSet(next.rest)
  BY <1>3, <1>4 DEF LeftOf
<1>8. IsInjective(next.part)
  BY <1>6 DEF IsInjective
<1>9. /\ ToSet(next.part) \cup LeftOf(next) \subseteq Pending
      /\ Pending \subseteq ToSet(next.part) \cup LeftOf(next) \cup {obj \in T : Pruned(obj)}
  BY <1>1, <1>2, <1>5, <1>6, <1>7
<1>10. next.slicer \in Seq(T) /\ ToSet(next.slicer) = {} /\ Len(next.slicer) <= 1
  BY <1>3, <1>4
<1>11. next.part = <<>> => LeftOf(next) = {}
  BY <1>4, <1>6, <1>7
<1> QED
  BY <1>3, <1>6, <1>7, <1>8, <1>9, <1>10, <1>11 DEF Pulled

LEMMA ParentPulled ==
  ASSUME LakeInv, Running
  PROVE Pulled(PullParent)
<1>1. CASE Sliced
  BY <1>1, PartitionPulled DEF PullParent
<1>2. CASE ~Sliced
  BY <1>2, ObjectPulled DEF PullParent
<1> QED
  BY <1>1, <1>2

----------------------------------------------------------------------------
(* The list keeps its order. *)

LEMMA Enumerated ==
  ASSUME NEW S, IsFiniteSet(S), NEW s \in SetToSeqs(S)
  PROVE s \in Seq(S) /\ ToSet(s) = S /\ \A i, j \in DOMAIN s : i # j => s[i] # s[j]
<1> DEFINE n == Cardinality(S)
<1>1. n \in Nat
  BY FS_CardinalityType
<1>2. s \in [1 .. n -> S] /\ \A i, j \in 1 .. n : i # j => s[i] # s[j]
  BY DEF SetToSeqs
<1> HIDE DEF n
<1>3. DOMAIN s = 1 .. n /\ s \in Seq(S)
  BY <1>1, <1>2
<1>4. s \in Injection(1 .. n, S)
  BY <1>2 DEF Injection, IsInjective
<1>5. IsFiniteSet(1 .. n) /\ Cardinality(1 .. n) = n
  BY <1>1, FS_Interval
<1>6. s \in Surjection(1 .. n, S)
  BY <1>4, <1>5, FS_Injection DEF n
<1>7. ToSet(s) = S
  BY <1>2, <1>3, <1>6 DEF ToSet, Surjection
<1> QED
  BY <1>2, <1>3, <1>7

----------------------------------------------------------------------------
(* Sorting the list. *)

(* Where insertion puts an element: after the last one that it is not      *)
(* before.                                                                 *)
LEMMA MaxIsGreatest ==
  ASSUME NEW n \in Nat, NEW s \in SUBSET (1 .. n)
  PROVE Max({0} \cup s) \in {0} \cup s /\ \A y \in s : y <= Max({0} \cup s)
<1> DEFINE Q(m) == \A t \in SUBSET (1 .. m) : \E x \in {0} \cup t : \A y \in {0} \cup t : x >= y
           P == {m \in Nat : Q(m)}
<1>1. 0 \in P
  <2>1. 1 .. 0 = {}
    OBVIOUS
  <2> QED
    BY <2>1
<1>2. ASSUME NEW m \in Nat, m \in P PROVE m + 1 \in P
  <2> SUFFICES ASSUME NEW t \in SUBSET (1 .. m + 1)
               PROVE \E x \in {0} \cup t : \A y \in {0} \cup t : x >= y
    OBVIOUS
  <2>1. CASE m + 1 \in t
    <3>1. \A y \in {0} \cup t : m + 1 >= y
      OBVIOUS
    <3> QED
      BY <2>1, <3>1
  <2>2. CASE m + 1 \notin t
    <3>1. t \in SUBSET (1 .. m)
      BY <2>2
    <3> QED
      BY <1>2, <3>1
  <2> QED
    BY <2>1, <2>2
<1> HIDE DEF P
<1>3. n \in P
  BY <1>1, <1>2, NatSetInduction
<1>4. \E x \in {0} \cup s : \A y \in {0} \cup s : x >= y
  BY <1>3 DEF P
<1>5. Max({0} \cup s) \in {0} \cup s /\ \A y \in {0} \cup s : Max({0} \cup s) >= y
  BY <1>4 DEF Max
<1> QED
  BY <1>5

IsInsertion(o, s, x, q) ==
    /\ Len(q) = Len(s) + 1
    /\ \E p \in 0 .. Len(s) :
         /\ p # 0 => ~ObjectBefore(o, x, s[p])
         /\ \A i \in p + 1 .. Len(s) : ObjectBefore(o, x, s[i])
         /\ \A i \in 1 .. Len(s) + 1 :
              q[i] = IF i <= p THEN s[i] ELSE IF i = p + 1 THEN x ELSE s[i - 1]

LEMMA InsertedAt ==
  ASSUME NEW o, NEW T, NEW s \in Seq(T), NEW x \in T
  PROVE Inserted(o, s, x) \in Seq(T) /\ IsInsertion(o, s, x, Inserted(o, s, x))
<1> DEFINE stays == {i \in 1 .. Len(s) : ~ObjectBefore(o, x, s[i])}
           p == Max({0} \cup stays)
<1>1. p \in {0} \cup stays /\ \A y \in stays : y <= p
  <2>1. Len(s) \in Nat /\ stays \in SUBSET (1 .. Len(s))
    OBVIOUS
  <2> HIDE DEF stays
  <2> QED
    BY <2>1, MaxIsGreatest
<1>2. Inserted(o, s, x) = SubSeq(s, 1, (1 + p) - 1) \o <<x>> \o SubSeq(s, 1 + p, Len(s))
  BY DEF Inserted, InsertAt
<1>3. p \in 0 .. Len(s) /\ (p # 0 => ~ObjectBefore(o, x, s[p]))
  BY <1>1
<1>4. \A i \in p + 1 .. Len(s) : ObjectBefore(o, x, s[i])
  BY <1>1, <1>3
<1> HIDE DEF stays, p
<1>5. (1 + p) - 1 = p /\ 1 + p = p + 1
  BY <1>3
<1> DEFINE a == SubSeq(s, 1, p)
           b == SubSeq(s, p + 1, Len(s))
<1>6. /\ a \in Seq(T) /\ Len(a) = p /\ \A i \in 1 .. p : a[i] = s[i]
      /\ b \in Seq(T) /\ Len(b) = Len(s) - p /\ \A i \in 1 .. Len(s) - p : b[i] = s[p + i]
  BY <1>3
<1>7. Inserted(o, s, x) = a \o <<x>> \o b
  BY <1>2, <1>5
<1> HIDE DEF a, b
<1>8. /\ a \o <<x>> \in Seq(T) /\ Len(a \o <<x>>) = p + 1
      /\ \A i \in 1 .. p : (a \o <<x>>)[i] = s[i]
      /\ (a \o <<x>>)[p + 1] = x
  BY <1>3, <1>6
<1> DEFINE c == a \o <<x>>
<1> HIDE DEF c
<1>9. /\ c \o b \in Seq(T) /\ Len(c \o b) = Len(s) + 1
      /\ \A i \in 1 .. p + 1 : (c \o b)[i] = c[i]
      /\ \A i \in p + 2 .. Len(s) + 1 : (c \o b)[i] = b[i - (p + 1)]
  <2>1. c \in Seq(T) /\ Len(c) = p + 1 /\ b \in Seq(T) /\ Len(b) = Len(s) - p
    BY <1>6, <1>8 DEF c
  <2>2. p \in Nat /\ Len(s) \in Nat /\ p <= Len(s)
    BY <1>3
  <2> QED
    BY <2>1, <2>2
<1>10. \A i \in p + 2 .. Len(s) + 1 : b[i - (p + 1)] = s[i - 1]
  <2> SUFFICES ASSUME NEW i \in p + 2 .. Len(s) + 1 PROVE b[i - (p + 1)] = s[i - 1]
    OBVIOUS
  <2>1. i - (p + 1) \in 1 .. Len(s) - p /\ p + (i - (p + 1)) = i - 1
    BY <1>3
  <2> QED
    BY <1>6, <2>1
<1>11. ASSUME NEW i \in 1 .. Len(s) + 1
       PROVE (c \o b)[i] = IF i <= p THEN s[i] ELSE IF i = p + 1 THEN x ELSE s[i - 1]
  <2>1. CASE i <= p
    BY <1>3, <1>8, <1>9, <2>1 DEF c
  <2>2. CASE i = p + 1
    BY <1>3, <1>8, <1>9, <2>2 DEF c
  <2>3. CASE i > p + 1
    <3>1. i \in p + 2 .. Len(s) + 1 /\ ~(i <= p) /\ i # p + 1
      BY <1>3, <2>3
    <3> QED
      BY <1>9, <1>10, <3>1
  <2>4. i <= p \/ i = p + 1 \/ i > p + 1
    BY <1>3
  <2> QED
    BY <2>1, <2>2, <2>3, <2>4
<1>12. Inserted(o, s, x) = c \o b
  BY <1>7 DEF c
<1> QED
  BY <1>3, <1>4, <1>9, <1>11, <1>12 DEF IsInsertion

(* ObjectBefore agrees with the order of the objects' first keys. *)
Agrees(o, S) ==
    \A a, b \in S : ObjectBefore(o, a, b) => ~Before(o, From(o, b), From(o, a))

FromUp(o, s) ==
    \A i, j \in DOMAIN s : i < j => ~Before(o, From(o, s[j]), From(o, s[i]))

LEMMA InsertedInOrder ==
  ASSUME NEW o, NEW T, Agrees(o, T), \A a \in T : From(o, a) \in Keys,
         NEW s \in Seq(T), NEW x \in T, FromUp(o, s)
  PROVE FromUp(o, Inserted(o, s, x))
<1> DEFINE q == Inserted(o, s, x)
<1>0. q \in Seq(T) /\ IsInsertion(o, s, x, q)
  BY InsertedAt
<1> HIDE DEF q
<1>1. q \in Seq(T) /\ Len(q) = Len(s) + 1
  BY <1>0 DEF IsInsertion
<1>2. PICK p \in 0 .. Len(s) :
        /\ p # 0 => ~ObjectBefore(o, x, s[p])
        /\ \A i \in p + 1 .. Len(s) : ObjectBefore(o, x, s[i])
        /\ \A i \in 1 .. Len(s) + 1 :
             q[i] = IF i <= p THEN s[i] ELSE IF i = p + 1 THEN x ELSE s[i - 1]
  BY <1>0 DEF IsInsertion
<1> SUFFICES ASSUME NEW i \in 1 .. Len(s) + 1, NEW j \in 1 .. Len(s) + 1, i < j
             PROVE ~Before(o, From(o, q[j]), From(o, q[i]))
  BY <1>1 DEF FromUp, q
<1>3. /\ Len(s) \in Nat /\ DOMAIN s = 1 .. Len(s)
      /\ \A k \in 1 .. Len(s) : s[k] \in T /\ From(o, s[k]) \in Keys
      /\ From(o, x) \in Keys
  OBVIOUS
<1>4. \A k \in 1 .. Len(s) : k <= p => ~Before(o, From(o, x), From(o, s[k]))
  <2> SUFFICES ASSUME NEW k \in 1 .. Len(s), k <= p
               PROVE ~Before(o, From(o, x), From(o, s[k]))
    OBVIOUS
  <2>1. p \in 1 .. Len(s) /\ ~Before(o, From(o, x), From(o, s[p]))
    BY <1>2, <1>3 DEF ObjectBefore
  <2>2. ~Before(o, From(o, s[p]), From(o, s[k]))
    <3>1. CASE k = p
      BY <1>3, <2>1, <3>1, BeforeIsOrder
    <3>2. CASE k < p
      BY <1>3, <2>1, <3>2 DEF FromUp
    <3> QED
      BY <1>3, <2>1, <3>1, <3>2
  <2> QED
    BY <1>3, <2>1, <2>2, BeforeIsOrder
<1>5. \A k \in p + 1 .. Len(s) : ~Before(o, From(o, s[k]), From(o, x))
  BY <1>2, <1>3 DEF Agrees
<1>6. CASE j <= p
  BY <1>2, <1>3, <1>6 DEF FromUp
<1>7. CASE j = p + 1
  <2>1. q[j] = x /\ q[i] = s[i] /\ i \in 1 .. Len(s) /\ i <= p
    BY <1>2, <1>3, <1>7
  <2> QED
    BY <1>4, <2>1
<1>8. CASE j > p + 1
  <2>1. q[j] = s[j - 1] /\ j - 1 \in p + 1 .. Len(s)
    BY <1>2, <1>3, <1>8
  <2>2. CASE i <= p
    BY <1>2, <1>3, <2>1, <2>2 DEF FromUp
  <2>3. CASE i = p + 1
    BY <1>2, <1>3, <1>5, <2>1, <2>3
  <2>4. CASE i > p + 1
    <3>1. q[i] = s[i - 1] /\ i - 1 \in 1 .. Len(s) /\ i - 1 < j - 1 /\ j - 1 \in 1 .. Len(s)
      BY <1>2, <1>3, <2>1, <2>4
    <3> QED
      BY <1>3, <2>1, <3>1 DEF FromUp
  <2> QED
    BY <1>2, <1>3, <2>2, <2>3, <2>4
<1> QED
  BY <1>2, <1>3, <1>6, <1>7, <1>8

(* Sorting inserts the objects one after the other. *)
LEMMA SliceStableStages ==
  ASSUME NEW o, NEW T, NEW s \in Seq(T)
  PROVE \E g : /\ g[0] = <<>>
               /\ \A k \in 0 .. Len(s) - 1 : g[k + 1] = Inserted(o, g[k], s[k + 1])
               /\ SliceStable(o, s) = g[Len(s)]
<1> DEFINE n == Len(s)
           D == Seq(T)
           step == [i \in 1 .. n |-> [d \in D |-> Inserted(o, d, s[i])]]
           Eq(f) == f = [u \in SUBSET (DOMAIN s) |->
                          IF u = {} THEN <<>> ELSE Inserted(o, f[u \ {Max(u)}], s[Max(u)])]
<1>1. n \in Nat /\ DOMAIN s = 1 .. n /\ \A i \in 1 .. n : s[i] \in T
  OBVIOUS
<1>2. \A i \in 1 .. n, d \in D : Inserted(o, d, s[i]) \in D
  <2> SUFFICES ASSUME NEW i \in 1 .. n, NEW d \in D PROVE Inserted(o, d, s[i]) \in D
    OBVIOUS
  <2>1. s[i] \in T
    BY <1>1
  <2> HIDE DEF n
  <2> QED
    BY <2>1, InsertedAt
<1>3. \A i \in 1 .. n, d \in D : step[i][d] = Inserted(o, d, s[i])
  OBVIOUS
<1>0. <<>> \in D
  OBVIOUS
<1> HIDE DEF n, step, D
<1>4. PICK f : IsFold(f, D, n, <<>>, step)
  <2>1. \A i \in 1 .. n, d \in D : step[i][d] \in D
    BY <1>2, <1>3
  <2> QED
    BY <1>0, <1>1, <2>1, FoldExists
<1>5. \A u \in SUBSET (1 .. n) : u # {} =>
         step[Max(u)][f[u \ {Max(u)}]] = Inserted(o, f[u \ {Max(u)}], s[Max(u)])
  <2> SUFFICES ASSUME NEW u \in SUBSET (1 .. n), u # {}
               PROVE step[Max(u)][f[u \ {Max(u)}]] = Inserted(o, f[u \ {Max(u)}], s[Max(u)])
    OBVIOUS
  <2>1. Max(u) \in 1 .. n /\ f[u \ {Max(u)}] \in D
    BY <1>1, <1>4, MaxInSet DEF IsFold
  <2> QED
    BY <2>1, <1>3
<1>6. Eq(f)
  BY <1>1, <1>4, <1>5 DEF IsFold
<1> DEFINE h == CHOOSE x : Eq(x)
<1>7. Eq(h)
  BY <1>6
<1>8. SliceStable(o, s) = h[DOMAIN s]
  BY DEF SliceStable, FoldLeft, MapThenFoldSet
<1> HIDE DEF h
<1> DEFINE g == [k \in 0 .. n |-> h[1 .. k]]
<1>9. g[0] = <<>>
  <2>1. 1 .. 0 = {} /\ 0 \in 0 .. n
    BY <1>1
  <2> QED
    BY <1>7, <2>1
<1>10. ASSUME NEW k \in 0 .. n - 1 PROVE g[k + 1] = Inserted(o, g[k], s[k + 1])
  <2>1. 1 .. k + 1 \in SUBSET (1 .. n) /\ 1 .. k + 1 # {}
    BY <1>1
  <2>2. (1 .. k + 1) \ {k + 1} = 1 .. k
    OBVIOUS
  <2>3. Max(1 .. k + 1) = k + 1
    BY MaxIsLast
  <2>4. h[1 .. k + 1] = Inserted(o, h[1 .. k], s[k + 1])
    BY <1>1, <1>7, <2>1, <2>2, <2>3
  <2>5. k \in 0 .. n /\ k + 1 \in 0 .. n
    BY <1>1
  <2> QED
    BY <2>4, <2>5
<1>11. g[n] = h[DOMAIN s]
  BY <1>1
<1> HIDE DEF g
<1> QED
  BY <1>8, <1>9, <1>10, <1>11 DEF n

(* Sorting puts each object into the list once. *)
LEMMA SortedList ==
  ASSUME NEW o, NEW S, IsFiniteSet(S), NEW q \in sortObjects(o, S)
  PROVE /\ q \in Seq(S) /\ ToSet(q) = S /\ \A i, j \in DOMAIN q : i # j => q[i] # q[j]
        /\ Agrees(o, S) /\ (\A a \in S : From(o, a) \in Keys) => FromUp(o, q)
<1>1. PICK t \in SetToSeqs(S) : q = SliceStable(o, t)
  BY DEF sortObjects
<1>2. t \in Seq(S) /\ ToSet(t) = S /\ \A i, j \in DOMAIN t : i # j => t[i] # t[j]
  BY Enumerated
<1>3. PICK g : /\ g[0] = <<>>
               /\ \A k \in 0 .. Len(t) - 1 : g[k + 1] = Inserted(o, g[k], t[k + 1])
               /\ q = g[Len(t)]
  BY <1>1, <1>2, SliceStableStages
<1> DEFINE n == Len(t)
           Good == Agrees(o, S) /\ \A a \in S : From(o, a) \in Keys
           Once(d) == \A i, j \in DOMAIN d : i # j => d[i] # d[j]
           Covers(d, k) == /\ \A i \in 1 .. k : \E j \in DOMAIN d : d[j] = t[i]
                           /\ \A j \in DOMAIN d : \E i \in 1 .. k : d[j] = t[i]
           P == {k \in Nat : k <= n => /\ g[k] \in Seq(S) /\ Once(g[k]) /\ Covers(g[k], k)
                                       /\ Good => FromUp(o, g[k])}
<1>4. n \in Nat /\ DOMAIN t = 1 .. n /\ \A i \in 1 .. n : t[i] \in S
  BY <1>2
<1> HIDE DEF n, Good
<1>5. 0 \in P
  <2>1. g[0] \in Seq(S) /\ DOMAIN g[0] = {} /\ 1 .. 0 = {}
    BY <1>3
  <2> QED
    BY <2>1 DEF FromUp
<1>6. ASSUME NEW k \in Nat, k \in P PROVE k + 1 \in P
  <2> SUFFICES ASSUME k + 1 <= n
               PROVE /\ g[k + 1] \in Seq(S) /\ Once(g[k + 1]) /\ Covers(g[k + 1], k + 1)
                     /\ Good => FromUp(o, g[k + 1])
    OBVIOUS
  <2> DEFINE d == g[k]
             x == t[k + 1]
             e == g[k + 1]
  <2>1. /\ d \in Seq(S) /\ Once(d) /\ Covers(d, k) /\ (Good => FromUp(o, d))
        /\ k + 1 \in 1 .. n /\ x \in S /\ e = Inserted(o, d, x)
    <3>1. k <= n /\ k + 1 \in 1 .. n /\ k \in 0 .. n - 1
      BY <1>4
    <3> QED
      BY <1>3, <1>4, <1>6, <3>1 DEF n
  <2>2. \A i \in 1 .. k : t[i] # x
    <3> SUFFICES ASSUME NEW i \in 1 .. k PROVE t[i] # x
      OBVIOUS
    <3>1. i \in DOMAIN t /\ k + 1 \in DOMAIN t /\ i # k + 1
      BY <1>4, <2>1
    <3> QED
      BY <1>2, <3>1
  <2> HIDE DEF d, x, e, P
  <2>3. e \in Seq(S) /\ IsInsertion(o, d, x, e)
    BY <2>1, InsertedAt
  <2>4. Good => FromUp(o, e)
    BY <2>1, InsertedInOrder DEF Good
  <2>5. /\ DOMAIN d = 1 .. Len(d) /\ Len(d) \in Nat /\ DOMAIN e = 1 .. Len(d) + 1
    BY <2>1, <2>3 DEF IsInsertion
  <2>6. PICK p \in 0 .. Len(d) : \A i \in 1 .. Len(d) + 1 :
          e[i] = IF i <= p THEN d[i] ELSE IF i = p + 1 THEN x ELSE d[i - 1]
    BY <2>3 DEF IsInsertion
  <2> DEFINE at(j) == IF j <= p THEN j ELSE j - 1
             to(i) == IF i <= p THEN i ELSE i + 1
  <2>7. \A j \in DOMAIN e : j # p + 1 => at(j) \in DOMAIN d /\ e[j] = d[at(j)]
    BY <2>5, <2>6
  <2>8. \A i \in DOMAIN d : to(i) \in DOMAIN e /\ e[to(i)] = d[i]
    BY <2>5, <2>6
  <2>9. p + 1 \in DOMAIN e /\ e[p + 1] = x
    BY <2>5, <2>6
  <2>10. \A i \in DOMAIN d : d[i] # x
    BY <2>1, <2>2
  <2>11. Once(e)
    <3> SUFFICES ASSUME NEW i \in DOMAIN e, NEW j \in DOMAIN e, i # j PROVE e[i] # e[j]
      OBVIOUS
    <3>1. CASE i = p + 1 \/ j = p + 1
      BY <2>7, <2>9, <2>10, <3>1
    <3>2. CASE i # p + 1 /\ j # p + 1
      <4>1. at(i) # at(j)
        BY <2>5, <3>2
      <4>2. /\ at(i) \in DOMAIN d /\ e[i] = d[at(i)]
            /\ at(j) \in DOMAIN d /\ e[j] = d[at(j)]
        BY <2>7, <3>2
      <4> HIDE DEF at
      <4>3. d[at(i)] # d[at(j)]
        BY <2>1, <4>1, <4>2
      <4> QED
        BY <4>2, <4>3
    <3> QED
      BY <3>1, <3>2
  <2>12. Covers(e, k + 1)
    <3>1. ASSUME NEW i \in 1 .. k + 1 PROVE \E j \in DOMAIN e : e[j] = t[i]
      <4>1. CASE i = k + 1
        BY <2>9, <4>1 DEF x
      <4>2. CASE i # k + 1
        <5>1. i \in 1 .. k
          BY <4>2
        <5>2. PICK l \in DOMAIN d : d[l] = t[i]
          BY <2>1, <5>1
        <5>3. to(l) \in DOMAIN e /\ e[to(l)] = t[i]
          BY <2>8, <5>2
        <5> QED
          BY <5>3
      <4> QED
        BY <4>1, <4>2
    <3>2. ASSUME NEW j \in DOMAIN e PROVE \E i \in 1 .. k + 1 : e[j] = t[i]
      <4>1. CASE j = p + 1
        BY <2>9, <4>1 DEF x
      <4>2. CASE j # p + 1
        <5>1. PICK i \in 1 .. k : d[at(j)] = t[i]
          BY <2>1, <2>7, <4>2
        <5> QED
          BY <2>7, <4>2, <5>1
      <4> QED
        BY <4>1, <4>2
    <3> QED
      BY <3>1, <3>2
  <2> QED
    BY <2>3, <2>4, <2>11, <2>12 DEF e
<1> HIDE DEF P
<1>7. n \in P
  BY <1>4, <1>5, <1>6, NatSetInduction
<1>8. /\ q \in Seq(S) /\ Once(q) /\ Covers(q, n) /\ (Good => FromUp(o, q))
  BY <1>3, <1>4, <1>7 DEF P, n
<1>9. ToSet(q) = S
  <2>1. \A x \in S : \E i \in 1 .. n : t[i] = x
    BY <1>2, <1>4 DEF ToSet
  <2>2. \A x \in S : \E j \in DOMAIN q : q[j] = x
    BY <1>8, <2>1
  <2>3. \A j \in DOMAIN q : q[j] \in S
    BY <1>8
  <2> QED
    BY <2>2, <2>3 DEF ToSet
<1> QED
  BY <1>8, <1>9 DEF Good

(* Where zero and null do not meet, the order of the list is that of the   *)
(* objects' first keys.                                                    *)
LEMMA ObjectsAgree ==
  ASSUME NEW o \in {"asc", "desc"}, NEW S, \A a \in S : Written(o, a), ZeroApart(o, RowsOf(S))
  PROVE Agrees(o, S) /\ \A a \in S : From(o, a) \in Keys
<1>1. ASSUME NEW a \in S
      PROVE \E r, q \in RowsOf(S) :
              /\ r \in Rows /\ q \in Rows
              /\ From(o, a) = KeyOf(r) /\ To(o, a) = KeyOf(q)
              /\ ~Before(o, To(o, a), From(o, a))
  <2>1. /\ a.rows \in Seq(Rows) /\ Len(a.rows) >= 1
        /\ From(o, a) = KeyOf(a.rows[1]) /\ To(o, a) = KeyOf(a.rows[Len(a.rows)])
    BY WrittenFacts
  <2>2. ~Before(o, To(o, a), From(o, a))
    BY WrittenOrder
  <2>3. 1 \in DOMAIN a.rows /\ Len(a.rows) \in DOMAIN a.rows
    BY <2>1
  <2> QED
    BY <2>1, <2>2, <2>3 DEF RowsOf, ToSet
<1>2. ASSUME NEW a \in S PROVE From(o, a) \in Keys /\ To(o, a) \in Keys
  <2>1. PICK r \in Rows, q \in Rows : From(o, a) = KeyOf(r) /\ To(o, a) = KeyOf(q)
    BY <1>1
  <2>2. Key("null", 0) \in Keys
    BY DEF Key, Keys, KeyKinds
  <2>3. KeyOf(r) \in Keys /\ KeyOf(q) \in Keys
    BY <2>2, KeyOfRow
  <2> QED
    BY <2>1, <2>3
<1>3. ASSUME NEW a \in S, NEW b \in S, ObjectBefore(o, a, b), Before(o, From(o, b), From(o, a))
      PROVE FALSE
  <2> DEFINE x == From(o, a)
             y == From(o, b)
  <2>1. /\ x \in Keys /\ y \in Keys /\ To(o, a) \in Keys /\ To(o, b) \in Keys
        /\ ~Before(o, To(o, a), x)
    BY <1>1, <1>2
  <2>2. x.val = y.val /\ Before(o, To(o, a), To(o, b))
    BY <1>3, <2>1, BeforeIsOrder DEF ObjectBefore, SameBytes
  <2>3. CASE o = "asc"
    BY <1>3, <2>1, <2>2, <2>3 DEF Before, Less, IsNull, Keys, KeyKinds
  <2>4. CASE o = "desc"
    <3>1. PICK r \in RowsOf(S) : r \in Rows /\ x = KeyOf(r)
      BY <1>1
    <3>2. PICK q \in RowsOf(S) : q \in Rows /\ y = KeyOf(q)
      BY <1>1
    <3>3. Less(x, y)
      BY <1>3, <2>4 DEF Before
    <3>4. x.val = 0 /\ IsNull(y) /\ ~IsNull(x)
      BY <2>1, <2>2, <3>3 DEF Less, IsNull, Keys
    <3>5. IsNull(q.key) /\ ~IsNull(r.key) /\ r.key.val = 0
      BY <3>1, <3>2, <3>4 DEF KeyOf, Key, IsNull
    <3> QED
      BY <2>4, <3>5 DEF ZeroApart
  <2> QED
    BY <2>3, <2>4
<1> QED
  BY <1>2, <1>3 DEF Agrees

LEMMA StartLists ==
  ASSUME LakeInv, NEW kind \in Kinds, NEW pred, NEW src \in SUBSET objs, NEW ts,
         job.result # "deleted", Start(kind, pred, src, ts)
  PROVE /\ ListInv'
        /\ Pending' = src /\ Given' = {} /\ job'.kind = kind /\ job'.src = src
<1>1. /\ job' = [Idle EXCEPT !.kind = kind, !.pred = pred, !.src = src]
      /\ listing' \in sortObjects(order, src) /\ slicer' = <<>> /\ parts' = <<>>
      /\ order' = order
  BY DEF Start
<1>2. job'.kind = kind /\ job'.src = src
  BY <1>1 DEF Idle
<1>3. IsFiniteSet(src)
  BY FS_Subset DEF LakeInv, DataInv, Stored
<1>4. Agrees(order, src) /\ \A a \in src : From(order, a) \in Keys
  <2>1. order \in {"asc", "desc"} /\ \A a \in src : Written(order, a)
    BY DEF LakeInv, DataInv
  <2>2. ZeroApart(order, RowsOf(src))
    BY DEF LakeInv, DataInv, Stored, ZeroApart, RowsOf
  <2> QED
    BY <2>1, <2>2, ObjectsAgree
<1>5. /\ listing' \in Seq(src) /\ ToSet(listing') = src
      /\ \A i, j \in DOMAIN listing' : i # j => listing'[i] # listing'[j]
  BY <1>1, <1>3, SortedList
<1>6. \A i, j \in DOMAIN listing' : i < j =>
        ~Before(order, From(order, listing'[j]), From(order, listing'[i]))
  BY <1>1, <1>3, <1>4, SortedList DEF FromUp
<1>7. ToSet(slicer') = {} /\ Len(slicer') = 0 /\ slicer' \in Seq(src)
      /\ DOMAIN parts' = {} /\ parts' \in Seq(SUBSET src)
  BY <1>1 DEF ToSet
<1>8. Given' = {} /\ Pending' = src
  BY <1>5, <1>7 DEF Given, Pending
<1>9. InTurn(listing)'
  BY <1>1, <1>5, <1>6 DEF InTurn
<1>10. ListInv'
  BY <1>1, <1>2, <1>5, <1>7, <1>8, <1>9 DEF ListInv
<1> QED
  BY <1>2, <1>8, <1>10

LEMMA ListFrame ==
  ASSUME ListInv, UNCHANGED <<order, listing, slicer, parts>>,
         job'.kind = job.kind, job'.src = job.src
  PROVE ListInv'
BY DEF ListInv, InTurn, PrecedesObject, Given, Pending, Sliced, Running

(* What a trunk does to the list when it pulls. *)
LEMMA Advanced ==
  ASSUME LakeInv, Running, NEW t, NEW next, Pulled(next), Advance(t, next),
         UNCHANGED <<order, objs, job>>
  PROVE /\ ListInv'
        /\ Given' = Given \cup ToSet(next.part) /\ Pending' = LeftOf(next)
<1>1. /\ listing' = next.rest /\ slicer' = next.slicer
      /\ parts' = IF next.part = <<>> THEN parts ELSE Append(parts, ToSet(next.part))
  BY DEF Advance
<1>2. parts \in Seq(SUBSET job.src) /\ Pending \cap Given = {}
  BY DEF LakeInv, ListInv
<1>3. ToSet(next.part) \subseteq job.src
  BY SelfSeq DEF Pulled
<1>4. /\ parts' \in Seq(SUBSET job.src) /\ Given' = Given \cup ToSet(next.part)
      /\ \A i, j \in DOMAIN parts' : i < j =>
           \/ i \in DOMAIN parts /\ j \in DOMAIN parts /\ parts'[i] = parts[i] /\ parts'[j] = parts[j]
           \/ parts'[i] \subseteq Given /\ parts'[j] = ToSet(next.part)
  <2>1. CASE next.part = <<>>
    <3>1. ToSet(next.part) = {} /\ parts' = parts
      BY <1>1, <2>1 DEF ToSet
    <3> QED
      BY <1>2, <3>1 DEF Given
  <2>2. CASE next.part # <<>>
    <3> DEFINE p == ToSet(next.part)
    <3>1. parts' = Append(parts, p) /\ p \in SUBSET job.src
      BY <1>1, <1>3, <2>2
    <3> HIDE DEF p
    <3>2. /\ parts' \in Seq(SUBSET job.src)
          /\ Len(parts') = Len(parts) + 1 /\ parts'[Len(parts) + 1] = p
          /\ \A i \in DOMAIN parts : parts'[i] = parts[i]
          /\ \A i \in DOMAIN parts' : i \in DOMAIN parts \/ i = Len(parts) + 1
      <4>1. parts' \in Seq(SUBSET job.src)
        BY <1>2, <3>1
      <4> QED
        BY <1>2, <3>1, <4>1, AppendSet
    <3>3. /\ DOMAIN parts' = 1 .. Len(parts) + 1 /\ DOMAIN parts = 1 .. Len(parts)
          /\ Len(parts) \in Nat
      BY <1>2, <3>2
    <3>4. Given' \subseteq Given \cup p
      BY <3>2 DEF Given
    <3>5. Given \subseteq Given'
      BY <3>2, <3>3 DEF Given
    <3>6. p \subseteq Given'
      <4>1. Len(parts) + 1 \in DOMAIN parts'
        BY <3>3
      <4> QED
        BY <3>2, <4>1 DEF Given
    <3>7. ASSUME NEW i \in DOMAIN parts', NEW j \in DOMAIN parts', i < j
          PROVE \/ i \in DOMAIN parts /\ j \in DOMAIN parts /\ parts'[i] = parts[i] /\ parts'[j] = parts[j]
                \/ parts'[i] \subseteq Given /\ parts'[j] = p
      <4>1. i \in DOMAIN parts
        BY <3>3, <3>7
      <4> QED
        BY <3>2, <4>1 DEF Given
    <3> QED
      BY <3>2, <3>4, <3>5, <3>6, <3>7 DEF p
  <2> QED
    BY <2>1, <2>2
<1>5. Pending' = LeftOf(next)
  BY <1>1 DEF Pending, LeftOf
<1>6. Pending' \cap Given' = {}
  BY <1>2, <1>4, <1>5 DEF Pulled
<1>7. /\ listing' \in Seq(job.src) /\ slicer' \in Seq(job.src) /\ Len(slicer') <= 1
      /\ \A a \in ToSet(slicer'), b \in ToSet(listing') :
           a # b /\ ~Before(order, From(order, b), From(order, a))
      /\ ~Sliced => slicer' = <<>>
  BY <1>1 DEF Pulled
<1>8. InTurn(listing)'
  BY <1>1 DEF Pulled, InTurn
<1>9. ASSUME Sliced
      PROVE /\ \A i, j \in DOMAIN parts' : i < j =>
                 \A a \in parts'[i], b \in parts'[j] : Before(order, To(order, a), From(order, b))
            /\ \A a \in Given', b \in Pending' : Before(order, To(order, a), From(order, b))
  <2>1. /\ \A i, j \in DOMAIN parts : i < j =>
              \A a \in parts[i], b \in parts[j] : Before(order, To(order, a), From(order, b))
        /\ \A a \in Given, b \in Pending : Before(order, To(order, a), From(order, b))
    BY <1>9 DEF LakeInv, ListInv, PrecedesObject
  <2>2. /\ ToSet(next.part) \cup LeftOf(next) \subseteq Pending
        /\ \A a \in ToSet(next.part), b \in LeftOf(next) : Before(order, To(order, a), From(order, b))
    BY <1>9 DEF Pulled, PrecedesObject
  <2>3. ASSUME NEW i \in DOMAIN parts', NEW j \in DOMAIN parts', i < j,
               NEW a \in parts'[i], NEW b \in parts'[j]
        PROVE Before(order, To(order, a), From(order, b))
    <3>1. CASE i \in DOMAIN parts /\ j \in DOMAIN parts /\ parts'[i] = parts[i] /\ parts'[j] = parts[j]
      BY <2>1, <2>3, <3>1
    <3>2. CASE parts'[i] \subseteq Given /\ parts'[j] = ToSet(next.part)
      BY <2>1, <2>2, <2>3, <3>2
    <3> QED
      BY <1>4, <2>3, <3>1, <3>2
  <2>4. \A a \in Given', b \in Pending' : Before(order, To(order, a), From(order, b))
    BY <1>4, <1>5, <2>1, <2>2
  <2> QED
    BY <2>3, <2>4
<1>10. ListInv'
  BY <1>4, <1>6, <1>7, <1>8, <1>9 DEF ListInv, PrecedesObject, Sliced
<1> QED
  BY <1>4, <1>5, <1>10

----------------------------------------------------------------------------
(* The steps, by what they do. *)

Begins   == Query \/ DeleteWhere \/ SendRun
Pulls(t) == SequencePull(t) \/ nextDeletion(t)
Hands(t) == QueryRow(t) \/ DeleterRow(t) \/ CompactRow(t)
Stops(t) == PullDone(t) \/ ReadFails(t)
Finishes == EndQuery \/ EndDelete \/ EndCompact
Buffers  == flipBuffers \/ writeObject \/ writeObjectFails \/ Close
Plans    == Manage \/ BuildRun \/ EndOfList \/ EndManage

LEMMA StepKinds ==
  ASSUME [Next]_vars
  PROVE \/ Begins \/ Finishes \/ Buffers \/ Plans \/ UNCHANGED vars
        \/ \E t \in Trunks : Pulls(t) \/ NextScanner(t) \/ Hands(t) \/ Stops(t)
BY DEF Next, Steps, TrunkStep, Begins, Pulls, Hands, Stops, Finishes, Buffers, Plans

LEMMA HandsFrame ==
  ASSUME LakeInv, NEW t \in Trunks, Hands(t)
  PROVE /\ trunk[t].pc = "scan" /\ trunk[t].left # <<>> /\ ~job.err /\ Running
        /\ out' = [out EXCEPT ![t] = Append(@, Head(trunk[t].left))]
        /\ trunk' = [trunk EXCEPT ![t].left = Tail(@)]
        /\ UNCHANGED <<order, objs, listing, slicer, parts, deletes, mgr, faults>>
        /\ \/ job' = job
           \/ job.kind = "delete" /\ job' = [job EXCEPT !.err = TRUE]
<1>1. \E write \in BOOLEAN : Returns(t, write)
  BY DEF Hands, QueryRow, DeleterRow, CompactRow, Returns
<1>2. /\ trunk[t].pc = "scan" /\ trunk[t].left # <<>> /\ ~job.err
      /\ out' = [out EXCEPT ![t] = Append(@, Head(trunk[t].left))]
      /\ trunk' = [trunk EXCEPT ![t].left = Tail(@)]
      /\ UNCHANGED <<order, objs, listing, slicer, parts, deletes, mgr, faults>>
  BY <1>1 DEF Returns
<1>3. Running /\ (job' = job \/ (job.kind = "delete" /\ job' = [job EXCEPT !.err = TRUE]))
  <2>1. CASE QueryRow(t)
    BY <2>1 DEF QueryRow, Returns, Running
  <2>2. CASE DeleterRow(t)
    <3>1. WriteRow(Head(trunk[t].left)) /\ job.kind = "delete"
      BY <2>2 DEF DeleterRow, Returns
    <3> QED
      BY <3>1 DEF WriteRow, Running
  <2>3. CASE CompactRow(t)
    <3>1. PICK full \in BOOLEAN : WriteSorted(Head(trunk[t].left), full)
      BY <2>3 DEF CompactRow, Returns
    <3>2. job.kind = "compact"
      BY <2>3 DEF CompactRow
    <3> QED
      BY <3>1, <3>2 DEF WriteSorted, Running
  <2> QED
    BY <2>1, <2>2, <2>3 DEF Hands
<1> QED
  BY <1>2, <1>3

(* The job is of the same kind, on the same objects, but where operations  *)
(* begin and end.                                                          *)
LEMMA JobFrame ==
  ASSUME LakeInv, NEW t \in Trunks,
         \/ Pulls(t) \/ NextScanner(t) \/ Hands(t) \/ Stops(t)
         \/ Buffers \/ Plans \/ UNCHANGED vars
  PROVE /\ job'.kind = job.kind /\ job'.src = job.src /\ job'.pred = job.pred
        /\ job'.result = IF PullDone(t) THEN "partial" ELSE job.result
        /\ job'.err \in BOOLEAN /\ (job.err => job'.err)
        /\ job' \in [kind : Kinds \cup {"idle"}, pred : Predicates, src : {job.src},
                     err : BOOLEAN, result : Results]
        /\ order' = order /\ objs' = objs
<1>1. job \in [kind : Kinds \cup {"idle"}, pred : Predicates, src : {job.src},
               err : BOOLEAN, result : Results]
  BY DEF LakeInv, JobInv
<1>2. CASE PullDone(t)
  BY <1>1, <1>2 DEF PullDone, Results
<1>3. CASE ~PullDone(t)
  <2>1. order' = order /\ objs' = objs /\ (job' = job \/ job' = [job EXCEPT !.err = TRUE])
    <3>1. CASE Pulls(t)
      BY <3>1 DEF Pulls, SequencePull, nextDeletion
    <3>2. CASE NextScanner(t)
      BY <3>2 DEF NextScanner
    <3>3. CASE Hands(t)
      BY <3>3, HandsFrame
    <3>4. CASE Stops(t)
      BY <1>3, <3>4 DEF Stops, ReadFails
    <3>5. CASE Buffers
      BY <3>5 DEF Buffers, flipBuffers, writeObject, writeObjectFails, Close
    <3>6. CASE Plans
      BY <3>6 DEF Plans, Manage, BuildRun, EndOfList, EndManage
    <3>7. CASE UNCHANGED vars
      BY <3>7 DEF vars
    <3> QED
      BY <3>1, <3>2, <3>3, <3>4, <3>5, <3>6, <3>7
  <2> QED
    BY <1>1, <1>3, <2>1
<1> QED
  BY <1>2, <1>3

(* The list changes where an operation begins and where a trunk pulls. *)
LEMMA ListStays ==
  ASSUME LakeInv, NEW t \in Trunks,
         NextScanner(t) \/ Hands(t) \/ Stops(t) \/ Buffers \/ Plans \/ UNCHANGED vars
  PROVE UNCHANGED <<listing, slicer, parts>>
<1>1. CASE NextScanner(t)
  BY <1>1 DEF NextScanner
<1>2. CASE Hands(t)
  BY <1>2, HandsFrame
<1>3. CASE Stops(t)
  BY <1>3 DEF Stops, PullDone, ReadFails
<1>4. CASE Buffers
  BY <1>4 DEF Buffers, flipBuffers, writeObject, writeObjectFails, Close, scanVars
<1>5. CASE Plans
  BY <1>5 DEF Plans, Manage, BuildRun, EndOfList, EndManage, scanVars
<1>6. CASE UNCHANGED vars
  BY <1>6 DEF vars, scanVars
<1> QED
  BY <1>1, <1>2, <1>3, <1>4, <1>5, <1>6

(* A pull of a trunk. *)
LEMMA PullStep ==
  ASSUME LakeInv, NEW t \in Trunks, Pulls(t)
  PROVE /\ Running /\ trunk[t].pc = "pull" /\ ~job.err /\ Pulled(PullParent)
        /\ Advance(t, PullParent)
        /\ UNCHANGED <<order, objs, job, out, writer, mgr, faults>>
        /\ ListInv' /\ Given' = Given \cup ToSet(PullParent.part) /\ Pending' = LeftOf(PullParent)
<1>1. /\ Running /\ trunk[t].pc = "pull" /\ ~job.err /\ Advance(t, PullParent)
      /\ UNCHANGED <<order, objs, job, out, writer, mgr, faults>>
  BY DEF Pulls, SequencePull, nextDeletion, Running
<1>2. Pulled(PullParent)
  BY <1>1, ParentPulled
<1> QED
  BY <1>1, <1>2, Advanced

(* An operation begins. *)
LEMMA BeginStep ==
  ASSUME LakeInv, Begins
  PROVE \E kind \in Kinds, pred \in Predicates, src \in SUBSET objs, ts \in SUBSET Trunks :
           /\ Start(kind, pred, src, ts) /\ job.result # "deleted" /\ job.kind = "idle"
           /\ \/ /\ kind # "compact" /\ src = objs /\ pred \in Preds /\ ts = Trunks
                 /\ mgr.pc = "off" /\ mgr' = mgr
              \/ /\ kind = "compact" /\ src = InRun /\ ts = {TheTrunk} /\ TheTrunk \in Trunks
                 /\ mgr.pc \in {"send", "last"} /\ ~mgr.err /\ SendRun
<1>1. CASE Query
  <2>1. PICK kind \in {"query", "ordered"}, p \in Preds : Start(kind, p, objs, Trunks)
    BY <1>1 DEF Query
  <2> QED
    BY <1>1, <2>1, PredsAssumption DEF Query, Start, Kinds
<1>2. CASE DeleteWhere
  <2>1. PICK p \in Preds : Start("delete", p, objs, Trunks)
    BY <1>2 DEF DeleteWhere
  <2> QED
    BY <1>2, <2>1, PredsAssumption DEF DeleteWhere, Start, Kinds
<1>3. CASE SendRun
  <2>1. Start("compact", NoPred, ToSet(mgr.run), {CHOOSE t \in Trunks : TRUE})
    BY <1>3 DEF SendRun
  <2>2. mgr.pc \in {"send", "last"} /\ ~mgr.err
    BY <1>3 DEF SendRun
  <2>3. ToSet(mgr.run) = InRun /\ InRun \subseteq objs
    BY <2>2 DEF InRun, LakeInv, MgrInv
  <2>4. TheTrunk \in Trunks
    BY TrunksAssumption DEF TheTrunk
  <2>5. job.result # "deleted"
    BY <2>2 DEF LakeInv, JobInv
  <2>6. NoPred \in Predicates
    BY DEF NoPred, One, Other, Predicates, Comparisons, Operators
  <2>7. job.kind = "idle"
    BY <2>1 DEF Start
  <2>8. "compact" \in Kinds /\ InRun \in SUBSET objs /\ {TheTrunk} \in SUBSET Trunks
        /\ Start("compact", NoPred, InRun, {TheTrunk})
    BY <2>1, <2>3, <2>4 DEF Kinds, TheTrunk
  <2> QED
    BY <1>3, <2>2, <2>4, <2>5, <2>6, <2>7, <2>8
<1> QED
  BY <1>1, <1>2, <1>3 DEF Begins

LEMMA ListStep ==
  ASSUME LakeInv, [Next]_vars
  PROVE ListInv'
<1>0. ListInv
  BY DEF LakeInv
<1>1. CASE Begins
  BY <1>1, BeginStep, StartLists
<1>2. CASE Finishes
  <2>1. job'.kind = "idle"
    BY <1>2 DEF Finishes, EndQuery, EndDelete, EndCompact, LakeInv, JobInv
  <2> QED
    BY <2>1 DEF ListInv, Running
<1>3. ASSUME NEW t \in Trunks,
             NextScanner(t) \/ Hands(t) \/ Stops(t) \/ Buffers \/ Plans \/ UNCHANGED vars
      PROVE ListInv'
  <2>1. job'.kind = job.kind /\ job'.src = job.src /\ order' = order
    BY <1>3, JobFrame
  <2>2. UNCHANGED <<listing, slicer, parts>>
    BY <1>3, ListStays
  <2> QED
    BY <1>0, <2>1, <2>2, ListFrame
<1>4. ASSUME NEW t \in Trunks, Pulls(t) PROVE ListInv'
  BY <1>4, PullStep
<1>5. \E t : t \in Trunks
  BY TrunksAssumption
<1> QED
  BY <1>1, <1>2, <1>3, <1>4, <1>5, StepKinds

----------------------------------------------------------------------------
(* The trunks. *)

LEMMA RowsFinite ==
  ASSUME NEW os, IsFiniteSet(os), \A obj \in os : \E T : obj.rows \in Seq(T)
  PROVE IsFiniteSet(RowsOf(os))
<1> DEFINE R == {ToSet(obj.rows) : obj \in os}
<1>1. IsFiniteSet(R)
  <2> DEFINE f == [obj \in os |-> ToSet(obj.rows)]
  <2>1. f \in Surjection(os, R)
    BY DEF Surjection
  <2> QED
    BY <2>1, FS_Surjection
<1>2. ASSUME NEW obj \in os PROVE IsFiniteSet(ToSet(obj.rows))
  <2>1. PICK T : obj.rows \in Seq(T)
    OBVIOUS
  <2> DEFINE s == obj.rows
  <2>2. s \in [1 .. Len(s) -> T] /\ Len(s) \in Nat
    BY <2>1
  <2> HIDE DEF s
  <2>3. s \in Surjection(1 .. Len(s), ToSet(s))
    BY <2>2 DEF Surjection, ToSet
  <2>4. IsFiniteSet(1 .. Len(s))
    BY <2>2, FS_Interval
  <2>5. IsFiniteSet(ToSet(s))
    BY <2>3, <2>4, FS_Surjection
  <2> QED
    BY <2>5 DEF s
<1>3. \A S \in R : IsFiniteSet(S)
  BY <1>2
<1> HIDE DEF R
<1>4. IsFiniteSet(UNION R)
  BY <1>1, <1>3, FS_UNION
<1> QED
  BY <1>4 DEF R, RowsOf

(* What a scanner gives: rows of its objects that the operation keeps, in  *)
(* order and each once.                                                    *)
LEMMA ScannerFacts ==
  ASSUME LakeInv, Running, NEW part \in Seq(job.src), NEW rs \in newScanner(part)
  PROVE /\ rs \in Seq(Rows) /\ Ordered(order, rs) /\ IsInjective(rs)
        /\ ToSet(rs) = UNION {ToSet(Read(part[i])) : i \in DOMAIN part}
        /\ ToSet(rs) \subseteq {r \in RowsOf(ToSet(part)) : Keeps(r)}
<1>1. order \in {"asc", "desc"}
  BY DEF LakeInv, DataInv
<1>2. ASSUME NEW i \in DOMAIN part
      PROVE /\ Read(part[i]) \in Seq(Rows) /\ Ordered(order, Read(part[i])) /\ IsInjective(Read(part[i]))
            /\ ToSet(Read(part[i])) \subseteq {r \in ToSet(part[i].rows) : Keeps(r)}
  <2>1. part[i] \in job.src
    OBVIOUS
  <2>2. Written(order, part[i])
    BY <2>1 DEF LakeInv, DataInv, JobInv
  <2> HIDE DEF Written
  <2> QED
    BY <1>1, <2>2, ReadFacts
<1>3. CASE Len(part) = 1
  <2>1. rs = Read(part[1]) /\ DOMAIN part = {1}
    BY <1>3 DEF newScanner
  <2>2. ToSet(part) = {part[1]}
    BY <2>1 DEF ToSet
  <2>3. RowsOf(ToSet(part)) = ToSet(part[1].rows)
    BY <2>2 DEF RowsOf
  <2>4. ToSet(rs) = UNION {ToSet(Read(part[i])) : i \in DOMAIN part}
    BY <2>1
  <2> QED
    BY <1>2, <2>1, <2>3, <2>4
<1>4. CASE Len(part) # 1
  <2> DEFINE R == UNION {ToSet(Read(part[i])) : i \in DOMAIN part}
  <2>1. rs = Sorted(order, R)
    <3>1. DOMAIN part = 1 .. Len(part)
      OBVIOUS
    <3> QED
      BY <1>4, <3>1 DEF newScanner
  <2>2. R \subseteq {r \in RowsOf(ToSet(part)) : Keeps(r)}
    BY <1>2 DEF RowsOf, ToSet
  <2>3. ToSet(part) \subseteq objs /\ IsFiniteSet(objs) /\ Distinct(RowsOf(objs))
        /\ \A obj \in objs : Written(order, obj)
    <3>1. job.result # "deleted" /\ job.src \subseteq objs
      BY DEF LakeInv, JobInv
    <3> QED
      BY <3>1, SelfSeq DEF LakeInv, DataInv, Stored
  <2>4. RowsOf(ToSet(part)) \subseteq RowsOf(objs)
    BY <2>3 DEF RowsOf
  <2>5. IsFiniteSet(RowsOf(objs))
    <3>1. \A obj \in objs : obj.rows \in Seq(Rows)
      BY <1>1, <2>3, WrittenFacts
    <3> QED
      BY <2>3, <3>1, RowsFinite
  <2> HIDE DEF R
  <2>6. R \subseteq RowsOf(objs)
    BY <2>2, <2>4
  <2>7. IsFiniteSet(R) /\ Distinct(R)
    BY <2>3, <2>5, <2>6, FS_Subset DEF Distinct
  <2>8. rs \in Seq(Rows) /\ Ordered(order, rs) /\ ToSet(rs) = R /\ IsInjective(rs)
    BY <2>1, <2>7, SortedRows
  <2> QED
    BY <2>2, <2>8 DEF R
<1> QED
  BY <1>3, <1>4

(* Nothing but how far a trunk has come has changed. *)
LEMMA TrunksStay ==
  ASSUME TrunkInv, UNCHANGED order, job'.kind = job.kind, job'.pred = job.pred,
         Running => Given \subseteq Given',
         trunk' \in [Trunks -> [pc : {"pull", "scan", "done"}, left : Seq(Rows)]],
         out' \in [Trunks -> Seq(Rows)],
         \A t \in Trunks : trunk'[t].pc # "scan" => trunk'[t].left = <<>>,
         \A t \in Trunks : out'[t] \o trunk'[t].left = out[t] \o trunk[t].left
  PROVE TrunkInv'
<1>1. \A t \in Trunks : Returned(t)' = Returned(t)
  BY DEF Returned
<1>2. \A r : Keeps(r)' = Keeps(r)
  BY DEF Keeps
<1>3. Running' = Running /\ Sliced' = Sliced
  BY DEF Running, Sliced
<1>4. Running => RowsOf(Given) \subseteq RowsOf(Given')
  BY DEF RowsOf
<1>5. ASSUME Running
      PROVE /\ \A t \in Trunks :
                 /\ ToSet(Returned(t)') \subseteq {r \in RowsOf(Given') : Keeps(r)'}
                 /\ IsInjective(Returned(t)')
                 /\ Sliced' => Ordered(order', Returned(t)')
            /\ \A t, u \in Trunks : t # u => ToSet(Returned(t)') \cap ToSet(Returned(u)') = {}
  BY <1>1, <1>2, <1>3, <1>4, <1>5 DEF TrunkInv
<1> QED
  BY <1>3, <1>5 DEF TrunkInv

(* A trunk goes on with rows of what it is given, or it drops what is left *)
(* of them.                                                                *)
LEMMA TrunkGoesOn ==
  ASSUME LakeInv, Running, NEW t \in Trunks, UNCHANGED <<order, out>>, job'.kind = job.kind,
         job'.pred = job.pred, Given \subseteq Given', Given' \subseteq job.src,
         NEW P, P \subseteq Given', P \cap Given = {},
         NEW pc \in {"pull", "scan", "done"}, NEW rs \in Seq(Rows),
         trunk' = [trunk EXCEPT ![t] = [pc |-> pc, left |-> rs]], pc # "scan" => rs = <<>>,
         Ordered(order, rs), IsInjective(rs), ToSet(rs) \subseteq {r \in RowsOf(P) : Keeps(r)},
         Sliced => \A a \in Given, b \in P : PrecedesObject(a, b)
  PROVE TrunkInv'
<1>1. TrunkInv
  BY DEF LakeInv
<1>2. /\ trunk \in [Trunks -> [pc : {"pull", "scan", "done"}, left : Seq(Rows)]]
      /\ out \in [Trunks -> Seq(Rows)]
  BY <1>1 DEF TrunkInv
<1>3. /\ trunk' \in [Trunks -> [pc : {"pull", "scan", "done"}, left : Seq(Rows)]]
      /\ \A u \in Trunks : trunk'[u].pc # "scan" => trunk'[u].left = <<>>
  BY <1>1, <1>2 DEF TrunkInv
<1>4. \A r : Keeps(r)' = Keeps(r)
  BY DEF Keeps
<1>5. Running' = Running /\ Sliced' = Sliced
  BY DEF Running, Sliced
<1>6. \A u \in Trunks \ {t} : Returned(u)' = Returned(u)
  BY <1>2 DEF Returned
<1>7. Returned(t)' = out[t] \o rs
  BY <1>2 DEF Returned
<1>8. RowsOf(Given) \subseteq RowsOf(Given') /\ RowsOf(P) \subseteq RowsOf(Given')
  BY DEF RowsOf
<1>9. \A u \in Trunks :
        /\ out[u] \in Seq(Rows) /\ trunk[u].left \in Seq(Rows)
        /\ ToSet(Returned(u)) \subseteq {r \in RowsOf(Given) : Keeps(r)}
        /\ IsInjective(Returned(u)) /\ (Sliced => Ordered(order, Returned(u)))
  BY <1>1, <1>2 DEF TrunkInv
<1>10. ASSUME NEW r \in RowsOf(Given), NEW q \in RowsOf(P) PROVE r # q
  <2>1. PICK a \in Given : r \in ToSet(a.rows)
    BY DEF RowsOf
  <2>2. PICK b \in P : q \in ToSet(b.rows)
    BY DEF RowsOf
  <2>3. a # b /\ a \in objs /\ b \in objs /\ job.result # "deleted"
    BY <2>1, <2>2 DEF LakeInv, JobInv
  <2>4. ToSet(a.rows) \cap ToSet(b.rows) = {}
    BY <2>3 DEF LakeInv, DataInv, Stored
  <2> QED
    BY <2>1, <2>2, <2>4
<1>11. ASSUME Sliced, NEW r \in RowsOf(Given), NEW q \in RowsOf(P) PROVE RowBefore(order, r, q)
  <2>1. PICK a \in Given : r \in ToSet(a.rows)
    BY DEF RowsOf
  <2>2. PICK b \in P : q \in ToSet(b.rows)
    BY DEF RowsOf
  <2>3. Written(order, a) /\ Written(order, b) /\ order \in {"asc", "desc"}
    BY <2>1, <2>2 DEF LakeInv, DataInv, JobInv
  <2> QED
    BY <1>11, <2>1, <2>2, <2>3, ApartRows DEF PrecedesObject
<1>12. /\ ToSet(out[t]) \subseteq {r \in RowsOf(Given) : Keeps(r)} /\ IsInjective(out[t])
       /\ Sliced => Ordered(order, out[t])
       /\ ToSet(out[t]) \subseteq ToSet(Returned(t))
  <2>1. Returned(t) = out[t] \o trunk[t].left
    BY DEF Returned
  <2> DEFINE a == out[t]
             b == trunk[t].left
  <2>2. a \in Seq(Rows) /\ b \in Seq(Rows)
    BY <1>9
  <2> HIDE DEF a, b
  <2>3. ToSet(a) \subseteq ToSet(a \o b)
    BY <2>2, ConcatSets
  <2>4. IsInjective(a \o b) => IsInjective(a)
    BY <2>2, ConcatInjective
  <2>5. Ordered(order, a \o b) => Ordered(order, a)
    BY <2>2, ConcatOrdered
  <2> QED
    BY <1>9, <2>1, <2>3, <2>4, <2>5 DEF a, b
<1>13. /\ ToSet(Returned(t)') = ToSet(out[t]) \cup ToSet(rs)
       /\ IsInjective(Returned(t)') /\ (Sliced => Ordered(order, Returned(t)'))
  <2>1. ToSet(out[t] \o rs) = ToSet(out[t]) \cup ToSet(rs)
    BY <1>2, ConcatSets
  <2>2. ToSet(out[t]) \cap ToSet(rs) = {}
    BY <1>10, <1>12
  <2>3. IsInjective(out[t] \o rs)
    BY <1>2, <1>12, <2>2, ConcatInjective
  <2>4. Sliced => Ordered(order, out[t] \o rs)
    BY <1>2, <1>11, <1>12, ConcatOrdered
  <2> QED
    BY <1>7, <2>1, <2>3, <2>4
<1>14. ASSUME NEW u \in Trunks
       PROVE /\ ToSet(Returned(u)') \subseteq {r \in RowsOf(Given') : Keeps(r)}
             /\ IsInjective(Returned(u)') /\ (Sliced => Ordered(order, Returned(u)'))
  BY <1>6, <1>8, <1>9, <1>12, <1>13
<1>15. ASSUME NEW u \in Trunks \ {t} PROVE ToSet(Returned(u)') \cap ToSet(Returned(t)') = {}
  <2>1. ToSet(Returned(u)) \cap ToSet(Returned(t)) = {}
    BY <1>1 DEF TrunkInv
  <2>2. ToSet(Returned(u)) \cap ToSet(rs) = {}
    BY <1>9, <1>10
  <2> QED
    BY <1>6, <1>12, <1>13, <2>1, <2>2
<1>16. \A u, v \in Trunks \ {t} : u # v => ToSet(Returned(u)') \cap ToSet(Returned(v)') = {}
  BY <1>1, <1>6 DEF TrunkInv
<1>17. \A u, v \in Trunks : u # v => ToSet(Returned(u)') \cap ToSet(Returned(v)') = {}
  BY <1>15, <1>16
<1>18. out' \in [Trunks -> Seq(Rows)] /\ order' = order
  BY <1>2
<1> QED
  BY <1>3, <1>4, <1>5, <1>14, <1>17, <1>18 DEF TrunkInv

LEMMA GivenInSource ==
  ASSUME ListInv, Running
  PROVE Given \subseteq job.src
BY DEF ListInv, Given

LEMMA EmptyInOrder ==
  ASSUME NEW o
  PROVE <<>> \in Seq(Rows) /\ Ordered(o, <<>>) /\ IsInjective(<<>>) /\ ToSet(<<>>) = {}
BY DEF Ordered, IsInjective, ToSet

LEMMA TrunksBegin ==
  ASSUME LakeInv, Begins
  PROVE TrunkInv'
<1>1. PICK kind \in Kinds, pred \in Predicates, src \in SUBSET objs, ts \in SUBSET Trunks :
        Start(kind, pred, src, ts)
  BY BeginStep
<1>2. /\ trunk' = [t \in Trunks |-> [pc |-> IF t \in ts THEN "pull" ELSE "done", left |-> <<>>]]
      /\ out' = [t \in Trunks |-> <<>>]
  BY <1>1 DEF Start
<1>3. \A t \in Trunks : Returned(t)' = <<>>
  <2> SUFFICES ASSUME NEW t \in Trunks PROVE out'[t] \o trunk'[t].left = <<>>
    BY DEF Returned
  <2>1. out'[t] = <<>> /\ trunk'[t].left = <<>>
    BY <1>2
  <2> QED
    BY <2>1
<1>4. /\ trunk' \in [Trunks -> [pc : {"pull", "scan", "done"}, left : Seq(Rows)]]
      /\ out' \in [Trunks -> Seq(Rows)]
      /\ \A t \in Trunks : trunk'[t].pc # "scan" => trunk'[t].left = <<>>
  BY <1>2, EmptyInOrder
<1>5. /\ \A t \in Trunks :
           /\ ToSet(Returned(t)') \subseteq {r \in RowsOf(Given') : Keeps(r)'}
           /\ IsInjective(Returned(t)')
           /\ Sliced' => Ordered(order', Returned(t)')
      /\ \A t, u \in Trunks : t # u => ToSet(Returned(t)') \cap ToSet(Returned(u)') = {}
  BY <1>3, EmptyInOrder
<1> QED
  BY <1>4, <1>5 DEF TrunkInv

LEMMA TrunksPull ==
  ASSUME LakeInv, NEW t \in Trunks, Pulls(t)
  PROVE TrunkInv'
<1> DEFINE next == PullParent
           P == ToSet(next.part)
<1>1. /\ Running /\ Pulled(next) /\ UNCHANGED <<order, objs, job, out, writer, mgr, faults>>
      /\ ListInv' /\ Given' = Given \cup P /\ trunk[t].pc = "pull"
  BY PullStep
<1>2. trunk' = trunk \/ \E pc \in {"pull", "scan", "done"}, rs \in newScanner(next.part) \cup {<<>>} :
        trunk' = [trunk EXCEPT ![t] = [pc |-> pc, left |-> rs]] /\ (pc # "scan" => rs = <<>>)
  <2>1. CASE SequencePull(t)
    <3>1. PICK rs \in newScanner(next.part) :
             trunk' = [trunk EXCEPT ![t] = IF next.part = <<>> THEN [pc |-> "done", left |-> <<>>]
                                           ELSE [pc |-> "scan", left |-> rs]]
      BY <2>1 DEF SequencePull
    <3>2. CASE next.part = <<>>
      BY <3>1, <3>2
    <3>3. CASE next.part # <<>>
      BY <3>1, <3>3
    <3> QED
      BY <3>2, <3>3
  <2>2. CASE nextDeletion(t)
    <3>1. PICK rs \in newScanner(next.part) :
             trunk' = [trunk EXCEPT ![t] =
                CASE next.part = <<>> -> [pc |-> "done", left |-> <<>>]
                  [] next.part # <<>> /\ hasDeletes(next.part[1]) -> [pc |-> "scan", left |-> rs]
                  [] OTHER -> @]
      BY <2>2 DEF nextDeletion
    <3>2. CASE next.part = <<>>
      BY <3>1, <3>2
    <3>3. CASE next.part # <<>> /\ hasDeletes(next.part[1])
      BY <3>1, <3>3
    <3>4. CASE next.part # <<>> /\ ~hasDeletes(next.part[1])
      <4>1. trunk' = [trunk EXCEPT ![t] = trunk[t]]
        BY <3>1, <3>4
      <4>2. trunk' = trunk
        BY <4>1 DEF LakeInv, TrunkInv
      <4> QED
        BY <4>2
    <3> QED
      BY <3>2, <3>3, <3>4
  <2> QED
    BY <2>1, <2>2 DEF Pulls
<1> HIDE DEF next
<1>3. CASE trunk' = trunk
  BY <1>1, <1>3, TrunksStay DEF LakeInv, TrunkInv
<1>4. ASSUME NEW pc \in {"pull", "scan", "done"}, NEW rs \in newScanner(next.part) \cup {<<>>},
             trunk' = [trunk EXCEPT ![t] = [pc |-> pc, left |-> rs]], pc # "scan" => rs = <<>>
      PROVE TrunkInv'
  <2>1. next.part \in Seq(job.src)
    BY <1>1 DEF Pulled
  <2>2. rs \in Seq(Rows) /\ Ordered(order, rs) /\ IsInjective(rs)
        /\ ToSet(rs) \subseteq {r \in RowsOf(P) : Keeps(r)}
    BY <1>1, <1>4, <2>1, ScannerFacts, EmptyInOrder
  <2>3. P \subseteq Pending /\ Pending \cap Given = {}
    BY <1>1 DEF Pulled, LakeInv, ListInv
  <2>4. Given' \subseteq job.src
    <3>1. Running' /\ job' = job
      BY <1>1 DEF Running
    <3>2. Given' \subseteq job'.src
      BY <1>1, <3>1 DEF ListInv, Given
    <3> QED
      BY <3>1, <3>2
  <2>5. Sliced => \A a \in Given, b \in P : PrecedesObject(a, b)
    BY <1>1, <2>3 DEF LakeInv, ListInv
  <2> HIDE DEF P
  <2>6. job'.kind = job.kind /\ job'.pred = job.pred /\ UNCHANGED <<order, out>>
    BY <1>1
  <2>7. Given \subseteq Given' /\ P \subseteq Given' /\ P \cap Given = {}
    BY <1>1, <2>3
  <2> QED
    BY <1>1, <1>4, <2>2, <2>4, <2>5, <2>6, <2>7, TrunkGoesOn
<1> QED
  BY <1>2, <1>3, <1>4

LEMMA TrunksHand ==
  ASSUME LakeInv, NEW t \in Trunks, Hands(t)
  PROVE TrunkInv'
<1> DEFINE s == trunk[t].left
<1>1. /\ trunk[t].pc = "scan" /\ s # <<>>
      /\ out' = [out EXCEPT ![t] = Append(@, Head(s))] /\ trunk' = [trunk EXCEPT ![t].left = Tail(@)]
      /\ UNCHANGED <<order, objs, listing, slicer, parts>>
  BY HandsFrame
<1>2. job'.kind = job.kind /\ job'.pred = job.pred
  BY JobFrame
<1>3. /\ trunk \in [Trunks -> [pc : {"pull", "scan", "done"}, left : Seq(Rows)]]
      /\ out \in [Trunks -> Seq(Rows)]
      /\ \A u \in Trunks : trunk[u].pc # "scan" => trunk[u].left = <<>>
  BY DEF LakeInv, TrunkInv
<1>4. /\ Append(out[t], Head(s)) \o Tail(s) = out[t] \o s
      /\ Append(out[t], Head(s)) \in Seq(Rows) /\ Tail(s) \in Seq(Rows)
  <2>1. out[t] \in Seq(Rows) /\ s \in Seq(Rows)
    BY <1>3
  <2> HIDE DEF s
  <2> QED
    BY <1>1, <2>1, MoveHead
<1>5. trunk'[t] = [pc |-> "scan", left |-> Tail(s)] /\ out'[t] = Append(out[t], Head(s))
  BY <1>1, <1>3
<1>6. \A u \in Trunks \ {t} : trunk'[u] = trunk[u] /\ out'[u] = out[u]
  BY <1>1, <1>3
<1> HIDE DEF s
<1>7. trunk' \in [Trunks -> [pc : {"pull", "scan", "done"}, left : Seq(Rows)]]
  <2>1. trunk' = [u \in Trunks |-> trunk'[u]]
    BY <1>1, <1>3
  <2>2. ASSUME NEW u \in Trunks
        PROVE trunk'[u] \in [pc : {"pull", "scan", "done"}, left : Seq(Rows)]
    <3>1. CASE u = t
      <4> DEFINE q == Tail(s)
      <4>1. q \in Seq(Rows) /\ trunk'[t] = [pc |-> "scan", left |-> q]
        BY <1>4, <1>5
      <4> HIDE DEF q
      <4> QED
        BY <3>1, <4>1
    <3>2. CASE u # t
      BY <1>3, <1>6, <3>2
    <3> QED
      BY <3>1, <3>2
  <2> QED
    BY <2>1, <2>2
<1>8. out' \in [Trunks -> Seq(Rows)]
  BY <1>1, <1>3, <1>4
<1>9. \A u \in Trunks : trunk'[u].pc # "scan" => trunk'[u].left = <<>>
  <2> SUFFICES ASSUME NEW u \in Trunks PROVE trunk'[u].pc # "scan" => trunk'[u].left = <<>>
    OBVIOUS
  <2>1. CASE u = t
    BY <1>5, <2>1
  <2>2. CASE u # t
    BY <1>3, <1>6, <2>2
  <2> QED
    BY <2>1, <2>2
<1>10. ASSUME NEW u \in Trunks PROVE out'[u] \o trunk'[u].left = out[u] \o trunk[u].left
  <2>1. CASE u = t
    <3>1. out'[t] = Append(out[t], Head(s)) /\ trunk'[t].left = Tail(s)
      BY <1>5
    <3>2. out'[t] \o trunk'[t].left = out[t] \o s
      BY <1>4, <3>1
    <3> QED
      BY <2>1, <3>2 DEF s
  <2>2. CASE u # t
    BY <1>6, <2>2
  <2> QED
    BY <2>1, <2>2
<1>11. Given' = Given
  BY <1>1 DEF Given
<1> QED
  BY <1>1, <1>2, <1>7, <1>8, <1>9, <1>10, <1>11, TrunksStay DEF LakeInv

LEMMA TrunksStop ==
  ASSUME LakeInv, NEW t \in Trunks, Stops(t)
  PROVE TrunkInv'
<1>1. /\ trunk' = [trunk EXCEPT ![t] = [pc |-> "done", left |-> <<>>]]
      /\ UNCHANGED <<order, out, listing, slicer, parts>>
  BY DEF Stops, PullDone, ReadFails
<1>2. job'.kind = job.kind /\ job'.pred = job.pred
  BY JobFrame
<1>3. Given' = Given
  BY <1>1 DEF Given
<1>4. CASE Running
  <2>1. Given \subseteq job.src
    BY <1>4, GivenInSource DEF LakeInv
  <2> DEFINE P == {}
             rs == <<>>
             pc == "done"
  <2>2. /\ rs \in Seq(Rows) /\ Ordered(order, rs) /\ IsInjective(rs) /\ ToSet(rs) = {}
    BY EmptyInOrder
  <2>3. P \subseteq Given' /\ P \cap Given = {} /\ pc \in {"pull", "scan", "done"} /\ pc # "scan"
        /\ \A a \in Given, b \in P : PrecedesObject(a, b)
    OBVIOUS
  <2>4. trunk' = [trunk EXCEPT ![t] = [pc |-> pc, left |-> rs]]
    BY <1>1
  <2>5. ToSet(rs) \subseteq {r \in RowsOf(P) : Keeps(r)}
    BY <2>2
  <2>6. Given \subseteq Given' /\ Given' \subseteq job.src /\ (pc # "scan" => rs = <<>>)
    BY <1>3, <2>1
  <2> HIDE DEF P, rs, pc
  <2> QED
    BY <1>1, <1>2, <1>4, <2>2, <2>3, <2>4, <2>5, <2>6, TrunkGoesOn
<1>5. CASE ~Running
  <2>1. ~Running'
    BY <1>2, <1>5 DEF Running
  <2>2. /\ trunk \in [Trunks -> [pc : {"pull", "scan", "done"}, left : Seq(Rows)]]
        /\ out \in [Trunks -> Seq(Rows)]
        /\ \A u \in Trunks : trunk[u].pc # "scan" => trunk[u].left = <<>>
    BY DEF LakeInv, TrunkInv
  <2>3. /\ trunk' \in [Trunks -> [pc : {"pull", "scan", "done"}, left : Seq(Rows)]]
        /\ out' \in [Trunks -> Seq(Rows)]
        /\ \A u \in Trunks : trunk'[u].pc # "scan" => trunk'[u].left = <<>>
    BY <1>1, <2>2, EmptyInOrder
  <2> QED
    BY <2>1, <2>3 DEF TrunkInv
<1> QED
  BY <1>4, <1>5

LEMMA TrunkInvStep ==
  ASSUME LakeInv, [Next]_vars
  PROVE TrunkInv'
<1>0. TrunkInv
  BY DEF LakeInv
<1>1. CASE Begins
  BY <1>1, TrunksBegin
<1>2. CASE Finishes
  <2>1. job'.kind = "idle"
    BY <1>2 DEF Finishes, EndQuery, EndDelete, EndCompact, LakeInv, JobInv
  <2>2. trunk' = trunk /\ out' = out
    BY <1>2 DEF Finishes, EndQuery, EndDelete, EndCompact, scanVars
  <2> QED
    BY <1>0, <2>1, <2>2 DEF TrunkInv, Running
<1>3. ASSUME NEW t \in Trunks, NextScanner(t) \/ Buffers \/ Plans \/ UNCHANGED vars
      PROVE TrunkInv'
  <2>1. job'.kind = job.kind /\ job'.pred = job.pred /\ order' = order
    BY <1>3, JobFrame
  <2>2. UNCHANGED <<listing, slicer, parts>>
    BY <1>3, ListStays
  <2>3. Given' = Given
    BY <2>2 DEF Given
  <2>4. /\ trunk \in [Trunks -> [pc : {"pull", "scan", "done"}, left : Seq(Rows)]]
        /\ out \in [Trunks -> Seq(Rows)]
        /\ \A u \in Trunks : trunk[u].pc # "scan" => trunk[u].left = <<>>
    BY <1>0 DEF TrunkInv
  <2>5. /\ out' = out
        /\ trunk' = trunk \/ (trunk[t].left = <<>> /\ trunk' = [trunk EXCEPT ![t].pc = "pull"])
    <3>1. CASE NextScanner(t)
      BY <3>1 DEF NextScanner
    <3>2. CASE Buffers
      BY <3>2 DEF Buffers, flipBuffers, writeObject, writeObjectFails, Close, scanVars
    <3>3. CASE Plans
      BY <3>3 DEF Plans, Manage, BuildRun, EndOfList, EndManage, scanVars
    <3>4. CASE UNCHANGED vars
      BY <3>4 DEF vars, scanVars
    <3> QED
      BY <1>3, <3>1, <3>2, <3>3, <3>4
  <2>6. /\ trunk' \in [Trunks -> [pc : {"pull", "scan", "done"}, left : Seq(Rows)]]
        /\ \A u \in Trunks : trunk'[u].left = trunk[u].left
        /\ \A u \in Trunks : trunk'[u].pc # "scan" => trunk'[u].left = <<>>
    BY <2>4, <2>5
  <2> QED
    BY <1>0, <2>1, <2>3, <2>4, <2>5, <2>6, TrunksStay
<1>4. ASSUME NEW t \in Trunks, Pulls(t) PROVE TrunkInv'
  BY <1>4, TrunksPull
<1>5. ASSUME NEW t \in Trunks, Hands(t) PROVE TrunkInv'
  BY <1>5, TrunksHand
<1>6. ASSUME NEW t \in Trunks, Stops(t) PROVE TrunkInv'
  BY <1>6, TrunksStop
<1>7. \E t : t \in Trunks
  BY TrunksAssumption
<1> QED
  BY <1>1, <1>2, <1>3, <1>4, <1>5, <1>6, <1>7, StepKinds

----------------------------------------------------------------------------
(* The writers. *)

LEMMA AppendOrdered ==
  ASSUME NEW o, NEW s \in Seq(Rows), NEW e \in Rows, Ordered(o, s),
         \A r \in ToSet(s) : RowBefore(o, r, e)
  PROVE Append(s, e) \in Seq(Rows) /\ Ordered(o, Append(s, e))
<1>1. /\ Append(s, e) \in Seq(Rows) /\ Append(s, e)[Len(s) + 1] = e
      /\ \A i \in DOMAIN s : Append(s, e)[i] = s[i]
      /\ \A i \in DOMAIN Append(s, e) : i \in DOMAIN s \/ i = Len(s) + 1
  <2>1. Append(s, e) \in Seq(Rows)
    OBVIOUS
  <2> QED
    BY <2>1, AppendSet
<1>2. DOMAIN s = 1 .. Len(s) /\ Len(s) \in Nat
  OBVIOUS
<1> DEFINE c == Append(s, e)
<1> HIDE DEF c
<1> SUFFICES ASSUME NEW i \in DOMAIN c, NEW j \in DOMAIN c, i < j PROVE RowBefore(o, c[i], c[j])
  BY <1>1 DEF Ordered, c
<1>3. \A k \in DOMAIN s : c[k] = s[k] /\ s[k] \in ToSet(s)
  BY <1>1 DEF c, ToSet
<1>4. i \in DOMAIN s
  <2>1. (i \in DOMAIN s \/ i = Len(s) + 1) /\ (j \in DOMAIN s \/ j = Len(s) + 1)
    BY <1>1 DEF c
  <2> QED
    BY <1>2, <2>1
<1>5. CASE j \in DOMAIN s
  BY <1>3, <1>4, <1>5 DEF Ordered
<1>6. CASE j = Len(s) + 1
  BY <1>1, <1>3, <1>4, <1>6 DEF c
<1> QED
  BY <1>1, <1>5, <1>6 DEF c

LEMMA WriterType ==
  ASSUME LakeInv
  PROVE /\ writer.vals \in Seq(Rows) /\ writer.recs \in Seq(Rows)
        /\ writer.objects \in Seq(ToSet(writer.objects))
        /\ writer.flip \in BOOLEAN /\ writer.closing \in BOOLEAN
        /\ writer.buffer \in {"free", "busy", "closed"}
BY DEF LakeInv, WriterInv

(* A writer makes objects of sorted rows. *)
LEMMA MadeIsWritten ==
  ASSUME NEW rs \in Seq(Rows), rs # <<>>, Ordered(order, rs)
  PROVE Written(order, MadeObject(rs)) /\ MadeObject(rs).rows = rs
BY NewIsWritten DEF MadeObject

(* A new writer holds nothing. *)
LEMMA NewWriterIsEmpty ==
  /\ ToSet(NewWriter.vals) = {} /\ ToSet(NewWriter.recs) = {} /\ ToSet(NewWriter.objects) = {}
  /\ NewWriter.vals = <<>> /\ NewWriter.recs = <<>> /\ NewWriter.objects = <<>>
  /\ NewWriter.flip = FALSE /\ NewWriter.closing = FALSE /\ NewWriter.buffer = "free"
  /\ NewWriter \in [vals : Seq(Rows), flip : BOOLEAN, closing : BOOLEAN,
                    buffer : {"free", "busy", "closed"}, recs : Seq(Rows),
                    objects : Seq(ToSet(NewWriter.objects))]
<1>1. ToSet(<<>>) = {} /\ <<>> \in Seq(Rows) /\ <<>> \in Seq({})
  BY EmptyInOrder
<1> QED
  BY <1>1 DEF NewWriter

LEMMA WriterBegins ==
  ASSUME LakeInv, Begins
  PROVE WriterInv'
<1>1. PICK kind \in Kinds, pred \in Predicates, src \in SUBSET objs, ts \in SUBSET Trunks :
        /\ Start(kind, pred, src, ts) /\ job.result # "deleted"
        /\ kind = "compact" => src = InRun /\ ts = {TheTrunk} /\ mgr.pc \in {"send", "last"}
  BY BeginStep
<1>2. writer' = NewWriter
  BY <1>1 DEF Start
<1>3. /\ Pending' = src /\ job'.kind = kind /\ job'.src = src
  BY <1>1, StartLists
<1>4. DeleteInv'
  BY <1>2, NewWriterIsEmpty DEF DeleteInv
<1>5. ASSUME kind = "compact" PROVE CompactInv'
  <2>1. /\ trunk' = [t \in Trunks |-> [pc |-> IF t = TheTrunk THEN "pull" ELSE "done", left |-> <<>>]]
        /\ out' = [t \in Trunks |-> <<>>]
    BY <1>1, <1>5 DEF Start
  <2>2. TheTrunk \in Trunks
    BY TrunksAssumption DEF TheTrunk
  <2>3. src # {}
    <3>1. mgr.run # <<>> /\ mgr.run \in Seq(ToSet(mgr.run)) /\ src = ToSet(mgr.run)
      BY <1>1, <1>5 DEF LakeInv, MgrInv, MgrRecord, RunInv, InRun
    <3> QED
      BY <3>1, SelfSeq
  <2>4. RowsOf({}) = {}
    BY DEF RowsOf
  <2>5. trunk'[TheTrunk].pc = "pull" /\ Pending' # {} /\ out'[TheTrunk] = <<>>
    BY <1>3, <2>1, <2>2, <2>3
  <2>6. \A t \in Trunks \ {TheTrunk} : trunk'[t].pc = "done" /\ out'[t] = <<>>
    BY <2>1
  <2>7. Ordered(order', <<>>)
    BY EmptyInOrder
  <2>8. DOMAIN NewWriter.objects = {}
    BY NewWriterIsEmpty
  <2>9. writer'.vals = <<>> /\ writer'.objects = <<>> /\ ToSet(writer'.vals) = {}
        /\ ToSet(writer'.objects) = {} /\ DOMAIN writer'.objects = {}
        /\ ~writer'.flip /\ ~writer'.closing /\ writer'.buffer = "free" /\ writer'.recs = <<>>
    BY <1>2, <2>8, NewWriterIsEmpty
  <2>10. ToSet(out'[TheTrunk]) = {}
    BY <2>5, EmptyInOrder
  <2> QED
    BY <2>4, <2>5, <2>6, <2>7, <2>9, <2>10 DEF CompactInv
<1>6. ASSUME kind # "compact" PROVE CompactInv'
  BY <1>3, <1>6 DEF CompactInv
<1> QED
  BY <1>2, <1>4, <1>5, <1>6, NewWriterIsEmpty DEF WriterInv

LEMMA WriterFinishes ==
  ASSUME LakeInv, Finishes
  PROVE WriterInv'
<1>1. job'.kind = "idle"
  BY DEF Finishes, EndQuery, EndDelete, EndCompact, LakeInv, JobInv
<1>2. writer' = NewWriter
  <2>1. CASE EndQuery
    BY <2>1 DEF EndQuery, LakeInv, WriterInv
  <2>2. CASE EndDelete
    BY <2>2 DEF EndDelete
  <2>3. CASE EndCompact
    BY <2>3 DEF EndCompact
  <2> QED
    BY <2>1, <2>2, <2>3 DEF Finishes
<1>3. DeleteInv' /\ CompactInv'
  BY <1>1 DEF DeleteInv, CompactInv
<1> QED
  BY <1>2, <1>3, NewWriterIsEmpty DEF WriterInv

(* The writer is left alone. *)
LEMMA WriterStays ==
  ASSUME LakeInv, UNCHANGED <<order, writer>>, job'.kind = job.kind, job'.src = job.src,
         job.kind = "compact" => CompactInv'
  PROVE WriterInv'
<1>1. DeleteInv'
  BY DEF LakeInv, WriterInv, DeleteInv
<1>2. CompactInv'
  <2>1. CASE job.kind = "compact"
    BY <2>1
  <2>2. CASE job.kind # "compact"
    BY <2>2 DEF CompactInv
  <2> QED
    BY <2>1, <2>2
<1> QED
  BY <1>1, <1>2 DEF LakeInv, WriterInv

LEMMA CompactStays ==
  ASSUME LakeInv, job.kind = "compact", UNCHANGED <<order, writer, out>>, job'.kind = job.kind,
         \A t \in Trunks \ {TheTrunk} : trunk'[t].pc = "done",
         ~job'.err /\ out[TheTrunk] = <<>> =>
           \/ trunk'[TheTrunk].left # <<>>
           \/ trunk'[TheTrunk].pc = "pull" /\ Pending' # {}
  PROVE CompactInv'
<1>1. CompactInv
  BY DEF LakeInv, WriterInv
<1> QED
  BY <1>1 DEF CompactInv, PrecedesObject

LEMMA CompactTrunk ==
  ASSUME LakeInv, job.kind = "compact", NEW t \in Trunks, trunk[t].pc # "done"
  PROVE t = TheTrunk
BY DEF LakeInv, WriterInv, CompactInv

LEMMA CompactRunning ==
  ASSUME job.kind = "compact"
  PROVE /\ Running /\ Sliced
        /\ \A obj : ~Pruned(obj)
        /\ \A r : Keeps(r)
BY DEF Running, Sliced, Pruned, Keeps

LEMMA CompactPulls ==
  ASSUME LakeInv, NEW t \in Trunks, Pulls(t), job.kind = "compact"
  PROVE CompactInv'
<1> DEFINE next == PullParent
<1>1. /\ trunk[t].pc = "pull" /\ ~job.err /\ Pulled(next) /\ Running
      /\ UNCHANGED <<order, objs, job, out, writer, mgr, faults>>
  BY PullStep
<1>2. t = TheTrunk
  BY <1>1, CompactTrunk
<1>3. SequencePull(t)
  BY DEF Pulls, nextDeletion
<1>4. PICK rs \in newScanner(next.part) :
        trunk' = [trunk EXCEPT ![t] = IF next.part = <<>> THEN [pc |-> "done", left |-> <<>>]
                                      ELSE [pc |-> "scan", left |-> rs]]
  BY <1>3 DEF SequencePull
<1> HIDE DEF next
<1>5. /\ trunk \in [Trunks -> [pc : {"pull", "scan", "done"}, left : Seq(Rows)]]
      /\ trunk[t].left = <<>>
  BY <1>1 DEF LakeInv, TrunkInv
<1>6. \A u \in Trunks \ {TheTrunk} : trunk'[u].pc = "done"
  BY <1>2, <1>4, <1>5 DEF LakeInv, WriterInv, CompactInv
<1>7. ASSUME out[TheTrunk] = <<>> PROVE trunk'[TheTrunk].left # <<>>
  <2>1. Pending # {}
    BY <1>1, <1>2, <1>5, <1>7 DEF LakeInv, WriterInv, CompactInv
  <2>2. next.part # <<>> /\ next.part \in Seq(job.src)
    BY <1>1, <2>1, CompactRunning, EmptyInOrder DEF Pulled
  <2>3. trunk'[t].left = rs
    BY <1>4, <1>5, <2>2
  <2>4. 1 \in DOMAIN next.part /\ next.part[1] \in job.src
    BY <2>2
  <2>5. Written(order, next.part[1]) /\ order \in {"asc", "desc"}
    BY <1>1, <2>4 DEF LakeInv, DataInv, JobInv
  <2>6. ToSet(Read(next.part[1])) = ToSet(next.part[1].rows)
    BY <2>5, ReadFacts, CompactRunning
  <2>7. ToSet(next.part[1].rows) # {}
    <3>1. next.part[1].rows \in Seq(Rows) /\ next.part[1].rows # <<>>
      BY <2>5, WrittenFacts
    <3> QED
      BY <3>1, SelfSeq
  <2>8. ToSet(rs) = UNION {ToSet(Read(next.part[i])) : i \in DOMAIN next.part}
    BY <1>1, <1>4, <2>2, ScannerFacts
  <2>9. ToSet(rs) # {}
    BY <2>4, <2>6, <2>7, <2>8
  <2>10. rs # <<>>
    BY <2>9, EmptyInOrder
  <2> QED
    BY <1>2, <2>3, <2>10
<1> QED
  BY <1>1, <1>6, <1>7, CompactStays

(* A row is handed to the SortedWriter. *)
LEMMA CompactHands ==
  ASSUME LakeInv, NEW t \in Trunks, CompactRow(t)
  PROVE WriterInv'
<1> DEFINE row == Head(trunk[t].left)
           v == writer.vals
           O == writer.objects
           w == out[t]
<1>1. /\ Hands(t) /\ job.kind = "compact"
  BY DEF Hands, CompactRow
<1>2. /\ trunk[t].pc = "scan" /\ trunk[t].left # <<>> /\ ~job.err
      /\ out' = [out EXCEPT ![t] = Append(@, row)]
      /\ trunk' = [trunk EXCEPT ![t].left = Tail(@)]
      /\ UNCHANGED <<order, objs, listing, slicer, parts, deletes, mgr, faults>>
      /\ job' = job
  BY <1>1, HandsFrame
<1>3. PICK full \in BOOLEAN :
        /\ full => v # <<>> /\ ~SameKey(Last(v).key, row.key)
        /\ writer' = IF full THEN [writer EXCEPT !.objects = Append(@, MadeObject(writer.vals)),
                                                 !.vals = <<row>>]
                     ELSE [writer EXCEPT !.vals = Append(@, row)]
  BY DEF CompactRow, Returns, WriteSorted
<1>4. t = TheTrunk
  BY <1>1, <1>2, CompactTrunk
<1>5. /\ trunk \in [Trunks -> [pc : {"pull", "scan", "done"}, left : Seq(Rows)]]
      /\ out \in [Trunks -> Seq(Rows)]
      /\ Ordered(order, w \o trunk[t].left)
  BY <1>1, CompactRunning DEF LakeInv, TrunkInv, Returned
<1>6. row \in Rows /\ (\A r \in ToSet(w) : RowBefore(order, r, row)) /\ w \in Seq(Rows)
  <2> DEFINE s == trunk[t].left
  <2>1. w \in Seq(Rows) /\ s \in Seq(Rows) /\ s # <<>> /\ Ordered(order, w \o s)
    BY <1>2, <1>5
  <2> HIDE DEF s, w
  <2>2. Head(s) \in ToSet(s)
    BY <2>1, MoveHead
  <2>3. Head(s) \in Rows
    BY <2>1, <2>2, SelfSeq
  <2>4. \A r \in ToSet(w) : RowBefore(order, r, Head(s))
    BY <2>1, <2>2, ConcatOrdered
  <2> QED
    BY <2>1, <2>3, <2>4 DEF s
<1>7. /\ v \in Seq(Rows) /\ O \in Seq(ToSet(O)) /\ Ordered(order, v)
      /\ ToSet(w) = ToSet(v) \cup RowsOf(ToSet(O))
      /\ w # <<>> => v # <<>>
      /\ \A i, j \in DOMAIN O : i < j => PrecedesObject(O[i], O[j])
      /\ \A obj \in ToSet(O), r \in ToSet(v) : Before(order, To(order, obj), r.key)
      /\ \A obj \in ToSet(O) : Written(order, obj)
      /\ order \in {"asc", "desc"}
      /\ writer \in [vals : Seq(Rows), flip : BOOLEAN, closing : BOOLEAN,
                     buffer : {"free", "busy", "closed"}, recs : Seq(Rows), objects : Seq(ToSet(O))]
      /\ ~writer.flip /\ ~writer.closing /\ writer.buffer = "free" /\ writer.recs = <<>>
      /\ \A u \in Trunks \ {t} : trunk[u].pc = "done" /\ out[u] = <<>>
  BY <1>1, <1>4 DEF LakeInv, DataInv, WriterInv, CompactInv
<1>8. /\ out'[t] = Append(w, row)
      /\ \A u \in Trunks \ {t} : trunk'[u].pc = "done" /\ out'[u] = <<>>
      /\ order' = order /\ job' = job
  BY <1>2, <1>5, <1>7
<1> HIDE DEF row, v, O, w
<1>9. \A r \in ToSet(v) : r \in Rows /\ RowBefore(order, r, row) /\ ~Before(order, row.key, r.key)
                          /\ r.key \in Keys
  <2>1. \A r \in ToSet(v) : r \in Rows /\ RowBefore(order, r, row)
    BY <1>6, <1>7, SelfSeq
  <2> QED
    BY <1>6, <2>1, RowBeforeIsOrder DEF Rows
<1>10. ASSUME NEW obj \in ToSet(O) PROVE Before(order, To(order, obj), row.key)
  <2>1. Written(order, obj)
    BY <1>7
  <2>2. To(order, obj) \in Keys /\ obj.rows \in Seq(Rows) /\ obj.rows # <<>>
    BY <1>7, <2>1, WrittenOrder, WrittenFacts
  <2>3. ToSet(obj.rows) # {} /\ ToSet(obj.rows) \subseteq ToSet(w)
    <3>1. ToSet(obj.rows) \subseteq RowsOf(ToSet(O))
      BY DEF RowsOf
    <3>2. ToSet(obj.rows) # {}
      BY <2>2, SelfSeq
    <3>3. RowsOf(ToSet(O)) \subseteq ToSet(w)
      BY <1>7
    <3> QED
      BY <3>1, <3>2, <3>3
  <2>4. w # <<>>
    BY <2>3, EmptyInOrder
  <2>5. PICK r \in ToSet(v) : TRUE
    BY <1>7, <2>4, SelfSeq
  <2>6. Before(order, To(order, obj), r.key) /\ r.key \in Keys /\ ~Before(order, row.key, r.key)
    BY <1>7, <1>9
  <2> QED
    BY <1>6, <2>2, <2>6, BeforeIsOrder DEF Rows
<1>11. ToSet(out'[t]) = ToSet(w) \cup {row} /\ out'[t] # <<>>
  <2>1. ToSet(Append(w, row)) = ToSet(w) \cup {row}
    BY <1>6, AppendSet
  <2>2. Append(w, row) # <<>>
    BY <2>1, EmptyInOrder
  <2> QED
    BY <1>8, <2>1, <2>2
<1> DEFINE Good(nv, nO) ==
      /\ nv \in Seq(Rows) /\ nO \in Seq(ToSet(nO)) /\ nv # <<>> /\ Ordered(order, nv)
      /\ ToSet(w) \cup {row} = ToSet(nv) \cup RowsOf(ToSet(nO))
      /\ \A i, j \in DOMAIN nO : i < j => PrecedesObject(nO[i], nO[j])
      /\ \A obj \in ToSet(nO), r \in ToSet(nv) : Before(order, To(order, obj), r.key)
      /\ \A obj \in ToSet(nO) : Written(order, obj)
<1>12. Good(writer'.vals, writer'.objects)
  <2>1. CASE ~full
    <3>1. writer'.vals = Append(v, row) /\ writer'.objects = O
      BY <1>3, <1>7, <2>1 DEF v, O
    <3>2. Append(v, row) \in Seq(Rows) /\ Ordered(order, Append(v, row))
      BY <1>6, <1>7, <1>9, AppendOrdered
    <3>3. ToSet(Append(v, row)) = ToSet(v) \cup {row}
      BY <1>7, AppendSet
    <3>4. Append(v, row) # <<>>
      BY <3>3, EmptyInOrder
    <3> QED
      BY <1>7, <1>10, <3>1, <3>2, <3>3, <3>4
  <2>2. CASE full
    <3> DEFINE M == MadeObject(v)
               nO == Append(O, M)
    <3>1. writer'.vals = <<row>> /\ writer'.objects = nO
      BY <1>3, <1>7, <2>2 DEF v, O
    <3>2. v # <<>> /\ ~SameKey(Last(v).key, row.key)
      BY <1>3, <2>2
    <3>3. Written(order, M) /\ M.rows = v
      BY <1>7, <3>2, MadeIsWritten
    <3>4. /\ nO \in Seq(ToSet(nO)) /\ ToSet(nO) = ToSet(O) \cup {M}
          /\ nO[Len(O) + 1] = M
          /\ \A i \in DOMAIN O : nO[i] = O[i]
          /\ \A i \in DOMAIN nO : i \in DOMAIN O \/ i = Len(O) + 1
      BY <1>7, AppendSet
    <3> HIDE DEF M, nO
    <3>5. 1 \in DOMAIN v /\ Len(v) \in DOMAIN v /\ Last(v) = v[Len(v)]
      BY <1>7, <3>2 DEF Last
    <3>6. v[1] \in ToSet(v) /\ Last(v) \in ToSet(v)
      BY <3>5 DEF ToSet
    <3>7. From(order, M) = KeyOf(v[1]) /\ To(order, M) = KeyOf(Last(v))
      BY <1>7, <3>3, <3>5, WrittenFacts
    <3>8. Before(order, To(order, M), row.key)
      <4>1. Last(v) \in Rows /\ Last(v).key \in Keys /\ ~Before(order, row.key, Last(v).key)
        BY <1>9, <3>6
      <4>2. row.key \in Keys
        BY <1>6 DEF Rows
      <4>3. Before(order, Last(v).key, row.key)
        BY <3>2, <4>1, <4>2, BeforeIsOrder
      <4> QED
        BY <3>7, <4>1, <4>2, <4>3, KeyOfRow
    <3>9. \A obj \in ToSet(O) : PrecedesObject(obj, M)
      <4> SUFFICES ASSUME NEW obj \in ToSet(O) PROVE Before(order, To(order, obj), From(order, M))
        BY DEF PrecedesObject
      <4>1. Before(order, To(order, obj), v[1].key) /\ v[1] \in Rows /\ Written(order, obj)
        BY <1>7, <1>9, <3>6
      <4>2. To(order, obj) \in Keys
        BY <1>7, <4>1, WrittenOrder
      <4> QED
        BY <3>7, <4>1, <4>2, KeyOfRow
    <3>10. \A i, j \in DOMAIN nO : i < j => PrecedesObject(nO[i], nO[j])
      <4> SUFFICES ASSUME NEW i \in DOMAIN nO, NEW j \in DOMAIN nO, i < j
                   PROVE PrecedesObject(nO[i], nO[j])
        OBVIOUS
      <4>1. DOMAIN O = 1 .. Len(O) /\ Len(O) \in Nat
        BY <1>7
      <4>2. i \in DOMAIN O
        BY <3>4, <4>1
      <4>3. CASE j \in DOMAIN O
        BY <1>7, <3>4, <4>2, <4>3
      <4>4. CASE j = Len(O) + 1
        <5>1. O[i] \in ToSet(O)
          BY <4>2 DEF ToSet
        <5> QED
          BY <3>4, <3>9, <4>2, <4>4, <5>1
      <4> QED
        BY <3>4, <4>3, <4>4
    <3>11. ToSet(<<row>>) = {row} /\ <<row>> \in Seq(Rows) /\ <<row>> # <<>>
      BY <1>6, OneSeq
    <3>12. Ordered(order, <<row>>)
      <4>1. DOMAIN <<row>> = {1}
        OBVIOUS
      <4> QED
        BY <4>1 DEF Ordered
    <3>13. RowsOf(ToSet(nO)) = RowsOf(ToSet(O)) \cup ToSet(v)
      BY <3>3, <3>4 DEF RowsOf
    <3>14. \A obj \in ToSet(nO), r \in {row} : Before(order, To(order, obj), r.key)
      BY <1>10, <3>4, <3>8
    <3>15. \A obj \in ToSet(nO) : Written(order, obj)
      BY <1>7, <3>3, <3>4
    <3> QED
      BY <1>7, <3>1, <3>4, <3>10, <3>11, <3>12, <3>13, <3>14, <3>15
  <2> QED
    BY <2>1, <2>2
<1>13. writer' \in [vals : Seq(Rows), flip : BOOLEAN, closing : BOOLEAN,
                    buffer : {"free", "busy", "closed"}, recs : Seq(Rows),
                    objects : Seq(ToSet(writer'.objects))]
       /\ ~writer'.flip /\ ~writer'.closing /\ writer'.buffer = "free" /\ writer'.recs = <<>>
  <2>1. /\ writer'.flip = writer.flip /\ writer'.closing = writer.closing
        /\ writer'.buffer = writer.buffer /\ writer'.recs = writer.recs
        /\ writer' = [vals |-> writer'.vals, flip |-> writer'.flip, closing |-> writer'.closing,
                      buffer |-> writer'.buffer, recs |-> writer'.recs, objects |-> writer'.objects]
    BY <1>3, <1>7
  <2> QED
    BY <1>7, <1>12, <2>1
<1>14. DeleteInv'
  BY <1>1, <1>8 DEF DeleteInv
<1>15. CompactInv'
  <2>1. Good(writer'.vals, writer'.objects)
    BY <1>12
  <2> HIDE DEF Good
  <2>2. /\ writer'.vals # <<>> /\ Ordered(order, writer'.vals)
        /\ ToSet(w) \cup {row} = ToSet(writer'.vals) \cup RowsOf(ToSet(writer'.objects))
        /\ \A i, j \in DOMAIN writer'.objects : i < j =>
             Before(order, To(order, writer'.objects[i]), From(order, writer'.objects[j]))
        /\ \A obj \in ToSet(writer'.objects), r \in ToSet(writer'.vals) :
             Before(order, To(order, obj), r.key)
    BY <2>1 DEF Good, PrecedesObject
  <2> QED
    BY <1>4, <1>8, <1>11, <1>13, <2>2 DEF CompactInv, PrecedesObject
<1>16. \A obj \in ToSet(writer'.objects) : Written(order', obj)
  BY <1>8, <1>12
<1>17. job'.kind = "compact"
  BY <1>1, <1>8
<1> QED
  BY <1>13, <1>14, <1>15, <1>16, <1>17 DEF WriterInv

----------------------------------------------------------------------------
(* A delete's writer. *)

LEMMA OnlyDeletesBuffer ==
  ASSUME LakeInv, writer.flip \/ writer.buffer # "free" \/ writer.closing
  PROVE job.kind = "delete"
<1>1. CASE job.kind \notin {"delete", "compact"}
  BY <1>1, NewWriterIsEmpty DEF LakeInv, WriterInv
<1>2. CASE job.kind = "compact"
  BY <1>2 DEF LakeInv, WriterInv, CompactInv
<1> QED
  BY <1>1, <1>2

LEMMA DeleteHands ==
  ASSUME LakeInv, NEW t \in Trunks, DeleterRow(t)
  PROVE WriterInv'
<1> DEFINE row == Head(trunk[t].left)
<1>1. Hands(t) /\ job.kind = "delete"
  BY DEF Hands, DeleterRow
<1>2. /\ trunk[t].left # <<>> /\ Running /\ order' = order
  BY <1>1, HandsFrame
<1>3. job'.kind = job.kind /\ job'.src = job.src
  BY <1>1, JobFrame
<1>4. \/ writer' = writer
      \/ writer' = [writer EXCEPT !.vals = Append(@, row),
                                  !.flip = Len(writer.vals) + 1 >= Threshold]
  BY DEF DeleterRow, Returns, WriteRow
<1>5. row \in Rows /\ row \in RowsOf(job.src)
  <2> DEFINE s == trunk[t].left
             w == out[t]
  <2>1. s \in Seq(Rows) /\ s # <<>> /\ w \in Seq(Rows) /\ ToSet(w \o s) \subseteq RowsOf(Given)
    BY <1>2 DEF LakeInv, TrunkInv, Returned
  <2> HIDE DEF s, w
  <2>2. Head(s) \in ToSet(s) /\ ToSet(s) \subseteq ToSet(w \o s) /\ ToSet(s) \subseteq Rows
    BY <2>1, MoveHead, ConcatSets, SelfSeq
  <2>3. RowsOf(Given) \subseteq RowsOf(job.src)
    BY <1>2, GivenInSource DEF RowsOf, LakeInv
  <2> QED
    BY <2>1, <2>2, <2>3 DEF s
<1> HIDE DEF row
<1>6. /\ writer \in [vals : Seq(Rows), flip : BOOLEAN, closing : BOOLEAN,
                     buffer : {"free", "busy", "closed"}, recs : Seq(Rows),
                     objects : Seq(ToSet(writer.objects))]
      /\ ToSet(writer.vals) \cup ToSet(writer.recs) \subseteq RowsOf(job.src)
      /\ writer.flip => writer.vals # <<>>
      /\ writer.buffer = "busy" => writer.recs # <<>>
      /\ \A obj \in ToSet(writer.objects) : Written(order, obj)
  BY <1>1 DEF LakeInv, WriterInv, DeleteInv
<1>7. CASE writer' = writer
  BY <1>1, <1>2, <1>3, <1>7, WriterStays
<1>8. CASE writer' = [writer EXCEPT !.vals = Append(@, row),
                                    !.flip = Len(writer.vals) + 1 >= Threshold]
  <2>1. /\ ToSet(Append(writer.vals, row)) = ToSet(writer.vals) \cup {row}
        /\ Append(writer.vals, row) \in Seq(Rows)
    <3>1. writer.vals \in Seq(Rows)
      BY <1>6
    <3> QED
      BY <1>5, <3>1, AppendSet
  <2>2. Append(writer.vals, row) # <<>>
    BY <2>1, EmptyInOrder
  <2> DEFINE nv == Append(writer.vals, row)
             nf == (Len(writer.vals) + 1 >= Threshold)
  <2>3. nv \in Seq(Rows) /\ nf \in BOOLEAN /\ writer' = [writer EXCEPT !.vals = nv, !.flip = nf]
    BY <1>6, <1>8, <2>1
  <2> HIDE DEF nv, nf
  <2>4. /\ writer'.vals = nv /\ writer'.recs = writer.recs /\ writer'.objects = writer.objects
        /\ writer'.buffer = writer.buffer
        /\ writer' \in [vals : Seq(Rows), flip : BOOLEAN, closing : BOOLEAN,
                        buffer : {"free", "busy", "closed"}, recs : Seq(Rows),
                        objects : Seq(ToSet(writer.objects))]
    BY <1>6, <2>3
  <2>5. DeleteInv'
    BY <1>3, <1>5, <1>6, <2>1, <2>2, <2>4 DEF DeleteInv, nv
  <2>6. CompactInv'
    BY <1>1, <1>3 DEF CompactInv
  <2> QED
    BY <1>1, <1>2, <1>3, <1>6, <2>4, <2>5, <2>6 DEF WriterInv
<1> QED
  BY <1>4, <1>7, <1>8

LEMMA SourceIsStored ==
  ASSUME LakeInv, Running, NEW rs, rs \subseteq RowsOf(job.src)
  PROVE IsFiniteSet(rs) /\ Distinct(rs)
<1>1. job.result # "deleted" /\ job.src \subseteq objs /\ order \in {"asc", "desc"}
      /\ \A obj \in objs : Written(order, obj)
  BY DEF LakeInv, JobInv, DataInv
<1>2. IsFiniteSet(objs) /\ Distinct(RowsOf(objs))
  BY <1>1 DEF LakeInv, DataInv, Stored
<1>3. \A obj \in objs : obj.rows \in Seq(Rows)
  BY <1>1, WrittenFacts
<1>4. IsFiniteSet(RowsOf(objs))
  BY <1>2, <1>3, RowsFinite
<1>5. rs \subseteq RowsOf(objs)
  BY <1>1 DEF RowsOf
<1> QED
  BY <1>2, <1>4, <1>5, FS_Subset DEF Distinct

LEMMA WriterBuffers ==
  ASSUME LakeInv, Buffers
  PROVE WriterInv'
<1>1. job.kind = "delete"
  BY OnlyDeletesBuffer DEF Buffers, flipBuffers, writeObject, writeObjectFails, Close
<1>2. order' = order /\ job' = job
  BY DEF Buffers, flipBuffers, writeObject, writeObjectFails, Close
<1>3. /\ writer \in [vals : Seq(Rows), flip : BOOLEAN, closing : BOOLEAN,
                     buffer : {"free", "busy", "closed"}, recs : Seq(Rows),
                     objects : Seq(ToSet(writer.objects))]
      /\ ToSet(writer.vals) \cup ToSet(writer.recs) \subseteq RowsOf(job.src)
      /\ writer.flip => writer.vals # <<>>
      /\ writer.buffer = "busy" => writer.recs # <<>>
      /\ \A obj \in ToSet(writer.objects) : Written(order, obj)
  BY <1>1 DEF LakeInv, WriterInv, DeleteInv
<1>4. CompactInv'
  BY <1>1, <1>2 DEF CompactInv
<1>5. CASE flipBuffers
  <2>1. CASE writer.buffer = "closed"
    <3>1. writer' = [writer EXCEPT !.flip = FALSE]
      BY <1>5, <2>1 DEF flipBuffers
    <3> QED
      BY <1>1, <1>2, <1>3, <1>4, <3>1 DEF WriterInv, DeleteInv
  <2>2. CASE writer.buffer # "closed"
    <3>1. /\ writer' = [writer EXCEPT !.flip = FALSE, !.buffer = "busy",
                                      !.recs = writer.vals, !.vals = <<>>]
          /\ writer.flip
      BY <1>5, <2>2 DEF flipBuffers
    <3>2. /\ writer'.vals = <<>> /\ writer'.recs = writer.vals /\ writer'.objects = writer.objects
          /\ writer'.flip = FALSE
          /\ writer' \in [vals : Seq(Rows), flip : BOOLEAN, closing : BOOLEAN,
                          buffer : {"free", "busy", "closed"}, recs : Seq(Rows),
                          objects : Seq(ToSet(writer.objects))]
      BY <1>3, <3>1, EmptyInOrder
    <3> QED
      BY <1>1, <1>2, <1>3, <1>4, <3>1, <3>2, EmptyInOrder DEF WriterInv, DeleteInv
  <2> QED
    BY <2>1, <2>2
<1>6. CASE writeObject
  <2> DEFINE rs == Sorted(order, ToSet(writer.recs))
             M == MadeObject(rs)
             nO == Append(writer.objects, M)
  <2>1. writer.recs # <<>> /\ writer.recs \in Seq(Rows) /\ ToSet(writer.recs) \subseteq RowsOf(job.src)
    BY <1>3, <1>6 DEF writeObject
  <2>2. IsFiniteSet(ToSet(writer.recs)) /\ Distinct(ToSet(writer.recs))
    BY <1>1, <2>1, SourceIsStored DEF Running
  <2>3. rs \in Seq(Rows) /\ Ordered(order, rs) /\ ToSet(rs) = ToSet(writer.recs)
    BY <2>2, SortedRows
  <2>4. writer' = [writer EXCEPT !.buffer = "free", !.recs = <<>>, !.objects = nO]
    BY <1>6 DEF writeObject
  <2> HIDE DEF rs
  <2>5. rs # <<>>
    BY <2>1, <2>3, SelfSeq, EmptyInOrder
  <2>6. Written(order, M)
    BY <2>3, <2>5, MadeIsWritten
  <2> HIDE DEF M
  <2>7. nO \in Seq(ToSet(nO)) /\ ToSet(nO) = ToSet(writer.objects) \cup {M}
    <3>1. writer.objects \in Seq(ToSet(writer.objects))
      BY <1>3
    <3> QED
      BY <3>1, AppendSet
  <2> HIDE DEF nO
  <2>8. /\ writer'.vals = writer.vals /\ writer'.recs = <<>> /\ writer'.objects = nO
        /\ writer'.flip = writer.flip /\ writer'.buffer = "free"
        /\ writer' \in [vals : Seq(Rows), flip : BOOLEAN, closing : BOOLEAN,
                        buffer : {"free", "busy", "closed"}, recs : Seq(Rows),
                        objects : Seq(ToSet(nO))]
    BY <1>3, <2>4, <2>7, EmptyInOrder
  <2> QED
    BY <1>1, <1>2, <1>3, <1>4, <2>6, <2>7, <2>8, EmptyInOrder DEF WriterInv, DeleteInv
<1>7. CASE writeObjectFails
  <2>1. writer' = [writer EXCEPT !.buffer = "closed"]
    BY <1>7 DEF writeObjectFails
  <2> QED
    BY <1>1, <1>2, <1>3, <1>4, <2>1 DEF WriterInv, DeleteInv
<1>8. CASE Close
  <2>1. writer' = [writer EXCEPT !.closing = TRUE, !.flip = writer.vals # <<>>]
    BY <1>8 DEF Close
  <2> QED
    BY <1>1, <1>2, <1>3, <1>4, <2>1 DEF WriterInv, DeleteInv
<1> QED
  BY <1>5, <1>6, <1>7, <1>8 DEF Buffers

LEMMA WriterInvStep ==
  ASSUME LakeInv, [Next]_vars
  PROVE WriterInv'
<1>1. CASE Begins
  BY <1>1, WriterBegins
<1>2. CASE Finishes
  BY <1>2, WriterFinishes
<1>3. CASE Buffers
  BY <1>3, WriterBuffers
<1>4. ASSUME NEW t \in Trunks, Hands(t) PROVE WriterInv'
  <2>1. CASE QueryRow(t)
    <3>1. job.kind # "compact" /\ writer' = writer /\ order' = order
      BY <2>1 DEF QueryRow, Returns
    <3>2. job'.kind = job.kind /\ job'.src = job.src
      BY <1>4, JobFrame
    <3> QED
      BY <3>1, <3>2, WriterStays
  <2> QED
    BY <1>4, <2>1, DeleteHands, CompactHands DEF Hands
<1>5. ASSUME NEW t \in Trunks, Pulls(t) \/ NextScanner(t) \/ Stops(t) \/ Plans \/ UNCHANGED vars
      PROVE WriterInv'
  <2>1. job'.kind = job.kind /\ job'.src = job.src /\ order' = order /\ (job.err => job'.err)
    BY <1>5, JobFrame
  <2>2. writer' = writer /\ out' = out
    BY <1>5, PullStep DEF NextScanner, Stops, PullDone, ReadFails, Plans, Manage, BuildRun,
       EndOfList, EndManage, vars, scanVars
  <2>3. ASSUME job.kind = "compact" PROVE CompactInv'
    <3>1. /\ \A u \in Trunks \ {TheTrunk} : trunk[u].pc = "done"
          /\ ~job.err /\ out[TheTrunk] = <<>> =>
               \/ trunk[TheTrunk].left # <<>>
               \/ trunk[TheTrunk].pc = "pull" /\ Pending # {}
          /\ trunk \in [Trunks -> [pc : {"pull", "scan", "done"}, left : Seq(Rows)]]
      BY <2>3 DEF LakeInv, WriterInv, CompactInv, TrunkInv
    <3>2. CASE Pulls(t)
      BY <2>3, <3>2, CompactPulls
    <3>3. CASE NextScanner(t)
      <4>1. /\ trunk[t].pc = "scan" /\ trunk[t].left = <<>> /\ job' = job
            /\ trunk' = [trunk EXCEPT ![t].pc = "pull"]
        BY <3>3 DEF NextScanner
      <4>2. t = TheTrunk
        BY <2>3, <4>1, CompactTrunk
      <4>3. \A u \in Trunks \ {TheTrunk} : trunk'[u].pc = "done"
        BY <3>1, <4>1, <4>2
      <4>4. ~job.err => out[TheTrunk] # <<>>
        BY <3>1, <4>1, <4>2
      <4> QED
        BY <2>1, <2>2, <2>3, <4>1, <4>3, <4>4, CompactStays
    <3>4. CASE Stops(t)
      <4>1. ReadFails(t)
        BY <2>3, <3>4 DEF Stops, PullDone
      <4>2. job'.err /\ trunk' = [trunk EXCEPT ![t] = [pc |-> "done", left |-> <<>>]]
        BY <4>1 DEF ReadFails, LakeInv, JobInv
      <4>3. \A u \in Trunks \ {TheTrunk} : trunk'[u].pc = "done"
        BY <3>1, <4>2
      <4> QED
        BY <2>1, <2>2, <2>3, <4>2, <4>3, CompactStays
    <3>5. CASE Plans \/ UNCHANGED vars
      <4>1. trunk' = trunk
        BY <3>5 DEF Plans, Manage, BuildRun, EndOfList, EndManage, vars, scanVars
      <4>2. UNCHANGED <<listing, slicer, parts>>
        BY <3>5, ListStays
      <4>3. Pending' = Pending
        BY <4>2 DEF Pending
      <4> QED
        BY <2>1, <2>2, <2>3, <3>1, <4>1, <4>3, CompactStays
    <3> QED
      BY <1>5, <3>2, <3>3, <3>4, <3>5
  <2> QED
    BY <2>1, <2>2, <2>3, WriterStays
<1>6. \E t : t \in Trunks
  BY TrunksAssumption
<1> QED
  BY <1>1, <1>2, <1>3, <1>4, <1>5, <1>6, StepKinds

----------------------------------------------------------------------------
(* The job. *)

LEMMA MgrType ==
  ASSUME LakeInv
  PROVE /\ mgr.pc \in {"off", "scan", "send", "last", "wait", "done"}
        /\ mgr.cut \in BOOLEAN /\ mgr.err \in BOOLEAN
        /\ mgr \in [pc : {"off", "scan", "send", "last", "wait", "done"},
                    todo : Seq(ToSet(mgr.todo)), run : Seq(ToSet(mgr.run)),
                    min : {mgr.min}, max : {mgr.max}, cut : BOOLEAN, err : BOOLEAN]
BY DEF LakeInv, MgrInv, MgrRecord

(* The manager plans while no query or delete runs and the pool is as it   *)
(* was or as compactions have left it.                                     *)
LEMMA PlanFrame ==
  ASSUME LakeInv, Plans
  PROVE /\ UNCHANGED <<order, objs, job>>
        /\ mgr'.pc \in {"scan", "send", "last", "wait", "done"} /\ mgr'.err = mgr.err
        /\ job.kind \in {"idle", "compact"} /\ job.result # "deleted"
        /\ job.kind = "compact" => mgr'.pc # "done"
<1>1. /\ job.kind \in {"query", "ordered", "delete"} => mgr.pc = "off"
      /\ job.result = "deleted" => mgr.pc = "off"
      /\ mgr.pc = "off" => ~mgr.err
      /\ job.kind \in {"idle", "query", "ordered", "delete", "compact"}
  BY DEF LakeInv, JobInv, MgrInv, Kinds
<1>2. CASE Manage
  BY <1>1, <1>2, MgrType DEF Manage, NoManager, Idle
<1>3. CASE BuildRun
  <2>1. mgr'.err = mgr.err /\ mgr'.pc \in {"scan", "send"} /\ mgr.pc = "scan"
        /\ UNCHANGED <<order, objs, job>>
    BY <1>3, MgrType DEF BuildRun, AddToRun
  <2> QED
    BY <1>1, <2>1
<1>4. CASE EndOfList
  <2>1. mgr'.err = mgr.err /\ mgr'.pc \in {"last", "wait"} /\ mgr.pc = "scan"
        /\ UNCHANGED <<order, objs, job>>
    BY <1>4, MgrType DEF EndOfList
  <2> QED
    BY <1>1, <2>1
<1>5. CASE EndManage
  <2>1. mgr'.err = mgr.err /\ mgr'.pc = "done" /\ (mgr.pc = "wait" \/ mgr.err) /\ job.kind = "idle"
        /\ UNCHANGED <<order, objs, job>>
    BY <1>5, MgrType DEF EndManage
  <2> QED
    BY <1>1, <2>1
<1> QED
  BY <1>2, <1>3, <1>4, <1>5 DEF Plans

LEMMA JobBegins ==
  ASSUME LakeInv, Begins
  PROVE JobInv'
<1>1. PICK kind \in Kinds, pred \in Predicates, src \in SUBSET objs, ts \in SUBSET Trunks :
        /\ Start(kind, pred, src, ts) /\ job.result # "deleted" /\ job.kind = "idle"
        /\ \/ /\ kind # "compact" /\ src = objs /\ pred \in Preds /\ ts = Trunks
              /\ mgr.pc = "off" /\ mgr' = mgr
           \/ /\ kind = "compact" /\ src = InRun /\ ts = {TheTrunk} /\ TheTrunk \in Trunks
              /\ mgr.pc \in {"send", "last"} /\ ~mgr.err /\ SendRun
  BY BeginStep
<1>2. /\ job' = [kind |-> kind, pred |-> pred, src |-> src, err |-> FALSE, result |-> "none"]
      /\ UNCHANGED <<order, objs>>
  BY <1>1 DEF Start, Idle
<1>3. CASE kind # "compact"
  <2>1. src = objs /\ pred \in Preds /\ mgr.pc = "off" /\ mgr' = mgr
    BY <1>1, <1>3
  <2>2. \E p \in Pools : order = p.order /\ objs = p.objs
    BY <1>1, <2>1 DEF LakeInv, JobInv
  <2> QED
    BY <1>2, <1>3, <2>1, <2>2 DEF JobInv, Running, Results
<1>4. CASE kind = "compact"
  <2>1. src = InRun /\ mgr.pc \in {"send", "last"} /\ ~mgr.err /\ SendRun
    BY <1>1, <1>4
  <2>2. mgr.run # <<>> /\ mgr.run \in Seq(ToSet(mgr.run))
    BY <2>1, MgrType DEF LakeInv, MgrInv, RunInv
  <2>3. src # {}
    <3>1. src = ToSet(mgr.run)
      BY <2>1 DEF InRun
    <3> QED
      BY <2>2, <3>1, SelfSeq
  <2>4. mgr'.pc \in {"scan", "wait"} /\ mgr'.err = mgr.err
    BY <2>1, MgrType DEF SendRun, AddToRun
  <2> QED
    BY <1>2, <1>4, <2>1, <2>3, <2>4 DEF JobInv, Running, Results
<1> QED
  BY <1>3, <1>4

LEMMA JobFinishes ==
  ASSUME LakeInv, Finishes
  PROVE JobInv'
<1> DEFINE Type(j) == j \in [kind : Kinds \cup {"idle"}, pred : Predicates, src : {j.src},
                             err : BOOLEAN, result : Results]
<1>1. Type(job) /\ MgrInv
  BY DEF LakeInv, JobInv
<1>2. CASE EndQuery
  <2>1. job.kind \in {"query", "ordered"} /\ UNCHANGED <<order, objs, mgr>>
    BY <1>2 DEF EndQuery
  <2>2. mgr.pc = "off" /\ job.pred \in Preds /\ job.result \in {"none", "partial"}
        /\ \E p \in Pools : order = p.order /\ objs = p.objs
    BY <2>1 DEF LakeInv, JobInv, Running
  <2>3. job' = [job EXCEPT !.kind = "idle",
                 !.result = IF job.err THEN "error" ELSE IF @ = "none" THEN "ok" ELSE @]
    BY <1>2 DEF EndQuery
  <2>4. job'.kind = "idle" /\ job'.result \in {"error", "ok", "partial"} /\ Type(job')
        /\ job'.pred = job.pred
    BY <1>1, <2>2, <2>3 DEF Results
  <2> QED
    BY <2>1, <2>2, <2>4 DEF JobInv, Running
<1>3. CASE EndDelete
  <2>1. job.kind = "delete" /\ UNCHANGED <<order, mgr>>
    BY <1>3, OnlyDeletesBuffer DEF EndDelete
  <2>2. mgr.pc = "off" /\ job.result \in {"none", "partial"}
        /\ \E p \in Pools : order = p.order /\ objs = p.objs
    BY <2>1 DEF LakeInv, JobInv, Running
  <2> DEFINE ok == ~job.err /\ writer.buffer # "closed"
  <2>3. /\ job' = [job EXCEPT !.kind = "idle",
                       !.result = IF ~ok THEN "error"
                                  ELSE IF deletes = {} THEN "empty" ELSE "deleted"]
        /\ (ok /\ deletes # {}) \/ objs' = objs
    BY <1>3 DEF EndDelete
  <2> HIDE DEF ok
  <2>4. job'.kind = "idle" /\ job'.result \in {"error", "empty", "deleted"} /\ Type(job')
        /\ (job'.result # "deleted" => objs' = objs)
    BY <1>1, <2>2, <2>3 DEF Results
  <2> QED
    BY <2>1, <2>2, <2>4 DEF JobInv, Running
<1>4. CASE EndCompact
  <2>1. job.kind = "compact" /\ order' = order /\ mgr' = [mgr EXCEPT !.err = job.err]
    BY <1>4 DEF EndCompact
  <2>2. mgr.pc \in {"scan", "send", "last", "wait"}
    BY <2>1 DEF LakeInv, JobInv
  <2>3. job' = [job EXCEPT !.kind = "idle", !.result = IF job.err THEN "error" ELSE "compacted"]
    BY <1>4 DEF EndCompact
  <2>4. job'.kind = "idle" /\ job'.result \in {"error", "compacted"} /\ Type(job')
    BY <1>1, <2>3 DEF Results
  <2>5. mgr'.pc = mgr.pc
    BY <2>1, MgrType
  <2> QED
    BY <2>1, <2>2, <2>4, <2>5 DEF JobInv, Running
<1> QED
  BY <1>2, <1>3, <1>4 DEF Finishes

LEMMA JobInvStep ==
  ASSUME LakeInv, [Next]_vars
  PROVE JobInv'
<1>1. CASE Begins
  BY <1>1, JobBegins
<1>2. CASE Finishes
  BY <1>2, JobFinishes
<1>3. ASSUME NEW t \in Trunks,
             \/ Pulls(t) \/ NextScanner(t) \/ Hands(t) \/ Stops(t)
             \/ Buffers \/ Plans \/ UNCHANGED vars
      PROVE JobInv'
  <2>1. /\ job'.kind = job.kind /\ job'.src = job.src /\ job'.pred = job.pred
        /\ job'.result = (IF PullDone(t) THEN "partial" ELSE job.result)
        /\ job' \in [kind : Kinds \cup {"idle"}, pred : Predicates, src : {job'.src},
                     err : BOOLEAN, result : Results]
        /\ order' = order /\ objs' = objs
    BY <1>3, JobFrame
  <2>2. PullDone(t) => job.kind \in {"query", "ordered"}
    BY DEF PullDone
  <2>3. mgr' = mgr \/ Plans
    BY <1>3, PullStep, HandsFrame DEF NextScanner, Stops, PullDone, ReadFails,
       Buffers, flipBuffers, writeObject, writeObjectFails, Close, vars
  <2>4. JobInv
    BY DEF LakeInv
  <2>5. CASE mgr' = mgr
    BY <2>1, <2>2, <2>4, <2>5 DEF JobInv, Running
  <2>6. CASE Plans
    <3>1. /\ UNCHANGED <<order, objs, job>>
          /\ mgr'.pc \in {"scan", "send", "last", "wait", "done"} /\ mgr'.err = mgr.err
          /\ job.kind \in {"idle", "compact"} /\ job.result # "deleted"
          /\ job.kind = "compact" => mgr'.pc # "done"
      BY <2>6, PlanFrame
    <3> QED
      BY <2>4, <3>1 DEF JobInv, Running
  <2> QED
    BY <2>3, <2>5, <2>6
<1>4. \E t : t \in Trunks
  BY TrunksAssumption
<1> QED
  BY <1>1, <1>2, <1>3, <1>4, StepKinds

----------------------------------------------------------------------------
(* The data objects of the branch. *)

(* What a compaction puts in place of its source: objects of rows of the   *)
(* source, one before the other.                                           *)
Replaces(rollup) ==
    /\ IsFiniteSet(rollup) /\ \A obj \in rollup : Written(order, obj)
    /\ RowsOf(rollup) \subseteq RowsOf(job.src)
    /\ \A a, b \in rollup : a # b => PrecedesObject(a, b) \/ PrecedesObject(b, a)

LEMMA CompactEnds ==
  ASSUME LakeInv, job.kind = "compact", AllDone, ~job.err
  PROVE Replaces(ToSet(writer.objects) \cup {MadeObject(writer.vals)})
<1> DEFINE v == writer.vals
           O == writer.objects
           M == MadeObject(v)
           w == out[TheTrunk]
<1>1. TheTrunk \in Trunks
  BY TrunksAssumption DEF TheTrunk
<1>2. trunk[TheTrunk].pc = "done" /\ trunk[TheTrunk].left = <<>> /\ w \in Seq(Rows)
  BY <1>1 DEF AllDone, LakeInv, TrunkInv
<1>3. /\ v \in Seq(Rows) /\ O \in Seq(ToSet(O)) /\ Ordered(order, v)
      /\ ToSet(w) = ToSet(v) \cup RowsOf(ToSet(O))
      /\ v # <<>>
      /\ \A i, j \in DOMAIN O : i < j => PrecedesObject(O[i], O[j])
      /\ \A obj \in ToSet(O), r \in ToSet(v) : Before(order, To(order, obj), r.key)
      /\ \A obj \in ToSet(O) : Written(order, obj)
      /\ order \in {"asc", "desc"}
  BY <1>2 DEF LakeInv, DataInv, WriterInv, CompactInv
<1>4. ToSet(w) \subseteq RowsOf(job.src)
  <2>1. Running /\ ToSet(w \o trunk[TheTrunk].left) \subseteq RowsOf(Given)
    BY <1>1, CompactRunning DEF LakeInv, TrunkInv, Returned
  <2>2. w \o trunk[TheTrunk].left = w
    BY <1>2
  <2>3. Given \subseteq job.src
    BY <2>1, GivenInSource DEF LakeInv
  <2> HIDE DEF w
  <2> QED
    BY <2>1, <2>2, <2>3 DEF RowsOf
<1> HIDE DEF v, O, w
<1>5. Written(order, M) /\ M.rows = v
  BY <1>3, MadeIsWritten
<1> HIDE DEF M
<1>6. v[1] \in ToSet(v) /\ v[1] \in Rows /\ From(order, M) = KeyOf(v[1])
  <2>1. 1 \in DOMAIN v
    BY <1>3
  <2> QED
    BY <1>3, <1>5, <2>1, WrittenFacts DEF ToSet
<1>7. ASSUME NEW obj \in ToSet(O) PROVE PrecedesObject(obj, M)
  <2>1. Before(order, To(order, obj), v[1].key) /\ Written(order, obj)
    BY <1>3, <1>6
  <2>2. To(order, obj) \in Keys
    BY <1>3, <2>1, WrittenOrder
  <2> QED
    BY <1>6, <2>1, <2>2, KeyOfRow DEF PrecedesObject
<1>8. IsFiniteSet(ToSet(O) \cup {M})
  <2>1. Len(O) \in Nat /\ O \in [1 .. Len(O) -> ToSet(O)]
    BY <1>3
  <2>2. O \in Surjection(1 .. Len(O), ToSet(O))
    BY <2>1 DEF Surjection, ToSet
  <2>3. IsFiniteSet(1 .. Len(O))
    BY <2>1, FS_Interval
  <2>4. IsFiniteSet(ToSet(O))
    BY <2>2, <2>3, FS_Surjection
  <2> QED
    BY <2>4, FS_AddElement
<1>9. RowsOf(ToSet(O) \cup {M}) \subseteq RowsOf(job.src)
  BY <1>3, <1>4, <1>5 DEF RowsOf
<1>10. ASSUME NEW a \in ToSet(O) \cup {M}, NEW b \in ToSet(O) \cup {M}, a # b
       PROVE PrecedesObject(a, b) \/ PrecedesObject(b, a)
  <2>1. CASE a = M
    BY <1>7, <1>10, <2>1
  <2>2. CASE b = M
    BY <1>7, <1>10, <2>2
  <2>3. CASE a \in ToSet(O) /\ b \in ToSet(O)
    <3>1. PICK i \in DOMAIN O, j \in DOMAIN O : a = O[i] /\ b = O[j]
      BY <2>3 DEF ToSet
    <3>2. i < j \/ j < i
      <4>1. DOMAIN O = 1 .. Len(O)
        BY <1>3
      <4> QED
        BY <1>10, <3>1, <4>1
    <3> QED
      BY <1>3, <3>1, <3>2
  <2> QED
    BY <2>1, <2>2, <2>3
<1> QED
  BY <1>3, <1>5, <1>8, <1>9, <1>10 DEF Replaces, v, O, M

LEMMA CompactStores ==
  ASSUME LakeInv, job.kind = "compact", NEW rollup, Replaces(rollup)
  PROVE Stored((objs \ job.src) \cup rollup)
<1> DEFINE os == (objs \ job.src) \cup rollup
<1>1. job.result # "deleted" /\ job.src \subseteq objs /\ order \in {"asc", "desc"}
  BY DEF LakeInv, JobInv, DataInv, Running
<1>2. /\ IsFiniteSet(objs) /\ Distinct(RowsOf(objs)) /\ ZeroApart(order, RowsOf(objs))
      /\ \A a, b \in objs : a # b => ToSet(a.rows) \cap ToSet(b.rows) = {}
  BY <1>1 DEF LakeInv, DataInv, Stored
<1>3. IsFiniteSet(os)
  <2>1. IsFiniteSet(objs \ job.src) /\ IsFiniteSet(rollup)
    BY <1>2, FS_Difference DEF Replaces
  <2> QED
    BY <2>1, FS_Union
<1>4. Distinct(RowsOf(os)) /\ ZeroApart(order, RowsOf(os))
  <2>1. RowsOf(os) \subseteq RowsOf(objs)
    BY <1>1 DEF RowsOf, Replaces
  <2> QED
    BY <1>2, <2>1 DEF Distinct, ZeroApart
<1>5. ASSUME NEW a \in objs \ job.src, NEW b \in rollup
      PROVE ToSet(a.rows) \cap ToSet(b.rows) = {}
  <2>1. ToSet(b.rows) \subseteq RowsOf(job.src)
    BY DEF RowsOf, Replaces
  <2>2. ToSet(a.rows) \cap RowsOf(job.src) = {}
    BY <1>1, <1>2 DEF RowsOf
  <2> QED
    BY <2>1, <2>2
<1>6. ASSUME NEW a \in rollup, NEW b \in rollup, a # b
      PROVE ToSet(a.rows) \cap ToSet(b.rows) = {}
  <2>1. Written(order, a) /\ Written(order, b)
    BY DEF Replaces
  <2>2. Before(order, To(order, a), From(order, b)) \/ Before(order, To(order, b), From(order, a))
    BY <1>6 DEF Replaces, PrecedesObject
  <2>3. \A r \in ToSet(a.rows), q \in ToSet(b.rows) : r # q
    BY <1>1, <2>1, <2>2, ApartRows
  <2> QED
    BY <2>3
<1>7. \A a, b \in os : a # b => ToSet(a.rows) \cap ToSet(b.rows) = {}
  BY <1>2, <1>5, <1>6
<1> QED
  BY <1>3, <1>4, <1>7 DEF Stored

LEMMA DataFinishes ==
  ASSUME LakeInv, Finishes
  PROVE DataInv'
<1>1. /\ order \in {"asc", "desc"}
      /\ \A obj \in objs : Written(order, obj)
      /\ job.result # "deleted" => Stored(objs)
  BY DEF LakeInv, DataInv
<1>2. CASE EndQuery
  <2>1. job.kind \in {"query", "ordered"} /\ UNCHANGED <<order, objs>>
    BY <1>2 DEF EndQuery
  <2>2. job.result # "deleted"
    BY <2>1 DEF LakeInv, JobInv, Running
  <2> QED
    BY <1>1, <2>1, <2>2 DEF DataInv, Stored, Distinct
<1>3. CASE EndDelete
  <2>1. job.kind = "delete" /\ order' = order
    BY <1>3, OnlyDeletesBuffer DEF EndDelete
  <2>2. job.result # "deleted" /\ job \in [kind : Kinds \cup {"idle"}, pred : Predicates,
                                            src : {job.src}, err : BOOLEAN, result : Results]
    BY <2>1 DEF LakeInv, JobInv, Running
  <2> DEFINE ok == ~job.err /\ writer.buffer # "closed"
  <2>3. /\ job' = [job EXCEPT !.kind = "idle",
                       !.result = IF ~ok THEN "error"
                                  ELSE IF deletes = {} THEN "empty" ELSE "deleted"]
        /\ objs' = IF ok /\ deletes # {}
                   THEN {obj \in objs : obj.id \notin deletes} \cup ToSet(writer.objects)
                   ELSE objs
    BY <1>3 DEF EndDelete
  <2>4. \A obj \in ToSet(writer.objects) : Written(order, obj)
    BY DEF LakeInv, WriterInv
  <2> HIDE DEF ok
  <2>5. CASE ok /\ deletes # {}
    <3>1. job'.result = "deleted" /\ \A obj \in objs' : obj \in objs \/ obj \in ToSet(writer.objects)
      BY <2>2, <2>3, <2>5
    <3> QED
      BY <1>1, <2>1, <2>4, <3>1 DEF DataInv
  <2>6. CASE ~(ok /\ deletes # {})
    <3>1. objs' = objs
      BY <2>3, <2>6
    <3> QED
      BY <1>1, <2>1, <2>2, <3>1 DEF DataInv, Stored, Distinct
  <2> QED
    BY <2>5, <2>6
<1>4. CASE EndCompact
  <2>1. job.kind = "compact" /\ order' = order /\ AllDone
    BY <1>4 DEF EndCompact
  <2>2. job.result # "deleted"
    BY <2>1 DEF LakeInv, JobInv, Running
  <2>3. CASE job.err
    <3>1. objs' = objs
      BY <1>4, <2>3 DEF EndCompact
    <3> QED
      BY <1>1, <2>1, <2>2, <3>1 DEF DataInv, Stored, Distinct
  <2>4. CASE ~job.err
    <3> DEFINE rollup == ToSet(writer.objects) \cup {MadeObject(writer.vals)}
    <3>1. objs' = (objs \ job.src) \cup rollup
      BY <1>4, <2>4 DEF EndCompact
    <3>2. Replaces(rollup)
      BY <2>1, <2>4, CompactEnds
    <3> HIDE DEF rollup
    <3>3. Stored(objs')
      BY <2>1, <3>1, <3>2, CompactStores
    <3>4. \A obj \in objs' : Written(order, obj)
      BY <1>1, <3>1, <3>2 DEF Replaces
    <3> QED
      BY <1>1, <2>1, <3>3, <3>4 DEF DataInv, Stored, Distinct
  <2> QED
    BY <2>3, <2>4
<1> QED
  BY <1>2, <1>3, <1>4 DEF Finishes

LEMMA DataInvStep ==
  ASSUME LakeInv, [Next]_vars
  PROVE DataInv'
<1>0. /\ order \in {"asc", "desc"}
      /\ \A obj \in objs : Written(order, obj)
      /\ job.result # "deleted" => Stored(objs)
  BY DEF LakeInv, DataInv
<1>1. CASE Begins
  <2>1. job.result # "deleted" /\ order' = order /\ objs' = objs
    BY <1>1, BeginStep DEF Start
  <2> QED
    BY <1>0, <2>1 DEF DataInv, Stored, Distinct
<1>2. CASE Finishes
  BY <1>2, DataFinishes
<1>3. ASSUME NEW t \in Trunks,
             \/ Pulls(t) \/ NextScanner(t) \/ Hands(t) \/ Stops(t)
             \/ Buffers \/ Plans \/ UNCHANGED vars
      PROVE DataInv'
  <2>1. /\ job'.result = (IF PullDone(t) THEN "partial" ELSE job.result)
        /\ order' = order /\ objs' = objs
    BY <1>3, JobFrame
  <2>2. PullDone(t) => job.result # "deleted"
    BY DEF PullDone, LakeInv, JobInv, Running
  <2> QED
    BY <1>0, <2>1, <2>2 DEF DataInv, Stored, Distinct
<1>4. \E t : t \in Trunks
  BY TrunksAssumption
<1> QED
  BY <1>1, <1>2, <1>3, <1>4, StepKinds

----------------------------------------------------------------------------
(* The manager. *)

(* m with obj added to its run is a. *)
Adds(m, obj, a) ==
    /\ MgrRecord(a)
    /\ a.run \in Seq(ToSet(a.run)) /\ a.run # <<>>
    /\ a.pc = m.pc /\ a.todo = m.todo /\ a.cut = m.cut /\ a.err = m.err
    /\ ToSet(a.run) = ToSet(m.run) \cup {obj} /\ Spans(ToSet(a.run), a.min, a.max)

(* An object that comes after those of the run joins it. *)
LEMMA AddedToRun ==
  ASSUME NEW m, MgrRecord(m), NEW obj, NEW a, a = AddToRun(m, obj),
         obj.min \in Keys, obj.max \in Keys, Spans(ToSet(m.run), m.min, m.max),
         \A b \in ToSet(m.run) : b.min \in Keys /\ b.max \in Keys /\ ~Less(obj.min, b.min)
  PROVE Adds(m, obj, a)
<1> DEFINE R == m.run
<1>1. /\ m \in [pc : {"off", "scan", "send", "last", "wait", "done"},
                todo : Seq(ToSet(m.todo)), run : Seq(ToSet(m.run)),
                min : {m.min}, max : {m.max}, cut : BOOLEAN, err : BOOLEAN]
      /\ R \in Seq(ToSet(R))
  BY DEF MgrRecord
<1>2. /\ a.run = Append(R, obj)
      /\ a.min = (IF R = <<>> \/ Less(obj.min, m.min) THEN obj.min ELSE m.min)
      /\ a.max = (IF R = <<>> \/ Less(m.max, obj.max) THEN obj.max ELSE m.max)
      /\ a.pc = m.pc /\ a.todo = m.todo /\ a.cut = m.cut /\ a.err = m.err
      /\ a = [m EXCEPT !.run = a.run, !.min = a.min, !.max = a.max]
  BY <1>1 DEF AddToRun
<1> HIDE DEF R
<1>3. a.run \in Seq(ToSet(a.run)) /\ ToSet(a.run) = ToSet(R) \cup {obj}
  BY <1>1, <1>2, AppendSet
<1>4. a.run # <<>>
  BY <1>3, EmptyInOrder
<1>5. Spans(ToSet(a.run), a.min, a.max)
  <2>1. CASE R = <<>>
    <3>1. a.min = obj.min /\ a.max = obj.max /\ ToSet(a.run) = {obj}
      BY <1>2, <1>3, <2>1, EmptyInOrder
    <3> QED
      BY <3>1, LessIsOrder DEF Spans
  <2>2. CASE R # <<>>
    <3>1. ToSet(R) # {}
      BY <1>1, <2>2, SelfSeq
    <3>2. /\ m.min \in Keys /\ m.max \in Keys
          /\ \A b \in ToSet(R) : ~Less(m.max, b.max)
          /\ \E b \in ToSet(R) : m.min = b.min
      BY <3>1 DEF Spans, R
    <3>3. a.min = m.min
      BY <1>2, <2>2, <3>2 DEF R
    <3>4. a.max \in Keys /\ ~Less(a.max, obj.max) /\ \A b \in ToSet(R) : ~Less(a.max, b.max)
      <4>1. CASE Less(m.max, obj.max)
        <5>1. a.max = obj.max
          BY <1>2, <4>1
        <5>2. \A b \in ToSet(R) : b.max \in Keys /\ ~Less(obj.max, b.max)
          BY <3>2, <4>1, LessIsOrder DEF R
        <5> QED
          BY <5>1, <5>2, LessIsOrder
      <4>2. CASE ~Less(m.max, obj.max)
        BY <1>2, <2>2, <3>2, <4>2
      <4> QED
        BY <4>1, <4>2
    <3> QED
      BY <1>3, <3>2, <3>3, <3>4 DEF Spans
  <2> QED
    BY <2>1, <2>2
<1>6. MgrRecord(a)
  BY <1>1, <1>2, <1>3 DEF MgrRecord
<1> QED
  BY <1>2, <1>3, <1>4, <1>5, <1>6 DEF R, Adds

(* The next object is taken from the list. *)
LEMMA TakeNext ==
  ASSUME NEW s, s \in Seq(ToSet(s)), s # <<>>,
         \A i, j \in DOMAIN s : i < j => ~Less(s[j].min, s[i].min),
         \A i, j \in DOMAIN s : i # j => s[i] # s[j]
  PROVE /\ Tail(s) \in Seq(ToSet(Tail(s))) /\ Head(s) \in ToSet(s)
        /\ ToSet(s) = {Head(s)} \cup ToSet(Tail(s)) /\ Head(s) \notin ToSet(Tail(s))
        /\ \A b \in ToSet(Tail(s)) : ~Less(b.min, Head(s).min)
        /\ \A i, j \in DOMAIN Tail(s) : i < j => ~Less(Tail(s)[j].min, Tail(s)[i].min)
        /\ \A i, j \in DOMAIN Tail(s) : i # j => Tail(s)[i] # Tail(s)[j]
<1> DEFINE T == ToSet(s)
           r == Tail(s)
<1>1. /\ s \in Seq(T) /\ r \in Seq(T) /\ Len(s) \in Nat \ {0} /\ Len(r) = Len(s) - 1
      /\ DOMAIN s = 1 .. Len(s) /\ DOMAIN r = 1 .. Len(s) - 1 /\ Head(s) = s[1]
      /\ \A i \in DOMAIN r : r[i] = s[i + 1]
  OBVIOUS
<1>2. \A i \in DOMAIN r : i + 1 \in DOMAIN s /\ 1 < i + 1
  BY <1>1
<1>3. 1 \in DOMAIN s
  BY <1>1
<1>4. \A i \in DOMAIN s : i = 1 \/ (i - 1 \in DOMAIN r /\ s[i] = r[i - 1])
  BY <1>1
<1>5. \A i \in DOMAIN r : ~Less(r[i].min, s[1].min) /\ s[1] # r[i]
  BY <1>1, <1>2, <1>3
<1>6. \A i, j \in DOMAIN r :
        (i < j => ~Less(r[j].min, r[i].min)) /\ (i # j => r[i] # r[j])
  <2> SUFFICES ASSUME NEW i \in DOMAIN r, NEW j \in DOMAIN r
               PROVE (i < j => ~Less(r[j].min, r[i].min)) /\ (i # j => r[i] # r[j])
    OBVIOUS
  <2>1. i \in Nat /\ j \in Nat /\ i + 1 \in DOMAIN s /\ j + 1 \in DOMAIN s
    BY <1>1, <1>2
  <2>2. (i < j => i + 1 < j + 1) /\ (i # j => i + 1 # j + 1)
    BY <2>1
  <2> QED
    BY <1>1, <2>1, <2>2
<1>7. r \in Seq(ToSet(r))
  BY <1>1, SelfSeq
<1>8. ToSet(s) = {s[1]} \cup ToSet(r)
  <2>1. ToSet(s) = {s[i] : i \in DOMAIN s} /\ ToSet(r) = {r[i] : i \in DOMAIN r}
    BY DEF ToSet
  <2> HIDE DEF r, T
  <2> QED
    BY <1>1, <1>2, <1>3, <1>4, <2>1, SMTT(30)
<1>9. \A b \in ToSet(r) : ~Less(b.min, s[1].min) /\ b # s[1]
  BY <1>5 DEF ToSet
<1> QED
  BY <1>1, <1>6, <1>7, <1>8, <1>9

(* The keys of the objects of the branch. *)
LEMMA ObjectKeys ==
  ASSUME LakeInv, NEW obj \in objs
  PROVE obj.min \in Keys /\ obj.max \in Keys /\ ~Less(obj.max, obj.min)
<1>1. Written(order, obj) /\ order \in {"asc", "desc"}
  BY DEF LakeInv, DataInv
<1> QED
  BY <1>1, WrittenFacts, WrittenOrder

(* An object that does not overlap the run is above it, for it comes later *)
(* in the list.                                                            *)
LEMMA RunIsBelow ==
  ASSUME LakeInv, mgr.pc = "scan", mgr.todo # <<>>, ~RunOverlaps(Head(mgr.todo))
  PROVE \A a \in InRun, b \in ToDo : RangeBelow(a, b)
<1> DEFINE obj == Head(mgr.todo)
<1>1. /\ InRun = ToSet(mgr.run) /\ ToDo = ToSet(mgr.todo) /\ InRun \subseteq objs /\ ToDo \subseteq objs
      /\ mgr.todo \in Seq(ToSet(mgr.todo)) /\ mgr.run \in Seq(ToSet(mgr.run))
      /\ \A i, j \in DOMAIN mgr.todo : i < j => ~Less(mgr.todo[j].min, mgr.todo[i].min)
      /\ \A i, j \in DOMAIN mgr.todo : i # j => mgr.todo[i] # mgr.todo[j]
      /\ \A a \in InRun, b \in ToDo : ~Less(b.min, a.min)
      /\ Spans(InRun, mgr.min, mgr.max)
  BY DEF LakeInv, MgrInv, MgrRecord, RunInv, InRun, ToDo
<1>2. obj \in ToDo /\ \A b \in ToDo : b = obj \/ ~Less(b.min, obj.min)
  BY <1>1, TakeNext
<1>3. obj.min \in Keys /\ obj.max \in Keys /\ ~Less(obj.max, obj.min)
  BY <1>1, <1>2, ObjectKeys
<1> SUFFICES ASSUME NEW a \in InRun, NEW b \in ToDo PROVE Less(a.max, b.min)
  BY DEF RangeBelow
<1>4. a.min \in Keys /\ a.max \in Keys /\ b.min \in Keys /\ ~Less(b.min, obj.min)
  BY <1>1, <1>2, <1>3, ObjectKeys, LessIsOrder
<1>5. /\ mgr.min \in Keys /\ mgr.max \in Keys /\ ~Less(mgr.max, a.max)
      /\ \E c \in InRun : mgr.min = c.min
  BY <1>1 DEF Spans
<1>6. ~Less(obj.max, mgr.min)
  <2>1. ~Less(obj.min, mgr.min)
    BY <1>1, <1>2, <1>5
  <2> QED
    BY <1>3, <1>5, <2>1, LessIsOrder
<1>7. mgr.run # <<>>
  BY <1>1, EmptyInOrder
<1>8. Less(mgr.max, obj.min)
  BY <1>6, <1>7 DEF RunOverlaps
<1>9. Less(a.max, obj.min)
  BY <1>3, <1>4, <1>5, <1>8, LessIsOrder
<1> QED
  BY <1>3, <1>4, <1>9, LessIsOrder

(* Runs of one object are left as they are. *)
LEMMA ShortRun ==
  ASSUME NEW s, s \in Seq(ToSet(s)), ~(Len(s) >= 2)
  PROVE \A a, b \in ToSet(s) : a = b
<1>1. DOMAIN s = 1 .. Len(s) /\ Len(s) \in Nat
  OBVIOUS
<1>2. \A i, j \in DOMAIN s : i = j
  BY <1>1
<1> QED
  BY <1>2 DEF ToSet

LEMMA MgrFacts ==
  ASSUME LakeInv
  PROVE /\ mgr \in [pc : {"off", "scan", "send", "last", "wait", "done"},
                    todo : Seq(ToSet(mgr.todo)), run : Seq(ToSet(mgr.run)),
                    min : {mgr.min}, max : {mgr.max}, cut : BOOLEAN, err : BOOLEAN]
        /\ mgr.run \in Seq(ToSet(mgr.run)) /\ mgr.todo \in Seq(ToSet(mgr.todo))
        /\ mgr.pc \in {"off", "scan", "send"} => ~mgr.cut
        /\ mgr.pc = "off" => ~mgr.err
        /\ InRun \subseteq objs /\ ToDo \subseteq objs
        /\ InRun \cap ToDo = {} /\ (InRun \cup ToDo) \cap Moving = {}
        /\ job.kind = "compact" => ~mgr.err /\ mgr.pc \in {"scan", "send", "last", "wait"}
        /\ Moving \subseteq objs
        /\ RunInv /\ SettledInv
<1>1. /\ mgr.pc \in {"off", "scan", "send"} => ~mgr.cut
      /\ mgr.pc = "off" => ~mgr.err
      /\ InRun \subseteq objs /\ ToDo \subseteq objs
      /\ InRun \cap ToDo = {} /\ (InRun \cup ToDo) \cap Moving = {}
      /\ RunInv /\ SettledInv
  BY DEF LakeInv, MgrInv
<1>2. /\ job.kind = "compact" => ~mgr.err /\ mgr.pc \in {"scan", "send", "last", "wait"}
      /\ job.kind = "compact" => job.src \subseteq objs
  BY DEF LakeInv, JobInv, Running
<1>3. Moving \subseteq objs
  BY <1>2 DEF Moving
<1> QED
  BY <1>1, <1>2, <1>3, MgrType

(* The manager has nothing to do with what changes. *)
LEMMA MgrStays ==
  ASSUME LakeInv, mgr' = mgr,
         \/ mgr.pc = "off"
         \/ objs' = objs /\ job'.kind = job.kind /\ job'.src = job.src
  PROVE MgrInv'
<1>1. MgrInv
  BY DEF LakeInv
<1>2. CASE mgr.pc = "off"
  BY <1>1, <1>2 DEF MgrInv, MgrRecord, RunInv, SettledInv, InRun, ToDo, Spans
<1>3. CASE objs' = objs /\ job'.kind = job.kind /\ job'.src = job.src
  <2>1. InRun' = InRun /\ ToDo' = ToDo /\ Moving' = Moving
    BY <1>3 DEF InRun, ToDo, Moving
  <2>2. Settled' = Settled
    BY <1>3, <2>1 DEF Settled
  <2>3. \A S, M, C : Separated(S, M, C)' <=> Separated(S, M, C)
    BY DEF Separated
  <2>4. SettledInv'
    BY <1>1, <2>1, <2>2 DEF MgrInv, SettledInv, Separated, RangeBelow, Overlap
  <2> QED
    BY <1>1, <1>3, <2>1, <2>4 DEF MgrInv, MgrRecord, RunInv, Spans, RangeBelow
<1> QED
  BY <1>2, <1>3

LEMMA MgrSends ==
  ASSUME LakeInv, Begins
  PROVE MgrInv'
<1>1. PICK kind \in Kinds, pred \in Predicates, src \in SUBSET objs, ts \in SUBSET Trunks :
        /\ Start(kind, pred, src, ts) /\ job.result # "deleted" /\ job.kind = "idle"
        /\ \/ /\ kind # "compact" /\ src = objs /\ pred \in Preds /\ ts = Trunks
              /\ mgr.pc = "off" /\ mgr' = mgr
           \/ /\ kind = "compact" /\ src = InRun /\ ts = {TheTrunk} /\ TheTrunk \in Trunks
              /\ mgr.pc \in {"send", "last"} /\ ~mgr.err /\ SendRun
  BY BeginStep
<1>2. CASE mgr.pc = "off" /\ mgr' = mgr
  BY <1>2, MgrStays
<1>3. CASE kind = "compact" /\ src = InRun /\ mgr.pc \in {"send", "last"} /\ ~mgr.err /\ SendRun
  <2>1. /\ job'.kind = "compact" /\ job'.src = InRun /\ objs' = objs
        /\ Moving = {}
    BY <1>1, <1>3 DEF Start, Idle, Moving
  <2>2. Moving' = InRun
    BY <2>1 DEF Moving
  <2>3. CASE mgr.pc = "last"
    <3>1. mgr' = [mgr EXCEPT !.pc = "wait"]
      BY <1>3, <2>3 DEF SendRun
    <3>2. /\ mgr'.pc = "wait" /\ mgr'.cut = mgr.cut /\ mgr'.err = mgr.err
          /\ MgrRecord(mgr')
      BY <3>1, MgrFacts DEF MgrRecord
    <3>3. InRun' = {} /\ ToDo' = {} /\ ToDo = {}
      BY <2>3, <3>2 DEF InRun, ToDo
    <3>4. Settled' = Settled
      BY <2>1, <2>2, <3>3 DEF Settled
    <3>5. ~mgr.cut => Separated(Settled, {}, InRun)
      BY <1>3, <2>1, <3>3, MgrFacts DEF SettledInv
    <3>6. SettledInv'
      BY <2>2, <3>2, <3>3, <3>4, <3>5 DEF SettledInv, Separated, RangeBelow, Overlap
    <3>7. RunInv'
      BY <3>2, <3>3 DEF RunInv, Spans
    <3> QED
      BY <3>2, <3>3, <3>6, <3>7 DEF MgrInv, MgrRecord
  <2>4. CASE mgr.pc = "send"
    <3> DEFINE obj == Head(mgr.todo)
               m == [mgr EXCEPT !.run = <<>>]
               a == AddToRun(m, obj)
               T == Tail(mgr.todo)
    <3>1. /\ mgr.todo # <<>> /\ InRun = ToSet(mgr.run) /\ ToDo = ToSet(mgr.todo)
          /\ \A i, j \in DOMAIN mgr.todo : i < j => ~Less(mgr.todo[j].min, mgr.todo[i].min)
          /\ \A i, j \in DOMAIN mgr.todo : i # j => mgr.todo[i] # mgr.todo[j]
          /\ \A x \in InRun, b \in ToDo : RangeBelow(x, b)
      BY <2>4, MgrFacts DEF RunInv, InRun, ToDo
    <3>2. mgr' = [a EXCEPT !.pc = "scan", !.todo = Tail(@)]
      BY <1>3, <2>4 DEF SendRun
    <3>3. /\ T \in Seq(ToSet(T)) /\ obj \in ToDo /\ ToDo = {obj} \cup ToSet(T) /\ obj \notin ToSet(T)
          /\ \A b \in ToSet(T) : ~Less(b.min, obj.min)
          /\ \A i, j \in DOMAIN T : i < j => ~Less(T[j].min, T[i].min)
          /\ \A i, j \in DOMAIN T : i # j => T[i] # T[j]
      BY <3>1, MgrFacts, TakeNext
    <3>4. /\ MgrRecord(m) /\ m.run = <<>> /\ m.todo = mgr.todo /\ m.pc = mgr.pc
          /\ m.cut = mgr.cut /\ m.err = mgr.err
      <4>1. ToSet(<<>>) = {} /\ <<>> \in Seq(ToSet(<<>>))
        BY DEF ToSet
      <4> QED
        BY <4>1, MgrFacts DEF MgrRecord
    <3>5. obj.min \in Keys /\ obj.max \in Keys
      BY <3>3, MgrFacts, ObjectKeys
    <3>20. a = AddToRun(m, obj)
      OBVIOUS
    <3> HIDE DEF m, obj, a
    <3>6. /\ MgrRecord(a)
          /\ a.run \in Seq(ToSet(a.run)) /\ a.run # <<>>
          /\ a.pc = m.pc /\ a.todo = m.todo /\ a.cut = m.cut /\ a.err = m.err
          /\ ToSet(a.run) = {obj} /\ Spans(ToSet(a.run), a.min, a.max)
      <4>1. ToSet(m.run) = {}
        BY <3>4, EmptyInOrder
      <4>2. Spans(ToSet(m.run), m.min, m.max)
        BY <4>1 DEF Spans
      <4> QED
        <5>1. MgrRecord(m)
          BY <3>4
        <5>2. \A b \in ToSet(m.run) : b.min \in Keys /\ b.max \in Keys /\ ~Less(obj.min, b.min)
          BY <4>1
        <5>3. Adds(m, obj, a)
          BY <3>5, <3>20, <4>2, <5>1, <5>2, AddedToRun
        <5> QED
          BY <4>1, <5>3 DEF Adds
    <3> HIDE DEF T
    <3>7. /\ mgr'.pc = "scan" /\ mgr'.todo = T /\ mgr'.run = a.run /\ mgr'.min = a.min
          /\ mgr'.max = a.max /\ mgr'.cut = mgr.cut /\ mgr'.err = mgr.err /\ MgrRecord(mgr')
      <4>1. /\ a \in [pc : {"off", "scan", "send", "last", "wait", "done"},
                      todo : Seq(ToSet(a.todo)), run : Seq(ToSet(a.run)),
                      min : {a.min}, max : {a.max}, cut : BOOLEAN, err : BOOLEAN]
        BY <3>6 DEF MgrRecord
      <4>2. /\ mgr'.pc = "scan" /\ mgr'.todo = Tail(a.todo) /\ mgr'.run = a.run
            /\ mgr'.min = a.min /\ mgr'.max = a.max /\ mgr'.cut = a.cut /\ mgr'.err = a.err
            /\ mgr' = [pc |-> mgr'.pc, todo |-> mgr'.todo, run |-> mgr'.run, min |-> mgr'.min,
                       max |-> mgr'.max, cut |-> mgr'.cut, err |-> mgr'.err]
        BY <3>2, <4>1
      <4>3. mgr'.todo = T /\ mgr'.cut = mgr.cut /\ mgr'.err = mgr.err
            /\ mgr'.cut \in BOOLEAN /\ mgr'.err \in BOOLEAN
        BY <3>4, <3>6, <4>1, <4>2 DEF T
      <4>4. MgrRecord(mgr')
        BY <3>3, <3>6, <4>2, <4>3 DEF MgrRecord
      <4> QED
        BY <4>2, <4>3, <4>4
    <3>8. InRun' = {obj} /\ ToDo' = ToSet(T)
      BY <3>6, <3>7 DEF InRun, ToDo
    <3>9. Settled' = Settled
      BY <2>1, <2>2, <3>3, <3>8 DEF Settled
    <3>10. SettledInv'
      <4>1. ~mgr.cut /\ Separated(Settled, {}, InRun \cup ToDo)
        BY <1>3, <2>1, <2>4, MgrFacts DEF SettledInv
      <4>2. \A x \in Settled : \A y \in InRun \cup ToDo : RangeBelow(x, y)
        BY <4>1 DEF Separated
      <4>3. \A x, y \in Settled : x # y => ~Overlap(x, y)
        BY <4>1 DEF Separated
      <4>4. {obj} \cup ToSet(T) = ToDo
        BY <3>3
      <4>5. Separated(Settled, InRun, ToDo)
        BY <3>1, <4>2, <4>3 DEF Separated
      <4> QED
        BY <2>2, <3>8, <3>9, <4>4, <4>5 DEF SettledInv, Separated, RangeBelow, Overlap
    <3>11. RunInv'
      BY <3>3, <3>6, <3>7, <3>8 DEF RunInv, Spans
    <3>12. InRun' \subseteq objs' /\ ToDo' \subseteq objs' /\ InRun' \cap ToDo' = {}
           /\ (InRun' \cup ToDo') \cap Moving' = {}
      BY <2>1, <2>2, <3>3, <3>8, MgrFacts
    <3> QED
      BY <2>4, <3>7, <3>10, <3>11, <3>12, MgrFacts DEF MgrInv, MgrRecord
  <2> QED
    BY <1>3, <2>3, <2>4
<1> QED
  BY <1>1, <1>2, <1>3

(* The next object joins what is kept of the run: all of it or nothing. *)
LEMMA NextJoins ==
  ASSUME LakeInv, mgr.pc = "scan", mgr.todo # <<>>, UNCHANGED <<objs, job>>,
         NEW m, MgrRecord(m), m.pc = mgr.pc, m.todo = mgr.todo, m.cut = mgr.cut, m.err = mgr.err,
         Spans(ToSet(m.run), m.min, m.max), ToSet(m.run) \subseteq InRun,
         mgr' = [AddToRun(m, Head(mgr.todo)) EXCEPT !.todo = Tail(@)]
  PROVE /\ mgr'.pc = "scan" /\ mgr'.cut = mgr.cut /\ mgr'.err = mgr.err /\ MgrRecord(mgr')
        /\ RunInv' /\ Moving' = Moving
        /\ InRun' = ToSet(m.run) \cup {Head(mgr.todo)}
        /\ ToDo = {Head(mgr.todo)} \cup ToDo' /\ InRun' \cap ToDo' = {}
<1> DEFINE obj == Head(mgr.todo)
           T == Tail(mgr.todo)
           a == AddToRun(m, obj)
<1>1. /\ InRun = ToSet(mgr.run) /\ ToDo = ToSet(mgr.todo)
      /\ \A i, j \in DOMAIN mgr.todo : i < j => ~Less(mgr.todo[j].min, mgr.todo[i].min)
      /\ \A i, j \in DOMAIN mgr.todo : i # j => mgr.todo[i] # mgr.todo[j]
      /\ \A x \in InRun, b \in ToDo : ~Less(b.min, x.min)
  BY MgrFacts DEF RunInv, InRun, ToDo
<1>2. /\ T \in Seq(ToSet(T)) /\ obj \in ToDo /\ ToDo = {obj} \cup ToSet(T) /\ obj \notin ToSet(T)
      /\ \A b \in ToSet(T) : ~Less(b.min, obj.min)
      /\ \A i, j \in DOMAIN T : i < j => ~Less(T[j].min, T[i].min)
      /\ \A i, j \in DOMAIN T : i # j => T[i] # T[j]
  BY <1>1, MgrFacts, TakeNext
<1>3. obj.min \in Keys /\ obj.max \in Keys
  BY <1>2, MgrFacts, ObjectKeys
<1>4. \A b \in ToSet(m.run) : b.min \in Keys /\ b.max \in Keys /\ ~Less(obj.min, b.min)
  BY <1>1, <1>2, MgrFacts, ObjectKeys
<1>5. a = AddToRun(m, obj)
  OBVIOUS
<1> HIDE DEF obj, a
<1>6. Adds(m, obj, a)
  BY <1>3, <1>4, <1>5, AddedToRun
<1>7. mgr' = [a EXCEPT !.todo = Tail(@)]
  BY DEF obj, a
<1> HIDE DEF T
<1>8. /\ mgr'.pc = "scan" /\ mgr'.todo = T /\ mgr'.run = a.run /\ mgr'.min = a.min
      /\ mgr'.max = a.max /\ mgr'.cut = mgr.cut /\ mgr'.err = mgr.err /\ MgrRecord(mgr')
  <2>1. /\ a \in [pc : {"off", "scan", "send", "last", "wait", "done"},
                  todo : Seq(ToSet(a.todo)), run : Seq(ToSet(a.run)),
                  min : {a.min}, max : {a.max}, cut : BOOLEAN, err : BOOLEAN]
        /\ a.run \in Seq(ToSet(a.run))
        /\ a.pc = mgr.pc /\ a.todo = mgr.todo /\ a.cut = mgr.cut /\ a.err = mgr.err
    BY <1>6 DEF Adds, MgrRecord
  <2>2. /\ mgr'.pc = a.pc /\ mgr'.todo = Tail(a.todo) /\ mgr'.run = a.run
        /\ mgr'.min = a.min /\ mgr'.max = a.max /\ mgr'.cut = a.cut /\ mgr'.err = a.err
        /\ mgr' = [pc |-> mgr'.pc, todo |-> mgr'.todo, run |-> mgr'.run, min |-> mgr'.min,
                   max |-> mgr'.max, cut |-> mgr'.cut, err |-> mgr'.err]
    BY <1>7, <2>1
  <2>3. mgr'.todo = T /\ mgr'.cut \in BOOLEAN /\ mgr'.err \in BOOLEAN /\ mgr'.pc = "scan"
    BY <2>1, <2>2 DEF T
  <2>4. MgrRecord(mgr')
    BY <1>2, <2>1, <2>2, <2>3 DEF MgrRecord
  <2> QED
    BY <2>1, <2>2, <2>3, <2>4
<1>9. ToSet(a.run) = ToSet(m.run) \cup {obj} /\ Spans(ToSet(a.run), a.min, a.max)
  BY <1>6 DEF Adds
<1>10. InRun' = ToSet(m.run) \cup {obj} /\ ToDo' = ToSet(T)
  BY <1>8, <1>9 DEF InRun, ToDo
<1>11. InRun' \cap ToDo' = {}
  <2>1. InRun \cap ToDo = {}
    BY MgrFacts
  <2> QED
    BY <1>2, <1>10, <2>1
<1>12. \A x \in InRun', b \in ToDo' : ~Less(b.min, x.min)
  BY <1>1, <1>2, <1>10
<1>13. RunInv'
  <2>1. /\ \A i, j \in DOMAIN mgr'.todo : i < j => ~Less(mgr'.todo[j].min, mgr'.todo[i].min)
        /\ \A i, j \in DOMAIN mgr'.todo : i # j => mgr'.todo[i] # mgr'.todo[j]
    <3>1. mgr'.todo = T
      BY <1>8
    <3>2. /\ \A i, j \in DOMAIN T : i < j => ~Less(T[j].min, T[i].min)
          /\ \A i, j \in DOMAIN T : i # j => T[i] # T[j]
      BY <1>2
    <3> HIDE DEF T
    <3> DEFINE Listed(s) == /\ \A i, j \in DOMAIN s : i < j => ~Less(s[j].min, s[i].min)
                            /\ \A i, j \in DOMAIN s : i # j => s[i] # s[j]
    <3>3. Listed(T)
      BY <3>2
    <3> HIDE DEF Listed
    <3>4. Listed(mgr'.todo)
      BY <3>1, <3>3
    <3> QED
      BY <3>4 DEF Listed
  <2>2. Spans(InRun', mgr'.min, mgr'.max)
    BY <1>8, <1>9, <1>10
  <2> QED
    BY <1>8, <1>12, <2>1, <2>2 DEF RunInv, Spans
<1>14. Moving' = Moving
  BY DEF Moving
<1> QED
  BY <1>2, <1>8, <1>10, <1>11, <1>13, <1>14 DEF obj

(* The run is no longer kept: it is one object at most, and settled. *)
LEMMA RunSettles ==
  ASSUME LakeInv, mgr.pc # "off", ~mgr.err, ~mgr.cut, ~(Len(mgr.run) >= 2),
         NEW coming \in SUBSET ToDo, \A a \in InRun, b \in coming : RangeBelow(a, b)
  PROVE Separated(Settled \cup InRun, Moving, coming)
<1>1. Separated(Settled, Moving, InRun \cup ToDo)
  BY MgrFacts DEF SettledInv
<1>2. \A a, b \in InRun : a = b
  BY MgrFacts, ShortRun DEF InRun
<1>3. \A a \in Settled \cup Moving, b \in InRun : RangeBelow(a, b)
  BY <1>1 DEF Separated
<1>4. \A a, b \in Settled \cup InRun : a # b => ~Overlap(a, b)
  <2> SUFFICES ASSUME NEW a \in Settled \cup InRun, NEW b \in Settled \cup InRun, a # b
               PROVE ~Overlap(a, b)
    OBVIOUS
  <2>1. CASE a \in Settled /\ b \in Settled
    BY <1>1, <2>1 DEF Separated
  <2>2. CASE a \in InRun /\ b \in InRun
    BY <1>2, <2>2
  <2>3. CASE a \in Settled /\ b \in InRun
    BY <1>3, <2>3 DEF RangeBelow, Overlap
  <2>4. CASE a \in InRun /\ b \in Settled
    BY <1>3, <2>4 DEF RangeBelow, Overlap
  <2> QED
    BY <2>1, <2>2, <2>3, <2>4
<1> QED
  BY <1>1, <1>3, <1>4 DEF Separated

LEMMA MgrBuilds ==
  ASSUME LakeInv, BuildRun
  PROVE MgrInv'
<1> DEFINE obj == Head(mgr.todo)
           m == [mgr EXCEPT !.run = <<>>]
<1>1. /\ mgr.pc = "scan" /\ mgr.todo # <<>> /\ UNCHANGED <<objs, job>>
      /\ mgr' = IF JoinsRun(obj) THEN [AddToRun(mgr, obj) EXCEPT !.todo = Tail(@)]
                ELSE IF Len(mgr.run) >= 2 THEN [mgr EXCEPT !.pc = "send"]
                ELSE [AddToRun(m, obj) EXCEPT !.todo = Tail(@)]
  BY DEF BuildRun
<1>2. /\ InRun = ToSet(mgr.run) /\ ToDo = ToSet(mgr.todo) /\ ~mgr.cut
      /\ Spans(InRun, mgr.min, mgr.max) /\ Moving' = Moving
      /\ InRun \subseteq objs /\ ToDo \subseteq objs
      /\ InRun \cap ToDo = {} /\ (InRun \cup ToDo) \cap Moving = {}
  BY <1>1, MgrFacts DEF RunInv, InRun, ToDo, Moving
<1>3. ~mgr.err => Separated(Settled, Moving, InRun \cup ToDo)
  BY <1>1, <1>2, MgrFacts DEF SettledInv
<1>4. CASE JoinsRun(obj)
  <2>1. MgrRecord(mgr)
    BY DEF LakeInv, MgrInv
  <2>2. mgr' = [AddToRun(mgr, Head(mgr.todo)) EXCEPT !.todo = Tail(@)]
    BY <1>1, <1>4
  <2>3. /\ mgr'.pc = "scan" /\ mgr'.cut = mgr.cut /\ mgr'.err = mgr.err /\ MgrRecord(mgr')
        /\ RunInv' /\ InRun' = ToSet(mgr.run) \cup {obj}
        /\ ToDo = {obj} \cup ToDo' /\ InRun' \cap ToDo' = {}
    BY <1>1, <1>2, <2>1, <2>2, NextJoins
  <2> HIDE DEF obj
  <2>4. InRun' \cup ToDo' = InRun \cup ToDo
    BY <1>2, <2>3
  <2>5. Settled' = Settled
    BY <1>1, <1>2, <2>4 DEF Settled
  <2>6. SettledInv'
    BY <1>2, <1>3, <2>3, <2>4, <2>5 DEF SettledInv, Separated, RangeBelow, Overlap
  <2>7. InRun' \subseteq objs' /\ ToDo' \subseteq objs' /\ (InRun' \cup ToDo') \cap Moving' = {}
    BY <1>1, <1>2, <2>4
  <2> QED
    BY <1>2, <2>3, <2>6, <2>7 DEF MgrInv, MgrRecord
<1>5. CASE ~JoinsRun(obj) /\ Len(mgr.run) >= 2
  <2>1. \A a \in InRun, b \in ToDo : RangeBelow(a, b)
    BY <1>1, <1>5, RunIsBelow DEF JoinsRun
  <2>2. mgr' = [mgr EXCEPT !.pc = "send"]
    BY <1>1, <1>5
  <2>3. /\ mgr'.pc = "send" /\ mgr'.todo = mgr.todo /\ mgr'.run = mgr.run /\ mgr'.min = mgr.min
        /\ mgr'.max = mgr.max /\ mgr'.cut = mgr.cut /\ mgr'.err = mgr.err /\ MgrRecord(mgr')
    BY <2>2, MgrFacts DEF MgrRecord
  <2>4. InRun' = InRun /\ ToDo' = ToDo
    BY <1>2, <2>3 DEF InRun, ToDo
  <2>5. Settled' = Settled
    BY <1>1, <1>2, <2>4 DEF Settled
  <2>6. SettledInv'
    BY <1>2, <1>3, <2>3, <2>4, <2>5 DEF SettledInv, Separated, RangeBelow, Overlap
  <2>7. mgr.run # <<>>
    <3>1. Len(<<>>) = 0
      OBVIOUS
    <3> QED
      BY <1>5, <3>1
  <2>8. RunInv'
    <3>1. RunInv
      BY MgrFacts
    <3> QED
      <4>1. /\ \A i, j \in DOMAIN mgr.todo : i < j => ~Less(mgr.todo[j].min, mgr.todo[i].min)
            /\ \A i, j \in DOMAIN mgr.todo : i # j => mgr.todo[i] # mgr.todo[j]
            /\ \A a \in InRun, b \in ToDo : ~Less(b.min, a.min)
        BY <1>1, <3>1 DEF RunInv
      <4>2. \A a \in InRun', b \in ToDo' : ~Less(b.min, a.min) /\ RangeBelow(a, b)
        BY <2>1, <2>4, <4>1
      <4>3. /\ \A i, j \in DOMAIN mgr'.todo : i < j => ~Less(mgr'.todo[j].min, mgr'.todo[i].min)
            /\ \A i, j \in DOMAIN mgr'.todo : i # j => mgr'.todo[i] # mgr'.todo[j]
        <5>1. mgr'.todo = mgr.todo
          BY <2>3
        <5> QED
          BY <4>1, <5>1
      <4>4. Spans(InRun', mgr'.min, mgr'.max)
        BY <1>2, <2>3, <2>4
      <4>5. mgr'.run # <<>> /\ mgr'.todo # <<>> /\ mgr'.pc = "send"
        BY <1>1, <2>3, <2>7
      <4> QED
        BY <4>2, <4>3, <4>4, <4>5 DEF RunInv, Spans, RangeBelow
  <2> QED
    BY <1>1, <1>2, <2>3, <2>4, <2>6, <2>8 DEF MgrInv, MgrRecord
<1>6. CASE ~JoinsRun(obj) /\ ~(Len(mgr.run) >= 2)
  <2>1. \A a \in InRun, b \in ToDo : RangeBelow(a, b)
    BY <1>1, <1>6, RunIsBelow DEF JoinsRun
  <2>2. /\ MgrRecord(m) /\ m.run = <<>> /\ m.todo = mgr.todo /\ m.pc = mgr.pc
        /\ m.cut = mgr.cut /\ m.err = mgr.err
    <3>1. ToSet(<<>>) = {} /\ <<>> \in Seq(ToSet(<<>>))
      BY DEF ToSet
    <3> QED
      BY <3>1, MgrFacts DEF MgrRecord
  <2>3. mgr' = [AddToRun(m, Head(mgr.todo)) EXCEPT !.todo = Tail(@)]
    BY <1>1, <1>6
  <2> HIDE DEF m
  <2>4. ToSet(m.run) = {} /\ Spans(ToSet(m.run), m.min, m.max)
    <3>1. ToSet(m.run) = {}
      BY <2>2, EmptyInOrder
    <3> QED
      BY <3>1 DEF Spans
  <2>5. /\ mgr'.pc = "scan" /\ mgr'.cut = mgr.cut /\ mgr'.err = mgr.err /\ MgrRecord(mgr')
        /\ RunInv' /\ InRun' = ToSet(m.run) \cup {obj}
        /\ ToDo = {obj} \cup ToDo' /\ InRun' \cap ToDo' = {}
    <3>1. /\ MgrRecord(m) /\ m.pc = mgr.pc /\ m.todo = mgr.todo /\ m.cut = mgr.cut
          /\ m.err = mgr.err /\ ToSet(m.run) \subseteq InRun
      BY <2>2, <2>4
    <3> QED
      BY <1>1, <2>3, <2>4, <3>1, NextJoins
  <2> HIDE DEF obj
  <2>6. InRun' \cup ToDo' = ToDo
    BY <2>4, <2>5
  <2>7. Settled' = Settled \cup InRun
    BY <1>1, <1>2, <2>6 DEF Settled
  <2>8. ~mgr.err => Separated(Settled \cup InRun, Moving, ToDo)
    BY <1>1, <1>2, <1>6, <2>1, RunSettles
  <2>9. SettledInv'
    BY <1>2, <2>5, <2>6, <2>7, <2>8 DEF SettledInv, Separated, RangeBelow, Overlap
  <2>10. InRun' \subseteq objs' /\ ToDo' \subseteq objs' /\ (InRun' \cup ToDo') \cap Moving' = {}
    BY <1>1, <1>2, <2>6
  <2> QED
    BY <1>2, <2>5, <2>9, <2>10 DEF MgrInv, MgrRecord
<1> QED
  BY <1>4, <1>5, <1>6

LEMMA MgrEndsList ==
  ASSUME LakeInv, EndOfList
  PROVE MgrInv'
<1>1. /\ mgr.pc = "scan" /\ UNCHANGED <<objs, job>>
      /\ mgr' = [mgr EXCEPT !.pc = IF Len(mgr.run) >= 2 THEN "last" ELSE "wait",
                            !.cut = mgr.todo # <<>>]
  BY DEF EndOfList
<1>2. /\ mgr'.pc = (IF Len(mgr.run) >= 2 THEN "last" ELSE "wait") /\ mgr'.run = mgr.run
      /\ mgr'.cut = (mgr.todo # <<>>) /\ mgr'.err = mgr.err /\ mgr'.min = mgr.min
      /\ mgr'.max = mgr.max /\ MgrRecord(mgr')
  BY <1>1, MgrFacts DEF MgrRecord
<1>3. /\ InRun = ToSet(mgr.run) /\ ToDo = ToSet(mgr.todo) /\ ~mgr.cut /\ Moving' = Moving
      /\ Spans(InRun, mgr.min, mgr.max) /\ InRun \subseteq objs /\ InRun \cap Moving = {}
      /\ ToDo' = {}
  BY <1>1, <1>2, MgrFacts DEF RunInv, InRun, ToDo, Moving
<1>4. ~mgr'.cut => ToDo = {}
  BY <1>2, <1>3, EmptyInOrder
<1>5. ~mgr.err => Separated(Settled, Moving, InRun \cup ToDo)
  BY <1>1, <1>3, MgrFacts DEF SettledInv
<1>6. CASE Len(mgr.run) >= 2
  <2>1. mgr'.pc = "last" /\ InRun' = InRun
    BY <1>2, <1>3, <1>6 DEF InRun
  <2>2. ~mgr'.cut => Settled' = Settled /\ InRun' \cup ToDo' = InRun \cup ToDo
    BY <1>1, <1>3, <1>4, <2>1 DEF Settled
  <2>3. SettledInv'
    BY <1>2, <1>3, <1>5, <2>2 DEF SettledInv, Separated, RangeBelow, Overlap
  <2>4. mgr.run # <<>>
    <3>1. Len(<<>>) = 0
      OBVIOUS
    <3> QED
      BY <1>6, <3>1
  <2>5. RunInv'
    <3>1. Spans(InRun', mgr'.min, mgr'.max)
      BY <1>2, <1>3, <2>1
    <3> QED
      BY <1>2, <2>1, <2>4, <3>1 DEF RunInv, Spans
  <2> QED
    BY <1>1, <1>2, <1>3, <2>1, <2>3, <2>5 DEF MgrInv, MgrRecord
<1>7. CASE ~(Len(mgr.run) >= 2)
  <2>1. mgr'.pc = "wait" /\ InRun' = {}
    BY <1>2, <1>7 DEF InRun
  <2>2. ~mgr'.cut => Settled' = Settled \cup InRun
    BY <1>1, <1>3, <1>4, <2>1 DEF Settled
  <2>3. ~mgr.err => Separated(Settled \cup InRun, Moving, {})
    BY <1>1, <1>3, <1>7, RunSettles
  <2>4. SettledInv'
    BY <1>2, <1>3, <2>1, <2>2, <2>3 DEF SettledInv, Separated, RangeBelow, Overlap
  <2>5. RunInv'
    BY <2>1 DEF RunInv, Spans
  <2> QED
    BY <1>1, <1>2, <1>3, <2>1, <2>4, <2>5 DEF MgrInv, MgrRecord
<1> QED
  BY <1>6, <1>7

LEMMA MgrEnds ==
  ASSUME LakeInv, EndManage
  PROVE MgrInv'
<1>1. /\ job.kind = "idle" /\ (mgr.pc = "wait" \/ mgr.err) /\ UNCHANGED <<objs, job>>
      /\ mgr' = [mgr EXCEPT !.pc = "done"]
  BY DEF EndManage
<1>2. mgr'.pc = "done" /\ mgr'.cut = mgr.cut /\ mgr'.err = mgr.err /\ MgrRecord(mgr')
  BY <1>1, MgrFacts DEF MgrRecord
<1>3. InRun' = {} /\ ToDo' = {} /\ Moving' = {} /\ Moving = {}
  BY <1>1, <1>2 DEF InRun, ToDo, Moving
<1>4. SettledInv'
  <2> SUFFICES ASSUME ~mgr.err, ~mgr.cut PROVE Separated(Settled', Moving', InRun' \cup ToDo')
    BY <1>2 DEF SettledInv, Separated, RangeBelow, Overlap
  <2>1. mgr.pc = "wait"
    BY <1>1
  <2>2. InRun = {} /\ ToDo = {}
    BY <2>1 DEF InRun, ToDo
  <2>3. Settled' = Settled
    BY <1>1, <1>3, <2>2 DEF Settled
  <2>4. Separated(Settled, {}, {})
    BY <1>3, <2>1, <2>2, MgrFacts DEF SettledInv
  <2> QED
    BY <1>3, <2>3, <2>4
<1>5. RunInv'
  BY <1>2, <1>3 DEF RunInv, Spans
<1> QED
  BY <1>2, <1>3, <1>4, <1>5 DEF MgrInv, MgrRecord

LEMMA MgrLists ==
  ASSUME LakeInv, Manage
  PROVE MgrInv'
<1>1. mgr.pc = "off" /\ job = Idle /\ UNCHANGED <<objs, job>>
  BY DEF Manage
<1>2. PICK s \in ListedByMin : mgr' = [NoManager EXCEPT !.pc = "scan", !.todo = s]
  BY DEF Manage
<1>3. IsFiniteSet(objs) /\ s \in SetToSeqs(objs)
      /\ \A i, j \in 1 .. Len(s) : i < j => ~Less(s[j].min, s[i].min)
  <2>1. job.result # "deleted"
    BY <1>1 DEF Idle
  <2> QED
    BY <1>2, <2>1 DEF LakeInv, DataInv, Stored, ListedByMin
<1>4. s \in Seq(objs) /\ ToSet(s) = objs /\ \A i, j \in DOMAIN s : i # j => s[i] # s[j]
  BY <1>3, Enumerated
<1>5. s \in Seq(ToSet(s)) /\ DOMAIN s = 1 .. Len(s)
  BY <1>4
<1>6. /\ mgr'.pc = "scan" /\ mgr'.todo = s /\ mgr'.run = <<>> /\ ~mgr'.cut /\ ~mgr'.err
      /\ MgrRecord(mgr')
  <2>1. ToSet(<<>>) = {} /\ <<>> \in Seq(ToSet(<<>>))
    BY DEF ToSet
  <2>2. mgr' = [pc |-> "scan", todo |-> s, run |-> <<>>, min |-> <<>>, max |-> <<>>,
                cut |-> FALSE, err |-> FALSE]
    BY <1>2 DEF NoManager
  <2> QED
    BY <1>5, <2>1, <2>2 DEF MgrRecord
<1>7. InRun' = {} /\ ToDo' = objs /\ Moving' = {}
  BY <1>1, <1>4, <1>6, EmptyInOrder DEF InRun, ToDo, Moving, Idle
<1>8. SettledInv'
  <2>1. Settled' = {}
    BY <1>1, <1>7 DEF Settled
  <2> QED
    BY <1>7, <2>1 DEF SettledInv, Separated
<1>9. RunInv'
  <2> DEFINE Listed(q) == /\ \A i, j \in DOMAIN q : i < j => ~Less(q[j].min, q[i].min)
                          /\ \A i, j \in DOMAIN q : i # j => q[i] # q[j]
  <2>1. Listed(s)
    BY <1>3, <1>4, <1>5
  <2> HIDE DEF Listed
  <2>2. Listed(mgr'.todo)
    BY <1>6, <2>1
  <2> QED
    BY <1>6, <1>7, <2>2 DEF RunInv, Spans, Listed
<1> QED
  BY <1>1, <1>6, <1>7, <1>8, <1>9 DEF MgrInv, MgrRecord

(* What a compaction makes is where its source was. *)
LEMMA RollupRange ==
  ASSUME LakeInv, job.kind = "compact", NEW rollup, Replaces(rollup), NEW obj \in rollup
  PROVE /\ obj.min \in Keys /\ obj.max \in Keys
        /\ \E b \in job.src : ~Less(b.max, obj.max)
        /\ \E b \in job.src : ~Less(obj.min, b.min)
<1>1. /\ order \in {"asc", "desc"} /\ Written(order, obj) /\ ToSet(obj.rows) \subseteq RowsOf(job.src)
      /\ \A b \in job.src : Written(order, b)
  BY DEF LakeInv, DataInv, JobInv, Running, Replaces, RowsOf
<1>2. /\ obj.rows \in Seq(Rows) /\ obj.rows # <<>> /\ obj.min \in Keys /\ obj.max \in Keys
      /\ From(order, obj) = KeyOf(obj.rows[1]) /\ To(order, obj) = KeyOf(obj.rows[Len(obj.rows)])
  BY <1>1, WrittenFacts
<1>3. ASSUME NEW k \in DOMAIN obj.rows
      PROVE \E b \in job.src : ~Less(b.max, KeyOf(obj.rows[k])) /\ ~Less(KeyOf(obj.rows[k]), b.min)
  <2>1. obj.rows[k] \in ToSet(obj.rows) /\ obj.rows[k] \in Rows
    BY <1>2 DEF ToSet
  <2>2. PICK b \in job.src : obj.rows[k] \in ToSet(b.rows)
    BY <1>1, <2>1 DEF RowsOf
  <2>3. PICK i \in DOMAIN b.rows : obj.rows[k] = b.rows[i]
    BY <2>2 DEF ToSet
  <2>4. InRange(obj.rows[k], b.min, b.max) /\ b.min \in Keys /\ b.max \in Keys
    BY <1>1, <2>3, WrittenRange, WrittenFacts
  <2> QED
    BY <2>1, <2>4, KeyOfRow DEF InRange
<1>4. 1 \in DOMAIN obj.rows /\ Len(obj.rows) \in DOMAIN obj.rows
  BY <1>2
<1>5. /\ \E b \in job.src : ~Less(b.max, From(order, obj)) /\ ~Less(From(order, obj), b.min)
      /\ \E b \in job.src : ~Less(b.max, To(order, obj)) /\ ~Less(To(order, obj), b.min)
  BY <1>2, <1>3, <1>4
<1> QED
  BY <1>1, <1>2, <1>5 DEF From, To

LEMMA MgrCompacts ==
  ASSUME LakeInv, EndCompact
  PROVE MgrInv'
<1>1. /\ job.kind = "compact" /\ AllDone /\ job'.kind = "idle"
      /\ mgr' = [mgr EXCEPT !.err = job.err]
  BY DEF EndCompact, LakeInv, JobInv
<1>2. job.err \in BOOLEAN
  BY DEF LakeInv, JobInv
<1>3. /\ mgr'.pc = mgr.pc /\ mgr'.todo = mgr.todo /\ mgr'.run = mgr.run /\ mgr'.min = mgr.min
      /\ mgr'.max = mgr.max /\ mgr'.cut = mgr.cut /\ mgr'.err = job.err /\ MgrRecord(mgr')
  BY <1>1, <1>2, MgrFacts DEF MgrRecord
<1>4. InRun' = InRun /\ ToDo' = ToDo /\ Moving' = {} /\ Moving = job.src
  BY <1>1, <1>3 DEF InRun, ToDo, Moving
<1>5. RunInv'
  <2>1. RunInv
    BY MgrFacts
  <2> QED
    BY <1>3, <1>4, <2>1 DEF RunInv, Spans, RangeBelow
<1>6. mgr'.pc # "off" /\ mgr.pc # "off" /\ ~mgr.err
  BY <1>1, <1>3, MgrFacts
<1>7. CASE job.err
  <2>1. objs' = objs
    BY <1>7 DEF EndCompact
  <2>2. SettledInv'
    BY <1>3, <1>7 DEF SettledInv
  <2> QED
    BY <1>3, <1>4, <1>5, <1>6, <2>1, <2>2, MgrFacts DEF MgrInv, MgrRecord
<1>8. CASE ~job.err
  <2> DEFINE rollup == ToSet(writer.objects) \cup {MadeObject(writer.vals)}
  <2>1. objs' = (objs \ job.src) \cup rollup
    BY <1>8 DEF EndCompact
  <2>2. Replaces(rollup)
    BY <1>1, <1>8, CompactEnds
  <2> HIDE DEF rollup
  <2>3. InRun \subseteq objs \ job.src /\ ToDo \subseteq objs \ job.src
    BY <1>4, MgrFacts
  <2>4. Settled' \subseteq Settled \cup rollup
    BY <1>4, <2>1 DEF Settled
  <2>5. ASSUME ~mgr.cut PROVE Separated(Settled', {}, InRun \cup ToDo)
    <3>1. Separated(Settled, job.src, InRun \cup ToDo)
      BY <1>4, <1>6, <2>5, MgrFacts DEF SettledInv
    <3>2. \A a \in objs : a.min \in Keys /\ a.max \in Keys
      BY ObjectKeys
    <3>3. Settled \subseteq objs /\ job.src \subseteq objs /\ InRun \cup ToDo \subseteq objs
      BY <1>4, MgrFacts DEF Settled
    <3>4. ASSUME NEW a \in rollup, NEW b \in InRun \cup ToDo PROVE RangeBelow(a, b)
      <4>1. PICK c \in job.src : ~Less(c.max, a.max)
        BY <1>1, <2>2, RollupRange
      <4>2. a.max \in Keys
        BY <1>1, <2>2, RollupRange
      <4>3. Less(c.max, b.min)
        BY <3>1 DEF Separated, RangeBelow
      <4>4. c.max \in Keys /\ b.min \in Keys
        BY <3>2, <3>3
      <4> QED
        BY <4>1, <4>2, <4>3, <4>4, LessIsOrder DEF RangeBelow
    <3>5. ASSUME NEW a \in Settled, NEW b \in rollup PROVE ~Overlap(a, b)
      <4>1. PICK c \in job.src : ~Less(c.max, b.max)
        BY <1>1, <2>2, RollupRange
      <4>2. PICK d \in job.src : ~Less(b.min, d.min)
        BY <1>1, <2>2, RollupRange
      <4>3. b.max \in Keys /\ b.min \in Keys
        BY <1>1, <2>2, RollupRange
      <4>4. Less(a.max, d.min) \/ Less(c.max, a.min)
        BY <3>1 DEF Separated, RangeBelow
      <4>5. /\ a.max \in Keys /\ a.min \in Keys /\ c.max \in Keys /\ d.min \in Keys
        BY <3>2, <3>3
      <4>6. Less(a.max, b.min) \/ Less(b.max, a.min)
        BY <4>1, <4>2, <4>3, <4>4, <4>5, LessIsOrder
      <4> QED
        BY <4>6 DEF Overlap
    <3>6. ASSUME NEW a \in rollup, NEW b \in rollup, a # b PROVE ~Overlap(a, b)
      <4>1. PrecedesObject(a, b) \/ PrecedesObject(b, a)
        BY <2>2, <3>6 DEF Replaces
      <4> QED
        BY <4>1 DEF PrecedesObject, Before, From, To, Overlap
    <3>7. ASSUME NEW a \in Settled', NEW b \in Settled', a # b PROVE ~Overlap(a, b)
      <4>1. CASE a \in Settled /\ b \in Settled
        BY <3>1, <3>7, <4>1 DEF Separated
      <4>2. CASE a \in rollup /\ b \in rollup
        BY <3>6, <3>7, <4>2
      <4>3. CASE a \in Settled /\ b \in rollup
        BY <3>5, <4>3
      <4>4. CASE a \in rollup /\ b \in Settled
        <5>1. ~Overlap(b, a)
          BY <3>5, <4>4
        <5> QED
          BY <5>1 DEF Overlap
      <4> QED
        BY <2>4, <4>1, <4>2, <4>3, <4>4
    <3>8. \A a \in Settled, b \in InRun \cup ToDo : RangeBelow(a, b)
      BY <3>1 DEF Separated
    <3> QED
      BY <2>4, <3>4, <3>7, <3>8 DEF Separated
  <2>6. SettledInv'
    BY <1>3, <1>4, <2>5 DEF SettledInv, Separated, RangeBelow, Overlap
  <2>7. InRun' \subseteq objs' /\ ToDo' \subseteq objs' /\ InRun' \cap ToDo' = {}
        /\ (InRun' \cup ToDo') \cap Moving' = {}
    BY <1>4, <2>1, <2>3, MgrFacts
  <2>8. mgr'.pc \in {"off", "scan", "send"} => ~mgr'.cut
    BY <1>3, MgrFacts
  <2> QED
    BY <1>3, <1>5, <1>6, <2>6, <2>7, <2>8 DEF MgrInv, MgrRecord
<1> QED
  BY <1>2, <1>7, <1>8

LEMMA MgrInvStep ==
  ASSUME LakeInv, [Next]_vars
  PROVE MgrInv'
<1>1. CASE Begins
  BY <1>1, MgrSends
<1>2. CASE Finishes
  <2>1. CASE EndQuery
    <3>1. mgr' = mgr /\ job.kind \in {"query", "ordered"}
      BY <2>1 DEF EndQuery
    <3>2. mgr.pc = "off"
      BY <3>1 DEF LakeInv, JobInv
    <3> QED
      BY <3>1, <3>2, MgrStays
  <2>2. CASE EndDelete
    <3>1. mgr' = mgr /\ job.kind = "delete"
      BY <2>2, OnlyDeletesBuffer DEF EndDelete
    <3>2. mgr.pc = "off"
      BY <3>1 DEF LakeInv, JobInv
    <3> QED
      BY <3>1, <3>2, MgrStays
  <2> QED
    BY <1>2, <2>1, <2>2, MgrCompacts DEF Finishes
<1>3. CASE Plans
  BY <1>3, MgrLists, MgrBuilds, MgrEndsList, MgrEnds DEF Plans
<1>4. ASSUME NEW t \in Trunks,
             Pulls(t) \/ NextScanner(t) \/ Hands(t) \/ Stops(t) \/ Buffers \/ UNCHANGED vars
      PROVE MgrInv'
  <2>1. job'.kind = job.kind /\ job'.src = job.src /\ objs' = objs
    BY <1>4, JobFrame
  <2>2. mgr' = mgr
    BY <1>4, PullStep, HandsFrame DEF NextScanner, Stops, PullDone, ReadFails,
       Buffers, flipBuffers, writeObject, writeObjectFails, Close, vars
  <2> QED
    BY <2>1, <2>2, MgrStays
<1>5. \E t : t \in Trunks
  BY TrunksAssumption
<1> QED
  BY <1>1, <1>2, <1>3, <1>4, <1>5, StepKinds

----------------------------------------------------------------------------
(* The invariant holds, and what it says of the branch and the scans. *)

LEMMA LakeInit ==
  ZeroIsNotNull /\ Init => LakeInv
<1> SUFFICES ASSUME ZeroIsNotNull, Init PROVE LakeInv
  OBVIOUS
<1>1. PICK p \in Pools : order = p.order /\ objs = p.objs
  BY DEF Init
<1>2. DataInv
  <2>1. /\ order \in {"asc", "desc"} /\ IsFiniteSet(objs)
        /\ \A obj \in objs : Written(order, obj)
        /\ \A a, b \in objs : a # b => ToSet(a.rows) \cap ToSet(b.rows) = {}
        /\ \A r, q \in RowsOf(objs) : r # q => r.id # q.id
        /\ ZeroApart(order, RowsOf(objs))
    BY <1>1, PoolsAssumption DEF ZeroIsNotNull
  <2>2. RowsOf(objs) \subseteq Rows
    <3>1. \A obj \in objs : obj.rows \in Seq(Rows)
      BY <2>1, WrittenFacts
    <3>2. \A obj \in objs : ToSet(obj.rows) \subseteq Rows
      BY <3>1, SelfSeq
    <3> QED
      BY <3>2 DEF RowsOf
  <2> QED
    BY <2>1, <2>2 DEF DataInv, Stored, Distinct
<1>3. /\ job = Idle /\ listing = <<>> /\ slicer = <<>> /\ parts = <<>> /\ writer = NewWriter
      /\ mgr = NoManager
      /\ trunk = [t \in Trunks |-> [pc |-> "done", left |-> <<>>]]
      /\ out = [t \in Trunks |-> <<>>]
  BY DEF Init
<1>4. JobInv
  <2>1. NoPred \in Predicates
    BY DEF NoPred, One, Other, Predicates, Comparisons, Operators
  <2> QED
    BY <1>1, <1>3, <2>1 DEF JobInv, Idle, Running, Results, NoManager
<1>5. ~Running
  BY <1>3 DEF Running, Idle
<1>6. ListInv
  BY <1>5 DEF ListInv
<1>7. TrunkInv
  <2>1. <<>> \in Seq(Rows)
    BY EmptyInOrder
  <2> QED
    BY <1>3, <1>5, <2>1 DEF TrunkInv
<1>8. WriterInv
  <2>1. job.kind = "idle"
    BY <1>3 DEF Idle
  <2>2. ToSet(writer.objects) = {}
    BY <1>3, NewWriterIsEmpty
  <2>3. writer \in [vals : Seq(Rows), flip : BOOLEAN, closing : BOOLEAN,
                    buffer : {"free", "busy", "closed"}, recs : Seq(Rows),
                    objects : Seq(ToSet(writer.objects))]
    BY <1>3, NewWriterIsEmpty
  <2> QED
    BY <1>3, <2>1, <2>2, <2>3 DEF WriterInv, DeleteInv, CompactInv
<1>9. MgrInv
  <2>1. /\ mgr.pc = "off" /\ ~mgr.cut /\ ~mgr.err /\ MgrRecord(mgr)
    <3>1. ToSet(<<>>) = {} /\ <<>> \in Seq(ToSet(<<>>))
      BY DEF ToSet
    <3> QED
      BY <1>3, <3>1 DEF NoManager, MgrRecord
  <2>2. InRun = {} /\ ToDo = {}
    BY <2>1 DEF InRun, ToDo
  <2> QED
    BY <2>1, <2>2 DEF MgrInv, RunInv, Spans, SettledInv
<1> QED
  BY <1>2, <1>4, <1>6, <1>7, <1>8, <1>9 DEF LakeInv

LEMMA LakeStep ==
  LakeInv /\ [Next]_vars => LakeInv'
BY DataInvStep, JobInvStep, ListStep, TrunkInvStep, WriterInvStep, MgrInvStep DEF LakeInv

(* The inductive invariant of the lake: where every object and every row   *)
(* of the branch is while queries, deletes and compactions run             *)
(* (slicer.go, sequence.go, deleter.go, writer.go, scan.go).  Like all     *)
(* that follows from it, it needs the pools to be in ascending order or to *)
(* have no row with the key zero beside one without a key: in others       *)
(* sortObjects (lister.go:116-119) puts the list out of order, and what a  *)
(* compaction then writes is not sorted.                                   *)
THEOREM LakeSafe ==
  ZeroIsNotNull /\ Spec => []LakeInv
<1> SUFFICES ASSUME ZeroIsNotNull PROVE Spec => []LakeInv
  OBVIOUS
<1>1. Init => LakeInv
  BY LakeInit
<1>2. LakeInv /\ [Next]_vars => LakeInv'
  BY LakeStep
<1> QED
  BY <1>1, <1>2, PTL DEF Spec

(* However the trunks of an ordered query or of a compaction share the     *)
(* Slicer, the partitions it hands out do not overlap, they come in the    *)
(* pool's order, and each trunk returns its rows in that order             *)
(* (slicer.go:107-131, sequence.go:60-89), where zero and null keys do not *)
(* meet in descending order (lister.go:116-119).                           *)
THEOREM TrunksStaySorted ==
  ZeroIsNotNull /\ Spec => []TrunksSorted
<1> SUFFICES ASSUME ZeroIsNotNull PROVE Spec => []TrunksSorted
  OBVIOUS
<1>1. LakeInv => TrunksSorted
  <2> SUFFICES ASSUME LakeInv PROVE TrunksSorted
    OBVIOUS
  <2> SUFFICES ASSUME job.kind \in {"ordered", "compact"}
               PROVE /\ \A i, j \in 1 .. Len(parts) : i < j =>
                          \A a \in parts[i], b \in parts[j] :
                            Before(order, To(order, a), From(order, b))
                     /\ \A t \in Trunks : Ordered(order, out[t])
    BY DEF TrunksSorted, PartitionsInOrder
  <2>1. Running /\ Sliced
    BY DEF Running, Sliced
  <2>2. /\ parts \in Seq(SUBSET job.src)
        /\ \A i, j \in DOMAIN parts : i < j =>
             \A a \in parts[i], b \in parts[j] : Before(order, To(order, a), From(order, b))
    BY <2>1 DEF LakeInv, ListInv, PrecedesObject
  <2>3. DOMAIN parts = 1 .. Len(parts)
    BY <2>2
  <2>4. ASSUME NEW t \in Trunks PROVE Ordered(order, out[t])
    <3>1. out[t] \in Seq(Rows) /\ trunk[t].left \in Seq(Rows) /\ Ordered(order, out[t] \o trunk[t].left)
      BY <2>1 DEF LakeInv, TrunkInv, Returned
    <3> QED
      BY <3>1, ConcatOrdered
  <2> QED
    BY <2>2, <2>3, <2>4
<1> QED
  BY <1>1, LakeSafe, PTL

(* Every object of the branch, written by a delete or by a compaction as   *)
(* well, is sorted, has the true range and count, and a seek index that    *)
(* tiles it and bounds its keys (data/writer.go:60-132).                   *)
THEOREM ObjectsStayWellFormed ==
  ZeroIsNotNull /\ Spec => []ObjectsWellFormed
<1> SUFFICES ASSUME ZeroIsNotNull PROVE Spec => []ObjectsWellFormed
  OBVIOUS
<1>1. LakeInv => ObjectsWellFormed
  BY WrittenIsWellFormed DEF LakeInv, DataInv, ObjectsWellFormed
<1> QED
  BY <1>1, LakeSafe, PTL

(* A pass of the manager that read the whole list and compacted all its    *)
(* runs leaves no two objects of the branch that overlap, although one     *)
(* goroutine scans ahead while another compacts, and a run of one object   *)
(* is not compacted at all (lakemanage/scan.go:42-61).                     *)
THEOREM PassLeavesNoOverlap ==
  ZeroIsNotNull /\ Spec => []NoOverlapAfterPass
<1> SUFFICES ASSUME ZeroIsNotNull PROVE Spec => []NoOverlapAfterPass
  OBVIOUS
<1>1. LakeInv => NoOverlapAfterPass
  <2> SUFFICES ASSUME LakeInv, mgr.pc = "done", ~mgr.err, ~mgr.cut
               PROVE \A a, b \in objs : a # b => ~Overlap(a, b)
    BY DEF NoOverlapAfterPass
  <2>1. InRun = {} /\ ToDo = {}
    BY DEF InRun, ToDo
  <2>2. Moving = {}
    BY DEF Moving, LakeInv, JobInv
  <2>3. Settled = objs
    BY <2>1, <2>2 DEF Settled
  <2> QED
    BY <2>3, MgrFacts DEF SettledInv, Separated
<1> QED
  BY <1>1, LakeSafe, PTL


----------------------------------------------------------------------------
(* What operations have done by the time they end: every row they are to   *)
(* read is accounted for.                                                  *)

(* The objects whose rows are scanned: a delete passes over the others.    *)
Hit == IF job.kind = "delete" THEN {obj \in Given : hasDeletes(obj)} ELSE Given

RowsRead(os) == UNION {ToSet(Read(obj)) : obj \in os}

Got == UNION {ToSet(Returned(t)) : t \in Trunks}

OutRows == UNION {ToSet(out[t]) : t \in Trunks}

Scanning == IF job.kind = "compact" THEN {TheTrunk} ELSE Trunks

Whole == Running /\ ~job.err /\ job.result = "none"

(* Only a query is cut short by its consumer.  Unless an operation is, or  *)
(* fails, what is not listed any more is given out or pruned, and what is  *)
(* given out has been read.                                                *)
ReadInv ==
    /\ job.kind \in {"delete", "compact"} => job.result = "none"
    /\ Whole =>
         /\ job.src \subseteq Pending \cup Given \cup {obj \in job.src : Pruned(obj)}
         /\ RowsRead(Hit) \subseteq Got
         /\ \A t \in Scanning : trunk[t].pc = "done" => Pending = {}

(* A delete rewrites the objects that have rows to delete.                 *)
HitInv ==
    job.kind = "delete" =>
    /\ deletes = {obj.id : obj \in Hit}
    /\ Got \subseteq RowsRead(Hit)

Disjoint(a, b) == a \cap b = {}

(* What the trunks of a delete have returned is in one of the writer's     *)
(* buffers or in one of its objects.                                       *)
Among(rows, vals, recs, objects) ==
    /\ rows = vals \cup recs \cup RowsOf(ToSet(objects))
    /\ Disjoint(vals, recs)
    /\ Disjoint(vals \cup recs, RowsOf(ToSet(objects)))
    /\ \A i, j \in DOMAIN objects : i # j =>
         Disjoint(ToSet(objects[i].rows), ToSet(objects[j].rows))

Spread == Among(OutRows, ToSet(writer.vals), ToSet(writer.recs), writer.objects)

SpreadInv ==
    job.kind = "delete" =>
    /\ writer.buffer = "free" => writer.recs = <<>>
    /\ writer.closing => AllDone
    /\ writer.closing /\ ~writer.flip /\ writer.buffer # "closed" => writer.vals = <<>>
    /\ writer.buffer # "closed" => Spread

ExactInv == Stored(objs) /\ ReadInv /\ HitInv /\ SpreadInv

LEMMA ReadFrame ==
  ASSUME job'.kind = job.kind, job'.pred = job.pred
  PROVE /\ \A obj : Read(obj)' = Read(obj) /\ hasDeletes(obj)' = hasDeletes(obj)
        /\ \A obj : Pruned(obj)' = Pruned(obj)
        /\ \A r : Keeps(r)' = Keeps(r)
        /\ \A os : RowsRead(os)' = RowsRead(os)
<1>1. \A r : Keeps(r)' = Keeps(r)
  BY DEF Keeps
<1>2. ASSUME NEW obj PROVE Read(obj)' = Read(obj)
  <2>1. {r \in ToSet(obj.rows) : Keeps(r)'} = {r \in ToSet(obj.rows) : Keeps(r)}
    BY <1>1
  <2> QED
    BY <2>1 DEF Read
<1>3. \A obj : hasDeletes(obj)' = hasDeletes(obj)
  BY <1>2 DEF hasDeletes
<1>4. \A obj : Pruned(obj)' = Pruned(obj)
  BY DEF Pruned
<1>5. \A os : RowsRead(os)' = RowsRead(os)
  BY <1>2 DEF RowsRead
<1> QED
  BY <1>1, <1>2, <1>3, <1>4, <1>5

LEMMA HitFrame ==
  ASSUME job'.kind = job.kind, job'.pred = job.pred, Given' = Given
  PROVE Hit' = Hit /\ RowsRead(Hit)' = RowsRead(Hit)
<1>1. Hit' = Hit
  BY ReadFrame DEF Hit
<1> QED
  BY <1>1, ReadFrame

(* The trunks hold the same rows as long as none pulls.                    *)
LEMMA GotFrame ==
  ASSUME \A t \in Trunks : out'[t] \o trunk'[t].left = out[t] \o trunk[t].left
  PROVE Got' = Got
BY DEF Got, Returned

(* A pull adds the rows of the objects it hits.                            *)
Hits(part) == IF job.kind = "delete" THEN {obj \in ToSet(part) : hasDeletes(obj)} ELSE ToSet(part)

LEMMA PullReads ==
  ASSUME LakeInv, NEW t \in Trunks, Pulls(t)
  PROVE /\ Hit' = Hit \cup Hits(PullParent.part)
        /\ Got' = Got \cup RowsRead(Hits(PullParent.part))
        /\ job.kind = "delete" => deletes' = deletes \cup {obj.id : obj \in Hits(PullParent.part)}
        /\ \A u \in Trunks : trunk'[u].pc = "done" => trunk[u].pc = "done" \/ LeftOf(PullParent) = {}
<1> DEFINE next == PullParent
           H == Hits(next.part)
<1>1. /\ Running /\ Pulled(next) /\ UNCHANGED <<order, objs, job, out, writer, mgr, faults>>
      /\ Given' = Given \cup ToSet(next.part) /\ trunk[t].pc = "pull" /\ ~job.err
  BY PullStep
<1>2. Hit' = Hit \cup H
  BY <1>1, ReadFrame DEF Hit, Hits
<1>3. /\ trunk \in [Trunks -> [pc : {"pull", "scan", "done"}, left : Seq(Rows)]]
      /\ out \in [Trunks -> Seq(Rows)] /\ trunk[t].left = <<>>
  BY <1>1 DEF LakeInv, TrunkInv
<1>4. next.part \in Seq(job.src) /\ (next.part = <<>> => LeftOf(next) = {})
  BY <1>1 DEF Pulled
<1>5. \E pc \in {"pull", "scan", "done"}, rs \in Seq(Rows) :
        /\ trunk' = [trunk EXCEPT ![t] = [pc |-> pc, left |-> rs]]
        /\ ToSet(rs) = RowsRead(H) /\ (pc = "done" => next.part = <<>>)
        /\ job.kind = "delete" => deletes' = deletes \cup {obj.id : obj \in H}
  <2>1. ASSUME NEW rs \in newScanner(next.part)
        PROVE rs \in Seq(Rows) /\ ToSet(rs) = RowsRead(ToSet(next.part))
    <3>1. /\ rs \in Seq(Rows)
          /\ ToSet(rs) = UNION {ToSet(Read(next.part[i])) : i \in DOMAIN next.part}
      BY <1>1, <1>4, <2>1, ScannerFacts
    <3>2. \A os : RowsRead(os) = UNION {ToSet(Read(obj)) : obj \in os}
      BY DEF RowsRead
    <3>3. ToSet(next.part) = {next.part[i] : i \in DOMAIN next.part}
      BY DEF ToSet
    <3>4. {ToSet(Read(obj)) : obj \in ToSet(next.part)}
             = {ToSet(Read(next.part[i])) : i \in DOMAIN next.part}
      BY <3>3
    <3> QED
      BY <3>1, <3>2, <3>4
  <2>2. next.part = <<>> => RowsRead(H) = {} /\ H = {}
    BY DEF RowsRead, Hits, ToSet
  <2>3. <<>> \in Seq(Rows) /\ ToSet(<<>>) = {}
    BY EmptyInOrder
  <2>4. CASE SequencePull(t)
    <3>1. PICK rs \in newScanner(next.part) :
            trunk' = [trunk EXCEPT ![t] = IF next.part = <<>> THEN [pc |-> "done", left |-> <<>>]
                                          ELSE [pc |-> "scan", left |-> rs]]
      BY <2>4 DEF SequencePull
    <3>2. job.kind # "delete" /\ H = ToSet(next.part)
      BY <2>4 DEF SequencePull, Hits
    <3>3. CASE next.part = <<>>
      BY <2>2, <2>3, <3>1, <3>2, <3>3
    <3>4. CASE next.part # <<>>
      <4>1. trunk' = [trunk EXCEPT ![t] = [pc |-> "scan", left |-> rs]]
        BY <3>1, <3>4
      <4> QED
        BY <2>1, <3>2, <4>1
    <3> QED
      BY <3>3, <3>4
  <2>5. CASE nextDeletion(t)
    <3> DEFINE hit == next.part # <<>> /\ hasDeletes(next.part[1])
    <3>1. PICK rs \in newScanner(next.part) :
            /\ trunk' = [trunk EXCEPT ![t] =
                 CASE next.part = <<>> -> [pc |-> "done", left |-> <<>>]
                   [] hit              -> [pc |-> "scan", left |-> rs]
                   [] OTHER            -> @]
            /\ deletes' = IF hit THEN deletes \cup {next.part[1].id} ELSE deletes
      BY <2>5 DEF nextDeletion
    <3>2. job.kind = "delete"
      BY <2>5 DEF nextDeletion
    <3>3. Len(next.part) <= 1
      BY <1>1, <3>2 DEF Pulled, Sliced
    <3>4. CASE next.part = <<>>
      <4>1. trunk' = [trunk EXCEPT ![t] = [pc |-> "done", left |-> <<>>]] /\ deletes' = deletes
        BY <3>1, <3>4
      <4>2. H = {} /\ RowsRead(H) = {}
        BY <2>2, <3>4
      <4> QED
        BY <2>3, <3>4, <4>1, <4>2
    <3>5. CASE next.part # <<>>
      <4>1. ToSet(next.part) = {next.part[1]}
        <5>1. DOMAIN next.part = {1}
          BY <1>4, <3>3, <3>5
        <5> QED
          BY <5>1 DEF ToSet
      <4>2. CASE hit
        <5>1. H = {next.part[1]} /\ H = ToSet(next.part)
          BY <3>2, <4>1, <4>2 DEF Hits
        <5>2. trunk' = [trunk EXCEPT ![t] = [pc |-> "scan", left |-> rs]]
              /\ deletes' = deletes \cup {next.part[1].id}
          BY <3>1, <3>5, <4>2
        <5>3. {obj.id : obj \in H} = {next.part[1].id}
          BY <5>1
        <5> QED
          BY <2>1, <3>5, <5>1, <5>2, <5>3
      <4>3. CASE ~hit
        <5>1. H = {} /\ RowsRead(H) = {}
          BY <3>2, <3>5, <4>1, <4>3 DEF Hits, RowsRead
        <5>2. trunk' = [trunk EXCEPT ![t] = @] /\ deletes' = deletes
          BY <3>1, <3>5, <4>3
        <5>3. trunk' = [trunk EXCEPT ![t] = [pc |-> "pull", left |-> <<>>]]
          BY <1>1, <1>3, <5>2
        <5> QED
          BY <2>3, <3>5, <5>1, <5>2, <5>3
      <4> QED
        BY <4>2, <4>3
    <3> QED
      BY <3>4, <3>5
  <2> QED
    BY <2>4, <2>5 DEF Pulls
<1> HIDE DEF next, H
<1>6. PICK pc \in {"pull", "scan", "done"}, rs \in Seq(Rows) :
        /\ trunk' = [trunk EXCEPT ![t] = [pc |-> pc, left |-> rs]]
        /\ ToSet(rs) = RowsRead(H) /\ (pc = "done" => next.part = <<>>)
        /\ job.kind = "delete" => deletes' = deletes \cup {obj.id : obj \in H}
  BY <1>5
<1>7. trunk'[t] = [pc |-> pc, left |-> rs] /\ \A u \in Trunks \ {t} : trunk'[u] = trunk[u]
  BY <1>3, <1>6
<1>8. ToSet(Returned(t)') = ToSet(Returned(t)) \cup RowsRead(H)
  <2>1. Returned(t)' = out[t] \o rs /\ Returned(t) = out[t] \o <<>>
    BY <1>1, <1>3, <1>7 DEF Returned
  <2>2. ToSet(out[t] \o rs) = ToSet(out[t]) \cup ToSet(rs)
    BY <1>3, ConcatSets
  <2>3. out[t] \o <<>> = out[t]
    BY <1>3
  <2> QED
    BY <1>6, <2>1, <2>2, <2>3
<1>9. \A u \in Trunks \ {t} : Returned(u)' = Returned(u)
  BY <1>1, <1>7 DEF Returned
<1>10. Got' = Got \cup RowsRead(H)
  BY <1>8, <1>9 DEF Got
<1>11. ASSUME NEW u \in Trunks, trunk'[u].pc = "done"
       PROVE trunk[u].pc = "done" \/ LeftOf(next) = {}
  BY <1>4, <1>6, <1>7, <1>11
<1> QED
  BY <1>2, <1>6, <1>10, <1>11 DEF next, H


LEMMA RowsStay ==
  ASSUME LakeInv, NEW t \in Trunks, NextScanner(t) \/ Hands(t) \/ Buffers \/ Plans \/ UNCHANGED vars
  PROVE /\ Got' = Got /\ deletes' = deletes
        /\ \A u \in Trunks : trunk'[u].pc = "done" => trunk[u].pc = "done"
<1>1. /\ trunk \in [Trunks -> [pc : {"pull", "scan", "done"}, left : Seq(Rows)]]
      /\ out \in [Trunks -> Seq(Rows)]
  BY DEF LakeInv, TrunkInv
<1>2. CASE Hands(t)
  <2> DEFINE s == trunk[t].left
  <2>1. /\ trunk[t].pc = "scan" /\ s # <<>> /\ deletes' = deletes
        /\ out' = [out EXCEPT ![t] = Append(@, Head(s))] /\ trunk' = [trunk EXCEPT ![t].left = Tail(@)]
    BY <1>2, HandsFrame
  <2>2. Append(out[t], Head(s)) \o Tail(s) = out[t] \o s
    <3>1. out[t] \in Seq(Rows) /\ s \in Seq(Rows)
      BY <1>1
    <3> HIDE DEF s
    <3> QED
      BY <2>1, <3>1, MoveHead
  <2>3. /\ out'[t] = Append(out[t], Head(s)) /\ trunk'[t] = [pc |-> "scan", left |-> Tail(s)]
        /\ \A u \in Trunks \ {t} : out'[u] = out[u] /\ trunk'[u] = trunk[u]
    BY <1>1, <2>1
  <2> HIDE DEF s
  <2>4. out'[t] \o trunk'[t].left = out[t] \o trunk[t].left
    <3>1. out'[t] = Append(out[t], Head(s)) /\ trunk'[t].left = Tail(s)
      BY <2>3
    <3>2. out'[t] \o trunk'[t].left = out[t] \o s
      BY <2>2, <3>1
    <3> QED
      BY <3>2 DEF s
  <2>5. \A u \in Trunks : out'[u] \o trunk'[u].left = out[u] \o trunk[u].left
    <3> SUFFICES ASSUME NEW u \in Trunks
                 PROVE out'[u] \o trunk'[u].left = out[u] \o trunk[u].left
      OBVIOUS
    <3>1. CASE u = t
      BY <2>4, <3>1
    <3>2. CASE u # t
      BY <2>3, <3>2
    <3> QED
      BY <3>1, <3>2
  <2>6. Got' = Got
    BY <2>5, GotFrame
  <2>7. \A u \in Trunks : trunk'[u].pc = "done" => trunk[u].pc = "done"
    BY <2>3
  <2> QED
    BY <2>1, <2>6, <2>7
<1>3. CASE NextScanner(t) \/ Buffers \/ Plans \/ UNCHANGED vars
  <2>1. /\ out' = out /\ deletes' = deletes
        /\ trunk' = trunk \/ trunk' = [trunk EXCEPT ![t].pc = "pull"]
    <3>1. CASE NextScanner(t)
      BY <3>1 DEF NextScanner
    <3>2. CASE Buffers
      BY <3>2 DEF Buffers, flipBuffers, writeObject, writeObjectFails, Close, scanVars
    <3>3. CASE Plans
      BY <3>3 DEF Plans, Manage, BuildRun, EndOfList, EndManage, scanVars
    <3>4. CASE UNCHANGED vars
      BY <3>4 DEF vars, scanVars
    <3> QED
      BY <1>3, <3>1, <3>2, <3>3, <3>4
  <2>2. \A u \in Trunks : trunk'[u].left = trunk[u].left /\ (trunk'[u].pc = "done" => trunk[u].pc = "done")
    <3>1. CASE trunk' = trunk
      BY <3>1
    <3>2. CASE trunk' = [trunk EXCEPT ![t].pc = "pull"]
      <4>1. trunk'[t].left = trunk[t].left /\ trunk'[t].pc = "pull"
        BY <1>1, <3>2
      <4>2. \A u \in Trunks \ {t} : trunk'[u] = trunk[u]
        BY <1>1, <3>2
      <4> QED
        BY <4>1, <4>2
    <3> QED
      BY <2>1, <3>1, <3>2
  <2>3. Got' = Got
    BY <2>1, <2>2, GotFrame
  <2> QED
    BY <2>1, <2>2, <2>3
<1> QED
  BY <1>2, <1>3

LEMMA ReadBegins ==
  ASSUME LakeInv, Begins
  PROVE /\ ReadInv' /\ HitInv' /\ job'.result = "none" /\ UNCHANGED <<order, objs>>
        /\ job'.pred \in Predicates /\ writer' = NewWriter /\ OutRows' = {}
<1>1. PICK kind \in Kinds, pred \in Predicates, src \in SUBSET objs, ts \in SUBSET Trunks :
        /\ Start(kind, pred, src, ts) /\ job.result # "deleted"
        /\ ts = IF kind = "compact" THEN {TheTrunk} ELSE Trunks
  BY BeginStep
<1>2. Pending' = src /\ Given' = {} /\ job'.kind = kind /\ job'.src = src
  BY <1>1, StartLists
<1>3. /\ job' = [Idle EXCEPT !.kind = kind, !.pred = pred, !.src = src]
      /\ trunk' = [t \in Trunks |-> [pc |-> IF t \in ts THEN "pull" ELSE "done", left |-> <<>>]]
      /\ out' = [t \in Trunks |-> <<>>] /\ deletes' = {} /\ writer' = NewWriter
      /\ UNCHANGED <<order, objs>>
  BY <1>1 DEF Start
<1>4. job'.result = "none" /\ job'.pred = pred
  BY <1>3 DEF Idle
<1>5. Hit' = {}
  BY <1>2 DEF Hit
<1>6. RowsRead(Hit)' = {}
  BY <1>5 DEF RowsRead
<1>7. Got' = {} /\ OutRows' = {}
  <2>1. \A t \in Trunks : Returned(t)' = <<>> \o <<>> /\ out'[t] = <<>>
    BY <1>3 DEF Returned
  <2>2. <<>> \o <<>> = <<>>
    OBVIOUS
  <2> QED
    BY <2>1, <2>2, EmptyInOrder DEF Got, OutRows
<1>8. \A t \in Scanning' : trunk'[t].pc # "done"
  <2>1. TheTrunk \in Trunks
    BY TrunksAssumption DEF TheTrunk
  <2> QED
    BY <1>1, <1>2, <1>3, <2>1 DEF Scanning
<1>9. ReadInv'
  BY <1>2, <1>4, <1>6, <1>7, <1>8 DEF ReadInv
<1>10. HitInv'
  BY <1>3, <1>5, <1>6, <1>7 DEF HitInv
<1> QED
  BY <1>3, <1>4, <1>7, <1>9, <1>10

LEMMA ReadPulls ==
  ASSUME LakeInv, ReadInv, HitInv, NEW t \in Trunks, Pulls(t)
  PROVE ReadInv' /\ HitInv'
<1> DEFINE next == PullParent
           H == Hits(next.part)
<1>1. /\ Running /\ Pulled(next) /\ UNCHANGED <<order, objs, job, out, writer, mgr, faults>>
      /\ Given' = Given \cup ToSet(next.part) /\ Pending' = LeftOf(next)
  BY PullStep
<1>2. /\ Hit' = Hit \cup H /\ Got' = Got \cup RowsRead(H)
      /\ job.kind = "delete" => deletes' = deletes \cup {obj.id : obj \in H}
      /\ \A u \in Trunks : trunk'[u].pc = "done" => trunk[u].pc = "done" \/ LeftOf(next) = {}
  BY PullReads
<1>3. /\ Pending \subseteq ToSet(next.part) \cup LeftOf(next) \cup {obj \in job.src : Pruned(obj)}
      /\ LeftOf(next) \subseteq Pending
  BY <1>1 DEF Pulled
<1> HIDE DEF next, H
<1>4. /\ RowsRead(Hit)' = RowsRead(Hit) \cup RowsRead(H)
      /\ \A obj : Pruned(obj)' = Pruned(obj)
  <2>1. RowsRead(Hit)' = RowsRead(Hit \cup H) /\ \A obj : Pruned(obj)' = Pruned(obj)
    BY <1>1, <1>2, ReadFrame DEF RowsRead
  <2>2. RowsRead(Hit \cup H) = RowsRead(Hit) \cup RowsRead(H)
    BY DEF RowsRead
  <2> QED
    BY <2>1, <2>2
<1>5. Scanning' = Scanning /\ Whole' = Whole /\ job' = job
  BY <1>1 DEF Scanning, Whole, Running
<1>6. Scanning \subseteq Trunks
  BY TrunksAssumption DEF Scanning, TheTrunk
<1>7. ASSUME Whole
      PROVE /\ job'.src \subseteq Pending' \cup Given' \cup {obj \in job'.src : Pruned(obj)'}
            /\ RowsRead(Hit)' \subseteq Got'
            /\ \A u \in Scanning' : trunk'[u].pc = "done" => Pending' = {}
  <2>1. /\ job.src \subseteq Pending \cup Given \cup {obj \in job.src : Pruned(obj)}
        /\ RowsRead(Hit) \subseteq Got
        /\ \A u \in Scanning : trunk[u].pc = "done" => Pending = {}
    BY <1>7 DEF ReadInv
  <2>2. job'.src \subseteq Pending' \cup Given' \cup {obj \in job'.src : Pruned(obj)'}
    BY <1>1, <1>3, <1>4, <1>5, <2>1
  <2>3. \A u \in Scanning' : trunk'[u].pc = "done" => Pending' = {}
    BY <1>1, <1>2, <1>3, <1>5, <1>6, <2>1
  <2> QED
    BY <1>2, <1>4, <2>1, <2>2, <2>3
<1>8. ReadInv'
  BY <1>5, <1>7 DEF ReadInv
<1>9. HitInv'
  <2> SUFFICES ASSUME job.kind = "delete"
               PROVE deletes' = {obj.id : obj \in Hit'} /\ Got' \subseteq RowsRead(Hit)'
    BY <1>5 DEF HitInv
  <2>1. deletes = {obj.id : obj \in Hit} /\ Got \subseteq RowsRead(Hit)
    BY DEF HitInv
  <2>2. {obj.id : obj \in Hit \cup H} = {obj.id : obj \in Hit} \cup {obj.id : obj \in H}
    OBVIOUS
  <2> QED
    BY <1>2, <1>4, <2>1, <2>2
<1> QED
  BY <1>8, <1>9

LEMMA ReadStays ==
  ASSUME LakeInv, ReadInv, HitInv, NEW t \in Trunks,
         NextScanner(t) \/ Hands(t) \/ Stops(t) \/ Buffers \/ Plans \/ UNCHANGED vars
  PROVE ReadInv' /\ HitInv'
<1>1. /\ job'.kind = job.kind /\ job'.src = job.src /\ job'.pred = job.pred
      /\ job'.result = (IF PullDone(t) THEN "partial" ELSE job.result) /\ (job.err => job'.err)
  BY JobFrame
<1>2. job'.kind \in {"delete", "compact"} => job'.result = "none"
  BY <1>1 DEF ReadInv, PullDone
<1>3. Given' = Given /\ Pending' = Pending
  BY ListStays DEF Given, Pending
<1>4. Hit' = Hit /\ RowsRead(Hit)' = RowsRead(Hit) /\ \A obj : Pruned(obj)' = Pruned(obj)
  BY <1>1, <1>3, HitFrame, ReadFrame
<1>5. CASE Stops(t)
  <2>1. /\ trunk' = [trunk EXCEPT ![t] = [pc |-> "done", left |-> <<>>]]
        /\ UNCHANGED <<out, deletes>>
    BY <1>5 DEF Stops, PullDone, ReadFails
  <2>2. ~Whole'
    <3>1. CASE PullDone(t)
      BY <1>1, <3>1 DEF Whole
    <3>2. CASE ReadFails(t)
      BY <3>2 DEF ReadFails, Whole, LakeInv, JobInv
    <3> QED
      BY <1>5, <3>1, <3>2 DEF Stops
  <2>3. Got' \subseteq Got
    <3>1. /\ trunk \in [Trunks -> [pc : {"pull", "scan", "done"}, left : Seq(Rows)]]
          /\ out \in [Trunks -> Seq(Rows)]
      BY DEF LakeInv, TrunkInv
    <3>2. \A u \in Trunks \ {t} : Returned(u)' = Returned(u)
      BY <2>1, <3>1 DEF Returned
    <3>3. ToSet(Returned(t)') \subseteq ToSet(Returned(t))
      <4>1. Returned(t)' = out[t] \o <<>> /\ out[t] \o <<>> = out[t]
        BY <2>1, <3>1 DEF Returned
      <4>2. ToSet(Returned(t)) = ToSet(out[t]) \cup ToSet(trunk[t].left)
        BY <3>1, ConcatSets DEF Returned
      <4> QED
        BY <4>1, <4>2
    <3> QED
      BY <3>2, <3>3 DEF Got
  <2> QED
    BY <1>1, <1>2, <1>4, <2>1, <2>2, <2>3 DEF ReadInv, HitInv
<1>6. CASE NextScanner(t) \/ Hands(t) \/ Buffers \/ Plans \/ UNCHANGED vars
  <2>1. /\ Got' = Got /\ deletes' = deletes
        /\ \A u \in Trunks : trunk'[u].pc = "done" => trunk[u].pc = "done"
    BY <1>6, RowsStay
  <2>2. Scanning' = Scanning /\ Scanning \subseteq Trunks
    BY <1>1, TrunksAssumption DEF Scanning, TheTrunk
  <2>3. ASSUME Whole'
        PROVE Whole
    <3>1. job.err \in BOOLEAN
      BY DEF LakeInv, JobInv
    <3> QED
      BY <1>1, <2>3, <3>1 DEF Whole, Running
  <2> HIDE DEF Whole
  <2>4. Whole' =>
          /\ job'.src \subseteq Pending' \cup Given' \cup {obj \in job'.src : Pruned(obj)'}
          /\ RowsRead(Hit)' \subseteq Got'
          /\ \A u \in Scanning' : trunk'[u].pc = "done" => Pending' = {}
    <3> SUFFICES ASSUME Whole'
                 PROVE /\ job'.src \subseteq Pending' \cup Given' \cup {obj \in job'.src : Pruned(obj)'}
                       /\ RowsRead(Hit)' \subseteq Got'
                       /\ \A u \in Scanning' : trunk'[u].pc = "done" => Pending' = {}
      OBVIOUS
    <3>1. /\ job.src \subseteq Pending \cup Given \cup {obj \in job.src : Pruned(obj)}
          /\ RowsRead(Hit) \subseteq Got
          /\ \A u \in Scanning : trunk[u].pc = "done" => Pending = {}
      BY <2>3 DEF ReadInv
    <3>2. job'.src \subseteq Pending' \cup Given' \cup {obj \in job'.src : Pruned(obj)'}
      BY <1>1, <1>3, <1>4, <3>1
    <3>3. \A u \in Scanning' : trunk'[u].pc = "done" => Pending' = {}
      BY <1>3, <2>1, <2>2, <3>1
    <3> QED
      BY <1>4, <2>1, <3>1, <3>2, <3>3
  <2>5. ReadInv'
    BY <1>2, <2>4 DEF ReadInv
  <2>6. HitInv'
    BY <1>1, <1>4, <2>1 DEF HitInv
  <2> QED
    BY <2>5, <2>6
<1> QED
  BY <1>5, <1>6

LEMMA ReadStep ==
  ASSUME LakeInv, ReadInv, HitInv, [Next]_vars
  PROVE ReadInv' /\ HitInv'
<1>1. CASE Begins
  BY <1>1, ReadBegins
<1>2. CASE Finishes
  <2>1. job'.kind = "idle"
    BY <1>2 DEF Finishes, EndQuery, EndDelete, EndCompact, LakeInv, JobInv
  <2> QED
    BY <2>1 DEF ReadInv, HitInv, Whole, Running
<1>3. \E t : t \in Trunks
  BY TrunksAssumption
<1> QED
  BY <1>1, <1>2, <1>3, StepKinds, ReadPulls, ReadStays


----------------------------------------------------------------------------
(* The writer of a delete loses no row and writes none twice.              *)

LEMMA RowIsNew ==
  ASSUME NEW T, NEW a \in Seq(T), NEW s \in Seq(T), s # <<>>, IsInjective(a \o s)
  PROVE Head(s) \notin ToSet(a)
<1> DEFINE c == a \o s
           n == Len(a) + 1
<1>1. /\ Len(a) \in Nat /\ n \in DOMAIN c /\ c[n] = Head(s)
      /\ \A i \in DOMAIN a : i \in DOMAIN c /\ c[i] = a[i] /\ i # n
  OBVIOUS
<1> HIDE DEF c, n
<1>2. \A i \in DOMAIN a : a[i] # Head(s)
  BY <1>1 DEF c, IsInjective
<1> QED
  BY <1>2 DEF ToSet

LEMMA SpreadHands ==
  ASSUME LakeInv, SpreadInv, NEW t \in Trunks, DeleterRow(t)
  PROVE SpreadInv'
<1> DEFINE row == Head(trunk[t].left)
           s == trunk[t].left
<1>1. Hands(t) /\ job.kind = "delete" /\ ~writer.flip
  BY DEF Hands, DeleterRow
<1>2. /\ trunk[t].pc = "scan" /\ s # <<>> /\ ~job.err /\ Running
      /\ out' = [out EXCEPT ![t] = Append(@, row)]
  BY <1>1, HandsFrame
<1>3. ~AllDone /\ ~writer.closing
  BY <1>1, <1>2 DEF SpreadInv, AllDone
<1>4. IF writer.buffer = "closed"
      THEN job' = [job EXCEPT !.err = TRUE] /\ writer' = writer
      ELSE /\ writer' = [writer EXCEPT !.vals = Append(@, row),
                                       !.flip = Len(writer.vals) + 1 >= Threshold]
           /\ job' = job
  BY DEF DeleterRow, Returns, WriteRow
<1>5. CASE writer.buffer = "closed"
  <2>1. writer' = writer
    BY <1>4, <1>5
  <2> QED
    BY <1>1, <1>3, <1>5, <2>1 DEF SpreadInv
<1>6. CASE writer.buffer # "closed"
  <2>1. /\ writer.vals \in Seq(Rows) /\ writer.recs \in Seq(Rows)
        /\ writer \in [vals : Seq(Rows), flip : BOOLEAN, closing : BOOLEAN,
                       buffer : {"free", "busy", "closed"}, recs : Seq(Rows),
                       objects : Seq(ToSet(writer.objects))]
    BY DEF LakeInv, WriterInv
  <2>2. /\ s \in Seq(Rows) /\ out \in [Trunks -> Seq(Rows)] /\ IsInjective(Returned(t))
        /\ trunk \in [Trunks -> [pc : {"pull", "scan", "done"}, left : Seq(Rows)]]
        /\ \A u \in Trunks : t # u => ToSet(Returned(t)) \cap ToSet(Returned(u)) = {}
    BY <1>2 DEF LakeInv, TrunkInv
  <2>3. row \notin OutRows
    <3>1. row \in ToSet(s)
      <4>1. out[t] \in Seq(Rows)
        BY <2>2
      <4> QED
        BY <1>2, <2>2, <4>1, MoveHead
    <3>2. row \notin ToSet(out[t])
      <4>1. IsInjective(out[t] \o s) /\ out[t] \in Seq(Rows)
        BY <2>2 DEF Returned
      <4> QED
        BY <1>2, <2>2, <4>1, RowIsNew
    <3>3. \A u \in Trunks : ToSet(Returned(u)) = ToSet(out[u]) \cup ToSet(trunk[u].left)
      BY <2>2, ConcatSets DEF Returned
    <3> HIDE DEF row, s
    <3>4. \A u \in Trunks : u # t => row \notin ToSet(out[u])
      BY <2>2, <3>1, <3>3 DEF s
    <3> QED
      BY <3>2, <3>4 DEF OutRows
  <2>4. OutRows' = OutRows \cup {row}
    <3>1. \A u \in Trunks : ToSet(out'[u]) = IF u = t THEN ToSet(out[t]) \cup {row} ELSE ToSet(out[u])
      <4>1. out[t] \in Seq(Rows) /\ out'[t] = Append(out[t], row)
        BY <1>2, <2>2
      <4>2. \A u \in Trunks \ {t} : out'[u] = out[u]
        BY <1>2, <2>2
      <4> HIDE DEF row
      <4>3. ToSet(Append(out[t], row)) = ToSet(out[t]) \cup {row}
        BY <4>1, AppendSet
      <4> QED
        BY <4>1, <4>2, <4>3
    <3> HIDE DEF row
    <3> QED
      BY <3>1 DEF OutRows
  <2> HIDE DEF row, s
  <2>5. ToSet(Append(writer.vals, row)) = ToSet(writer.vals) \cup {row}
    BY <2>1, AppendSet
  <2>6. /\ writer' = [writer EXCEPT !.vals = Append(@, row),
                                    !.flip = Len(writer.vals) + 1 >= Threshold]
        /\ job' = job
    BY <1>4, <1>6
  <2> DEFINE nv == Append(writer.vals, row)
             nf == (Len(writer.vals) + 1 >= Threshold)
  <2>7. writer' = [writer EXCEPT !.vals = nv, !.flip = nf]
    BY <2>1, <2>6
  <2> HIDE DEF nv, nf
  <2>8. /\ writer'.vals = nv /\ writer'.recs = writer.recs /\ writer'.objects = writer.objects
        /\ writer'.buffer = writer.buffer /\ writer'.closing = writer.closing
    BY <2>1, <2>7
  <2>9. Among(OutRows, ToSet(writer.vals), ToSet(writer.recs), writer.objects)
    BY <1>1, <1>6 DEF SpreadInv, Spread
  <2>10. Among(OutRows \cup {row}, ToSet(writer.vals) \cup {row}, ToSet(writer.recs), writer.objects)
    BY <2>3, <2>9 DEF Among, Disjoint
  <2>11. Spread'
    BY <2>4, <2>5, <2>8, <2>10 DEF Spread, nv
  <2> QED
    BY <1>1, <1>3, <2>6, <2>8, <2>11 DEF SpreadInv
<1> QED
  BY <1>5, <1>6

LEMMA SpreadBuffers ==
  ASSUME LakeInv, SpreadInv, Buffers
  PROVE SpreadInv'
<1>1. job.kind = "delete"
  BY OnlyDeletesBuffer DEF Buffers, flipBuffers, writeObject, writeObjectFails, Close
<1>2. order' = order /\ job' = job /\ trunk' = trunk /\ out' = out
  BY DEF Buffers, flipBuffers, writeObject, writeObjectFails, Close, scanVars
<1>3. /\ writer \in [vals : Seq(Rows), flip : BOOLEAN, closing : BOOLEAN,
                     buffer : {"free", "busy", "closed"}, recs : Seq(Rows),
                     objects : Seq(ToSet(writer.objects))]
      /\ ToSet(writer.vals) \cup ToSet(writer.recs) \subseteq RowsOf(job.src)
      /\ writer.flip => writer.vals # <<>>
      /\ writer.buffer = "busy" => writer.recs # <<>>
  BY <1>1 DEF LakeInv, WriterInv, DeleteInv
<1>4. OutRows' = OutRows /\ AllDone' = AllDone
  BY <1>2 DEF OutRows, AllDone
<1>5. /\ writer.buffer = "free" => writer.recs = <<>>
      /\ writer.closing => AllDone
      /\ writer.closing /\ ~writer.flip /\ writer.buffer # "closed" => writer.vals = <<>>
      /\ writer.buffer # "closed" =>
            Among(OutRows, ToSet(writer.vals), ToSet(writer.recs), writer.objects)
  BY <1>1 DEF SpreadInv, Spread
<1>6. CASE flipBuffers
  <2>1. CASE writer.buffer = "closed"
    <3>1. writer' = [writer EXCEPT !.flip = FALSE]
      BY <1>6, <2>1 DEF flipBuffers
    <3>2. /\ writer'.buffer = "closed" /\ writer'.closing = writer.closing
      BY <1>3, <2>1, <3>1
    <3> QED
      BY <1>1, <1>2, <1>4, <1>5, <3>2 DEF SpreadInv
  <2>2. CASE writer.buffer # "closed"
    <3>1. /\ writer' = [writer EXCEPT !.flip = FALSE, !.buffer = "busy",
                                      !.recs = writer.vals, !.vals = <<>>]
          /\ writer.buffer # "busy"
      BY <1>6, <2>2 DEF flipBuffers
    <3>2. /\ writer'.vals = <<>> /\ writer'.recs = writer.vals /\ writer'.objects = writer.objects
          /\ writer'.buffer = "busy" /\ writer'.closing = writer.closing
      BY <1>3, <3>1
    <3>3. writer.buffer = "free"
      BY <1>3, <2>2, <3>1
    <3>4. ToSet(writer.recs) = {} /\ ToSet(<<>>) = {}
      BY <1>5, <3>3, EmptyInOrder
    <3>5. Among(OutRows, {}, ToSet(writer.vals), writer.objects)
      BY <1>5, <2>2, <3>4 DEF Among, Disjoint
    <3>6. Spread'
      BY <1>4, <3>2, <3>4, <3>5 DEF Spread
    <3> QED
      BY <1>1, <1>2, <1>4, <1>5, <3>2, <3>6 DEF SpreadInv
  <2> QED
    BY <2>1, <2>2
<1>7. CASE writeObject
  <2> DEFINE rs == Sorted(order, ToSet(writer.recs))
             M == MadeObject(rs)
             nO == Append(writer.objects, M)
             R == RowsOf(ToSet(writer.objects))
  <2>1. /\ writer.recs # <<>> /\ writer.recs \in Seq(Rows) /\ ToSet(writer.recs) \subseteq RowsOf(job.src)
        /\ writer.buffer = "busy"
    BY <1>3, <1>7 DEF writeObject
  <2>2. IsFiniteSet(ToSet(writer.recs)) /\ Distinct(ToSet(writer.recs))
    BY <1>1, <2>1, SourceIsStored DEF Running
  <2>3. rs \in Seq(Rows) /\ Ordered(order, rs) /\ ToSet(rs) = ToSet(writer.recs)
    BY <2>2, SortedRows
  <2>4. writer' = [writer EXCEPT !.buffer = "free", !.recs = <<>>, !.objects = nO]
    BY <1>7 DEF writeObject
  <2> HIDE DEF rs
  <2>5. rs # <<>>
    BY <2>1, <2>3, SelfSeq, EmptyInOrder
  <2>6. M.rows = rs
    BY <2>3, <2>5, MadeIsWritten
  <2> HIDE DEF M
  <2>7. /\ ToSet(nO) = ToSet(writer.objects) \cup {M}
        /\ nO[Len(writer.objects) + 1] = M
        /\ \A i \in DOMAIN writer.objects : nO[i] = writer.objects[i]
        /\ \A i \in DOMAIN nO : i \in DOMAIN writer.objects \/ i = Len(writer.objects) + 1
    <3>1. writer.objects \in Seq(ToSet(writer.objects))
      BY <1>3
    <3> QED
      BY <3>1, AppendSet
  <2> HIDE DEF nO
  <2>8. /\ writer'.vals = writer.vals /\ writer'.recs = <<>> /\ writer'.objects = nO
        /\ writer'.flip = writer.flip /\ writer'.buffer = "free" /\ writer'.closing = writer.closing
    BY <1>3, <2>4
  <2>9. Among(OutRows, ToSet(writer.vals), ToSet(writer.recs), writer.objects)
    BY <1>5, <2>1
  <2>10. RowsOf(ToSet(nO)) = R \cup ToSet(writer.recs)
    BY <2>3, <2>6, <2>7 DEF RowsOf
  <2>11. ASSUME NEW i \in DOMAIN nO, NEW j \in DOMAIN nO, i # j
         PROVE Disjoint(ToSet(nO[i].rows), ToSet(nO[j].rows))
    <3>1. \A k \in DOMAIN writer.objects : ToSet(writer.objects[k].rows) \subseteq R
      BY DEF RowsOf, ToSet
    <3>2. ToSet(M.rows) = ToSet(writer.recs) /\ Disjoint(ToSet(writer.recs), R)
      BY <2>3, <2>6, <2>9 DEF Among, Disjoint
    <3>3. CASE i \in DOMAIN writer.objects /\ j \in DOMAIN writer.objects
      BY <2>7, <2>9, <2>11, <3>3 DEF Among
    <3>4. CASE i \in DOMAIN writer.objects /\ j = Len(writer.objects) + 1
      BY <2>7, <3>1, <3>2, <3>4 DEF Disjoint
    <3>5. CASE j \in DOMAIN writer.objects /\ i = Len(writer.objects) + 1
      BY <2>7, <3>1, <3>2, <3>5 DEF Disjoint
    <3> QED
      BY <2>7, <2>11, <3>3, <3>4, <3>5
  <2>12. Among(OutRows, ToSet(writer.vals), {}, nO)
    <3>1. /\ OutRows = ToSet(writer.vals) \cup ToSet(writer.recs) \cup R
          /\ ToSet(writer.vals) \cap ToSet(writer.recs) = {}
          /\ (ToSet(writer.vals) \cup ToSet(writer.recs)) \cap R = {}
      BY <2>9 DEF Among, Disjoint
    <3> HIDE DEF R
    <3>2. OutRows = ToSet(writer.vals) \cup {} \cup RowsOf(ToSet(nO))
      BY <2>10, <3>1
    <3>3. Disjoint(ToSet(writer.vals), {}) /\ Disjoint(ToSet(writer.vals) \cup {}, RowsOf(ToSet(nO)))
      BY <2>10, <3>1 DEF Disjoint
    <3> QED
      BY <2>11, <3>2, <3>3 DEF Among
  <2>13. Spread'
    <3>1. ToSet(<<>>) = {}
      BY EmptyInOrder
    <3> QED
      BY <1>4, <2>8, <2>12, <3>1 DEF Spread
  <2> QED
    BY <1>1, <1>2, <1>4, <1>5, <2>1, <2>8, <2>13 DEF SpreadInv
<1>8. CASE writeObjectFails
  <2>1. writer' = [writer EXCEPT !.buffer = "closed"]
    BY <1>8 DEF writeObjectFails
  <2>2. writer'.buffer = "closed" /\ writer'.closing = writer.closing
    BY <1>3, <2>1
  <2> QED
    BY <1>1, <1>2, <1>4, <1>5, <2>2 DEF SpreadInv
<1>9. CASE Close
  <2>1. writer' = [writer EXCEPT !.closing = TRUE, !.flip = writer.vals # <<>>] /\ AllDone
    BY <1>9 DEF Close
  <2>2. /\ writer'.vals = writer.vals /\ writer'.recs = writer.recs /\ writer'.objects = writer.objects
        /\ writer'.buffer = writer.buffer /\ writer'.flip = (writer.vals # <<>>)
    BY <1>3, <2>1
  <2>3. Spread' = Spread
    BY <1>4, <2>2 DEF Spread
  <2> QED
    BY <1>1, <1>2, <1>4, <1>5, <2>1, <2>2, <2>3 DEF SpreadInv, Spread
<1> QED
  BY <1>6, <1>7, <1>8, <1>9 DEF Buffers

LEMMA SpreadStep ==
  ASSUME LakeInv, SpreadInv, [Next]_vars
  PROVE SpreadInv'
<1>1. CASE Begins
  <2>1. writer' = NewWriter /\ OutRows' = {}
    BY <1>1, ReadBegins
  <2>2. RowsOf({}) = {} /\ DOMAIN NewWriter.objects = {}
    BY NewWriterIsEmpty DEF RowsOf
  <2>3. Spread'
    BY <2>1, <2>2, NewWriterIsEmpty DEF Spread, Among, Disjoint
  <2> QED
    BY <2>1, <2>3, NewWriterIsEmpty DEF SpreadInv
<1>2. CASE Finishes
  <2>1. job'.kind = "idle"
    BY <1>2 DEF Finishes, EndQuery, EndDelete, EndCompact, LakeInv, JobInv
  <2> QED
    BY <2>1 DEF SpreadInv
<1>3. ASSUME NEW t \in Trunks, Hands(t)
      PROVE SpreadInv'
  <2>1. CASE DeleterRow(t)
    BY <2>1, SpreadHands
  <2>2. CASE ~DeleterRow(t)
    <3>1. job.kind # "delete"
      BY <1>3, <2>2 DEF Hands, QueryRow, CompactRow
    <3>2. job'.kind = job.kind
      BY <1>3, JobFrame
    <3> QED
      BY <3>1, <3>2 DEF SpreadInv
  <2> QED
    BY <2>1, <2>2
<1>4. ASSUME NEW t \in Trunks, Pulls(t) \/ NextScanner(t) \/ Stops(t) \/ Plans \/ UNCHANGED vars
      PROVE SpreadInv'
  <2> SUFFICES ASSUME job'.kind = "delete"
               PROVE SpreadInv'
    BY DEF SpreadInv
  <2>1. job.kind = "delete"
    BY <1>4, JobFrame
  <2>2. writer' = writer /\ out' = out
    <3>1. CASE Pulls(t)
      BY <3>1, PullStep
    <3>2. CASE NextScanner(t) \/ Stops(t)
      BY <3>2 DEF NextScanner, Stops, PullDone, ReadFails
    <3>3. CASE Plans \/ UNCHANGED vars
      BY <3>3 DEF Plans, Manage, BuildRun, EndOfList, EndManage, scanVars, vars
    <3> QED
      BY <1>4, <3>1, <3>2, <3>3
  <2>3. writer'.closing => AllDone'
    <3>1. writer.closing => AllDone
      BY <2>1 DEF SpreadInv
    <3>2. CASE Pulls(t) \/ NextScanner(t)
      <4>1. trunk[t].pc # "done" /\ ~job.err
        BY <3>2, PullStep DEF NextScanner
      <4> QED
        BY <2>2, <3>1, <4>1 DEF AllDone
    <3>3. CASE Stops(t)
      <4>1. ReadFails(t)
        BY <2>1, <3>3 DEF Stops, PullDone
      <4>2. job'.err
        BY <4>1 DEF ReadFails, LakeInv, JobInv
      <4> QED
        BY <4>2 DEF AllDone
    <3>4. CASE Plans \/ UNCHANGED vars
      <4>1. job' = job /\ trunk' = trunk
        BY <3>4 DEF Plans, Manage, BuildRun, EndOfList, EndManage, scanVars, vars
      <4> QED
        BY <2>2, <3>1, <4>1 DEF AllDone
    <3> QED
      BY <1>4, <3>2, <3>3, <3>4
  <2>4. Spread' = Spread
    BY <2>2 DEF Spread, OutRows
  <2> QED
    BY <2>1, <2>2, <2>3, <2>4 DEF SpreadInv
<1>5. CASE Buffers
  BY <1>5, SpreadBuffers
<1>6. \E t : t \in Trunks
  BY TrunksAssumption
<1> QED
  BY <1>1, <1>2, <1>3, <1>4, <1>5, <1>6, StepKinds


----------------------------------------------------------------------------
(* What has been done when an operation ends. *)

LEMMA AllReturned ==
  ASSUME LakeInv, ReadInv, AllDone, Whole
  PROVE /\ OutRows = Got /\ RowsRead(Hit) \subseteq OutRows
        /\ job.src \subseteq Given \cup {obj \in job.src : Pruned(obj)}
        /\ \A t \in Trunks : out[t] = Returned(t)
<1>1. \A t \in Trunks : trunk[t].pc = "done" /\ trunk[t].left = <<>> /\ out[t] \in Seq(Rows)
  BY DEF AllDone, Whole, LakeInv, TrunkInv
<1>2. ASSUME NEW t \in Trunks PROVE out[t] = Returned(t)
  <2>1. Returned(t) = out[t] \o <<>> /\ out[t] \in Seq(Rows)
    BY <1>1 DEF Returned
  <2> QED
    BY <2>1
<1>3. OutRows = Got
  BY <1>2 DEF OutRows, Got
<1>4. TheTrunk \in Trunks
  BY TrunksAssumption DEF TheTrunk
<1>5. \E t \in Scanning : trunk[t].pc = "done"
  BY <1>1, <1>4 DEF Scanning
<1> QED
  BY <1>2, <1>3, <1>5 DEF ReadInv

LEMMA ReadInObject ==
  ASSUME LakeInv, Running, NEW obj \in job.src
  PROVE /\ Written(order, obj) /\ IsInjective(Read(obj)) /\ IsInjective(obj.rows)
        /\ Read(obj) \in Seq(Rows) /\ obj.rows \in Seq(Rows) /\ obj.count = Len(obj.rows)
        /\ ToSet(Read(obj)) \subseteq {r \in ToSet(obj.rows) : Keeps(r)}
        /\ job.kind \in {"delete", "compact"} =>
             ToSet(Read(obj)) = {r \in ToSet(obj.rows) : Keeps(r)}
<1>1. order \in {"asc", "desc"} /\ Written(order, obj)
  BY DEF LakeInv, DataInv, JobInv
<1>2. /\ obj.rows \in Seq(Rows) /\ Ordered(order, obj.rows) /\ obj.count = Len(obj.rows)
  BY <1>1, WrittenFacts
<1>3. IsInjective(obj.rows)
  BY <1>2, OrderedInjective
<1> QED
  BY <1>1, <1>2, <1>3, ReadFacts

LEMMA HitsAreGiven ==
  Hit \subseteq Given
BY DEF Hit

LEMMA ReadInHit ==
  ASSUME LakeInv, Running
  PROVE RowsRead(Hit) \subseteq RowsOf(Hit) /\ Hit \subseteq job.src /\ job.src \subseteq objs
<1>1. Hit \subseteq job.src /\ job.src \subseteq objs
  BY HitsAreGiven, GivenInSource DEF LakeInv, JobInv
<1>2. \A obj \in Hit : ToSet(Read(obj)) \subseteq ToSet(obj.rows)
  BY <1>1, ReadInObject
<1> QED
  BY <1>1, <1>2 DEF RowsRead, RowsOf

(* A delete that ends well has written every row of the objects it         *)
(* replaces that it keeps, each into one object.                           *)
Ok == ~job.err /\ writer.buffer # "closed"

LEMMA DeleteWrites ==
  ASSUME LakeInv, ExactInv, EndDelete, Ok
  PROVE /\ job.kind = "delete" /\ Whole /\ AllDone /\ deletes = {obj.id : obj \in Hit}
        /\ RowsOf(ToSet(writer.objects)) = RowsRead(Hit)
        /\ \A a, b \in ToSet(writer.objects) : a # b => ToSet(a.rows) \cap ToSet(b.rows) = {}
        /\ objs' = IF deletes # {}
                   THEN {obj \in objs : obj.id \notin deletes} \cup ToSet(writer.objects)
                   ELSE objs
<1>1. writer.closing /\ ~writer.flip /\ writer.buffer = "free"
  <2>1. writer.buffer \in {"free", "busy", "closed"}
    BY WriterType
  <2> QED
    BY <2>1 DEF EndDelete, Ok
<1>2. job.kind = "delete" /\ Running
  BY <1>1, OnlyDeletesBuffer DEF Running
<1>3. Whole
  BY <1>2 DEF ExactInv, ReadInv, Whole, Ok
<1>4. /\ writer.recs = <<>> /\ writer.vals = <<>> /\ AllDone
      /\ Among(OutRows, ToSet(writer.vals), ToSet(writer.recs), writer.objects)
  BY <1>1, <1>2 DEF ExactInv, SpreadInv, Spread
<1>5. OutRows = RowsOf(ToSet(writer.objects))
  <2>1. ToSet(<<>>) = {}
    BY EmptyInOrder
  <2> QED
    BY <1>4, <2>1 DEF Among
<1>6. OutRows = Got /\ RowsRead(Hit) \subseteq OutRows
  BY <1>3, <1>4, AllReturned DEF ExactInv
<1>7. Got \subseteq RowsRead(Hit) /\ deletes = {obj.id : obj \in Hit}
  BY <1>2 DEF ExactInv, HitInv
<1>8. ASSUME NEW a \in ToSet(writer.objects), NEW b \in ToSet(writer.objects), a # b
      PROVE ToSet(a.rows) \cap ToSet(b.rows) = {}
  <2>1. PICK i \in DOMAIN writer.objects, j \in DOMAIN writer.objects :
          a = writer.objects[i] /\ b = writer.objects[j]
    BY DEF ToSet
  <2> QED
    BY <1>4, <1>8, <2>1 DEF Among, Disjoint
<1>9. objs' = IF deletes # {}
              THEN {obj \in objs : obj.id \notin deletes} \cup ToSet(writer.objects)
              ELSE objs
  BY DEF EndDelete, Ok
<1> QED
  BY <1>2, <1>3, <1>4, <1>5, <1>6, <1>7, <1>8, <1>9

LEMMA SeqFinite ==
  ASSUME NEW T, NEW s \in Seq(T)
  PROVE IsFiniteSet(ToSet(s))
<1>1. Len(s) \in Nat /\ s \in [1 .. Len(s) -> ToSet(s)]
  BY SelfSeq
<1>2. s \in Surjection(1 .. Len(s), ToSet(s))
  BY <1>1 DEF Surjection, ToSet
<1> QED
  BY <1>1, <1>2, FS_Interval, FS_Surjection

LEMMA DeleteStores ==
  ASSUME LakeInv, ExactInv, EndDelete
  PROVE Stored(objs')
<1> DEFINE new == ToSet(writer.objects)
           old == {obj \in objs : obj.id \notin deletes}
<1>1. /\ IsFiniteSet(objs) /\ Distinct(RowsOf(objs)) /\ ZeroApart(order, RowsOf(objs))
      /\ \A a, b \in objs : a # b => ToSet(a.rows) \cap ToSet(b.rows) = {}
  BY DEF ExactInv, Stored
<1>2. CASE ~(Ok /\ deletes # {})
  <2>1. objs' = objs
    BY <1>2 DEF EndDelete, Ok
  <2> QED
    BY <2>1 DEF ExactInv
<1>3. CASE Ok /\ deletes # {}
  <2>1. /\ deletes = {obj.id : obj \in Hit} /\ RowsOf(new) = RowsRead(Hit) /\ Whole
        /\ \A a, b \in new : a # b => ToSet(a.rows) \cap ToSet(b.rows) = {}
        /\ objs' = old \cup new
    BY <1>3, DeleteWrites
  <2>2. RowsOf(new) \subseteq RowsOf(Hit) /\ Hit \subseteq objs
    BY <2>1, ReadInHit DEF Whole
  <2>3. IsFiniteSet(objs')
    <3>1. IsFiniteSet(new)
      BY WriterType, SeqFinite
    <3>2. IsFiniteSet(old)
      BY <1>1, FS_Subset
    <3> QED
      BY <2>1, <3>1, <3>2, FS_Union
  <2>4. Distinct(RowsOf(objs')) /\ ZeroApart(order, RowsOf(objs'))
    <3>1. RowsOf(objs') \subseteq RowsOf(objs)
      BY <2>1, <2>2 DEF RowsOf
    <3> QED
      BY <1>1, <3>1 DEF Distinct, ZeroApart
  <2>5. ASSUME NEW a \in old, NEW b \in new
        PROVE ToSet(a.rows) \cap ToSet(b.rows) = {}
    <3>1. ToSet(b.rows) \subseteq RowsOf(Hit)
      BY <2>2 DEF RowsOf
    <3>2. a \notin Hit /\ a \in objs
      BY <2>1
    <3>3. ToSet(a.rows) \cap RowsOf(Hit) = {}
      BY <1>1, <2>2, <3>2 DEF RowsOf
    <3> QED
      BY <3>1, <3>3
  <2>6. \A a, b \in objs' : a # b => ToSet(a.rows) \cap ToSet(b.rows) = {}
    BY <1>1, <2>1, <2>5
  <2> QED
    BY <2>3, <2>4, <2>6 DEF Stored
<1> QED
  BY <1>2, <1>3

LEMMA StoredStep ==
  ASSUME LakeInv, ExactInv, [Next]_vars
  PROVE Stored(objs') /\ order' = order
<1>1. CASE EndDelete
  BY <1>1, DeleteStores DEF EndDelete
<1>2. CASE EndCompact
  <2>1. job'.result # "deleted"
    BY <1>2 DEF EndCompact, LakeInv, JobInv
  <2>2. DataInv'
    BY DataInvStep
  <2>3. order' = order
    BY <1>2 DEF EndCompact
  <2> QED
    BY <2>1, <2>2, <2>3 DEF DataInv, Stored, Distinct
<1>3. CASE objs' = objs /\ order' = order
  BY <1>3 DEF ExactInv
<1>4. ASSUME NEW t \in Trunks,
             \/ Pulls(t) \/ NextScanner(t) \/ Hands(t) \/ Stops(t)
             \/ Buffers \/ Plans \/ UNCHANGED vars
      PROVE objs' = objs /\ order' = order
  BY <1>4, JobFrame
<1>5. Begins => objs' = objs /\ order' = order
  BY BeginStep DEF Start
<1>6. EndQuery => objs' = objs /\ order' = order
  BY DEF EndQuery
<1>7. \E t : t \in Trunks
  BY TrunksAssumption
<1> QED
  BY <1>1, <1>2, <1>3, <1>4, <1>5, <1>6, <1>7, StepKinds DEF Finishes

LEMMA ExactInit ==
  ASSUME ZeroIsNotNull, Init
  PROVE ExactInv
<1>1. Stored(objs)
  <2>1. LakeInv /\ job.result = "none"
    BY LakeInit DEF Init, Idle
  <2> QED
    BY <2>1 DEF LakeInv, DataInv
<1>2. job.kind = "idle"
  BY DEF Init, Idle
<1> QED
  BY <1>1, <1>2 DEF ExactInv, ReadInv, HitInv, SpreadInv, Whole, Running

LEMMA ExactStep ==
  ASSUME LakeInv, ExactInv, [Next]_vars
  PROVE ExactInv'
<1>1. ReadInv' /\ HitInv'
  BY ReadStep DEF ExactInv
<1>2. SpreadInv'
  BY SpreadStep DEF ExactInv
<1>3. Stored(objs') /\ order' = order
  BY StoredStep
<1> QED
  BY <1>1, <1>2, <1>3 DEF ExactInv, Stored, Distinct


----------------------------------------------------------------------------
(* Queries and deletes are exact if their predicates fit the rows.         *)

FitPreds ==
    \A p \in Pools, q \in Preds : \A r \in RowsOf(p.objs) : Fits(q.l, r) /\ Fits(q.r, r)

NoErrors ==
    \A p \in Pools, q \in Preds : \A r \in RowsOf(p.objs) : Eval(q, r) # "error"

LEMMA InBranch ==
  ASSUME LakeInv, NEW obj \in objs, NEW r \in ToSet(obj.rows)
  PROVE /\ r \in Rows /\ obj.min \in Keys /\ obj.max \in Keys /\ InRange(r, obj.min, obj.max)
        /\ r \in RowsOf(objs)
<1>1. order \in {"asc", "desc"} /\ Written(order, obj)
  BY DEF LakeInv, DataInv
<1>2. PICK k \in DOMAIN obj.rows : r = obj.rows[k]
  BY DEF ToSet
<1> QED
  BY <1>1, <1>2, WrittenFacts, WrittenRange DEF RowsOf

LEMMA PredicateFits ==
  ASSUME LakeInv, FitPreds, job.kind \in {"query", "ordered", "delete"}
  PROVE /\ job.pred \in Predicates /\ job.src = objs
        /\ Sound(job.pred, RowsOf(objs))
        /\ NoErrors => \A r \in RowsOf(objs) : Eval(job.pred, r) # "error"
<1>1. mgr.pc = "off" /\ job.src = objs /\ job.pred \in Preds /\ job.result # "deleted"
  BY DEF LakeInv, JobInv, Running
<1>2. PICK p \in Pools : objs = p.objs
  BY <1>1 DEF LakeInv, JobInv
<1>3. job.pred \in Predicates
  BY <1>1, PredsAssumption
<1>4. ASSUME NEW r \in RowsOf(objs), NEW min \in Keys, NEW max \in Keys
      PROVE PrunesFor(job.pred, r, min, max)
  <2>1. Fits(job.pred.l, r) /\ Fits(job.pred.r, r)
    BY <1>1, <1>2 DEF FitPreds
  <2>2. r \in Rows
    BY InBranch DEF RowsOf
  <2> QED
    BY <1>3, <2>1, <2>2, PrunerIsSound
<1>5. NoErrors => \A r \in RowsOf(objs) : Eval(job.pred, r) # "error"
  BY <1>1, <1>2 DEF NoErrors
<1> QED
  BY <1>1, <1>3, <1>4, <1>5 DEF Sound

(* An object is pruned only if its rows are not selected.                  *)
LEMMA PrunedRows ==
  ASSUME LakeInv, FitPreds, job.kind \in {"query", "ordered", "delete"},
         NEW obj \in objs, Pruned(obj), NEW r \in ToSet(obj.rows)
  PROVE ~Selected(job.pred, r)
<1>1. /\ obj.min \in Keys /\ obj.max \in Keys /\ InRange(r, obj.min, obj.max) /\ r \in RowsOf(objs)
  BY InBranch
<1>2. PrunesFor(job.pred, r, obj.min, obj.max)
  BY <1>1, PredicateFits DEF Sound
<1>3. Prunes(job.pred, obj.min, obj.max)
  BY DEF Pruned
<1> QED
  BY <1>1, <1>2, <1>3 DEF PrunesFor

LEMMA QueryReads ==
  ASSUME LakeInv, ReadInv, FitPreds, job.kind \in {"query", "ordered"}, AllDone, Whole
  PROVE /\ OutRows = {r \in RowsOf(objs) : Selected(job.pred, r)}
        /\ \A t \in Trunks : IsInjective(out[t])
        /\ \A t, u \in Trunks : t # u => ToSet(out[t]) \cap ToSet(out[u]) = {}
<1>1. /\ OutRows = Got /\ RowsRead(Hit) \subseteq OutRows
      /\ job.src \subseteq Given \cup {obj \in job.src : Pruned(obj)}
      /\ \A t \in Trunks : out[t] = Returned(t)
  BY AllReturned
<1>2. /\ job.src = objs /\ Sound(job.pred, RowsOf(objs)) /\ Running /\ Hit = Given
      /\ \A r : Keeps(r) <=> Selected(job.pred, r)
  BY PredicateFits DEF Running, Hit, Keeps
<1>3. /\ \A t \in Trunks :
           ToSet(Returned(t)) \subseteq {r \in RowsOf(Given) : Keeps(r)} /\ IsInjective(Returned(t))
      /\ \A t, u \in Trunks : t # u => ToSet(Returned(t)) \cap ToSet(Returned(u)) = {}
  BY <1>2 DEF LakeInv, TrunkInv
<1>4. RowsOf(Given) \subseteq RowsOf(objs)
  BY <1>2, GivenInSource DEF LakeInv, RowsOf
<1>5. Got \subseteq {r \in RowsOf(objs) : Selected(job.pred, r)}
  BY <1>2, <1>3, <1>4 DEF Got
<1>6. ASSUME NEW r \in RowsOf(objs), Selected(job.pred, r)
      PROVE r \in OutRows
  <2>1. PICK obj \in objs : r \in ToSet(obj.rows)
    BY DEF RowsOf
  <2>2. ~Pruned(obj)
    BY <1>6, <2>1, PrunedRows
  <2>3. obj \in Hit
    BY <1>1, <1>2, <2>2
  <2>4. Sound(job.pred, ToSet(obj.rows))
    BY <1>2 DEF Sound, RowsOf
  <2>5. order \in {"asc", "desc"} /\ Written(order, obj)
    BY DEF LakeInv, DataInv
  <2>6. ToSet(Read(obj)) = {q \in ToSet(obj.rows) : Keeps(q)}
    BY <2>4, <2>5, ReadFacts
  <2>7. r \in RowsRead(Hit)
    BY <1>2, <1>6, <2>1, <2>3, <2>6 DEF RowsRead
  <2> QED
    BY <1>1, <2>7
<1> QED
  BY <1>1, <1>3, <1>5, <1>6

(* A result stays as it is until the next operation begins.                *)
LEMMA ResultStays ==
  ASSUME LakeInv, [Next]_vars, job'.result = "ok", ~EndQuery
  PROVE job.result = "ok" /\ out' = out /\ objs' = objs /\ job'.pred = job.pred
<1>1. ~Begins
  BY ReadBegins
<1>2. ~Finishes
  BY DEF Finishes, EndDelete, EndCompact, LakeInv, JobInv
<1>3. ASSUME NEW t \in Trunks,
             \/ Pulls(t) \/ NextScanner(t) \/ Hands(t) \/ Stops(t)
             \/ Buffers \/ Plans \/ UNCHANGED vars
      PROVE job.result = "ok" /\ out' = out /\ objs' = objs /\ job'.pred = job.pred
  <2>1. /\ job'.pred = job.pred /\ objs' = objs
        /\ job'.result = IF PullDone(t) THEN "partial" ELSE job.result
    BY <1>3, JobFrame
  <2>2. job.result = "ok"
    BY <2>1
  <2>3. ~Running
    BY <2>2 DEF LakeInv, JobInv
  <2>4. ~Pulls(t) /\ ~Hands(t)
    BY <2>3, PullStep, HandsFrame
  <2>5. out' = out
    <3>1. CASE NextScanner(t) \/ Stops(t)
      BY <3>1 DEF NextScanner, Stops, PullDone, ReadFails
    <3>2. CASE Buffers
      BY <3>2 DEF Buffers, flipBuffers, writeObject, writeObjectFails, Close
    <3>3. CASE Plans \/ UNCHANGED vars
      BY <3>3 DEF Plans, Manage, BuildRun, EndOfList, EndManage, vars
    <3> QED
      BY <1>3, <2>4, <3>1, <3>2, <3>3
  <2> QED
    BY <2>1, <2>2, <2>5
<1>4. \E t : t \in Trunks
  BY TrunksAssumption
<1> QED
  BY <1>1, <1>2, <1>3, <1>4, StepKinds

LEMMA QueryStep ==
  ASSUME LakeInv, ExactInv, QueryExact, FitPreds, [Next]_vars
  PROVE QueryExact'
<1> SUFFICES ASSUME job'.result = "ok"
             PROVE QueryExact'
  BY DEF QueryExact
<1>1. CASE ~EndQuery
  <2>1. job.result = "ok" /\ out' = out /\ objs' = objs /\ job'.pred = job.pred
    BY <1>1, ResultStays
  <2> QED
    BY <2>1 DEF QueryExact
<1>2. CASE EndQuery
  <2>1. /\ job.kind \in {"query", "ordered"} /\ AllDone /\ UNCHANGED <<out, objs>>
        /\ job' = [job EXCEPT !.kind = "idle",
                     !.result = IF job.err THEN "error" ELSE IF @ = "none" THEN "ok" ELSE @]
    BY <1>2 DEF EndQuery
  <2>2. Running /\ job.result \in {"none", "partial"}
    BY <2>1 DEF Running, LakeInv, JobInv
  <2>3. job'.pred = job.pred /\ Whole
    BY <2>1, <2>2 DEF Whole, LakeInv, JobInv
  <2>4. /\ OutRows = {r \in RowsOf(objs) : Selected(job.pred, r)}
        /\ \A t \in Trunks : IsInjective(out[t])
        /\ \A t, u \in Trunks : t # u => ToSet(out[t]) \cap ToSet(out[u]) = {}
    BY <2>1, <2>3, QueryReads DEF ExactInv
  <2> QED
    BY <2>1, <2>3, <2>4 DEF QueryExact, OutRows
<1> QED
  BY <1>1, <1>2


LEMMA InjectiveLen ==
  ASSUME NEW T, NEW s \in Seq(T), IsInjective(s)
  PROVE IsFiniteSet(ToSet(s)) /\ Cardinality(ToSet(s)) = Len(s)
<1> DEFINE n == Len(s)
           S == ToSet(s)
<1>1. n \in Nat /\ s \in [1 .. n -> S] /\ DOMAIN s = 1 .. n
  BY SelfSeq
<1>2. \A r \in S : \E i \in 1 .. n : s[i] = r
  BY <1>1 DEF ToSet
<1> HIDE DEF n, S
<1>3. s \in Bijection(1 .. n, S)
  BY <1>1, <1>2 DEF Bijection, Injection, Surjection, IsInjective
<1>4. IsFiniteSet(1 .. n) /\ Cardinality(1 .. n) = n
  BY <1>1, FS_Interval
<1> QED
  BY <1>3, <1>4, FS_Bijection DEF ExistsBijection, n, S

(* A delete passes over exactly the objects of which it keeps every row.   *)
LEMMA DeleteHits ==
  ASSUME LakeInv, job.kind = "delete", FitPreds, NoErrors, NEW obj \in objs
  PROVE /\ ToSet(Read(obj)) = {r \in ToSet(obj.rows) : ~Selected(job.pred, r)}
        /\ hasDeletes(obj) <=> \E r \in ToSet(obj.rows) : Selected(job.pred, r)
<1>1. /\ job.pred \in Predicates /\ job.src = objs
      /\ \A r \in RowsOf(objs) : Eval(job.pred, r) # "error"
  BY PredicateFits
<1>2. \A r \in ToSet(obj.rows) : Keeps(r) <=> ~Selected(job.pred, r)
  BY <1>1, InBranch, DeleteKeepsTheRest DEF Keeps
<1>3. /\ IsInjective(Read(obj)) /\ IsInjective(obj.rows) /\ obj.count = Len(obj.rows)
      /\ Read(obj) \in Seq(Rows) /\ obj.rows \in Seq(Rows)
      /\ ToSet(Read(obj)) = {r \in ToSet(obj.rows) : Keeps(r)}
  BY <1>1, ReadInObject DEF Running
<1>4. /\ IsFiniteSet(ToSet(obj.rows)) /\ Cardinality(ToSet(obj.rows)) = Len(obj.rows)
      /\ Cardinality(ToSet(Read(obj))) = Len(Read(obj))
  BY <1>3, InjectiveLen
<1>5. ToSet(Read(obj)) \in SUBSET ToSet(obj.rows)
  BY <1>3
<1>6. Len(Read(obj)) = obj.count <=> ToSet(Read(obj)) = ToSet(obj.rows)
  BY <1>3, <1>4, <1>5, FS_Subset
<1> QED
  BY <1>2, <1>3, <1>6 DEF hasDeletes

LEMMA DeleteStep ==
  ASSUME LakeInv, ExactInv, FitPreds, NoErrors, [Next]_vars,
         job'.result = "deleted", job.result = "none"
  PROVE /\ RowsOf(objs') = {r \in RowsOf(objs) : ~Selected(job.pred, r)}
        /\ \A obj \in objs : (\A r \in ToSet(obj.rows) : ~Selected(job.pred, r)) => obj \in objs'
<1>1. EndDelete
  <2>1. ~Begins
    BY ReadBegins
  <2>2. ~EndQuery /\ ~EndCompact
    BY DEF EndQuery, EndCompact, LakeInv, JobInv
  <2>3. ASSUME NEW t \in Trunks,
               \/ Pulls(t) \/ NextScanner(t) \/ Hands(t) \/ Stops(t)
               \/ Buffers \/ Plans \/ UNCHANGED vars
        PROVE FALSE
    BY <2>3, JobFrame
  <2>4. \E t : t \in Trunks
    BY TrunksAssumption
  <2> QED
    BY <2>1, <2>2, <2>3, <2>4, StepKinds DEF Finishes
<1>2. Ok /\ deletes # {}
  <2>1. job'.result = IF ~Ok THEN "error" ELSE IF deletes = {} THEN "empty" ELSE "deleted"
    <3>1. job' = [job EXCEPT !.kind = "idle",
                     !.result = IF ~Ok THEN "error"
                                ELSE IF deletes = {} THEN "empty" ELSE "deleted"]
      BY <1>1 DEF EndDelete, Ok
    <3>2. job \in [kind : Kinds \cup {"idle"}, pred : Predicates, src : {job.src},
                   err : BOOLEAN, result : Results]
      BY DEF LakeInv, JobInv
    <3> HIDE DEF Ok
    <3> QED
      BY <3>1, <3>2
  <2> HIDE DEF Ok
  <2> QED
    BY <2>1
<1> DEFINE new == ToSet(writer.objects)
           old == {obj \in objs : obj.id \notin deletes}
<1>3. /\ job.kind = "delete" /\ Whole /\ AllDone /\ deletes = {obj.id : obj \in Hit}
      /\ RowsOf(new) = RowsRead(Hit) /\ objs' = old \cup new
  BY <1>1, <1>2, DeleteWrites
<1>4. job.src = objs /\ Hit \subseteq objs
  BY <1>3, PredicateFits, ReadInHit DEF Whole
<1>5. old = objs \ Hit
  <2>1. mgr.pc = "off" /\ job.result # "deleted"
    BY <1>3 DEF LakeInv, JobInv
  <2>2. PICK p \in Pools : objs = p.objs
    BY <2>1 DEF LakeInv, JobInv
  <2>3. \A a, b \in objs : a # b => a.id # b.id
    BY <2>2, PoolsAssumption
  <2> QED
    BY <1>3, <1>4, <2>3
<1>6. ASSUME NEW obj \in objs
      PROVE /\ ToSet(Read(obj)) = {r \in ToSet(obj.rows) : ~Selected(job.pred, r)}
            /\ obj \in Hit => \E r \in ToSet(obj.rows) : Selected(job.pred, r)
            /\ obj \notin Hit => \A r \in ToSet(obj.rows) : ~Selected(job.pred, r)
  <2>1. /\ ToSet(Read(obj)) = {r \in ToSet(obj.rows) : ~Selected(job.pred, r)}
        /\ hasDeletes(obj) <=> \E r \in ToSet(obj.rows) : Selected(job.pred, r)
    BY <1>3, DeleteHits
  <2>2. obj \in Given \/ Pruned(obj)
    BY <1>3, <1>4, AllReturned DEF ExactInv
  <2>3. Pruned(obj) => \A r \in ToSet(obj.rows) : ~Selected(job.pred, r)
    BY <1>3, PrunedRows
  <2>4. obj \in Hit <=> obj \in Given /\ hasDeletes(obj)
    BY <1>3 DEF Hit
  <2> QED
    BY <2>1, <2>2, <2>3, <2>4
<1>7. RowsRead(Hit) = {r \in RowsOf(Hit) : ~Selected(job.pred, r)}
  BY <1>4, <1>6 DEF RowsRead, RowsOf
<1>8. \A r \in RowsOf(objs \ Hit) : ~Selected(job.pred, r)
  BY <1>6 DEF RowsOf
<1>9. RowsOf(objs') = RowsOf(objs \ Hit) \cup RowsRead(Hit)
  <2>1. RowsOf(old \cup new) = RowsOf(old) \cup RowsOf(new)
    BY DEF RowsOf
  <2> QED
    BY <1>3, <1>5, <2>1
<1>10. RowsOf(objs) = RowsOf(objs \ Hit) \cup RowsOf(Hit)
  BY <1>4 DEF RowsOf
<1>11. RowsOf(objs') = {r \in RowsOf(objs) : ~Selected(job.pred, r)}
  BY <1>7, <1>8, <1>9, <1>10
<1>12. \A obj \in objs : (\A r \in ToSet(obj.rows) : ~Selected(job.pred, r)) => obj \in objs'
  BY <1>3, <1>5, <1>6
<1> QED
  BY <1>11, <1>12

(* A compaction writes the rows of its source.                             *)
LEMMA CompactRows ==
  ASSUME LakeInv, ExactInv, EndCompact
  PROVE RowsOf(objs') = RowsOf(objs)
<1> DEFINE rollup == ToSet(writer.objects) \cup {MadeObject(writer.vals)}
<1>1. /\ job.kind = "compact" /\ AllDone
      /\ objs' = IF job.err THEN objs ELSE (objs \ job.src) \cup rollup
  BY DEF EndCompact
<1>2. CASE job.err
  BY <1>1, <1>2
<1>3. CASE ~job.err
  <2>1. Running /\ Whole
    BY <1>1, <1>3 DEF Running, Whole, ExactInv, ReadInv
  <2>2. /\ OutRows = Got /\ RowsRead(Hit) \subseteq OutRows /\ job.src \subseteq Given
        /\ \A t \in Trunks : out[t] = Returned(t)
    <3>1. \A obj : ~Pruned(obj)
      BY <1>1 DEF Pruned
    <3> QED
      BY <1>1, <2>1, <3>1, AllReturned DEF ExactInv
  <2>3. Hit = job.src /\ job.src \subseteq objs
    BY <1>1, <2>1, <2>2, ReadInHit, GivenInSource DEF Hit, LakeInv
  <2>4. \A obj \in job.src : ToSet(Read(obj)) = ToSet(obj.rows)
    BY <1>1, <2>1, ReadInObject DEF Keeps
  <2>5. RowsRead(Hit) = RowsOf(job.src)
    BY <2>3, <2>4 DEF RowsRead, RowsOf
  <2>6. OutRows = RowsOf(rollup)
    <3>1. TheTrunk \in Trunks
      BY TrunksAssumption DEF TheTrunk
    <3>2. /\ \A t \in Trunks \ {TheTrunk} : out[t] = <<>>
          /\ ToSet(out[TheTrunk]) = ToSet(writer.vals) \cup RowsOf(ToSet(writer.objects))
          /\ Ordered(order, writer.vals) /\ writer.vals \in Seq(Rows)
      BY <1>1 DEF LakeInv, WriterInv, CompactInv
    <3>3. OutRows = ToSet(out[TheTrunk])
      BY <3>1, <3>2, EmptyInOrder DEF OutRows
    <3>4. MadeObject(writer.vals).rows = writer.vals
      BY DEF MadeObject, NewObject
    <3> QED
      BY <3>2, <3>3, <3>4 DEF RowsOf
  <2>7. Replaces(rollup)
    BY <1>1, <1>3, CompactEnds
  <2>8. RowsOf(rollup) = RowsOf(job.src)
    BY <2>2, <2>5, <2>6, <2>7 DEF Replaces
  <2>9. objs' = (objs \ job.src) \cup rollup
    BY <1>1, <1>3
  <2> HIDE DEF rollup
  <2> QED
    BY <2>3, <2>8, <2>9 DEF RowsOf
<1> QED
  BY <1>2, <1>3

LEMMA RowsStep ==
  ASSUME LakeInv, ExactInv, [Next]_vars
  PROVE /\ RowsOf(objs') # RowsOf(objs) => job.kind = "delete" /\ job'.result = "deleted"
        /\ \A obj \in objs' : IsInjective(obj.rows)
        /\ \A a, b \in objs' : a # b => ToSet(a.rows) \cap ToSet(b.rows) = {}
<1>1. \A obj \in objs' : IsInjective(obj.rows)
  <2>1. DataInv'
    BY DataInvStep
  <2>2. order' \in {"asc", "desc"} /\ \A obj \in objs' : Written(order', obj)
    BY <2>1 DEF DataInv
  <2> QED
    BY <2>2, WrittenFacts, OrderedInjective
<1>2. \A a, b \in objs' : a # b => ToSet(a.rows) \cap ToSet(b.rows) = {}
  BY StoredStep DEF Stored
<1>3. ASSUME objs' # objs
      PROVE EndDelete \/ EndCompact
  <2>1. ASSUME NEW t \in Trunks,
               \/ Pulls(t) \/ NextScanner(t) \/ Hands(t) \/ Stops(t)
               \/ Buffers \/ Plans \/ UNCHANGED vars
        PROVE FALSE
    BY <1>3, <2>1, JobFrame
  <2>2. ~Begins /\ ~EndQuery
    BY <1>3, ReadBegins DEF EndQuery
  <2>3. \E t : t \in Trunks
    BY TrunksAssumption
  <2> QED
    BY <2>1, <2>2, <2>3, StepKinds DEF Finishes
<1>4. ASSUME EndDelete, objs' # objs
      PROVE job.kind = "delete" /\ job'.result = "deleted"
  <2>1. job.kind = "delete"
    BY <1>4, OnlyDeletesBuffer DEF EndDelete
  <2>2. job \in [kind : Kinds \cup {"idle"}, pred : Predicates, src : {job.src},
                 err : BOOLEAN, result : Results]
    BY DEF LakeInv, JobInv
  <2>3. Ok /\ deletes # {}
    BY <1>4 DEF EndDelete, Ok
  <2>4. job' = [job EXCEPT !.kind = "idle", !.result = "deleted"]
    BY <1>4, <2>3 DEF EndDelete, Ok
  <2> QED
    BY <2>1, <2>2, <2>4
<1>5. RowsOf(objs') # RowsOf(objs) => job.kind = "delete" /\ job'.result = "deleted"
  BY <1>3, <1>4, CompactRows
<1> QED
  BY <1>1, <1>2, <1>5

----------------------------------------------------------------------------
(* What is read is accounted for at every moment: the rows of the objects  *)
(* handed out are with their trunks, in the writer's buffers or in its     *)
(* objects (sequence.go:48-90, deleter.go:43-104, lake/writer.go:66-158).  *)
LEMMA LakeExact ==
  ZeroIsNotNull /\ Spec => [](LakeInv /\ ExactInv)
<1> SUFFICES ASSUME ZeroIsNotNull PROVE Spec => [](LakeInv /\ ExactInv)
  OBVIOUS
<1>1. Init => LakeInv /\ ExactInv
  BY LakeInit, ExactInit
<1>2. LakeInv /\ ExactInv /\ [Next]_vars => (LakeInv /\ ExactInv)'
  BY LakeStep, ExactStep
<1> QED
  BY <1>1, <1>2, PTL DEF Spec

(* A query that ends well has returned every row its filter selects, each  *)
(* from one trunk and once, if its comparisons fit the rows of the pool:   *)
(* nothing it selects is lost by pruning objects and parts of objects, by  *)
(* sharing the list or by reading the ranges of the seek index             *)
(* (lister.go:75-97, sequence.go:48-90, seekindex.go:16-47).               *)
THEOREM QueriesAreExact ==
  ZeroIsNotNull /\ FitPreds /\ Spec => []QueryExact
<1> SUFFICES ASSUME ZeroIsNotNull, FitPreds
             PROVE Spec => []QueryExact
  OBVIOUS
<1>1. Init => QueryExact
  BY DEF Init, Idle, QueryExact
<1>2. LakeInv /\ ExactInv /\ QueryExact /\ [Next]_vars => QueryExact'
  BY QueryStep
<1> QED
  BY <1>1, <1>2, LakeExact, PTL DEF Spec

(* delete -where removes exactly the rows on which its predicate is true,  *)
(* and leaves objects without such rows as they are, if its comparisons    *)
(* fit the rows of the pool and are an error on none of them: the trunks   *)
(* run ahead of the writer's goroutine, and an object is passed over if    *)
(* its range or its count says that nothing in it is deleted               *)
(* (branch.go:155-195, deleter.go:43-122, lake/writer.go:66-158).          *)
THEOREM DeletesAreExact ==
  ZeroIsNotNull /\ FitPreds /\ NoErrors /\ Spec => DeletesExactly
<1> SUFFICES ASSUME ZeroIsNotNull, FitPreds, NoErrors
             PROVE Spec => DeletesExactly
  OBVIOUS
<1>1. ASSUME LakeInv, ExactInv, [Next]_vars
      PROVE [ job'.result = "deleted" /\ job.result = "none" =>
                /\ RowsOf(objs') = {r \in RowsOf(objs) : ~Selected(job.pred, r)}
                /\ \A obj \in objs :
                     (\A r \in ToSet(obj.rows) : ~Selected(job.pred, r)) => obj \in objs' ]_vars
  BY <1>1, DeleteStep
<1>2. LakeInv /\ ExactInv /\ [Next]_vars
        => [ job'.result = "deleted" /\ job.result = "none" =>
               /\ RowsOf(objs') = {r \in RowsOf(objs) : ~Selected(job.pred, r)}
               /\ \A obj \in objs :
                    (\A r \in ToSet(obj.rows) : ~Selected(job.pred, r)) => obj \in objs' ]_vars
  BY <1>1
<1> QED
  BY <1>2, LakeExact, PTL DEF Spec, DeletesExactly

(* Only a delete that reports success changes the rows of the branch, and  *)
(* a row stays in one object and once: compactions move all the rows of    *)
(* their source, and what fails or is aborted leaves the objects there     *)
(* were (compact.go:16-57, branch.go:155-195).                             *)
THEOREM RowsAreKept ==
  ZeroIsNotNull /\ Spec => RowsKept
<1> SUFFICES ASSUME ZeroIsNotNull PROVE Spec => RowsKept
  OBVIOUS
<1>1. ASSUME LakeInv, ExactInv, [Next]_vars
      PROVE [ /\ RowsOf(objs') # RowsOf(objs) => job.kind = "delete" /\ job'.result = "deleted"
              /\ \A obj \in objs' : IsInjective(obj.rows)
              /\ \A a, b \in objs' : a # b => ToSet(a.rows) \cap ToSet(b.rows) = {} ]_vars
  BY <1>1, RowsStep
<1>2. LakeInv /\ ExactInv /\ [Next]_vars
        => [ /\ RowsOf(objs') # RowsOf(objs) => job.kind = "delete" /\ job'.result = "deleted"
             /\ \A obj \in objs' : IsInjective(obj.rows)
             /\ \A a, b \in objs' : a # b => ToSet(a.rows) \cap ToSet(b.rows) = {} ]_vars
  BY <1>1
<1> QED
  BY <1>2, LakeExact, PTL DEF Spec, RowsKept
=============================================================================
