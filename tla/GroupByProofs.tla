--------------------------- MODULE GroupByProofs ---------------------------
(***************************************************************************)
(* Sorted input gives sorted output, for every query, table limit and      *)
(* batch length, and whatever the client, the context, the parent and the  *)
(* disk do.                                                                *)
(***************************************************************************)
EXTENDS GroupBy, TLAPS, FiniteSetTheorems

(* Before, for a direction: the operators below take the state they speak  *)
(* of as arguments.                                                        *)
Below(d, x, y) == IF d = "desc" THEN x > y ELSE x < y

Upto(d, S, T) == \A x \in S, y \in T : ~Below(d, y, x)

Rising(d, s) == \A i, j \in DOMAIN s : i < j => ~Below(d, s[j].key[1], s[i].key[1])

(* The first keys of values and of results. *)
Value == Int \X Int \X Nat

Firsts(vals) == {vals[i][1] : i \in {j \in DOMAIN vals : vals[j][1] # Quiet}}

ValuesRise(d, vals) ==
    \A i, j \in DOMAIN vals : i < j /\ vals[i][1] # Quiet /\ vals[j][1] # Quiet =>
        ~Below(d, vals[j][1], vals[i][1])

Keys(rows) == {rows[i].key[1] : i \in DOMAIN rows}
Tabled(a)  == {g[1] : g \in DOMAIN a.table}
Onspill(a) == {r.key[1] : r \in a.spills}

(* Batch i of platoon k is at or after the parent's position s. *)
IsBatch(q, k, i)  == k \in DOMAIN q.platoons /\ i \in DOMAIN q.platoons[k]
Reaches(s, k, i)  == s.k < k \/ (s.k = k /\ s.i <= i)
Coming(q, s)      == UNION {Firsts(q.platoons[b[1]][b[2]]) :
                              b \in {c \in Nat \X Nat : /\ IsBatch(q, c[1], c[2])
                                                        /\ Reaches(s, c[1], c[2])}}

(* What the optimizer promises the operator when it sets dir: the values   *)
(* come sorted by the first key, missing ones last or, descending, first,  *)
(* in a platoon and from one to the next.  Values that Consume skips       *)
(* (Quiet) may be anywhere.                                                *)
InOrder(q) ==
    q.dir # "none" =>
        \A k, i \in Nat : IsBatch(q, k, i) =>
            /\ ValuesRise(q.dir, q.platoons[k][i])
            /\ Upto(q.dir, Firsts(q.platoons[k][i]), Coming(q, [k |-> k, i |-> i + 1]))

SortedInput == InOrder(input)
-----------------------------------------------------------------------------
(* The inductive invariant. *)

(* What is needed of the types. *)
IsRows(s) == /\ \E R : s \in Seq(R)
             /\ \A i \in DOMAIN s : s[i].key \in Int \X Int

IsAgg(a) ==
    /\ DOMAIN a = {"table", "spiller", "spills", "nspill", "maxTable", "maxSpill", "dirs"}
    /\ DOMAIN a.table \subseteq Int \X Int
    /\ IsFiniteSet(DOMAIN a.table)
    /\ a.table \in [DOMAIN a.table -> [n : Nat, prim : Int]]
    /\ \A r \in a.spills : r.key \in Int \X Int
    /\ IsFiniteSet(a.spills)
    /\ ~a.spiller => a.spills = {}
    /\ a.maxTable \in Int
    /\ a.maxSpill \in Int

IsRun(r) == /\ DOMAIN r = {"pc", "vals", "res", "next"}
            /\ r.vals \in Seq(Value)
            /\ IsRows(r.res.rows)

IsClient(c) == DOMAIN c = {"pc", "platoon", "got"} /\ IsRows(c.got)

Typed(q, s, a, r, c) ==
    q \in Inputs /\ s \in [k : Nat \ {0}, i : Nat \ {0}] /\ IsAgg(a) /\ IsRun(r) /\ IsClient(c)

(* Keys move on in order: from the parent to the batch being consumed, to  *)
(* the table, to the spills, to the result on offer, to the client.        *)
Ahead(q, s, r) == Firsts(r.vals) \cup Coming(q, s)

Delivered(d, r, c) ==
    Rising(d, c.got) /\ Rising(d, r.res.rows) /\ Upto(d, Keys(c.got), Keys(r.res.rows))

Held(d, a, r, c) ==
    /\ Upto(d, Keys(c.got) \cup Keys(r.res.rows), Onspill(a) \cup Tabled(a))
    /\ Upto(d, Onspill(a), Tabled(a))

Consuming(q, s, r) ==
    /\ ValuesRise(q.dir, r.vals)
    /\ Upto(q.dir, Firsts(r.vals), Coming(q, s))

Passed(d, a, r, c, ahead) ==
    /\ Upto(d, Keys(c.got) \cup Keys(r.res.rows) \cup Onspill(a) \cup Tabled(a), ahead)
    /\ a.maxTable # Nil => Upto(d, {a.maxTable}, ahead)

(* The key with which a group entered the table is its first key. *)
Primaries(d, a) ==
    \A g \in DOMAIN a.table : /\ a.table[g].prim = g[1] /\ g[1] # Nil
                              /\ ~Below(d, a.maxTable, g[1])

(* Without a spiller a batch leaves only groups of the largest key in the  *)
(* table: the final results, in the order of the map, are sorted.          *)
AtPull(r) == (IF r.pc = "send" THEN r.next ELSE r.pc) \in {"off", "pull", "final"}

Settled(a, r) == AtPull(r) /\ ~a.spiller => \A g \in DOMAIN a.table : g[1] = a.maxTable

InSequence(q, s, a, r, c) ==
    q.dir # "none" =>
        /\ Delivered(q.dir, r, c)
        /\ Held(q.dir, a, r, c)
        /\ Consuming(q, s, r)
        /\ Passed(q.dir, a, r, c, Ahead(q, s, r))
        /\ Primaries(q.dir, a)
        /\ Settled(a, r)

GroupInv == /\ SortedInput
            /\ Typed(input, src, agg, run, client)
            /\ InSequence(input, src, agg, run, client)

-----------------------------------------------------------------------------
(* Orders and sequences. *)

(* What the assumption on the queries' keys is used for. *)
LEMMA PlatoonsType ==
  ASSUME NEW q \in Inputs PROVE q.platoons \in Seq(Seq(Seq(Value)))
<1> DEFINE K == {k \in Int : k <= Missing} \X Int \X Nat
<1>1. q.platoons \in Seq(Seq(Seq(K)))
  BY GroupByAssumption
<1>2. K \subseteq Value
  BY DEF Value
<1> HIDE DEF K
<1>3. \A s \in Seq(K) : s \in Seq(Value)
  BY <1>2
<1>4. \A s \in Seq(Seq(K)) : s \in Seq(Seq(Value))
  BY <1>3
<1> QED
  BY <1>1, <1>4

LEMMA UptoSubsets ==
  ASSUME NEW d, NEW S, NEW T, NEW S1 \in SUBSET S, NEW T1 \in SUBSET T, Upto(d, S, T)
  PROVE Upto(d, S1, T1)
BY DEF Upto

(* A listing of a finite set is a sequence of all of its elements. *)
LEMMA Listing ==
  ASSUME NEW S, IsFiniteSet(S), NEW f \in SetToSeqs(S)
  PROVE f \in Seq(S) /\ \A x \in S : \E i \in DOMAIN f : f[i] = x
<1> DEFINE n == Cardinality(S)
           T == {f[i] : i \in 1 .. n}
<1>1. n \in Nat
  BY FS_CardinalityType
<1>2. /\ f \in [1 .. n -> S]
      /\ \A i, j \in 1 .. n : i # j => f[i] # f[j]
  BY DEF SetToSeqs
<1>3. f \in Surjection(1 .. n, T) /\ f \in Injection(1 .. n, T)
  BY <1>2 DEF Surjection, Injection, IsInjective
<1>4. IsFiniteSet(1 .. n) /\ Cardinality(1 .. n) = n
  <2>1. Cardinality(1 .. n) = IF 1 > n THEN 0 ELSE n - 1 + 1
    BY <1>1, FS_Interval
  <2> QED
    BY <1>1, <2>1, FS_Interval
<1>5. Cardinality(T) = n
  BY <1>3, <1>4, FS_Surjection
<1>6. T = S
  <2>1. T \in SUBSET S
    BY <1>2
  <2> QED
    BY <1>5, <2>1, FS_Subset
<1>7. f \in Seq(S) /\ DOMAIN f = 1 .. n
  BY <1>1, <1>2
<1> QED
  BY <1>6, <1>7

LEMMA RowsListing ==
  ASSUME NEW gs, IsFiniteSet(gs), gs \subseteq Int \X Int, NEW s \in SetToSeqs(Rows(gs))
  PROVE IsRows(s) /\ \A i \in DOMAIN s : s[i].key \in gs
<1> DEFINE f == [g \in gs |-> [key |-> g, n |-> agg.table[g].n]]
<1>1. f \in Surjection(gs, Rows(gs))
  BY DEF Surjection, Rows
<1>2. IsFiniteSet(Rows(gs))
  BY <1>1, FS_Surjection
<1>3. s \in Seq(Rows(gs))
  BY <1>2, Listing
<1>4. \A i \in DOMAIN s : s[i] \in Rows(gs)
  BY <1>3
<1>5. \A i \in DOMAIN s : s[i].key \in gs
  BY <1>4 DEF Rows
<1> QED
  BY <1>3, <1>5 DEF IsRows

LEMMA SpillKeysFinite ==
  ASSUME NEW a, IsAgg(a), NEW below \in BOOLEAN
  PROVE IsFiniteSet(SpillKeys(a, below))
<1> DEFINE S == {x \in a.spills : below => \A h \in HeldBack(a) : KeysBefore(x.key, h)}
           f == [r \in S |-> r.key]
<1>1. IsFiniteSet(S)
  BY FS_Subset DEF IsAgg
<1>2. f \in Surjection(S, SpillKeys(a, below))
  BY DEF Surjection, SpillKeys
<1> QED
  BY <1>1, <1>2, FS_Surjection

(* A batch of the merged runs is sorted, and what it leaves comes later. *)
LEMMA SpillsInOrder ==
  ASSUME NEW a, IsAgg(a), NEW below \in BOOLEAN, NEW rows \in ReadSpills(a, below)
  PROVE /\ IsRows(rows)
        /\ Rising(input.dir, rows)
        /\ Keys(rows) \subseteq Onspill(a)
        /\ Upto(input.dir, Keys(rows), Onspill(Taken(a, rows)))
<1> DEFINE K == SpillKeys(a, below)
<1>1. PICK s \in Merged(K) :
        rows = [i \in 1 .. Min({BatchLen, Len(s)}) |-> [key |-> s[i], n |-> Combined(a, s[i])]]
  BY DEF ReadSpills
<1>2. /\ s \in Seq(K) /\ \A x \in K : \E i \in DOMAIN s : s[i] = x
      /\ \A i, j \in DOMAIN s : i < j => KeysBefore(s[i], s[j])
  BY SpillKeysFinite, Listing DEF Merged
<1>3. K \subseteq Int \X Int
  BY DEF SpillKeys, IsAgg
<1>4. PICK n \in Nat : n = Min({BatchLen, Len(s)}) /\ n <= Len(s)
  <2>1. Len(s) \in Nat /\ BatchLen \in Nat
    BY <1>2, GroupByAssumption
  <2>2. \E x \in {BatchLen, Len(s)} : \A y \in {BatchLen, Len(s)} : x <= y
    <3>1. CASE BatchLen <= Len(s)
      BY <2>1, <3>1
    <3>2. CASE Len(s) <= BatchLen
      BY <2>1, <3>2
    <3> QED
      BY <2>1, <3>1, <3>2
  <2> QED
    BY <2>1, <2>2 DEF Min
<1>5. /\ DOMAIN s = 1 .. Len(s) /\ Len(s) \in Nat /\ \A i \in 1 .. Len(s) : s[i] \in K
      /\ 1 .. n \subseteq 1 .. Len(s)
  BY <1>2, <1>4
<1>6. /\ DOMAIN rows = 1 .. n /\ \A i \in 1 .. n : rows[i].key = s[i]
      /\ rows = [i \in 1 .. n |-> rows[i]]
  BY <1>1, <1>4
<1>7. \A i, j \in 1 .. Len(s) : i < j => ~Below(input.dir, s[j][1], s[i][1])
  <2> SUFFICES ASSUME NEW i \in 1 .. Len(s), NEW j \in 1 .. Len(s), i < j
               PROVE ~Below(input.dir, s[j][1], s[i][1])
    OBVIOUS
  <2>1. s[i][1] \in Int /\ s[j][1] \in Int
    BY <1>3, <1>5
  <2>2. KeysBefore(s[i], s[j])
    BY <1>2, <1>5
  <2> QED
    BY <2>1, <2>2 DEF KeysBefore, Before, Below
<1>8. IsRows(rows)
  <2>1. rows \in Seq({rows[i] : i \in 1 .. n})
    BY <1>6
  <2>2. \A i \in 1 .. n : rows[i].key \in Int \X Int
    BY <1>3, <1>5, <1>6
  <2> QED
    BY <1>6, <2>1, <2>2 DEF IsRows
<1>9. Rising(input.dir, rows)
  BY <1>5, <1>6, <1>7 DEF Rising
<1>10. Keys(rows) \subseteq Onspill(a)
  <2>1. \A i \in 1 .. n : \E r \in a.spills : rows[i].key = r.key
    BY <1>5, <1>6 DEF SpillKeys
  <2> QED
    BY <1>6, <2>1 DEF Keys, Onspill
<1>11. ASSUME NEW i \in DOMAIN rows, NEW r \in a.spills, \A j \in DOMAIN rows : rows[j].key # r.key
       PROVE ~Below(input.dir, r.key[1], rows[i].key[1])
  <2>1. i \in 1 .. n /\ i \in 1 .. Len(s) /\ rows[i].key = s[i] /\ s[i] \in K
    BY <1>5, <1>6
  <2>2. r.key[1] \in Int /\ s[i][1] \in Int /\ a.maxSpill \in Int
    BY <1>3, <2>1 DEF IsAgg
  <2>3. CASE r.key \in K
    <3>1. PICK j \in 1 .. Len(s) : s[j] = r.key
      BY <1>2, <1>5, <2>3
    <3>2. j \notin 1 .. n
      BY <1>6, <1>11, <3>1
    <3>3. i < j
      BY <1>4, <2>1, <3>1, <3>2
    <3> QED
      BY <1>7, <2>1, <3>1, <3>3
  <2>4. CASE r.key \notin K
    <3>1. PICK h \in HeldBack(a) : below /\ ~KeysBefore(r.key, h)
      BY <2>4 DEF SpillKeys
    <3>2. KeysBefore(s[i], h)
      BY <2>1, <3>1 DEF SpillKeys
    <3>3. h[1] \in Int
      BY DEF HeldBack, IsAgg
    <3>4. ~Below(input.dir, h[1], s[i][1])
      BY <2>2, <3>2, <3>3 DEF KeysBefore, Before, Below
    <3>5. ~Below(input.dir, r.key[1], h[1])
      BY <2>2, <3>1, <3>3 DEF KeysBefore, Before, Below
    <3> QED
      BY <2>1, <2>2, <3>3, <3>4, <3>5 DEF Below
  <2> QED
    BY <2>3, <2>4
<1>12. \A r \in Taken(a, rows).spills : r \in a.spills /\ \A j \in DOMAIN rows : rows[j].key # r.key
  BY DEF Taken, IsAgg
<1>13. Upto(input.dir, Keys(rows), Onspill(Taken(a, rows)))
  <2> SUFFICES ASSUME NEW i \in DOMAIN rows, NEW r \in Taken(a, rows).spills
               PROVE ~Below(input.dir, r.key[1], rows[i].key[1])
    BY DEF Upto, Keys, Onspill
  <2> QED
    BY <1>11, <1>12
<1> QED
  BY <1>8, <1>9, <1>10, <1>13

-----------------------------------------------------------------------------
(* The aggregator's operations. *)

LEMMA EmptyIsTable ==
  /\ DOMAIN EmptyTable = {}
  /\ IsFiniteSet(DOMAIN EmptyTable)
  /\ EmptyTable \in [DOMAIN EmptyTable -> [n : Nat, prim : Int]]
BY FS_EmptySet DEF EmptyTable

LEMMA LaterType ==
  ASSUME NEW x \in Int, NEW y \in Int
  PROVE Later(x, y) \in Int
BY DEF Later

(* A spill moves the table to disk. *)
LEMMA SpilledEffect ==
  ASSUME NEW a, IsAgg(a), NEW last \in Int
  PROVE /\ IsAgg(Spilled(a, last))
        /\ DOMAIN Spilled(a, last).table = {}
        /\ Onspill(Spilled(a, last)) = Onspill(a) \cup Tabled(a)
        /\ Spilled(a, last).maxTable = a.maxTable
        /\ Spilled(a, last).spiller = TRUE
<1> DEFINE b == Spilled(a, last)
           R == {[run |-> a.nspill + 1, key |-> g, n |-> a.table[g].n] : g \in DOMAIN a.table}
           f == [g \in DOMAIN a.table |-> [run |-> a.nspill + 1, key |-> g, n |-> a.table[g].n]]
<1>1. /\ DOMAIN b = DOMAIN a
      /\ b.table = EmptyTable /\ b.spiller = TRUE
      /\ b.spills = a.spills \cup R
      /\ b.maxTable = a.maxTable
      /\ b.maxSpill = IF last \in {Nil, Missing} THEN a.maxSpill ELSE Later(a.maxSpill, last)
  BY DEF Spilled, IsAgg
<1>2. b.maxSpill \in Int
  BY <1>1, LaterType DEF IsAgg
<1>3. IsFiniteSet(R)
  <2>1. f \in Surjection(DOMAIN a.table, R)
    BY DEF Surjection
  <2> QED
    BY <2>1, FS_Surjection DEF IsAgg
<1>4. \A r \in R : r.key \in DOMAIN a.table
  OBVIOUS
<1>5. ASSUME NEW g \in DOMAIN a.table PROVE \E r \in R : r.key = g
  <2>1. f[g] \in R /\ f[g].key = g
    OBVIOUS
  <2> QED
    BY <2>1
<1> HIDE DEF R, b
<1>6. IsFiniteSet(b.spills)
  <2>1. IsFiniteSet(a.spills)
    BY DEF IsAgg
  <2>2. IsFiniteSet(a.spills \cup R)
    BY <1>3, <2>1, FS_Union
  <2> QED
    BY <1>1, <2>2
<1>7. \A r \in b.spills : r.key \in Int \X Int
  BY <1>1, <1>4 DEF IsAgg
<1>8. Onspill(b) = Onspill(a) \cup Tabled(a)
  BY <1>1, <1>4, <1>5 DEF Onspill, Tabled
<1>9. IsAgg(b)
  BY <1>1, <1>2, <1>6, <1>7, EmptyIsTable DEF IsAgg
<1> QED
  BY <1>1, <1>8, <1>9, EmptyIsTable DEF b

(* What clears the table without writing it. *)
LEMMA SpillFailedEffect ==
  ASSUME NEW a, IsAgg(a)
  PROVE /\ IsAgg(SpillFailed(a))
        /\ DOMAIN SpillFailed(a).table = {}
        /\ SpillFailed(a).spills = a.spills
        /\ SpillFailed(a).maxTable = a.maxTable
        /\ SpillFailed(a).spiller = TRUE
<1> DEFINE b == SpillFailed(a)
<1>1. /\ DOMAIN b = DOMAIN a
      /\ b.table = EmptyTable /\ b.spiller = TRUE
      /\ b.spills = a.spills
      /\ b.maxTable = a.maxTable /\ b.maxSpill = a.maxSpill
  BY DEF SpillFailed, IsAgg
<1> HIDE DEF b
<1>2. IsAgg(b)
  BY <1>1, EmptyIsTable DEF IsAgg
<1> QED
  BY <1>1, <1>2, EmptyIsTable DEF b

LEMMA ClearedEffect ==
  ASSUME IsAgg(agg), NEW b \in {Reset, Cleaned}
  PROVE /\ IsAgg(b)
        /\ DOMAIN b.table = {}
        /\ b.spills = {}
        /\ b.maxTable = agg.maxTable
<1>1. /\ DOMAIN b = DOMAIN agg
      /\ b.table = EmptyTable
      /\ b.spills = {}
      /\ b.maxTable = agg.maxTable /\ b.maxSpill = agg.maxSpill
  BY DEF Reset, Cleaned, IsAgg
<1>2. IsAgg(b)
  BY <1>1, EmptyIsTable, FS_EmptySet DEF IsAgg
<1> QED
  BY <1>1, <1>2, EmptyIsTable

(* A value enters the table. *)
LEMMA AddedEffect ==
  ASSUME NEW a, IsAgg(a), NEW v \in Value
  PROVE /\ IsAgg(Added(a, v))
        /\ DOMAIN Added(a, v).table = DOMAIN a.table \cup {Group(v)}
        /\ \A h \in DOMAIN a.table : Added(a, v).table[h].prim = a.table[h].prim
        /\ Group(v) \notin DOMAIN a.table => Added(a, v).table[Group(v)].prim = a.maxTable
        /\ Added(a, v).spills = a.spills
        /\ Added(a, v).maxTable = a.maxTable
<1> DEFINE g   == Group(v)
           b   == Added(a, v)
           row == IF g \in DOMAIN a.table THEN a.table[g] ELSE [n |-> 0, prim |-> a.maxTable]
           new == [row EXCEPT !.n = @ + v[3]]
           t   == [h \in DOMAIN a.table \cup {g} |-> IF h = g THEN new ELSE a.table[h]]
<1>1. g \in Int \X Int /\ v[3] \in Nat
  BY DEF Group, Value
<1>2. b = [a EXCEPT !.table = t]
  BY DEF Added
<1>3. /\ DOMAIN b = DOMAIN a /\ b.table = t
      /\ b.spills = a.spills /\ b.spiller = a.spiller
      /\ b.maxTable = a.maxTable /\ b.maxSpill = a.maxSpill
  BY <1>2 DEF IsAgg
<1>4. row \in [n : Nat, prim : Int]
  BY DEF IsAgg
<1> HIDE DEF row, g, b
<1>5. new \in [n : Nat, prim : Int] /\ new.prim = row.prim
  BY <1>1, <1>4
<1>6. /\ g \in DOMAIN a.table => new.prim = a.table[g].prim
      /\ g \notin DOMAIN a.table => new.prim = a.maxTable
  BY <1>5 DEF row
<1> HIDE DEF new
<1>7. /\ DOMAIN t = DOMAIN a.table \cup {g}
      /\ t \in [DOMAIN t -> [n : Nat, prim : Int]]
      /\ \A h \in DOMAIN a.table : t[h].prim = a.table[h].prim
      /\ g \notin DOMAIN a.table => t[g].prim = a.maxTable
  BY <1>5, <1>6 DEF IsAgg
<1> HIDE DEF t
<1>8. IsFiniteSet(DOMAIN t) /\ DOMAIN t \subseteq Int \X Int
  BY <1>1, <1>7, FS_AddElement DEF IsAgg
<1>9. IsAgg(b)
  BY <1>3, <1>7, <1>8 DEF IsAgg
<1> QED
  BY <1>3, <1>7, <1>9 DEF b, g

(* Groups leave the table, and rows the spills. *)
LEMMA WithoutEffect ==
  ASSUME IsAgg(agg), NEW gs \in SUBSET DOMAIN agg.table
  PROVE /\ IsAgg(Without(gs))
        /\ DOMAIN Without(gs).table = DOMAIN agg.table \ gs
        /\ \A g \in DOMAIN Without(gs).table : Without(gs).table[g] = agg.table[g]
        /\ Without(gs).spills = agg.spills
        /\ Without(gs).maxTable = agg.maxTable
        /\ Without(gs).spiller = agg.spiller
<1> DEFINE b == Without(gs)
<1>1. /\ DOMAIN b = DOMAIN agg
      /\ b.table = [g \in DOMAIN agg.table \ gs |-> agg.table[g]]
      /\ b.spills = agg.spills /\ b.spiller = agg.spiller
      /\ b.maxTable = agg.maxTable /\ b.maxSpill = agg.maxSpill
  BY DEF Without, IsAgg
<1> HIDE DEF b
<1>2. /\ DOMAIN b.table = DOMAIN agg.table \ gs
      /\ \A g \in DOMAIN b.table : b.table[g] = agg.table[g]
      /\ b.table \in [DOMAIN b.table -> [n : Nat, prim : Int]]
  BY <1>1 DEF IsAgg
<1>3. IsFiniteSet(DOMAIN b.table)
  BY <1>2, FS_Subset DEF IsAgg
<1>4. IsAgg(b)
  BY <1>1, <1>2, <1>3 DEF IsAgg
<1> QED
  BY <1>1, <1>2, <1>4 DEF b

LEMMA TakenEffect ==
  ASSUME NEW a, IsAgg(a), NEW rows
  PROVE /\ IsAgg(Taken(a, rows))
        /\ Taken(a, rows).table = a.table
        /\ Taken(a, rows).spills \subseteq a.spills
        /\ Taken(a, rows).maxTable = a.maxTable
        /\ Taken(a, rows).spiller = a.spiller
<1> DEFINE b == Taken(a, rows)
<1>1. /\ DOMAIN b = DOMAIN a
      /\ b.table = a.table /\ b.spiller = a.spiller
      /\ b.spills \in SUBSET a.spills
      /\ b.maxTable = a.maxTable /\ b.maxSpill = a.maxSpill
  BY DEF Taken, IsAgg
<1> HIDE DEF b
<1>2. IsFiniteSet(b.spills)
  BY <1>1, FS_Subset DEF IsAgg
<1>3. IsAgg(b)
  BY <1>1, <1>2 DEF IsAgg
<1> QED
  BY <1>1, <1>3 DEF b

(* The largest key of the table is that of the last value: later values    *)
(* have later keys.                                                        *)
LEMMA SeenEffect ==
  ASSUME IsAgg(agg), NEW v \in Value
  PROVE /\ IsAgg(Seen(v))
        /\ Seen(v).table = agg.table /\ Seen(v).spills = agg.spills
        /\ v[1] = Quiet => Seen(v).maxTable = agg.maxTable
        /\ v[1] # Quiet /\ input.dir # "none" /\ (agg.maxTable # Nil => Upto(input.dir, {agg.maxTable}, {v[1]}))
             => Seen(v).maxTable = v[1]
<1> DEFINE b == Seen(v)
<1>0. v[1] \in Int
  BY DEF Value
<1>1. CASE v[1] = Quiet \/ input.dir = "none"
  BY <1>1 DEF Seen
<1>2. CASE v[1] # Quiet /\ input.dir # "none"
  <2>1. /\ DOMAIN b = DOMAIN agg
        /\ b.table = agg.table
        /\ b.spills = agg.spills /\ b.spiller = agg.spiller
        /\ b.maxTable = Later(agg.maxTable, v[1]) /\ b.maxSpill = agg.maxSpill
    BY <1>2 DEF Seen, IsAgg
  <2> HIDE DEF b
  <2>2. IsAgg(b)
    BY <1>0, <2>1, LaterType DEF IsAgg
  <2>3. (agg.maxTable # Nil => Upto(input.dir, {agg.maxTable}, {v[1]})) => b.maxTable = v[1]
    BY <1>0, <1>2, <2>1 DEF Later, Upto, Before, Below, IsAgg
  <2> QED
    BY <1>2, <2>1, <2>2, <2>3 DEF b
<1> QED
  BY <1>1, <1>2

-----------------------------------------------------------------------------
(* Steps.  The query never changes. *)

LEMMA InvNext ==
  ASSUME GroupInv, input' = input,
         Typed(input, src', agg', run', client'),
         InSequence(input, src', agg', run', client')
  PROVE GroupInv'
BY DEF GroupInv, SortedInput

(* A step that takes no new value: nothing new is ahead, in the spills or  *)
(* in the table, and only what was on offer is delivered.                  *)
LEMMA Kept ==
  ASSUME NEW q, NEW s, NEW a, NEW r, NEW c, NEW s2, NEW a2, NEW r2, NEW c2,
         InSequence(q, s, a, r, c), q.dir # "none",
         Delivered(q.dir, r2, c2),
         Keys(c2.got) \cup Keys(r2.res.rows) \subseteq Keys(c.got) \cup Keys(r.res.rows),
         Onspill(a2) \subseteq Onspill(a),
         DOMAIN a2.table \subseteq DOMAIN a.table,
         \A g \in DOMAIN a2.table : a2.table[g] = a.table[g],
         a2.maxTable = a.maxTable,
         Firsts(r2.vals) \subseteq Firsts(r.vals), ValuesRise(q.dir, r2.vals),
         Coming(q, s2) \subseteq Coming(q, s),
         Settled(a2, r2)
  PROVE InSequence(q, s2, a2, r2, c2)
<1>1. /\ Held(q.dir, a, r, c) /\ Consuming(q, s, r) /\ Primaries(q.dir, a)
      /\ Passed(q.dir, a, r, c, Ahead(q, s, r))
  BY DEF InSequence
<1>2. Tabled(a2) \subseteq Tabled(a)
  BY DEF Tabled
<1>3. Held(q.dir, a2, r2, c2)
  <2> HIDE DEF Settled, Delivered
  <2>1. Upto(q.dir, Keys(c2.got) \cup Keys(r2.res.rows), Onspill(a2) \cup Tabled(a2))
    BY <1>1, <1>2 DEF Held, Upto
  <2>2. Upto(q.dir, Onspill(a2), Tabled(a2))
    BY <1>1, <1>2 DEF Held, Upto
  <2> QED
    BY <2>1, <2>2 DEF Held
<1>4. Consuming(q, s2, r2)
  BY <1>1 DEF Consuming, Upto
<1>5. Ahead(q, s2, r2) \subseteq Ahead(q, s, r)
  BY DEF Ahead
<1>6. Passed(q.dir, a2, r2, c2, Ahead(q, s2, r2))
  <2>1. Upto(q.dir, Keys(c2.got) \cup Keys(r2.res.rows) \cup Onspill(a2) \cup Tabled(a2),
             Ahead(q, s2, r2))
    BY <1>1, <1>2, <1>5 DEF Passed, Upto
  <2>2. a2.maxTable # Nil => Upto(q.dir, {a2.maxTable}, Ahead(q, s2, r2))
    BY <1>1, <1>5 DEF Passed, Upto
  <2> QED
    BY <2>1, <2>2 DEF Passed
<1>7. Primaries(q.dir, a2)
  BY <1>1 DEF Primaries
<1> QED
  BY <1>3, <1>4, <1>6, <1>7 DEF InSequence

(* A step that takes rows from the table or the spills and offers them. *)
LEMMA Offered ==
  ASSUME NEW q, NEW s, NEW a, NEW r, NEW c, NEW a2, NEW r2,
         InSequence(q, s, a, r, c), q.dir # "none",
         Rising(q.dir, r2.res.rows),
         Keys(r2.res.rows) \subseteq Onspill(a) \cup Tabled(a),
         Onspill(a2) \cup Tabled(a2) \subseteq Onspill(a) \cup Tabled(a),
         Upto(q.dir, Keys(r2.res.rows), Onspill(a2) \cup Tabled(a2)),
         Upto(q.dir, Onspill(a2), Tabled(a2)),
         Primaries(q.dir, a2),
         a2.maxTable = a.maxTable,
         r2.vals = r.vals,
         Settled(a2, r2)
  PROVE InSequence(q, s, a2, r2, c)
<1>1. /\ Held(q.dir, a, r, c) /\ Consuming(q, s, r)
      /\ Passed(q.dir, a, r, c, Ahead(q, s, r)) /\ Delivered(q.dir, r, c)
  BY DEF InSequence
<1>2. Delivered(q.dir, r2, c)
  <2>1. Upto(q.dir, Keys(c.got), Keys(r2.res.rows))
    BY <1>1 DEF Held, Upto
  <2> QED
    BY <1>1, <2>1 DEF Delivered
<1>3. Held(q.dir, a2, r2, c)
  <2>1. Upto(q.dir, Keys(c.got), Onspill(a2) \cup Tabled(a2))
    BY <1>1 DEF Held, Upto
  <2>2. Upto(q.dir, Keys(c.got) \cup Keys(r2.res.rows), Onspill(a2) \cup Tabled(a2))
    BY <2>1 DEF Upto
  <2> QED
    BY <2>2 DEF Held
<1>4. Consuming(q, s, r2)
  BY <1>1 DEF Consuming
<1>5. Ahead(q, s, r2) = Ahead(q, s, r)
  BY DEF Ahead
<1>6. Passed(q.dir, a2, r2, c, Ahead(q, s, r2))
  <2>1. Upto(q.dir, Keys(c.got) \cup Keys(r2.res.rows) \cup Onspill(a2) \cup Tabled(a2),
             Ahead(q, s, r2))
    BY <1>1, <1>5 DEF Passed, Upto
  <2> QED
    BY <1>1, <1>5, <2>1 DEF Passed
<1> QED
  BY <1>2, <1>3, <1>4, <1>6 DEF InSequence

(* The parent goes on to its next platoon. *)
LEMMA NextPlatoonShrinks ==
  ASSUME GroupInv
  PROVE /\ NextPlatoon \in [k : Nat \ {0}, i : Nat \ {0}]
        /\ Coming(input, NextPlatoon) \subseteq Coming(input, src)
<1>1. /\ input.platoons \in Seq(Seq(Seq(Value))) /\ src \in [k : Nat \ {0}, i : Nat \ {0}]
  BY PlatoonsType DEF GroupInv, Typed
<1>2. PICK m \in Nat : m = Len(input.platoons)
  BY <1>1
<1>3. /\ Min({src.k, m}) \in Nat
      /\ src.k <= m => Min({src.k, m}) = src.k
      /\ ~(src.k <= m) => Min({src.k, m}) = m
  <2>1. src.k \in Nat
    BY <1>1
  <2>2. \E x \in {src.k, m} : \A y \in {src.k, m} : x <= y
    <3>1. CASE src.k <= m
      BY <2>1, <3>1
    <3>2. CASE m <= src.k
      BY <2>1, <3>2
    <3> QED
      BY <2>1, <3>1, <3>2
  <2>3. PICK x \in {src.k, m} : x = Min({src.k, m}) /\ \A y \in {src.k, m} : x <= y
    BY <2>2 DEF Min
  <2> QED
    BY <2>1, <2>3
<1>4. NextPlatoon = [k |-> Min({src.k, m}) + 1, i |-> 1]
  BY <1>2 DEF NextPlatoon, Platoons
<1>5. NextPlatoon \in [k : Nat \ {0}, i : Nat \ {0}]
  BY <1>3, <1>4
<1>6. ASSUME NEW k \in Nat, NEW i \in Nat, IsBatch(input, k, i), Reaches(NextPlatoon, k, i)
      PROVE Reaches(src, k, i)
  <2>1. k \in 1 .. m
    BY <1>1, <1>2, <1>6 DEF IsBatch
  <2>2. NextPlatoon.k <= k
    BY <1>3, <1>4, <1>6 DEF Reaches
  <2>3. src.k \in Nat /\ src.k < k
    BY <1>1, <1>3, <1>4, <2>1, <2>2
  <2> QED
    BY <2>3 DEF Reaches
<1>7. Coming(input, NextPlatoon) \subseteq Coming(input, src)
  BY <1>6 DEF Coming
<1> QED
  BY <1>5, <1>7

(* The parent delivers a batch. *)
LEMMA NextBatch ==
  ASSUME GroupInv, More, NEW b, b = Platoons[src.k][src.i],
         NEW s, s = [src EXCEPT !.i = @ + 1]
  PROVE /\ s \in [k : Nat \ {0}, i : Nat \ {0}]
        /\ b \in Seq(Value)
        /\ Firsts(b) \cup Coming(input, s) \subseteq Coming(input, src)
        /\ input.dir # "none" => /\ ValuesRise(input.dir, b)
                                 /\ Upto(input.dir, Firsts(b), Coming(input, s))
<1>1. /\ input.platoons \in Seq(Seq(Seq(Value))) /\ src \in [k : Nat \ {0}, i : Nat \ {0}]
  BY PlatoonsType DEF GroupInv, Typed
<1>2. /\ s = [k |-> src.k, i |-> src.i + 1]
      /\ s \in [k : Nat \ {0}, i : Nat \ {0}]
      /\ s.k = src.k /\ s.i = src.i + 1 /\ src.k \in Nat /\ src.i \in Nat
  BY <1>1
<1>3. IsBatch(input, src.k, src.i) /\ b \in Seq(Value)
  <2>1. src.k \in 1 .. Len(input.platoons)
    BY <1>1 DEF More, Platoons
  <2>2. input.platoons[src.k] \in Seq(Seq(Value))
    BY <1>1, <2>1
  <2>3. src.i \in 1 .. Len(input.platoons[src.k])
    BY <1>1, <2>2 DEF More, Platoons
  <2> QED
    BY <1>1, <2>1, <2>2, <2>3 DEF IsBatch, Platoons
<1>4. Firsts(b) \subseteq Coming(input, src)
  <2> DEFINE p == <<src.k, src.i>>
  <2>1. p \in Nat \X Nat /\ IsBatch(input, p[1], p[2]) /\ Reaches(src, p[1], p[2])
    BY <1>1, <1>3 DEF Reaches
  <2>2. b = input.platoons[p[1]][p[2]]
    BY DEF Platoons
  <2> HIDE DEF p
  <2> QED
    BY <2>1, <2>2 DEF Coming
<1>5. \A k, i \in Nat : Reaches(s, k, i) => Reaches(src, k, i)
  BY <1>2 DEF Reaches
<1>6. Coming(input, s) \subseteq Coming(input, src)
  BY <1>5 DEF Coming
<1>7. input.dir # "none" => /\ ValuesRise(input.dir, b)
                            /\ Upto(input.dir, Firsts(b), Coming(input, s))
  BY <1>1, <1>2, <1>3 DEF GroupInv, SortedInput, InOrder, Platoons
<1> QED
  BY <1>2, <1>3, <1>4, <1>6, <1>7

LEMMA NoRows ==
  /\ IsRows(<<>>) /\ Keys(<<>>) = {} /\ Firsts(<<>>) = {} /\ <<>> \in Seq(Value)
  /\ \A d : Rising(d, <<>>) /\ ValuesRise(d, <<>>)
  /\ EOS.rows = <<>> /\ Err.rows = <<>>
<1>1. <<>> \in Seq(Value) /\ DOMAIN <<>> = {}
  OBVIOUS
<1>2. IsRows(<<>>) /\ Keys(<<>>) = {} /\ Firsts(<<>>) = {}
  BY <1>1 DEF IsRows, Keys, Firsts
<1>3. \A d : Rising(d, <<>>) /\ ValuesRise(d, <<>>)
  BY <1>1 DEF Rising, ValuesRise
<1> QED
  BY <1>1, <1>2, <1>3 DEF EOS, Err

LEMMA RowsJoined ==
  ASSUME NEW s, NEW t, IsRows(s), IsRows(t)
  PROVE /\ IsRows(s \o t)
        /\ Keys(s \o t) \subseteq Keys(s) \cup Keys(t)
        /\ \A d : Rising(d, s) /\ Rising(d, t) /\ Upto(d, Keys(s), Keys(t)) => Rising(d, s \o t)
<1>1. PICK R : s \in Seq(R) /\ t \in Seq(R)
  <2>1. PICK S, T : s \in Seq(S) /\ t \in Seq(T)
    BY DEF IsRows
  <2>2. s \in Seq(S \cup T) /\ t \in Seq(S \cup T)
    BY <2>1
  <2> QED
    BY <2>2
<1>2. /\ s \o t \in Seq(R)
      /\ DOMAIN s = 1 .. Len(s) /\ DOMAIN t = 1 .. Len(t) /\ Len(s) \in Nat /\ Len(t) \in Nat
      /\ DOMAIN (s \o t) = 1 .. Len(s) + Len(t)
      /\ \A i \in DOMAIN s : (s \o t)[i] = s[i]
      /\ \A i \in 1 .. Len(s) + Len(t) : i > Len(s) => (s \o t)[i] = t[i - Len(s)]
  BY <1>1
<1>3. \A i \in DOMAIN (s \o t) :
        \/ i \in DOMAIN s /\ (s \o t)[i] = s[i]
        \/ /\ i - Len(s) \in DOMAIN t /\ (s \o t)[i] = t[i - Len(s)]
           /\ i > Len(s)
  BY <1>2
<1> DEFINE u == s \o t
<1> HIDE DEF u
<1>4. IsRows(u)
  BY <1>2, <1>3 DEF IsRows, u
<1>5. Keys(u) \subseteq Keys(s) \cup Keys(t)
  BY <1>3 DEF Keys, u
<1>6. ASSUME NEW d, Rising(d, s), Rising(d, t), Upto(d, Keys(s), Keys(t)) PROVE Rising(d, u)
  <2> SUFFICES ASSUME NEW i \in DOMAIN u, NEW j \in DOMAIN u, i < j
               PROVE ~Below(d, u[j].key[1], u[i].key[1])
    BY DEF Rising
  <2>0. i \in Int /\ j \in Int
    BY <1>2 DEF u
  <2>1. CASE i \in DOMAIN s /\ j \in DOMAIN s
    BY <1>2, <1>6, <2>1 DEF Rising, u
  <2>2. CASE i \in DOMAIN s /\ j \notin DOMAIN s
    <3>1. u[i] = s[i] /\ u[j] = t[j - Len(s)] /\ j - Len(s) \in DOMAIN t
      BY <1>3, <2>2 DEF u
    <3>2. s[i].key[1] \in Keys(s) /\ t[j - Len(s)].key[1] \in Keys(t)
      BY <2>2, <3>1 DEF Keys
    <3> QED
      BY <1>6, <3>1, <3>2 DEF Upto
  <2>3. CASE i \notin DOMAIN s
    <3>1. /\ i - Len(s) \in DOMAIN t /\ u[i] = t[i - Len(s)]
          /\ j - Len(s) \in DOMAIN t /\ u[j] = t[j - Len(s)]
      BY <1>2, <1>3, <2>0, <2>3 DEF u
    <3>2. i - Len(s) < j - Len(s)
      BY <1>2, <2>0
    <3> QED
      BY <1>6, <3>1, <3>2 DEF Rising
  <2> QED
    BY <2>1, <2>2, <2>3
<1> QED
  BY <1>4, <1>5, <1>6 DEF u

(* What the client makes of a result. *)
LEMMA ReceivedEffect ==
  ASSUME IsClient(client), NEW res, IsRows(res.rows)
  PROVE /\ IsClient(Received(res))
        /\ Keys(Received(res).got) \subseteq Keys(client.got) \cup Keys(res.rows)
        /\ res.rows = <<>> => Received(res).got \in {client.got, <<>>}
        /\ \A d : Rising(d, client.got) /\ Rising(d, res.rows) /\ Upto(d, Keys(client.got), Keys(res.rows))
             => Rising(d, Received(res).got)
<1> DEFINE c == Received(res)
<1>1. DOMAIN c = {"pc", "platoon", "got"} /\ c.got \in {client.got, <<>>, client.got \o res.rows}
  BY DEF Received, IsClient
<1>2. res.rows = <<>> => c.got \in {client.got, <<>>}
  BY DEF Received, IsClient
<1> HIDE DEF c
<1>3. CASE c.got \in {client.got, <<>>}
  BY <1>1, <1>3, NoRows DEF IsClient, c
<1>4. CASE c.got = client.got \o res.rows /\ c.got \notin {client.got, <<>>}
  BY <1>1, <1>2, <1>4, RowsJoined DEF IsClient, c
<1> QED
  BY <1>1, <1>3, <1>4

(* Steps that at most drop something. *)
LEMMA StepKept ==
  ASSUME GroupInv, input' = input,
         src' \in {src, NextPlatoon},
         agg' \in {agg, Reset, Cleaned, SpillFailed(agg)},
         DOMAIN run' = DOMAIN run,
         run'.vals \in {run.vals, <<>>},
         run'.res = run.res \/ run'.res.rows = <<>>,
         DOMAIN client' = DOMAIN client,
         client'.got \in {client.got, <<>>},
         input.dir # "none" => Settled(agg', run')
  PROVE GroupInv'
<1>1. Typed(input, src, agg, run, client) /\ InSequence(input, src, agg, run, client)
  BY DEF GroupInv
<1>2. /\ IsAgg(agg') /\ agg'.maxTable = agg.maxTable
      /\ DOMAIN agg'.table \subseteq DOMAIN agg.table
      /\ \A g \in DOMAIN agg'.table : agg'.table[g] = agg.table[g]
      /\ agg'.spills \subseteq agg.spills
  <2>1. IsAgg(agg)
    BY <1>1 DEF Typed
  <2>2. CASE agg' = agg
    BY <2>1, <2>2
  <2>3. CASE agg' \in {Reset, Cleaned}
    BY <2>1, <2>3, ClearedEffect
  <2>4. CASE agg' = SpillFailed(agg)
    BY <2>1, <2>4, SpillFailedEffect
  <2> QED
    BY <2>2, <2>3, <2>4
<1>3. /\ src' \in [k : Nat \ {0}, i : Nat \ {0}]
      /\ Coming(input, src') \subseteq Coming(input, src)
  BY <1>1, NextPlatoonShrinks DEF Typed
<1>4. IsRun(run') /\ IsClient(client')
  BY <1>1, NoRows DEF Typed, IsRun, IsClient
<1>5. Typed(input, src', agg', run', client')
  BY <1>1, <1>2, <1>3, <1>4 DEF Typed
<1>6. InSequence(input, src', agg', run', client')
  <2> SUFFICES ASSUME input.dir # "none" PROVE InSequence(input, src', agg', run', client')
    BY DEF InSequence
  <2>1. Delivered(input.dir, run, client) /\ Consuming(input, src, run)
    BY <1>1 DEF InSequence
  <2>2. Keys(client'.got) \subseteq Keys(client.got) /\ Keys(run'.res.rows) \subseteq Keys(run.res.rows)
    BY NoRows
  <2>3. Delivered(input.dir, run', client')
    <3>1. Rising(input.dir, client'.got) /\ Rising(input.dir, run'.res.rows)
      BY <2>1, NoRows DEF Delivered
    <3>2. Upto(input.dir, Keys(client'.got), Keys(run'.res.rows))
      BY <2>1, <2>2 DEF Delivered, Upto
    <3> QED
      BY <3>1, <3>2 DEF Delivered
  <2>4. Firsts(run'.vals) \subseteq Firsts(run.vals) /\ ValuesRise(input.dir, run'.vals)
    BY <2>1, NoRows DEF Consuming
  <2>5. Onspill(agg') \subseteq Onspill(agg)
    BY <1>2 DEF Onspill
  <2> QED
    BY <1>1, <1>2, <1>3, <2>2, <2>3, <2>4, <2>5, Kept
<1> QED
  BY <1>5, <1>6, InvNext

LEMMA PullBatchKeeps ==
  ASSUME GroupInv, PullBatch PROVE GroupInv'
<1>1. Typed(input, src, agg, run, client) /\ InSequence(input, src, agg, run, client)
  BY DEF GroupInv
<1> DEFINE b == Platoons[src.k][src.i]
<1>2. /\ More /\ input' = input /\ agg' = agg /\ client' = client
      /\ src' = [src EXCEPT !.i = @ + 1]
      /\ run' = [run EXCEPT !.pc = "consume", !.vals = b]
  BY DEF PullBatch
<1> HIDE DEF b
<1>3. /\ src' \in [k : Nat \ {0}, i : Nat \ {0}]
      /\ b \in Seq(Value)
      /\ Firsts(b) \cup Coming(input, src') \subseteq Coming(input, src)
      /\ input.dir # "none" => /\ ValuesRise(input.dir, b)
                               /\ Upto(input.dir, Firsts(b), Coming(input, src'))
  BY <1>2, NextBatch DEF b
<1>4. /\ DOMAIN run' = DOMAIN run /\ run'.vals = b /\ run'.res = run.res
      /\ run'.pc = "consume"
  BY <1>1, <1>2 DEF Typed, IsRun
<1>5. Typed(input, src', agg', run', client')
  BY <1>1, <1>2, <1>3, <1>4 DEF Typed, IsRun
<1>6. InSequence(input, src', agg', run', client')
  <2> SUFFICES ASSUME input.dir # "none" PROVE InSequence(input, src', agg', run', client')
    BY DEF InSequence
  <2>1. /\ Delivered(input.dir, run', client') /\ Held(input.dir, agg', run', client')
        /\ Primaries(input.dir, agg')
    BY <1>1, <1>2, <1>4 DEF InSequence, Delivered, Held
  <2>2. Consuming(input, src', run')
    BY <1>3, <1>4 DEF Consuming
  <2>3. Ahead(input, src', run') \subseteq Ahead(input, src, run)
    BY <1>3, <1>4 DEF Ahead
  <2>4. Passed(input.dir, agg', run', client', Ahead(input, src', run'))
    <3>1. Passed(input.dir, agg', run', client', Ahead(input, src, run))
      BY <1>1, <1>2, <1>4 DEF InSequence, Passed
    <3> QED
      BY <2>3, <3>1 DEF Passed, Upto
  <2>5. Settled(agg', run')
    BY <1>4 DEF Settled, AtPull
  <2> QED
    BY <2>1, <2>2, <2>4, <2>5 DEF InSequence
<1> QED
  BY <1>2, <1>5, <1>6, InvNext

(* A value of a key that is already in order: what may become of the       *)
(* aggregator when v is consumed.                                          *)
Absorbed(a, v) ==
    /\ IsAgg(a)
    /\ v[1] = Quiet => a = agg
    /\ v[1] # Quiet /\ input.dir # "none" =>
        /\ a.maxTable = v[1]
        /\ Onspill(a) \cup Tabled(a) \subseteq Onspill(agg) \cup Tabled(agg) \cup {v[1]}
        /\ Upto(input.dir, Onspill(a), Tabled(a))
        /\ Primaries(input.dir, a)

LEMMA AbsorbedKeeps ==
  ASSUME GroupInv, run.vals # <<>>, run.pc = "consume",
         Absorbed(agg', Head(run.vals)),
         DOMAIN run' = DOMAIN run, run'.vals = Tail(run.vals), run'.res = run.res,
         run'.pc = run.pc,
         UNCHANGED <<input, src, client>>
  PROVE GroupInv'
<1> DEFINE v == Head(run.vals)
<1>1. Typed(input, src, agg, run, client) /\ InSequence(input, src, agg, run, client)
  BY DEF GroupInv
<1>2. /\ run.vals \in Seq(Value) /\ v \in Value /\ v = run.vals[1]
      /\ Tail(run.vals) \in Seq(Value)
      /\ DOMAIN run.vals = 1 .. Len(run.vals) /\ Len(run.vals) \in Nat /\ 1 \in DOMAIN run.vals
      /\ \A i \in DOMAIN Tail(run.vals) :
           i \in Nat /\ i + 1 \in DOMAIN run.vals /\ Tail(run.vals)[i] = run.vals[i + 1] /\ 1 < i + 1
  BY <1>1 DEF Typed, IsRun
<1>3. Firsts(run'.vals) \subseteq Firsts(run.vals)
  BY <1>2 DEF Firsts
<1>4. v[1] # Quiet => v[1] \in Firsts(run.vals)
  BY <1>2 DEF Firsts
<1> HIDE DEF v
<1>5. IsAgg(agg')
  BY DEF Absorbed
<1>6. Typed(input, src', agg', run', client')
  BY <1>1, <1>2, <1>5 DEF Typed, IsRun
<1>7. InSequence(input, src', agg', run', client')
  <2> SUFFICES ASSUME input.dir # "none" PROVE InSequence(input, src', agg', run', client')
    BY DEF InSequence
  <2>1. /\ Delivered(input.dir, run, client) /\ Held(input.dir, agg, run, client)
        /\ Consuming(input, src, run) /\ Primaries(input.dir, agg)
        /\ Passed(input.dir, agg, run, client, Ahead(input, src, run))
    BY <1>1 DEF InSequence
  <2>2. Delivered(input.dir, run', client')
    BY <2>1 DEF Delivered
  <2>3. Settled(agg', run')
    BY DEF Settled, AtPull
  <2>4. ValuesRise(input.dir, run'.vals)
    <3> SUFFICES ASSUME NEW i \in DOMAIN Tail(run.vals), NEW j \in DOMAIN Tail(run.vals), i < j,
                        Tail(run.vals)[i][1] # Quiet, Tail(run.vals)[j][1] # Quiet
                 PROVE ~Below(input.dir, Tail(run.vals)[j][1], Tail(run.vals)[i][1])
      BY DEF ValuesRise
    <3>1. i + 1 < j + 1
      BY <1>2
    <3> QED
      BY <1>2, <2>1, <3>1 DEF Consuming, ValuesRise
  <2>5. CASE v[1] = Quiet
    <3>1. agg' = agg
      BY <2>5 DEF Absorbed, v
    <3> QED
      BY <1>1, <1>3, <2>2, <2>3, <2>4, <3>1, Kept
  <2>6. CASE v[1] # Quiet
    <3>1. /\ agg'.maxTable = v[1]
          /\ Onspill(agg') \cup Tabled(agg') \subseteq Onspill(agg) \cup Tabled(agg) \cup {v[1]}
          /\ Upto(input.dir, Onspill(agg'), Tabled(agg'))
          /\ Primaries(input.dir, agg')
      BY <2>6 DEF Absorbed, v
    <3>2. v[1] \in Ahead(input, src, run)
      BY <1>4, <2>6 DEF Ahead
    <3>3. Upto(input.dir, {v[1]}, Ahead(input, src', run'))
      <4>1. Upto(input.dir, {v[1]}, Coming(input, src))
        BY <1>4, <2>1, <2>6 DEF Consuming, Upto
      <4>2. ASSUME NEW i \in DOMAIN Tail(run.vals), Tail(run.vals)[i][1] # Quiet
            PROVE ~Below(input.dir, Tail(run.vals)[i][1], v[1])
        BY <1>2, <2>1, <2>6, <4>2 DEF Consuming, ValuesRise
      <4>3. Upto(input.dir, {v[1]}, Firsts(run'.vals))
        BY <4>2 DEF Firsts, Upto
      <4> QED
        BY <4>1, <4>3 DEF Ahead, Upto
    <3>4. Ahead(input, src', run') \subseteq Ahead(input, src, run)
      BY <1>3 DEF Ahead
    <3>5. Held(input.dir, agg', run', client')
      <4>1. Upto(input.dir, Keys(client.got) \cup Keys(run.res.rows), {v[1]})
        BY <2>1, <3>2 DEF Passed, Upto
      <4>2. Upto(input.dir, Keys(client.got) \cup Keys(run.res.rows), Onspill(agg') \cup Tabled(agg'))
        BY <2>1, <3>1, <4>1 DEF Held, Upto
      <4> QED
        BY <3>1, <4>2 DEF Held
    <3>6. Consuming(input, src', run')
      BY <1>3, <2>1, <2>4 DEF Consuming, Upto
    <3>7. Passed(input.dir, agg', run', client', Ahead(input, src', run'))
      <4>1. Upto(input.dir, Keys(client.got) \cup Keys(run.res.rows) \cup Onspill(agg) \cup Tabled(agg),
                 Ahead(input, src', run'))
        BY <2>1, <3>4 DEF Passed, Upto
      <4>2. Upto(input.dir, Keys(client.got) \cup Keys(run.res.rows) \cup Onspill(agg') \cup Tabled(agg'),
                 Ahead(input, src', run'))
        BY <3>1, <3>3, <4>1 DEF Upto
      <4> QED
        BY <3>1, <3>3, <4>2 DEF Passed
    <3> QED
      BY <2>2, <2>3, <3>1, <3>5, <3>6, <3>7 DEF InSequence
  <2> QED
    BY <2>5, <2>6
<1> QED
  BY <1>6, <1>7, InvNext

LEMMA AddedInOrder ==
  ASSUME NEW a, IsAgg(a), NEW v \in Value, NEW d,
         a.maxTable = v[1], v[1] # Quiet,
         Upto(d, Onspill(a), Tabled(a)), Upto(d, Onspill(a) \cup Tabled(a), {v[1]}),
         Primaries(d, a)
  PROVE LET b == Added(a, v)
        IN  /\ b.maxTable = v[1]
            /\ Onspill(b) = Onspill(a) /\ Tabled(b) = Tabled(a) \cup {v[1]}
            /\ Upto(d, Onspill(b), Tabled(b))
            /\ Primaries(d, b)
<1> DEFINE b == Added(a, v)
           g == Group(v)
<1>1. /\ DOMAIN b.table = DOMAIN a.table \cup {g}
      /\ \A h \in DOMAIN a.table : b.table[h].prim = a.table[h].prim
      /\ g \notin DOMAIN a.table => b.table[g].prim = a.maxTable
      /\ b.spills = a.spills /\ b.maxTable = a.maxTable
  BY AddedEffect
<1> HIDE DEF b
<1>2. g[1] = v[1] /\ v[1] \in Int
  BY DEF Group, Value
<1> HIDE DEF g
<1>3. Onspill(b) = Onspill(a) /\ Tabled(b) = Tabled(a) \cup {v[1]}
  BY <1>1, <1>2 DEF Onspill, Tabled
<1>4. Upto(d, Onspill(b), Tabled(b))
  BY <1>3 DEF Upto
<1>5. ASSUME NEW h \in DOMAIN b.table
      PROVE b.table[h].prim = h[1] /\ h[1] # Nil /\ ~Below(d, b.maxTable, h[1])
  <2>1. CASE h \in DOMAIN a.table
    BY <1>1, <2>1 DEF Primaries
  <2>2. CASE h \notin DOMAIN a.table
    <3>1. h = g /\ b.table[h].prim = v[1] /\ h[1] = v[1]
      BY <1>1, <1>2, <2>2
    <3> QED
      BY <1>1, <1>2, <3>1 DEF Below, Nil, Quiet
  <2> QED
    BY <2>1, <2>2
<1>6. Primaries(d, b)
  BY <1>5 DEF Primaries
<1> QED
  BY <1>1, <1>3, <1>4, <1>6 DEF b

(* The value at the head of the batch, and the aggregator that has seen it. *)
LEMMA SeenInOrder ==
  ASSUME GroupInv, run.vals # <<>>, NEW v, v = Head(run.vals), v[1] # Quiet, input.dir # "none"
  PROVE /\ Seen(v).maxTable = v[1]
        /\ Onspill(Seen(v)) = Onspill(agg) /\ Tabled(Seen(v)) = Tabled(agg)
        /\ Upto(input.dir, Onspill(Seen(v)), Tabled(Seen(v)))
        /\ Upto(input.dir, Onspill(Seen(v)) \cup Tabled(Seen(v)), {v[1]})
        /\ Primaries(input.dir, Seen(v))
        /\ Upto(input.dir, {v[1]}, Ahead(input, src, run))
<1>1. Typed(input, src, agg, run, client) /\ InSequence(input, src, agg, run, client)
  BY DEF GroupInv
<1>2. /\ Held(input.dir, agg, run, client) /\ Primaries(input.dir, agg)
      /\ Passed(input.dir, agg, run, client, Ahead(input, src, run))
      /\ Consuming(input, src, run)
  BY <1>1 DEF InSequence
<1>3. /\ v \in Value /\ v[1] \in Int /\ v = run.vals[1]
      /\ DOMAIN run.vals = 1 .. Len(run.vals) /\ 1 \in DOMAIN run.vals
      /\ v[1] \in Firsts(run.vals)
  <2>1. /\ run.vals \in Seq(Value) /\ v = run.vals[1] /\ v \in Value
        /\ DOMAIN run.vals = 1 .. Len(run.vals) /\ 1 \in DOMAIN run.vals
    BY <1>1 DEF Typed, IsRun
  <2> QED
    BY <2>1 DEF Firsts, Value
<1>4. v[1] \in Ahead(input, src, run)
  BY <1>3 DEF Ahead
<1>5. agg.maxTable # Nil => Upto(input.dir, {agg.maxTable}, {v[1]})
  BY <1>2, <1>4 DEF Passed, Upto
<1>6. /\ Seen(v).table = agg.table /\ Seen(v).spills = agg.spills
      /\ Seen(v).maxTable = v[1]
  BY <1>1, <1>3, <1>5, SeenEffect DEF Typed
<1>7. Onspill(Seen(v)) = Onspill(agg) /\ Tabled(Seen(v)) = Tabled(agg)
  BY <1>6 DEF Onspill, Tabled
<1>8. Upto(input.dir, Onspill(agg) \cup Tabled(agg), {v[1]})
  BY <1>2, <1>4 DEF Passed, Upto
<1>9. Primaries(input.dir, Seen(v))
  <2> SUFFICES ASSUME NEW g \in DOMAIN agg.table
               PROVE agg.table[g].prim = g[1] /\ g[1] # Nil /\ ~Below(input.dir, v[1], g[1])
    BY <1>6 DEF Primaries
  <2>1. g[1] \in Tabled(agg)
    BY DEF Tabled
  <2> QED
    BY <1>2, <1>8, <2>1 DEF Primaries, Upto
<1>10. Upto(input.dir, {v[1]}, Ahead(input, src, run))
  <2>1. ASSUME NEW i \in DOMAIN run.vals, run.vals[i][1] # Quiet
        PROVE ~Below(input.dir, run.vals[i][1], v[1])
    <3>1. CASE i = 1
      BY <1>3, <3>1 DEF Below
    <3>2. CASE i # 1
      <4>1. 1 < i
        BY <1>3, <3>2
      <4> QED
        BY <1>2, <1>3, <2>1, <4>1 DEF Consuming, ValuesRise
    <3> QED
      BY <3>1, <3>2
  <2>2. Upto(input.dir, {v[1]}, Firsts(run.vals))
    BY <2>1 DEF Firsts, Upto
  <2> QED
    BY <1>2, <1>3, <2>2 DEF Ahead, Upto, Consuming
<1> QED
  BY <1>2, <1>6, <1>7, <1>8, <1>9, <1>10 DEF Held

LEMMA ConsumeKeeps ==
  ASSUME GroupInv, Consume PROVE GroupInv'
<1> DEFINE v == Head(run.vals)
           a == Seen(v)
<1>1. Typed(input, src, agg, run, client)
  BY DEF GroupInv
<1>2. /\ run.pc = "consume" /\ run.vals # <<>>
      /\ run' = [run EXCEPT !.vals = Tail(@)]
      /\ UNCHANGED <<input, src, client>>
  BY DEF Consume
<1>3. /\ DOMAIN run' = DOMAIN run /\ run'.vals = Tail(run.vals) /\ run'.res = run.res
      /\ run'.pc = run.pc
  BY <1>1, <1>2 DEF Typed, IsRun
<1>4. IsAgg(agg) /\ v \in Value /\ v[1] \in Int
  <2>1. run.vals \in Seq(Value)
    BY <1>1 DEF Typed, IsRun
  <2> QED
    BY <1>1, <1>2, <2>1 DEF Typed, Value
<1>5. /\ IsAgg(a) /\ a.table = agg.table /\ a.spills = agg.spills
  BY <1>4, SeenEffect
<1>6. \/ agg' = a /\ (v[1] = Quiet \/ v[2] = Quiet)
      \/ agg' = Added(a, v) /\ v[1] # Quiet
      \/ /\ v[1] # Quiet
         /\ \E g \in DOMAIN agg.table :
              agg' = Added(Spilled(a, IF input.dir = "none" THEN Nil ELSE g[1]), v)
  BY DEF Consume
<1> HIDE DEF a
<1>7. v[1] # Quiet /\ input.dir # "none" =>
        /\ a.maxTable = v[1]
        /\ Onspill(a) = Onspill(agg) /\ Tabled(a) = Tabled(agg)
        /\ Upto(input.dir, Onspill(a), Tabled(a))
        /\ Upto(input.dir, Onspill(a) \cup Tabled(a), {v[1]})
        /\ Primaries(input.dir, a)
  BY <1>2, SeenInOrder DEF a
<1> HIDE DEF v
<1>8. Absorbed(agg', v)
  <2>1. CASE agg' = a /\ (v[1] = Quiet \/ v[2] = Quiet)
    <3>1. v[1] = Quiet => a = agg
      BY DEF a, Seen
    <3> QED
      BY <1>5, <1>7, <2>1, <3>1 DEF Absorbed
  <2>2. CASE agg' = Added(a, v) /\ v[1] # Quiet
    <3>1. IsAgg(agg')
      BY <1>4, <1>5, <2>2, AddedEffect
    <3>2. input.dir # "none" =>
            /\ agg'.maxTable = v[1]
            /\ Onspill(agg') = Onspill(a) /\ Tabled(agg') = Tabled(a) \cup {v[1]}
            /\ Upto(input.dir, Onspill(agg'), Tabled(agg'))
            /\ Primaries(input.dir, agg')
      BY <1>4, <1>5, <1>7, <2>2, AddedInOrder
    <3> QED
      BY <1>7, <2>2, <3>1, <3>2 DEF Absorbed
  <2>3. CASE v[1] # Quiet /\ \E g \in DOMAIN agg.table :
                agg' = Added(Spilled(a, IF input.dir = "none" THEN Nil ELSE g[1]), v)
    <3>1. PICK last \in Int : agg' = Added(Spilled(a, last), v)
      <4>1. PICK g \in DOMAIN agg.table :
              agg' = Added(Spilled(a, IF input.dir = "none" THEN Nil ELSE g[1]), v)
        BY <2>3
      <4>2. g[1] \in Int /\ Nil \in Int
        BY <1>4 DEF IsAgg, Nil
      <4>3. (IF input.dir = "none" THEN Nil ELSE g[1]) \in Int
        BY <4>2
      <4> QED
        BY <4>1, <4>3
    <3> DEFINE b == Spilled(a, last)
    <3>2. /\ IsAgg(b) /\ DOMAIN b.table = {} /\ Onspill(b) = Onspill(a) \cup Tabled(a)
          /\ b.maxTable = a.maxTable
      BY <1>5, SpilledEffect
    <3> HIDE DEF b
    <3>3. agg' = Added(b, v)
      BY <3>1 DEF b
    <3>4. IsAgg(agg')
      BY <1>4, <3>2, <3>3, AddedEffect
    <3>5. Tabled(b) = {} /\ \A d : Primaries(d, b) /\ Upto(d, Onspill(b), Tabled(b))
      BY <3>2 DEF Tabled, Primaries, Upto
    <3>6. input.dir # "none" => Upto(input.dir, Onspill(b) \cup Tabled(b), {v[1]})
      BY <1>7, <2>3, <3>2, <3>5
    <3>7. input.dir # "none" =>
            /\ agg'.maxTable = v[1]
            /\ Onspill(agg') = Onspill(b) /\ Tabled(agg') = Tabled(b) \cup {v[1]}
            /\ Upto(input.dir, Onspill(agg'), Tabled(agg'))
            /\ Primaries(input.dir, agg')
      BY <1>4, <1>7, <2>3, <3>2, <3>3, <3>5, <3>6, AddedInOrder
    <3> QED
      BY <1>7, <2>3, <3>2, <3>4, <3>5, <3>7 DEF Absorbed
  <2> QED
    BY <1>6, <2>1, <2>2, <2>3
<1> QED
  BY <1>2, <1>3, <1>8, AbsorbedKeeps DEF v

LEMMA ConsumeFailsKeeps ==
  ASSUME GroupInv, ConsumeFails PROVE GroupInv'
<1> DEFINE v == Head(run.vals)
           a == Seen(v)
<1>1. Typed(input, src, agg, run, client) /\ InSequence(input, src, agg, run, client)
  BY DEF GroupInv
<1>2. /\ run.vals # <<>> /\ v[1] # Quiet
      /\ agg' = SpillFailed(a)
      /\ run' = [run EXCEPT !.pc = "send", !.res = Err, !.next = "exit"]
      /\ input' = input /\ src' = src /\ client' = client
  BY DEF ConsumeFails, Offer
<1>3. /\ DOMAIN run' = DOMAIN run /\ run'.vals = run.vals /\ run'.res.rows = <<>>
      /\ run'.pc = "send" /\ run'.next = "exit"
  BY <1>1, <1>2, NoRows DEF Typed, IsRun
<1>4. IsAgg(agg) /\ v \in Value
  <2>1. run.vals \in Seq(Value)
    BY <1>1 DEF Typed, IsRun
  <2> QED
    BY <1>1, <1>2, <2>1 DEF Typed
<1>5. /\ IsAgg(a) /\ a.table = agg.table /\ a.spills = agg.spills
  BY <1>4, SeenEffect
<1>6. input.dir # "none" => a.maxTable = v[1] /\ Upto(input.dir, {v[1]}, Ahead(input, src, run))
  BY <1>2, SeenInOrder
<1> HIDE DEF a, v
<1>7. /\ IsAgg(agg') /\ DOMAIN agg'.table = {} /\ agg'.spills = agg.spills
      /\ agg'.maxTable = a.maxTable
  BY <1>2, <1>5, SpillFailedEffect
<1>8. Typed(input, src', agg', run', client')
  BY <1>1, <1>2, <1>3, <1>7, NoRows DEF Typed, IsRun
<1>9. InSequence(input, src', agg', run', client')
  <2> SUFFICES ASSUME input.dir # "none" PROVE InSequence(input, src', agg', run', client')
    BY DEF InSequence
  <2>1. /\ Delivered(input.dir, run, client) /\ Held(input.dir, agg, run, client)
        /\ Consuming(input, src, run)
        /\ Passed(input.dir, agg, run, client, Ahead(input, src, run))
    BY <1>1 DEF InSequence
  <2>2. Tabled(agg') = {} /\ Onspill(agg') = Onspill(agg) /\ Keys(run'.res.rows) = {}
    BY <1>3, <1>7, NoRows DEF Tabled, Onspill
  <2>3. Ahead(input, src', run') = Ahead(input, src, run)
    BY <1>2, <1>3 DEF Ahead
  <2>4. Delivered(input.dir, run', client')
    BY <1>2, <1>3, <2>1, <2>2, NoRows DEF Delivered, Upto
  <2>5. Held(input.dir, agg', run', client')
    BY <1>2, <2>1, <2>2 DEF Held, Upto
  <2>6. Consuming(input, src', run')
    BY <1>2, <1>3, <2>1 DEF Consuming
  <2>7. Passed(input.dir, agg', run', client', Ahead(input, src', run'))
    <3>1. Upto(input.dir, Keys(client.got) \cup Onspill(agg), Ahead(input, src, run))
      BY <2>1 DEF Passed, Upto
    <3>2. Keys(client'.got) \cup Keys(run'.res.rows) \cup Onspill(agg') \cup Tabled(agg')
            = Keys(client.got) \cup Onspill(agg)
      BY <1>2, <2>2
    <3> QED
      BY <1>6, <1>7, <2>3, <3>1, <3>2 DEF Passed
  <2>8. Primaries(input.dir, agg') /\ Settled(agg', run')
    BY <1>3, <1>7 DEF Primaries, Settled, AtPull
  <2> QED
    BY <2>4, <2>5, <2>6, <2>7, <2>8 DEF InSequence
<1> QED
  BY <1>2, <1>8, <1>9, InvNext

(* Spills. *)
LEMMA SpilledKeeps ==
  ASSUME GroupInv, NEW a, a = Spilled(agg, Nil)
  PROVE IsAgg(a) /\ a.spiller = TRUE /\ InSequence(input, src, a, run, client)
<1>1. Typed(input, src, agg, run, client) /\ InSequence(input, src, agg, run, client)
  BY DEF GroupInv
<1>2. /\ IsAgg(a) /\ DOMAIN a.table = {} /\ Onspill(a) = Onspill(agg) \cup Tabled(agg)
      /\ a.maxTable = agg.maxTable /\ a.spiller = TRUE
  <2>1. Nil \in Int /\ IsAgg(agg)
    BY <1>1 DEF Typed, Nil
  <2> QED
    BY <2>1, SpilledEffect
<1>3. Tabled(a) = {}
  BY <1>2 DEF Tabled
<1>4. ASSUME input.dir # "none" PROVE InSequence(input, src, a, run, client)
  <2>1. Held(input.dir, a, run, client)
    BY <1>1, <1>2, <1>3, <1>4 DEF InSequence, Held, Upto
  <2>2. Passed(input.dir, a, run, client, Ahead(input, src, run))
    <3>1. Keys(client.got) \cup Keys(run.res.rows) \cup Onspill(a) \cup Tabled(a)
            = Keys(client.got) \cup Keys(run.res.rows) \cup Onspill(agg) \cup Tabled(agg)
      BY <1>2, <1>3
    <3> QED
      BY <1>1, <1>2, <1>4, <3>1 DEF InSequence, Passed
  <2>3. Primaries(input.dir, a) /\ Settled(a, run)
    BY <1>2 DEF Primaries, Settled
  <2> QED
    BY <1>1, <1>4, <2>1, <2>2, <2>3 DEF InSequence
<1> QED
  BY <1>2, <1>4 DEF InSequence

LEMMA ReadKeeps ==
  ASSUME GroupInv, NEW a, IsAgg(a), a.spiller = TRUE, InSequence(input, src, a, run, client),
         NEW below \in BOOLEAN, NEW rows \in ReadSpills(a, below),
         agg' = Taken(a, rows),
         DOMAIN run' = DOMAIN run, run'.vals = run.vals,
         run'.res.rows = rows \/ (rows = <<>> /\ run'.res = run.res),
         UNCHANGED <<input, src, client>>
  PROVE GroupInv'
<1>1. Typed(input, src, agg, run, client)
  BY DEF GroupInv
<1>2. /\ IsRows(rows) /\ Rising(input.dir, rows) /\ Keys(rows) \subseteq Onspill(a)
      /\ Upto(input.dir, Keys(rows), Onspill(agg'))
  BY SpillsInOrder
<1>3. /\ IsAgg(agg') /\ agg'.table = a.table /\ agg'.spills \subseteq a.spills
      /\ agg'.maxTable = a.maxTable /\ agg'.spiller = TRUE
  BY TakenEffect
<1>4. Typed(input, src', agg', run', client')
  BY <1>1, <1>2, <1>3 DEF Typed, IsRun
<1>5. InSequence(input, src', agg', run', client')
  <2> SUFFICES ASSUME input.dir # "none" PROVE InSequence(input, src', agg', run', client')
    BY DEF InSequence
  <2>1. /\ Held(input.dir, a, run, client) /\ Primaries(input.dir, a)
        /\ Delivered(input.dir, run, client) /\ Consuming(input, src, run)
    BY DEF InSequence
  <2>2. Onspill(agg') \subseteq Onspill(a) /\ Tabled(agg') = Tabled(a)
    BY <1>3 DEF Onspill, Tabled
  <2>3. Settled(agg', run')
    BY <1>3 DEF Settled
  <2>4. CASE run'.res.rows = rows
    <3>1. Upto(input.dir, Onspill(agg'), Tabled(agg'))
      BY <2>1, <2>2 DEF Held, Upto
    <3>2. Upto(input.dir, Keys(rows), Onspill(agg') \cup Tabled(agg'))
      BY <1>2, <2>1, <2>2 DEF Held, Upto
    <3>3. Primaries(input.dir, agg')
      BY <1>3, <2>1 DEF Primaries
    <3>4. /\ Keys(run'.res.rows) \subseteq Onspill(a) \cup Tabled(a)
          /\ Onspill(agg') \cup Tabled(agg') \subseteq Onspill(a) \cup Tabled(a)
          /\ Rising(input.dir, run'.res.rows)
          /\ Upto(input.dir, Keys(run'.res.rows), Onspill(agg') \cup Tabled(agg'))
      BY <1>2, <2>2, <2>4, <3>2
    <3>5. InSequence(input, src, agg', run', client)
      BY <1>3, <2>3, <3>1, <3>3, <3>4, Offered
    <3> QED
      BY <3>5
  <2>5. CASE run'.res = run.res
    <3>1. Delivered(input.dir, run', client')
      BY <2>1, <2>5 DEF Delivered
    <3>2. ValuesRise(input.dir, run'.vals)
      BY <2>1 DEF Consuming
    <3> QED
      BY <1>3, <2>2, <2>3, <2>5, <3>1, <3>2, Kept
  <2> QED
    BY <2>4, <2>5
<1> QED
  BY <1>4, <1>5, InvNext

(* Groups of the table. *)
LEMMA EmitKeeps ==
  ASSUME GroupInv, ~agg.spiller, NEW gs \in SUBSET DOMAIN agg.table,
         NEW rows, IsRows(rows), \A i \in DOMAIN rows : rows[i].key \in gs,
         input.dir # "none" =>
             /\ Rising(input.dir, rows)
             /\ \A g \in gs, h \in DOMAIN agg.table \ gs : ~Below(input.dir, h[1], g[1]),
         agg' = Without(gs),
         DOMAIN run' = DOMAIN run, run'.vals = run.vals, run'.res.rows = rows,
         input.dir # "none" => Settled(agg', run'),
         UNCHANGED <<input, src, client>>
  PROVE GroupInv'
<1>1. Typed(input, src, agg, run, client) /\ InSequence(input, src, agg, run, client)
  BY DEF GroupInv
<1>2. /\ IsAgg(agg') /\ DOMAIN agg'.table = DOMAIN agg.table \ gs
      /\ \A g \in DOMAIN agg'.table : agg'.table[g] = agg.table[g]
      /\ agg'.spills = {} /\ agg'.maxTable = agg.maxTable
  <2>1. IsAgg(agg) /\ agg.spills = {}
    BY <1>1 DEF Typed, IsAgg
  <2> QED
    BY <2>1, WithoutEffect
<1>3. Typed(input, src', agg', run', client')
  BY <1>1, <1>2 DEF Typed, IsRun
<1>4. ASSUME input.dir # "none" PROVE InSequence(input, src, agg', run', client)
  <2>1. Onspill(agg') = {} /\ Tabled(agg') \subseteq Tabled(agg)
    BY <1>2 DEF Onspill, Tabled
  <2>2. Keys(run'.res.rows) \subseteq Tabled(agg)
    BY DEF Keys, Tabled
  <2>3. Upto(input.dir, Keys(run'.res.rows), Onspill(agg') \cup Tabled(agg'))
    <3> SUFFICES ASSUME NEW i \in DOMAIN rows, NEW h \in DOMAIN agg'.table
                 PROVE ~Below(input.dir, h[1], rows[i].key[1])
      BY <2>1 DEF Upto, Keys, Tabled
    <3> QED
      BY <1>2, <1>4
  <2>4. Upto(input.dir, Onspill(agg'), Tabled(agg'))
    BY <2>1 DEF Upto
  <2>5. Primaries(input.dir, agg')
    BY <1>1, <1>2, <1>4 DEF InSequence, Primaries
  <2>6. /\ Keys(run'.res.rows) \subseteq Onspill(agg) \cup Tabled(agg)
        /\ Onspill(agg') \cup Tabled(agg') \subseteq Onspill(agg) \cup Tabled(agg)
    BY <2>1, <2>2
  <2> QED
    BY <1>1, <1>2, <1>4, <2>3, <2>4, <2>5, <2>6, Offered
<1>5. InSequence(input, src', agg', run', client')
  BY <1>4 DEF InSequence
<1> QED
  BY <1>3, <1>5, InvNext

LEMMA EarlyKeeps ==
  ASSUME GroupInv, Early PROVE GroupInv'
<1>1. Typed(input, src, agg, run, client) /\ InSequence(input, src, agg, run, client)
  BY DEF GroupInv
<1>2. /\ IsAgg(agg) /\ DOMAIN run = {"pc", "vals", "res", "next"}
  BY <1>1 DEF Typed, IsRun
<1>3. UNCHANGED <<input, src, client>>
  BY DEF Early
<1>4. CASE agg.spiller
  <2>1. PICK rows \in ReadSpills(agg, TRUE) :
          /\ agg' = Taken(agg, rows)
          /\ IF rows = <<>> THEN Goto("pull") ELSE Offer(Batch(rows), "early")
    BY <1>4 DEF Early
  <2>2. /\ DOMAIN run' = DOMAIN run /\ run'.vals = run.vals
        /\ run'.res.rows = rows \/ (rows = <<>> /\ run'.res = run.res)
    <3>1. CASE rows = <<>>
      BY <1>2, <2>1, <3>1 DEF Goto
    <3>2. CASE rows # <<>>
      <4>1. Offer(Batch(rows), "early")
        BY <2>1, <3>2
      <4>2. run' = [run EXCEPT !.pc = "send", !.res = Batch(rows), !.next = "early"]
        BY <4>1 DEF Offer
      <4>3. run'.res = Batch(rows) /\ DOMAIN run' = DOMAIN run /\ run'.vals = run.vals
        BY <1>2, <4>2
      <4> QED
        BY <4>3 DEF Batch
    <3> QED
      BY <3>1, <3>2
  <2> QED
    BY <1>1, <1>2, <1>3, <1>4, <2>1, <2>2, ReadKeeps
<1>5. CASE ~agg.spiller
  <2> DEFINE gs == {g \in DOMAIN agg.table : Before(agg.table[g].prim, agg.maxTable)}
  <2>1. /\ agg' = Without(gs)
        /\ IF gs = {} THEN Goto("pull") ELSE \E s \in EarlyRows(gs) : Offer(Batch(s), "early")
    BY <1>5 DEF Early
  <2>2. input.dir # "none" =>
          \A g \in DOMAIN agg.table : /\ g[1] \in Int /\ agg.table[g].prim = g[1]
                                      /\ ~Below(input.dir, agg.maxTable, g[1])
    BY <1>1, <1>2 DEF InSequence, Primaries, IsAgg
  <2>3. agg.maxTable \in Int /\ IsFiniteSet(DOMAIN agg.table) /\ DOMAIN agg.table \subseteq Int \X Int
    BY <1>2 DEF IsAgg
  <2>4. CASE gs = {}
    <3>1. /\ DOMAIN run' = DOMAIN run /\ run'.vals = run.vals /\ run'.res = run.res
      BY <1>2, <2>1, <2>4 DEF Goto
    <3>2. /\ IsAgg(agg') /\ DOMAIN agg'.table = DOMAIN agg.table
          /\ \A g \in DOMAIN agg.table : agg'.table[g] = agg.table[g]
          /\ agg'.spills = agg.spills /\ agg'.maxTable = agg.maxTable
      <4>1. gs \in SUBSET DOMAIN agg.table
        OBVIOUS
      <4> QED
        BY <1>2, <2>1, <2>4, <4>1, WithoutEffect
    <3>3. ASSUME input.dir # "none" PROVE Settled(agg', run')
      <4> SUFFICES ASSUME NEW g \in DOMAIN agg.table PROVE g[1] = agg.maxTable
        BY <3>2 DEF Settled
      <4>1. ~Before(agg.table[g].prim, agg.maxTable)
        BY <2>4
      <4> QED
        BY <2>2, <2>3, <3>3, <4>1 DEF Before, Below
    <3>4. Typed(input, src', agg', run', client')
      BY <1>1, <1>3, <3>1, <3>2 DEF Typed, IsRun
    <3>5. ASSUME input.dir # "none" PROVE InSequence(input, src', agg', run', client')
      <4>1. Delivered(input.dir, run', client') /\ ValuesRise(input.dir, run'.vals)
        BY <1>1, <1>3, <3>1, <3>5 DEF InSequence, Delivered, Consuming
      <4>2. Onspill(agg') = Onspill(agg)
        BY <3>2 DEF Onspill
      <4> QED
        BY <1>1, <1>3, <3>1, <3>2, <3>3, <3>5, <4>1, <4>2, Kept
    <3>6. InSequence(input, src', agg', run', client')
      BY <1>3, <3>5 DEF InSequence
    <3> QED
      BY <1>3, <3>4, <3>6, InvNext
  <2>5. CASE gs # {}
    <3>1. PICK s \in EarlyRows(gs) : Offer(Batch(s), "early")
      BY <2>1, <2>5
    <3>2. /\ DOMAIN run' = DOMAIN run /\ run'.vals = run.vals /\ run'.res.rows = s
          /\ run'.pc = "send" /\ run'.next = "early"
      BY <1>2, <3>1 DEF Offer, Batch
    <3>3. s \in SetToSeqs(Rows(gs)) /\ SortedByPrimary(s)
      BY DEF EarlyRows
    <3>4. Rising(input.dir, s)
      BY <3>3 DEF SortedByPrimary, Rising, Before, Below
    <3>5. gs \in SUBSET DOMAIN agg.table /\ IsFiniteSet(gs)
      BY <2>3, FS_Subset
    <3>6. input.dir # "none" =>
            \A g \in gs, h \in DOMAIN agg.table \ gs : ~Below(input.dir, h[1], g[1])
      <4> SUFFICES ASSUME input.dir # "none", NEW g \in gs, NEW h \in DOMAIN agg.table \ gs
                   PROVE ~Below(input.dir, h[1], g[1])
        OBVIOUS
      <4>1. Before(agg.table[g].prim, agg.maxTable) /\ ~Before(agg.table[h].prim, agg.maxTable)
        OBVIOUS
      <4> QED
        BY <2>2, <2>3, <4>1 DEF Before, Below
    <3> HIDE DEF gs
    <3>7. IsRows(s) /\ \A i \in DOMAIN s : s[i].key \in gs
      BY <2>3, <3>3, <3>5, RowsListing
    <3>8. Settled(agg', run')
      BY <3>2 DEF Settled, AtPull
    <3> QED
      BY <1>3, <1>5, <2>1, <3>2, <3>4, <3>5, <3>6, <3>7, <3>8, EmitKeeps
  <2> QED
    BY <2>4, <2>5
<1> QED
  BY <1>4, <1>5

LEMMA FinalKeeps ==
  ASSUME GroupInv, Final PROVE GroupInv'
<1>1. Typed(input, src, agg, run, client) /\ InSequence(input, src, agg, run, client)
  BY DEF GroupInv
<1>2. /\ IsAgg(agg) /\ DOMAIN run = {"pc", "vals", "res", "next"}
  BY <1>1 DEF Typed, IsRun
<1>3. run.pc = "final" /\ UNCHANGED <<input, src, client>>
  BY DEF Final
<1>4. CASE agg.spiller
  <2> DEFINE a == IF DOMAIN agg.table = {} THEN agg ELSE Spilled(agg, Nil)
  <2>1. PICK rows \in ReadSpills(a, FALSE) :
          /\ agg' = Taken(a, rows)
          /\ Offer(Batch(rows), IF rows = <<>> THEN "pull" ELSE "final")
    BY <1>4 DEF Final
  <2>2. DOMAIN run' = DOMAIN run /\ run'.vals = run.vals /\ run'.res.rows = rows
    BY <1>2, <2>1 DEF Offer, Batch
  <2>3. IsAgg(a) /\ a.spiller = TRUE /\ InSequence(input, src, a, run, client)
    BY <1>1, <1>2, <1>4, SpilledKeeps
  <2> HIDE DEF a
  <2> QED
    BY <1>3, <2>1, <2>2, <2>3, ReadKeeps
<1>5. CASE ~agg.spiller
  <2>1. /\ agg' = Without(DOMAIN agg.table)
        /\ IF DOMAIN agg.table = {} THEN Offer(EOS, "pull")
           ELSE \E s \in SetToSeqs(Rows(DOMAIN agg.table)) : Offer(Batch(s), "final")
    BY <1>5 DEF Final
  <2>2. PICK rows : /\ IsRows(rows) /\ \A i \in DOMAIN rows : rows[i].key \in DOMAIN agg.table
                    /\ DOMAIN run' = DOMAIN run /\ run'.vals = run.vals /\ run'.res.rows = rows
    <3>1. CASE DOMAIN agg.table = {}
      <4>1. DOMAIN run' = DOMAIN run /\ run'.vals = run.vals /\ run'.res.rows = <<>>
        BY <1>2, <2>1, <3>1, NoRows DEF Offer
      <4>2. DOMAIN <<>> = {}
        OBVIOUS
      <4> QED
        BY <4>1, <4>2, NoRows
    <3>2. CASE DOMAIN agg.table # {}
      <4>1. PICK s \in SetToSeqs(Rows(DOMAIN agg.table)) : Offer(Batch(s), "final")
        BY <2>1, <3>2
      <4>2. DOMAIN run' = DOMAIN run /\ run'.vals = run.vals /\ run'.res.rows = s
        BY <1>2, <4>1 DEF Offer, Batch
      <4>3. IsRows(s) /\ \A i \in DOMAIN s : s[i].key \in DOMAIN agg.table
        BY <1>2, RowsListing DEF IsAgg
      <4> QED
        BY <4>2, <4>3
    <3> QED
      BY <3>1, <3>2
  <2>3. input.dir # "none" => \A g \in DOMAIN agg.table : g[1] = agg.maxTable
    BY <1>1, <1>3, <1>5 DEF InSequence, Settled, AtPull
  <2>4. input.dir # "none" => Rising(input.dir, rows)
    <3> SUFFICES ASSUME input.dir # "none", NEW i \in DOMAIN rows, NEW j \in DOMAIN rows
                 PROVE ~Below(input.dir, rows[j].key[1], rows[i].key[1])
      BY DEF Rising
    <3>1. rows[i].key[1] = agg.maxTable /\ rows[j].key[1] = agg.maxTable /\ agg.maxTable \in Int
      BY <1>2, <2>2, <2>3 DEF IsAgg
    <3> QED
      BY <3>1 DEF Below
  <2>5. DOMAIN agg'.table = {}
    BY <1>2, <2>1, WithoutEffect
  <2>6. Settled(agg', run')
    BY <2>5 DEF Settled
  <2> QED
    BY <1>3, <1>5, <2>1, <2>2, <2>4, <2>6, EmitKeeps
<1> QED
  BY <1>4, <1>5

(* A result goes to the client. *)
LEMMA SendResultKeeps ==
  ASSUME GroupInv, SendResult PROVE GroupInv'
<1>1. Typed(input, src, agg, run, client) /\ InSequence(input, src, agg, run, client)
  BY DEF GroupInv
<1>2. /\ IsAgg(agg) /\ IsRun(run) /\ IsClient(client)
      /\ DOMAIN run = {"pc", "vals", "res", "next"}
  BY <1>1 DEF Typed, IsRun
<1>3. /\ client' = Received(run.res) /\ input' = input /\ src' = src
      /\ \/ run' = [run EXCEPT !.pc = "exit", !.vals = <<>>, !.res = EOS] /\ agg' = Cleaned
         \/ /\ run' = [run EXCEPT !.pc = run.next, !.res = EOS]
            /\ agg' = agg /\ run.pc = "send" /\ run.next # "exit"
  BY DEF SendResult, Exit
<1>4. /\ DOMAIN run' = DOMAIN run /\ run'.vals \in {run.vals, <<>>}
      /\ run'.res.rows = <<>>
  BY <1>2, <1>3, NoRows
<1>5. /\ IsAgg(agg') /\ agg'.maxTable = agg.maxTable
      /\ DOMAIN agg'.table \subseteq DOMAIN agg.table
      /\ \A g \in DOMAIN agg'.table : agg'.table[g] = agg.table[g]
      /\ agg'.spills \subseteq agg.spills
  BY <1>2, <1>3, ClearedEffect
<1>6. Typed(input, src', agg', run', client')
  <2>1. IsClient(client')
    BY <1>2, <1>3, ReceivedEffect DEF IsRun
  <2> QED
    BY <1>1, <1>2, <1>3, <1>4, <1>5, <2>1, NoRows DEF Typed, IsRun
<1>7. ASSUME input.dir # "none" PROVE InSequence(input, src', agg', run', client')
  <2>1. /\ Delivered(input.dir, run, client) /\ Consuming(input, src, run) /\ Settled(agg, run)
    BY <1>1, <1>7 DEF InSequence
  <2>2. /\ Rising(input.dir, client'.got)
        /\ Keys(client'.got) \subseteq Keys(client.got) \cup Keys(run.res.rows)
    BY <1>2, <1>3, <2>1, ReceivedEffect DEF IsRun, Delivered
  <2>3. Keys(run'.res.rows) = {} /\ Rising(input.dir, run'.res.rows)
    BY <1>4, NoRows
  <2>4. Delivered(input.dir, run', client')
    BY <2>2, <2>3 DEF Delivered, Upto
  <2>5. Firsts(run'.vals) \subseteq Firsts(run.vals) /\ ValuesRise(input.dir, run'.vals)
    BY <1>4, <2>1, NoRows DEF Consuming
  <2>6. Onspill(agg') \subseteq Onspill(agg)
    BY <1>5 DEF Onspill
  <2>7. Settled(agg', run')
    <3>1. CASE agg' = Cleaned
      BY <1>2, <3>1, ClearedEffect DEF Settled
    <3>2. CASE /\ run' = [run EXCEPT !.pc = run.next, !.res = EOS]
               /\ agg' = agg /\ run.pc = "send" /\ run.next # "exit"
      <4>1. run'.pc = run.next /\ run'.next = run.next
        BY <1>2, <3>2
      <4>2. AtPull(run') => AtPull(run)
        BY <3>2, <4>1 DEF AtPull
      <4> QED
        BY <2>1, <3>2, <4>2 DEF Settled
    <3> QED
      BY <1>3, <3>1, <3>2
  <2>8. Keys(client'.got) \cup Keys(run'.res.rows) \subseteq Keys(client.got) \cup Keys(run.res.rows)
    BY <2>2, <2>3
  <2> QED
    BY <1>1, <1>3, <1>5, <1>7, <2>4, <2>5, <2>6, <2>7, <2>8, Kept
<1>8. InSequence(input, src', agg', run', client')
  BY <1>3, <1>7 DEF InSequence
<1> QED
  BY <1>3, <1>6, <1>8, InvNext

LEMMA InitEstablishes ==
  ASSUME SortedInput, Init PROVE GroupInv
<1>1. /\ input \in Inputs /\ src = [k |-> 1, i |-> 1]
      /\ agg.table = EmptyTable /\ agg.spills = {} /\ agg.maxTable = Nil /\ agg.maxSpill = Nil
      /\ DOMAIN agg = {"table", "spiller", "spills", "nspill", "maxTable", "maxSpill", "dirs"}
      /\ DOMAIN run = {"pc", "vals", "res", "next"} /\ run.vals = <<>> /\ run.res = EOS
      /\ DOMAIN client = {"pc", "platoon", "got"} /\ client.got = <<>>
  BY DEF Init
<1>2. DOMAIN agg.table = {} /\ Tabled(agg) = {} /\ Onspill(agg) = {}
  BY <1>1, EmptyIsTable DEF Tabled, Onspill
<1>3. Keys(client.got) = {} /\ Keys(run.res.rows) = {} /\ Firsts(run.vals) = {}
  BY <1>1, NoRows
<1>4. Typed(input, src, agg, run, client)
  <2>1. IsAgg(agg)
    BY <1>1, EmptyIsTable, FS_EmptySet DEF IsAgg, Nil
  <2>2. IsRun(run) /\ IsClient(client)
    BY <1>1, NoRows DEF IsRun, IsClient
  <2> QED
    BY <1>1, <2>1, <2>2 DEF Typed
<1>5. Delivered(input.dir, run, client)
  BY <1>1, <1>3, NoRows DEF Delivered, Upto
<1>6. Held(input.dir, agg, run, client) /\ Passed(input.dir, agg, run, client, Ahead(input, src, run))
  BY <1>1, <1>2, <1>3 DEF Held, Passed, Upto
<1>7. Consuming(input, src, run)
  BY <1>1, <1>3, NoRows DEF Consuming, Upto
<1>8. Primaries(input.dir, agg) /\ Settled(agg, run)
  BY <1>2 DEF Primaries, Settled
<1> QED
  BY <1>4, <1>5, <1>6, <1>7, <1>8 DEF GroupInv, InSequence

LEMMA NextPreserves ==
  ASSUME GroupInv, [Next]_vars PROVE GroupInv'
<1>1. Typed(input, src, agg, run, client)
  BY DEF GroupInv
<1>2. /\ IsAgg(agg) /\ IsRun(run) /\ IsClient(client)
      /\ DOMAIN run = {"pc", "vals", "res", "next"} /\ DOMAIN client = {"pc", "platoon", "got"}
  BY <1>1 DEF Typed, IsRun, IsClient
<1>3. input.dir # "none" => Settled(agg, run)
  BY DEF GroupInv, InSequence
<1>4. CASE PullBatch
  BY <1>4, PullBatchKeeps
<1>5. CASE PullEOS
  <2>1. /\ DOMAIN run' = DOMAIN run /\ run'.vals = run.vals /\ run'.res = run.res
        /\ run'.pc = "final" /\ run.pc = "pull"
    BY <1>2, <1>5 DEF PullEOS, Goto
  <2>2. input.dir # "none" => Settled(agg', run')
    BY <1>3, <1>5, <2>1 DEF PullEOS, Settled, AtPull
  <2> QED
    BY <1>5, <2>1, <2>2, StepKept DEF PullEOS
<1>6. CASE PullFails
  <2>1. /\ DOMAIN run' = DOMAIN run /\ run'.vals = run.vals /\ run'.res.rows = <<>>
        /\ run.pc = "pull"
    BY <1>2, <1>6, NoRows DEF PullFails, Offer
  <2>2. input.dir # "none" => Settled(agg', run')
    BY <1>3, <1>6, <2>1 DEF PullFails, Settled, AtPull
  <2> QED
    BY <1>6, <2>1, <2>2, StepKept DEF PullFails
<1>7. CASE Consume
  BY <1>7, ConsumeKeeps
<1>8. CASE ConsumeFails
  BY <1>8, ConsumeFailsKeeps
<1>9. CASE Consumed
  <2>1. /\ DOMAIN run' = DOMAIN run /\ run'.vals = run.vals /\ run'.res = run.res
        /\ input.dir # "none" => run'.pc = "early"
    BY <1>2, <1>9 DEF Consumed, Goto
  <2>2. input.dir # "none" => Settled(agg', run')
    BY <2>1 DEF Settled, AtPull
  <2> QED
    BY <1>9, <2>1, <2>2, StepKept DEF Consumed
<1>10. CASE Early
  BY <1>10, EarlyKeeps
<1>11. CASE Final
  BY <1>11, FinalKeeps
<1>12. CASE ResultFails
  <2>1. DOMAIN run' = DOMAIN run /\ run'.vals = run.vals /\ run'.res.rows = <<>>
    BY <1>2, <1>12, NoRows DEF ResultFails, Offer
  <2>2. agg' \in {agg, SpillFailed(agg)} /\ agg.spiller
    BY <1>12 DEF ResultFails
  <2>3. Settled(agg', run')
    <3>1. CASE agg' = agg
      BY <2>2, <3>1 DEF Settled
    <3>2. CASE agg' = SpillFailed(agg)
      BY <1>2, <3>2, SpillFailedEffect DEF Settled
    <3> QED
      BY <2>2, <3>1, <3>2
  <2> QED
    BY <1>12, <2>1, <2>3, StepKept DEF ResultFails
<1>13. CASE SendResult
  BY <1>13, SendResultKeeps
<1>14. CASE TakeDone
  <2>1. /\ DOMAIN run' = DOMAIN run /\ run'.vals = run.vals
        /\ run'.res = run.res \/ run'.res.rows = <<>>
    BY <1>2, <1>14, NoRows DEF TakeDone
  <2>2. DOMAIN client' = DOMAIN client /\ client'.got \in {client.got, <<>>}
    BY <1>2, <1>14, NoRows, ReceivedEffect DEF TakeDone, IsClient
  <2>3. DOMAIN agg'.table = {}
    BY <1>2, <1>14, ClearedEffect DEF TakeDone
  <2>4. Settled(agg', run')
    BY <2>3 DEF Settled
  <2> QED
    BY <1>14, <2>1, <2>2, <2>4, StepKept DEF TakeDone
<1>15. CASE Panic
  <2>1. DOMAIN run' = DOMAIN run /\ run'.vals = run.vals /\ run'.res = run.res
    BY <1>2, <1>15 DEF Panic, Goto
  <2>2. DOMAIN client' = DOMAIN client /\ client'.got = client.got
    BY <1>2, <1>15 DEF Panic
  <2>3. DOMAIN agg'.table = {}
    BY <1>2, <1>15, ClearedEffect DEF Panic
  <2>4. Settled(agg', run')
    BY <2>3 DEF Settled
  <2> QED
    BY <1>15, <2>1, <2>2, <2>3, <2>4, StepKept DEF Panic
<1>16. CASE RunCancelled
  <2>1. DOMAIN run' = DOMAIN run /\ run'.vals = <<>> /\ run'.res.rows = <<>>
    BY <1>2, <1>16, NoRows DEF RunCancelled, Exit
  <2>2. DOMAIN agg'.table = {}
    BY <1>2, <1>16, ClearedEffect DEF RunCancelled
  <2>3. Settled(agg', run')
    BY <2>2 DEF Settled
  <2> QED
    BY <1>16, <2>1, <2>3, StepKept DEF RunCancelled
<1>17. CASE Pull
  <2>1. /\ DOMAIN run' = DOMAIN run /\ run'.vals = run.vals /\ run'.res = run.res
        /\ run' = run \/ (run.pc = "off" /\ run'.pc = "pull")
    BY <1>2, <1>17 DEF Pull, Goto
  <2>2. DOMAIN client' = DOMAIN client /\ client'.got = client.got
    BY <1>2, <1>17 DEF Pull
  <2>3. input.dir # "none" => Settled(agg', run')
    BY <1>3, <1>17, <2>1 DEF Pull, Settled, AtPull
  <2> QED
    BY <1>17, <2>1, <2>2, <2>3, StepKept DEF Pull
<1>18. CASE PullEnds
  <2>1. DOMAIN client' = DOMAIN client /\ client'.got \in {client.got, <<>>}
    <3>1. PICK res \in {Err, EOS} : client' = Received(res)
      BY <1>18 DEF PullEnds
    <3>2. res.rows = <<>>
      BY NoRows
    <3> QED
      BY <1>2, <3>1, <3>2, NoRows, ReceivedEffect DEF IsClient
  <2> QED
    BY <1>3, <1>18, <2>1, StepKept DEF PullEnds
<1>19. CASE PullDone \/ Cancel \/ CancelReturns
  <2>1. DOMAIN client' = DOMAIN client /\ client'.got = client.got
    BY <1>2, <1>19 DEF PullDone, Cancel, CancelReturns
  <2>2. UNCHANGED <<input, src, agg, run>>
    BY <1>19 DEF PullDone, Cancel, CancelReturns
  <2> QED
    BY <1>3, <2>1, <2>2, StepKept
<1>20. CASE ContextEnds \/ UNCHANGED vars
  <2>1. UNCHANGED <<input, src, agg, run, client>>
    BY <1>20 DEF ContextEnds, vars
  <2> QED
    BY <1>3, <2>1, StepKept
<1> QED
  BY <1>4, <1>5, <1>6, <1>7, <1>8, <1>9, <1>10, <1>11, <1>12, <1>13, <1>14, <1>15, <1>16,
     <1>17, <1>18, <1>19, <1>20 DEF Next, RunStep, ClientStep

(* A summarize whose input is sorted by its first key delivers each        *)
(* platoon's groups sorted by that key: the batches that are sent while    *)
(* the platoon lasts and the last ones, from the table in the order of the *)
(* map or from the merged spills, fit together.  The optimizer tells the   *)
(* operators downstream that they do.                                      *)
THEOREM SortedInSortedOut == SortedInput /\ Spec => []OutputSorted
<1>1. SortedInput /\ Init => GroupInv
  BY InitEstablishes
<1>2. GroupInv /\ [Next]_vars => GroupInv'
  BY NextPreserves
<1>3. GroupInv => OutputSorted
  BY DEF GroupInv, InSequence, Delivered, Rising, OutputSorted, SortedByPrimary, Before, Below
<1> QED
  BY <1>1, <1>2, <1>3, PTL DEF Spec
=============================================================================
