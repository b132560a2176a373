------------------------------- MODULE LakeData -------------------------------
(***************************************************************************)
(* Data objects (lake/data, lake/seekindex): sorted runs of rows with the  *)
(* range of their keys and a seek index over them, how a writer makes one, *)
(* how a reader prunes one, and the orders the lister and the comparators  *)
(* put rows and objects in.  The order o of the pool is "asc" or "desc".   *)
(* A row counts as one unit in sizes, offsets and lengths.                 *)
(***************************************************************************)
EXTENDS Predicate, FiniteSets, SequencesExt

CONSTANT Stride     \* SeekStride: key bytes between entries of the seek index

Rows == [id : Nat, key : Keys, other : Outcomes]

(* The elements of a sequence that are in S, in its order. *)
Picked(s, S) == FoldLeft(LAMBDA acc, x : IF x \in S THEN Append(acc, x) ELSE acc, <<>>, s)

Before(o, a, b) == IF o = "asc" THEN Less(a, b) ELSE Less(b, a)

(* ImportComparator: by key, then by the bytes of the whole row. *)
RowBefore(o, a, b) ==
    \/ Before(o, a.key, b.key)
    \/ SameKey(a.key, b.key) /\ IF o = "asc" THEN a.id < b.id ELSE b.id < a.id

Ordered(o, rs) == \A i, j \in DOMAIN rs : i < j => RowBefore(o, rs[i], rs[j])

Sorted(o, rs) ==
    [i \in 1 .. Cardinality(rs) |->
        CHOOSE r \in rs : Cardinality({q \in rs : RowBefore(o, q, r)}) = i - 1]

----------------------------------------------------------------------------
(* Writing an object. *)

(* DerefPath(key).MissingAsNull() *)
KeyOf(row) == IF row.key.kind = "missing" THEN Key("null", 0) ELSE row.key

Entry(o, first, last, offset, length) ==
    [min |-> IF o = "asc" THEN first ELSE last, max |-> IF o = "asc" THEN last ELSE first,
     offset |-> offset, length |-> length]

(* writeIndex ends an entry with the row whose key bytes, one each here,   *)
(* bring the trigger to the stride; Close ends the last one.               *)
EntryEnds(rs) ==
    LET keyed == {i \in 1 .. Len(rs) : ~IsNull(rs[i].key)}
    IN {i \in keyed : Cardinality({k \in keyed : k <= i}) % Stride = 0} \cup {Len(rs)}

SeekIndex(o, rs) ==
    LET ends     == Picked([i \in 1 .. Len(rs) |-> i], EntryEnds(rs))
        start(n) == IF n = 1 THEN 0 ELSE ends[n - 1]
    IN [n \in 1 .. Len(ends) |->
            Entry(o, KeyOf(rs[start(n) + 1]), KeyOf(rs[ends[n]]), start(n), ends[n] - start(n))]

(* The object a data.Writer makes of a sequence of rows. *)
NewObject(o, id, rs) ==
    LET first == KeyOf(rs[1])
        last  == KeyOf(rs[Len(rs)])
    IN [id |-> id, rows |-> rs, count |-> Len(rs), index |-> SeekIndex(o, rs),
        min |-> IF o = "asc" THEN first ELSE last,
        max |-> IF o = "asc" THEN last ELSE first]

(* What a data.Writer has made: an object of rows written in order. *)
Written(o, obj) ==
    /\ obj = NewObject(o, obj.id, obj.rows)
    /\ obj.rows \in Seq(Rows) \ {<<>>} /\ Ordered(o, obj.rows)

----------------------------------------------------------------------------
(* Reading an object. *)

(* Mutant: entries that are not adjacent are joined. *)
RangesAppendJoins(ranges, e) ==
    IF ranges = <<>> THEN <<[offset |-> e.offset, length |-> e.length]>>
    ELSE [ranges EXCEPT ![Len(ranges)].length = @ + e.length]

RangesAppend(ranges, e) ==
    IF ranges = <<>> \/ Last(ranges).offset + Last(ranges).length < e.offset
    THEN Append(ranges, [offset |-> e.offset, length |-> e.length])
    ELSE [ranges EXCEPT ![Len(ranges)].length = @ + e.length]

LookupSeekRange(obj, p) ==
    FoldLeft(LAMBDA ranges, e : IF Prunes(p, e.min, e.max) THEN ranges
                                ELSE RangesAppend(ranges, e), <<>>, obj.index)

(* No ranges at all means the whole object. *)
ReadRanges(obj, ranges) ==
    IF ranges = <<>> THEN obj.rows
    ELSE FoldLeft(LAMBDA rs, g : rs \o SubSeq(obj.rows, g.offset + 1, g.offset + g.length),
                  <<>>, ranges)

----------------------------------------------------------------------------
(* The order of objects in a scan. *)

From(o, obj) == IF o = "asc" THEN obj.min ELSE obj.max
To(o, obj)   == IF o = "asc" THEN obj.max ELSE obj.min

(* bytes.Equal: null and the integer zero both encode to no bytes. *)
SameBytes(j, k) == j.val = k.val

ObjectBefore(o, a, b) ==
    \/ Before(o, From(o, a), From(o, b))
    \/ /\ SameBytes(From(o, a), From(o, b)) /\ ~SameBytes(To(o, a), To(o, b))
       /\ Before(o, To(o, a), To(o, b))

(* One round of an insertion sort: x moves to the left as long as it is    *)
(* before its neighbour.                                                   *)
Inserted(o, s, x) ==
    LET stays == {i \in 1 .. Len(s) : ~ObjectBefore(o, x, s[i])}
    IN InsertAt(s, 1 + Max({0} \cup stays), x)

(* SliceStable: lists of up to twenty are sorted by insertion, which shows *)
(* where ObjectBefore is no order: descending, among null and zero keys.   *)
SliceStable(o, t) == FoldLeft(LAMBDA s, x : Inserted(o, s, x), <<>>, t)

(* A snapshot lists its objects in no particular order. *)
sortObjects(o, objs) == {SliceStable(o, t) : t \in SetToSeqs(objs)}

Overlap(a, b) == ~Less(a.max, b.min) /\ ~Less(b.max, a.min)

RowsOf(objs) == UNION {ToSet(obj.rows) : obj \in objs}
=============================================================================
