--------------------------- MODULE PoolRowProofs ---------------------------
(***************************************************************************)
(* The rows of branches: that none is lost, copied or left behind, and     *)
(* that the data objects that hold them are in storage, for any number of  *)
(* workers, branches, objects and retries.                                 *)
(***************************************************************************)
EXTENDS PoolProofs

----------------------------------------------------------------------------
(* Sets of objects, and the rows R[o] of an object o. *)

Rows(R, S)  == UNION {R[o] : o \in S}
Apart(R, S) == \A o, q \in S : o # q => R[o] \cap R[q] = {}

LEMMA InRows == ASSUME NEW R, NEW S, NEW x PROVE x \in Rows(R, S) <=> \E o \in S : x \in R[o]
  BY DEF Rows

LEMMA RowsRemoved ==
  ASSUME NEW R, NEW S, NEW D, Apart(R, S), D \subseteq S
  PROVE Apart(R, S \ D) /\ Rows(R, S \ D) = Rows(R, S) \ Rows(R, D)
<1>1. Apart(R, S \ D)
  BY DEF Apart
<1>2. ASSUME NEW x PROVE x \in Rows(R, S \ D) <=> x \in Rows(R, S) /\ x \notin Rows(R, D)
  BY InRows DEF Apart
<1> QED
  BY <1>1, <1>2

LEMMA RowsAdded ==
  ASSUME NEW R, NEW S, NEW n, Apart(R, S), Rows(R, S) \cap R[n] = {}
  PROVE Apart(R, S \cup {n}) /\ Rows(R, S \cup {n}) = Rows(R, S) \cup R[n]
<1>1. \A o \in S : R[o] \cap R[n] = {}
  BY DEF Rows
<1>2. Apart(R, S \cup {n})
  BY <1>1 DEF Apart
<1>3. ASSUME NEW x PROVE x \in Rows(R, S \cup {n}) <=> x \in Rows(R, S) \/ x \in R[n]
  BY InRows
<1> QED
  BY <1>2, <1>3

LEMMA RowsAgree ==
  ASSUME NEW R, NEW Q, NEW S, \A o \in S : R[o] = Q[o]
  PROVE (Apart(R, S) <=> Apart(Q, S)) /\ Rows(R, S) = Rows(Q, S)
<1>1. Apart(R, S) <=> Apart(Q, S)
  BY DEF Apart
<1>2. \A x : x \in Rows(R, S) <=> x \in Rows(Q, S)
  BY InRows
<1> QED
  BY <1>1, <1>2

LEMMA RowsMonotone ==
  ASSUME NEW R, NEW S, NEW D, D \subseteq S PROVE Rows(R, D) \subseteq Rows(R, S)
  BY DEF Rows

----------------------------------------------------------------------------
(* The second invariant, for operations other than merges and reverts: the *)
(* objects of a commit have no row in common, a loaded row is nowhere      *)
(* else, a rollup holds the rows of its sources, and a commit that waits   *)
(* for its update has the rows its operation is to leave.                  *)

Plain == NoMerges /\ "Revert" \notin setting.kinds

(* Effect, for these operations. *)
Wanted(R, j, old) ==
    IF j.kind = "Load" THEN old \cup Rows(R, ToSet(j.new))
    ELSE IF j.kind = "Delete" THEN old \ Rows(R, ToSet(j.ids))
    ELSE IF j.kind = "DeleteWhere" THEN old \ ToSet(j.ids)
    ELSE old

RowJob(p) ==
    /\ job[p].kind = "Load" => \A n \in NewOf(p) :
         rows[n] = {n} /\ \A o \in 1 .. Len(rows) : o # n => n \notin rows[o]
    /\ job[p].kind = "Compact" => \A n \in NewOf(p) : rows[n] = Rows(rows, ToSet(job[p].ids))
    /\ job[p].kind \in {"Delete", "Compact"} => ToSet(job[p].ids) \subseteq 1 .. Len(rows)
    /\ job[p].kind = "DeleteWhere" => \E r : job[p].ids = <<r>>

Settled(p) ==
    pc[p] = "update" =>
        Rows(rows, Objs(job[p].made)) = Wanted(rows, job[p], Rows(rows, Objs(job[p].parent)))

RowInv ==
    /\ \A o \in 1 .. Len(rows) : rows[o] \subseteq 1 .. Len(rows)
    /\ \A c \in 0 .. Len(commits) : Apart(rows, Objs(c))
    /\ \A p \in Workers : RowJob(p) /\ Settled(p)

LEMMA WantedAgrees ==
  ASSUME NEW R, NEW Q, NEW j, NEW old,
         j.kind = "Load" => \A o \in ToSet(j.new) : R[o] = Q[o],
         j.kind = "Delete" => \A o \in ToSet(j.ids) : R[o] = Q[o]
  PROVE Wanted(R, j, old) = Wanted(Q, j, old)
<1>1. CASE j.kind = "Load"
  BY <1>1, RowsAgree DEF Wanted
<1>2. CASE j.kind = "Delete"
  BY <1>2, RowsAgree DEF Wanted
<1>3. CASE j.kind \notin {"Load", "Delete"}
  BY <1>3 DEF Wanted
<1> QED
  BY <1>1, <1>2, <1>3

(* The rows of a commit that worker p constructs. *)
LEMMA ConstructsRows ==
  ASSUME ReadInv, RowInv, Plain, NEW p \in Workers, pc[p] = "create",
         NEW acts \in Constructed(job[p]), NEW R,
         \A o \in 1 .. Len(rows) : R[o] = rows[o],
         job[p].kind = "DeleteWhere" /\ acts.add.objs # <<>> =>
            R[NextObject] = Left(Snapshot(job[p].parent), job[p].ids[1])
  PROVE LET old == Objs(job[p].parent)
            new == (old \ ToSet(acts.del.objs)) \cup ToSet(acts.add.objs)
        IN Apart(R, new) /\ Rows(R, new) = Wanted(R, job[p], Rows(R, old))
<1> DEFINE j == job[p]
           v == Snapshot(j.parent)
           old == Objs(j.parent)
           dels == ToSet(acts.del.objs)
           adds == ToSet(acts.add.objs)
           new == (old \ dels) \cup adds
<1>1. /\ old = v.has.objs /\ old \subseteq 1 .. Len(rows) /\ j.kind \in Building
      /\ NewOf(p) \cap old = {} /\ Len(rows) \in Nat
  BY AtCreate DEF Objs, ReadInv, SnapInv
<1>2. Apart(R, old)
  <2>1. Apart(rows, old)
    BY AtCreate, ReachFacts DEF RowInv, ReadInv
  <2> HIDE DEF old
  <2> QED
    BY <1>1, <2>1, RowsAgree, ZenonT(30)
<1>3. j.kind # "Revert"
  BY <1>1 DEF Plain, ReadInv, JobInv, JobOK, Building
<1>4. RowJob(p) /\ JobOK(p)
  BY DEF RowInv, ReadInv, JobInv
<1>5. <<>> # <<NextObject>> /\ ToSet(<<>>) = {} /\ ToSet(<<NextObject>>) = {NextObject}
  BY <1>1, ShortLists DEF NextObject
<1> HIDE DEF old
<1>6. CASE j.kind = "Load"
  <2>1. acts = Actions(<<>>, j.new, <<>>, <<>>)
    BY <1>6 DEF Constructed
  <2>2. dels = {} /\ adds = NewOf(p)
    BY <2>1, ActionsParts, ShortLists DEF NewOf
  <2>3. PICK n \in 1 .. Len(rows) : j.new = <<n>>
    BY <1>4, <1>6 DEF JobOK
  <2>4. NewOf(p) = {n}
    BY <2>3, ShortLists DEF NewOf
  <2>5. R[n] = {n} /\ \A o \in old : n \notin R[o]
    BY <1>1, <1>4, <1>6, <2>4 DEF RowJob
  <2>6. Rows(R, old) \cap R[n] = {}
    BY <2>5 DEF Rows
  <2>7. new = old \cup {n}
    BY <2>2, <2>4
  <2>8. Rows(R, ToSet(j.new)) = R[n]
    BY <2>4 DEF NewOf, Rows
  <2> HIDE DEF new
  <2> QED
    <3>1. Apart(R, new) /\ Rows(R, new) = Rows(R, old) \cup R[n]
      BY <1>2, <2>6, <2>7, RowsAdded, Zenon
    <3> QED
      BY <1>6, <2>8, <3>1 DEF Wanted, new, old
<1>7. CASE j.kind = "Delete"
  <2>1. acts = Actions(j.ids, <<>>, <<>>, <<>>) /\ ToSet(j.ids) \subseteq v.has.objs
    BY <1>7 DEF Constructed, Deletes
  <2>2. dels = ToSet(j.ids) /\ adds = {}
    BY <2>1, ActionsParts, ShortLists
  <2>3. new = old \ ToSet(j.ids)
    BY <2>2
  <2> HIDE DEF new
  <2> QED
    <3>1. Apart(R, new) /\ Rows(R, new) = Rows(R, old) \ Rows(R, ToSet(j.ids))
      BY <1>1, <1>2, <2>1, <2>3, RowsRemoved, Zenon
    <3> QED
      BY <1>7, <3>1 DEF Wanted, new, old
<1>8. CASE j.kind \in {"AddVectors", "DeleteVectors"}
  <2>1. \/ acts = Actions(<<>>, <<>>, <<>>, j.ids)
        \/ acts = Actions(<<>>, <<>>, j.ids, <<>>)
    BY <1>8 DEF Constructed, AddsVectors, DeletesVectors
  <2>2. dels = {} /\ adds = {}
    BY <2>1, ActionsParts, ShortLists
  <2>3. new = old
    BY <2>2
  <2> HIDE DEF new
  <2> QED
    BY <1>2, <1>8, <2>3 DEF Wanted, new, old
<1>9. CASE j.kind = "Compact"
  <2>1. acts \in Compacts(v, j.ids, j.new, j.vecs)
    BY <1>9 DEF Constructed
  <2>2. dels = ToSet(j.ids) /\ adds = NewOf(p) /\ dels \subseteq old
    BY <1>9, <2>1, CompactsFit DEF NewOf, old
  <2>3. PICK n \in 1 .. Len(rows) : j.new = <<n>>
    BY <1>4, <1>9 DEF JobOK
  <2>4. NewOf(p) = {n}
    BY <2>3, ShortLists DEF NewOf
  <2> HIDE DEF dels
  <2>5. R[n] = Rows(R, dels)
    <3>1. rows[n] = Rows(rows, dels) /\ dels \subseteq 1 .. Len(rows)
      BY <1>4, <1>9, <2>2, <2>4 DEF RowJob
    <3> QED
      BY <3>1, RowsAgree, ZenonT(30)
  <2>6. Apart(R, old \ dels) /\ Rows(R, old \ dels) = Rows(R, old) \ Rows(R, dels)
    <3> DEFINE rest == old \ dels
    <3>1. dels \subseteq old /\ rest = old \ dels
      BY <2>2
    <3> HIDE DEF rest
    <3>2. Apart(R, rest) /\ Rows(R, rest) = Rows(R, old) \ Rows(R, dels)
      BY <1>2, <3>1, RowsRemoved, Zenon
    <3> QED
      BY <3>1, <3>2
  <2>7. new = (old \ dels) \cup {n} /\ Rows(R, old \ dels) \cap R[n] = {}
    BY <2>2, <2>4, <2>5, <2>6
  <2> HIDE DEF new
  <2>8. Apart(R, new) /\ Rows(R, new) = (Rows(R, old) \ Rows(R, dels)) \cup Rows(R, dels)
    <3>1. Apart(R, new) /\ Rows(R, new) = Rows(R, old \ dels) \cup R[n]
      BY <2>6, <2>7, RowsAdded, Zenon
    <3> QED
      BY <2>5, <2>6, <3>1
  <2>9. Rows(R, new) = Rows(R, old)
    BY <2>2, <2>8, RowsMonotone
  <2> QED
    BY <1>9, <2>8, <2>9 DEF Wanted, new, old, dels
<1>10. CASE j.kind = "DeleteWhere"
  <2>1. PICK r : j.ids = <<r>>
    BY <1>4, <1>10 DEF RowJob
  <2>2. j.ids[1] = r /\ ToSet(j.ids) = {r}
    BY <2>1 DEF ToSet
  <2>3. acts \in Rewrites(v, r)
    BY <1>10, <2>2 DEF Constructed
  <2> DEFINE hit == Hit(v, r)
  <2>4. dels = hit /\ acts.add.objs = IF Left(v, r) = {} THEN <<>> ELSE <<NextObject>>
    BY <1>10, <2>3, RewritesFit
  <2>5. hit \subseteq old /\ \A o \in old : o \notin hit => r \notin R[o]
    BY <1>1 DEF Hit
  <2>6. Left(v, r) = Rows(R, hit) \ {r}
    <3>1. Left(v, r) = Rows(rows, hit) \ {r}
      BY DEF Left, RowsIn, Rows
    <3>2. \A o \in hit : R[o] = rows[o]
      BY <1>1, <2>5
    <3> HIDE DEF hit
    <3> QED
      BY <3>1, <3>2, RowsAgree
  <2> HIDE DEF hit, dels
  <2>7. Apart(R, old \ hit) /\ Rows(R, old \ hit) = Rows(R, old) \ Rows(R, hit)
    <3> DEFINE rest == old \ hit
    <3>1. hit \subseteq old /\ rest = old \ hit
      BY <2>5
    <3> HIDE DEF rest
    <3>2. Apart(R, rest) /\ Rows(R, rest) = Rows(R, old) \ Rows(R, hit)
      BY <1>2, <3>1, RowsRemoved, Zenon
    <3> QED
      BY <3>1, <3>2
  <2>8. r \notin Rows(R, old \ hit)
    BY <2>5, InRows
  <2>9. Rows(R, hit) \subseteq Rows(R, old)
    BY <2>5, RowsMonotone
  <2>10. Rows(R, old) \ {r} = Rows(R, old \ hit) \cup Left(v, r)
    BY <2>6, <2>7, <2>8, <2>9
  <2>11. Wanted(R, j, Rows(R, old)) = Rows(R, old) \ {r}
    BY <1>10, <2>2 DEF Wanted
  <2>12. CASE Left(v, r) = {}
    <3>1. adds = {}
      BY <1>5, <2>4, <2>12
    <3>2. new = old \ hit
      BY <2>4, <3>1
    <3> HIDE DEF new
    <3> QED
      BY <2>7, <2>10, <2>11, <2>12, <3>2 DEF new, old, dels
  <2>13. CASE Left(v, r) # {}
    <3>1. acts.add.objs = <<NextObject>> /\ adds = {NextObject}
      BY <1>5, <2>4, <2>13
    <3>2. R[NextObject] = Left(v, r)
      BY <1>5, <1>10, <2>2, <3>1
    <3>3. new = (old \ hit) \cup {NextObject}
      BY <2>4, <3>1
    <3>4. Rows(R, old \ hit) \cap R[NextObject] = {}
      BY <2>6, <2>7, <3>2
    <3> HIDE DEF new
    <3>5. Apart(R, new) /\ Rows(R, new) = Rows(R, old \ hit) \cup Left(v, r)
      <4>1. Apart(R, new) /\ Rows(R, new) = Rows(R, old \ hit) \cup R[NextObject]
        BY <2>7, <3>3, <3>4, RowsAdded, Zenon
      <4> QED
        BY <3>2, <4>1
    <3> QED
      BY <2>10, <2>11, <3>5 DEF new, old, dels
  <2> QED
    BY <2>12, <2>13
<1> QED
  BY <1>1, <1>3, <1>6, <1>7, <1>8, <1>9, <1>10 DEF Building, old

(* The rows of a data object that is being written, if one is, are none of *)
(* the rows that worker q is loading.                                      *)
NotLoading(q) ==
    job[q].kind = "Load" => \A o \in 1 .. Len(rows') : o = NextObject => NewOf(q) \cap rows'[o] = {}

LEMMA RowJobStays ==
  ASSUME ReadInv, NEW q \in Workers, RowJob(q), RowsGrow, NotLoading(q),
         job'[q].kind = job[q].kind, job'[q].new = job[q].new,
         job'[q].kind \in {"Delete", "Compact", "DeleteWhere"} => job'[q].ids = job[q].ids
  PROVE RowJob(q)'
<1>1. rows \in Seq(SUBSET Nat)
  BY DEF ReadInv, SnapInv
<1>2. /\ Len(rows) \in Nat /\ \A o \in 1 .. Len(rows) : rows'[o] = rows[o]
      /\ 1 .. Len(rows) \subseteq 1 .. Len(rows') /\ Len(rows') \in Len(rows) .. Len(rows) + 1
  BY <1>1, RowsKept
<1>3. NewOf(q)' = NewOf(q) /\ NewOf(q) \subseteq 1 .. Len(rows)
  BY NewIsWritten DEF NewOf, ReadInv
<1>4. job[q].kind = "Load" => \A n \in NewOf(q) :
         rows'[n] = {n} /\ \A o \in 1 .. Len(rows') : o # n => n \notin rows'[o]
  <2> SUFFICES ASSUME job[q].kind = "Load", NEW n \in NewOf(q)
               PROVE rows'[n] = {n} /\ \A o \in 1 .. Len(rows') : o # n => n \notin rows'[o]
    OBVIOUS
  <2>1. rows[n] = {n} /\ \A o \in 1 .. Len(rows) : o # n => n \notin rows[o]
    BY DEF RowJob
  <2>2. \A o \in 1 .. Len(rows') : o \in 1 .. Len(rows) \/ o = NextObject
    BY <1>2 DEF NextObject
  <2> QED
    BY <1>2, <1>3, <2>1, <2>2 DEF NotLoading
<1>5. job[q].kind = "Compact" => \A n \in NewOf(q) : rows'[n] = Rows(rows', ToSet(job[q].ids))
  <2> SUFFICES ASSUME job[q].kind = "Compact", NEW n \in NewOf(q)
               PROVE rows'[n] = Rows(rows', ToSet(job[q].ids))
    OBVIOUS
  <2>1. rows[n] = Rows(rows, ToSet(job[q].ids)) /\ ToSet(job[q].ids) \subseteq 1 .. Len(rows)
    BY DEF RowJob
  <2>2. \A o \in ToSet(job[q].ids) : rows[o] = rows'[o]
    BY <1>2, <2>1
  <2>3. Rows(rows, ToSet(job[q].ids)) = Rows(rows', ToSet(job[q].ids))
    BY <2>2, RowsAgree
  <2> QED
    BY <1>2, <1>3, <2>1, <2>3
<1>6. /\ job[q].kind \in {"Delete", "Compact"} => ToSet(job[q].ids) \subseteq 1 .. Len(rows')
      /\ job[q].kind = "DeleteWhere" => \E r : job[q].ids = <<r>>
  BY <1>2 DEF RowJob
<1> QED
  BY <1>3, <1>4, <1>5, <1>6 DEF RowJob

LEMMA SettledStays ==
  ASSUME ReadInv, NEW q \in Workers, RowJob(q), Settled(q), RowsGrow,
         pc'[q] = pc[q], job'[q] = job[q],
         \A d \in 0 .. Len(commits) : Objs(d)' = Objs(d)
  PROVE Settled(q)'
<1> SUFFICES ASSUME pc[q] = "update"
             PROVE Rows(rows', Objs(job[q].made)')
                     = Wanted(rows', job[q], Rows(rows', Objs(job[q].parent)'))
  BY DEF Settled
<1>1. rows \in Seq(SUBSET Nat)
  BY DEF ReadInv, SnapInv
<1>2. \A o \in 1 .. Len(rows) : rows'[o] = rows[o]
  BY <1>1, RowsKept
<1>3. job[q].made \in 0 .. Len(commits) /\ job[q].parent \in 0 .. Len(commits)
  BY PathEquation DEF ReadInv, Inv, IInv, OwnInv, JobInv, JobOK
<1> DEFINE m == Objs(job[q].made)
           b == Objs(job[q].parent)
<1>4. m \subseteq 1 .. Len(rows) /\ b \subseteq 1 .. Len(rows)
  BY <1>3, SnapshotOK DEF ReadInv, Objs
<1>5. Objs(job[q].made)' = m /\ Objs(job[q].parent)' = b
  <2>1. \A d : d = job'[q].made => Objs(d)' = m
    BY <1>3
  <2>2. \A d : d = job'[q].parent => Objs(d)' = b
    BY <1>3
  <2> QED
    BY <2>1, <2>2 DEF Objs, Snapshot
<1> HIDE DEF m, b
<1>6. Rows(rows, m) = Rows(rows', m) /\ Rows(rows, b) = Rows(rows', b)
  BY <1>2, <1>4, RowsAgree, ZenonT(30)
<1>7. Rows(rows, m) = Wanted(rows, job[q], Rows(rows, b))
  BY DEF Settled, m, b
<1>8. Wanted(rows, job[q], Rows(rows, b)) = Wanted(rows', job[q], Rows(rows, b))
  <2>1. ToSet(job[q].new) \subseteq 1 .. Len(rows)
    BY NewIsWritten DEF NewOf, ReadInv
  <2>2. job[q].kind = "Delete" => ToSet(job[q].ids) \subseteq 1 .. Len(rows)
    BY DEF RowJob
  <2> QED
    BY <1>2, <2>1, <2>2, WantedAgrees
<1> QED
  BY <1>5, <1>6, <1>7, <1>8

(* The commits there are keep their rows. *)
LEMMA ApartStays ==
  ASSUME ReadInv, RowInv, RowsGrow, NEW d \in 0 .. Len(commits)
  PROVE Apart(rows', Objs(d))
<1>1. rows \in Seq(SUBSET Nat)
  BY DEF ReadInv, SnapInv
<1>2. \A o \in 1 .. Len(rows) : rows'[o] = rows[o]
  BY <1>1, RowsKept
<1>3. Objs(d) \subseteq 1 .. Len(rows)
  BY SnapshotOK DEF ReadInv, Objs
<1>4. Apart(rows, Objs(d))
  BY DEF RowInv
<1>5. \A o \in Objs(d) : rows[o] = rows'[o]
  BY <1>2, <1>3
<1> DEFINE S == Objs(d)
<1> HIDE DEF S
<1>6. Apart(rows, S) /\ \A o \in S : rows[o] = rows'[o]
  BY <1>4, <1>5 DEF S
<1>7. Apart(rows', S)
  BY <1>6, RowsAgree
<1> QED
  BY <1>7 DEF S

LEMMA PutKeepsRows ==
  ASSUME ReadInv, RowInv, Plain, NEW p \in Workers, pc[p] = "create",
         NEW acts \in Constructed(job[p]), Puts(p, acts)
  PROVE RowInv'
<1> DEFINE N == Len(commits)
           c == N + 1
           par == job[p].parent
           old == Objs(par)
           new == (old \ ToSet(acts.del.objs)) \cup ToSet(acts.add.objs)
<1>1. /\ N \in Nat /\ Len(commits') = c /\ RowsGrow /\ rows \in Seq(SUBSET Nat)
      /\ \A q \in Workers : q # p => pc'[q] = pc[q] /\ job'[q] = job[q]
      /\ pc'[p] = "update" /\ job'[p] = [job[p] EXCEPT !.made = c]
  BY PutShape
<1>0. \A d : d = c => Snapshot(d)' = Play(Snapshot(par), acts)
  <2>1. \A d : d = c => Snapshot(d)' = views'[d]
    BY PutShape
  <2>2. views'[c] = Play(Snapshot(par), acts)
    <3>1. views' = Append(views, Play(Snapshot(par), acts))
      BY DEF Puts
    <3>2. views \in Seq(Snapshots) /\ Len(views) = N
      BY DEF ReadInv, SnapInv
    <3> QED
      BY <3>1, <3>2
  <2> QED
    BY <2>1, <2>2
<1>2. \A d \in 0 .. N : Objs(d)' = Objs(d)
  <2>1. \A d \in 0 .. N : Snapshot(d)' = Snapshot(d)
    BY PutShape
  <2> QED
    BY <2>1 DEF Objs
<1>3. par \in Reach /\ par \in 0 .. N /\ old \subseteq 1 .. Len(rows)
  BY AtCreate, ReachFacts DEF ReadInv, Objs
<1>4. \A d : d = c => Objs(d)' = new
  <2>1. Play(Snapshot(par), acts).has.objs = new
    BY Constructs, AtCreate, PlayResult DEF Fits, Objs
  <2> QED
    BY <1>0, <1>1, <2>1 DEF Objs
<1>5. /\ Len(rows) \in Nat /\ \A o \in 1 .. Len(rows) : rows'[o] = rows[o]
      /\ 1 .. Len(rows) \subseteq 1 .. Len(rows') /\ Len(rows') \in Len(rows) .. Len(rows) + 1
  BY <1>1, RowsKept
<1> DEFINE left == Left(Snapshot(par), job[p].ids[1])
           writes == job[p].kind = "DeleteWhere" /\ acts.add.objs # <<>>
<1>6. /\ writes => rows' = Append(rows, left)
      /\ ~writes => rows' = rows
  BY DEF Puts, WriteObject
<1>7. writes => rows'[NextObject] = left
  BY <1>1, <1>6 DEF NextObject
<1>8. \A o \in 1 .. Len(rows') : o \in 1 .. Len(rows) \/ (writes /\ o = NextObject)
  BY <1>5, <1>6 DEF NextObject
<1>9. \A x \in left : \E o \in old : x \in rows[o]
  BY DEF Left, RowsIn, Hit, Objs
<1>10. Apart(rows', new) /\ Rows(rows', new) = Wanted(rows', job[p], Rows(rows', old))
  BY <1>5, <1>7, ConstructsRows
<1> HIDE DEF left, writes, new, old
<1>11. \A o \in 1 .. Len(rows') : rows'[o] \subseteq 1 .. Len(rows')
  <2>1. \A o \in 1 .. Len(rows) : rows[o] \subseteq 1 .. Len(rows)
    BY DEF RowInv
  <2>2. left \subseteq 1 .. Len(rows)
    BY <1>3, <1>9, <2>1
  <2> QED
    BY <1>5, <1>7, <1>8, <2>1, <2>2
<1>12. \A d \in 0 .. Len(commits') : Apart(rows', Objs(d)')
  <2>1. \A d \in 0 .. Len(commits') : d \in 0 .. N \/ d = c
    BY <1>1
  <2> QED
    BY <1>1, <1>2, <1>4, <1>10, <2>1, ApartStays
<1>13. DOMAIN job[p] = Fields
  BY DoneFields DEF ReadInv, Inv, IInv, WorkInv
<1>14. \A q \in Workers : /\ job'[q].kind = job[q].kind /\ job'[q].new = job[q].new
                          /\ job'[q].ids = job[q].ids
  BY <1>1, <1>13 DEF Fields
<1>15. ASSUME NEW q \in Workers PROVE RowJob(q)'
  <2>1. NotLoading(q)
    <3> SUFFICES ASSUME job[q].kind = "Load", NEW o \in 1 .. Len(rows'), o = NextObject,
                        NEW n \in NewOf(q), n \in rows'[o]
                 PROVE FALSE
      BY DEF NotLoading
    <3>1. n \in left
      BY <1>5, <1>7, <1>8 DEF NextObject
    <3>2. PICK h \in old : n \in rows[h]
      BY <1>9, <3>1
    <3>3. h # n
      BY <1>3, <3>2 DEF old, ReadInv, FreshInv, Has, Objs
    <3> QED
      BY <1>3, <3>2, <3>3 DEF RowInv, RowJob
  <2>2. RowJob(q)
    BY DEF RowInv
  <2> QED
    BY <1>1, <1>14, <2>1, <2>2, RowJobStays
<1>16. ASSUME NEW q \in Workers PROVE Settled(q)'
  <2>1. CASE q # p
    <3>1. RowJob(q) /\ Settled(q)
      BY DEF RowInv
    <3> QED
      BY <1>1, <1>2, <2>1, <3>1, SettledStays
  <2>2. CASE q = p
    <3>1. job'[p].made = c /\ job'[p].parent = par
      BY <1>1, <1>13 DEF Fields
    <3>2. \A d : d = job'[p].made => Objs(d)' = new
      BY <1>4, <3>1
    <3>3. \A d : d = job'[p].parent => Objs(d)' = old
      BY <1>2, <1>3, <3>1 DEF old
    <3>4. Objs(job[p].made)' = new /\ Objs(job[p].parent)' = old
      BY <3>2, <3>3 DEF Objs, Snapshot
    <3>5. Wanted(rows', job'[p], Rows(rows', old)) = Wanted(rows', job[p], Rows(rows', old))
      BY <1>14 DEF Wanted
    <3> QED
      BY <1>10, <2>2, <3>4, <3>5 DEF Settled
  <2> QED
    BY <2>1, <2>2
<1> QED
  BY <1>11, <1>12, <1>15, <1>16 DEF RowInv

(* A step that puts no commit object, as far as rows go. *)
RowQuiet(p) ==
    /\ UNCHANGED <<commits, views>> /\ RowsGrow
    /\ \A q \in Workers :
         \/ pc'[q] = pc[q] /\ job'[q] = job[q] /\ NotLoading(q)
         \/ q = p /\ pc'[p] # "update" /\ RowJob(p)'
    /\ \A o \in 1 .. Len(rows') : o = NextObject => rows'[o] \subseteq 1 .. Len(rows')

LEMMA RowQuietKeeps ==
  ASSUME ReadInv, RowInv, NEW p, RowQuiet(p)
  PROVE RowInv'
<1>1. rows \in Seq(SUBSET Nat) /\ RowsGrow
  BY DEF ReadInv, SnapInv, RowQuiet
<1>2. /\ Len(rows) \in Nat /\ \A o \in 1 .. Len(rows) : rows'[o] = rows[o]
      /\ 1 .. Len(rows) \subseteq 1 .. Len(rows') /\ Len(rows') \in Len(rows) .. Len(rows) + 1
  BY <1>1, RowsKept
<1>3. \A o \in 1 .. Len(rows') : rows'[o] \subseteq 1 .. Len(rows')
  <2>1. \A o \in 1 .. Len(rows') : o \in 1 .. Len(rows) \/ o = NextObject
    BY <1>2 DEF NextObject
  <2>2. \A o \in 1 .. Len(rows) : rows[o] \subseteq 1 .. Len(rows)
    BY DEF RowInv
  <2>3. \A o \in 1 .. Len(rows') : o = NextObject => rows'[o] \subseteq 1 .. Len(rows')
    BY DEF RowQuiet
  <2> QED
    BY <1>2, <2>1, <2>2, <2>3
<1>4. \A d : Objs(d)' = Objs(d)
  BY DEF RowQuiet, Objs, Snapshot
<1>5. \A d \in 0 .. Len(commits') : Apart(rows', Objs(d)')
  BY <1>1, <1>4, ApartStays DEF RowQuiet
<1>6. ASSUME NEW q \in Workers PROVE RowJob(q)' /\ Settled(q)'
  <2>1. RowJob(q) /\ Settled(q)
    BY DEF RowInv
  <2>2. CASE pc'[q] = pc[q] /\ job'[q] = job[q] /\ NotLoading(q)
    BY <1>1, <1>4, <2>1, <2>2, RowJobStays, SettledStays
  <2>3. CASE q = p /\ pc'[p] # "update" /\ RowJob(p)'
    BY <2>3 DEF Settled
  <2> QED
    BY <2>2, <2>3 DEF RowQuiet
<1> QED
  BY <1>3, <1>5, <1>6 DEF RowInv

(* A step of worker p that writes no object: it goes on with its operation *)
(* or returns.                                                             *)
Still(p) ==
    /\ UNCHANGED <<commits, views, rows>>
    /\ \A q \in Workers : q # p => pc'[q] = pc[q] /\ job'[q] = job[q]
    /\ pc'[p] # "update"
    /\ \/ job'[p] = Done
       \/ /\ job'[p].kind = job[p].kind /\ job'[p].new = job[p].new
          /\ job[p].kind # "Vacuum" => job'[p].ids = job[p].ids

LEMMA StillIsRowQuiet ==
  ASSUME ReadInv, RowInv, NEW p \in Workers, Still(p)
  PROVE RowQuiet(p)
<1>1. Len(rows) \in Nat
  BY DEF ReadInv, SnapInv
<1>2. rows' = rows /\ RowsGrow /\ NextObject \notin 1 .. Len(rows')
  BY <1>1 DEF Still, RowsGrow, NextObject
<1>3. \A q \in Workers : NotLoading(q)
  BY <1>2 DEF NotLoading
<1>4. RowJob(p)'
  <2>1. CASE job'[p] = Done
    BY <2>1 DEF RowJob, Done
  <2>2. CASE /\ job'[p].kind = job[p].kind /\ job'[p].new = job[p].new
             /\ job[p].kind # "Vacuum" => job'[p].ids = job[p].ids
    <3>1. RowJob(p)
      BY DEF RowInv
    <3> QED
      BY <1>2, <1>3, <2>2, <3>1, RowJobStays
  <2> QED
    BY <2>1, <2>2 DEF Still
<1> QED
  BY <1>2, <1>3, <1>4 DEF RowQuiet, Still

LEMMA GoStill ==
  ASSUME ReadInv, NEW p \in Workers, NEW w, NEW j, Go(p, w, j), w # "update",
         UNCHANGED <<commits, views, rows>>,
         \/ j = Done
         \/ /\ j.kind = job[p].kind /\ j.new = job[p].new
            /\ job[p].kind # "Vacuum" => j.ids = job[p].ids
  PROVE Still(p)
  BY OthersStay DEF ReadInv, Inv, IInv, Still

LEMMA StepIsStill ==
  ASSUME ReadInv, NEW p \in Workers,
         (Step(p) /\ ~Create(p)) \/ StorageError(p) \/ LostReply(p) \/ Crash(p)
  PROVE Still(p)
<1> DEFINE j == job[p]
<1>0. DOMAIN j = Fields /\ JobOK(p)
  BY DoneFields DEF ReadInv, Inv, IInv, WorkInv, JobInv
<1>1. ASSUME Return(p), UNCHANGED <<commits, views, rows>> PROVE Still(p)
  BY <1>1, GoStill DEF Return
<1>2. CASE Lookup(p)
  <2>1. CASE Exists(j.branch)
    <3> DEFINE w == IF j.kind = "RemoveBranch" THEN "remove" ELSE "create"
               k == [j EXCEPT !.parent = tips[j.branch]]
    <3>1. Go(p, w, k) /\ UNCHANGED <<commits, views, rows>>
      BY <1>2, <2>1 DEF Lookup
    <3>2. k.kind = j.kind /\ k.new = j.new /\ k.ids = j.ids /\ w # "update"
      BY <1>0 DEF Fields
    <3> HIDE DEF w, k
    <3> QED
      BY <3>1, <3>2, GoStill
  <2>2. CASE ~Exists(j.branch)
    BY <1>1, <1>2, <2>2 DEF Lookup, Fail
  <2> QED
    BY <2>1, <2>2
<1>3. CASE Conflict(p)
  <2>1. CASE j.retries + 1 < MaxRetries
    <3> DEFINE k == [j EXCEPT !.parent = Nil, !.made = Nil, !.retries = @ + 1]
    <3>1. Go(p, "lookup", k) /\ UNCHANGED <<commits, views, rows>>
      BY <1>3, <2>1 DEF Conflict
    <3>2. k.kind = j.kind /\ k.new = j.new /\ k.ids = j.ids
      BY <1>0 DEF Fields
    <3> HIDE DEF k
    <3> QED
      BY <3>1, <3>2, GoStill
  <2>2. CASE ~(j.retries + 1 < MaxRetries)
    BY <1>1, <1>3, <2>2 DEF Conflict, Fail
  <2> QED
    BY <2>1, <2>2
<1>4. CASE VacuumObject(p)
  <2>1. CASE j.ids = <<>>
    BY <1>1, <1>4, <2>1 DEF VacuumObject
  <2>2. CASE j.ids # <<>>
    <3> DEFINE k == [j EXCEPT !.ids = Tail(@)]
    <3>1. pc[p] = "vacuum" /\ Go(p, "vacuum", k) /\ UNCHANGED <<commits, views, rows>>
      BY <1>4, <2>2 DEF VacuumObject
    <3>2. k.kind = j.kind /\ k.new = j.new /\ j.kind = "Vacuum"
      BY <1>0, <3>1 DEF Fields, JobOK
    <3> HIDE DEF k
    <3> QED
      BY <3>1, <3>2, GoStill
  <2> QED
    BY <2>1, <2>2
<1>5. CASE \/ CreateFails(p) \/ Update(p) \/ UpdateFails(p) \/ DeleteBranch(p)
           \/ StorageError(p) \/ LostReply(p) \/ Crash(p)
  BY <1>1, <1>5 DEF CreateFails, Update, UpdateFails, DeleteBranch, StorageError, LostReply, Crash, Fail
<1> QED
  BY <1>2, <1>3, <1>4, <1>5 DEF Step
(* A call begins: what it writes is nobody's loaded row, and its own job   *)
(* says what it wrote.                                                     *)
LEMMA BeginIsRowQuiet ==
  ASSUME ReadInv, NEW p \in Workers, NEW kind, NEW b, NEW ids, NEW from, NEW new, NEW vecs,
         Begin(p, kind, b, ids, from, new, vecs), RowsGrow,
         \A q \in Workers : NotLoading(q),
         \A o \in 1 .. Len(rows') : o = NextObject => rows'[o] \subseteq 1 .. Len(rows'),
         kind = "Load" => \A n \in ToSet(new) :
            rows'[n] = {n} /\ \A o \in 1 .. Len(rows') : o # n => n \notin rows'[o],
         kind = "Compact" => \A n \in ToSet(new) : rows'[n] = Rows(rows', ToSet(ids)),
         kind \in {"Delete", "Compact"} => ToSet(ids) \subseteq 1 .. Len(rows'),
         kind = "DeleteWhere" => \E r : ids = <<r>>
  PROVE RowQuiet(p)
<1> DEFINE j == [Done EXCEPT !.kind = kind, !.branch = b, !.ids = ids,
                             !.from = from, !.new = new, !.vecs = vecs]
           w == IF kind = "Vacuum" THEN "vacuum" ELSE "lookup"
<1>1. Go(p, w, j) /\ UNCHANGED <<commits, views>>
  BY DEF Begin, Go
<1>2. j.kind = kind /\ j.ids = ids /\ j.new = new
  BY DEF Done
<1> HIDE DEF j, w
<1>3. /\ pc'[p] = w /\ job'[p] = j
      /\ \A q \in Workers : q # p => pc'[q] = pc[q] /\ job'[q] = job[q]
  BY <1>1, OthersStay DEF ReadInv, Inv, IInv
<1>4. RowJob(p)'
  BY <1>2, <1>3 DEF RowJob, NewOf
<1> QED
  BY <1>1, <1>3, <1>4 DEF RowQuiet, w

LEMMA StartIsRowQuiet ==
  ASSUME ReadInv, RowInv, Plain, NEW p \in Workers, Start(p)
  PROVE RowQuiet(p)
<1> DEFINE none == <<>>
<1>1. /\ rows \in Seq(SUBSET Nat) /\ Len(rows) \in Nat /\ NextObject \notin 1 .. Len(rows)
      /\ \A o \in 1 .. Len(rows) : rows[o] \subseteq 1 .. Len(rows)
      /\ ToSet(<<NextObject>>) = {NextObject}
  BY ShortLists DEF ReadInv, SnapInv, NextObject, RowInv
<1>2. \A q \in Workers : NewOf(q) \subseteq 1 .. Len(rows)
  BY NewIsWritten DEF ReadInv
<1>3. ASSUME NEW r \in SUBSET Nat, WriteObject(r)
      PROVE /\ RowsGrow /\ Len(rows') = NextObject /\ rows'[NextObject] = r
            /\ \A o \in 1 .. Len(rows) : rows'[o] = rows[o]
            /\ \A o \in 1 .. Len(rows') : o \in 1 .. Len(rows) \/ o = NextObject
            /\ 1 .. Len(rows) \subseteq 1 .. Len(rows') /\ NextObject \in 1 .. Len(rows')
  BY <1>1, <1>3 DEF WriteObject, RowsGrow, NextObject
<1>4. ASSUME rows' = rows
      PROVE /\ RowsGrow /\ \A q \in Workers : NotLoading(q)
            /\ \A o \in 1 .. Len(rows') : o = NextObject => rows'[o] \subseteq 1 .. Len(rows')
  BY <1>1, <1>4 DEF RowsGrow, NotLoading
<1>5. CASE Load(p)
  <2>1. PICK b \in Names : Begin(p, "Load", b, none, Nil, <<NextObject>>, none)
    BY <1>5 DEF Load
  <2>2. WriteObject({NextObject}) /\ {NextObject} \in SUBSET Nat
    BY <1>1, <1>5 DEF Load, NextObject
  <2>3. \A q \in Workers : NotLoading(q)
    BY <1>1, <1>2, <1>3, <2>2 DEF NotLoading
  <2>4. \A o \in 1 .. Len(rows') : o = NextObject => rows'[o] \subseteq 1 .. Len(rows')
    BY <1>3, <2>2
  <2>5. \A n \in ToSet(<<NextObject>>) :
          rows'[n] = {n} /\ \A o \in 1 .. Len(rows') : o # n => n \notin rows'[o]
    BY <1>1, <1>3, <2>2
  <2> QED
    BY <1>3, <2>1, <2>2, <2>3, <2>4, <2>5, BeginIsRowQuiet
<1>6. CASE DeleteOrVectors(p)
  <2>1. PICK kind \in {"Delete", "AddVectors", "DeleteVectors"}, b \in Names, ids \in IDLists :
          Begin(p, kind, b, ids, Nil, none, none) /\ UNCHANGED rows
    BY <1>6 DEF DeleteOrVectors
  <2>2. ToSet(ids) \subseteq 1 .. Len(rows')
    BY <1>1, <2>1, ListedIDs
  <2> QED
    BY <1>4, <2>1, <2>2, BeginIsRowQuiet
<1>7. CASE DeleteWhere(p)
  <2>1. PICK b \in Names, r \in DOMAIN rows :
          Begin(p, "DeleteWhere", b, <<r>>, Nil, none, none) /\ UNCHANGED rows
    BY <1>7 DEF DeleteWhere
  <2> QED
    BY <1>4, <2>1, BeginIsRowQuiet
<1>8. CASE Compact(p)
  <2>1. PICK b \in Names :
          /\ Exists(b)
          /\ \E src \in SUBSET (Objs(tips[b]) \cap data), writeVectors \in BOOLEAN :
               /\ Begin(p, "Compact", b, SetToSeq(src), Nil, <<NextObject>>,
                        IF writeVectors THEN <<NextObject>> ELSE <<>>)
               /\ WriteObject(RowsIn(src))
    BY <1>8 DEF Compact
  <2>2. PICK src \in SUBSET (Objs(tips[b]) \cap data), writeVectors \in BOOLEAN :
          /\ Begin(p, "Compact", b, SetToSeq(src), Nil, <<NextObject>>,
                   IF writeVectors THEN <<NextObject>> ELSE <<>>)
          /\ WriteObject(RowsIn(src))
    BY <2>1
  <2>3. tips[b] \in 0 .. Len(commits) /\ tips[b] \in Reach
    BY <2>1, ReachFacts DEF ReadInv
  <2>4. src \in SUBSET (1 .. Len(rows)) /\ src \subseteq Objs(tips[b])
    BY <2>3, SnapshotOK DEF ReadInv, Objs
  <2>5. ToSet(SetToSeq(src)) = src
    BY <1>1, <2>4, SetToSeqOfFinite
  <2>6. RowsIn(src) = Rows(rows, src) /\ RowsIn(src) \subseteq 1 .. Len(rows)
    BY <1>1, <2>4 DEF RowsIn, Rows
  <2>7. RowsIn(src) \in SUBSET Nat
    BY <1>1, <2>6
  <2>8. ASSUME NEW q \in Workers PROVE NotLoading(q)
    <3> SUFFICES ASSUME job[q].kind = "Load", NEW n \in NewOf(q), n \in RowsIn(src)
                 PROVE FALSE
      BY <1>3, <2>2, <2>7 DEF NotLoading
    <3>1. PICK h \in src : n \in rows[h]
      BY DEF RowsIn
    <3>2. h # n
      BY <2>3, <2>4, <3>1 DEF ReadInv, FreshInv, Has, Objs
    <3> QED
      BY <2>4, <3>1, <3>2 DEF RowInv, RowJob
  <2>9. \A o \in 1 .. Len(rows') : o = NextObject => rows'[o] \subseteq 1 .. Len(rows')
    BY <1>3, <2>2, <2>6, <2>7
  <2>10. Rows(rows, src) = Rows(rows', src)
    <3>1. \A o \in src : rows[o] = rows'[o]
      BY <1>3, <2>2, <2>4, <2>7
    <3> QED
      BY <3>1, RowsAgree
  <2>11. \A n \in ToSet(<<NextObject>>) : rows'[n] = Rows(rows', ToSet(SetToSeq(src)))
    BY <1>1, <1>3, <2>2, <2>5, <2>6, <2>7, <2>10
  <2>12. ToSet(SetToSeq(src)) \subseteq 1 .. Len(rows')
    BY <1>3, <2>2, <2>4, <2>5, <2>7
  <2> QED
    BY <1>3, <2>2, <2>7, <2>8, <2>9, <2>11, <2>12, BeginIsRowQuiet
<1>9. CASE Vacuum(p)
  <2>1. PICK leaf \in Known :
          Begin(p, "Vacuum", NoBranch, SetToSeq(Vacuumable(leaf)), leaf, none, none) /\ UNCHANGED rows
    BY <1>9 DEF Vacuum
  <2> QED
    BY <1>4, <2>1, BeginIsRowQuiet
<1>10. CASE RemoveBranch(p)
  <2>1. PICK b \in Names : Begin(p, "RemoveBranch", b, none, Nil, none, none) /\ UNCHANGED rows
    BY <1>10 DEF RemoveBranch
  <2> QED
    BY <1>4, <2>1, BeginIsRowQuiet
<1>11. CASE Merge(p)
  BY <1>11 DEF Merge, Begin, Plain, NoMerges
<1>12. CASE Revert(p)
  BY <1>12 DEF Revert, Begin, Plain
<1> QED
  BY <1>5, <1>6, <1>7, <1>8, <1>9, <1>10, <1>11, <1>12 DEF Start

LEMMA RowInit == Init => RowInv
<1> SUFFICES ASSUME Init PROVE RowInv
  OBVIOUS
<1>1. /\ commits = <<>> /\ rows = <<>> /\ Len(rows) = 0 /\ Len(commits) = 0
      /\ \A p \in Workers : pc[p] = "idle" /\ job[p] = Done
  BY DEF Init
<1>2. Apart(rows, Objs(0))
  BY DEF Apart, Objs, Snapshot, Nil, NewSnapshot, Nothing, Family
<1>3. \A p \in Workers : RowJob(p) /\ Settled(p)
  BY <1>1 DEF RowJob, Settled, Done
<1> QED
  BY <1>1, <1>2, <1>3 DEF RowInv

LEMMA RowNext ==
  Plain /\ ReadInv /\ RowInv /\ [Next]_vars => Plain' /\ ReadInv' /\ RowInv'
<1> SUFFICES ASSUME Plain, ReadInv, RowInv, [Next]_vars PROVE RowInv'
  BY ReadNext DEF Plain, NoMerges, Next, vars
<1>0. UNCHANGED setting
  BY DEF Next, vars
<1>1. ASSUME NEW p \in Workers, Create(p) PROVE RowInv'
  <2>1. PICK acts \in Constructed(job[p]) : pc[p] = "create" /\ Puts(p, acts)
    BY <1>0, <1>1, CreatePuts
  <2> QED
    BY <2>1, PutKeepsRows
<1>2. ASSUME NEW p \in Workers, Start(p) PROVE RowQuiet(p)
  BY <1>2, StartIsRowQuiet
<1>3. ASSUME NEW p \in Workers,
             (Step(p) /\ ~Create(p)) \/ StorageError(p) \/ LostReply(p) \/ Crash(p)
      PROVE RowQuiet(p)
  BY <1>3, StepIsStill, StillIsRowQuiet
<1>4. ASSUME CreateBranch \/ UNCHANGED vars PROVE \E p : RowQuiet(p)
  <2>1. UNCHANGED <<commits, views, rows, pc, job>>
    BY <1>4 DEF CreateBranch, vars
  <2>2. NextObject \notin 1 .. Len(rows')
    BY <2>1 DEF NextObject, ReadInv, SnapInv
  <2> QED
    BY <2>1, <2>2 DEF RowQuiet, RowsGrow, NotLoading
<1>5. ASSUME NEW p, RowQuiet(p) PROVE RowInv'
  BY <1>5, RowQuietKeeps
<1> QED
  BY <1>1, <1>2, <1>3, <1>4, <1>5 DEF Next

(* No row is in two objects of a branch, whatever loads, deletes, rewrites *)
(* and compactions ran at the same time, failed or were retried.  The      *)
(* operations are any but merges and reverts, called without naming an ID  *)
(* twice; a merge or a revert can bring back objects that were compacted.  *)
THEOREM NoRowTwice == Spec /\ Plain => []NoDuplicateRows
<1>1. ReadInv /\ RowInv => NoDuplicateRows
  <2> SUFFICES ASSUME ReadInv, RowInv, NEW b \in Names, Exists(b) PROVE Apart(rows, Objs(tips[b]))
    BY DEF NoDuplicateRows, Tips, Apart
  <2>1. tips[b] \in 0 .. Len(commits)
    BY ReachFacts DEF ReadInv
  <2> QED
    BY <2>1 DEF RowInv
<1> QED
  BY <1>1, ReadInit, ReadNext, RowInit, RowNext, PTL DEF Spec, Plain
(* The rows an update leaves: those its commit was made with. *)
LEMMA UpdateApplies == Plain /\ ReadInv /\ RowInv => UpdatesApply
<1> SUFFICES ASSUME Plain, ReadInv, RowInv, NEW p \in Workers, Update(p)
             PROVE RowsOf(job[p].made) = Effect(job[p], RowsOf(tips[job[p].branch]))
  BY DEF UpdatesApply
<1> DEFINE j == job[p]
           old == RowsOf(tips[j.branch])
<1>1. pc[p] = "update" /\ tips[j.branch] = j.parent
  BY UpdateOfTip DEF Update, ReadInv, Inv
<1>2. \A c : RowsOf(c) = Rows(rows, Objs(c))
  BY DEF RowsOf, RowsIn, Rows
<1>3. RowsOf(j.made) = Wanted(rows, j, old)
  BY <1>1, <1>2 DEF RowInv, Settled
<1>4. j.kind \in {"Load", "Delete", "DeleteWhere", "Compact", "AddVectors", "DeleteVectors"}
  BY <1>1 DEF Plain, ReadInv, JobInv, JobOK, Building
<1> HIDE DEF old
<1>5. Effect(j, old) = Wanted(rows, j, old)
  <2>1. CASE j.kind = "Load"
    BY <2>1 DEF Effect, Wanted, RowsIn, Rows
  <2>2. CASE j.kind = "Delete"
    BY <2>2 DEF Effect, Wanted, RowsIn, Rows
  <2>3. CASE j.kind = "DeleteWhere"
    BY <2>3 DEF Effect, Wanted
  <2>4. CASE j.kind \in {"Compact", "AddVectors", "DeleteVectors"}
    BY <2>4 DEF Effect, Wanted
  <2> QED
    BY <1>4, <2>1, <2>2, <2>3, <2>4
<1> QED
  BY <1>3, <1>5 DEF old

(* An operation that succeeds changes the rows its branch has when its     *)
(* update takes effect, not when it began, in the way the operation says:  *)
(* a load adds the rows it wrote, a delete takes out those of its objects, *)
(* a delete by filter takes out the row it matches and leaves every other  *)
(* one, and compactions and vectors leave all rows.  Again for any         *)
(* operations but merges and reverts.                                      *)
THEOREM OperationsApply == Spec /\ Plain => AppliesToTip
<1>1. Plain /\ ReadInv /\ RowInv => [UpdatesApply]_vars
  BY UpdateApplies
<1> QED
  BY <1>1, ReadInit, RowInit, RowNext, PTL DEF Spec, AppliesToTip

----------------------------------------------------------------------------
(* The third invariant: where no update is reported as failed after it     *)
(* took effect and a vacuum knows every branch there is, what a branch     *)
(* needs is in storage.  An object that was added on the way to a commit   *)
(* and is not in it is in no later commit either, so a vacuum may delete   *)
(* it; what an operation has written is not on any such way.               *)

Covered ==
    /\ Plain
    /\ setting.lost => "Compact" \notin setting.kinds
    /\ "Vacuum" \in setting.kinds => \A b, n \in setting.names : b = n

Made(c)    == ToSet(commits[c].acts.add.objs)
Added(c)   == UNION {Made(d) : d \in Path[c]}
Pending(p) == NewOf(p) \cup (IF pc[p] = "update" THEN Made(job[p].made) ELSE {})

AddedInv ==
    /\ \A c \in 1 .. Len(commits) : Made(c) \subseteq 1 .. Len(rows)
    /\ \A c \in 0 .. Len(commits) : \A d \in Path[c] : (Added(d) \ Objs(d)) \cap Objs(c) = {}

PendingInv ==
    \A p \in Workers :
        /\ Pending(p) \subseteq data
        /\ \A c \in Reach : Pending(p) \cap Added(c) = {}
        /\ \A q \in Workers : q # p => Pending(p) \cap Pending(q) = {}

KeptInv ==
    /\ \A b \in Names : Exists(b) => b \in setting.names /\ Objs(tips[b]) \subseteq data
    /\ "Vacuum" \notin setting.kinds => \A c \in Reach : Objs(c) \subseteq data

Unneeded(o) ==
    /\ o \in 1 .. Len(rows)
    /\ \A q \in Workers : o \notin Pending(q)
    /\ \A b \in Names : Exists(b) => o \notin Objs(tips[b])

VacuumInv ==
    \A p \in Workers : job[p].kind = "Vacuum" =>
        job[p].ids \in Seq(Nat) /\ \A o \in ToSet(job[p].ids) : Unneeded(o)

DataInv == AddedInv /\ PendingInv /\ KeptInv /\ VacuumInv

(* What a waiting commit adds to its parent's objects, and to those added  *)
(* on the way to it.                                                       *)
LEMMA MadeFacts ==
  ASSUME ReadInv, NEW p \in Workers, pc[p] = "update"
  PROVE /\ job[p].made \in 1 .. Len(commits) /\ job[p].parent \in Reach
        /\ Objs(job[p].made) \subseteq Objs(job[p].parent) \cup Made(job[p].made)
        /\ Added(job[p].made) = Made(job[p].made) \cup Added(job[p].parent)
        /\ Made(job[p].made) \subseteq Pending(p)
<1> DEFINE c == job[p].made
           par == job[p].parent
<1>1. /\ c \in 1 .. Len(commits) /\ commits[c].parent = par /\ par \in Reach /\ par \in 0 .. Len(commits)
      /\ c # Nil
  BY ReachFacts DEF ReadInv, Inv, IInv, OwnInv, Nil
<1>2. Objs(c) \subseteq Objs(par) \cup Made(c)
  <2> DEFINE v == Snapshot(par)
             a == commits[c].acts
  <2>1. /\ v \in Snapshots /\ v.ok /\ ActsTyped(a) /\ Playable(v, a) /\ views[c] = Play(v, a)
    BY <1>1, SnapshotOK DEF ReadInv, SnapInv
  <2>2. Objs(c) = views[c].has.objs /\ Objs(par) = v.has.objs /\ Made(c) = ToSet(a.add.objs)
    BY <1>1 DEF Objs, Made, Snapshot
  <2> HIDE DEF v, a
  <2>3. Play(v, a).has.objs = (v.has.objs \ ToSet(a.del.objs)) \cup ToSet(a.add.objs)
    BY <2>1, PlayResult
  <2> QED
    BY <2>1, <2>2, <2>3
<1>3. Path[c] = {c} \cup Path[par]
  BY <1>1, PathEquation DEF ReadInv, Inv, IInv
<1>4. Added(c) = Made(c) \cup Added(par)
  BY <1>3 DEF Added
<1> QED
  BY <1>1, <1>2, <1>4 DEF Pending

LEMMA PendingIsWritten ==
  ASSUME ReadInv, AddedInv
  PROVE /\ \A p \in Workers : Pending(p) \subseteq 1 .. Len(rows)
        /\ \A c \in 0 .. Len(commits) : Added(c) \subseteq 1 .. Len(rows)
<1>1. ASSUME NEW p \in Workers PROVE Pending(p) \subseteq 1 .. Len(rows)
  BY NewIsWritten, MadeFacts DEF ReadInv, AddedInv, Pending
<1>2. ASSUME NEW c \in 0 .. Len(commits) PROVE Added(c) \subseteq 1 .. Len(rows)
  <2>1. Path[c] \subseteq 1 .. Len(commits)
    BY PathEquation DEF ReadInv, Inv, IInv, TreeInv, PathShape
  <2> QED
    BY <2>1 DEF Added, AddedInv
<1> QED
  BY <1>1, <1>2
(* A step that puts no commit object, as far as data objects go: worker p  *)
(* may write one, delete what it wrote or is to vacuum, and move a tip to  *)
(* the commit it has made.                                                 *)
Moves(p) ==
    /\ p \in Workers /\ pc[p] = "update" /\ Pending(p)' = {} /\ data' = data
    /\ \E n \in Names : Exists(n) /\ tips[n] = job[p].parent

Drops(p, o) ==
    /\ p \in Workers
    /\ \/ o \in NewOf(p) /\ Pending(p)' = {}
       \/ job[p].kind = "Vacuum" /\ o \in ToSet(job[p].ids)

DataQuiet(p) ==
    /\ UNCHANGED <<commits, views, setting>> /\ RowsGrow
    /\ \A o \in data : o \in data' \/ Drops(p, o)
    /\ \A q \in Workers :
         /\ \/ Pending(q)' = Pending(q)
            \/ q = p /\ Pending(p)' \subseteq Pending(p) \cup {NextObject}
         /\ NextObject \in Pending(q)' => NextObject \in data'
         /\ job'[q].kind = "Vacuum" =>
              \/ /\ job[q].kind = "Vacuum" /\ ToSet(job'[q].ids) \subseteq ToSet(job[q].ids)
                 /\ job[q].ids \in Seq(Nat) => job'[q].ids \in Seq(Nat)
              \/ tips' = tips /\ \E leaf \in Known : job'[q].ids = SetToSeq(Vacuumable(leaf))
    /\ \A c \in Reach' : c \in Reach \/ (Moves(p) /\ c = job[p].made)
    /\ \A b \in Names : Exists(b)' =>
         /\ b \in setting.names
         /\ \/ Exists(b) /\ tips'[b] = tips[b]
            \/ Moves(p) /\ tips'[b] = job[p].made
            \/ tips'[b] = Nil
            \/ "Vacuum" \notin setting.kinds /\ tips'[b] \in Reach

LEMMA DataQuietKeeps ==
  ASSUME Covered, ReadInv, ReadInv', DataInv, NEW p, DataQuiet(p)
  PROVE DataInv'
<1>1. /\ Len(commits) \in Nat /\ Reach \subseteq 0 .. Len(commits) /\ Path' = Path
      /\ commits' = commits /\ views' = views /\ setting' = setting
  BY ReachFacts, PathEquation, TreeSame DEF ReadInv, Inv, IInv, DataQuiet
<1>2. \A c : Objs(c)' = Objs(c) /\ Made(c)' = Made(c) /\ Added(c)' = Added(c)
  BY <1>1 DEF Objs, Snapshot, Made, Added
<1>3. Len(rows) \in Nat /\ 1 .. Len(rows) \subseteq 1 .. Len(rows') /\ NextObject \notin 1 .. Len(rows)
  BY RowsKept DEF ReadInv, SnapInv, DataQuiet, NextObject
<1>4. AddedInv'
  <2>1. \A c \in 1 .. Len(commits) : Made(c)' \subseteq 1 .. Len(rows')
    BY <1>2, <1>3 DEF DataInv, AddedInv
  <2>2. \A c \in 0 .. Len(commits) : \A d \in Path[c] : (Added(d)' \ Objs(d)') \cap Objs(c)' = {}
    BY <1>2 DEF DataInv, AddedInv
  <2> QED
    BY <1>1, <2>1, <2>2 DEF AddedInv
<1>5. /\ \A q \in Workers : Pending(q) \subseteq 1 .. Len(rows)
      /\ \A c \in 0 .. Len(commits) : Added(c) \subseteq 1 .. Len(rows)
  BY PendingIsWritten DEF DataInv
<1>6. \A q \in Workers : \/ Pending(q)' = Pending(q)
                         \/ q = p /\ Pending(p)' \subseteq Pending(p) \cup {NextObject}
  BY DEF DataQuiet
<1>7. \A c \in Reach' : c \in Reach \/ (Moves(p) /\ c = job[p].made)
  BY DEF DataQuiet
<1>8. ASSUME Moves(p)
      PROVE /\ Objs(job[p].made) \subseteq Objs(job[p].parent) \cup Made(job[p].made)
            /\ Added(job[p].made) = Made(job[p].made) \cup Added(job[p].parent)
            /\ Made(job[p].made) \subseteq Pending(p) /\ job[p].parent \in Reach
  BY <1>8, MadeFacts DEF Moves
<1>9. /\ \A q \in Workers : Pending(q) \subseteq data
      /\ \A q \in Workers : \A c \in Reach : Pending(q) \cap Added(c) = {}
      /\ \A q, r \in Workers : q # r => Pending(q) \cap Pending(r) = {}
  BY DEF DataInv, PendingInv
<1>10. \A q \in Workers : job[q].kind = "Vacuum" => \A o \in ToSet(job[q].ids) : Unneeded(o)
  BY DEF DataInv, VacuumInv
<1>11. \A o \in data : o \in data' \/ Drops(p, o)
  BY DEF DataQuiet
<1>12. PendingInv'
  <2>1. ASSUME NEW q \in Workers, NEW o \in Pending(q)' PROVE o \in data'
    <3>1. CASE o = NextObject
      BY <2>1, <3>1 DEF DataQuiet
    <3>2. CASE o \in Pending(q)
      <4>1. o \in data
        BY <1>9, <3>2
      <4>2. CASE p \in Workers /\ o \in NewOf(p) /\ Pending(p)' = {}
        BY <1>9, <2>1, <3>2, <4>2 DEF Pending
      <4>3. CASE p \in Workers /\ job[p].kind = "Vacuum" /\ o \in ToSet(job[p].ids)
        BY <1>10, <3>2, <4>3 DEF Unneeded
      <4> QED
        BY <1>11, <4>1, <4>2, <4>3 DEF Drops
    <3> QED
      BY <1>6, <2>1, <3>1, <3>2
  <2>2. ASSUME NEW q \in Workers, NEW c \in Reach' PROVE Pending(q)' \cap Added(c) = {}
    <3>1. CASE c \in Reach
      BY <1>1, <1>3, <1>5, <1>6, <1>9, <3>1
    <3>2. CASE Moves(p) /\ c = job[p].made
      <4>1. CASE q = p
        BY <3>2, <4>1 DEF Moves
      <4>2. CASE q # p
        BY <1>6, <1>8, <1>9, <3>2, <4>2 DEF Moves
      <4> QED
        BY <4>1, <4>2
    <3> QED
      BY <1>7, <3>1, <3>2
  <2>3. ASSUME NEW q \in Workers, NEW r \in Workers, r # q PROVE Pending(q)' \cap Pending(r)' = {}
    BY <1>3, <1>5, <1>6, <1>9, <2>3
  <2>4. \A q \in Workers : \A c \in Reach' : Pending(q)' \cap Added(c)' = {}
    BY <1>2, <2>2
  <2> QED
    BY <2>1, <2>3, <2>4 DEF PendingInv
<1>13. \A c \in Reach : \A o \in NewOf(p) : p \in Workers => o \notin Objs(c)
  BY DEF ReadInv, FreshInv, Has, Objs
<1>14. Objs(Nil) = {}
  BY DEF Objs, Snapshot, NewSnapshot, Nothing, Family
<1>15. \A b \in Names : Exists(b) => tips[b] \in Reach
  BY ReachFacts DEF ReadInv
<1>16. /\ \A q \in Workers : job[q].kind = "Vacuum" => "Vacuum" \in setting.kinds
       /\ \A q \in Workers : job'[q].kind = "Vacuum" => "Vacuum" \in setting.kinds
  <2>1. \A q \in Workers : JobOK(q) /\ JobOK(q)'
    BY DEF ReadInv, JobInv
  <2> QED
    BY <1>1, <2>1 DEF JobOK
<1>17. /\ \A b \in Names : Exists(b) => b \in setting.names /\ Objs(tips[b]) \subseteq data
       /\ "Vacuum" \notin setting.kinds => \A c \in Reach : Objs(c) \subseteq data
  BY DEF DataInv, KeptInv
<1>18. Moves(p) => Objs(job[p].made) \subseteq data'
  <2> SUFFICES ASSUME Moves(p) PROVE Objs(job[p].made) \subseteq data
    BY DEF Moves
  <2>1. Objs(job[p].parent) \subseteq data
    BY <1>17 DEF Moves
  <2> QED
    BY <1>8, <1>9, <2>1 DEF Moves
<1>19. "Vacuum" \notin setting.kinds => \A c \in Reach' : Objs(c) \subseteq data'
  BY <1>7, <1>11, <1>13, <1>16, <1>17, <1>18 DEF Drops
<1>20. ASSUME NEW b \in Names, Exists(b)' PROVE b \in setting.names /\ Objs(tips'[b]) \subseteq data'
  <2>1. CASE Exists(b) /\ tips'[b] = tips[b]
    <3>1. \A o \in Objs(tips[b]) : o \in data /\ ~Drops(p, o)
      BY <1>10, <1>13, <1>15, <1>17, <2>1 DEF Drops, Unneeded
    <3> QED
      BY <1>11, <1>17, <2>1, <3>1
  <2>2. CASE Moves(p) /\ tips'[b] = job[p].made
    BY <1>18, <1>20, <2>2 DEF DataQuiet
  <2>3. CASE tips'[b] = Nil
    BY <1>14, <1>20, <2>3 DEF DataQuiet
  <2>4. CASE "Vacuum" \notin setting.kinds /\ tips'[b] \in Reach
    BY <1>11, <1>13, <1>16, <1>17, <1>20, <2>4 DEF Drops, DataQuiet
  <2> QED
    BY <1>20, <2>1, <2>2, <2>3, <2>4 DEF DataQuiet
<1>21. \A b \in Names : Objs(tips[b])' = Objs(tips'[b])
  BY <1>1 DEF Objs, Snapshot
<1>22. KeptInv'
  BY <1>1, <1>2, <1>19, <1>20, <1>21 DEF KeptInv
<1>23. ASSUME NEW o \in 1 .. Len(rows), \A q \in Workers : o \notin Pending(q),
              \A b \in Names : Exists(b)' => o \notin Objs(tips'[b])
       PROVE Unneeded(o)'
  <2>1. \A q \in Workers : o \notin Pending(q)'
    BY <1>3, <1>6, <1>23
  <2> QED
    BY <1>3, <1>21, <1>23, <2>1 DEF Unneeded
<1>24. VacuumInv'
  <2> SUFFICES ASSUME NEW q \in Workers, job'[q].kind = "Vacuum"
               PROVE job'[q].ids \in Seq(Nat) /\ \A o \in ToSet(job'[q].ids) : Unneeded(o)'
    BY DEF VacuumInv, Unneeded
  <2>1. CASE /\ job[q].kind = "Vacuum" /\ ToSet(job'[q].ids) \subseteq ToSet(job[q].ids)
             /\ job[q].ids \in Seq(Nat) => job'[q].ids \in Seq(Nat)
    <3>1. job[q].ids \in Seq(Nat)
      BY <2>1 DEF DataInv, VacuumInv
    <3>2. ASSUME NEW o \in ToSet(job[q].ids) PROVE Unneeded(o)'
      <4>1. /\ o \in 1 .. Len(rows) /\ \A r \in Workers : o \notin Pending(r)
            /\ \A b \in Names : Exists(b) => o \notin Objs(tips[b])
        BY <1>10, <2>1, <3>2 DEF Unneeded
      <4>2. Moves(p) => o \notin Objs(job[p].made)
        BY <1>8, <4>1 DEF Moves
      <4>3. \A b \in Names : Exists(b)' => o \notin Objs(tips'[b])
        BY <1>14, <1>16, <2>1, <4>1, <4>2 DEF DataQuiet
      <4> QED
        BY <1>23, <4>1, <4>3
    <3> QED
      BY <2>1, <3>1, <3>2
  <2>2. CASE tips' = tips /\ \E leaf \in Known : job'[q].ids = SetToSeq(Vacuumable(leaf))
    <3>1. PICK leaf \in Known : job'[q].ids = SetToSeq(Vacuumable(leaf))
      BY <2>2
    <3>2. PICK n \in Names : Exists(n) /\ leaf \in Path[tips[n]]
      BY <3>1 DEF Known
    <3>3. leaf \in Reach /\ leaf \in 0 .. Len(commits) /\ tips[n] \in 0 .. Len(commits)
      BY <1>1, <1>15, <3>2, ReachFacts DEF ReadInv
    <3>4. \A b \in Names : Exists(b) => b = n
      BY <1>16, <1>17, <3>2 DEF Covered
    <3>5. Vacuumable(leaf) \subseteq Added(leaf) \ Objs(leaf)
      BY DEF Vacuumable, Added, Made
    <3>6. ASSUME NEW o \in Vacuumable(leaf) PROVE Unneeded(o)'
      <4>1. o \in 1 .. Len(rows) /\ \A r \in Workers : o \notin Pending(r)
        BY <1>5, <1>9, <3>3, <3>5, <3>6
      <4>2. o \notin Objs(tips[n])
        BY <3>2, <3>3, <3>5, <3>6 DEF DataInv, AddedInv
      <4>3. \A b \in Names : Exists(b)' => o \notin Objs(tips'[b])
        BY <2>2, <3>4, <4>2 DEF Exists
      <4> QED
        BY <1>23, <4>1, <4>3
    <3>7. Vacuumable(leaf) \in SUBSET (1 .. Len(rows))
      BY <1>5, <3>3, <3>5
    <3>8. SetToSeq(Vacuumable(leaf)) \in Seq(Nat) /\ ToSet(SetToSeq(Vacuumable(leaf))) = Vacuumable(leaf)
      BY <1>3, <3>7, SetToSeqOfFinite
    <3> QED
      BY <3>1, <3>6, <3>8
  <2> QED
    BY <2>1, <2>2 DEF DataQuiet
<1> QED
  BY <1>4, <1>12, <1>22, <1>24 DEF DataInv
(* A commit adds what its operation has written, or writes now. *)
LEMMA AddsOwn ==
  ASSUME Plain, ReadInv, NEW p \in Workers, pc[p] = "create", NEW acts \in Constructed(job[p])
  PROVE \/ ToSet(acts.add.objs) \subseteq NewOf(p)
        \/ /\ job[p].kind = "DeleteWhere" /\ acts.add.objs # <<>>
           /\ ToSet(acts.add.objs) \subseteq {NextObject}
<1> DEFINE j == job[p]
           v == Snapshot(j.parent)
<1>1. j.kind \in Building \ {"Revert"}
  BY AtCreate DEF Plain, ReadInv, JobInv, JobOK, Building
<1>2. CASE j.kind = "Load"
  <2>1. acts = Actions(<<>>, j.new, <<>>, <<>>)
    BY <1>2 DEF Constructed
  <2> QED
    BY <2>1, ActionsParts DEF NewOf
<1>3. CASE j.kind \in {"Delete", "AddVectors", "DeleteVectors"}
  <2>1. \/ acts = Actions(j.ids, <<>>, <<>>, <<>>)
        \/ acts = Actions(<<>>, <<>>, <<>>, j.ids)
        \/ acts = Actions(<<>>, <<>>, j.ids, <<>>)
    BY <1>3 DEF Constructed, Deletes, AddsVectors, DeletesVectors
  <2> QED
    BY <2>1, ActionsParts, ShortLists
<1>4. CASE j.kind = "Compact"
  <2>1. acts \in Compacts(v, j.ids, j.new, j.vecs)
    BY <1>4 DEF Constructed
  <2> QED
    BY <1>4, <2>1, CompactsFit DEF NewOf
<1>5. CASE j.kind = "DeleteWhere"
  <2>1. acts \in Rewrites(v, j.ids[1])
    BY <1>5 DEF Constructed
  <2>2. ToSet(acts.add.objs) \subseteq {NextObject}
    BY <1>5, <2>1, RewritesFit
  <2>3. acts.add.objs = <<>> => ToSet(acts.add.objs) = {}
    BY ShortLists
  <2> QED
    BY <1>5, <2>2, <2>3
<1> QED
  BY <1>1, <1>2, <1>3, <1>4, <1>5 DEF Building

LEMMA PutKeepsData ==
  ASSUME Covered, ReadInv, DataInv, NEW p \in Workers, pc[p] = "create",
         NEW acts \in Constructed(job[p]), Puts(p, acts)
  PROVE DataInv'
<1> DEFINE N == Len(commits)
           c == N + 1
           par == job[p].parent
           adds == ToSet(acts.add.objs)
<1>1. /\ N \in Nat /\ Len(commits') = c /\ RowsGrow /\ rows \in Seq(SUBSET Nat)
      /\ \A d \in 1 .. N : commits'[d] = commits[d]
      /\ commits'[c] = [parent |-> par, acts |-> acts]
      /\ \A d \in 0 .. N : Snapshot(d)' = Snapshot(d) /\ Path'[d] = Path[d]
      /\ Path'[c] = {c} \cup Path[par]
      /\ \A q \in Workers : q # p => pc'[q] = pc[q] /\ job'[q] = job[q]
      /\ pc'[p] = "update" /\ job'[p] = [job[p] EXCEPT !.made = c]
      /\ tips' = tips
  BY PutShape
<1>2. /\ Len(rows) \in Nat /\ 1 .. Len(rows) \subseteq 1 .. Len(rows') /\ NextObject \notin 1 .. Len(rows)
  BY <1>1, RowsKept DEF NextObject
<1>3. /\ par \in Reach /\ par \in 0 .. N /\ Reach \subseteq 0 .. N
      /\ \A b \in Names : Exists(b) => tips[b] \in Reach
      /\ \A d \in Reach : Path[d] \subseteq Reach
      /\ Nil \in Reach /\ \A q \in Workers : job[q].parent \in Reach /\ job[q].from \in Reach
  BY AtCreate, ReachFacts DEF ReadInv
<1>4. \A d \in 0 .. N : Path[d] \subseteq 1 .. N
  BY <1>1 DEF ReadInv, Inv, IInv, TreeInv, PathShape
<1>5. DOMAIN job[p] = Fields
  BY DoneFields DEF ReadInv, Inv, IInv, WorkInv
<1>6. \A q \in Workers : /\ job'[q].kind = job[q].kind /\ job'[q].new = job[q].new
                         /\ job'[q].ids = job[q].ids /\ job'[q].parent = job[q].parent
                         /\ job'[q].from = job[q].from
  BY <1>1, <1>5 DEF Fields
<1>7. job'[p].made = c
  BY <1>1, <1>5 DEF Fields
<1>8. Reach' \subseteq Reach
  BY <1>1, <1>3, <1>6, ReachNext DEF Exists
<1>9. \A d \in 0 .. N : Objs(d)' = Objs(d)
  BY <1>1 DEF Objs
<1>10. \A d \in 1 .. N : Made(d)' = Made(d)
  BY <1>1 DEF Made
<1>11. \A d \in 0 .. N : Added(d)' = Added(d)
  BY <1>1, <1>4, <1>10 DEF Added
<1>12. \A d : d = c => Made(d)' = adds
  BY <1>1 DEF Made
<1>13. \A d : d = c => Objs(d)' \subseteq Objs(par) \cup adds
  <2>1. Play(Snapshot(par), acts).has.objs \subseteq Objs(par) \cup adds
    BY Constructs, AtCreate, PlayResult DEF Fits, Objs
  <2>2. \A d : d = c => Snapshot(d)' = views'[d]
    BY PutShape
  <2>3. views'[c] = Play(Snapshot(par), acts)
    <3>1. views' = Append(views, Play(Snapshot(par), acts))
      BY DEF Puts
    <3>2. views \in Seq(Snapshots) /\ Len(views) = N
      BY DEF ReadInv, SnapInv
    <3> QED
      BY <3>1, <3>2
  <2> QED
    BY <2>1, <2>2, <2>3 DEF Objs
<1>14. data \subseteq data' /\ setting' = setting
  BY DEF Puts, WriteObject
<1>15. adds \subseteq NewOf(p) \cup {NextObject}
  BY AddsOwn DEF Covered
<1>16. NextObject \in adds => NextObject \in data' /\ NextObject \in 1 .. Len(rows')
  <2> SUFFICES ASSUME NextObject \in adds PROVE NextObject \in data' /\ NextObject \in 1 .. Len(rows')
    OBVIOUS
  <2>1. NewOf(p) \subseteq 1 .. Len(rows)
    BY NewIsWritten DEF ReadInv
  <2>2. job[p].kind = "DeleteWhere" /\ acts.add.objs # <<>>
    BY <1>2, <2>1, AddsOwn DEF Covered
  <2>3. WriteObject(Left(Snapshot(par), job[p].ids[1]))
    BY <2>2 DEF Puts
  <2> QED
    BY <1>1, <1>2, <2>3 DEF WriteObject, NextObject
<1> HIDE DEF adds
<1>17. \A q \in Workers : \/ q # p /\ Pending(q)' = Pending(q)
                          \/ q = p /\ Pending(p)' = NewOf(p) \cup adds
  <2>1. ASSUME NEW q \in Workers, q # p PROVE Pending(q)' = Pending(q)
    <3>1. NewOf(q)' = NewOf(q)
      BY <1>6 DEF NewOf
    <3>2. CASE pc[q] = "update"
      <4>1. job[q].made \in 1 .. N /\ job'[q].made = job[q].made
        BY <1>1, <2>1, <3>2, MadeFacts
      <4>2. Made(job[q].made)' = Made(job[q].made)
        BY <1>1, <4>1 DEF Made
      <4> QED
        BY <1>1, <2>1, <3>1, <4>2 DEF Pending
    <3>3. CASE pc[q] # "update"
      BY <1>1, <2>1, <3>1, <3>3 DEF Pending
    <3> QED
      BY <3>2, <3>3
  <2>2. Pending(p)' = NewOf(p) \cup adds
    <3>1. Made(job[p].made)' = adds /\ NewOf(p)' = NewOf(p)
      BY <1>6, <1>7, <1>12 DEF Made, NewOf
    <3> QED
      BY <1>1, <3>1 DEF Pending
  <2> QED
    BY <2>1, <2>2
<1>18. \A q \in Workers : \/ Pending(q)' = Pending(q)
                          \/ q = p /\ Pending(p)' \subseteq Pending(p) \cup {NextObject}
  BY <1>15, <1>17 DEF Pending
<1>19. /\ \A q \in Workers : Pending(q) \subseteq 1 .. Len(rows)
       /\ \A d \in 0 .. N : Added(d) \subseteq 1 .. Len(rows)
  BY PendingIsWritten DEF DataInv
<1>20. /\ \A q \in Workers : Pending(q) \subseteq data
       /\ \A q \in Workers : \A d \in Reach : Pending(q) \cap Added(d) = {}
       /\ \A q, r \in Workers : q # r => Pending(q) \cap Pending(r) = {}
  BY DEF DataInv, PendingInv
<1>21. PendingInv'
  <2>1. \A q \in Workers : Pending(q)' \subseteq data'
    BY <1>14, <1>15, <1>16, <1>17, <1>20 DEF Pending
  <2>2. \A q \in Workers : \A d \in Reach : Pending(q)' \cap Added(d) = {}
    BY <1>2, <1>3, <1>18, <1>19, <1>20
  <2>3. \A q \in Workers : \A d \in Reach' : Pending(q)' \cap Added(d)' = {}
    BY <1>3, <1>8, <1>11, <2>2
  <2>4. ASSUME NEW q \in Workers, NEW r \in Workers, r # q PROVE Pending(q)' \cap Pending(r)' = {}
    BY <1>2, <1>18, <1>19, <1>20, <2>4
  <2> QED
    BY <2>1, <2>3, <2>4 DEF PendingInv
<1>22. AddedInv'
  <2>1. ASSUME NEW d \in 1 .. Len(commits') PROVE Made(d)' \subseteq 1 .. Len(rows')
    <3>1. CASE d \in 1 .. N
      BY <1>2, <1>10, <3>1 DEF DataInv, AddedInv
    <3>2. CASE d = c
      <4>1. adds \subseteq 1 .. Len(rows')
        BY <1>2, <1>15, <1>16, NewIsWritten DEF ReadInv
      <4> QED
        BY <1>12, <3>2, <4>1
    <3> QED
      BY <1>1, <2>1, <3>1, <3>2
  <2>2. ASSUME NEW e \in 0 .. Len(commits'), NEW d \in Path'[e]
        PROVE (Added(d)' \ Objs(d)') \cap Objs(e)' = {}
    <3>1. CASE e \in 0 .. N
      <4>1. d \in Path[e] /\ d \in 0 .. N
        BY <1>1, <1>4, <2>2, <3>1
      <4>2. (Added(d) \ Objs(d)) \cap Objs(e) = {}
        BY <3>1, <4>1 DEF DataInv, AddedInv
      <4> QED
        BY <1>9, <1>11, <3>1, <4>1, <4>2
    <3>2. CASE e = c /\ d = c
      BY <3>2
    <3>3. CASE e = c /\ d # c
      <4>1. d \in Path[par] /\ d \in 0 .. N
        BY <1>1, <1>3, <1>4, <2>2, <3>3
      <4>2. (Added(d) \ Objs(d)) \cap Objs(par) = {}
        BY <1>3, <4>1 DEF DataInv, AddedInv
      <4>3. Added(d) \cap adds = {}
        BY <1>2, <1>3, <1>15, <1>19, <1>20, <4>1 DEF Pending
      <4> QED
        BY <1>9, <1>11, <1>13, <3>3, <4>1, <4>2, <4>3
    <3> QED
      BY <1>1, <2>2, <3>1, <3>2, <3>3
  <2> QED
    BY <2>1, <2>2 DEF AddedInv
<1>23. \A b \in Names : Exists(b) => Objs(tips[b])' = Objs(tips[b])
  <2>1. \A b \in Names : Exists(b) => tips[b] \in 0 .. N /\ tips'[b] = tips[b]
    BY <1>1, <1>3
  <2>2. \A b \in Names : \A d : d = tips'[b] => Objs(tips[b])' = Objs(d)'
    BY DEF Objs, Snapshot
  <2> QED
    BY <1>9, <2>1, <2>2
<1>24. KeptInv'
  BY <1>1, <1>3, <1>8, <1>9, <1>14, <1>23 DEF DataInv, KeptInv, Exists
<1>25. VacuumInv'
  <2>1. ASSUME NEW q \in Workers, job[q].kind = "Vacuum"
        PROVE job[q].ids \in Seq(Nat) /\ \A o \in ToSet(job[q].ids) : Unneeded(o)'
    <3>1. job[q].ids \in Seq(Nat) /\ \A o \in ToSet(job[q].ids) : Unneeded(o)
      BY <2>1 DEF DataInv, VacuumInv
    <3>2. ASSUME NEW o, Unneeded(o) PROVE Unneeded(o)'
      <4>1. o \in 1 .. Len(rows') /\ \A r \in Workers : o \notin Pending(r)'
        BY <1>2, <1>18, <3>2 DEF Unneeded
      <4>2. \A b \in Names : Exists(b)' => o \notin Objs(tips[b])'
        BY <1>1, <1>23, <3>2 DEF Unneeded, Exists
      <4> QED
        BY <4>1, <4>2 DEF Unneeded
    <3> QED
      BY <3>1, <3>2
  <2> QED
    BY <1>6, <2>1 DEF VacuumInv, Unneeded
<1> QED
  BY <1>21, <1>22, <1>24, <1>25 DEF DataInv
(* The commits in reach when no tip moves and worker p goes on from one.  *)
SameTips == \A b \in Names : Exists(b)' => Exists(b) /\ tips'[b] = tips[b]

LEMMA GoIsDataQuiet ==
  ASSUME ReadInv, DataInv, NEW p \in Workers, NEW w, NEW j, Go(p, w, j), w # "update",
         UNCHANGED <<commits, views, setting>>, RowsGrow, SameTips,
         j.parent \in Reach, j.from \in Reach,
         ToSet(j.new) \subseteq NewOf(p) \cup {NextObject},
         NextObject \in ToSet(j.new) => NextObject \in data',
         \A o \in data : \/ o \in data'
                         \/ o \in NewOf(p) /\ ToSet(j.new) = {}
                         \/ job[p].kind = "Vacuum" /\ o \in ToSet(job[p].ids),
         j.kind = "Vacuum" =>
            \/ /\ job[p].kind = "Vacuum" /\ ToSet(j.ids) \subseteq ToSet(job[p].ids)
               /\ job[p].ids \in Seq(Nat) => j.ids \in Seq(Nat)
            \/ tips' = tips /\ \E leaf \in Known : j.ids = SetToSeq(Vacuumable(leaf))
  PROVE DataQuiet(p)
<1>1. /\ pc'[p] = w /\ job'[p] = j
      /\ \A q \in Workers : q # p => pc'[q] = pc[q] /\ job'[q] = job[q]
  BY OthersStay DEF ReadInv, Inv, IInv
<1>2. Pending(p)' = ToSet(j.new)
  BY <1>1 DEF Pending, NewOf
<1>3. \A q \in Workers : q # p => Pending(q)' = Pending(q)
  BY <1>1 DEF Pending, NewOf, Made
<1>4. /\ \A b \in Names : Exists(b) => tips[b] \in Reach
      /\ \A q \in Workers : job[q].parent \in Reach /\ job[q].from \in Reach
      /\ Nil \in Reach /\ \A c \in Reach : Path[c] \subseteq Reach
      /\ Path' = Path
  BY ReachFacts, TreeSame DEF ReadInv, Inv, IInv
<1>5. Reach' \subseteq Reach
  <2>1. \A q \in Workers : job'[q].parent \in Reach /\ job'[q].from \in Reach
    BY <1>1, <1>4
  <2>2. \A b \in Names : Exists(b)' => tips'[b] \in Reach
    BY <1>4 DEF SameTips
  <2> QED
    BY <1>4, <2>1, <2>2, ReachNext
<1>6. \A q \in Workers : NextObject \notin Pending(q)
  <2>1. Len(rows) \in Nat
    BY DEF ReadInv, SnapInv
  <2> QED
    BY <2>1, PendingIsWritten DEF DataInv, NextObject
<1>7. \A b \in Names : Exists(b)' => b \in setting.names /\ Exists(b) /\ tips'[b] = tips[b]
  BY DEF SameTips, DataInv, KeptInv
<1>8. ASSUME NEW q \in Workers
      PROVE /\ \/ Pending(q)' = Pending(q)
               \/ q = p /\ Pending(p)' \subseteq Pending(p) \cup {NextObject}
            /\ NextObject \in Pending(q)' => NextObject \in data'
            /\ job'[q].kind = "Vacuum" =>
                 \/ /\ job[q].kind = "Vacuum" /\ ToSet(job'[q].ids) \subseteq ToSet(job[q].ids)
                    /\ job[q].ids \in Seq(Nat) => job'[q].ids \in Seq(Nat)
                 \/ tips' = tips /\ \E leaf \in Known : job'[q].ids = SetToSeq(Vacuumable(leaf))
  <2>1. CASE q = p
    <3>1. NewOf(p) \subseteq Pending(p)
      BY DEF Pending
    <3> QED
      BY <1>1, <1>2, <2>1, <3>1
  <2>2. CASE q # p
    BY <1>1, <1>3, <1>6, <2>2
  <2> QED
    BY <2>1, <2>2
<1>9. \A o \in data : o \in data' \/ Drops(p, o)
  BY <1>2 DEF Drops
<1> QED
  BY <1>5, <1>7, <1>8, <1>9 DEF DataQuiet
LEMMA ReturnIsDataQuiet ==
  ASSUME ReadInv, DataInv, NEW p \in Workers, Return(p), SameTips,
         UNCHANGED <<commits, views, rows, setting>>,
         data' = data \/ data' = data \ NewOf(p)
  PROVE DataQuiet(p)
<1>1. Done.kind = "none" /\ Done.parent = Nil /\ Done.from = Nil /\ ToSet(Done.new) = {}
  BY ShortLists DEF Done
<1>2. Nil \in Reach /\ RowsGrow
  BY ReachFacts DEF ReadInv, RowsGrow
<1>3. \A o \in data : \/ o \in data'
                      \/ o \in NewOf(p) /\ ToSet(Done.new) = {}
                      \/ job[p].kind = "Vacuum" /\ o \in ToSet(job[p].ids)
  BY <1>1
<1>4. Go(p, "idle", Done) /\ UNCHANGED <<commits, views, setting>>
  BY DEF Return
<1> QED
  BY <1>1, <1>2, <1>3, <1>4, GoIsDataQuiet

LEMMA BeginIsDataQuiet ==
  ASSUME ReadInv, DataInv, NEW p \in Workers, NEW kind, NEW b, NEW ids, NEW from \in Reach, NEW new,
         NEW vecs, Begin(p, kind, b, ids, from, new, vecs), RowsGrow, UNCHANGED setting,
         data \subseteq data', ToSet(new) \subseteq {NextObject},
         NextObject \in ToSet(new) => NextObject \in data',
         kind = "Vacuum" => \E leaf \in Known : ids = SetToSeq(Vacuumable(leaf))
  PROVE DataQuiet(p)
<1> DEFINE j == [Done EXCEPT !.kind = kind, !.branch = b, !.ids = ids,
                             !.from = from, !.new = new, !.vecs = vecs]
           w == IF kind = "Vacuum" THEN "vacuum" ELSE "lookup"
<1>1. Go(p, w, j) /\ UNCHANGED <<commits, views, tips>>
  BY DEF Begin, Go
<1>2. j.kind = kind /\ j.ids = ids /\ j.new = new /\ j.from = from /\ j.parent = Nil /\ w # "update"
  BY DEF Done
<1> HIDE DEF j, w
<1>3. Nil \in Reach /\ SameTips
  BY <1>1, ReachFacts DEF ReadInv, SameTips, Exists
<1>4. \A o \in data : \/ o \in data'
                      \/ o \in NewOf(p) /\ ToSet(j.new) = {}
                      \/ job[p].kind = "Vacuum" /\ o \in ToSet(job[p].ids)
  OBVIOUS
<1>5. j.kind = "Vacuum" =>
        \/ /\ job[p].kind = "Vacuum" /\ ToSet(j.ids) \subseteq ToSet(job[p].ids)
           /\ job[p].ids \in Seq(Nat) => j.ids \in Seq(Nat)
        \/ tips' = tips /\ \E leaf \in Known : j.ids = SetToSeq(Vacuumable(leaf))
  BY <1>1, <1>2
<1>6. UNCHANGED <<commits, views, setting>> /\ ToSet(j.new) \subseteq NewOf(p) \cup {NextObject}
  BY <1>1, <1>2
<1> QED
  BY <1>1, <1>2, <1>3, <1>4, <1>5, <1>6, GoIsDataQuiet

LEMMA StartIsDataQuiet ==
  ASSUME ReadInv, DataInv, Plain, UNCHANGED setting, NEW p \in Workers, Start(p)
  PROVE DataQuiet(p)
<1> DEFINE none == <<>>
<1>1. /\ rows \in Seq(SUBSET Nat) /\ Len(rows) \in Nat /\ ToSet(none) = {}
      /\ ToSet(<<NextObject>>) = {NextObject} /\ Nil \in Reach /\ Known \subseteq Reach
  BY ShortLists, ReachFacts DEF ReadInv, SnapInv, NextObject
<1>0. ASSUME NEW kind, NEW b, NEW ids, NEW new, NEW vecs, kind # "Vacuum",
             Begin(p, kind, b, ids, Nil, new, vecs), RowsGrow, data \subseteq data',
             ToSet(new) \subseteq {NextObject}, NextObject \in ToSet(new) => NextObject \in data'
      PROVE DataQuiet(p)
  BY <1>0, <1>1, BeginIsDataQuiet
<1>2. ASSUME NEW r \in SUBSET Nat, WriteObject(r)
      PROVE RowsGrow /\ data \subseteq data' /\ NextObject \in data'
  BY <1>2 DEF WriteObject, RowsGrow
<1>3. ASSUME UNCHANGED <<rows, data>> PROVE RowsGrow /\ data \subseteq data'
  BY <1>3 DEF RowsGrow
<1>4. CASE Load(p)
  <2>1. PICK b \in Names : Begin(p, "Load", b, none, Nil, <<NextObject>>, none)
    BY <1>4 DEF Load
  <2>2. WriteObject({NextObject}) /\ {NextObject} \in SUBSET Nat
    BY <1>1, <1>4 DEF Load, NextObject
  <2>3. /\ RowsGrow /\ data \subseteq data' /\ NextObject \in data'
        /\ ToSet(<<NextObject>>) \subseteq {NextObject}
    BY <1>1, <1>2, <2>2
  <2> QED
    BY <1>0, <2>1, <2>3
<1>5. CASE DeleteOrVectors(p)
  <2>1. PICK kind \in {"Delete", "AddVectors", "DeleteVectors"}, b \in Names, ids \in IDLists :
          Begin(p, kind, b, ids, Nil, none, none) /\ UNCHANGED <<rows, data>>
    BY <1>5 DEF DeleteOrVectors
  <2>2. /\ RowsGrow /\ data \subseteq data' /\ kind # "Vacuum"
        /\ ToSet(none) \subseteq {NextObject} /\ NextObject \notin ToSet(none)
    BY <1>1, <1>3, <2>1
  <2> QED
    BY <1>0, <2>1, <2>2
<1>6. CASE DeleteWhere(p)
  <2>1. PICK b \in Names, r \in DOMAIN rows :
          Begin(p, "DeleteWhere", b, <<r>>, Nil, none, none) /\ UNCHANGED <<rows, data>>
    BY <1>6 DEF DeleteWhere
  <2> QED
    BY <1>0, <1>1, <1>3, <2>1
<1>7. CASE Compact(p)
  <2>1. PICK b \in Names :
          /\ Exists(b)
          /\ \E src \in SUBSET (Objs(tips[b]) \cap data), writeVectors \in BOOLEAN :
               /\ Begin(p, "Compact", b, SetToSeq(src), Nil, <<NextObject>>,
                        IF writeVectors THEN <<NextObject>> ELSE <<>>)
               /\ WriteObject(RowsIn(src))
    BY <1>7 DEF Compact
  <2>2. PICK src \in SUBSET (Objs(tips[b]) \cap data), writeVectors \in BOOLEAN :
          /\ Begin(p, "Compact", b, SetToSeq(src), Nil, <<NextObject>>,
                   IF writeVectors THEN <<NextObject>> ELSE <<>>)
          /\ WriteObject(RowsIn(src))
    BY <2>1
  <2>3. tips[b] \in 0 .. Len(commits)
    BY <2>1, ReachFacts DEF ReadInv
  <2>4. src \in SUBSET (1 .. Len(rows))
    BY <2>3, SnapshotOK DEF ReadInv, Objs
  <2>5. RowsIn(src) \in SUBSET Nat
    BY <1>1, <2>4 DEF RowsIn
  <2>6. /\ RowsGrow /\ data \subseteq data' /\ NextObject \in data'
        /\ ToSet(<<NextObject>>) \subseteq {NextObject}
    BY <1>1, <1>2, <2>2, <2>5
  <2> QED
    BY <1>0, <2>2, <2>6
<1>8. CASE Vacuum(p)
  <2>1. PICK leaf \in Known :
          /\ Begin(p, "Vacuum", NoBranch, SetToSeq(Vacuumable(leaf)), leaf, none, none)
          /\ UNCHANGED <<rows, data>>
    BY <1>8 DEF Vacuum
  <2>2. /\ RowsGrow /\ data \subseteq data' /\ leaf \in Reach
        /\ ToSet(none) \subseteq {NextObject} /\ NextObject \notin ToSet(none)
    BY <1>1, <1>3, <2>1
  <2>3. \E n \in Known : SetToSeq(Vacuumable(leaf)) = SetToSeq(Vacuumable(n))
    OBVIOUS
  <2> QED
    BY <2>1, <2>2, <2>3, BeginIsDataQuiet
<1>9. CASE RemoveBranch(p)
  <2>1. PICK b \in Names : Begin(p, "RemoveBranch", b, none, Nil, none, none) /\ UNCHANGED <<rows, data>>
    BY <1>9 DEF RemoveBranch
  <2> QED
    BY <1>0, <1>1, <1>3, <2>1
<1>10. CASE Merge(p)
  BY <1>10 DEF Merge, Begin, Plain, NoMerges
<1>11. CASE Revert(p)
  BY <1>11 DEF Revert, Begin, Plain
<1> QED
  BY <1>4, <1>5, <1>6, <1>7, <1>8, <1>9, <1>10, <1>11 DEF Start

(* A worker's commit becomes the tip, told or not. *)
LEMMA MoveIsDataQuiet ==
  ASSUME Covered, ReadInv, DataInv, UNCHANGED setting, NEW p \in Workers, Update(p) \/ LostReply(p)
  PROVE DataQuiet(p)
<1>1. /\ pc[p] = "update" /\ KV!CheckOK(tips, UpdateOp(p)) /\ Return(p)
      /\ tips' = KV!Apply(tips, UpdateOp(p)) /\ UNCHANGED <<commits, views, rows>>
  BY DEF Update, LostReply, Fail
<1>2. data' = data
  <2>1. CASE Update(p)
    BY <2>1 DEF Update
  <2>2. CASE LostReply(p)
    <3>1. job[p].kind \in setting.kinds \cup {"none"} /\ setting.lost
      BY <2>2 DEF ReadInv, JobInv, JobOK, LostReply
    <3> QED
      BY <2>2, <3>1 DEF LostReply, Fail, Covered
  <2> QED
    BY <2>1, <2>2
<1>3. /\ job[p].branch \in Names /\ tips[job[p].branch] = job[p].parent /\ Exists(job[p].branch)
      /\ tips' = [tips EXCEPT ![job[p].branch] = job[p].made]
  BY <1>1, UpdateOfTip DEF ReadInv, Inv
<1>4. /\ pc'[p] = "idle" /\ job'[p] = Done
      /\ \A q \in Workers : q # p => pc'[q] = pc[q] /\ job'[q] = job[q]
  BY <1>1, OthersStay DEF Return, ReadInv, Inv, IInv
<1>5. Done.kind = "none" /\ ToSet(Done.new) = {}
  BY ShortLists DEF Done
<1>6. Pending(p)' = {}
  BY <1>4, <1>5 DEF Pending, NewOf
<1>7. Moves(p)
  BY <1>1, <1>2, <1>3, <1>6 DEF Moves
<1>8. \A q \in Workers : q # p => Pending(q)' = Pending(q)
  BY <1>1, <1>4 DEF Pending, NewOf, Made
<1>9. \A q \in Workers : NextObject \notin Pending(q)
  <2>1. Len(rows) \in Nat
    BY DEF ReadInv, SnapInv
  <2> QED
    BY <2>1, PendingIsWritten DEF DataInv, NextObject
<1>10. Quiet(p)
  <2>1. CASE Update(p)
    <3>1. Step(p) /\ ~Create(p)
      BY <1>1, <2>1 DEF Step, Create
    <3> QED
      BY <3>1, StepIsQuiet
  <2>2. CASE LostReply(p)
    BY <2>2, FaultIsQuiet
  <2> QED
    BY <2>1, <2>2
<1>11. \A c \in Reach' : c \in Reach \/ (Moves(p) /\ c = job[p].made)
  BY <1>7, <1>10 DEF Quiet
<1>12. ASSUME NEW b \in Names, Exists(b)'
       PROVE /\ b \in setting.names
             /\ (Exists(b) /\ tips'[b] = tips[b]) \/ (Moves(p) /\ tips'[b] = job[p].made)
  <2>1. CASE b = job[p].branch
    BY <1>3, <1>7, <2>1 DEF DataInv, KeptInv, ReadInv, Inv, IInv, WorkInv
  <2>2. CASE b # job[p].branch
    <3>1. tips'[b] = tips[b]
      BY <1>3, <2>2 DEF ReadInv, Inv, IInv, WorkInv
    <3>2. Exists(b)
      BY <1>12, <3>1 DEF Exists
    <3> QED
      BY <3>1, <3>2 DEF DataInv, KeptInv
  <2> QED
    BY <2>1, <2>2
<1>13. ASSUME NEW q \in Workers
       PROVE /\ \/ Pending(q)' = Pending(q)
                \/ q = p /\ Pending(p)' \subseteq Pending(p) \cup {NextObject}
             /\ NextObject \notin Pending(q)'
             /\ job'[q].kind = "Vacuum" => job'[q] = job[q]
  BY <1>4, <1>5, <1>6, <1>8, <1>9
<1>14. RowsGrow
  BY <1>1 DEF RowsGrow
<1> QED
  BY <1>1, <1>2, <1>11, <1>12, <1>13, <1>14 DEF DataQuiet
LEMMA StepIsDataQuiet ==
  ASSUME Covered, ReadInv, DataInv, UNCHANGED setting, NEW p \in Workers,
         (Step(p) /\ ~Create(p)) \/ StorageError(p) \/ LostReply(p) \/ Crash(p)
  PROVE DataQuiet(p)
<1> DEFINE j == job[p]
<1>0. /\ DOMAIN j = Fields /\ JobOK(p) /\ j.from \in Reach /\ j.parent \in Reach /\ Nil \in Reach
      /\ \A b \in Names : Exists(b) => tips[b] \in Reach
      /\ pc[p] \in OnBranch => j.branch \in Names
  BY DoneFields, ReachFacts DEF ReadInv, Inv, IInv, WorkInv, JobInv
<1>1. ASSUME Fail(p), UNCHANGED <<commits, views, tips, rows>> PROVE DataQuiet(p)
  <2>1. /\ Return(p) /\ SameTips /\ UNCHANGED <<commits, views, rows, setting>>
        /\ data' = data \/ data' = data \ NewOf(p)
    BY <1>1 DEF Fail, SameTips, Exists, NewOf
  <2> QED
    BY <2>1, ReturnIsDataQuiet
<1>2. ASSUME Return(p), SameTips, UNCHANGED <<commits, views, rows, data>> PROVE DataQuiet(p)
  BY <1>2, ReturnIsDataQuiet
<1>3. ASSUME NEW w, NEW k, Go(p, w, k), w # "update", UNCHANGED <<commits, views, tips, rows, data>>,
             k.kind = j.kind, k.new = j.new, k.ids = j.ids, k.from = j.from, k.parent \in Reach
      PROVE DataQuiet(p)
  <2>1. /\ UNCHANGED <<commits, views, setting>> /\ RowsGrow /\ SameTips /\ k.from \in Reach
        /\ ToSet(k.new) \subseteq NewOf(p) \cup {NextObject}
    BY <1>0, <1>3 DEF RowsGrow, SameTips, Exists, NewOf
  <2>2. NextObject \notin ToSet(k.new)
    <3>1. Len(rows) \in Nat
      BY DEF ReadInv, SnapInv
    <3> QED
      BY <1>3, <3>1, NewIsWritten DEF ReadInv, NewOf, NextObject
  <2> QED
    BY <1>3, <2>1, <2>2, GoIsDataQuiet
<1>4. CASE Lookup(p)
  <2>1. CASE Exists(j.branch)
    <3> DEFINE w == IF j.kind = "RemoveBranch" THEN "remove" ELSE "create"
               k == [j EXCEPT !.parent = tips[j.branch]]
    <3>1. pc[p] = "lookup" /\ Go(p, w, k) /\ UNCHANGED <<commits, views, tips, rows, data>>
      BY <1>4, <2>1 DEF Lookup
    <3>2. /\ k.kind = j.kind /\ k.new = j.new /\ k.ids = j.ids /\ k.from = j.from
          /\ k.parent = tips[j.branch] /\ w # "update"
      BY <1>0 DEF Fields
    <3>3. tips[j.branch] \in Reach
      BY <1>0, <2>1, <3>1 DEF OnBranch
    <3> HIDE DEF w, k
    <3> QED
      BY <1>3, <3>1, <3>2, <3>3
  <2>2. CASE ~Exists(j.branch)
    BY <1>1, <1>4, <2>2 DEF Lookup
  <2> QED
    BY <2>1, <2>2
<1>5. CASE Conflict(p)
  <2>1. CASE j.retries + 1 < MaxRetries
    <3> DEFINE k == [j EXCEPT !.parent = Nil, !.made = Nil, !.retries = @ + 1]
    <3>1. Go(p, "lookup", k) /\ UNCHANGED <<commits, views, tips, rows, data>>
      BY <1>5, <2>1 DEF Conflict
    <3>2. k.kind = j.kind /\ k.new = j.new /\ k.ids = j.ids /\ k.from = j.from /\ k.parent = Nil
      BY <1>0 DEF Fields
    <3> HIDE DEF k
    <3> QED
      BY <1>0, <1>3, <3>1, <3>2
  <2>2. CASE ~(j.retries + 1 < MaxRetries)
    BY <1>1, <1>5, <2>2 DEF Conflict
  <2> QED
    BY <2>1, <2>2
<1>6. CASE Update(p) \/ LostReply(p)
  BY <1>6, MoveIsDataQuiet
<1>7. CASE CreateFails(p) \/ UpdateFails(p) \/ StorageError(p)
  BY <1>1, <1>7 DEF CreateFails, UpdateFails, StorageError
<1>8. CASE Crash(p)
  BY <1>2, <1>8 DEF Crash, SameTips, Exists
<1>9. CASE DeleteBranch(p)
  <2>1. SameTips
    <3>1. KV!Apply(tips, BranchOp("Delete", j.branch, Nil, j.parent))
            = [tips EXCEPT ![j.branch] = NoBranch]
      BY <1>0, <1>9 DEF DeleteBranch, KV!Apply, KV!Touches, KV!Written, BranchOp, ReadInv, Inv,
                        IInv, WorkInv, OnBranch
    <3> QED
      BY <1>9, <3>1 DEF DeleteBranch, SameTips, Exists, ReadInv, Inv, IInv, WorkInv
  <2> QED
    BY <1>2, <1>9, <2>1 DEF DeleteBranch
<1>10. CASE VacuumObject(p)
  <2>1. CASE j.ids = <<>>
    <3>1. Return(p) /\ UNCHANGED <<commits, views, tips, rows, data>>
      BY <1>10, <2>1 DEF VacuumObject
    <3> QED
      BY <1>2, <3>1 DEF SameTips, Exists
  <2>2. CASE j.ids # <<>>
    <3> DEFINE k == [j EXCEPT !.ids = Tail(@)]
    <3>1. /\ pc[p] = "vacuum" /\ Go(p, "vacuum", k) /\ data' = data \ {Head(j.ids)}
          /\ UNCHANGED <<commits, views, tips, rows>>
      BY <1>10, <2>2 DEF VacuumObject
    <3>2. /\ k.kind = j.kind /\ k.new = j.new /\ k.ids = Tail(j.ids) /\ k.from = j.from
          /\ k.parent = j.parent /\ j.kind = "Vacuum"
      BY <1>0, <3>1 DEF Fields, JobOK
    <3>3. j.ids \in Seq(Nat)
      BY <3>2 DEF DataInv, VacuumInv
    <3>4. Head(j.ids) \in ToSet(j.ids) /\ ToSet(Tail(j.ids)) \subseteq ToSet(j.ids) /\ Tail(j.ids) \in Seq(Nat)
      BY <2>2, <3>3 DEF ToSet
    <3>5. /\ UNCHANGED <<commits, views, setting>> /\ RowsGrow /\ SameTips
          /\ ToSet(k.new) = {}
      BY <1>0, <3>1, <3>2, ShortLists DEF RowsGrow, SameTips, Exists, JobOK
    <3>6. \A o \in data : o \in data' \/ (job[p].kind = "Vacuum" /\ o \in ToSet(job[p].ids))
      BY <3>1, <3>2, <3>4
    <3> HIDE DEF k
    <3> QED
      BY <1>0, <3>1, <3>2, <3>4, <3>5, <3>6, GoIsDataQuiet
  <2> QED
    BY <2>1, <2>2
<1> QED
  BY <1>4, <1>5, <1>6, <1>7, <1>8, <1>9, <1>10 DEF Step

LEMMA CreateBranchIsDataQuiet ==
  ASSUME Covered, ReadInv, DataInv, UNCHANGED setting, CreateBranch, NEW p
  PROVE DataQuiet(p)
<1>1. PICK b \in setting.names, c \in Known \cup {Nil} :
        /\ KV!CheckOK(tips, BranchOp("Insert", b, c, NoBranch))
        /\ tips' = KV!Apply(tips, BranchOp("Insert", b, c, NoBranch))
        /\ UNCHANGED <<commits, views, files, rows, data, pc, job>>
  BY DEF CreateBranch
<1>2. b \in Names
  BY SettingsAssumption DEF ReadInv, Inv
<1>3. tips' = [tips EXCEPT ![b] = c] /\ ~Exists(b)
  BY <1>1, <1>2 DEF KV!CheckOK, KV!Apply, KV!Touches, KV!Written, BranchOp, Exists, ReadInv, Inv,
                    IInv, WorkInv
<1>4. c = Nil \/ ("Vacuum" \notin setting.kinds /\ c \in Reach)
  <2>1. Known \subseteq Reach
    BY ReachFacts DEF ReadInv
  <2>2. "Vacuum" \in setting.kinds => \A n \in Names : ~Exists(n)
    BY <1>1, <1>3 DEF Covered, DataInv, KeptInv
  <2>3. "Vacuum" \in setting.kinds => Known = {}
    BY <2>2 DEF Known
  <2> QED
    BY <1>1, <2>1, <2>3
<1>5. Reach' \subseteq Reach
  BY CreateBranchIsQuiet
<1>6. ASSUME NEW n \in Names, Exists(n)'
      PROVE /\ n \in setting.names
            /\ \/ Exists(n) /\ tips'[n] = tips[n]
               \/ tips'[n] = Nil
               \/ "Vacuum" \notin setting.kinds /\ tips'[n] \in Reach
  <2>1. CASE n = b
    BY <1>1, <1>3, <1>4, <2>1 DEF ReadInv, Inv, IInv, WorkInv
  <2>2. CASE n # b
    <3>1. tips'[n] = tips[n]
      BY <1>3, <2>2 DEF ReadInv, Inv, IInv, WorkInv
    <3>2. Exists(n)
      BY <1>6, <3>1 DEF Exists
    <3> QED
      BY <3>1, <3>2 DEF DataInv, KeptInv
  <2> QED
    BY <2>1, <2>2
<1>7. \A q \in Workers : Pending(q)' = Pending(q) /\ NextObject \notin Pending(q)
  <2>1. Len(rows) \in Nat
    BY DEF ReadInv, SnapInv
  <2>2. \A q \in Workers : NextObject \notin Pending(q)
    BY <2>1, PendingIsWritten DEF DataInv, NextObject
  <2> QED
    BY <1>1, <2>2 DEF Pending, NewOf, Made
<1>8. RowsGrow
  BY <1>1 DEF RowsGrow
<1> QED
  BY <1>1, <1>5, <1>6, <1>7, <1>8 DEF DataQuiet

LEMMA DataInit == Init => DataInv
<1> SUFFICES ASSUME Init PROVE DataInv
  OBVIOUS
<1>1. /\ commits = <<>> /\ Len(commits) = 0
      /\ \A p \in Workers : pc[p] = "idle" /\ job[p] = Done
      /\ \A b \in Names : ~Exists(b)
  BY DEF Init, Exists
<1>2. Done.new = <<>> /\ Done.parent = Nil /\ Done.from = Nil /\ Done.kind = "none"
  BY DEF Done
<1>3. \A p \in Workers : Pending(p) = {}
  BY <1>1, <1>2, ShortLists DEF Pending, NewOf
<1>4. Path[0] = {} /\ Nil = 0
  BY InitEstablishes, PathEquation DEF Inv, IInv, Nil
<1>5. \A c \in Reach : Objs(c) = {}
  <2>1. Reach \subseteq {Nil}
    BY <1>1, <1>2, <1>4 DEF Reach
  <2> QED
    BY <2>1 DEF Objs, Snapshot, NewSnapshot, Nothing, Family
<1>6. AddedInv
  BY <1>1, <1>4 DEF AddedInv
<1>7. PendingInv
  BY <1>3 DEF PendingInv
<1>8. KeptInv
  BY <1>1, <1>5 DEF KeptInv
<1>9. VacuumInv
  BY <1>1, <1>2 DEF VacuumInv
<1> QED
  BY <1>6, <1>7, <1>8, <1>9 DEF DataInv

LEMMA DataNext ==
  Covered /\ ReadInv /\ DataInv /\ [Next]_vars => Covered' /\ ReadInv' /\ DataInv'
<1> SUFFICES ASSUME Covered, ReadInv, DataInv, [Next]_vars PROVE Covered' /\ ReadInv' /\ DataInv'
  OBVIOUS
<1>1. UNCHANGED setting /\ Plain
  BY DEF Next, vars, Covered
<1>2. Covered' /\ ReadInv'
  BY <1>1, ReadNext DEF Covered, Plain, NoMerges
<1>3. ASSUME NEW p \in Workers, Create(p) PROVE DataInv'
  <2>1. PICK acts \in Constructed(job[p]) : pc[p] = "create" /\ Puts(p, acts)
    BY <1>1, <1>3, CreatePuts
  <2> QED
    BY <2>1, PutKeepsData
<1>4. ASSUME NEW p \in Workers, Start(p) PROVE DataQuiet(p)
  BY <1>1, <1>4, StartIsDataQuiet
<1>5. ASSUME NEW p \in Workers,
             (Step(p) /\ ~Create(p)) \/ StorageError(p) \/ LostReply(p) \/ Crash(p)
      PROVE DataQuiet(p)
  BY <1>1, <1>5, StepIsDataQuiet
<1>6. ASSUME CreateBranch PROVE \E p : DataQuiet(p)
  BY <1>1, <1>6, CreateBranchIsDataQuiet
<1>7. ASSUME UNCHANGED vars PROVE DataInv'
  <2>1. UNCHANGED <<commits, views, files, tips, rows, data, pc, job, setting>> /\ Path' = Path
    BY <1>7, TreeSame DEF vars, ReadInv, Inv, IInv
  <2>2. /\ Reach' = Reach /\ \A c : Objs(c)' = Objs(c) /\ Added(c)' = Added(c) /\ Made(c)' = Made(c)
        /\ \A p : Pending(p)' = Pending(p)
    BY <2>1 DEF Reach, Exists, Objs, Snapshot, Added, Made, Pending, NewOf
  <2>3. \A b \in Names : Objs(tips[b])' = Objs(tips[b])
    BY <2>1 DEF Objs, Snapshot
  <2>4. AddedInv'
    BY <2>1, <2>2 DEF DataInv, AddedInv
  <2>5. PendingInv'
    BY <2>1, <2>2 DEF DataInv, PendingInv
  <2>6. KeptInv'
    BY <2>1, <2>2, <2>3 DEF DataInv, KeptInv, Exists
  <2>7. \A o : Unneeded(o) => Unneeded(o)'
    BY <2>1, <2>2, <2>3 DEF Unneeded, Exists
  <2>8. VacuumInv'
    BY <2>1, <2>7 DEF DataInv, VacuumInv
  <2> QED
    BY <2>4, <2>5, <2>6, <2>8 DEF DataInv
<1>8. ASSUME NEW p, DataQuiet(p) PROVE DataInv'
  BY <1>2, <1>8, DataQuietKeeps
<1> QED
  BY <1>2, <1>3, <1>4, <1>5, <1>6, <1>7, <1>8 DEF Next

(* Every data object of a branch is in storage, whatever loads, rewriting  *)
(* deletes, compactions that clean up after themselves and vacuums ran at  *)
(* the same time, failed or crashed.  A vacuum sees the path of one branch *)
(* only, so there is one branch where vacuums run, and compactions where   *)
(* no update is reported as failed after it took effect; merges and        *)
(* reverts, which put back objects that a vacuum may have taken, are left  *)
(* out.                                                                    *)
THEOREM BranchDataStays == Spec /\ Covered => []DataPresent
<1>1. DataInv => DataPresent
  BY DEF DataInv, KeptInv, DataPresent, Tips
<1> QED
  BY <1>1, ReadInit, DataInit, DataNext, PTL DEF Spec
=============================================================================
