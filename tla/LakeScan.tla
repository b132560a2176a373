------------------------------- MODULE LakeScan -------------------------------
(***************************************************************************)
(* Scanning and rewriting a branch of a pool: queries, delete -where and   *)
(* compaction, with the manager that plans compactions.                    *)
(*                                                                         *)
(* A Lister enumerates the data objects of a snapshot in key order.  For a *)
(* query that needs the pool's order a Slicer groups them into partitions. *)
(* Parallel trunks pull objects or partitions from the one Lister or       *)
(* Slicer, under its mutex, and scan them: SequenceScanners for queries    *)
(* and compactions, Deleters for deletes.  The rows go to the consumer of  *)
(* the query, to a lake.Writer, which sorts and writes one buffer while    *)
(* the next one fills, or to a lake.SortedWriter.                          *)
(*                                                                         *)
(* Objects are immutable and the branch is changed here by one client at a *)
(* time: the races of commits are in Pool.                                 *)
(***************************************************************************)
EXTENDS LakeData

CONSTANTS
    Trunks,         \* parallel legs of a query
    Pools,          \* the pools to start from: [order, objs]
    Preds,          \* the predicates of queries and deletes
    Threshold,      \* the pool's Threshold, in rows
    MaxFaults       \* bound on I/O errors

ASSUME TrunksAssumption == IsFiniteSet(Trunks) /\ Trunks # {}
ASSUME BoundsAssumption ==
    Stride \in Nat \ {0} /\ Threshold \in Nat \ {0} /\ MaxFaults \in Nat

(* A pool starts with finitely many objects as writers make them, with     *)
(* their own IDs and rows: row.id tells rows apart.                        *)
ASSUME PoolsAssumption ==
    \A p \in Pools :
        /\ p.order \in {"asc", "desc"} /\ IsFiniteSet(p.objs)
        /\ \A obj \in p.objs : Written(p.order, obj)
        /\ \A a, b \in p.objs : a # b =>
               a.id # b.id /\ ToSet(a.rows) \cap ToSet(b.rows) = {}
        /\ \A r, q \in RowsOf(p.objs) : r # q => r.id # q.id

ASSUME PredsAssumption == Preds \subseteq Predicates

VARIABLES
    order,      \* the pool's order
    objs,       \* the data objects of the branch
    job,        \* the running operation
    listing,    \* Lister.objects
    slicer,     \* Slicer.objects
    trunk,      \* per trunk: its scanner's remaining rows
    out,        \* per trunk: the rows it has returned
    deletes,    \* the IDs of the objects the Deleters rewrite
    writer,     \* the lake.Writer or lake.SortedWriter
    mgr,        \* the manager's scan and its run builder
    faults,     \* I/O errors so far
    parts       \* history: the partitions handed out, in order

scanVars == <<listing, slicer, trunk, parts>>
vars == <<order, objs, job, scanVars, out, deletes, writer, mgr, faults>>

Kinds == {"query", "ordered", "delete", "compact"}

NoPred == One(Other)

Idle == [kind |-> "idle", pred |-> NoPred, src |-> {}, err |-> FALSE, result |-> "none"]

NewWriter == [vals |-> <<>>, flip |-> FALSE, closing |-> FALSE, buffer |-> "free",
              recs |-> <<>>, objects |-> <<>>]

NoManager == [pc |-> "off", todo |-> <<>>, run |-> <<>>, min |-> <<>>, max |-> <<>>,
              cut |-> FALSE, err |-> FALSE]

Init ==
    /\ \E p \in Pools : order = p.order /\ objs = p.objs
    /\ job = Idle
    /\ listing = <<>>
    /\ slicer = <<>>
    /\ trunk = [t \in Trunks |-> [pc |-> "done", left |-> <<>>]]
    /\ out = [t \in Trunks |-> <<>>]
    /\ deletes = {}
    /\ writer = NewWriter
    /\ mgr = NoManager
    /\ faults = 0
    /\ parts = <<>>

----------------------------------------------------------------------------
(* Starting an operation: the Lister reads its snapshot on the first Pull, *)
(* of the commit it was given.  A compaction scans with one trunk.         *)

Start(kind, pred, src, ts) ==
    /\ job.kind = "idle"
    /\ job' = [Idle EXCEPT !.kind = kind, !.pred = pred, !.src = src]
    /\ listing' \in sortObjects(order, src)
    /\ slicer' = <<>>
    /\ parts' = <<>>
    /\ trunk' = [t \in Trunks |-> [pc |-> IF t \in ts THEN "pull" ELSE "done", left |-> <<>>]]
    /\ out' = [t \in Trunks |-> <<>>]
    /\ deletes' = {}
    /\ writer' = NewWriter
    /\ UNCHANGED <<order, objs, faults>>

Query ==
    /\ mgr.pc = "off" /\ job.result = "none"
    /\ \E kind \in {"query", "ordered"}, p \in Preds : Start(kind, p, objs, Trunks)
    /\ UNCHANGED mgr

DeleteWhere ==
    /\ mgr.pc = "off" /\ job.result = "none"
    /\ \E p \in Preds : Start("delete", p, objs, Trunks)
    /\ UNCHANGED mgr

----------------------------------------------------------------------------
(* The Lister and the Slicer. *)

Pruned(obj) == job.kind # "compact" /\ Prunes(job.pred, obj.min, obj.max)

Sliced == job.kind \in {"ordered", "compact"}

(* Mutant: an object is compared with the one before it only. *)
ApartFromLast(s, i) == Less(s[i].max, s[i - 1].min) \/ Less(s[i - 1].max, s[i].min)

(* stash: the i-th object is outside the range from the least to the       *)
(* largest key of the objects before it.                                   *)
Apart(s, i) ==
    \/ \A k \in 1 .. i - 1 : Less(s[i].max, s[k].min)
    \/ \A k \in 1 .. i - 1 : Less(s[k].max, s[i].min)

(* The objects of the list that the pruner lets through. *)
Unpruned == Picked(listing, {obj \in ToSet(listing) : ~Pruned(obj)})

(* What the parent of the trunks returns next, and the state it is left    *)
(* in.  The Slicer collects objects until one is apart, which it keeps for *)
(* the next partition; at the end of the list it returns what it has.      *)
NextPartition ==
    LET live  == slicer \o Unpruned
        ends  == {i \in 2 .. Len(live) : Apart(live, i)}
        n     == IF ends = {} THEN Len(live) ELSE Min(ends) - 1
    IN [part |-> SubSeq(live, 1, n),
        slicer |-> SubSeq(live, n + 1, Min({n + 1, Len(live)})),
        rest |-> SubSeq(live, n + 2, Len(live))]

NextObject ==
    LET live == Unpruned
    IN IF live = <<>> THEN [part |-> <<>>, slicer |-> slicer, rest |-> <<>>]
       ELSE [part |-> <<live[1]>>, slicer |-> slicer, rest |-> SubSeq(live, 2, Len(live))]

PullParent == IF Sliced THEN NextPartition ELSE NextObject

----------------------------------------------------------------------------
(* The trunks. *)

Keeps(row) ==
    CASE job.kind = "compact" -> TRUE
      [] job.kind = "delete"  -> Kept(job.pred, row)
      [] OTHER                -> Selected(job.pred, row)

(* Only queries prune within objects. *)
Read(obj) ==
    Picked(IF job.kind \in {"query", "ordered"}
           THEN ReadRanges(obj, LookupSeekRange(obj, job.pred))
           ELSE obj.rows,
           {r \in ToSet(obj.rows) : Keeps(r)})

(* What a scanner of the partition returns: its objects are merged. *)
newScanner(part) ==
    IF Len(part) = 1 THEN {Read(part[1])}
    ELSE {Sorted(order, rs) : rs \in {UNION {ToSet(Read(part[i])) : i \in 1 .. Len(part)}}}

Advance(t, next) ==
    /\ listing' = next.rest
    /\ slicer' = next.slicer
    /\ parts' = IF next.part = <<>> THEN parts ELSE Append(parts, ToSet(next.part))

(* SequenceScanner.Pull with no scanner. *)
SequencePull(t) ==
    /\ job.kind \in {"query", "ordered", "compact"} /\ ~job.err
    /\ trunk[t].pc = "pull"
    /\ \E next \in {PullParent} : \E rs \in newScanner(next.part) :
          /\ Advance(t, next)
          /\ trunk' = [trunk EXCEPT ![t] =
                IF next.part = <<>> THEN [pc |-> "done", left |-> <<>>]
                ELSE [pc |-> "scan", left |-> rs]]
    /\ UNCHANGED <<order, objs, job, out, deletes, writer, mgr, faults>>

hasDeletes(obj) == Len(Read(obj)) # obj.count

(* Deleter.nextDeletion.  An object without deletes is passed over. *)
nextDeletion(t) ==
    /\ job.kind = "delete" /\ ~job.err
    /\ trunk[t].pc = "pull"
    /\ \E next \in {PullParent} : \E rs \in newScanner(next.part) :
       LET hit == next.part # <<>> /\ hasDeletes(next.part[1])
       IN /\ Advance(t, next)
          /\ trunk' = [trunk EXCEPT ![t] =
                CASE next.part = <<>> -> [pc |-> "done", left |-> <<>>]
                  [] hit              -> [pc |-> "scan", left |-> rs]
                  [] OTHER            -> @]
          /\ deletes' = IF hit THEN deletes \cup {next.part[1].id} ELSE deletes
    /\ UNCHANGED <<order, objs, job, out, writer, mgr, faults>>

(* The scanner is at its end. *)
NextScanner(t) ==
    /\ trunk[t].pc = "scan" /\ trunk[t].left = <<>> /\ ~job.err
    /\ trunk' = [trunk EXCEPT ![t].pc = "pull"]
    /\ UNCHANGED <<order, objs, job, listing, slicer, parts, out, deletes, writer, mgr, faults>>

(* The trunk returns its next row, which goes on to write. *)
Returns(t, write) ==
    /\ trunk[t].pc = "scan" /\ trunk[t].left # <<>> /\ ~job.err
    /\ write
    /\ out' = [out EXCEPT ![t] = Append(@, Head(trunk[t].left))]
    /\ trunk' = [trunk EXCEPT ![t].left = Tail(@)]
    /\ UNCHANGED <<order, objs, listing, slicer, parts, deletes, mgr, faults>>

QueryRow(t) ==
    /\ job.kind \in {"query", "ordered"}
    /\ Returns(t, UNCHANGED <<job, writer>>)

(* The consumer of a query wants no more from the trunk: Pull(true). *)
PullDone(t) ==
    /\ job.kind \in {"query", "ordered"} /\ ~job.err
    /\ trunk[t].pc = "scan"
    /\ trunk' = [trunk EXCEPT ![t] = [pc |-> "done", left |-> <<>>]]
    /\ job' = [job EXCEPT !.result = "partial"]
    /\ UNCHANGED <<order, objs, listing, slicer, parts, out, deletes, writer, mgr, faults>>

(* Reading an object or its seek index fails. *)
ReadFails(t) ==
    /\ trunk[t].pc # "done" /\ ~job.err
    /\ faults < MaxFaults
    /\ faults' = faults + 1
    /\ job' = [job EXCEPT !.err = TRUE]
    /\ trunk' = [trunk EXCEPT ![t] = [pc |-> "done", left |-> <<>>]]
    /\ UNCHANGED <<order, objs, listing, slicer, parts, out, deletes, writer, mgr>>

AllDone == job.err \/ \A t \in Trunks : trunk[t].pc = "done"

EndQuery ==
    /\ job.kind \in {"query", "ordered"} /\ AllDone
    /\ job' = [job EXCEPT !.kind = "idle",
                 !.result = IF job.err THEN "error" ELSE IF @ = "none" THEN "ok" ELSE @]
    /\ UNCHANGED <<order, objs, scanVars, out, deletes, writer, mgr, faults>>

----------------------------------------------------------------------------
(* The lake.Writer of a delete. *)

NextID == 1 + FoldSet(LAMBDA obj, n : IF obj.id > n THEN obj.id ELSE n, 0, objs)

MadeObject(rs) == NewObject(order, NextID + Len(writer.objects), rs)

(* Write.  A failed write of an object has cancelled its context. *)
WriteRow(row) ==
    IF writer.buffer = "closed"
    THEN job' = [job EXCEPT !.err = TRUE] /\ UNCHANGED writer
    ELSE /\ writer' = [writer EXCEPT !.vals = Append(@, row),
                                     !.flip = Len(writer.vals) + 1 >= Threshold]
         /\ UNCHANGED job

(* Rows of different trunks come in any order; Write blocks its caller     *)
(* while it waits for the other buffer.                                    *)
DeleterRow(t) ==
    /\ job.kind = "delete" /\ ~writer.flip
    /\ Returns(t, WriteRow(Head(trunk[t].left)))

(* Mutant: a buffer closed by a failed write is waited for. *)
FlipBuffersIfFree ==
    /\ writer.flip
    /\ writer.buffer = "free"
    /\ writer' = [writer EXCEPT !.flip = FALSE, !.buffer = "busy",
                                !.recs = writer.vals, !.vals = <<>>]
    /\ UNCHANGED <<order, objs, job, scanVars, out, deletes, mgr, faults>>

flipBuffers ==
    /\ writer.flip
    /\ writer.buffer # "busy"
    /\ writer' = IF writer.buffer = "closed" THEN [writer EXCEPT !.flip = FALSE]
                 ELSE [writer EXCEPT !.flip = FALSE, !.buffer = "busy",
                                     !.recs = writer.vals, !.vals = <<>>]
    /\ UNCHANGED <<order, objs, job, scanVars, out, deletes, mgr, faults>>

(* Mutant: the buffer is written as it was filled. *)
WriteObjectUnsorted ==
    /\ writer.buffer = "busy"
    /\ writer' = [writer EXCEPT !.buffer = "free", !.recs = <<>>,
                                !.objects = Append(@, MadeObject(writer.recs))]
    /\ UNCHANGED <<order, objs, job, scanVars, out, deletes, mgr, faults>>

(* The goroutine sorts the buffer, writes its object and frees the buffer. *)
writeObject ==
    /\ writer.buffer = "busy"
    /\ writer' = [writer EXCEPT !.buffer = "free", !.recs = <<>>,
                    !.objects = Append(@, MadeObject(Sorted(order, ToSet(writer.recs))))]
    /\ UNCHANGED <<order, objs, job, scanVars, out, deletes, mgr, faults>>

writeObjectFails ==
    /\ writer.buffer = "busy"
    /\ faults < MaxFaults
    /\ faults' = faults + 1
    /\ writer' = [writer EXCEPT !.buffer = "closed"]
    /\ UNCHANGED <<order, objs, job, scanVars, out, deletes, mgr>>

(* Close sends the last buffer and waits, after an error too. *)
Close ==
    /\ job.kind = "delete" /\ AllDone
    /\ ~writer.flip /\ ~writer.closing
    /\ writer' = [writer EXCEPT !.closing = TRUE, !.flip = writer.vals # <<>>]
    /\ UNCHANGED <<order, objs, job, scanVars, out, deletes, mgr, faults>>

(* DeleteWhere commits the patch, or fails. *)
EndDelete ==
    /\ writer.closing /\ ~writer.flip /\ writer.buffer # "busy"
    /\ LET ok == ~job.err /\ writer.buffer # "closed"
       IN /\ job' = [job EXCEPT !.kind = "idle",
                       !.result = IF ~ok THEN "error"
                                  ELSE IF deletes = {} THEN "empty" ELSE "deleted"]
          /\ objs' = IF ok /\ deletes # {}
                     THEN {obj \in objs : obj.id \notin deletes} \cup ToSet(writer.objects)
                     ELSE objs
    /\ writer' = NewWriter
    /\ UNCHANGED <<order, scanVars, out, deletes, mgr, faults>>

----------------------------------------------------------------------------
(* The lake.SortedWriter of a compaction.  "full" says that the bytes the  *)
(* object's writer has flushed reach the threshold; how many it holds back *)
(* is not modelled, so this may be so after any row.                       *)

(* Mutant: an object may end between two rows of one key. *)
WriteSortedAnywhere(row, full) ==
    /\ full => writer.vals # <<>>
    /\ writer' = IF full THEN [writer EXCEPT !.objects = Append(@, MadeObject(writer.vals)),
                                             !.vals = <<row>>]
                 ELSE [writer EXCEPT !.vals = Append(@, row)]
    /\ UNCHANGED job

WriteSorted(row, full) ==
    /\ full => writer.vals # <<>> /\ ~SameKey(Last(writer.vals).key, row.key)
    /\ writer' = IF full THEN [writer EXCEPT !.objects = Append(@, MadeObject(writer.vals)),
                                             !.vals = <<row>>]
                 ELSE [writer EXCEPT !.vals = Append(@, row)]
    /\ UNCHANGED job

CompactRow(t) ==
    /\ job.kind = "compact"
    /\ \E full \in BOOLEAN : Returns(t, WriteSorted(Head(trunk[t].left), full))

(* Mutant: the last object is not closed and not committed. *)
EndCompactNoClose ==
    /\ job.kind = "compact" /\ AllDone
    /\ objs' = IF job.err THEN objs ELSE (objs \ job.src) \cup ToSet(writer.objects)
    /\ job' = [job EXCEPT !.kind = "idle", !.result = IF job.err THEN "error" ELSE "compacted"]
    /\ writer' = NewWriter
    /\ mgr' = [mgr EXCEPT !.err = job.err]
    /\ UNCHANGED <<order, scanVars, out, deletes, faults>>

(* CopyPuller is at its end: the writer is closed and CommitCompact swaps  *)
(* the sources for the rollup.  After an error Abort removes the rollup.   *)
EndCompact ==
    /\ job.kind = "compact" /\ AllDone
    /\ LET rollup == ToSet(writer.objects) \cup {MadeObject(writer.vals)}
       IN objs' = IF job.err THEN objs ELSE (objs \ job.src) \cup rollup
    /\ job' = [job EXCEPT !.kind = "idle", !.result = IF job.err THEN "error" ELSE "compacted"]
    /\ writer' = NewWriter
    /\ mgr' = [mgr EXCEPT !.err = job.err]
    /\ UNCHANGED <<order, scanVars, out, deletes, faults>>

----------------------------------------------------------------------------
(* The manager (cmd/zed/internal/lakemanage): one goroutine scans the list *)
(* of objects, by their least key, and builds runs; another compacts the   *)
(* runs it receives.  A run of one object is not compacted.                *)

ListedByMin ==
    {s \in SetToSeqs(objs) : \A i, j \in 1 .. Len(s) : i < j => ~Less(s[j].min, s[i].min)}

Manage ==
    /\ mgr.pc = "off" /\ job = Idle
    /\ \E s \in ListedByMin : mgr' = [NoManager EXCEPT !.pc = "scan", !.todo = s]
    /\ UNCHANGED <<order, objs, job, scanVars, out, deletes, writer, faults>>

RunSize == FoldLeft(LAMBDA n, obj : n + obj.count, 0, mgr.run)

RunOverlaps(obj) == mgr.run # <<>> /\ ~Less(mgr.max, obj.min) /\ ~Less(obj.max, mgr.min)

AddToRun(m, obj) ==
    [m EXCEPT !.run = Append(@, obj),
              !.min = IF m.run = <<>> \/ Less(obj.min, @) THEN obj.min ELSE @,
              !.max = IF m.run = <<>> \/ Less(@, obj.max) THEN obj.max ELSE @]

JoinsRun(obj) == RunOverlaps(obj) \/ RunSize + obj.count < Threshold

(* The next object joins the run, or the run is sent and a new one begun   *)
(* with it.  Sending waits for the compacting goroutine.                   *)
BuildRun ==
    /\ mgr.pc = "scan" /\ mgr.todo # <<>>
    /\ LET obj == Head(mgr.todo)
       IN IF JoinsRun(obj)
          THEN mgr' = [AddToRun(mgr, obj) EXCEPT !.todo = Tail(@)]
          ELSE mgr' = IF Len(mgr.run) >= 2 THEN [mgr EXCEPT !.pc = "send"]
                      ELSE [AddToRun([mgr EXCEPT !.run = <<>>], obj) EXCEPT !.todo = Tail(@)]
    /\ UNCHANGED <<order, objs, job, scanVars, out, deletes, writer, faults>>

(* The list is at its end, or reading it failed, which scan does not tell  *)
(* from its end: the last run is sent.                                     *)
EndOfList ==
    /\ mgr.pc = "scan"
    /\ \/ mgr.todo = <<>> /\ UNCHANGED faults
       \/ mgr.todo # <<>> /\ faults < MaxFaults /\ faults' = faults + 1
    /\ mgr' = [mgr EXCEPT !.pc = IF Len(mgr.run) >= 2 THEN "last" ELSE "wait",
                          !.cut = mgr.todo # <<>>]
    /\ UNCHANGED <<order, objs, job, scanVars, out, deletes, writer>>

SendRun ==
    /\ mgr.pc \in {"send", "last"} /\ ~mgr.err
    /\ Start("compact", NoPred, ToSet(mgr.run), {CHOOSE t \in Trunks : TRUE})
    /\ mgr' = IF mgr.pc = "last" THEN [mgr EXCEPT !.pc = "wait"]
              ELSE [AddToRun([mgr EXCEPT !.run = <<>>], Head(mgr.todo))
                        EXCEPT !.pc = "scan", !.todo = Tail(@)]

(* The group is done: all runs are compacted, or a compaction failed. *)
EndManage ==
    /\ job.kind = "idle"
    /\ mgr.pc = "wait" \/ mgr.err
    /\ mgr.pc # "done"
    /\ mgr' = [mgr EXCEPT !.pc = "done"]
    /\ UNCHANGED <<order, objs, job, scanVars, out, deletes, writer, faults>>

----------------------------------------------------------------------------
TrunkStep(t) ==
    \/ SequencePull(t) \/ nextDeletion(t) \/ NextScanner(t)
    \/ QueryRow(t) \/ DeleterRow(t) \/ CompactRow(t)

Steps ==
    \/ \E t \in Trunks : TrunkStep(t)
    \/ EndQuery \/ flipBuffers \/ writeObject \/ Close \/ EndDelete \/ EndCompact
    \/ BuildRun \/ EndOfList \/ SendRun \/ EndManage

Next ==
    \/ Query \/ DeleteWhere \/ Manage
    \/ Steps
    \/ \E t \in Trunks : PullDone(t) \/ ReadFails(t)
    \/ writeObjectFails

Spec == Init /\ [][Next]_vars

(* Goroutines run: whatever step can be taken is taken. *)
FairSpec == Spec /\ WF_vars(Steps)

----------------------------------------------------------------------------
(* Properties. *)

(* State is of the shape the code's types give it, and no object or buffer *)
(* is in two places: an object is listed, collected or handed out, once.   *)
TypeOK ==
    /\ order \in {"asc", "desc"}
    /\ job.kind \in Kinds \cup {"idle"}
    /\ job.result \in {"none", "ok", "partial", "error", "empty", "deleted", "compacted"}
    /\ \A t \in Trunks : trunk[t].pc \in {"pull", "scan", "done"}
    /\ deletes \subseteq {obj.id : obj \in job.src}
    /\ writer.buffer \in {"free", "busy", "closed"}
    /\ mgr.pc \in {"off", "scan", "send", "last", "wait", "done"}
    /\ faults \in 0 .. MaxFaults
    /\ ToSet(listing) \cap ToSet(slicer) = {}
    /\ \A i \in 1 .. Len(parts) :
        parts[i] \cap (ToSet(listing) \cup ToSet(slicer)) = {}

(* The partitions a Slicer hands out do not overlap and come in the pool's *)
(* order: every key of one is before every key of the next                 *)
(* (slicer.go:108-110).                                                    *)
PartitionsInOrder ==
    job.kind \in {"ordered", "compact"} =>
        \A i, j \in 1 .. Len(parts) : i < j =>
            \A a \in parts[i], b \in parts[j] : Before(order, To(order, a), From(order, b))

(* Each trunk of an ordered query, and the scan of a compaction, returns   *)
(* rows in the pool's order, as the merge behind the trunks and the        *)
(* SortedWriter require: partitions come in order and so do the rows of    *)
(* each.                                                                   *)
TrunksSorted ==
    /\ PartitionsInOrder
    /\ job.kind \in {"ordered", "compact"} => \A t \in Trunks : Ordered(order, out[t])

(* A query that ends well has returned every row its filter selects, each  *)
(* from one trunk and once, although objects and parts of objects were     *)
(* pruned by their key ranges alone.                                       *)
QueryExact ==
    job.result = "ok" =>
        /\ UNION {ToSet(out[t]) : t \in Trunks} = {r \in RowsOf(objs) : Selected(job.pred, r)}
        /\ \A t \in Trunks : IsInjective(out[t])
        /\ \A t, u \in Trunks : t # u => ToSet(out[t]) \cap ToSet(out[u]) = {}

(* Objects are what readers take them for: sorted, with the true range of  *)
(* keys and count, and with a seek index whose entries tile the object and *)
(* bound the keys of the rows they stand for.                              *)
WellFormed(obj) ==
    /\ Ordered(order, obj.rows) /\ obj.count = Len(obj.rows)
    /\ \A i \in 1 .. Len(obj.rows) : InRange(obj.rows[i], obj.min, obj.max)
    /\ \A i \in 1 .. Len(obj.index) :
        LET e == obj.index[i]
        IN /\ e.offset = IF i = 1 THEN 0 ELSE obj.index[i - 1].offset + obj.index[i - 1].length
           /\ \A k \in e.offset + 1 .. e.offset + e.length :
                InRange(obj.rows[k], e.min, e.max)
    /\ Last(obj.index).offset + Last(obj.index).length = Len(obj.rows)

ObjectsWellFormed == \A obj \in objs : WellFormed(obj)

(* delete -where removes exactly the rows on which its predicate is true,  *)
(* also if the writer's goroutine lags behind the trunks, and leaves       *)
(* objects without such rows as they are.                                  *)
DeletesExactly ==
    [][ job'.result = "deleted" /\ job.result = "none" =>
            /\ RowsOf(objs') = {r \in RowsOf(objs) : ~Selected(job.pred, r)}
            /\ \A obj \in objs : (\A r \in ToSet(obj.rows) : ~Selected(job.pred, r)) => obj \in objs'
      ]_vars

(* Only a delete that reports success changes the rows of the branch, and  *)
(* a row is in one object and once.                                        *)
RowsKept ==
    [][ /\ RowsOf(objs') # RowsOf(objs) => job.kind = "delete" /\ job'.result = "deleted"
        /\ \A obj \in objs' : IsInjective(obj.rows)
        /\ \A a, b \in objs' : a # b => ToSet(a.rows) \cap ToSet(b.rows) = {}
      ]_vars

(* After a pass of the manager that read the whole list no two objects of  *)
(* the branch overlap.                                                     *)
NoOverlapAfterPass ==
    mgr.pc = "done" /\ ~mgr.err /\ ~mgr.cut =>
        \A a, b \in objs : a # b => ~Overlap(a, b)

(* Every query, delete and compaction ends, and so does every pass of the  *)
(* manager, although reads fail and the writer's goroutine may fail while  *)
(* trunks wait for it.                                                     *)
Ends == []<>(job.kind = "idle" /\ mgr.pc \in {"off", "done"})
=============================================================================
