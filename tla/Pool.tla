-------------------------------- MODULE Pool --------------------------------
(***************************************************************************)
(* A data pool (lake/pool.go, lake/branch.go): branches are names in the   *)
(* journal store that point at commit objects, commit objects form a tree, *)
(* and every change is built on the tip a worker has looked up, put in     *)
(* storage and then made the tip by an Update constrained to the tip it    *)
(* was built on.  The journal store appears as the atomic table it is      *)
(* shown to implement (KVStore).                                           *)
(***************************************************************************)
EXTENDS Commits

CONSTANTS
    Names,          \* branch names
    NoBranch,       \* "not in the branches store"
    Workers,        \* the goroutines and processes that change the pool
    Settings,       \* [kinds, names, faulty, lost, ids]: the operations
                    \* called, the branches created, the workers that may
                    \* crash and whose I/O may fail, whether a write of HEAD
                    \* may take effect and report an error, and the bound on
                    \* commit objects, and on data objects
    Repeats,        \* callers may name an ID twice in one call
    MaxRetries,     \* maxCommitRetries (10)
    MaxIDs          \* the largest bound of a setting

AllKinds == {"Load", "Delete", "DeleteWhere", "Revert", "Compact", "Merge",
             "AddVectors", "DeleteVectors", "Vacuum", "RemoveBranch"}

ASSUME SettingsAssumption ==
    Settings \subseteq [kinds : SUBSET AllKinds, names : SUBSET Names,
                        faulty : SUBSET Workers, lost : BOOLEAN, ids : 0 .. MaxIDs]
ASSUME RepeatsAssumption == Repeats \in BOOLEAN
ASSUME BoundsAssumption == MaxRetries \in Nat \ {0} /\ MaxIDs \in Nat
ASSUME NoBranchAssumption == NoBranch \notin Nat

VARIABLES
    commits,    \* commits[c] is the commit object written with ID c
    views,      \* views[c] is the snapshot commits 1..c lead to at c
    files,      \* the commit objects now in storage
    tips,       \* the branches store: name to commit ID
    rows,       \* rows[o] is the set of rows in data object o
    data,       \* the data objects now in storage
    pc,         \* per worker: where it is
    job,        \* per worker: its operation and locals
    setting     \* the setting, which no step changes

vars == <<commits, views, files, tips, rows, data, pc, job, setting>>

Nil == 0        \* ksuid.Nil: the parent of a first commit

(* An operation of the branches store (lake/branches/store.go). *)
BranchOp(kind, name, commit, expect) ==
    [kind |-> kind, key |-> name, newKey |-> name, val |-> commit, expect |-> expect]

BranchOps == {BranchOp(k, n, c, e) : k \in {"Insert", "Update", "Delete"},
                n \in Names, c \in 0 .. MaxIDs, e \in 0 .. MaxIDs}

KV == INSTANCE KVTable WITH
        Keys <- Names, Vals <- 0 .. MaxIDs, NoVal <- NoBranch, Ops <- BranchOps

Done == [kind |-> "none", branch |-> NoBranch, ids |-> <<>>, from |-> Nil,
         new |-> <<>>, vecs |-> <<>>, parent |-> Nil, made |-> Nil, retries |-> 0]

----------------------------------------------------------------------------
(* The commits store. *)

Exists(b) == tips[b] # NoBranch

Snapshot(c) == IF c = Nil THEN NewSnapshot ELSE views[c]

(* Commit c and its ancestors. *)
Path[c \in 0 .. Len(commits)] ==
    IF c = Nil THEN {} ELSE {c} \cup Path[commits[c].parent]

Readable(c) == Snapshot(c).ok /\ Path[c] \subseteq files

Objs(c)     == Snapshot(c).has.objs
RowsIn(os)  == UNION {rows[o] : o \in os}
RowsOf(c)   == RowsIn(Objs(c))

(* Commits anyone can name. *)
Known == UNION {Path[tips[b]] : b \in {n \in Names : Exists(n)}}

(* IDs grow along a path, so these are the commits from base to leaf. *)
PatchOfPath(base, leaf) ==
    LET path == SetToSortSeq(Path[leaf] \ Path[base], <)
    IN FoldLeft(LAMBDA p, c : PlayPatch(p, commits[c].acts), NewPatch(Snapshot(base)), path)

PatchOfCommit(c) ==
    PlayPatch(NewPatch(Snapshot(commits[c].parent)), commits[c].acts)

(* Mutant: objects of the leaf's own snapshot are not spared. *)
VacuumableAll(leaf) ==
    UNION {ToSet(commits[c].acts.add.objs) : c \in Path[leaf] \ {leaf}}

(* Objects added on the path to the leaf that its snapshot does not have. *)
Vacuumable(leaf) ==
    (UNION {ToSet(commits[c].acts.add.objs) : c \in Path[leaf] \ {leaf}}) \ Objs(leaf)

----------------------------------------------------------------------------
(* A worker calls an operation.  The bound leaves room for the objects its *)
(* retries make: commit objects and, in DeleteWhere, data objects.         *)

Committing == {p \in Workers : job[p].kind \notin {"none", "Vacuum"}}
Rewriting  == {p \in Workers : job[p].kind = "DeleteWhere"}

Room ==
    /\ Len(commits) + MaxRetries * (Cardinality(Committing) + 1) <= setting.ids
    /\ Len(rows) + MaxRetries * (Cardinality(Rewriting) + 1) <= setting.ids

Begin(p, kind, b, ids, from, new, vecs) ==
    /\ pc[p] = "idle"
    /\ kind \in setting.kinds
    /\ kind = "Vacuum" \/ Room
    /\ pc' = [pc EXCEPT ![p] = IF kind = "Vacuum" THEN "vacuum" ELSE "lookup"]
    /\ job' = [job EXCEPT ![p] = [Done EXCEPT !.kind = kind, !.branch = b, !.ids = ids,
                                    !.from = from, !.new = new, !.vecs = vecs]]
    /\ UNCHANGED <<commits, views, files, tips>>

NextObject == Len(rows) + 1

WriteObject(contents) ==
    /\ rows' = Append(rows, contents)
    /\ data' = data \cup {NextObject}

(* Load writes its data objects before it commits them. *)
Load(p) ==
    \E b \in Names :
        /\ Exists(b)
        /\ Begin(p, "Load", b, <<>>, Nil, <<NextObject>>, <<>>)
        /\ WriteObject({NextObject})

IDLists == LET os == DOMAIN rows
           IN {<<o>> : o \in os} \cup {<<o, q>> : o, q \in os}

DeleteOrVectors(p) ==
    \E kind \in {"Delete", "AddVectors", "DeleteVectors"}, b \in Names, ids \in IDLists :
        /\ Exists(b)
        /\ Repeats \/ IsInjective(ids)
        /\ kind = "AddVectors" => ToSet(ids) \subseteq data    \* CreateVector reads them
        /\ Begin(p, kind, b, ids, Nil, <<>>, <<>>)
        /\ UNCHANGED <<rows, data>>

(* The filter matches one row, given by the object that loaded it. *)
DeleteWhere(p) ==
    \E b \in Names, r \in DOMAIN rows :
        /\ Exists(b)
        /\ Begin(p, "DeleteWhere", b, <<r>>, Nil, <<>>, <<>>)
        /\ UNCHANGED <<rows, data>>

Revert(p) ==
    \E b \in Names, c \in Known :
        /\ Exists(b)
        /\ Begin(p, "Revert", b, <<>>, c, <<>>, <<>>)
        /\ UNCHANGED <<rows, data>>

(* mergeInto works on the child's tip as of its opening. *)
Merge(p) ==
    \E child, b \in Names :
        /\ Exists(child) /\ Exists(b)
        /\ Begin(p, "Merge", b, <<>>, tips[child], <<>>, <<>>)
        /\ UNCHANGED <<rows, data>>

(* Compact reads its source objects from the tip as of its opening and     *)
(* writes the rollup before it commits.                                    *)
Compact(p) ==
    \E b \in Names :
        /\ Exists(b)
        /\ Readable(tips[b])
        /\ \E src \in SUBSET (Objs(tips[b]) \cap data), writeVectors \in BOOLEAN :
              /\ Cardinality(src) >= 2 \/ (Repeats /\ src # {})
              /\ Begin(p, "Compact", b, SetToSeq(src), Nil, <<NextObject>>,
                       IF writeVectors THEN <<NextObject>> ELSE <<>>)
              /\ WriteObject(RowsIn(src))

(* Vacuum works from the snapshot of the revision it is given. *)
Vacuum(p) ==
    \E leaf \in Known :
        /\ Readable(leaf)
        /\ Begin(p, "Vacuum", NoBranch, SetToSeq(Vacuumable(leaf)), leaf, <<>>, <<>>)
        /\ UNCHANGED <<rows, data>>

RemoveBranch(p) ==
    \E b \in Names :
        /\ Exists(b)
        /\ Begin(p, "RemoveBranch", b, <<>>, Nil, <<>>, <<>>)
        /\ UNCHANGED <<rows, data>>

(* CreatePool, CreateBranch: the name must be new; the commit is not read. *)
CreateBranch ==
    \E b \in setting.names, c \in Known \cup {Nil} :
        LET op == BranchOp("Insert", b, c, NoBranch)
        IN /\ KV!CheckOK(tips, op)
           /\ tips' = KV!Apply(tips, op)
           /\ UNCHANGED <<commits, views, files, rows, data, pc, job>>

----------------------------------------------------------------------------
(* Branch.commit. *)

Go(p, where, j) ==
    /\ pc' = [pc EXCEPT ![p] = where]
    /\ job' = [job EXCEPT ![p] = j]

Return(p) == Go(p, "idle", Done)

(* The operation returns an error: a compaction deletes what it wrote. *)
Fail(p) ==
    /\ Return(p)
    /\ data' = IF job[p].kind = "Compact" THEN data \ ToSet(job[p].new) ELSE data

Lookup(p) ==
    /\ pc[p] = "lookup"
    /\ LET j == job[p] IN
         IF Exists(j.branch)
         THEN /\ Go(p, IF j.kind = "RemoveBranch" THEN "remove" ELSE "create",
                    [j EXCEPT !.parent = tips[j.branch]])
              /\ UNCHANGED data
         ELSE Fail(p)
    /\ UNCHANGED <<commits, views, files, tips, rows>>

(* The constructors: the actions to commit on the snapshot v of the parent,*)
(* or none for an error.                                                   *)

(* Mutant: the objects are not looked up in the snapshot. *)
DeletesUnchecked(v, ids) == {Actions(ids, <<>>, <<>>, <<>>)}

Deletes(v, ids) ==
    {a \in {Actions(ids, <<>>, <<>>, <<>>)} : ToSet(ids) \subseteq v.has.objs}

AddsVectors(v, ids) ==
    {a \in {Actions(<<>>, <<>>, <<>>, ids)} :
        ToSet(ids) \subseteq v.has.objs \ v.has.vecs}

DeletesVectors(v, ids) ==
    {a \in {Actions(<<>>, <<>>, ids, <<>>)} :
        ToSet(ids) \subseteq v.has.objs \cap v.has.vecs}

(* DeleteWhere rewrites the objects that hold matching rows. *)
Hit(v, r)  == {o \in v.has.objs : r \in rows[o]}
Left(v, r) == RowsIn(Hit(v, r)) \ {r}

(* Mutant: the rows that do not match are not written back. *)
RewritesNothing(v, r) ==
    {a \in {Actions(SetToSeq(Hit(v, r)), <<>>, <<>>, <<>>)} : Hit(v, r) # {}}

Rewrites(v, r) ==
    {a \in {Actions(SetToSeq(Hit(v, r)), IF Left(v, r) = {} THEN <<>> ELSE <<NextObject>>,
                    <<>>, <<>>)} :
        Hit(v, r) # {} /\ Hit(v, r) \subseteq data}

(* Mutant: source objects that are gone are skipped. *)
CompactsUnchecked(v, src, rollup, vecs) ==
    {Actions(SelectSeq(src, LAMBDA o : o \in v.has.objs), rollup, <<>>, vecs)}

Compacts(v, src, rollup, vecs) ==
    LET patch == PlayPatch(NewPatch(v), Actions(src, rollup, <<>>, vecs))
    IN {a \in {Actions(src, rollup, <<>>, vecs)} : PatchOK(patch)}

Reverts(tip, c) ==
    LET patch == PatchOfCommit(c)
    IN IF Path[c] \subseteq files /\ Snapshot(commits[c].parent).ok /\ PatchOK(patch)
       THEN RevertPatch(patch, tip) ELSE {}

CommonAncestor(c, d) ==     \* IDs grow along a path
    IF Path[c] \cap Path[d] = {} THEN Nil ELSE Max(Path[c] \cap Path[d])

Merges(parent, child) ==
    LET base == CommonAncestor(parent, child)
        pp == PatchOfPath(base, parent)
        cp == PatchOfPath(base, child)
    IN IF /\ base # Nil /\ Readable(base)
          /\ Path[parent] \cup Path[child] \subseteq files
          /\ PatchOK(pp) /\ PatchOK(cp)
       THEN Diff(pp, cp) ELSE {}

Constructed(j) ==
    LET v == Snapshot(j.parent)
    IN CASE j.kind = "Load"  -> {Actions(<<>>, j.new, <<>>, <<>>)}
         [] j.kind = "Merge" -> Merges(j.parent, j.from)
         [] OTHER ->
              IF ~Readable(j.parent) THEN {}
              ELSE CASE j.kind = "Delete"        -> Deletes(v, j.ids)
                     [] j.kind = "AddVectors"    -> AddsVectors(v, j.ids)
                     [] j.kind = "DeleteVectors" -> DeletesVectors(v, j.ids)
                     [] j.kind = "DeleteWhere"   -> Rewrites(v, j.ids[1])
                     [] j.kind = "Compact"       -> Compacts(v, j.ids, j.new, j.vecs)
                     [] j.kind = "Revert"        -> Reverts(v, j.from)

(* The constructor, then commits.Put of the new commit object. *)
Create(p) ==
    /\ pc[p] = "create"
    /\ \E acts \in Constructed(job[p]) :
         LET j == job[p]
             c == Len(commits) + 1
         IN /\ commits' = Append(commits, [parent |-> j.parent, acts |-> acts])
            /\ views' = Append(views, Play(Snapshot(j.parent), acts))
            /\ files' = files \cup {c}
            /\ IF j.kind = "DeleteWhere" /\ acts.add.objs # <<>>
               THEN WriteObject(Left(Snapshot(j.parent), j.ids[1]))
               ELSE UNCHANGED <<rows, data>>
            /\ Go(p, "update", [j EXCEPT !.made = c])
    /\ UNCHANGED tips

CreateFails(p) ==
    /\ pc[p] = "create"
    /\ Constructed(job[p]) = {}
    /\ Fail(p)
    /\ UNCHANGED <<commits, views, files, tips, rows>>

UpdateOp(p) == BranchOp("Update", job[p].branch, job[p].made, job[p].parent)

(* Mutant: the update carries no constraint. *)
UpdateUnconstrained(p) ==
    /\ pc[p] = "update"
    /\ Exists(job[p].branch)
    /\ tips' = KV!Apply(tips, UpdateOp(p))
    /\ Return(p)
    /\ UNCHANGED <<commits, views, files, rows, data>>

Update(p) ==
    /\ pc[p] = "update"
    /\ KV!CheckOK(tips, UpdateOp(p))
    /\ tips' = KV!Apply(tips, UpdateOp(p))
    /\ Return(p)
    /\ UNCHANGED <<commits, views, files, rows, data>>

(* Mutant: the commit object is built once, outside the retry loop. *)
ConflictKeepsObject(p) ==
    /\ pc[p] = "update"
    /\ Exists(job[p].branch)
    /\ ~KV!CheckOK(tips, UpdateOp(p))
    /\ files' = files \ {job[p].made}
    /\ IF job[p].retries + 1 < MaxRetries
       THEN /\ Go(p, "update", [job[p] EXCEPT !.parent = tips[job[p].branch],
                                              !.retries = @ + 1])
            /\ UNCHANGED data
       ELSE Fail(p)
    /\ UNCHANGED <<commits, views, tips, rows>>

(* Mutant: one attempt too many. *)
ConflictOffByOne(p) ==
    /\ pc[p] = "update"
    /\ Exists(job[p].branch)
    /\ ~KV!CheckOK(tips, UpdateOp(p))
    /\ files' = files \ {job[p].made}
    /\ IF job[p].retries < MaxRetries
       THEN /\ Go(p, "lookup", [job[p] EXCEPT !.parent = Nil, !.made = Nil, !.retries = @ + 1])
            /\ UNCHANGED data
       ELSE Fail(p)
    /\ UNCHANGED <<commits, views, tips, rows>>

(* Mutant: the retry is not counted and keeps its parent. *)
ConflictForever(p) ==
    /\ pc[p] = "update"
    /\ Exists(job[p].branch)
    /\ ~KV!CheckOK(tips, UpdateOp(p))
    /\ files' = files \ {job[p].made}
    /\ UNCHANGED <<commits, views, tips, rows, data, pc, job>>

(* ErrConstraint: the commit object is removed and built anew. *)
Conflict(p) ==
    /\ pc[p] = "update"
    /\ Exists(job[p].branch)
    /\ ~KV!CheckOK(tips, UpdateOp(p))
    /\ files' = files \ {job[p].made}
    /\ IF job[p].retries + 1 < MaxRetries
       THEN /\ Go(p, "lookup", [job[p] EXCEPT !.parent = Nil, !.made = Nil, !.retries = @ + 1])
            /\ UNCHANGED data
       ELSE Fail(p)
    /\ UNCHANGED <<commits, views, tips, rows>>

(* ErrNoSuchKey: the branch has been removed. *)
UpdateFails(p) ==
    /\ pc[p] = "update"
    /\ ~Exists(job[p].branch)
    /\ files' = files \ {job[p].made}
    /\ Fail(p)
    /\ UNCHANGED <<commits, views, tips, rows>>

(* branches.Remove: only if nobody moved the tip. *)
DeleteBranch(p) ==
    /\ pc[p] = "remove"
    /\ LET op == BranchOp("Delete", job[p].branch, Nil, job[p].parent)
       IN tips' = IF KV!CheckOK(tips, op) THEN KV!Apply(tips, op) ELSE tips
    /\ Return(p)
    /\ UNCHANGED <<commits, views, files, rows, data>>

(* Vacuum deletes one object after the other. *)
VacuumObject(p) ==
    /\ pc[p] = "vacuum"
    /\ IF job[p].ids = <<>>
       THEN Return(p) /\ UNCHANGED data
       ELSE /\ data' = data \ {Head(job[p].ids)}
            /\ Go(p, "vacuum", [job[p] EXCEPT !.ids = Tail(@)])
    /\ UNCHANGED <<commits, views, files, tips, rows>>

----------------------------------------------------------------------------
(* Faults. *)

(* A storage call before the update takes effect returns an error; commit  *)
(* removes the object it has put.                                          *)
StorageError(p) ==
    /\ p \in setting.faulty
    /\ pc[p] \in {"lookup", "create", "update", "remove", "vacuum"}
    /\ files' = IF pc[p] = "update" THEN files \ {job[p].made} ELSE files
    /\ Fail(p)
    /\ UNCHANGED <<commits, views, tips, rows>>

(* The update took effect, but the caller is told that it failed. *)
LostReply(p) ==
    /\ setting.lost /\ p \in setting.faulty
    /\ pc[p] = "update"
    /\ KV!CheckOK(tips, UpdateOp(p))
    /\ tips' = KV!Apply(tips, UpdateOp(p))
    /\ files' = files \ {job[p].made}
    /\ Fail(p)
    /\ UNCHANGED <<commits, views, rows>>

Crash(p) ==
    /\ p \in setting.faulty
    /\ pc[p] # "idle"
    /\ Return(p)
    /\ UNCHANGED <<commits, views, files, tips, rows, data>>

----------------------------------------------------------------------------
Init ==
    /\ commits = <<>> /\ views = <<>> /\ files = {}
    /\ tips = [b \in Names |-> NoBranch]
    /\ rows = <<>> /\ data = {}
    /\ pc = [p \in Workers |-> "idle"]
    /\ job = [p \in Workers |-> Done]
    /\ setting \in Settings

Start(p) ==
    \/ Load(p) \/ DeleteOrVectors(p) \/ DeleteWhere(p) \/ Revert(p)
    \/ Merge(p) \/ Compact(p) \/ Vacuum(p) \/ RemoveBranch(p)

Step(p) ==
    \/ Lookup(p) \/ Create(p) \/ CreateFails(p) \/ Update(p) \/ Conflict(p)
    \/ UpdateFails(p) \/ DeleteBranch(p) \/ VacuumObject(p)

Next ==
    /\ \/ \E p \in Workers : Start(p) \/ Step(p) \/ StorageError(p) \/ LostReply(p) \/ Crash(p)
       \/ CreateBranch
    /\ UNCHANGED setting

Spec == Init /\ [][Next]_vars

(* A goroutine inside an operation keeps running. *)
FairSpec == Spec /\ \A p \in Workers : WF_vars(Step(p) /\ UNCHANGED setting)

----------------------------------------------------------------------------
(* Properties. *)

Snapshots == [ok : BOOLEAN, has : [Family -> SUBSET Nat]]
ActionSet == [Family -> Seq(Nat)]
Jobs == [kind : AllKinds \cup {"none"}, branch : Names \cup {NoBranch},
         ids : Seq(Nat), from : Nat, new : Seq(Nat), vecs : Seq(Nat),
         parent : Nat, made : Nat, retries : 0 .. MaxRetries - 1]

(* Every variable has the type the code gives it. *)
TypeOK ==
    /\ commits \in Seq([parent : Nat, acts : [del : ActionSet, add : ActionSet]])
    /\ views \in Seq(Snapshots) /\ Len(views) = Len(commits)
    /\ files \subseteq DOMAIN commits
    /\ tips \in [Names -> 0 .. Len(commits) \cup {NoBranch}]
    /\ rows \in Seq(SUBSET Nat)
    /\ data \subseteq DOMAIN rows
    /\ pc \in [Workers -> {"idle", "lookup", "create", "update", "remove", "vacuum"}]
    /\ job \in [Workers -> Jobs]
    /\ setting \in Settings

Tips == {tips[b] : b \in {n \in Names : Exists(n)}}

(* Whatever retries, removals and crashes happen, no commit object a       *)
(* branch needs is ever missing: commit objects are removed only "when GC  *)
(* says they are not used" (lake/commits/store.go).  This is promised only *)
(* where an update that took effect is not reported as failed.             *)
TipsReachable == ~setting.lost => \A c \in Tips : Path[c] \subseteq files

(* "Each commit object ... provides a completely consistent view": the     *)
(* snapshot of every branch can be computed without a write conflict.      *)
TipsReadable == \A c \in Tips : Snapshot(c).ok

TipsMoveToChildren ==
    \A b \in Names :
        (Exists(b) /\ tips'[b] \notin {tips[b], NoBranch})
            => commits[tips'[b]].parent = tips[b]

(* A branch only grows: Branch.commit never loses a commit another worker  *)
(* made between its lookup and its update.                                 *)
HistoryKept == [][TipsMoveToChildren]_vars

(* No row is in two objects of a branch: concurrent compactions, deletes   *)
(* and retries neither copy rows nor bring back rewritten ones.            *)
NoDuplicateRows ==
    \A c \in Tips : \A o, q \in Objs(c) : o # q => rows[o] \cap rows[q] = {}

(* Every data object of a branch is in storage. *)
DataPresent == \A c \in Tips : Objs(c) \subseteq data

(* The rows an operation is to leave in its branch. *)
Effect(j, old) ==
    CASE j.kind = "Load"        -> old \cup RowsIn(ToSet(j.new))
      [] j.kind = "Delete"      -> old \ RowsIn(ToSet(j.ids))
      [] j.kind = "DeleteWhere" -> old \ ToSet(j.ids)
      [] j.kind = "Merge"       -> old \cup RowsOf(j.from)
      [] j.kind = "Revert"      ->
            LET was == RowsOf(commits[j.from].parent)
                got == RowsOf(j.from)
            IN (old \ (got \ was)) \cup (was \ got)
      [] OTHER                  -> old

UpdatesApply ==
    \A p \in Workers :
        Update(p) => RowsOf(job[p].made) = Effect(job[p], RowsOf(tips[job[p].branch]))

(* An operation that succeeds changes the rows its branch has at that      *)
(* moment in the way the operation says, whatever happened since it began: *)
(* loads add, deletes delete, compaction changes no row, a merge brings in *)
(* "all of the data present at merge initiation".                          *)
AppliesToTip == [][UpdatesApply]_vars

(* Every operation returns. *)
OpsReturn == \A p \in Workers : pc[p] # "idle" ~> pc[p] = "idle"
=============================================================================
