-------------------------------- MODULE Root --------------------------------
(***************************************************************************)
(* lake.Root over the pools store: processes that create or open the lake, *)
(* create, rename and remove pools and list the branches of all pools.     *)
(* The pools store is the atomic table that Journal implements: keys are   *)
(* pool names, entries pool IDs (the rest of a pool's configuration never  *)
(* changes).  A pool's files are its branches journal: "store" when it     *)
(* exists without the branch main, "full" with it.  Clients call anything  *)
(* at any time; two of their races, a rename that comes late and a second  *)
(* creation of the lake, do damage that crossed and log remember.          *)
(***************************************************************************)
EXTENDS KVTable, FiniteSets

CONSTANTS Procs,       \* processes, each with a Root and one operation at a time
          MaxFaults,   \* bound on crashes and failing calls
          MaxLists     \* bound on listings

ASSUME RootAssumption == /\ IsFiniteSet(Procs)
                         /\ MaxFaults \in Nat /\ MaxLists \in Nat

VARIABLES magic,  \* lake.zng exists
          log,    \* the store's journal: "empty", "live", or "reset" when it has
                  \* entries and HEAD is back at 0
          pools,  \* the table that the journal's entries make
          files,  \* files[id]: the pool's files
          cache,  \* cache[p]: the pools of p's poolCache
          proc,   \* proc[p] = [pc, id, name, to, list, ahead]; ahead: p may have
                  \* passed its check before HEAD went back to 0
          used,   \* the IDs that were generated
          lost,   \* the IDs whose Add took effect and reported an error
          crossed, \* the IDs that a rename which came late has met
          faults, \* the faults so far
          lists   \* the listings so far

vars == <<magic, log, pools, files, cache, proc, used, lost, crossed, faults, lists>>

Down == [pc |-> "down", id |-> NoVal, name |-> NoVal, to |-> NoVal, list |-> {},
         ahead |-> FALSE]
Idle == [Down EXCEPT !.pc = "idle"]

Init ==
    /\ magic = FALSE
    /\ log = "empty"
    /\ pools = EmptyTable
    /\ files = [id \in Vals |-> "none"]
    /\ cache = [p \in Procs |-> {}]
    /\ proc = [p \in Procs |-> Down]
    /\ used = {} /\ lost = {} /\ crossed = {}
    /\ faults = 0 /\ lists = 0

At(p, pc) == proc[p].pc = pc
Goto(p, pc) == proc' = [proc EXCEPT ![p].pc = pc]
Return(p) == proc' = [proc EXCEPT ![p] = Idle]
NameOf(id) == {n \in Keys : pools[n] = id}
Listed == {id \in Vals : NameOf(id) # {}}

\* What a reader of the store gets: it replays the entries up to HEAD.
Seen == IF log = "reset" THEN EmptyTable ELSE pools
SeenNames(id) == {n \in Keys : Seen[n] = id}

\* The operation of the pools store that p is about to commit.
StoreOp(p) ==
    LET c == proc[p]
    IN  CASE c.pc = "add"    -> [kind |-> "Insert", key |-> c.name, newKey |-> c.name,
                                 val |-> c.id, expect |-> NoVal]
          [] c.pc = "delete" -> [kind |-> "Delete", key |-> c.name, newKey |-> c.name,
                                 val |-> c.id, expect |-> c.id]
          [] c.pc = "move"   -> [kind |-> "Move", key |-> c.name, newKey |-> c.to,
                                 val |-> c.id, expect |-> NoVal]

\* The entry goes behind the one that p checked at.  Who finds HEAD at 0 goes
\* for the first position, which is taken, until its retries are exceeded.
Commit(p) ==
    /\ CheckOK(pools, StoreOp(p))
    /\ log = "reset" => proc[p].ahead
    /\ pools' = Apply(pools, StoreOp(p))
    /\ log' = "live"
Refused(p) ==
    /\ ~CheckOK(pools, StoreOp(p)) \/ log = "reset"
    /\ UNCHANGED <<pools, log>>

\* A Move comes late when the name that was looked up is another pool's now.
LateMove(p) ==
    IF At(p, "move") /\ pools[proc[p].name] # proc[p].id
    THEN {proc[p].id, pools[proc[p].name]} ELSE {}
-----------------------------------------------------------------------------
\* Open and Create: the lake is there when lake.zng is.
LoadConfig(p) ==
    /\ At(p, "down") /\ magic
    /\ Goto(p, "idle")
    /\ UNCHANGED <<magic, log, pools, files, cache, used, lost, crossed, faults, lists>>

Create(p) ==
    /\ At(p, "down") /\ ~magic
    /\ Goto(p, "createConfig")
    /\ UNCHANGED <<magic, log, pools, files, cache, used, lost, crossed, faults, lists>>

\* createConfig writes HEAD = 0 and TAIL = 1 whether or not there is a journal,
\* and leaves its entries alone; only then does writeLakeMagic find lake.zng.
CreateConfig(p) ==
    /\ At(p, "createConfig")
    /\ log' = IF log = "empty" THEN "empty" ELSE "reset"
    /\ proc' = [q \in Procs |->
                  IF q = p THEN [proc[p] EXCEPT !.pc = "writeMagic"]
                  ELSE IF log = "live" /\ proc[q].pc \in {"add", "delete", "move"}
                  THEN [proc[q] EXCEPT !.ahead = TRUE] ELSE proc[q]]
    /\ UNCHANGED <<magic, pools, files, cache, used, lost, crossed, faults, lists>>

WriteLakeMagic(p) ==
    /\ At(p, "writeMagic")
    /\ magic' = TRUE
    /\ Goto(p, IF magic THEN "down" ELSE "idle")
    /\ UNCHANGED <<log, pools, files, cache, used, lost, crossed, faults, lists>>
-----------------------------------------------------------------------------
\* Root.CreatePool: the name is looked up, the ID generated.
CreatePool(p, n, id) ==
    /\ At(p, "idle") /\ Seen[n] = NoVal
    /\ id \notin used
    /\ used' = used \cup {id}
    /\ proc' = [proc EXCEPT ![p] = [Idle EXCEPT !.pc = "createStore", !.id = id, !.name = n]]
    /\ UNCHANGED <<magic, log, pools, files, cache, lost, crossed, faults, lists>>

\* lake.CreatePool: the branches journal, then the branch main.
CreateStore(p) ==
    /\ At(p, "createStore")
    /\ files' = [files EXCEPT ![proc[p].id] = "store"]
    /\ Goto(p, "createMain")
    /\ UNCHANGED <<magic, log, pools, cache, used, lost, crossed, faults, lists>>

CreateMain(p) ==
    /\ At(p, "createMain")
    /\ files' = [files EXCEPT ![proc[p].id] = "full"]
    /\ Goto(p, "open")
    /\ UNCHANGED <<magic, log, pools, cache, used, lost, crossed, faults, lists>>

OpenNew(p) ==
    /\ At(p, "open")
    /\ cache' = [cache EXCEPT ![p] = @ \cup {proc[p].id}]
    /\ Goto(p, "add")
    /\ UNCHANGED <<magic, log, pools, files, used, lost, crossed, faults, lists>>

\* Mutant: the files stay when the name is taken.
AddPoolNoCleanup(p) ==
    /\ At(p, "add")
    /\ Commit(p) \/ Refused(p)
    /\ Return(p)
    /\ UNCHANGED <<magic, files, cache, used, lost, crossed, faults, lists>>

\* The name may be taken by now: the files are removed.
AddPool(p) ==
    /\ At(p, "add")
    /\ \/ Commit(p) /\ Return(p)
       \/ Refused(p) /\ Goto(p, "purge")
    /\ UNCHANGED <<magic, files, cache, used, lost, crossed, faults, lists>>

\* Root.RemovePool: lookup, Delete under the constraint that the entry is
\* still this pool's, then the cache and the files.
RemovePool(p, id) ==
    /\ At(p, "idle")
    /\ \E n \in SeenNames(id) :
          proc' = [proc EXCEPT ![p] = [Idle EXCEPT !.pc = "delete", !.id = id, !.name = n]]
    /\ UNCHANGED <<magic, log, pools, files, cache, used, lost, crossed, faults, lists>>

\* Mutant: Delete without a constraint.
DeletePoolUnconstrained(p) ==
    /\ At(p, "delete")
    /\ pools' = [pools EXCEPT ![proc[p].name] = NoVal] /\ log' = "live"
    /\ cache' = [cache EXCEPT ![p] = @ \ {proc[p].id}]
    /\ Goto(p, "purge")
    /\ UNCHANGED <<magic, files, used, lost, crossed, faults, lists>>

\* Mutant: the files are removed although the pool was renamed in between.
DeletePoolPurgesAnyway(p) ==
    /\ At(p, "delete")
    /\ Commit(p) \/ Refused(p)
    /\ cache' = [cache EXCEPT ![p] = @ \ {proc[p].id}]
    /\ Goto(p, "purge")
    /\ UNCHANGED <<magic, files, used, lost, crossed, faults, lists>>

DeletePool(p) ==
    /\ At(p, "delete")
    /\ \/ /\ Commit(p)
          /\ cache' = [cache EXCEPT ![p] = @ \ {proc[p].id}]
          /\ Goto(p, "purge")
       \/ Refused(p) /\ Return(p) /\ UNCHANGED cache
    /\ UNCHANGED <<magic, files, used, lost, crossed, faults, lists>>

\* DeleteByPrefix removes file after file.
Purge(p) ==
    /\ At(p, "purge")
    /\ \/ /\ files[proc[p].id] = "full"
          /\ files' = [files EXCEPT ![proc[p].id] = "store"]
          /\ UNCHANGED proc
       \/ files' = [files EXCEPT ![proc[p].id] = "none"] /\ Return(p)
    /\ UNCHANGED <<magic, log, pools, cache, used, lost, crossed, faults, lists>>

\* pools.Store.Rename: lookup, then Move of the old name without a constraint.
RenamePool(p, id, to) ==
    /\ At(p, "idle")
    /\ \E n \in SeenNames(id) :
          proc' = [proc EXCEPT ![p] =
                     [Idle EXCEPT !.pc = "move", !.id = id, !.name = n, !.to = to]]
    /\ UNCHANGED <<magic, log, pools, files, cache, used, lost, crossed, faults, lists>>

\* Mutant: the new entry is added and the old one stays.
MovePoolKeepsOld(p) ==
    /\ At(p, "move")
    /\ \/ CheckOK(pools, StoreOp(p)) /\ pools' = [pools EXCEPT ![proc[p].to] = proc[p].id]
       \/ ~CheckOK(pools, StoreOp(p)) /\ pools' = pools
    /\ Return(p)
    /\ UNCHANGED <<magic, log, files, cache, used, lost, crossed, faults, lists>>

MovePool(p) ==
    /\ At(p, "move")
    /\ \/ Commit(p) /\ crossed' = crossed \cup LateMove(p)
       \/ Refused(p) /\ UNCHANGED crossed
    /\ Return(p)
    /\ UNCHANGED <<magic, files, cache, used, lost, faults, lists>>

\* BatchifyBranches: the pools are listed, then opened one by one; one that
\* cannot be read fails the whole listing.
ListBranches(p) ==
    /\ At(p, "idle") /\ lists < MaxLists
    /\ lists' = lists + 1
    /\ proc' = [proc EXCEPT ![p] =
                  [Idle EXCEPT !.pc = "list", !.list = {id \in Vals : SeenNames(id) # {}}]]
    /\ UNCHANGED <<magic, log, pools, files, cache, used, lost, crossed, faults>>

ListNext(p) ==
    /\ At(p, "list")
    /\ \/ /\ proc[p].list = {}
          /\ Return(p)
          /\ UNCHANGED cache
       \/ \E id \in proc[p].list :
             \/ /\ files[id] # "none"
                /\ cache' = [cache EXCEPT ![p] = @ \cup {id}]
                /\ proc' = [proc EXCEPT ![p].list = @ \ {id}]
             \/ files[id] = "none" /\ Goto(p, "failed") /\ UNCHANGED cache
    /\ UNCHANGED <<magic, log, pools, files, used, lost, crossed, faults, lists>>

ListFailed(p) ==
    /\ At(p, "failed")
    /\ Return(p)
    /\ UNCHANGED <<magic, log, pools, files, cache, used, lost, crossed, faults, lists>>
-----------------------------------------------------------------------------
\* A call fails without effect.  CreatePool cleans up after openPool and Add
\* only.
CallFails(p) ==
    /\ faults < MaxFaults
    /\ faults' = faults + 1
    /\ \/ proc[p].pc \in {"createStore", "createMain", "delete", "move", "purge"} /\ Return(p)
       \/ proc[p].pc \in {"open", "add"} /\ Goto(p, "purge")
       \/ proc[p].pc \in {"createConfig", "writeMagic"} /\ Goto(p, "down")
    /\ UNCHANGED <<magic, log, pools, files, cache, used, lost, crossed, lists>>

\* The store commits the operation and reports an error.
ReplyLost(p) ==
    /\ faults < MaxFaults
    /\ faults' = faults + 1
    /\ proc[p].pc \in {"add", "delete", "move"}
    /\ Commit(p)
    /\ crossed' = crossed \cup LateMove(p)
    /\ IF At(p, "add") THEN Goto(p, "purge") /\ lost' = lost \cup {proc[p].id}
       ELSE Return(p) /\ UNCHANGED lost
    /\ UNCHANGED <<magic, files, cache, used, lists>>

Crash(p) ==
    /\ faults < MaxFaults
    /\ faults' = faults + 1
    /\ ~At(p, "down")
    /\ proc' = [proc EXCEPT ![p] = Down]
    /\ cache' = [cache EXCEPT ![p] = {}]
    /\ UNCHANGED <<magic, log, pools, files, used, lost, crossed, lists>>

Step(p) == \/ LoadConfig(p) \/ CreateConfig(p) \/ WriteLakeMagic(p)
           \/ CreateStore(p) \/ CreateMain(p) \/ OpenNew(p) \/ AddPool(p)
           \/ DeletePool(p) \/ Purge(p) \/ MovePool(p) \/ ListNext(p) \/ ListFailed(p)

Request(p) == \/ Create(p) \/ ListBranches(p)
              \/ \E n \in Keys, id \in Vals : CreatePool(p, n, id) \/ RenamePool(p, id, n)
              \/ \E id \in Vals : RemovePool(p, id)

Next == \E p \in Procs : Step(p) \/ Request(p) \/ CallFails(p) \/ ReplyLost(p) \/ Crash(p)

Spec == Init /\ [][Next]_vars
-----------------------------------------------------------------------------
TypeOK ==
    /\ magic \in BOOLEAN /\ log \in {"empty", "live", "reset"}
    /\ pools \in Tables
    /\ files \in [Vals -> {"none", "store", "full"}]
    /\ cache \in [Procs -> SUBSET Vals]
    /\ \A p \in Procs : proc[p].list \subseteq Vals /\ proc[p].id \in Vals \cup {NoVal}

(* A pool with an entry in the pools store can be opened: its branches journal
   and the branch main are there, however creations, removals, failing calls and
   crashes overlap and although the lake is created a second time.  Two cases are
   excepted, because there it is false of the code: the creation was told that
   its entry had failed when it had not (lost), or a rename that came late took
   the entry of another pool, and so brought back one that was being removed
   (crossed). *)
ListedComplete == \A id \in Listed : files[id] = "full" \/ id \in lost \cup crossed

(* A pool has one name, however creations, renames and removals overlap, except
   when a rename of it came so late that its old name was another pool's: that
   entry is moved, and the pool keeps the name it has been given since. *)
OneName == \A id \in Vals : Cardinality(NameOf(id)) <= 1 \/ id \in crossed

(* The entry of a pool leaves the pools store through the pool's own removal
   only: not through renames and removals of other pools, except by a rename that
   comes after its own pool's old name has become this pool's, and not through a
   second creation of the lake, which hides the entries and keeps them. *)
LeaveByRemoval ==
    \A id \in Listed : \/ NameOf(id)' # {}
                       \/ id \in crossed'
                       \/ \E p \in Procs : /\ At(p, "delete") /\ proc[p].id = id
                                           /\ proc'[p].pc # "delete"
PoolsKept == [][LeaveByRemoval]_vars

(* Without faults, and but for pools that a late rename has met, nothing is left
   behind: when all operations have returned, a pool has files exactly if the
   pools store has an entry of it. *)
NoOrphans == faults = 0 /\ (\A p \in Procs : proc[p].pc \in {"idle", "down"})
                 => \A id \in Vals \ crossed : files[id] # "none" <=> id \in Listed

(* docs/commands/zed.md says of rename that it assigns a new name to the pool,
   given by its ID, that was asked for.  Then it takes no other pool's name. *)
OthersKeepNames ==
    \A p \in Procs, id \in Vals :
        At(p, "move") /\ proc'[p].pc # "move" /\ id # proc[p].id => NameOf(id)' = NameOf(id)
RenameTakesOwnName == [][OthersKeepNames]_vars

(* docs/commands/zed.md: "If the lake already exists, `init` reports an error and
   does nothing."  Then it does not change what the pools store shows. *)
InitDoesNothing ==
    [][\A p \in Procs : magic /\ At(p, "createConfig") /\ proc'[p].pc = "writeMagic"
                            => Seen' = Seen]_vars

(* What the comment in BatchifyBranches says: a pool that is removed while the
   branches are listed does not fail the listing. *)
ListingGoesOn == \A p \in Procs : ~At(p, "failed")
=============================================================================
