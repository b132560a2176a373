------------------------------ MODULE Journal ------------------------------
(***************************************************************************)
(* The lake's journal: a log of numbered files with a HEAD file            *)
(* (lake/journal/queue.go), read and extended by stores that cache the     *)
(* table the log stands for (lake/journal/store.go).  A store is one       *)
(* process's journal.Store; its threads are the goroutines that call it.   *)
(* Every access to storage and every critical section of Store.mu is a     *)
(* step of its own.                                                        *)
(***************************************************************************)
EXTENDS KVTable, Integers, Sequences, FiniteSets

CONSTANTS
    Stores,         \* processes, each with its journal.Store
    Threads,        \* goroutines calling the stores
    StoreOf,        \* the store a thread calls
    Faulty,         \* stores whose process may crash and whose I/O may fail
    Engine,         \* "file" or "s3": what pkg/storage can do
    MaxRetries,     \* maxRetries in store.go (10)
    SnapEvery,      \* entries between snapshots (10)
    IDRange,        \* journal IDs wrap here (2^64)
    MaxLog          \* bound on the entries of the log

ASSUME StoreOfAssumption == StoreOf \in [Threads -> Stores]
ASSUME FaultyAssumption  == Faulty \subseteq Stores
ASSUME EngineAssumption  == Engine \in {"file", "s3"}
ASSUME SizesAssumption   == /\ MaxRetries \in Nat \ {0}
                            /\ SnapEvery \in Nat
                            /\ IDRange \in Nat \ {0}
                            /\ MaxLog \in Nat

VARIABLES
    log,        \* log[n] is the entry in file n.zng
    head,       \* the last ID written to the HEAD file
    torn,       \* HEAD is truncated, its new content not yet written
    snap,       \* the snap.zng file: an ID and a table
    table,      \* per store: the cached table ...
    at,         \* ... and the ID it is filed under
    fresh,      \* per store: the table was loaded less than a second ago
    pc,         \* per thread: where it is
    call,       \* per thread: the operation it executes
    attempts,   \* per thread: commit attempts so far
    ld,         \* per thread: the locals of Store.load and its Reader
    cat,        \* per thread: the local at of Store.commit
    hist,       \* hist[n] is the table after entry n (history variable)
    seen        \* per thread: HEAD when its operation began (history variable)

storage == <<log, head, torn, snap, hist>>
cache   == <<table, at, fresh>>
locals  == <<call, attempts, ld, cat, seen>>
vars    == <<storage, cache, pc, locals>>

Nil    == 0         \* the null journal ID
TailID == 1         \* what Create writes to the TAIL file
IDs    == Nat

NoSnap == [id |-> Nil, table |-> EmptyTable]
NoLoad == [hd |-> Nil, sid |-> Nil, cursor |-> 0, stop |-> 0, acc |-> EmptyTable]
AnyOp  == CHOOSE o \in Ops : TRUE       \* call of an idle thread

(* The table after entry n, given the history h of tables. *)
TableIn(h, n) == IF n = 0 THEN EmptyTable ELSE h[n]

TableAt(n) == TableIn(hist, n)

Sub(a, b) == (a - b) % IDRange          \* subtraction of journal IDs

S(t) == StoreOf[t]

Go(t, where) == pc' = [pc EXCEPT ![t] = where]

Return(t) ==
    /\ Go(t, "idle")
    /\ call' = [call EXCEPT ![t] = AnyOp]
    /\ attempts' = [attempts EXCEPT ![t] = 0]
    /\ ld' = [ld EXCEPT ![t] = NoLoad]
    /\ cat' = [cat EXCEPT ![t] = Nil]
    /\ seen' = [seen EXCEPT ![t] = 0]

----------------------------------------------------------------------------
(* CreateStore, then one newStore per process. *)
Init ==
    /\ log = <<>> /\ hist = <<>>
    /\ head = Nil /\ torn = FALSE
    /\ snap = NoSnap
    /\ table = [s \in Stores |-> EmptyTable]
    /\ at = [s \in Stores |-> Nil]
    /\ fresh = [s \in Stores |-> FALSE]
    /\ pc = [t \in Threads |-> "idle"]
    /\ call = [t \in Threads |-> AnyOp]
    /\ attempts = [t \in Threads |-> 0]
    /\ ld = [t \in Threads |-> NoLoad]
    /\ cat = [t \in Threads |-> Nil]
    /\ seen = [t \in Threads |-> 0]

----------------------------------------------------------------------------
(* A thread calls an operation of its store.  MaxLog bounds the entries    *)
(* written and still to be written.                                        *)
Committing == {t \in Threads : pc[t] # "idle" /\ call[t].kind \in CommitKinds}

Room == Len(log) + Cardinality(Committing) < MaxLog

Start(t) ==
    /\ pc[t] = "idle"
    /\ \E o \in Ops :
         /\ o.kind \in CommitKinds => Room
         /\ call' = [call EXCEPT ![t] = o]
         /\ Go(t, IF o.kind = "Lookup" /\ fresh[S(t)] THEN "peek" ELSE "readHead")
    /\ seen' = [seen EXCEPT ![t] = head]
    /\ UNCHANGED <<storage, cache, attempts, ld, cat>>

(* Lookup trusts a table loaded within the last second if it has the key. *)
Peek(t) ==
    /\ pc[t] = "peek"
    /\ IF table[S(t)][call[t].key] # NoVal
       THEN Return(t)
       ELSE Go(t, "readHead") /\ UNCHANGED locals
    /\ UNCHANGED <<storage, cache>>

----------------------------------------------------------------------------
(* Store.load. *)

(* ReadHead: a truncated HEAD is read again until it parses ... *)
ReadHead(t) ==
    /\ pc[t] = "readHead"
    /\ ~torn
    /\ ld' = [ld EXCEPT ![t] = [@ EXCEPT !.hd = head]]
    /\ Go(t, "compare")
    /\ UNCHANGED <<storage, cache, call, attempts, cat, seen>>

(* ... or MaxReadRetry looks have found it truncated. *)
ReadHeadFails(t) ==
    /\ torn
    /\ \/ pc[t] = "readHead"
       \/ pc[t] = "open" /\ ld[t].hd = Nil
    /\ Return(t)
    /\ UNCHANGED <<storage, cache>>

(* The end of load, in commit and in the reads. *)
AfterLoad(t) ==
    /\ Go(t, IF call[t].kind \in CommitKinds THEN "check" ELSE "read")
    /\ ld' = [ld EXCEPT ![t] = NoLoad]

(* Mutant: a table loaded within the last second passes for current. *)
CompareTrustsFresh(t) ==
    /\ pc[t] = "compare"
    /\ IF ld[t].hd = at[S(t)] \/ fresh[S(t)]
       THEN AfterLoad(t)
       ELSE Go(t, "getSnapshot") /\ UNCHANGED ld
    /\ UNCHANGED <<storage, cache, call, attempts, cat, seen>>

Compare(t) ==
    /\ pc[t] = "compare"
    /\ IF ld[t].hd = at[S(t)]
       THEN AfterLoad(t)
       ELSE Go(t, "getSnapshot") /\ UNCHANGED ld
    /\ UNCHANGED <<storage, cache, call, attempts, cat, seen>>

GetSnapshot(t) ==
    /\ pc[t] = "getSnapshot"
    /\ ld' = [ld EXCEPT ![t] = [@ EXCEPT !.sid = snap.id, !.acc = snap.table]]
    /\ Go(t, "open")
    /\ UNCHANGED <<storage, cache, call, attempts, cat, seen>>

(* Queue.Open reads HEAD again when it is handed the null ID, and TAIL when *)
(* there is no snapshot.  The reader starts at the snapshot's own entry.   *)
OpenReader(t) ==
    /\ pc[t] = "open"
    /\ ld[t].hd = Nil => ~torn
    /\ ld' = [ld EXCEPT ![t] = [@ EXCEPT
                !.stop = IF ld[t].hd = Nil THEN head ELSE ld[t].hd,
                !.cursor = (IF ld[t].sid = Nil THEN TailID ELSE ld[t].sid) - 1]]
    /\ Go(t, "replay")
    /\ UNCHANGED <<storage, cache, call, attempts, cat, seen>>

More(t)      == ld[t].cursor < ld[t].stop
NextEntry(t) == log[ld[t].cursor + 1]

(* An Update needs its key in the table; Add and Delete do not. *)
Replayable(acc, o) == o.kind = "Update" => acc[o.key] # NoVal

(* Mutant: the reader does not advance. *)
ReplayEntryStuck(t) ==
    /\ pc[t] = "replay"
    /\ More(t)
    /\ Replayable(ld[t].acc, NextEntry(t))
    /\ ld' = [ld EXCEPT ![t] = [@ EXCEPT !.acc = Apply(ld[t].acc, NextEntry(t))]]
    /\ UNCHANGED <<storage, cache, pc, call, attempts, cat, seen>>

ReplayEntry(t) ==
    /\ pc[t] = "replay"
    /\ More(t)
    /\ Replayable(ld[t].acc, NextEntry(t))
    /\ ld' = [ld EXCEPT ![t] = [@ EXCEPT !.cursor = ld[t].cursor + 1,
                                         !.acc = Apply(ld[t].acc, NextEntry(t))]]
    /\ UNCHANGED <<storage, cache, pc, call, attempts, cat, seen>>

ReplayFails(t) ==
    /\ pc[t] = "replay"
    /\ More(t)
    /\ ~Replayable(ld[t].acc, NextEntry(t))
    /\ Return(t)
    /\ UNCHANGED <<storage, cache>>

(* Mutant: the table is filed under the HEAD of now, not the one loaded. *)
PublishAtHead(t) ==
    /\ pc[t] = "replay"
    /\ ~More(t)
    /\ table' = [table EXCEPT ![S(t)] = ld[t].acc]
    /\ at' = [at EXCEPT ![S(t)] = head]
    /\ fresh' = [fresh EXCEPT ![S(t)] = TRUE]
    /\ AfterLoad(t)
    /\ UNCHANGED <<storage, call, attempts, cat, seen>>

Publish(t) ==
    /\ pc[t] = "replay"
    /\ ~More(t)
    /\ table' = [table EXCEPT ![S(t)] = ld[t].acc]
    /\ at' = [at EXCEPT ![S(t)] = ld[t].hd]
    /\ fresh' = [fresh EXCEPT ![S(t)] = TRUE]
    /\ IF Sub(ld[t].hd, ld[t].sid) > SnapEvery
       THEN Go(t, IF Engine = "file" THEN "truncSnapshot" ELSE "putSnapshot") /\ UNCHANGED ld
       ELSE AfterLoad(t)
    /\ UNCHANGED <<storage, call, attempts, cat, seen>>

(* putSnapshot: on the file engine Put truncates, the data comes later. *)
TruncSnapshot(t) ==
    /\ pc[t] = "truncSnapshot"
    /\ snap' = NoSnap
    /\ Go(t, "putSnapshot")
    /\ UNCHANGED <<log, head, torn, hist, cache, locals>>

PutSnapshot(t) ==
    /\ pc[t] = "putSnapshot"
    /\ snap' = [id |-> ld[t].hd, table |-> ld[t].acc]
    /\ AfterLoad(t)
    /\ UNCHANGED <<log, head, torn, hist, cache, call, attempts, cat, seen>>

----------------------------------------------------------------------------
(* Keys, Values, All and Lookup copy what they need under the read lock. *)
Read(t) ==
    /\ pc[t] = "read"
    /\ Return(t)
    /\ UNCHANGED <<storage, cache>>

(* Mutant: the entry goes after the HEAD of now, as in Queue.Commit. *)
CheckAtHead(t) ==
    /\ pc[t] = "check"
    /\ IF CheckOK(table[S(t)], call[t])
       THEN /\ cat' = [cat EXCEPT ![t] = head]
            /\ Go(t, "put")
            /\ UNCHANGED <<call, attempts, ld, seen>>
       ELSE Return(t)
    /\ UNCHANGED <<storage, cache>>

(* Store.commit: the check, then Queue.CommitAt. *)
Check(t) ==
    /\ pc[t] = "check"
    /\ IF CheckOK(table[S(t)], call[t])
       THEN /\ cat' = [cat EXCEPT ![t] = at[S(t)]]
            /\ Go(t, "put")
            /\ UNCHANGED <<call, attempts, ld, seen>>
       ELSE Return(t)
    /\ UNCHANGED <<storage, cache>>

Exists(n) == n <= Len(log)      \* file n.zng

(* Entry n is written; the history says what table it leads to. *)
PutEntry(n, o) ==
    LET post == Apply(TableAt(n - 1), o)
    IN IF Exists(n)
       THEN /\ log' = [log EXCEPT ![n] = o]
            /\ hist' = [hist EXCEPT ![n] = post]
       ELSE log' = Append(log, o) /\ hist' = Append(hist, post)

(* Mutant: the entry is put whether or not it exists. *)
CommitAtOverwrites(t) ==
    /\ pc[t] = "put"
    /\ PutEntry(cat[t] + 1, call[t])
    /\ Go(t, IF Engine = "file" THEN "truncHead" ELSE "writeHead")
    /\ UNCHANGED <<head, torn, snap, cache, locals>>

(* PutIfNotExists, which S3 lacks: there the entry is simply put. *)
CommitAt(t) ==
    /\ pc[t] = "put"
    /\ Engine = "file" => ~Exists(cat[t] + 1)
    /\ PutEntry(cat[t] + 1, call[t])
    /\ Go(t, IF Engine = "file" THEN "truncHead" ELSE "writeHead")
    /\ UNCHANGED <<head, torn, snap, cache, locals>>

Conflict(t) ==
    /\ pc[t] = "put"
    /\ Engine = "file" /\ Exists(cat[t] + 1)
    /\ IF attempts[t] + 1 < MaxRetries
       THEN /\ attempts' = [attempts EXCEPT ![t] = @ + 1]
            /\ cat' = [cat EXCEPT ![t] = Nil]
            /\ Go(t, "readHead")
            /\ UNCHANGED <<call, ld, seen>>
       ELSE Return(t)
    /\ UNCHANGED <<storage, cache>>

TruncHead(t) ==
    /\ pc[t] = "truncHead"
    /\ torn' = TRUE
    /\ Go(t, "writeHead")
    /\ UNCHANGED <<log, head, snap, hist, cache, locals>>

(* Mutant: HEAD gets the position the entry was written after. *)
WriteHeadStale(t) ==
    /\ pc[t] = "writeHead"
    /\ head' = cat[t]
    /\ torn' = FALSE
    /\ Go(t, "reset")
    /\ UNCHANGED <<log, snap, hist, cache, locals>>

WriteHead(t) ==
    /\ pc[t] = "writeHead"
    /\ head' = cat[t] + 1
    /\ torn' = FALSE
    /\ Go(t, "reset")
    /\ UNCHANGED <<log, snap, hist, cache, locals>>

(* "Force a reload after a change." *)
Reset(t) ==
    /\ pc[t] = "reset"
    /\ at' = [at EXCEPT ![S(t)] = Nil]
    /\ Return(t)
    /\ UNCHANGED <<storage, table, fresh>>

----------------------------------------------------------------------------
(* A storage call returns an error: the operation returns it.              *)
StorageError(t) ==
    /\ S(t) \in Faulty
    /\ pc[t] \in {"readHead", "open", "replay", "put", "truncHead", "writeHead"}
    /\ Return(t)
    /\ UNCHANGED <<storage, cache>>

(* An error of the snapshot file is logged and the load goes on: from an   *)
(* empty table, or without the file, which a failed write leaves as it was *)
(* or truncated.                                                           *)
GetSnapshotFails(t) ==
    /\ S(t) \in Faulty
    /\ pc[t] = "getSnapshot"
    /\ ld' = [ld EXCEPT ![t] = [@ EXCEPT !.sid = Nil, !.acc = EmptyTable]]
    /\ Go(t, "open")
    /\ UNCHANGED <<storage, cache, call, attempts, cat, seen>>

PutSnapshotFails(t) ==
    /\ S(t) \in Faulty
    /\ pc[t] \in {"truncSnapshot", "putSnapshot"}
    /\ AfterLoad(t)
    /\ UNCHANGED <<storage, cache, call, attempts, cat, seen>>

(* The process dies and starts again with an empty store. *)
Crash(s) ==
    /\ s \in Faulty
    /\ LET mine == {t \in Threads : S(t) = s}
           Clear(f, none) == [t \in Threads |-> IF t \in mine THEN none ELSE f[t]]
       IN /\ pc' = Clear(pc, "idle")
          /\ call' = Clear(call, AnyOp)
          /\ attempts' = Clear(attempts, 0)
          /\ ld' = Clear(ld, NoLoad)
          /\ cat' = Clear(cat, Nil)
          /\ seen' = Clear(seen, 0)
    /\ table' = [table EXCEPT ![s] = EmptyTable]
    /\ at' = [at EXCEPT ![s] = Nil]
    /\ fresh' = [fresh EXCEPT ![s] = FALSE]
    /\ UNCHANGED storage

(* A second has passed since the table was loaded. *)
Stale(s) ==
    /\ fresh[s]
    /\ fresh' = [fresh EXCEPT ![s] = FALSE]
    /\ UNCHANGED <<storage, table, at, pc, locals>>

Step(t) ==
    \/ Peek(t) \/ ReadHead(t) \/ ReadHeadFails(t) \/ Compare(t)
    \/ GetSnapshot(t) \/ OpenReader(t) \/ ReplayEntry(t) \/ ReplayFails(t)
    \/ Publish(t) \/ TruncSnapshot(t) \/ PutSnapshot(t) \/ Read(t)
    \/ Check(t) \/ CommitAt(t) \/ Conflict(t)
    \/ TruncHead(t) \/ WriteHead(t) \/ Reset(t)

Next ==
    \/ \E t \in Threads : \/ Start(t) \/ Step(t) \/ StorageError(t)
                         \/ GetSnapshotFails(t) \/ PutSnapshotFails(t)
    \/ \E s \in Stores : Crash(s) \/ Stale(s)

Spec == Init /\ [][Next]_vars

(* A goroutine inside an operation keeps running. *)
FairSpec == Spec /\ \A t \in Threads : WF_vars(Step(t))

(* Clients that never stop calling. *)
BusySpec == FairSpec /\ \A t \in Threads : WF_vars(Start(t))

----------------------------------------------------------------------------
(* Properties. *)

Phases == {"idle", "peek", "readHead", "compare", "getSnapshot", "open",
           "replay", "truncSnapshot", "putSnapshot", "read", "check", "put",
           "truncHead", "writeHead", "reset"}

Loads == [hd : IDs, sid : IDs, cursor : IDs, stop : IDs, acc : Tables]

(* Every variable has the type the code gives it. *)
TypeOK ==
    /\ log \in Seq(Ops) /\ hist \in Seq(Tables)
    /\ head \in IDs /\ torn \in BOOLEAN
    /\ snap \in [id : IDs, table : Tables]
    /\ table \in [Stores -> Tables]
    /\ at \in [Stores -> IDs]
    /\ fresh \in [Stores -> BOOLEAN]
    /\ pc \in [Threads -> Phases]
    /\ call \in [Threads -> Ops]
    /\ attempts \in [Threads -> 0 .. MaxRetries - 1]
    /\ ld \in [Threads -> Loads]
    /\ cat \in [Threads -> IDs]
    /\ seen \in [Threads -> IDs]

(* Each key of tbl has the value it had at position n or at a later one. *)
NotOlderIn(h, tbl, n) ==
    \A k \in Keys : \E m \in n .. Len(h) : tbl[k] = TableIn(h, m)[k]

NotOlder(tbl, n) == NotOlderIn(hist, tbl, n)

(* No cached table and no snapshot file is older than the position it is   *)
(* filed under: Store.load and putSnapshot may mislabel a table only with  *)
(* an earlier ID.                                                          *)
LabelsNotAhead ==
    /\ \A s \in Stores : at[s] <= Len(log) /\ NotOlder(table[s], at[s])
    /\ snap.id <= Len(log) /\ NotOlder(snap.table, snap.id)

(* Store.commit is serializable: when CommitAt is about to create the next *)
(* entry of the log, the operation's check holds in the table that entry   *)
(* extends, whatever other threads and processes did since it was made.    *)
CommitsValid ==
    \A t \in Threads :
        (pc[t] = "put" /\ cat[t] = Len(log))
            => CheckOK(TableAt(Len(log)), call[t])

(* CommitAt leaves HEAD at the end of the log or, between its two writes,  *)
(* one entry before it, and only one thread is ever between the two.       *)
HeadNearEnd ==
    /\ head \in {Len(log), Len(log) - 1}
    /\ \A t, u \in Threads :
          pc[t] \in {"truncHead", "writeHead"} /\ pc[u] \in {"truncHead", "writeHead"}
              => t = u

(* writeHead never moves HEAD back. *)
HeadMonotone == [][head' >= head]_vars

(* "Once created, a journal entry is never modified" (docs/lake/format.md). *)
EntriesImmutable ==
    [][/\ Len(log') >= Len(log)
       /\ \A n \in 1 .. Len(log) : log'[n] = log[n]]_vars

(* Keys, Values, All and a Lookup that loads return nothing older than     *)
(* what HEAD said when they were called.                                   *)
ReadsFresh == [][\A t \in Threads : Read(t) => NotOlder(table[S(t)], seen[t])]_vars

(* Store.load never meets an Update whose key is missing from its table. *)
AlwaysReplayable ==
    \A t \in Threads :
        (pc[t] = "replay" /\ More(t)) => Replayable(ld[t].acc, NextEntry(t))

(* The store implements the atomic key-value store, each commit taking     *)
(* effect when its entry is created.                                       *)
KV == INSTANCE KVStore WITH kv <- TableAt(Len(log))
Implements == KV!Spec

(* Every operation returns. *)
OpsReturn == \A t \in Threads : pc[t] # "idle" ~> pc[t] = "idle"

(* HEAD catches up with the end of the journal (docs/lake/format.md: HEAD  *)
(* behind the end "can be self-corrected").                                *)
HeadCatchesUp == []<>(head = Len(log) /\ ~torn)
============================================================================
