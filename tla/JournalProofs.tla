--------------------------- MODULE JournalProofs ---------------------------
(***************************************************************************)
(* Theorems about the journal, for any number of processes, threads, keys  *)
(* and entries, any snapshot interval and any number of retries.           *)
(***************************************************************************)
EXTENDS Journal, TLAPS

USE OpsAssumption, NoValAssumption, StoreOfAssumption, SizesAssumption
    DEF IDs, Nil, TailID

----------------------------------------------------------------------------
(* Facts about tables. *)

LEMMA EmptyTableType == EmptyTable \in Tables
  BY DEF EmptyTable, Tables

LEMMA AnyOpType == AnyOp \in Ops
  BY DEF AnyOp

(* Replaying an entry turns a table into a table. *)
LEMMA ApplyType ==
  ASSUME NEW tbl \in Tables, NEW o \in Ops
  PROVE  Apply(tbl, o) \in Tables
<1>1. o \in OpRecords
  BY OpsAssumption
<1>2. \A k \in Keys : Written(o, k) \in Vals \cup {NoVal}
  BY <1>1 DEF Written, OpRecords
<1> QED
  BY <1>2 DEF Apply, Tables

(* What an entry writes to the keys it touches does not depend on the      *)
(* table it is applied to, and it leaves the other keys alone.             *)
LEMMA ApplyKey ==
  ASSUME NEW tbl, NEW o, NEW k \in Keys
  PROVE  Apply(tbl, o)[k] = IF Touches(o, k) THEN Written(o, k) ELSE tbl[k]
  BY DEF Apply

LEMMA NoLoadType == NoLoad \in Loads
  BY EmptyTableType DEF NoLoad, Loads

----------------------------------------------------------------------------
(* Every ID in use names an entry that exists. *)
Bounded ==
    /\ Len(hist) = Len(log)
    /\ head <= Len(log)
    /\ snap.id <= Len(log)
    /\ \A s \in Stores : at[s] <= Len(log)
    /\ \A t \in Threads :
         /\ cat[t] <= Len(log)
         /\ ld[t].hd <= Len(log)
         /\ ld[t].sid <= Len(log)
         /\ ld[t].cursor <= Len(log)
         /\ ld[t].stop <= Len(log)
         /\ pc[t] \in {"truncHead", "writeHead"} => cat[t] + 1 <= Len(log)

TypeInv == TypeOK /\ Bounded

LEMMA TypeInvInit == Init => TypeInv
<1> SUFFICES ASSUME Init PROVE TypeInv
  OBVIOUS
<1>1. TypeOK
  <2>1. log \in Seq(Ops) /\ hist \in Seq(Tables) /\ attempts \in [Threads -> 0 .. MaxRetries - 1]
    BY DEF Init
  <2>2. ld \in [Threads -> Loads] /\ call \in [Threads -> Ops]
    BY NoLoadType, AnyOpType DEF Init
  <2>3. /\ snap \in [id : IDs, table : Tables]
        /\ table \in [Stores -> Tables]
    BY EmptyTableType DEF Init, NoSnap
  <2> QED
    BY <2>1, <2>2, <2>3 DEF Init, TypeOK, Phases
<1>2. Bounded
  BY DEF Init, Bounded, NoSnap, NoLoad
<1> QED
  BY <1>1, <1>2 DEF TypeInv

LEMMA ReturnType ==
  ASSUME TypeOK, NEW t \in Threads, Return(t)
  PROVE  /\ pc' \in [Threads -> Phases]
         /\ call' \in [Threads -> Ops]
         /\ attempts' \in [Threads -> 0 .. MaxRetries - 1]
         /\ ld' \in [Threads -> Loads]
         /\ cat' \in [Threads -> IDs]
         /\ seen' \in [Threads -> IDs]
  BY AnyOpType, NoLoadType DEF Return, Go, TypeOK, Phases

LEMMA ReturnBounded ==
  ASSUME TypeInv, NEW t \in Threads, Return(t), UNCHANGED <<log, hist, head, snap>>,
         \A s \in Stores : at'[s] <= Len(log)
  PROVE  Bounded'
  BY DEF Return, Go, TypeInv, TypeOK, Bounded, NoLoad, Loads

(* The steps that only move the thread and its load locals. *)
LEMMA LoadStepType ==
  ASSUME TypeInv, NEW t \in Threads, NEW l \in Loads, NEW where \in Phases,
         ld' = [ld EXCEPT ![t] = l], Go(t, where),
         l.hd <= Len(log), l.sid <= Len(log), l.cursor <= Len(log), l.stop <= Len(log),
         where \notin {"truncHead", "writeHead"},
         UNCHANGED <<storage, cache, call, attempts, cat, seen>>
  PROVE  TypeInv'
<1>1. TypeOK'
  BY DEF TypeInv, TypeOK, Go, storage, cache
<1>2. Bounded'
  BY DEF TypeInv, TypeOK, Bounded, Go, storage, cache, Loads
<1> QED
  BY <1>1, <1>2 DEF TypeInv

LEMMA AfterLoadType ==
  ASSUME TypeInv, NEW t \in Threads, AfterLoad(t),
         UNCHANGED <<storage, cache, call, attempts, cat, seen>>
  PROVE  TypeInv'
<1>1. TypeOK'
  BY NoLoadType DEF TypeInv, TypeOK, AfterLoad, Go, Phases, storage, cache
<1>2. Bounded'
  BY DEF TypeInv, TypeOK, Bounded, AfterLoad, Go, NoLoad, storage, cache
<1> QED
  BY <1>1, <1>2 DEF TypeInv

LEMMA TypeInvStep == TypeInv /\ [Next]_vars => TypeInv'
<1> SUFFICES ASSUME TypeInv, [Next]_vars PROVE TypeInv'
  OBVIOUS
<1> USE DEF TypeInv
<1>1. ASSUME NEW t \in Threads, Start(t) PROVE TypeInv'
  <2>1. TypeOK'
    BY <1>1 DEF Start, TypeOK, Go, Phases, storage, cache
  <2>2. Bounded'
    BY <1>1 DEF Start, TypeOK, Bounded, Go, Phases, storage, cache
  <2> QED BY <2>1, <2>2
<1>2. ASSUME NEW t \in Threads, Peek(t) PROVE TypeInv'
  <2>1. CASE Return(t)
    <3>1. TypeOK' BY <1>2, <2>1, ReturnType DEF Peek, TypeOK, storage, cache
    <3>2. Bounded' BY <1>2, <2>1, ReturnBounded DEF Peek, storage, cache, Bounded
    <3> QED BY <3>1, <3>2
  <2>2. CASE Go(t, "readHead") /\ UNCHANGED locals
    <3>1. TypeOK' BY <1>2, <2>2 DEF Peek, TypeOK, Go, Phases, storage, cache, locals
    <3>2. Bounded' BY <1>2, <2>2 DEF Peek, TypeOK, Bounded, Go, storage, cache, locals
    <3> QED BY <3>1, <3>2
  <2> QED BY <1>2, <2>1, <2>2 DEF Peek
<1>3. ASSUME NEW t \in Threads, ReadHead(t) PROVE TypeInv'
  <2> DEFINE l == [ld[t] EXCEPT !.hd = head]
  <2>1. l \in Loads /\ ld' = [ld EXCEPT ![t] = l]
    <3>0. ld[t] \in Loads /\ head \in IDs /\ snap.id \in IDs /\ snap.table \in Tables BY DEF TypeOK
    <3>1. l \in Loads BY <3>0 DEF Loads
    <3>2. ld' = [ld EXCEPT ![t] = l] BY <1>3, Zenon DEF ReadHead
    <3> QED BY <3>1, <3>2
  <2>2. l.hd <= Len(log) /\ l.sid <= Len(log) /\ l.cursor <= Len(log) /\ l.stop <= Len(log)
    BY DEF TypeOK, Loads, Bounded
  <2>3. Go(t, "compare") /\ UNCHANGED <<storage, cache, call, attempts, cat, seen>>
    BY <1>3 DEF ReadHead
  <2>4. "compare" \in Phases
    BY DEF Phases
  <2> HIDE DEF l, TypeInv
  <2> QED
    BY <2>1, <2>2, <2>3, <2>4, LoadStepType
<1>4. ASSUME NEW t \in Threads, ReadHeadFails(t) PROVE TypeInv'
  <2>1. TypeOK' BY <1>4, ReturnType DEF ReadHeadFails, TypeOK, storage, cache
  <2>2. Bounded' BY <1>4, ReturnBounded DEF ReadHeadFails, storage, cache, Bounded
  <2> QED BY <2>1, <2>2
<1>5. ASSUME NEW t \in Threads, Compare(t) PROVE TypeInv'
  <2>1. CASE AfterLoad(t)
    BY <1>5, <2>1, AfterLoadType DEF Compare
  <2>2. CASE Go(t, "getSnapshot") /\ UNCHANGED ld
    <3>1. TypeOK' BY <1>5, <2>2 DEF Compare, TypeOK, Go, Phases, storage, cache
    <3>2. Bounded' BY <1>5, <2>2 DEF Compare, TypeOK, Bounded, Go, storage, cache
    <3> QED BY <3>1, <3>2
  <2> QED BY <1>5, <2>1, <2>2 DEF Compare
<1>6. ASSUME NEW t \in Threads, GetSnapshot(t) PROVE TypeInv'
  <2> DEFINE l == [ld[t] EXCEPT !.sid = snap.id, !.acc = snap.table]
  <2>1. l \in Loads /\ ld' = [ld EXCEPT ![t] = l]
    <3>0. ld[t] \in Loads /\ head \in IDs /\ snap.id \in IDs /\ snap.table \in Tables BY DEF TypeOK
    <3>1. l \in Loads BY <3>0 DEF Loads
    <3>2. ld' = [ld EXCEPT ![t] = l] BY <1>6, Zenon DEF GetSnapshot
    <3> QED BY <3>1, <3>2
  <2>2. l.hd <= Len(log) /\ l.sid <= Len(log) /\ l.cursor <= Len(log) /\ l.stop <= Len(log)
    BY DEF TypeOK, Loads, Bounded
  <2>3. Go(t, "open") /\ UNCHANGED <<storage, cache, call, attempts, cat, seen>>
    BY <1>6 DEF GetSnapshot
  <2>4. "open" \in Phases
    BY DEF Phases
  <2> HIDE DEF l, TypeInv
  <2> QED
    BY <2>1, <2>2, <2>3, <2>4, LoadStepType
<1>7. ASSUME NEW t \in Threads, OpenReader(t) PROVE TypeInv'
  <2> DEFINE l == [ld[t] EXCEPT
                     !.stop = IF ld[t].hd = Nil THEN head ELSE ld[t].hd,
                     !.cursor = (IF ld[t].sid = Nil THEN TailID ELSE ld[t].sid) - 1]
  <2>1. l \in Loads /\ ld' = [ld EXCEPT ![t] = l]
    <3>0. ld[t] \in Loads /\ head \in IDs /\ snap.id \in IDs /\ snap.table \in Tables BY DEF TypeOK
    <3>a. (IF ld[t].hd = Nil THEN head ELSE ld[t].hd) \in IDs BY <3>0 DEF Loads
    <3>b. (IF ld[t].sid = Nil THEN TailID ELSE ld[t].sid) - 1 \in IDs BY <3>0 DEF Loads
    <3>1. l \in Loads BY <3>0, <3>a, <3>b DEF Loads
    <3>2. ld' = [ld EXCEPT ![t] = l] BY <1>7, Zenon DEF OpenReader
    <3> QED BY <3>1, <3>2
  <2>2. l.hd <= Len(log) /\ l.sid <= Len(log) /\ l.cursor <= Len(log) /\ l.stop <= Len(log)
    BY SMTT(30) DEF TypeOK, Loads, Bounded
  <2>3. Go(t, "replay") /\ UNCHANGED <<storage, cache, call, attempts, cat, seen>>
    BY <1>7 DEF OpenReader
  <2>4. "replay" \in Phases
    BY DEF Phases
  <2> HIDE DEF l, TypeInv
  <2> QED
    BY <2>1, <2>2, <2>3, <2>4, LoadStepType
<1>8. ASSUME NEW t \in Threads, ReplayEntry(t) PROVE TypeInv'
  <2> DEFINE l == [ld[t] EXCEPT !.cursor = ld[t].cursor + 1, !.acc = Apply(ld[t].acc, NextEntry(t))]
  <2>1. NextEntry(t) \in Ops
    BY <1>8, SMTT(30) DEF ReplayEntry, More, NextEntry, TypeOK, Bounded, Loads
  <2>2. Apply(ld[t].acc, NextEntry(t)) \in Tables
    BY <2>1, ApplyType DEF TypeOK, Loads
  <2>3. l \in Loads /\ ld' = [ld EXCEPT ![t] = l]
    <3>0. ld[t] \in Loads BY DEF TypeOK
    <3>a. ld[t].cursor + 1 \in IDs BY <3>0 DEF Loads
    <3>1. l \in Loads BY <2>2, <3>0, <3>a DEF Loads
    <3>2. ld' = [ld EXCEPT ![t] = l] BY <1>8, Zenon DEF ReplayEntry
    <3> QED BY <3>1, <3>2
  <2>4. l.hd <= Len(log) /\ l.sid <= Len(log) /\ l.cursor <= Len(log) /\ l.stop <= Len(log)
    BY <1>8, SMTT(30) DEF ReplayEntry, More, TypeOK, Loads, Bounded
  <2>5. Go(t, "replay") /\ UNCHANGED <<storage, cache, call, attempts, cat, seen>>
    BY <1>8 DEF ReplayEntry, Go, TypeOK
  <2>6. "replay" \in Phases
    BY DEF Phases
  <2> HIDE DEF l, TypeInv
  <2> QED
    BY <2>3, <2>4, <2>5, <2>6, LoadStepType
<1>9. ASSUME NEW t \in Threads, ReplayFails(t) PROVE TypeInv'
  <2>1. TypeOK' BY <1>9, ReturnType DEF ReplayFails, TypeOK, storage, cache
  <2>2. Bounded' BY <1>9, ReturnBounded DEF ReplayFails, storage, cache, Bounded
  <2> QED BY <2>1, <2>2
<1>10. ASSUME NEW t \in Threads, Publish(t) PROVE TypeInv'
  <2>0. ld[t] \in Loads /\ S(t) \in Stores
    BY DEF TypeOK, S
  <2>1. table' \in [Stores -> Tables] /\ at' \in [Stores -> IDs] /\ fresh' \in [Stores -> BOOLEAN]
    BY <1>10, <2>0 DEF Publish, TypeOK, Loads
  <2>2. \A s \in Stores : at'[s] <= Len(log)
    BY <1>10, <2>0 DEF Publish, TypeOK, Bounded
  <2>3. CASE AfterLoad(t)
    <3>1. TypeOK'
      BY <1>10, <2>1, <2>3, NoLoadType DEF Publish, AfterLoad, Go, Phases, TypeOK, storage
    <3>2. Bounded'
      BY <1>10, <2>2, <2>3 DEF Publish, AfterLoad, Go, NoLoad, TypeOK, Bounded, storage
    <3> QED BY <3>1, <3>2
  <2>4. CASE Go(t, IF Engine = "file" THEN "truncSnapshot" ELSE "putSnapshot") /\ UNCHANGED ld
    <3>1. TypeOK'
      BY <1>10, <2>1, <2>4 DEF Publish, Go, Phases, TypeOK, storage
    <3>2. Bounded'
      BY <1>10, <2>2, <2>4 DEF Publish, Go, TypeOK, Bounded, storage
    <3> QED BY <3>1, <3>2
  <2> QED BY <1>10, <2>3, <2>4 DEF Publish
<1>11. ASSUME NEW t \in Threads, TruncSnapshot(t) PROVE TypeInv'
  <2>1. TypeOK' BY <1>11, EmptyTableType DEF TruncSnapshot, Go, NoSnap, Phases, TypeOK, cache, locals
  <2>2. Bounded' BY <1>11 DEF TruncSnapshot, Go, NoSnap, TypeOK, Bounded, cache, locals
  <2> QED BY <2>1, <2>2
<1>12. ASSUME NEW t \in Threads, PutSnapshot(t) PROVE TypeInv'
  <2>0. ld[t] \in Loads
    BY DEF TypeOK
  <2>1. snap' \in [id : IDs, table : Tables] /\ snap'.id <= Len(log)
    BY <1>12, <2>0 DEF PutSnapshot, Loads, Bounded
  <2>2. TypeOK'
    BY <1>12, <2>1, NoLoadType DEF PutSnapshot, AfterLoad, Go, Phases, TypeOK, cache
  <2>3. Bounded'
    BY <1>12, <2>1 DEF PutSnapshot, AfterLoad, Go, NoLoad, TypeOK, Bounded, cache
  <2> QED BY <2>2, <2>3
<1>13. ASSUME NEW t \in Threads, Read(t) PROVE TypeInv'
  <2>1. TypeOK' BY <1>13, ReturnType DEF Read, TypeOK, storage, cache
  <2>2. Bounded' BY <1>13, ReturnBounded DEF Read, storage, cache, Bounded
  <2> QED BY <2>1, <2>2
<1>14. ASSUME NEW t \in Threads, Check(t) PROVE TypeInv'
  <2>1. CASE Return(t)
    <3>1. TypeOK' BY <1>14, <2>1, ReturnType DEF Check, TypeOK, storage, cache
    <3>2. Bounded' BY <1>14, <2>1, ReturnBounded DEF Check, storage, cache, Bounded
    <3> QED BY <3>1, <3>2
  <2>2. CASE ~Return(t)
    <3>1. /\ cat' = [cat EXCEPT ![t] = at[S(t)]] /\ Go(t, "put")
          /\ UNCHANGED <<call, attempts, ld, seen>>
      BY <1>14, <2>2 DEF Check
    <3>2. S(t) \in Stores
      BY DEF S
    <3>3. TypeOK' BY <1>14, <3>1, <3>2 DEF Check, Go, Phases, TypeOK, storage, cache
    <3>4. Bounded' BY <1>14, <3>1, <3>2 DEF Check, Go, TypeOK, Bounded, storage, cache
    <3> QED BY <3>3, <3>4
  <2> QED BY <2>1, <2>2
<1>15. ASSUME NEW t \in Threads, CommitAt(t) PROVE TypeInv'
  <2> DEFINE n == cat[t] + 1
             post == Apply(TableAt(n - 1), call[t])
  <2>1. n \in 1 .. Len(log) + 1 /\ call[t] \in Ops
    BY DEF TypeOK, Bounded
  <2>2. post \in Tables
    <3>1. TableAt(n - 1) \in Tables
      BY <2>1, EmptyTableType DEF TableAt, TableIn, TypeOK, Bounded
    <3> QED BY <2>1, <3>1, ApplyType
  <2>3. /\ log' \in Seq(Ops) /\ hist' \in Seq(Tables) /\ Len(hist') = Len(log')
        /\ Len(log') >= Len(log) /\ Len(log') >= n
    <3>1. CASE Exists(n)
      <4>1. log' = [log EXCEPT ![n] = call[t]] /\ hist' = [hist EXCEPT ![n] = post]
        BY <1>15, <3>1 DEF CommitAt, PutEntry
      <4> QED BY <2>1, <2>2, <3>1, <4>1 DEF Exists, TypeOK, Bounded
    <3>2. CASE ~Exists(n)
      <4>1. log' = Append(log, call[t]) /\ hist' = Append(hist, post)
        BY <1>15, <3>2 DEF CommitAt, PutEntry
      <4> QED BY <2>1, <2>2, <3>2, <4>1 DEF Exists, TypeOK, Bounded
    <3> QED BY <3>1, <3>2
  <2>4. TypeOK'
    BY <1>15, <2>3 DEF CommitAt, Go, Phases, TypeOK, cache, locals
  <2>5. Bounded'
    <3>1. UNCHANGED <<head, snap, at, ld, cat>> /\ pc' = [pc EXCEPT ![t] = pc'[t]]
      BY <1>15 DEF CommitAt, Go, TypeOK, cache, locals
    <3>2. \A i \in IDs : i <= Len(log) => i <= Len(log')
      BY <2>3 DEF TypeOK
    <3>3. \A u \in Threads : ld[u] \in Loads
      BY DEF TypeOK
    <3>4. /\ head' <= Len(log') /\ snap.id' <= Len(log')
          /\ \A s \in Stores : at'[s] <= Len(log')
      BY <3>1, <3>2 DEF TypeOK, Bounded
    <3>5. \A u \in Threads : /\ cat'[u] <= Len(log') /\ ld'[u].hd <= Len(log')
                              /\ ld'[u].sid <= Len(log') /\ ld'[u].cursor <= Len(log')
                              /\ ld'[u].stop <= Len(log')
      BY <3>1, <3>2, <3>3 DEF TypeOK, Bounded, Loads
    <3>6. \A u \in Threads : pc'[u] \in {"truncHead", "writeHead"} => cat'[u] + 1 <= Len(log')
      BY <2>3, <3>1, SMTT(30) DEF TypeOK, Bounded
    <3> QED BY <2>3, <3>4, <3>5, <3>6 DEF Bounded
  <2> QED BY <2>4, <2>5
<1>16. ASSUME NEW t \in Threads, Conflict(t) PROVE TypeInv'
  <2>1. CASE Return(t)
    <3>1. TypeOK' BY <1>16, <2>1, ReturnType DEF Conflict, TypeOK, storage, cache
    <3>2. Bounded' BY <1>16, <2>1, ReturnBounded DEF Conflict, storage, cache, Bounded
    <3> QED BY <3>1, <3>2
  <2>2. CASE ~Return(t)
    <3>1. /\ attempts[t] + 1 < MaxRetries
          /\ attempts' = [attempts EXCEPT ![t] = @ + 1]
          /\ cat' = [cat EXCEPT ![t] = Nil] /\ Go(t, "readHead")
          /\ UNCHANGED <<call, ld, seen>>
      BY <1>16, <2>2 DEF Conflict
    <3>3. TypeOK' BY <1>16, <3>1, SMTT(30) DEF Conflict, Go, Phases, TypeOK, storage, cache
    <3>4. Bounded' BY <1>16, <3>1 DEF Conflict, Go, TypeOK, Bounded, storage, cache
    <3> QED BY <3>3, <3>4
  <2> QED BY <2>1, <2>2
<1>17. ASSUME NEW t \in Threads, TruncHead(t) PROVE TypeInv'
  <2>1. TypeOK' BY <1>17 DEF TruncHead, Go, Phases, TypeOK, cache, locals
  <2>2. Bounded' BY <1>17 DEF TruncHead, Go, TypeOK, Bounded, cache, locals
  <2> QED BY <2>1, <2>2
<1>18. ASSUME NEW t \in Threads, WriteHead(t) PROVE TypeInv'
  <2>0. head' \in IDs /\ torn' \in BOOLEAN /\ pc' \in [Threads -> Phases]
    <3>1. head' \in IDs BY <1>18 DEF WriteHead, TypeOK
    <3>2. torn' \in BOOLEAN BY <1>18 DEF WriteHead
    <3>3. pc' \in [Threads -> Phases] BY <1>18 DEF WriteHead, Go, Phases, TypeOK
    <3> QED BY <3>1, <3>2, <3>3
  <2>1. TypeOK' BY <1>18, <2>0, Zenon DEF WriteHead, TypeOK, cache, locals
  <2>2. head' <= Len(log) BY <1>18 DEF WriteHead, Bounded
  <2>3. /\ UNCHANGED <<log, hist, snap, at, ld, cat>>
        /\ \A u \in Threads : pc'[u] \in {"truncHead", "writeHead"} => pc'[u] = pc[u]
    BY <1>18 DEF WriteHead, Go, TypeOK, cache, locals
  <2>4. Bounded' BY <2>2, <2>3 DEF Bounded
  <2> QED BY <2>1, <2>4
<1>19. ASSUME NEW t \in Threads, Reset(t) PROVE TypeInv'
  <2>0. S(t) \in Stores
    BY DEF S
  <2>1. TypeOK' BY <1>19, <2>0, ReturnType DEF Reset, TypeOK, storage
  <2>2. \A s \in Stores : at'[s] <= Len(log)
    BY <1>19, <2>0 DEF Reset, TypeOK, Bounded
  <2>3. Bounded' BY <1>19, <2>2, ReturnBounded DEF Reset, storage
  <2> QED BY <2>1, <2>3
<1>20. ASSUME NEW t \in Threads, StorageError(t) PROVE TypeInv'
  <2>1. TypeOK' BY <1>20, ReturnType DEF StorageError, TypeOK, storage, cache
  <2>2. Bounded' BY <1>20, ReturnBounded DEF StorageError, storage, cache, Bounded
  <2> QED BY <2>1, <2>2
<1>21. ASSUME NEW s \in Stores, Crash(s) PROVE TypeInv'
  <2>1. /\ pc' \in [Threads -> Phases] /\ call' \in [Threads -> Ops]
        /\ attempts' \in [Threads -> 0 .. MaxRetries - 1] /\ ld' \in [Threads -> Loads]
        /\ cat' \in [Threads -> IDs] /\ seen' \in [Threads -> IDs]
    BY <1>21, AnyOpType, NoLoadType DEF Crash, TypeOK, Phases
  <2>2. TypeOK' BY <1>21, <2>1, EmptyTableType DEF Crash, TypeOK, storage
  <2>3. \A t \in Threads :
          \/ pc'[t] = pc[t] /\ ld'[t] = ld[t] /\ cat'[t] = cat[t]
          \/ pc'[t] = "idle" /\ ld'[t] = NoLoad /\ cat'[t] = Nil
    BY <1>21 DEF Crash
  <2>4. Bounded' BY <1>21, <2>3 DEF Crash, TypeOK, Bounded, NoLoad, storage
  <2> QED BY <2>2, <2>4
<1>22. ASSUME NEW s \in Stores, Stale(s) PROVE TypeInv'
  <2>1. TypeOK' BY <1>22 DEF Stale, TypeOK, storage, locals
  <2>2. Bounded' BY <1>22 DEF Stale, TypeOK, Bounded, storage, locals
  <2> QED BY <2>1, <2>2
<1>23. CASE UNCHANGED vars
  <2>1. TypeOK' BY <1>23 DEF TypeOK, vars, storage, cache, locals
  <2>2. Bounded' BY <1>23 DEF Bounded, vars, storage, cache, locals
  <2> QED BY <2>1, <2>2
<1>24. ASSUME NEW t \in Threads, GetSnapshotFails(t) PROVE TypeInv'
  <2> DEFINE l == [ld[t] EXCEPT !.sid = Nil, !.acc = EmptyTable]
  <2>1. l \in Loads /\ ld' = [ld EXCEPT ![t] = l]
    <3>0. ld[t] \in Loads /\ Nil \in IDs /\ EmptyTable \in Tables
      BY NoLoadType, EmptyTableType DEF TypeOK, Loads, NoLoad
    <3>1. l \in Loads BY <3>0 DEF Loads
    <3>2. ld' = [ld EXCEPT ![t] = l] BY <1>24, Zenon DEF GetSnapshotFails
    <3> QED BY <3>1, <3>2
  <2>2. l.hd <= Len(log) /\ l.sid <= Len(log) /\ l.cursor <= Len(log) /\ l.stop <= Len(log)
    BY DEF TypeOK, Loads, Bounded
  <2>3. Go(t, "open") /\ UNCHANGED <<storage, cache, call, attempts, cat, seen>>
    BY <1>24 DEF GetSnapshotFails
  <2>4. "open" \in Phases
    BY DEF Phases
  <2> HIDE DEF l, TypeInv
  <2> QED
    BY <2>1, <2>2, <2>3, <2>4, LoadStepType
<1>25. ASSUME NEW t \in Threads, PutSnapshotFails(t) PROVE TypeInv'
  BY <1>25, AfterLoadType DEF PutSnapshotFails
<1> QED
  BY <1>1, <1>2, <1>3, <1>4, <1>5, <1>6, <1>7, <1>8, <1>9, <1>10, <1>11, <1>12, <1>13,
     <1>14, <1>15, <1>16, <1>17, <1>18, <1>19, <1>20, <1>21, <1>22, <1>23, <1>24, <1>25
  DEF Next, Step

(* Every variable keeps the type the code gives it, on either engine: in   *)
(* particular no load ever asks for a journal entry that does not exist.   *)
THEOREM TypeCorrect == Spec => []TypeOK
<1>1. TypeInv => TypeOK
  BY DEF TypeInv
<1> QED
  BY TypeInvInit, TypeInvStep, <1>1, PTL DEF Spec
----------------------------------------------------------------------------
(* Tables that are not older than a position. *)

LEMMA NotOlderEmpty ==
  ASSUME NEW h \in Seq(Tables) PROVE NotOlderIn(h, EmptyTable, 0)
  BY DEF NotOlderIn, TableIn

LEMMA NotOlderWeaken ==
  ASSUME NEW h \in Seq(Tables), NEW tbl, NEW n \in Nat, NEW m \in Nat, m <= n,
         NotOlderIn(h, tbl, n)
  PROVE  NotOlderIn(h, tbl, m)
<1>1. Len(h) \in Nat
  OBVIOUS
<1>2. \A i \in n .. Len(h) : i \in m .. Len(h)
  BY <1>1
<1> QED
  BY <1>2, Zenon DEF NotOlderIn

LEMMA NotOlderAppend ==
  ASSUME NEW h \in Seq(Tables), NEW x \in Tables, NEW tbl, NEW n \in Nat,
         NotOlderIn(h, tbl, n)
  PROVE  NotOlderIn(Append(h, x), tbl, n)
<1>1. Len(Append(h, x)) = Len(h) + 1 /\ \A m \in 1 .. Len(h) : Append(h, x)[m] = h[m]
  OBVIOUS
<1>2. \A m \in n .. Len(h) : /\ m \in n .. Len(Append(h, x))
                             /\ TableIn(Append(h, x), m) = TableIn(h, m)
  BY <1>1 DEF TableIn
<1> QED
  BY <1>2, Zenon DEF NotOlderIn

(* At the end of the log a table that is not older is the current one. *)
LEMMA NotOlderExact ==
  ASSUME NEW h \in Seq(Tables), NEW tbl \in Tables, NotOlderIn(h, tbl, Len(h))
  PROVE  tbl = TableIn(h, Len(h))
<1>1. \A m \in Len(h) .. Len(h) : m = Len(h)
  OBVIOUS
<1>2. \A k \in Keys : tbl[k] = TableIn(h, Len(h))[k]
  BY <1>1, Zenon DEF NotOlderIn
<1>3. TableIn(h, Len(h)) \in Tables
  BY EmptyTableType DEF TableIn
<1> QED
  BY <1>2, <1>3 DEF Tables

(* Replaying entry n + 1 over a table that is not older than n gives one   *)
(* that is not older than n + 1, although the table may already contain    *)
(* the entry and any number of later ones.                                 *)
LEMMA NotOlderReplay ==
  ASSUME NEW h \in Seq(Tables), NEW tbl, NEW o, NEW n \in Nat, n + 1 <= Len(h),
         TableIn(h, n + 1) = Apply(TableIn(h, n), o),
         NotOlderIn(h, tbl, n)
  PROVE  NotOlderIn(h, Apply(tbl, o), n + 1)
<1> SUFFICES ASSUME NEW k \in Keys
             PROVE  \E m \in n + 1 .. Len(h) : Apply(tbl, o)[k] = TableIn(h, m)[k]
  BY DEF NotOlderIn
<1>1. CASE Touches(o, k)
  <2>1. Apply(tbl, o)[k] = TableIn(h, n + 1)[k]
    BY <1>1, ApplyKey
  <2> QED BY <2>1
<1>2. CASE ~Touches(o, k)
  <2>1. PICK m \in n .. Len(h) : tbl[k] = TableIn(h, m)[k]
    BY DEF NotOlderIn
  <2>2. Apply(tbl, o)[k] = TableIn(h, m)[k]
    BY <1>2, <2>1, ApplyKey
  <2>3. TableIn(h, n + 1)[k] = TableIn(h, n)[k]
    BY <1>2, ApplyKey
  <2>4. CASE m = n
    BY <2>2, <2>3, <2>4
  <2>5. CASE m # n
    BY <2>2, <2>5
  <2> QED BY <2>4, <2>5
<1> QED BY <1>1, <1>2
----------------------------------------------------------------------------
(* The inductive invariant behind serializability, on the file engine: the *)
(* history is the replay of the log; every table that is cached, stored or *)
(* under construction is not older than the position it stands for; and a  *)
(* check made at the end of the log holds there.                           *)
HistOK == \A n \in 1 .. Len(hist) : hist[n] = Apply(TableIn(hist, n - 1), log[n])

ThreadOK(t) ==
    /\ pc[t] = "open" => NotOlder(ld[t].acc, ld[t].sid)
    /\ pc[t] = "replay" => NotOlder(ld[t].acc, ld[t].cursor) /\ ld[t].hd <= ld[t].stop
    /\ pc[t] \in {"truncSnapshot", "putSnapshot"} => NotOlder(ld[t].acc, ld[t].hd)
    /\ (pc[t] = "put" /\ cat[t] = Len(log)) => CheckOK(TableAt(Len(log)), call[t])

LabelInv == HistOK /\ LabelsNotAhead /\ \A t \in Threads : ThreadOK(t)

(* The threads other than t stay where they are. *)
Others(t) ==
    \A u \in Threads \ {t} : /\ pc'[u] = pc[u] /\ ld'[u] = ld[u]
                             /\ cat'[u] = cat[u] /\ call'[u] = call[u]

LEMMA LabelInvInit == Init => LabelInv
<1> SUFFICES ASSUME Init PROVE LabelInv
  OBVIOUS
<1>1. hist \in Seq(Tables) /\ hist = <<>> /\ log = <<>>
  BY DEF Init
<1>2. HistOK
  BY <1>1 DEF HistOK
<1>3. LabelsNotAhead
  <2>1. NotOlderIn(hist, EmptyTable, 0)
    BY <1>1, NotOlderEmpty
  <2>2. Len(log) = 0 /\ snap.id = 0 /\ snap.table = EmptyTable
    BY <1>1 DEF Init, NoSnap
  <2>3. \A s \in Stores : at[s] = 0 /\ table[s] = EmptyTable
    BY DEF Init
  <2> QED BY <2>1, <2>2, <2>3 DEF LabelsNotAhead, NotOlder
<1>4. \A t \in Threads : ThreadOK(t)
  BY DEF Init, ThreadOK
<1> QED
  BY <1>2, <1>3, <1>4 DEF LabelInv

(* Steps of one thread that leave log and history alone. *)
LEMMA SameLogThreads ==
  ASSUME LabelInv, NEW t \in Threads, UNCHANGED <<log, hist>>, Others(t), ThreadOK(t)'
  PROVE  HistOK' /\ \A u \in Threads : ThreadOK(u)'
<1>1. HistOK'
  BY DEF LabelInv, HistOK
<1>2. ASSUME NEW u \in Threads \ {t} PROVE ThreadOK(u)'
  <2>1. pc'[u] = pc[u] /\ ld'[u] = ld[u] /\ cat'[u] = cat[u] /\ call'[u] = call[u]
    BY DEF Others
  <2>2. ThreadOK(u)
    BY DEF LabelInv
  <2> QED BY <2>1, <2>2 DEF ThreadOK, NotOlder, TableAt
<1> QED
  BY <1>1, <1>2

LEMMA SameTables ==
  ASSUME LabelInv, NEW t \in Threads, UNCHANGED <<log, hist, snap, table, at>>,
         Others(t), ThreadOK(t)'
  PROVE  LabelInv'
<1>1. LabelsNotAhead'
  BY DEF LabelInv, LabelsNotAhead, NotOlder
<1> QED
  BY <1>1, SameLogThreads DEF LabelInv

LEMMA LabelInvStep ==
  ASSUME Engine = "file", TypeInv, TypeInv', LabelInv, [Next]_vars
  PROVE  LabelInv'
<1>0. TypeOK /\ Bounded /\ hist \in Seq(Tables)
  BY DEF TypeInv, TypeOK
<1> USE <1>0
<1>1. ASSUME NEW t \in Threads, Start(t) PROVE LabelInv'
  <2>1. UNCHANGED <<log, hist, snap, table, at>> /\ Others(t) /\ ThreadOK(t)'
    BY <1>1 DEF Start, Others, Go, Return, AfterLoad, ThreadOK, TypeOK, storage, cache, locals
  <2> QED BY <2>1, SameTables
<1>2. ASSUME NEW t \in Threads, Peek(t) PROVE LabelInv'
  <2>1. UNCHANGED <<log, hist, snap, table, at>> /\ Others(t) /\ ThreadOK(t)'
    BY <1>2 DEF Peek, Others, Go, Return, AfterLoad, ThreadOK, TypeOK, storage, cache, locals
  <2> QED BY <2>1, SameTables
<1>3. ASSUME NEW t \in Threads, ReadHead(t) PROVE LabelInv'
  <2>1. UNCHANGED <<log, hist, snap, table, at>> /\ Others(t) /\ ThreadOK(t)'
    BY <1>3 DEF ReadHead, Others, Go, Return, AfterLoad, ThreadOK, TypeOK, storage, cache, locals
  <2> QED BY <2>1, SameTables
<1>4. ASSUME NEW t \in Threads, ReadHeadFails(t) PROVE LabelInv'
  <2>1. UNCHANGED <<log, hist, snap, table, at>> /\ Others(t) /\ ThreadOK(t)'
    BY <1>4 DEF ReadHeadFails, Others, Go, Return, AfterLoad, ThreadOK, TypeOK, storage, cache, locals
  <2> QED BY <2>1, SameTables
<1>5. ASSUME NEW t \in Threads, Compare(t) PROVE LabelInv'
  <2>1. UNCHANGED <<log, hist, snap, table, at>> /\ Others(t) /\ ThreadOK(t)'
    BY <1>5 DEF Compare, Others, Go, Return, AfterLoad, ThreadOK, TypeOK, storage, cache, locals
  <2> QED BY <2>1, SameTables
<1>6. ASSUME NEW t \in Threads, GetSnapshot(t) PROVE LabelInv'
  <2>1. UNCHANGED <<log, hist, snap, table, at>> /\ Others(t) /\ pc'[t] = "open"
    BY <1>6 DEF GetSnapshot, Others, Go, TypeOK, storage, cache
  <2>2. ld'[t].acc = snap.table /\ ld'[t].sid = snap.id
    <3>1. ld[t] \in Loads
      BY DEF TypeOK
    <3>2. ld'[t] = [ld[t] EXCEPT !.sid = snap.id, !.acc = snap.table]
      BY <1>6 DEF GetSnapshot, TypeOK
    <3> QED BY <3>1, <3>2 DEF Loads
  <2>3. NotOlder(ld[t].acc, ld[t].sid)'
    BY <2>1, <2>2 DEF LabelInv, LabelsNotAhead, NotOlder
  <2>4. ThreadOK(t)'
    BY <2>1, <2>3 DEF ThreadOK
  <2> QED BY <2>1, <2>4, SameTables
<1>7. ASSUME NEW t \in Threads, OpenReader(t) PROVE LabelInv'
  <2>1. UNCHANGED <<log, hist, snap, table, at>> /\ Others(t) /\ pc'[t] = "replay" /\ pc[t] = "open"
    BY <1>7 DEF OpenReader, Others, Go, TypeOK, storage, cache
  <2>2. ld[t] \in Loads
    BY DEF TypeOK
  <2> DEFINE c == (IF ld[t].sid = Nil THEN TailID ELSE ld[t].sid) - 1
             e == IF ld[t].hd = Nil THEN head ELSE ld[t].hd
  <2>3. ld'[t].acc = ld[t].acc /\ ld'[t].hd = ld[t].hd /\ ld'[t].cursor = c /\ ld'[t].stop = e
    <3>1. ld'[t] = [ld[t] EXCEPT !.stop = e, !.cursor = c]
      BY <1>7 DEF OpenReader, TypeOK
    <3> HIDE DEF c, e
    <3> QED BY <2>2, <3>1 DEF Loads
  <2>4. c \in Nat /\ c <= ld[t].sid /\ ld[t].sid \in Nat /\ ld[t].hd <= e
    BY <2>2 DEF Loads, TypeOK
  <2>5. NotOlderIn(hist, ld[t].acc, ld[t].sid)
    BY <2>1 DEF LabelInv, ThreadOK, NotOlder
  <2> HIDE DEF c, e
  <2>6. NotOlderIn(hist, ld[t].acc, c)
    BY <2>4, <2>5, NotOlderWeaken
  <2>7. ThreadOK(t)'
    BY <2>1, <2>3, <2>4, <2>6 DEF ThreadOK, NotOlder
  <2> QED BY <2>1, <2>7, SameTables
<1>8. ASSUME NEW t \in Threads, ReplayEntry(t) PROVE LabelInv'
  <2>1. UNCHANGED <<log, hist, snap, table, at, pc>> /\ Others(t) /\ pc[t] = "replay"
    BY <1>8 DEF ReplayEntry, Others, TypeOK, storage, cache
  <2>2. ld[t] \in Loads
    BY DEF TypeOK
  <2> DEFINE n == ld[t].cursor
  <2>3. n \in Nat /\ n + 1 \in 1 .. Len(hist)
    BY <1>8, <2>2 DEF ReplayEntry, More, Bounded, Loads
  <2>4. TableIn(hist, n + 1) = Apply(TableIn(hist, n), NextEntry(t))
    <3>1. hist[n + 1] = Apply(TableIn(hist, (n + 1) - 1), log[n + 1])
      BY <2>3 DEF LabelInv, HistOK
    <3>2. (n + 1) - 1 = n /\ n + 1 # 0
      BY <2>3
    <3> QED BY <3>1, <3>2 DEF TableIn, NextEntry
  <2>5. NotOlderIn(hist, ld[t].acc, n) /\ ld[t].hd <= ld[t].stop
    BY <2>1 DEF LabelInv, ThreadOK, NotOlder
  <2>6. NotOlderIn(hist, Apply(ld[t].acc, NextEntry(t)), n + 1)
    BY <2>3, <2>4, <2>5, NotOlderReplay
  <2>7. /\ ld'[t].acc = Apply(ld[t].acc, NextEntry(t)) /\ ld'[t].cursor = n + 1
        /\ ld'[t].hd = ld[t].hd /\ ld'[t].stop = ld[t].stop
    <3>1. ld'[t] = [ld[t] EXCEPT !.cursor = n + 1, !.acc = Apply(ld[t].acc, NextEntry(t))]
      BY <1>8 DEF ReplayEntry, TypeOK
    <3> QED BY <2>2, <3>1 DEF Loads
  <2>8. ThreadOK(t)'
    BY <2>1, <2>5, <2>6, <2>7 DEF ThreadOK, NotOlder
  <2> QED BY <2>1, <2>8, SameTables
<1>9. ASSUME NEW t \in Threads, ReplayFails(t) PROVE LabelInv'
  <2>1. UNCHANGED <<log, hist, snap, table, at>> /\ Others(t) /\ ThreadOK(t)'
    BY <1>9 DEF ReplayFails, Others, Go, Return, AfterLoad, ThreadOK, TypeOK, storage, cache, locals
  <2> QED BY <2>1, SameTables
<1>10. ASSUME NEW t \in Threads, Publish(t) PROVE LabelInv'
  <2>1. UNCHANGED <<log, hist, snap>> /\ Others(t) /\ pc[t] = "replay"
    BY <1>10 DEF Publish, AfterLoad, Others, Go, TypeOK, storage
  <2>2. ld[t] \in Loads /\ S(t) \in Stores
    BY DEF TypeOK, S
  <2>3. NotOlderIn(hist, ld[t].acc, ld[t].hd)
    <3>1. NotOlderIn(hist, ld[t].acc, ld[t].cursor) /\ ld[t].hd <= ld[t].stop
      BY <2>1 DEF LabelInv, ThreadOK, NotOlder
    <3>2. ld[t].hd <= ld[t].cursor /\ ld[t].hd \in Nat /\ ld[t].cursor \in Nat
      BY <1>10, <2>2, <3>1 DEF Publish, More, Loads
    <3> QED BY <3>1, <3>2, NotOlderWeaken
  <2>4. LabelsNotAhead'
    <3>1. \A s \in Stores : IF s = S(t) THEN table'[s] = ld[t].acc /\ at'[s] = ld[t].hd
                                         ELSE table'[s] = table[s] /\ at'[s] = at[s]
      BY <1>10, <2>2 DEF Publish, TypeOK
    <3>2. \A s \in Stores : at'[s] <= Len(log) /\ NotOlderIn(hist, table'[s], at'[s])
      BY <2>3, <3>1 DEF LabelInv, LabelsNotAhead, NotOlder, Bounded
    <3> QED BY <2>1, <3>2 DEF LabelInv, LabelsNotAhead, NotOlder
  <2>5. ThreadOK(t)'
    <3>1. \/ pc'[t] \in {"check", "read"}
          \/ pc'[t] \in {"truncSnapshot", "putSnapshot"} /\ ld'[t] = ld[t]
      BY <1>10 DEF Publish, AfterLoad, Go, TypeOK
    <3> QED BY <2>1, <2>3, <3>1 DEF ThreadOK, NotOlder
  <2> QED BY <2>1, <2>4, <2>5, SameLogThreads DEF LabelInv
<1>11. ASSUME NEW t \in Threads, TruncSnapshot(t) PROVE LabelInv'
  <2>1. /\ UNCHANGED <<log, hist, table, at, ld>> /\ Others(t) /\ snap' = NoSnap
        /\ pc[t] = "truncSnapshot" /\ pc'[t] = "putSnapshot"
    BY <1>11 DEF TruncSnapshot, Others, Go, TypeOK, cache, locals
  <2>2. LabelsNotAhead'
    BY <2>1, NotOlderEmpty DEF LabelInv, LabelsNotAhead, NotOlder, NoSnap
  <2>3. ThreadOK(t)'
    BY <2>1 DEF LabelInv, ThreadOK, NotOlder
  <2> QED BY <2>1, <2>2, <2>3, SameLogThreads DEF LabelInv
<1>12. ASSUME NEW t \in Threads, PutSnapshot(t) PROVE LabelInv'
  <2>1. /\ UNCHANGED <<log, hist, table, at>> /\ Others(t) /\ pc[t] = "putSnapshot"
        /\ pc'[t] \in {"check", "read"} /\ snap'.id = ld[t].hd /\ snap'.table = ld[t].acc
    BY <1>12 DEF PutSnapshot, AfterLoad, Others, Go, TypeOK, cache
  <2>2. NotOlderIn(hist, ld[t].acc, ld[t].hd) /\ ld[t].hd <= Len(log)
    BY <2>1 DEF LabelInv, ThreadOK, NotOlder, Bounded
  <2>3. LabelsNotAhead'
    BY <2>1, <2>2 DEF LabelInv, LabelsNotAhead, NotOlder
  <2>4. ThreadOK(t)'
    BY <2>1 DEF ThreadOK
  <2> QED BY <2>1, <2>3, <2>4, SameLogThreads DEF LabelInv
<1>13. ASSUME NEW t \in Threads, Read(t) PROVE LabelInv'
  <2>1. UNCHANGED <<log, hist, snap, table, at>> /\ Others(t) /\ ThreadOK(t)'
    BY <1>13 DEF Read, Others, Go, Return, AfterLoad, ThreadOK, TypeOK, storage, cache, locals
  <2> QED BY <2>1, SameTables
<1>14. ASSUME NEW t \in Threads, Check(t) PROVE LabelInv'
  <2>1. UNCHANGED <<log, hist, snap, table, at>> /\ Others(t)
    BY <1>14 DEF Check, Return, Others, Go, TypeOK, storage, cache
  <2>2. S(t) \in Stores /\ table[S(t)] \in Tables /\ Len(hist) = Len(log)
    BY DEF S, TypeOK, Bounded
  <2>3. ASSUME pc'[t] = "put", cat'[t] = Len(log) PROVE CheckOK(TableAt(Len(log)), call'[t])
    <3>1. CheckOK(table[S(t)], call[t]) /\ call' = call /\ cat'[t] = at[S(t)]
      BY <1>14, <2>3 DEF Check, Return, Go, TypeOK
    <3>2. NotOlderIn(hist, table[S(t)], Len(hist))
      BY <2>2, <2>3, <3>1 DEF LabelInv, LabelsNotAhead, NotOlder
    <3>3. table[S(t)] = TableIn(hist, Len(hist))
      BY <2>2, <3>2, NotOlderExact
    <3> QED BY <2>2, <3>1, <3>3 DEF TableAt
  <2>4. pc'[t] \in {"put", "idle"}
    BY <1>14 DEF Check, Return, Go, TypeOK
  <2>5. ThreadOK(t)'
    BY <2>1, <2>3, <2>4 DEF ThreadOK, TableAt
  <2> QED BY <2>1, <2>5, SameTables
<1>16. ASSUME NEW t \in Threads, Conflict(t) PROVE LabelInv'
  <2>1. UNCHANGED <<log, hist, snap, table, at>> /\ Others(t) /\ ThreadOK(t)'
    BY <1>16 DEF Conflict, Others, Go, Return, AfterLoad, ThreadOK, TypeOK, storage, cache, locals
  <2> QED BY <2>1, SameTables
<1>17. ASSUME NEW t \in Threads, TruncHead(t) PROVE LabelInv'
  <2>1. UNCHANGED <<log, hist, snap, table, at>> /\ Others(t) /\ ThreadOK(t)'
    BY <1>17 DEF TruncHead, Others, Go, Return, AfterLoad, ThreadOK, TypeOK, storage, cache, locals
  <2> QED BY <2>1, SameTables
<1>18. ASSUME NEW t \in Threads, WriteHead(t) PROVE LabelInv'
  <2>1. UNCHANGED <<log, hist, snap, table, at>> /\ Others(t) /\ ThreadOK(t)'
    BY <1>18 DEF WriteHead, Others, Go, Return, AfterLoad, ThreadOK, TypeOK, storage, cache, locals
  <2> QED BY <2>1, SameTables
<1>15. ASSUME NEW t \in Threads, CommitAt(t) PROVE LabelInv'
  <2> DEFINE post == Apply(TableIn(hist, cat[t]), call[t])
  <2>1. cat[t] = Len(log) /\ cat[t] \in Nat /\ Len(hist) = Len(log) /\ call[t] \in Ops
    BY <1>15 DEF CommitAt, Exists, TypeOK, Bounded
  <2>2. log' = Append(log, call[t]) /\ hist' = Append(hist, post)
    <3>1. (cat[t] + 1) - 1 = cat[t] /\ ~Exists(cat[t] + 1)
      BY <2>1 DEF Exists
    <3> QED BY <1>15, <3>1 DEF CommitAt, PutEntry, TableAt
  <2>3. UNCHANGED <<snap, table, at, ld, cat, call>> /\ pc' = [pc EXCEPT ![t] = "truncHead"]
    BY <1>15 DEF CommitAt, Go, cache, locals
  <2>4. post \in Tables
    <3>1. TableIn(hist, cat[t]) \in Tables
      BY <2>1, EmptyTableType DEF TableIn
    <3> QED BY <2>1, <3>1, ApplyType
  <2> HIDE DEF post
  <2>5. /\ Len(hist') = Len(hist) + 1 /\ Len(log') = Len(log) + 1
        /\ hist'[Len(hist) + 1] = post /\ log'[Len(hist) + 1] = call[t]
        /\ \A n \in 1 .. Len(hist) : hist'[n] = hist[n] /\ log'[n] = log[n]
    BY <2>1, <2>2, <2>4 DEF TypeOK
  <2>6. \A n \in 0 .. Len(hist) : TableIn(hist', n) = TableIn(hist, n)
    BY <2>5 DEF TableIn
  <2>7. \A tbl : \A n \in Nat : NotOlderIn(hist, tbl, n) => NotOlderIn(hist', tbl, n)
    BY <2>2, <2>4, NotOlderAppend
  <2>8. HistOK'
    <3> SUFFICES ASSUME NEW n \in 1 .. Len(hist')
                 PROVE  hist'[n] = Apply(TableIn(hist', n - 1), log'[n])
      BY DEF HistOK
    <3>0. n - 1 \in 0 .. Len(hist) /\ Len(hist) \in Nat
      BY <2>5
    <3>1. CASE n = Len(hist) + 1
      <4>1. n - 1 = cat[t]
        BY <2>1, <3>1
      <4> QED BY <2>5, <2>6, <3>0, <3>1, <4>1 DEF post
    <3>2. CASE n # Len(hist) + 1
      <4>1. n \in 1 .. Len(hist)
        BY <2>5, <3>0, <3>2
      <4> QED BY <2>5, <2>6, <3>0, <4>1 DEF LabelInv, HistOK
    <3> QED BY <3>1, <3>2
  <2>9. LabelsNotAhead'
    <3>1. \A s \in Stores : at[s] \in Nat
      BY DEF TypeOK
    <3>2. snap.id \in Nat
      BY DEF TypeOK
    <3>3. \A s \in Stores : at[s] <= Len(log') /\ NotOlderIn(hist', table[s], at[s])
      BY <2>1, <2>5, <2>7, <3>1 DEF LabelInv, LabelsNotAhead, NotOlder
    <3>4. snap.id <= Len(log') /\ NotOlderIn(hist', snap.table, snap.id)
      BY <2>1, <2>5, <2>7, <3>2 DEF LabelInv, LabelsNotAhead, NotOlder
    <3> QED BY <2>3, <3>3, <3>4 DEF LabelsNotAhead, NotOlder
  <2>10. ASSUME NEW u \in Threads PROVE ThreadOK(u)'
    <3>1. ld'[u] = ld[u] /\ cat'[u] = cat[u] /\ (pc'[u] = pc[u] \/ pc'[u] = "truncHead")
      BY <2>3 DEF TypeOK
    <3>2. ThreadOK(u) /\ ld[u] \in Loads
      BY DEF LabelInv, TypeOK
    <3>3. cat'[u] # Len(log')
      BY <2>1, <2>5, <3>1 DEF TypeOK, Bounded
    <3>4. ld[u].sid \in Nat /\ ld[u].cursor \in Nat /\ ld[u].hd \in Nat
      BY <3>2 DEF Loads
    <3> QED BY <2>7, <3>1, <3>2, <3>3, <3>4 DEF ThreadOK, NotOlder
  <2> QED BY <2>8, <2>9, <2>10 DEF LabelInv
<1>19. ASSUME NEW t \in Threads, Reset(t) PROVE LabelInv'
  <2>1. UNCHANGED <<log, hist, snap, table>> /\ Others(t) /\ pc'[t] = "idle"
    BY <1>19 DEF Reset, Return, Others, Go, TypeOK, storage
  <2>2. \A s \in Stores : at'[s] \in {at[s], Nil} /\ at[s] \in Nat
    BY <1>19 DEF Reset, TypeOK
  <2>3. \A s \in Stores : NotOlderIn(hist, table[s], at[s])
    BY DEF LabelInv, LabelsNotAhead, NotOlder
  <2>4. \A s \in Stores : at'[s] <= Len(log) /\ NotOlderIn(hist, table[s], at'[s])
    BY <2>2, <2>3, NotOlderWeaken DEF Bounded
  <2>5. LabelsNotAhead'
    BY <2>1, <2>4 DEF LabelInv, LabelsNotAhead, NotOlder
  <2>6. ThreadOK(t)'
    BY <2>1 DEF ThreadOK
  <2> QED BY <2>1, <2>5, <2>6, SameLogThreads DEF LabelInv
<1>20. ASSUME NEW t \in Threads, StorageError(t) PROVE LabelInv'
  <2>1. UNCHANGED <<log, hist, snap, table, at>> /\ Others(t) /\ ThreadOK(t)'
    BY <1>20 DEF StorageError, Others, Go, Return, AfterLoad, ThreadOK, TypeOK, storage, cache, locals
  <2> QED BY <2>1, SameTables
<1>21. ASSUME NEW s \in Stores, Crash(s) PROVE LabelInv'
  <2>1. UNCHANGED <<log, hist, snap>>
    BY <1>21 DEF Crash, storage
  <2>2. \A r \in Stores : \/ table'[r] = table[r] /\ at'[r] = at[r]
                          \/ table'[r] = EmptyTable /\ at'[r] = Nil
    BY <1>21 DEF Crash, TypeOK
  <2>3. LabelsNotAhead'
    BY <2>1, <2>2, NotOlderEmpty DEF LabelInv, LabelsNotAhead, NotOlder
  <2>4. ASSUME NEW t \in Threads PROVE ThreadOK(t)'
    <3>1. \/ pc'[t] = "idle"
          \/ pc'[t] = pc[t] /\ ld'[t] = ld[t] /\ cat'[t] = cat[t] /\ call'[t] = call[t]
      BY <1>21 DEF Crash
    <3>2. ThreadOK(t)
      BY DEF LabelInv
    <3> QED BY <2>1, <3>1, <3>2 DEF ThreadOK, NotOlder, TableAt
  <2>5. HistOK'
    BY <2>1 DEF LabelInv, HistOK
  <2> QED BY <2>3, <2>4, <2>5 DEF LabelInv
<1>22. ASSUME UNCHANGED <<storage, table, at, pc, locals>> PROVE LabelInv'
  BY <1>22 DEF LabelInv, HistOK, LabelsNotAhead, ThreadOK, NotOlder, TableAt, storage, locals
<1>23. ASSUME NEW s \in Stores, Stale(s) PROVE LabelInv'
  BY <1>22, <1>23 DEF Stale
<1>24. CASE UNCHANGED vars
  BY <1>22, <1>24 DEF vars, cache
<1>25. ASSUME NEW t \in Threads, GetSnapshotFails(t) PROVE LabelInv'
  <2>1. UNCHANGED <<log, hist, snap, table, at>> /\ Others(t) /\ pc'[t] = "open"
    BY <1>25 DEF GetSnapshotFails, Others, Go, TypeOK, storage, cache
  <2>2. ld'[t].acc = EmptyTable /\ ld'[t].sid = 0
    <3>1. ld[t] \in Loads
      BY DEF TypeOK
    <3>2. ld'[t] = [ld[t] EXCEPT !.sid = Nil, !.acc = EmptyTable]
      BY <1>25 DEF GetSnapshotFails, TypeOK
    <3> QED BY <3>1, <3>2 DEF Loads, Nil
  <2>3. NotOlderIn(hist, EmptyTable, 0)
    BY NotOlderEmpty DEF TypeOK
  <2>4. NotOlder(ld[t].acc, ld[t].sid)'
    BY <2>1, <2>2, <2>3 DEF NotOlder
  <2>5. ThreadOK(t)'
    BY <2>1, <2>4 DEF ThreadOK
  <2> QED BY <2>1, <2>5, SameTables
<1>26. ASSUME NEW t \in Threads, PutSnapshotFails(t) PROVE LabelInv'
  <2>1. UNCHANGED <<log, hist, snap, table, at>> /\ Others(t) /\ ThreadOK(t)'
    BY <1>26 DEF PutSnapshotFails, Others, Go, AfterLoad, ThreadOK, TypeOK, storage, cache, locals
  <2> QED BY <2>1, SameTables
<1> QED
  BY <1>1, <1>2, <1>3, <1>4, <1>5, <1>6, <1>7, <1>8, <1>9, <1>10, <1>11, <1>12, <1>13,
     <1>14, <1>15, <1>16, <1>17, <1>18, <1>19, <1>20, <1>21, <1>23, <1>24, <1>25, <1>26
  DEF Next, Step

----------------------------------------------------------------------------
(* On the file engine no cached table and no snapshot is ever older than   *)
(* the position it is filed under, whatever crashes, errors and snapshot   *)
(* races the processes go through.                                         *)
THEOREM TablesNotOlder == ASSUME Engine = "file" PROVE Spec => []LabelsNotAhead
<1>1. LabelInv => LabelsNotAhead
  BY DEF LabelInv
<1>2. TypeInv /\ TypeInv' /\ LabelInv /\ [Next]_vars => LabelInv'
  BY LabelInvStep
<1> QED
  BY TypeInvInit, TypeInvStep, LabelInvInit, <1>1, <1>2, PTL DEF Spec

(* On the file engine every commit is serializable: an entry is only ever  *)
(* created in a table that satisfies the operation's check.                *)
THEOREM Serializable == ASSUME Engine = "file" PROVE Spec => []CommitsValid
<1>1. LabelInv => CommitsValid
  BY DEF LabelInv, ThreadOK, CommitsValid
<1>2. TypeInv /\ TypeInv' /\ LabelInv /\ [Next]_vars => LabelInv'
  BY LabelInvStep
<1> QED
  BY TypeInvInit, TypeInvStep, LabelInvInit, <1>1, <1>2, PTL DEF Spec
----------------------------------------------------------------------------
(* Only CommitAt changes the log. *)
LEMMA OnlyCommitAt ==
  ASSUME [Next]_vars, ~\E t \in Threads : CommitAt(t)
  PROVE  UNCHANGED <<log, hist>>
<1>1. ASSUME NEW t \in Threads,
             Start(t) \/ StorageError(t) \/ GetSnapshotFails(t) \/ PutSnapshotFails(t)
      PROVE UNCHANGED <<log, hist>>
  BY <1>1 DEF Start, StorageError, GetSnapshotFails, PutSnapshotFails, storage
<1>2. ASSUME NEW t \in Threads, Step(t) PROVE UNCHANGED <<log, hist>>
  BY <1>2 DEF Step, Peek, ReadHead, ReadHeadFails, Compare, GetSnapshot, OpenReader,
     ReplayEntry, ReplayFails, Publish, TruncSnapshot, PutSnapshot, Read, Check,
     Conflict, TruncHead, WriteHead, Reset, storage
<1>3. ASSUME NEW s \in Stores, Crash(s) \/ Stale(s) PROVE UNCHANGED <<log, hist>>
  BY <1>3 DEF Crash, Stale, storage
<1>4. CASE UNCHANGED vars
  BY <1>4 DEF vars, storage
<1> QED
  BY <1>1, <1>2, <1>3, <1>4 DEF Next

(* On the file engine, creating an entry appends it, and it is valid. *)
LEMMA CommitAppends ==
  ASSUME Engine = "file", TypeInv, LabelInv, NEW t \in Threads, CommitAt(t)
  PROVE  /\ log' = Append(log, call[t])
         /\ hist' = Append(hist, Apply(TableAt(Len(log)), call[t]))
         /\ CheckOK(TableAt(Len(log)), call[t])
<1>1. cat[t] = Len(log) /\ ~Exists(cat[t] + 1) /\ (cat[t] + 1) - 1 = Len(log) /\ pc[t] = "put"
  BY DEF CommitAt, Exists, TypeInv, TypeOK, Bounded
<1>2. log' = Append(log, call[t]) /\ hist' = Append(hist, Apply(TableAt(Len(log)), call[t]))
  BY <1>1 DEF CommitAt, PutEntry
<1>3. CheckOK(TableAt(Len(log)), call[t])
  BY <1>1 DEF LabelInv, ThreadOK
<1> QED BY <1>2, <1>3

LEMMA StepRefines ==
  ASSUME Engine = "file", TypeInv, LabelInv, [Next]_vars
  PROVE  [KV!Next]_(TableAt(Len(log)))
<1>1. CASE \E t \in Threads : CommitAt(t)
  <2>1. PICK t \in Threads : CommitAt(t)
    BY <1>1
  <2>2. /\ log' = Append(log, call[t])
        /\ hist' = Append(hist, Apply(TableAt(Len(log)), call[t]))
        /\ CheckOK(TableAt(Len(log)), call[t])
    BY <2>1, CommitAppends
  <2>3. call[t] \in Ops /\ Len(hist) = Len(log) /\ hist \in Seq(Tables) /\ log \in Seq(Ops)
    BY DEF TypeInv, TypeOK, Bounded
  <2>4. Apply(TableAt(Len(log)), call[t]) \in Tables
    <3>1. TableAt(Len(log)) \in Tables
      BY <2>3, EmptyTableType DEF TableAt, TableIn
    <3> QED BY <2>3, <3>1, ApplyType
  <2>5. (TableAt(Len(log)))' = Apply(TableAt(Len(log)), call[t])
    <3> DEFINE post == Apply(TableAt(Len(log)), call[t])
    <3>1. hist' = Append(hist, post) /\ post \in Tables
      BY <2>2, <2>4
    <3> HIDE DEF post
    <3>2. Len(log') = Len(hist) + 1 /\ hist'[Len(hist) + 1] = post /\ Len(hist) + 1 # 0
      BY <2>2, <2>3, <3>1
    <3>3. (TableAt(Len(log)))' = post
      BY <3>2 DEF TableAt, TableIn
    <3> QED BY <3>3 DEF post
  <2>6. call[t].kind \in CommitKinds
    BY <2>2 DEF CheckOK, CommitKinds
  <2>7. KV!Commit(call[t])
    BY <2>2, <2>5, <2>6 DEF KV!Commit, KV!CheckOK, KV!Apply, KV!CommitKinds, KV!Touches,
       KV!Written, CheckOK, Apply, CommitKinds, Touches, Written
  <2> QED BY <2>3, <2>7 DEF KV!Next
<1>2. CASE ~\E t \in Threads : CommitAt(t)
  BY <1>2, OnlyCommitAt DEF TableAt
<1> QED BY <1>1, <1>2

(* On the file engine the journal implements the atomic key-value store.   *)
THEOREM JournalImplementsKV == ASSUME Engine = "file" PROVE Spec => Implements
<1>1. Init => KV!Init
  BY DEF Init, KV!Init, TableAt, TableIn, EmptyTable, KV!EmptyTable
<1>2. TypeInv /\ LabelInv /\ [Next]_vars => [KV!Next]_(TableAt(Len(log)))
  BY StepRefines
<1>3. TypeInv /\ TypeInv' /\ LabelInv /\ [Next]_vars => LabelInv'
  BY LabelInvStep
<1> QED
  BY TypeInvInit, TypeInvStep, LabelInvInit, <1>1, <1>2, <1>3, PTL
  DEF Spec, Implements, KV!Spec
----------------------------------------------------------------------------
(* HEAD and the end of the log. *)

(* The threads between the two writes of CommitAt. *)
Writers == {"truncHead", "writeHead"}

(* No store, snapshot or load has an ID beyond HEAD, so the thread that    *)
(* creates the next entry does so when HEAD is the end of the log, and     *)
(* nobody creates another one until it has moved HEAD.                     *)
HeadInv ==
    /\ head <= Len(log) /\ Len(log) <= head + 1
    /\ snap.id <= head
    /\ \A s \in Stores : at[s] <= head
    /\ \A t \in Threads :
         /\ ld[t].hd <= head
         /\ ld[t].sid <= head
         /\ cat[t] <= head
         /\ pc[t] \in Writers => cat[t] + 1 = Len(log) /\ head + 1 = Len(log)
    /\ \A t, u \in Threads : pc[t] \in Writers /\ pc[u] \in Writers => t = u

LEMMA HeadInvInit == Init => HeadInv
  BY DEF Init, HeadInv, NoSnap, NoLoad, Writers

(* Steps that neither write HEAD nor create an entry, nor make a writer of *)
(* the thread that takes them.                                             *)
LEMMA HeadInvFrame ==
  ASSUME TypeInv, HeadInv, NEW t \in Threads, UNCHANGED <<log, head>>,
         \A u \in Threads \ {t} : pc'[u] = pc[u] /\ ld'[u] = ld[u] /\ cat'[u] = cat[u],
         pc'[t] \in Writers => pc[t] \in Writers /\ cat'[t] = cat[t],
         ld'[t].hd <= head, ld'[t].sid <= head, cat'[t] <= head,
         snap'.id <= head, \A s \in Stores : at'[s] <= head
  PROVE  HeadInv'
<1>1. \A u \in Threads : /\ ld'[u].hd <= head /\ ld'[u].sid <= head /\ cat'[u] <= head
                         /\ pc'[u] \in Writers => pc[u] \in Writers /\ cat'[u] = cat[u]
  BY DEF HeadInv
<1> QED
  BY <1>1 DEF HeadInv

LEMMA HeadInvStep ==
  ASSUME Engine = "file", TypeInv, HeadInv, [Next]_vars
  PROVE  HeadInv'
<1>0. /\ TypeOK /\ Bounded
      /\ \A t \in Threads : S(t) \in Stores /\ ld[t] \in Loads /\ cat[t] \in Nat
      /\ head \in Nat /\ Len(log) \in Nat
  BY DEF TypeInv, TypeOK, S
<1> USE <1>0
<1>1. ASSUME NEW t \in Threads,
            Start(t) \/ Peek(t) \/ ReadHeadFails(t) \/ ReplayFails(t) \/ Read(t) \/ StorageError(t) \/ Conflict(t) \/ Check(t) \/ TruncHead(t)
     PROVE  HeadInv'
  <2>1. /\ UNCHANGED <<log, head>>
        /\ \A u \in Threads \ {t} : pc'[u] = pc[u] /\ ld'[u] = ld[u] /\ cat'[u] = cat[u]
        /\ pc'[t] \in Writers => pc[t] \in Writers /\ cat'[t] = cat[t]
    BY <1>1 DEF Start, Peek, ReadHeadFails, ReplayFails, Read, StorageError, Conflict, Check, TruncHead, Return, AfterLoad, Go, Writers, TypeOK, storage, cache, locals
  <2>2. ld'[t].hd <= head /\ ld'[t].sid <= head /\ cat'[t] <= head
    <3>1. ld'[t] \in {ld[t], NoLoad} /\ cat'[t] \in {cat[t], Nil, at[S(t)]}
      <4>1. CASE Return(t)
        BY <4>1 DEF Return, TypeOK
      <4>2. CASE ~Return(t)
        BY <1>1, <4>2 DEF Start, Peek, ReadHeadFails, ReplayFails, Read, StorageError,
           Conflict, Check, TruncHead, TypeOK, locals
      <4> QED BY <4>1, <4>2
    <3> QED BY <3>1 DEF HeadInv, NoLoad
  <2>3. snap'.id <= head /\ \A s \in Stores : at'[s] <= head
    BY <1>1 DEF Start, Peek, ReadHeadFails, ReplayFails, Read, StorageError, Conflict, Check, TruncHead, NoSnap, HeadInv, TypeOK, storage, cache, locals
  <2> QED BY <2>1, <2>2, <2>3, HeadInvFrame
<1>2. ASSUME NEW t \in Threads,
            ReadHead(t) \/ Compare(t) \/ GetSnapshot(t) \/ OpenReader(t) \/ ReplayEntry(t)
     PROVE  HeadInv'
  <2>1. /\ UNCHANGED <<log, head>>
        /\ \A u \in Threads \ {t} : pc'[u] = pc[u] /\ ld'[u] = ld[u] /\ cat'[u] = cat[u]
        /\ pc'[t] \in Writers => pc[t] \in Writers /\ cat'[t] = cat[t]
    BY <1>2 DEF ReadHead, Compare, GetSnapshot, OpenReader, ReplayEntry, Return, AfterLoad, Go, Writers, TypeOK, storage, cache, locals
  <2>2. ld'[t].hd <= head /\ ld'[t].sid <= head /\ cat'[t] <= head
    <3>1. CASE ReadHead(t)
      BY <3>1, SMTT(30) DEF ReadHead, HeadInv, TypeOK, Loads, storage
    <3>2. CASE Compare(t)
      BY <3>2, SMTT(30) DEF Compare, AfterLoad, NoLoad, HeadInv, TypeOK, Loads, storage
    <3>3. CASE GetSnapshot(t)
      BY <3>3 DEF GetSnapshot, HeadInv, TypeOK, Loads, storage
    <3>4. CASE OpenReader(t)
      BY <3>4 DEF OpenReader, HeadInv, TypeOK, Loads, storage
    <3>5. CASE ReplayEntry(t)
      BY <3>5 DEF ReplayEntry, HeadInv, TypeOK, Loads, storage
    <3> QED BY <1>2, <3>1, <3>2, <3>3, <3>4, <3>5
  <2>3. snap'.id <= head /\ \A s \in Stores : at'[s] <= head
    BY <1>2 DEF ReadHead, Compare, GetSnapshot, OpenReader, ReplayEntry, NoSnap, HeadInv, TypeOK, storage, cache, locals
  <2> QED BY <2>1, <2>2, <2>3, HeadInvFrame
<1>3. ASSUME NEW t \in Threads,
            Publish(t) \/ TruncSnapshot(t) \/ PutSnapshot(t) \/ Reset(t)
     PROVE  HeadInv'
  <2>1. /\ UNCHANGED <<log, head>>
        /\ \A u \in Threads \ {t} : pc'[u] = pc[u] /\ ld'[u] = ld[u] /\ cat'[u] = cat[u]
        /\ pc'[t] \in Writers => pc[t] \in Writers /\ cat'[t] = cat[t]
    BY <1>3, SMTT(30) DEF Publish, TruncSnapshot, PutSnapshot, Reset, Return, AfterLoad, Go, Writers, TypeOK, storage, cache, locals
  <2>2. ld'[t].hd <= head /\ ld'[t].sid <= head /\ cat'[t] <= head
    BY <1>3, SMTT(30) DEF Publish, TruncSnapshot, PutSnapshot, Reset, Return, AfterLoad, NoLoad, HeadInv, TypeOK, Loads, storage, cache, locals
  <2>3. snap'.id <= head /\ \A s \in Stores : at'[s] <= head
    <3>1. snap'.id \in {snap.id, Nil, ld[t].hd}
      BY <1>3 DEF Publish, TruncSnapshot, PutSnapshot, Reset, NoSnap, storage
    <3>2. \A s \in Stores : at'[s] \in {at[s], Nil, ld[t].hd}
      BY <1>3 DEF Publish, TruncSnapshot, PutSnapshot, Reset, TypeOK, cache
    <3> QED BY <3>1, <3>2 DEF HeadInv
  <2> QED BY <2>1, <2>2, <2>3, HeadInvFrame
<1>30. ASSUME NEW t \in Threads, CommitAt(t) PROVE HeadInv'
  <2>1. head = Len(log) /\ cat[t] = head
    BY <1>30 DEF CommitAt, Exists, HeadInv
  <2>2. /\ UNCHANGED <<head, snap, at, ld, cat>> /\ Len(log') = Len(log) + 1
        /\ pc' = [pc EXCEPT ![t] = "truncHead"]
    <3>1. log' = Append(log, call[t])
      BY <1>30, <2>1 DEF CommitAt, PutEntry, Exists
    <3> QED BY <1>30, <3>1 DEF CommitAt, Go, TypeOK, cache, locals
  <2>3. \A u \in Threads : pc[u] \notin Writers
    BY <2>1 DEF HeadInv
  <2>4. \A u \in Threads : pc'[u] \in Writers <=> u = t
    BY <2>2, <2>3 DEF Writers, TypeOK
  <2> QED BY <2>1, <2>2, <2>4 DEF HeadInv
<1>31. ASSUME NEW t \in Threads, WriteHead(t) PROVE HeadInv'
  <2>1. /\ UNCHANGED <<log, snap, at, ld, cat>> /\ pc' = [pc EXCEPT ![t] = "reset"]
        /\ head' = cat[t] + 1 /\ pc[t] \in Writers
    BY <1>31 DEF WriteHead, Go, Writers, cache, locals
  <2>2. head' = Len(log) /\ head' = head + 1
    BY <2>1 DEF HeadInv
  <2>3. \A u \in Threads : pc'[u] \notin Writers
    BY <2>1 DEF HeadInv, Writers, TypeOK
  <2>4. \A i \in Nat : i <= head => i <= head'
    BY <2>2
  <2>5. snap.id \in Nat /\ \A s \in Stores : at[s] \in Nat
    BY DEF TypeOK
  <2>6. \A u \in Threads : ld[u].hd <= head' /\ ld[u].sid <= head' /\ cat[u] <= head'
    BY <2>4 DEF HeadInv, Loads
  <2>7. snap.id <= head' /\ \A s \in Stores : at[s] <= head'
    BY <2>4, <2>5 DEF HeadInv
  <2> QED BY <2>1, <2>2, <2>3, <2>6, <2>7 DEF HeadInv
<1>32. ASSUME NEW s \in Stores, Crash(s) PROVE HeadInv'
  <2>1. \A t \in Threads :
          \/ pc'[t] = pc[t] /\ ld'[t] = ld[t] /\ cat'[t] = cat[t]
          \/ pc'[t] = "idle" /\ ld'[t] = NoLoad /\ cat'[t] = Nil
    BY <1>32 DEF Crash
  <2>2. \A r \in Stores : at'[r] \in {at[r], Nil}
    BY <1>32 DEF Crash, TypeOK
  <2>3. UNCHANGED <<log, head, snap>>
    BY <1>32 DEF Crash, storage
  <2> QED BY <2>1, <2>2, <2>3 DEF HeadInv, NoLoad, Writers
<1>33. ASSUME UNCHANGED <<storage, at, pc, locals>> PROVE HeadInv'
  BY <1>33 DEF HeadInv, storage, locals
<1>34. ASSUME NEW s \in Stores, Stale(s) PROVE HeadInv'
  BY <1>33, <1>34 DEF Stale
<1>35. CASE UNCHANGED vars
  BY <1>33, <1>35 DEF vars, cache
<1>36. ASSUME NEW t \in Threads, GetSnapshotFails(t) \/ PutSnapshotFails(t) PROVE HeadInv'
  <2>1. /\ UNCHANGED <<log, head, snap, at>>
        /\ \A u \in Threads \ {t} : pc'[u] = pc[u] /\ ld'[u] = ld[u] /\ cat'[u] = cat[u]
        /\ pc'[t] \in Writers => pc[t] \in Writers /\ cat'[t] = cat[t]
    BY <1>36 DEF GetSnapshotFails, PutSnapshotFails, AfterLoad, Go, Writers, TypeOK, storage, cache
  <2>2. ld'[t].hd <= head /\ ld'[t].sid <= head /\ cat'[t] <= head
    <3>1. CASE GetSnapshotFails(t)
      BY <3>1 DEF GetSnapshotFails, HeadInv, TypeOK, Loads, Nil
    <3>2. CASE PutSnapshotFails(t)
      BY <3>2 DEF PutSnapshotFails, AfterLoad, NoLoad, HeadInv, TypeOK
    <3> QED BY <1>36, <3>1, <3>2
  <2>3. snap'.id <= head /\ \A s \in Stores : at'[s] <= head
    BY <2>1 DEF HeadInv
  <2> QED BY <2>1, <2>2, <2>3, HeadInvFrame
<1> QED
  BY <1>1, <1>2, <1>3, <1>30, <1>31, <1>32, <1>34, <1>35, <1>36 DEF Next, Step
(* On the file engine HEAD is the end of the log or one entry before it,   *)
(* and at most one thread, in any process, is moving it.                   *)
THEOREM HeadAtEnd == ASSUME Engine = "file" PROVE Spec => []HeadNearEnd
<1>1. TypeInv /\ HeadInv => HeadNearEnd
  BY DEF TypeInv, TypeOK, HeadInv, HeadNearEnd, Writers
<1>2. TypeInv /\ HeadInv /\ [Next]_vars => HeadInv'
  BY HeadInvStep
<1> QED
  BY TypeInvInit, TypeInvStep, HeadInvInit, <1>1, <1>2, PTL DEF Spec

LEMMA HeadStep ==
  ASSUME TypeInv, HeadInv, [Next]_vars
  PROVE  head' >= head
<1>1. head \in Nat
  BY DEF TypeInv, TypeOK
<1>2. ASSUME NEW t \in Threads, WriteHead(t) PROVE head' >= head
  <2>1. head' = cat[t] + 1 /\ pc[t] \in Writers
    BY <1>2 DEF WriteHead, Writers
  <2>2. cat[t] + 1 = Len(log) /\ head + 1 = Len(log)
    BY <2>1 DEF HeadInv
  <2>3. Len(log) \in Nat
    BY DEF TypeInv, TypeOK
  <2> QED BY <1>1, <2>1, <2>2, <2>3
<1>3. ASSUME NEW t \in Threads,
             Start(t) \/ StorageError(t) \/ GetSnapshotFails(t) \/ PutSnapshotFails(t)
      PROVE head' = head
  BY <1>3 DEF Start, StorageError, GetSnapshotFails, PutSnapshotFails, storage
<1>4. ASSUME NEW t \in Threads, Step(t), ~WriteHead(t) PROVE head' = head
  BY <1>4 DEF Step, Peek, ReadHead, ReadHeadFails, Compare, GetSnapshot, OpenReader,
     ReplayEntry, ReplayFails, Publish, TruncSnapshot, PutSnapshot, Read, Check,
     CommitAt, Conflict, TruncHead, Reset, storage
<1>5. ASSUME NEW s \in Stores, Crash(s) \/ Stale(s) PROVE head' = head
  BY <1>5 DEF Crash, Stale, storage
<1>6. CASE UNCHANGED vars
  BY <1>1, <1>6 DEF vars, storage
<1> QED
  BY <1>1, <1>2, <1>3, <1>4, <1>5, <1>6 DEF Next

(* On the file engine HEAD never moves back. *)
THEOREM HeadOnlyAdvances == ASSUME Engine = "file" PROVE Spec => HeadMonotone
<1>1. TypeInv /\ HeadInv /\ [Next]_vars => HeadInv'
  BY HeadInvStep
<1>2. TypeInv /\ HeadInv /\ [Next]_vars => [head' >= head]_vars
  BY HeadStep
<1> QED
  BY TypeInvInit, TypeInvStep, HeadInvInit, <1>1, <1>2, PTL DEF Spec, HeadMonotone
----------------------------------------------------------------------------
(* Reads of a store with one thread. *)

(* What HEAD said at the call is not beyond the HEAD a load has read, nor, *)
(* once the load is over, beyond the ID the store's table is filed under.  *)
SeenInv ==
    \A t \in Threads :
        /\ seen[t] <= head
        /\ pc[t] \in {"compare", "getSnapshot", "open", "replay"} => seen[t] <= ld[t].hd
        /\ pc[t] \in {"truncSnapshot", "putSnapshot", "read"} => seen[t] <= at[S(t)]

LEMMA SeenInvInit == Init => SeenInv
  BY DEF Init, SeenInv

LEMMA SeenInvStep ==
  ASSUME TypeInv, HeadInv, SeenInv, [Next]_vars,
         \A t, u \in Threads : StoreOf[t] = StoreOf[u] => t = u
  PROVE  SeenInv'
<1>1. /\ head \in Nat /\ head' >= head /\ head' \in Nat
      /\ \A t \in Threads : seen[t] \in Nat /\ ld[t].hd \in Nat /\ at[S(t)] \in Nat /\ S(t) \in Stores
  <2>1. TypeInv'
    BY TypeInvStep
  <2> QED BY <2>1, HeadStep DEF TypeInv, TypeOK, Loads, S
<1>2. \A t \in Threads : seen[t] <= head'
  BY <1>1 DEF SeenInv
<1>3. ASSUME NEW t \in Threads,
             \A u \in Threads \ {t} : /\ pc'[u] = pc[u] /\ ld'[u] = ld[u] /\ seen'[u] = seen[u]
                                      /\ at'[S(u)] = at[S(u)],
             seen'[t] <= head',
             pc'[t] \in {"compare", "getSnapshot", "open", "replay"} => seen'[t] <= ld'[t].hd,
             pc'[t] \in {"truncSnapshot", "putSnapshot", "read"} => seen'[t] <= at'[S(t)]
      PROVE  SeenInv'
  BY <1>1, <1>3 DEF SeenInv, S
<1> USE DEF Go, Return, AfterLoad, TypeInv, TypeOK, storage, cache, locals
<1>4. ASSUME NEW t \in Threads, Start(t) PROVE SeenInv'
  BY <1>1, <1>3, <1>4 DEF Start
<1>5. ASSUME NEW t \in Threads, Return(t), UNCHANGED cache PROVE SeenInv'
  BY <1>1, <1>3, <1>5
<1>6. ASSUME NEW t \in Threads, NEW where, Go(t, where), UNCHANGED <<ld, seen, at>>,
             where \notin {"compare", "truncSnapshot", "putSnapshot", "read"},
             where \in {"getSnapshot", "open", "replay"} => seen[t] <= ld[t].hd
      PROVE  SeenInv'
  BY <1>1, <1>2, <1>3, <1>6
<1>7. ASSUME NEW t \in Threads, Peek(t) \/ ReadHead(t) \/ ReadHeadFails(t) PROVE SeenInv'
  <2>1. CASE ReadHead(t)
    <3>1. seen'[t] = seen[t] /\ ld'[t].hd = head /\ pc'[t] = "compare"
      BY <2>1 DEF ReadHead, Loads
    <3> QED BY <1>2, <1>3, <2>1, <3>1 DEF ReadHead, SeenInv
  <2>2. CASE Peek(t) /\ Go(t, "readHead")
    BY <1>6, <2>2 DEF Peek
  <2> QED BY <1>5, <1>7, <2>1, <2>2 DEF Peek, ReadHeadFails
<1>8. ASSUME NEW t \in Threads, Compare(t) PROVE SeenInv'
  BY <1>1, <1>3, <1>8, SMTT(30) DEF Compare, SeenInv
<1>9. ASSUME NEW t \in Threads, GetSnapshot(t) \/ OpenReader(t) \/ ReplayEntry(t) PROVE SeenInv'
  <2>1. /\ pc[t] \in {"getSnapshot", "open", "replay"} /\ pc'[t] \in {"open", "replay"}
        /\ UNCHANGED <<seen, at>> /\ \A u \in Threads \ {t} : pc'[u] = pc[u] /\ ld'[u] = ld[u]
    BY <1>9 DEF GetSnapshot, OpenReader, ReplayEntry
  <2>2. ld'[t].hd = ld[t].hd
    <3>1. CASE GetSnapshot(t)
      BY <3>1 DEF GetSnapshot, Loads
    <3>2. CASE OpenReader(t)
      BY <3>2 DEF OpenReader, Loads
    <3>3. CASE ReplayEntry(t)
      BY <3>3 DEF ReplayEntry, Loads
    <3> QED BY <1>9, <3>1, <3>2, <3>3
  <2> QED BY <1>2, <1>3, <2>1, <2>2 DEF SeenInv
<1>10. ASSUME NEW t \in Threads, ReplayFails(t) \/ Read(t) \/ StorageError(t) PROVE SeenInv'
  BY <1>5, <1>10 DEF ReplayFails, Read, StorageError
<1>11. ASSUME NEW t \in Threads, Publish(t) PROVE SeenInv'
  BY <1>1, <1>3, <1>11, SMTT(30) DEF Publish, SeenInv, S
<1>12. ASSUME NEW t \in Threads, TruncSnapshot(t) \/ PutSnapshot(t) PROVE SeenInv'
  BY <1>1, <1>3, <1>12, SMTT(30) DEF TruncSnapshot, PutSnapshot, SeenInv
<1>13. ASSUME NEW t \in Threads, Check(t) \/ CommitAt(t) \/ Conflict(t) PROVE SeenInv'
  <2>1. CASE CommitAt(t)
    BY <1>6, <2>1 DEF CommitAt
  <2>2. CASE Check(t)
    BY <1>5, <1>6, <2>2 DEF Check
  <2>3. CASE Conflict(t)
    BY <1>5, <1>6, <2>3 DEF Conflict
  <2> QED BY <1>13, <2>1, <2>2, <2>3
<1>14. ASSUME NEW t \in Threads, TruncHead(t) \/ WriteHead(t) PROVE SeenInv'
  BY <1>6, <1>14 DEF TruncHead, WriteHead
<1>15. ASSUME NEW t \in Threads, Reset(t) PROVE SeenInv'
  BY <1>1, <1>3, <1>15 DEF Reset, S
<1>16. ASSUME NEW s \in Stores, Crash(s) PROVE SeenInv'
  <2>1. \A t \in Threads :
          \/ pc'[t] = "idle" /\ seen'[t] = 0
          \/ /\ S(t) # s /\ pc'[t] = pc[t] /\ ld'[t] = ld[t] /\ seen'[t] = seen[t]
             /\ at'[S(t)] = at[S(t)]
    BY <1>1, <1>16 DEF Crash
  <2>2. \A t \in Threads : seen'[t] <= head'
    <3>1. 0 <= head'
      BY <1>1
    <3>2. \A t \in Threads : seen'[t] = 0 \/ seen'[t] = seen[t]
      BY <2>1
    <3> QED BY <1>2, <3>1, <3>2
  <2>3. \A t \in Threads : pc'[t] # "idle" =>
          /\ pc'[t] = pc[t] /\ ld'[t] = ld[t] /\ seen'[t] = seen[t] /\ at'[S(t)] = at[S(t)]
    BY <2>1
  <2> QED BY <2>2, <2>3 DEF SeenInv
<1>17. CASE UNCHANGED <<pc, ld, seen, at>>
  BY <1>1, <1>17 DEF SeenInv
<1>18. ASSUME NEW s \in Stores, Stale(s) PROVE SeenInv'
  BY <1>17, <1>18 DEF Stale
<1>19. ASSUME NEW t \in Threads, GetSnapshotFails(t) PROVE SeenInv'
  <2>1. /\ pc[t] = "getSnapshot" /\ pc'[t] = "open" /\ ld'[t].hd = ld[t].hd
        /\ UNCHANGED <<seen, at>> /\ \A u \in Threads \ {t} : pc'[u] = pc[u] /\ ld'[u] = ld[u]
    BY <1>19 DEF GetSnapshotFails, Loads
  <2> QED BY <1>2, <1>3, <2>1 DEF SeenInv
<1>20. ASSUME NEW t \in Threads, PutSnapshotFails(t) PROVE SeenInv'
  BY <1>1, <1>3, <1>20, SMTT(30) DEF PutSnapshotFails, SeenInv
<1> QED
  BY <1>4, <1>7, <1>8, <1>9, <1>10, <1>11, <1>12, <1>13, <1>14, <1>15, <1>16, <1>17, <1>18,
     <1>19, <1>20
  DEF Next, Step, vars

(* On the file engine a process whose store is called by one goroutine at  *)
(* a time reads nothing older than what HEAD said when it called, whatever *)
(* other processes commit, snapshot and truncate meanwhile.  Goroutines    *)
(* that share a store can overwrite its table with an older one between a  *)
(* load and its read, so the theorem asks for one per store.               *)
THEOREM ReadsAreFresh ==
  ASSUME Engine = "file", \A t, u \in Threads : StoreOf[t] = StoreOf[u] => t = u
  PROVE  Spec => ReadsFresh
<1>1. TypeInv /\ HeadInv /\ [Next]_vars => HeadInv'
  BY HeadInvStep
<1>2. TypeInv /\ TypeInv' /\ LabelInv /\ [Next]_vars => LabelInv'
  BY LabelInvStep
<1>3. TypeInv /\ HeadInv /\ SeenInv /\ [Next]_vars => SeenInv'
  BY SeenInvStep
<1>4. ASSUME TypeInv, LabelInv, SeenInv, NEW t \in Threads, Read(t)
      PROVE  NotOlder(table[S(t)], seen[t])
  <2>1. seen[t] <= at[S(t)] /\ S(t) \in Stores
    BY <1>4 DEF Read, SeenInv, S
  <2>2. NotOlder(table[S(t)], at[S(t)])
    BY <1>4, <2>1 DEF LabelInv, LabelsNotAhead
  <2>3. seen[t] \in Nat /\ at[S(t)] \in Nat /\ hist \in Seq(Tables)
    BY <1>4, <2>1 DEF TypeInv, TypeOK
  <2> QED BY <2>1, <2>2, <2>3, NotOlderWeaken DEF NotOlder
<1>5. TypeInv /\ LabelInv /\ SeenInv =>
        [\A t \in Threads : Read(t) => NotOlder(table[S(t)], seen[t])]_vars
  BY <1>4
<1> QED
  BY TypeInvInit, TypeInvStep, LabelInvInit, HeadInvInit, SeenInvInit, <1>1, <1>2, <1>3, <1>5, PTL
  DEF Spec, ReadsFresh
============================================================================
