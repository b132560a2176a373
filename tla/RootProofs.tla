----------------------------- MODULE RootProofs -----------------------------
(***************************************************************************)
(* Theorems about the lake's root, for any number of processes, names and  *)
(* pools, any number of faults and listings, and clients that create the   *)
(* lake again and rename pools whenever they like.                         *)
(***************************************************************************)
EXTENDS Root, FiniteSetTheorems, TLAPS

USE NoValAssumption, RootAssumption

----------------------------------------------------------------------------
(* The inductive invariant. *)

Creating == {"createStore", "createMain", "open", "add"}
Holding  == Creating \cup {"delete", "move", "purge"}
Founding == {"createConfig", "writeMagic"}
PCs      == Holding \cup Founding \cup {"down", "idle", "list", "failed"}

Locals == [pc : PCs, id : Vals \cup {NoVal}, name : Keys \cup {NoVal},
           to : Keys \cup {NoVal}, list : SUBSET Vals, ahead : BOOLEAN]

(* Every variable has the type the code gives it, and a process that works *)
(* on a pool knows its ID and the names it needs.                          *)
TypeInv ==
    /\ magic \in BOOLEAN /\ log \in {"empty", "live", "reset"}
    /\ pools \in Tables
    /\ files \in [Vals -> {"none", "store", "full"}]
    /\ cache \in [Procs -> SUBSET Vals]
    /\ proc \in [Procs -> Locals]
    /\ used \subseteq Vals /\ lost \subseteq Vals /\ crossed \subseteq Vals
    /\ faults \in Nat /\ lists \in Nat
    /\ \A p \in Procs :
         /\ proc[p].pc \in Holding => proc[p].id \in used
         /\ proc[p].pc \in Creating \cup {"delete", "move"} => proc[p].name \in Keys
         /\ proc[p].pc = "move" => proc[p].to \in Keys

(* Until lake.zng is there the pools store is empty and nobody has opened  *)
(* the lake.                                                               *)
FoundingInv ==
    ~magic => /\ pools = EmptyTable
              /\ \A p \in Procs : proc[p].pc \in Founding \cup {"down"}

(* A pool that is being created belongs to its creator: it is not listed   *)
(* and nobody else works on it.                                            *)
CreatorInv ==
    \A p \in Procs : proc[p].pc \in Creating =>
        /\ \A n \in Keys : pools[n] # proc[p].id
        /\ \A q \in Procs : proc[q].pc \in Holding /\ proc[q].id = proc[p].id => q = p
        /\ proc[p].pc \in {"open", "add"} => files[proc[p].id] = "full"

(* Listed pools were generated, are complete, and have one name; what is   *)
(* being purged is not listed.  The exceptions are lost replies, which     *)
(* purge what is listed, and late renames, which give a pool a second name *)
(* or a pool that was removed its entry back.                              *)
ListedInv ==
    /\ \A n \in Keys : pools[n] # NoVal =>
         /\ pools[n] \in used
         /\ files[pools[n]] = "full" \/ pools[n] \in lost \cup crossed
         /\ pools[n] \in crossed \/ \A m \in Keys : pools[m] = pools[n] => m = n
    /\ \A p \in Procs : proc[p].pc = "purge" =>
         proc[p].id \in lost \cup crossed \/ \A n \in Keys : pools[n] # proc[p].id

(* Without faults the files of a pool that is not listed are in the hands  *)
(* of a process that creates or purges it, unless a late rename took its   *)
(* entry.                                                                  *)
OrphanInv ==
    faults = 0 =>
        /\ lost = {}
        /\ \A id \in Vals \ crossed : files[id] # "none" =>
             \/ \E n \in Keys : pools[n] = id
             \/ \E p \in Procs : /\ proc[p].pc \in {"createMain", "open", "add", "purge"}
                                 /\ proc[p].id = id

IInv == TypeInv /\ FoundingInv /\ CreatorInv /\ ListedInv /\ OrphanInv

----------------------------------------------------------------------------
(* What the operations of the pools store check and do. *)

LEMMA AddEffect ==
  ASSUME TypeInv, NEW p \in Procs, At(p, "add")
  PROVE  /\ CheckOK(pools, StoreOp(p)) <=> pools[proc[p].name] = NoVal
         /\ Apply(pools, StoreOp(p)) =
              [k \in Keys |-> IF k = proc[p].name THEN proc[p].id ELSE pools[k]]
<1>1. StoreOp(p) = [kind |-> "Insert", key |-> proc[p].name, newKey |-> proc[p].name,
                    val |-> proc[p].id, expect |-> NoVal]
  BY DEF StoreOp, At
<1> QED
  BY <1>1 DEF CheckOK, Apply, Touches, Written, TypeInv, Tables

LEMMA DeleteEffect ==
  ASSUME TypeInv, NEW p \in Procs, At(p, "delete")
  PROVE  /\ CheckOK(pools, StoreOp(p)) <=> pools[proc[p].name] = proc[p].id
         /\ Apply(pools, StoreOp(p)) =
              [k \in Keys |-> IF k = proc[p].name THEN NoVal ELSE pools[k]]
<1>1. StoreOp(p) = [kind |-> "Delete", key |-> proc[p].name, newKey |-> proc[p].name,
                    val |-> proc[p].id, expect |-> proc[p].id]
  BY DEF StoreOp, At
<1>2. proc[p].id # NoVal /\ proc[p].name \in Keys
  BY DEF TypeInv, At, Holding, Creating
<1> QED
  BY <1>1, <1>2 DEF CheckOK, Apply, Touches, Written, TypeInv, Tables

LEMMA MoveEffect ==
  ASSUME TypeInv, NEW p \in Procs, At(p, "move")
  PROVE  /\ CheckOK(pools, StoreOp(p)) <=>
              pools[proc[p].name] # NoVal /\ pools[proc[p].to] = NoVal
         /\ Apply(pools, StoreOp(p)) =
              [k \in Keys |-> IF k = proc[p].to THEN proc[p].id
                               ELSE IF k = proc[p].name THEN NoVal ELSE pools[k]]
<1>1. StoreOp(p) = [kind |-> "Move", key |-> proc[p].name, newKey |-> proc[p].to,
                    val |-> proc[p].id, expect |-> NoVal]
  BY DEF StoreOp, At
<1> QED
  BY <1>1 DEF CheckOK, Apply, Touches, Written, TypeInv, Tables

LEMMA InitInv == Init => IInv
<1> SUFFICES ASSUME Init PROVE IInv
  OBVIOUS
<1>1. Down \in Locals
  BY DEF Down, Locals, PCs
<1>2. \A p \in Procs : proc[p].pc = "down"
  BY DEF Init, Down
<1>3. TypeInv
  BY <1>1, <1>2 DEF Init, TypeInv, EmptyTable, Tables, Holding, Creating
<1> QED
  BY <1>2, <1>3 DEF Init, IInv, FoundingInv, CreatorInv, ListedInv, OrphanInv,
     EmptyTable, Holding, Creating, Founding

(* How a step moves the process that takes it. *)
LEMMA GotoEffect ==
  ASSUME TypeInv, NEW p \in Procs, NEW where \in PCs, Goto(p, where)
  PROVE  /\ proc' \in [Procs -> Locals]
         /\ \A q \in Procs \ {p} : proc'[q] = proc[q]
         /\ proc'[p].pc = where /\ proc'[p].id = proc[p].id
         /\ proc'[p].name = proc[p].name /\ proc'[p].to = proc[p].to
  BY DEF TypeInv, Goto, Locals

LEMMA BecomeEffect ==
  ASSUME TypeInv, NEW p \in Procs, NEW r \in Locals, proc' = [proc EXCEPT ![p] = r]
  PROVE  /\ proc' \in [Procs -> Locals]
         /\ \A q \in Procs \ {p} : proc'[q] = proc[q]
         /\ proc'[p] = r
  BY DEF TypeInv

LEMMA IdleType == /\ Idle \in Locals /\ Idle.pc = "idle"
                  /\ Down \in Locals /\ Down.pc = "down"
  BY DEF Idle, Down, Locals, PCs

(* A process that leaves what it was doing without having changed anything *)
(* keeps the invariant, unless it leaves files behind without a fault.     *)
LEMMA Leave ==
  ASSUME IInv, NEW p \in Procs, UNCHANGED <<magic, log, pools, files, used, lost, crossed>>,
         cache' \in [Procs -> SUBSET Vals], lists' \in Nat, faults' \in Nat, faults' >= faults,
         proc' \in [Procs -> Locals], \A q \in Procs \ {p} : proc'[q] = proc[q],
         proc'[p].pc \in {"idle", "down", "list", "failed"},
         proc'[p].pc = "down" \/ magic,
         proc[p].pc \in {"createMain", "open", "add", "purge"} => faults' > 0
  PROVE  IInv'
<1> USE DEF IInv, Holding, Creating, Founding
<1>1. TypeInv'
  BY DEF TypeInv
<1>2. FoundingInv'
  BY DEF FoundingInv
<1>3. CreatorInv'
  BY DEF CreatorInv
<1>5. ListedInv'
  BY DEF ListedInv
<1>6. OrphanInv'
  BY DEF OrphanInv, TypeInv
<1> QED BY <1>1, <1>2, <1>3, <1>5, <1>6

(* The committed operations of the pools store, however they are reported. *)
LEMMA Held ==
  ASSUME TypeInv
  PROVE  \A q \in Procs : /\ proc[q].pc \in Holding => proc[q].id \in Vals
                          /\ proc[q].pc = "move" => proc[q].name \in Keys
  BY DEF TypeInv

LEMMA Added ==
  ASSUME IInv, NEW p \in Procs, At(p, "add"), Commit(p),
         UNCHANGED <<magic, files, used, crossed>>,
         cache' = cache, lists' = lists, proc' \in [Procs -> Locals],
         \A q \in Procs \ {p} : proc'[q] = proc[q],
         \/ proc'[p].pc = "idle" /\ lost' = lost /\ faults' = faults
         \/ /\ proc'[p].pc = "purge" /\ proc'[p].id = proc[p].id
            /\ lost' = lost \cup {proc[p].id} /\ faults' = faults + 1
  PROVE  IInv'
<1> USE DEF IInv, Holding, Creating, Founding, At
<1>1. /\ proc[p].id \in Vals /\ proc[p].name \in Keys /\ pools[proc[p].name] = NoVal
      /\ pools' = [k \in Keys |-> IF k = proc[p].name THEN proc[p].id ELSE pools[k]]
  BY AddEffect DEF TypeInv, Commit
<1>2. log' = "live" /\ \A n \in Keys : pools[n] # proc[p].id
  BY DEF CreatorInv, Commit
<1>3. TypeInv'
  BY <1>1, <1>2 DEF TypeInv, Tables
<1>4. FoundingInv'
  BY DEF FoundingInv
<1>5. CreatorInv'
  BY <1>1, Held DEF CreatorInv
<1>7. ListedInv'
  BY <1>1, <1>2 DEF ListedInv, CreatorInv, TypeInv
<1>8. OrphanInv'
  BY <1>1 DEF OrphanInv, TypeInv
<1> QED BY <1>3, <1>4, <1>5, <1>7, <1>8

LEMMA Deleted ==
  ASSUME IInv, NEW p \in Procs, At(p, "delete"), Commit(p),
         UNCHANGED <<magic, files, used, lost, crossed>>,
         cache' \in [Procs -> SUBSET Vals], lists' = lists, proc' \in [Procs -> Locals],
         \A q \in Procs \ {p} : proc'[q] = proc[q],
         \/ proc'[p].pc = "purge" /\ proc'[p].id = proc[p].id /\ faults' = faults
         \/ proc'[p].pc = "idle" /\ faults' = faults + 1
  PROVE  IInv'
<1> USE DEF IInv, Holding, Creating, Founding, At
<1>1. /\ proc[p].id \in Vals /\ proc[p].name \in Keys /\ pools[proc[p].name] = proc[p].id
      /\ pools' = [k \in Keys |-> IF k = proc[p].name THEN NoVal ELSE pools[k]]
  BY DeleteEffect DEF TypeInv, Commit
<1>2. proc[p].id \in crossed \/ \A n \in Keys : pools'[n] # proc[p].id
  BY <1>1 DEF ListedInv
<1>3. TypeInv'
  BY <1>1 DEF TypeInv, Tables, Commit
<1>4. FoundingInv'
  BY DEF FoundingInv
<1>5. CreatorInv'
  BY <1>1, Held DEF CreatorInv
<1>7. ListedInv'
  BY <1>1, <1>2, Held DEF ListedInv
<1>8. OrphanInv'
  BY <1>1 DEF OrphanInv, TypeInv
<1> QED BY <1>3, <1>4, <1>5, <1>7, <1>8

LEMMA Moved ==
  ASSUME IInv, NEW p \in Procs, At(p, "move"), Commit(p),
         UNCHANGED <<magic, files, used, lost>>, crossed' = crossed \cup LateMove(p),
         cache' = cache, lists' = lists, faults' \in Nat, faults' >= faults,
         proc' \in [Procs -> Locals],
         \A q \in Procs \ {p} : proc'[q] = proc[q],
         proc'[p].pc = "idle"
  PROVE  IInv'
<1> USE DEF IInv, Holding, Creating, Founding, At
<1>1. /\ proc[p].id \in Vals /\ proc[p].name \in Keys /\ proc[p].to \in Keys
      /\ pools[proc[p].name] \in Vals /\ pools[proc[p].to] = NoVal
      /\ pools' = [k \in Keys |-> IF k = proc[p].to THEN proc[p].id
                                  ELSE IF k = proc[p].name THEN NoVal ELSE pools[k]]
      /\ log' = "live"
  BY MoveEffect DEF TypeInv, Commit, Tables
<1>2. /\ crossed \subseteq crossed' /\ crossed' \subseteq Vals
      /\ \/ pools[proc[p].name] = proc[p].id
         \/ proc[p].id \in crossed' /\ pools[proc[p].name] \in crossed'
  BY <1>1 DEF LateMove, TypeInv
<1>3. TypeInv'
  BY <1>1, <1>2 DEF TypeInv, Tables
<1>4. FoundingInv'
  BY DEF FoundingInv
<1>5. CreatorInv'
  BY <1>1, Held DEF CreatorInv
<1>6. proc[p].id \in used
  BY DEF TypeInv
<1>7. ListedInv'
  <2>1. ASSUME NEW k \in Keys, pools'[k] # NoVal
        PROVE  /\ pools'[k] \in used'
               /\ files'[pools'[k]] = "full" \/ pools'[k] \in lost' \cup crossed'
               /\ pools'[k] \in crossed' \/ \A m \in Keys : pools'[m] = pools'[k] => m = k
    <3>1. CASE k = proc[p].to
      BY <1>1, <1>2, <1>6, <2>1, <3>1 DEF ListedInv
    <3>2. CASE k # proc[p].to
      BY <1>1, <1>2, <2>1, <3>2 DEF ListedInv
    <3> QED BY <3>1, <3>2
  <2>2. ASSUME NEW q \in Procs, proc'[q].pc = "purge"
        PROVE  \/ proc'[q].id \in lost' \cup crossed'
               \/ \A n \in Keys : pools'[n] # proc'[q].id
    BY <1>1, <1>2, <2>2, Held DEF ListedInv
  <2> QED BY <2>1, <2>2 DEF ListedInv
<1>8. OrphanInv'
  <2>1. ASSUME faults' = 0 PROVE faults = 0 /\ lost = {}
    BY <2>1 DEF OrphanInv, TypeInv
  <2>2. ASSUME faults' = 0, NEW id \in Vals \ crossed', files'[id] # "none"
        PROVE  \/ \E n \in Keys : pools'[n] = id
               \/ \E q \in Procs : /\ proc'[q].pc \in {"createMain", "open", "add", "purge"}
                                   /\ proc'[q].id = id
    <3>1. CASE \E q \in Procs : /\ proc[q].pc \in {"createMain", "open", "add", "purge"}
                                /\ proc[q].id = id
      BY <3>1
    <3>2. CASE \E n \in Keys : pools[n] = id
      <4>1. PICK n \in Keys : pools[n] = id
        BY <3>2
      <4>2. CASE n = proc[p].name
        <5>1. pools'[proc[p].to] = id
          BY <1>1, <1>2, <2>2, <4>1, <4>2
        <5> QED BY <1>1, <5>1
      <4>3. CASE n # proc[p].name
        <5>1. pools'[n] = id
          BY <1>1, <2>2, <4>1, <4>3, NoValAssumption
        <5> QED BY <5>1
      <4> QED BY <4>2, <4>3
    <3> QED BY <1>2, <2>1, <2>2, <3>1, <3>2 DEF OrphanInv
  <2> QED BY <2>1, <2>2 DEF OrphanInv
<1> QED BY <1>3, <1>4, <1>5, <1>7, <1>8

(* A creation that cannot go on removes its files. *)
LEMMA GivesUp ==
  ASSUME IInv, NEW p \in Procs, proc[p].pc \in {"open", "add"}, Goto(p, "purge"),
         UNCHANGED <<magic, log, pools, files, cache, used, lost, crossed, lists>>,
         faults' \in Nat, faults' >= faults
  PROVE  IInv'
<1> USE DEF IInv, Holding, Creating, Founding
<1>1. /\ proc' \in [Procs -> Locals] /\ \A q \in Procs \ {p} : proc'[q] = proc[q]
      /\ proc'[p].pc = "purge" /\ proc'[p].id = proc[p].id
  BY GotoEffect DEF PCs
<1>2. TypeInv'
  BY <1>1 DEF TypeInv
<1>3. FoundingInv' /\ CreatorInv'
  BY <1>1 DEF FoundingInv, CreatorInv
<1>4. ListedInv'
  BY <1>1 DEF ListedInv, CreatorInv
<1>5. OrphanInv'
  BY <1>1 DEF OrphanInv, TypeInv
<1> QED BY <1>2, <1>3, <1>4, <1>5

(* A process that has no pool in hand, before and after a step.            *)
LEMMA NotHolding ==
  ASSUME IInv, NEW p \in Procs,
         UNCHANGED <<log, pools, files, cache, used, lost, crossed, faults, lists>>,
         magic' \in BOOLEAN, magic => magic',
         proc' \in [Procs -> Locals], \A q \in Procs \ {p} : proc'[q] = proc[q],
         proc[p].pc \in Founding \cup {"down"},
         proc'[p].pc \in Founding \cup {"idle", "down"}, proc'[p].pc = "idle" => magic'
  PROVE  IInv'
<1> USE DEF IInv, Holding, Creating, Founding
<1>1. TypeInv'
  BY DEF TypeInv
<1>2. FoundingInv'
  BY DEF FoundingInv, TypeInv
<1>3. CreatorInv'
  BY DEF CreatorInv
<1>4. ListedInv'
  BY DEF ListedInv
<1>5. OrphanInv'
  BY DEF OrphanInv
<1> QED BY <1>1, <1>2, <1>3, <1>4, <1>5

(* The steps of creating the lake, once or again. *)
LEMMA FoundingSteps ==
  ASSUME IInv, NEW p \in Procs,
         LoadConfig(p) \/ Create(p) \/ CreateConfig(p) \/ WriteLakeMagic(p)
  PROVE  IInv'
<1> USE DEF IInv, Holding, Creating, Founding, At
<1>1. /\ faults \in Nat /\ lists \in Nat /\ cache \in [Procs -> SUBSET Vals]
      /\ proc \in [Procs -> Locals] /\ log \in {"empty", "live", "reset"}
  BY DEF TypeInv
<1>2. CASE LoadConfig(p)
  <2>1. /\ proc' \in [Procs -> Locals] /\ \A q \in Procs \ {p} : proc'[q] = proc[q]
        /\ proc'[p].pc = "idle" /\ proc[p].pc = "down"
    BY <1>2, GotoEffect DEF LoadConfig, PCs
  <2> QED BY <1>1, <1>2, <2>1, Leave DEF LoadConfig
<1>3. CASE Create(p) \/ WriteLakeMagic(p)
  <2>1. PICK where \in Founding \cup {"idle", "down"} :
          Goto(p, where) /\ (where = "idle" => magic')
    BY <1>3 DEF Create, WriteLakeMagic
  <2>2. /\ proc' \in [Procs -> Locals] /\ \A q \in Procs \ {p} : proc'[q] = proc[q]
        /\ proc'[p].pc = where
    BY <2>1, GotoEffect DEF PCs
  <2>3. /\ UNCHANGED <<log, pools, files, cache, used, lost, crossed, faults, lists>>
        /\ magic' \in BOOLEAN /\ (magic => magic')
        /\ proc[p].pc \in Founding \cup {"down"}
    BY <1>3 DEF Create, WriteLakeMagic, TypeInv
  <2> QED BY <2>1, <2>2, <2>3, NotHolding
<1>4. CASE CreateConfig(p)
  <2>1. /\ proc' \in [Procs -> Locals] /\ proc'[p].pc = "writeMagic"
        /\ proc[p].pc = "createConfig"
        /\ \A q \in Procs : /\ q # p => proc'[q].pc = proc[q].pc
                            /\ proc'[q].id = proc[q].id
                            /\ proc'[q].name = proc[q].name /\ proc'[q].to = proc[q].to
    <3>1. "writeMagic" \in PCs /\ TRUE \in BOOLEAN
      BY DEF PCs
    <3>2. \A q \in Procs : /\ [proc[q] EXCEPT !.pc = "writeMagic"] \in Locals
                          /\ [proc[q] EXCEPT !.ahead = TRUE] \in Locals
      BY <1>1, <3>1 DEF Locals
    <3>3. proc' \in [Procs -> Locals]
      BY <1>1, <1>4, <3>2 DEF CreateConfig
    <3> QED BY <1>1, <1>4, <3>3 DEF CreateConfig, Locals
  <2>2. /\ UNCHANGED <<magic, pools, files, cache, used, lost, crossed, faults, lists>>
        /\ log' \in {"empty", "live", "reset"} /\ (log = "empty" => log' = "empty")
    BY <1>1, <1>4 DEF CreateConfig
  <2>3. TypeInv'
    BY <2>1, <2>2 DEF TypeInv
  <2>4. FoundingInv'
    BY <2>1, <2>2 DEF FoundingInv
  <2>5. CreatorInv'
    BY <2>1, <2>2 DEF CreatorInv
  <2>6. ListedInv'
    BY <2>1, <2>2 DEF ListedInv
  <2>7. OrphanInv'
    BY <2>1, <2>2 DEF OrphanInv
  <2> QED BY <2>3, <2>4, <2>5, <2>6, <2>7
<1> QED BY <1>2, <1>3, <1>4

(* Root.CreatePool: up to the Add, the pool is its creator's. *)
LEMMA CreatePoolStep ==
  ASSUME IInv, NEW p \in Procs, NEW n \in Keys, NEW id \in Vals,
         CreatePool(p, n, id)
  PROVE  IInv'
<1> DEFINE r == [Idle EXCEPT !.pc = "createStore", !.id = id, !.name = n]
<1> USE DEF IInv, Holding, Creating, Founding, At
<1>1. r \in Locals /\ r.pc = "createStore" /\ r.id = id /\ r.name = n
  BY IdleType DEF Locals, PCs
<1>2. proc' = [proc EXCEPT ![p] = r]
  BY DEF CreatePool
<1> HIDE DEF r
<1>3. /\ proc' \in [Procs -> Locals] /\ \A q \in Procs \ {p} : proc'[q] = proc[q]
      /\ proc'[p] = r
  BY <1>1, <1>2, BecomeEffect
<1>4. /\ UNCHANGED <<magic, log, pools, files, cache, lost, crossed, faults, lists>>
      /\ used' = used \cup {id} /\ id \notin used /\ proc[p].pc = "idle"
  BY DEF CreatePool
<1>5. TypeInv'
  BY <1>1, <1>3, <1>4 DEF TypeInv
<1>6. FoundingInv'
  BY <1>1, <1>3, <1>4 DEF FoundingInv
<1>7. CreatorInv'
  BY <1>1, <1>3, <1>4 DEF CreatorInv, ListedInv, TypeInv
<1>9. ListedInv' /\ OrphanInv'
  BY <1>1, <1>3, <1>4 DEF ListedInv, OrphanInv
<1> QED BY <1>5, <1>6, <1>7, <1>9

LEMMA CreatingSteps ==
  ASSUME IInv, NEW p \in Procs, CreateStore(p) \/ CreateMain(p) \/ OpenNew(p)
  PROVE  IInv'
<1> USE DEF IInv, Holding, Creating, Founding, At
<1>1. PICK where \in {"createMain", "open", "add"} : Goto(p, where)
  BY DEF CreateStore, CreateMain, OpenNew
<1>2. /\ proc' \in [Procs -> Locals] /\ \A q \in Procs \ {p} : proc'[q] = proc[q]
      /\ proc'[p].pc = where /\ proc'[p].id = proc[p].id /\ proc'[p].name = proc[p].name
  BY <1>1, GotoEffect DEF PCs
<1>3. /\ UNCHANGED <<magic, log, pools, used, lost, crossed, faults, lists>>
      /\ proc[p].pc \in Creating
      /\ proc[p].id \in Vals
  BY DEF CreateStore, CreateMain, OpenNew, TypeInv
<1>4. /\ files' \in [Vals -> {"none", "store", "full"}]
      /\ \A id \in Vals \ {proc[p].id} : files'[id] = files[id]
      /\ files'[proc[p].id] # "none"
      /\ where \in {"open", "add"} => files'[proc[p].id] = "full"
  <2>1. CASE CreateStore(p)
    BY <1>2, <1>3, <2>1 DEF CreateStore, TypeInv, Goto
  <2>2. CASE CreateMain(p)
    BY <1>3, <2>2 DEF CreateMain, TypeInv
  <2>3. CASE OpenNew(p)
    BY <1>3, <2>3 DEF OpenNew, TypeInv, CreatorInv
  <2> QED BY <2>1, <2>2, <2>3
<1>5. TypeInv'
  <2>1. cache' \in [Procs -> SUBSET Vals]
    BY <1>3 DEF CreateStore, CreateMain, OpenNew, TypeInv
  <2> QED BY <1>2, <1>3, <1>4, <2>1 DEF TypeInv
<1>6. FoundingInv'
  BY <1>2, <1>3 DEF FoundingInv
<1>7. CreatorInv'
  BY <1>2, <1>3, <1>4, Held DEF CreatorInv
<1>9. ListedInv'
  BY <1>2, <1>3, <1>4 DEF ListedInv, CreatorInv, TypeInv, Tables
<1>10. OrphanInv'
  BY <1>2, <1>3, <1>4 DEF OrphanInv
<1> QED BY <1>5, <1>6, <1>7, <1>9, <1>10

(* Root.RemovePool and Root.RenamePool: the lookup of the pool's name. *)
LEMMA LookupSteps ==
  ASSUME IInv, NEW p \in Procs, NEW id \in Vals, NEW to \in Keys,
         RemovePool(p, id) \/ RenamePool(p, id, to)
  PROVE  IInv'
<1> USE DEF IInv, Holding, Creating, Founding, At
<1>1. PICK n \in Keys, r \in Locals :
        /\ pools[n] = id /\ proc' = [proc EXCEPT ![p] = r]
        /\ r.id = id /\ r.name = n
        /\ \/ r.pc = "delete"
           \/ r.pc = "move" /\ r.to = to
  <2>1. CASE RemovePool(p, id)
    <3>1. PICK n \in SeenNames(id) :
            proc' = [proc EXCEPT ![p] = [Idle EXCEPT !.pc = "delete", !.id = id, !.name = n]]
      BY <2>1 DEF RemovePool
    <3>2. n \in Keys /\ pools[n] = id
      BY <3>1 DEF SeenNames, Seen, EmptyTable
    <3> DEFINE r == [Idle EXCEPT !.pc = "delete", !.id = id, !.name = n]
    <3>3. r \in Locals /\ r.id = id /\ r.name = n /\ r.pc = "delete"
      BY <3>2, IdleType DEF Locals, PCs
    <3> QED BY <3>1, <3>2, <3>3
  <2>2. CASE RenamePool(p, id, to)
    <3>1. PICK n \in SeenNames(id) :
            proc' = [proc EXCEPT ![p] =
                       [Idle EXCEPT !.pc = "move", !.id = id, !.name = n, !.to = to]]
      BY <2>2 DEF RenamePool
    <3>2. n \in Keys /\ pools[n] = id
      BY <3>1 DEF SeenNames, Seen, EmptyTable
    <3> DEFINE r == [Idle EXCEPT !.pc = "move", !.id = id, !.name = n, !.to = to]
    <3>3. r \in Locals /\ r.id = id /\ r.name = n /\ r.pc = "move" /\ r.to = to
      BY <3>2, IdleType DEF Locals, PCs
    <3> QED BY <3>1, <3>2, <3>3
  <2> QED BY <2>1, <2>2
<1>2. /\ proc' \in [Procs -> Locals] /\ \A q \in Procs \ {p} : proc'[q] = proc[q]
      /\ proc'[p] = r
  BY <1>1, BecomeEffect
<1>3. /\ UNCHANGED <<magic, log, pools, files, cache, used, lost, crossed, faults, lists>>
      /\ proc[p].pc = "idle"
  BY DEF RemovePool, RenamePool
<1>4. id \in used /\ id # NoVal
  BY <1>1 DEF ListedInv
<1>5. TypeInv'
  BY <1>1, <1>2, <1>3, <1>4 DEF TypeInv
<1>6. FoundingInv'
  BY <1>1, <1>2, <1>3 DEF FoundingInv
<1>7. CreatorInv'
  BY <1>1, <1>2, <1>3 DEF CreatorInv
<1>9. ListedInv' /\ OrphanInv'
  BY <1>1, <1>2, <1>3 DEF ListedInv, OrphanInv
<1> QED BY <1>5, <1>6, <1>7, <1>9

(* DeleteByPrefix touches the files of a pool that is not listed. *)
LEMMA PurgeStep ==
  ASSUME IInv, NEW p \in Procs, Purge(p)
  PROVE  IInv'
<1> USE DEF IInv, Holding, Creating, Founding, At
<1>1. /\ proc[p].pc = "purge" /\ proc[p].id \in Vals
      /\ UNCHANGED <<magic, log, pools, cache, used, lost, crossed, faults, lists>>
  BY DEF Purge, TypeInv
<1>2. /\ files' \in [Vals -> {"none", "store", "full"}]
      /\ \A id \in Vals \ {proc[p].id} : files'[id] = files[id]
      /\ \/ proc' = proc
         \/ proc' = [proc EXCEPT ![p] = Idle] /\ files'[proc[p].id] = "none"
  BY <1>1 DEF Purge, TypeInv, Return
<1>3. /\ proc' \in [Procs -> Locals] /\ \A q \in Procs \ {p} : proc'[q] = proc[q]
      /\ \/ proc'[p] = proc[p]
         \/ proc'[p].pc = "idle" /\ files'[proc[p].id] = "none"
  BY <1>2, BecomeEffect, IdleType DEF TypeInv
<1>4. TypeInv'
  BY <1>1, <1>2, <1>3 DEF TypeInv
<1>5. FoundingInv'
  BY <1>1, <1>3 DEF FoundingInv
<1>6. CreatorInv'
  BY <1>1, <1>2, <1>3, Held DEF CreatorInv
<1>8. ListedInv'
  BY <1>1, <1>2, <1>3 DEF ListedInv, TypeInv, Tables
<1>9. OrphanInv'
  BY <1>1, <1>2, <1>3 DEF OrphanInv
<1> QED BY <1>4, <1>5, <1>6, <1>8, <1>9

(* The operations of the pools store, and listings. *)
LEMMA StoreSteps ==
  ASSUME IInv, NEW p \in Procs,
         \/ AddPool(p) \/ DeletePool(p) \/ MovePool(p) \/ ListBranches(p)
         \/ ListNext(p) \/ ListFailed(p)
  PROVE  IInv'
<1> USE DEF IInv, Founding, At
<1>1. /\ magic /\ faults \in Nat /\ lists \in Nat /\ cache \in [Procs -> SUBSET Vals]
      /\ proc \in [Procs -> Locals]
  BY DEF AddPool, DeletePool, MovePool, ListBranches, ListNext, ListFailed, FoundingInv, TypeInv
<1>2. Return(p) => /\ proc' \in [Procs -> Locals] /\ \A q \in Procs \ {p} : proc'[q] = proc[q]
                   /\ proc'[p].pc = "idle"
  BY BecomeEffect, IdleType DEF Return
<1>3. CASE AddPool(p)
  <2>1. CASE Commit(p) /\ Return(p)
    BY <1>2, <1>3, <2>1, Added DEF AddPool
  <2>2. CASE Goto(p, "purge") /\ Refused(p)
    BY <1>1, <1>3, <2>2, GivesUp DEF AddPool, Refused
  <2> QED BY <1>3, <2>1, <2>2 DEF AddPool
<1>4. CASE DeletePool(p)
  <2>1. CASE Commit(p) /\ Goto(p, "purge") /\ cache' = [cache EXCEPT ![p] = @ \ {proc[p].id}]
    <3>1. cache' \in [Procs -> SUBSET Vals]
      BY <1>1, <2>1
    <3>2. /\ proc' \in [Procs -> Locals] /\ \A q \in Procs \ {p} : proc'[q] = proc[q]
          /\ proc'[p].pc = "purge" /\ proc'[p].id = proc[p].id
      BY <2>1, GotoEffect DEF PCs, Holding
    <3> QED BY <1>4, <2>1, <3>1, <3>2, Deleted DEF DeletePool
  <2>2. CASE Return(p) /\ Refused(p) /\ UNCHANGED cache
    BY <1>1, <1>2, <1>4, <2>2, Leave DEF DeletePool, Refused
  <2> QED BY <1>4, <2>1, <2>2 DEF DeletePool
<1>5. CASE MovePool(p)
  <2>1. CASE Commit(p) /\ crossed' = crossed \cup LateMove(p)
    BY <1>1, <1>2, <1>5, <2>1, Moved DEF MovePool
  <2>2. CASE Refused(p) /\ UNCHANGED crossed
    BY <1>1, <1>2, <1>5, <2>2, Leave DEF MovePool, Refused
  <2> QED BY <1>5, <2>1, <2>2 DEF MovePool
<1>6. CASE ListBranches(p)
  <2> DEFINE seen == {id \in Vals : SeenNames(id) # {}}
               r == [Idle EXCEPT !.pc = "list", !.list = seen]
  <2>1. r \in Locals /\ r.pc = "list"
    <3>1. seen \in SUBSET Vals
      OBVIOUS
    <3> QED BY <3>1, IdleType DEF Locals, PCs
  <2>2. proc' = [proc EXCEPT ![p] = r] /\ lists' \in Nat
    BY <1>1, <1>6 DEF ListBranches
  <2> HIDE DEF r
  <2>3. /\ proc' \in [Procs -> Locals] /\ \A q \in Procs \ {p} : proc'[q] = proc[q]
        /\ proc'[p].pc = "list"
    BY <2>1, <2>2, BecomeEffect
  <2>4. /\ UNCHANGED <<magic, log, pools, files, used, lost, crossed, cache, faults>>
        /\ proc[p].pc = "idle"
    BY <1>6 DEF ListBranches
  <2> QED BY <1>1, <2>2, <2>3, <2>4, Leave
<1>7. CASE ListNext(p) \/ ListFailed(p)
  <2>1. /\ proc[p].pc \in {"list", "failed"}
        /\ UNCHANGED <<magic, log, pools, files, used, lost, crossed, faults, lists>>
    BY <1>7 DEF ListNext, ListFailed
  <2>2. /\ proc' \in [Procs -> Locals] /\ \A q \in Procs \ {p} : proc'[q] = proc[q]
        /\ proc'[p].pc \in {"idle", "list", "failed"}
    <3>1. CASE Return(p)
      BY <1>2, <3>1
    <3>2. CASE Goto(p, "failed")
      BY <3>2, GotoEffect DEF PCs
    <3>3. CASE proc[p].pc = "list" /\ \E id \in proc[p].list : proc' = [proc EXCEPT ![p].list = @ \ {id}]
      BY <1>1, <3>3 DEF Locals
    <3> QED BY <1>7, <3>1, <3>2, <3>3 DEF ListNext, ListFailed
  <2>3. cache' \in [Procs -> SUBSET Vals]
    <3>1. proc[p].list \subseteq Vals
      BY <1>1 DEF Locals
    <3>2. \/ cache' = cache
          \/ \E id \in proc[p].list : cache' = [cache EXCEPT ![p] = @ \cup {id}]
      BY <1>7 DEF ListNext, ListFailed
    <3> QED BY <1>1, <3>1, <3>2
  <2> QED BY <1>1, <2>1, <2>2, <2>3, Leave
<1> QED BY <1>3, <1>4, <1>5, <1>6, <1>7

(* A call fails, a reply is lost, a process dies. *)
LEMMA FaultSteps ==
  ASSUME IInv, NEW p \in Procs, CallFails(p) \/ ReplyLost(p) \/ Crash(p)
  PROVE  IInv'
<1> USE DEF IInv, Founding, At
<1>1. /\ faults \in Nat /\ faults' \in Nat /\ faults' > 0 /\ faults' >= faults /\ faults' = faults + 1
      /\ lists \in Nat /\ cache \in [Procs -> SUBSET Vals] /\ lists' = lists
  BY DEF CallFails, ReplyLost, Crash, TypeInv
<1>2. Return(p) => /\ proc' \in [Procs -> Locals] /\ \A q \in Procs \ {p} : proc'[q] = proc[q]
                   /\ proc'[p].pc = "idle"
  BY BecomeEffect, IdleType DEF Return
<1>3. CASE CallFails(p)
  <2>1. CASE proc[p].pc \in {"open", "add"} /\ Goto(p, "purge")
    BY <1>1, <1>3, <2>1, GivesUp DEF CallFails
  <2>2. CASE /\ proc[p].pc \in {"createStore", "createMain", "delete", "move", "purge"}
             /\ Return(p)
    <3>1. magic
      BY <2>2 DEF FoundingInv
    <3> QED BY <1>1, <1>2, <1>3, <2>2, <3>1, Leave DEF CallFails
  <2>3. CASE proc[p].pc \in Founding /\ Goto(p, "down")
    <3>1. /\ proc' \in [Procs -> Locals] /\ \A q \in Procs \ {p} : proc'[q] = proc[q]
          /\ proc'[p].pc = "down"
      BY <2>3, GotoEffect DEF PCs
    <3> QED BY <1>1, <1>3, <2>3, <3>1, Leave DEF CallFails
  <2> QED BY <1>3, <2>1, <2>2, <2>3 DEF CallFails
<1>4. CASE ReplyLost(p)
  <2>1. CASE At(p, "add")
    <3>1. /\ Goto(p, "purge") /\ Commit(p) /\ lost' = lost \cup {proc[p].id}
          /\ UNCHANGED <<magic, files, cache, used, crossed, lists>>
      BY <1>4, <2>1 DEF ReplyLost, LateMove
    <3>2. /\ proc' \in [Procs -> Locals] /\ \A q \in Procs \ {p} : proc'[q] = proc[q]
          /\ proc'[p].pc = "purge" /\ proc'[p].id = proc[p].id
      BY <3>1, GotoEffect DEF PCs, Holding
    <3> QED BY <1>1, <2>1, <3>1, <3>2, Added
  <2>2. CASE At(p, "delete")
    BY <1>1, <1>2, <1>4, <2>2, Deleted DEF ReplyLost, LateMove
  <2>3. CASE At(p, "move")
    BY <1>1, <1>2, <1>4, <2>3, Moved DEF ReplyLost
  <2> QED BY <1>4, <2>1, <2>2, <2>3 DEF ReplyLost
<1>5. CASE Crash(p)
  <2>1. /\ proc' \in [Procs -> Locals] /\ \A q \in Procs \ {p} : proc'[q] = proc[q]
        /\ proc'[p].pc = "down"
    BY <1>5, BecomeEffect, IdleType DEF Crash
  <2>2. cache' \in [Procs -> SUBSET Vals]
    BY <1>1, <1>5 DEF Crash
  <2> QED BY <1>1, <1>5, <2>1, <2>2, Leave DEF Crash
<1> QED BY <1>3, <1>4, <1>5

LEMMA StepInv ==
  ASSUME IInv, [Next]_vars
  PROVE  IInv'
<1>1. CASE UNCHANGED vars
  BY <1>1 DEF vars, IInv, TypeInv, FoundingInv, CreatorInv, ListedInv, OrphanInv
<1>2. ASSUME NEW p \in Procs, Step(p) PROVE IInv'
  BY <1>2, FoundingSteps, CreatingSteps, StoreSteps, PurgeStep DEF Step
<1>3. ASSUME NEW p \in Procs, Request(p) PROVE IInv'
  <2>1. ASSUME NEW id \in Vals, RemovePool(p, id) PROVE IInv'
    <3>1. Keys # {}
      BY <2>1 DEF RemovePool, SeenNames
    <3> QED BY <2>1, <3>1, LookupSteps
  <2> QED BY <1>3, <2>1, FoundingSteps, CreatePoolStep, LookupSteps, StoreSteps DEF Request
<1> QED BY <1>1, <1>2, <1>3, FaultSteps DEF Next

----------------------------------------------------------------------------
(* The theorems. *)

LEMMA Invariance == Spec => []IInv
<1>1. IInv /\ [Next]_vars => IInv'
  BY StepInv
<1> QED
  BY InitInv, <1>1, PTL DEF Spec

LEMMA ListedNames == \A id \in Vals : id \in Listed <=> \E n \in Keys : pools[n] = id
  BY DEF Listed, NameOf

(* The pools store has no entry of a pool whose branches journal or branch *)
(* main is missing, however creations, removals, failing calls, crashes    *)
(* and second creations of the lake interleave: CreatePool adds the pool   *)
(* last and RemovePool deletes its entry first.  Excepted are the pools    *)
(* whose Add reported an error and took effect, and those that a late      *)
(* rename has met: of them it is false.                                    *)
THEOREM ListedPoolsComplete == Spec => []ListedComplete
<1>1. IInv => ListedComplete
  BY ListedNames DEF IInv, ListedInv, ListedComplete, Listed
<1> QED
  BY Invariance, <1>1, PTL

(* A pool has one name as long as no rename has come after the name it     *)
(* looked up became another pool's; such a rename can leave two.           *)
THEOREM PoolsHaveOneName == Spec => []OneName
<1>1. ASSUME IInv, NEW id \in Vals \ crossed PROVE Cardinality(NameOf(id)) <= 1
  <2>1. CASE NameOf(id) = {}
    BY <2>1, FS_EmptySet
  <2>2. CASE NameOf(id) # {}
    <3>1. PICK n \in Keys : NameOf(id) = {n}
      <4>1. PICK n \in Keys : pools[n] = id
        BY <2>2 DEF NameOf
      <4>2. \A m \in Keys : pools[m] = id => m = n
        BY <1>1, <4>1 DEF IInv, ListedInv
      <4> QED BY <4>1, <4>2 DEF NameOf
    <3>2. Cardinality({n}) = 1
      BY FS_Singleton
    <3> QED BY <3>1, <3>2
  <2> QED BY <2>1, <2>2
<1>2. IInv => OneName
  BY <1>1 DEF OneName
<1> QED
  BY Invariance, <1>2, PTL

(* The entry of a pool leaves the pools store when the pool is removed, or *)
(* when a rename of another pool comes after that pool's old name became   *)
(* this one's: no other rename, no removal of another pool and no second   *)
(* creation of the lake takes it away.                                     *)
THEOREM PoolsAreKept == Spec => PoolsKept
<1> DEFINE Removed(id) == \E p \in Procs : /\ At(p, "delete") /\ proc[p].id = id
                                           /\ proc'[p].pc # "delete"
           Kept == \A id \in Listed : NameOf(id)' # {} \/ id \in crossed' \/ Removed(id)
<1>1. ASSUME IInv, UNCHANGED pools PROVE Kept
  BY <1>1 DEF Listed, NameOf
<1>2. ASSUME IInv, NEW p \in Procs, Commit(p), proc[p].pc \in {"add", "delete", "move"},
             proc'[p].pc # proc[p].pc, At(p, "move") => crossed' = crossed \cup LateMove(p)
      PROVE  Kept
  <2> USE DEF IInv, At
  <2> SUFFICES ASSUME NEW id \in Listed
               PROVE  NameOf(id)' # {} \/ id \in crossed' \/ Removed(id)
    OBVIOUS
  <2>1. PICK n \in Keys : pools[n] = id /\ id \in Vals
    BY DEF Listed, NameOf
  <2>2. CASE At(p, "add")
    BY <1>2, <2>1, <2>2, AddEffect DEF Commit, NameOf
  <2>3. CASE At(p, "delete")
    <3>1. CASE n = proc[p].name
      BY <1>2, <2>1, <2>3, <3>1, DeleteEffect DEF Commit
    <3>2. CASE n # proc[p].name
      <4>1. pools'[n] = id
        BY <1>2, <2>1, <2>3, <3>2, DeleteEffect DEF Commit
      <4> QED BY <2>1, <4>1 DEF NameOf
    <3> QED BY <3>1, <3>2
  <2>4. CASE At(p, "move")
    <3>1. /\ proc[p].to \in Keys /\ pools[proc[p].to] = NoVal
          /\ \/ pools[proc[p].name] = proc[p].id
             \/ pools[proc[p].name] \in crossed'
          /\ pools' = [k \in Keys |-> IF k = proc[p].to THEN proc[p].id
                                      ELSE IF k = proc[p].name THEN NoVal ELSE pools[k]]
      BY <1>2, <2>4, MoveEffect DEF Commit, TypeInv, LateMove
    <3>2. CASE n = proc[p].name
      <4>1. id \in crossed' \/ pools'[proc[p].to] = id
        BY <2>1, <3>1, <3>2
      <4> QED BY <3>1, <4>1 DEF NameOf
    <3>3. CASE n # proc[p].name
      <4>1. pools'[n] = id
        BY <2>1, <3>1, <3>3
      <4> QED BY <2>1, <4>1 DEF NameOf
    <3> QED BY <3>2, <3>3
  <2> QED BY <1>2, <2>2, <2>3, <2>4
<1>3. ASSUME IInv, [Next]_vars PROVE Kept
  <2>1. CASE UNCHANGED vars
    BY <1>1, <1>3, <2>1 DEF vars
  <2>2. ASSUME NEW p \in Procs, CreateConfig(p) PROVE Kept
    BY <1>1, <1>3, <2>2 DEF CreateConfig
  <2>3. ASSUME NEW p \in Procs, Commit(p), AddPool(p) \/ DeletePool(p) \/ MovePool(p) \/ ReplyLost(p)
        PROVE  Kept
    <3>1. proc[p].pc \in {"add", "delete", "move"}
      BY <2>3 DEF AddPool, DeletePool, MovePool, ReplyLost, At
    <3>2. proc'[p].pc # proc[p].pc
      <4>1. CASE Return(p)
        BY <1>3, <3>1, <4>1, IdleType, BecomeEffect DEF Return, IInv
      <4>2. CASE Goto(p, "purge")
        BY <1>3, <3>1, <4>2, GotoEffect DEF PCs, Holding, IInv
      <4> QED BY <2>3, <4>1, <4>2 DEF AddPool, DeletePool, MovePool, ReplyLost
    <3>3. At(p, "move") => crossed' = crossed \cup LateMove(p)
      BY <2>3 DEF AddPool, DeletePool, MovePool, ReplyLost, At, Refused, LateMove, Commit
    <3> QED BY <1>2, <1>3, <2>3, <3>1, <3>2, <3>3
  <2>4. ASSUME NEW p \in Procs, ~Commit(p), AddPool(p) \/ DeletePool(p) \/ MovePool(p)
        PROVE  Kept
    BY <1>1, <1>3, <2>4 DEF AddPool, DeletePool, MovePool, Refused
  <2>5. ASSUME NEW p \in Procs, Step(p) PROVE Kept
    <3>1. CASE \/ LoadConfig(p) \/ WriteLakeMagic(p) \/ CreateStore(p) \/ CreateMain(p)
               \/ OpenNew(p) \/ Purge(p) \/ ListNext(p) \/ ListFailed(p)
      BY <1>1, <1>3, <3>1 DEF LoadConfig, WriteLakeMagic, CreateStore, CreateMain, OpenNew,
         Purge, ListNext, ListFailed
    <3> QED BY <2>2, <2>3, <2>4, <2>5, <3>1 DEF Step
  <2>6. ASSUME NEW p \in Procs, Request(p) \/ CallFails(p) \/ Crash(p) PROVE Kept
    BY <1>1, <1>3, <2>6 DEF Request, Create, CreatePool, RenamePool, RemovePool, ListBranches,
       CallFails, Crash
  <2>7. ASSUME NEW p \in Procs, ReplyLost(p) PROVE Kept
    BY <2>3, <2>7 DEF ReplyLost
  <2> QED BY <1>3, <2>1, <2>5, <2>6, <2>7 DEF Next
<1>4. IInv /\ [Next]_vars => [LeaveByRemoval]_vars
  BY <1>3 DEF LeaveByRemoval
<1> QED
  BY Invariance, <1>4, PTL DEF Spec, PoolsKept

(* Without faults nothing is left behind: when every operation has         *)
(* returned, the files of exactly the pools with an entry are there,       *)
(* although creations lose races for their name, removals go file by file  *)
(* and the lake is created again.  It does not hold of the pools that a    *)
(* late rename has met.                                                    *)
THEOREM NothingLeftBehind == Spec => []NoOrphans
<1>1. ASSUME IInv, faults = 0, \A p \in Procs : proc[p].pc \in {"idle", "down"}, NEW id \in Vals \ crossed
      PROVE  files[id] # "none" <=> id \in Listed
  BY <1>1, ListedNames DEF IInv, ListedInv, OrphanInv
<1>2. IInv => NoOrphans
  BY <1>1 DEF NoOrphans
<1> QED
  BY Invariance, <1>2, PTL
=============================================================================
