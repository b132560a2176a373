-------------------------------- MODULE Flow --------------------------------
(***************************************************************************)
(* A query's flowgraph: source, router, legs, the fan-in operator that     *)
(* graph.join names ("combine" or "merge"), client.                        *)
(***************************************************************************)
EXTENDS Combine, Merge

vars == <<routerVars, client, combineVars, mergeVars>>

Init == RouterInit /\ CombineInit /\ MergeInit

RouterStep == RouterNext /\ UNCHANGED <<client, combineVars, mergeVars>>

LegStep(l) ==
    \/ RouteCancelled(l) /\ UNCHANGED <<client, combineVars, mergeVars>>
    \/ graph.join = "combine" /\ PullerStep(l) /\ UNCHANGED mergeVars
    \/ graph.join = "merge" /\ MergePullerStep(l) /\ UNCHANGED combineVars

OpStep ==
    \/ graph.join = "combine" /\ CombineStep /\ UNCHANGED mergeVars
    \/ graph.join = "merge" /\ MergeStep /\ UNCHANGED combineVars

ClientStep ==
    \/ graph.join = "combine" /\ (Pull \/ PullDone) /\ UNCHANGED mergeVars
    \/ graph.join = "merge" /\ (MergePull \/ MergePullDone) /\ UNCHANGED combineVars
    \/ Cancel /\ UNCHANGED <<combineVars, mergeVars>>

Next == ClientStep \/ OpStep \/ RouterStep \/ \E l \in Legs : LegStep(l)

MaxLegs == Max({Len(g.legs) : g \in Graphs})

\* Goroutines that can run do run; nothing makes the client pull again.
Fairness == /\ WF_vars(OpStep) /\ WF_vars(RouterStep)
            /\ \A l \in 1..MaxLegs : WF_vars(l \in Legs /\ LegStep(l))

Spec == Init /\ [][Next]_vars /\ Fairness
-----------------------------------------------------------------------------
TypeOK ==
    /\ queue \in Seq(Legs)
    /\ comb.pc \in {"idle", "next", "recv", "propagate", "unwait"}
    /\ comb.n < Len(graph.legs)
    /\ merge.pc \in {"idle", "serve", "start", "fill", "read", "propagate", "done"}
    /\ \A l \in Legs : leg[l].pc \in {"off", "recv", "done", "out", "offer",
                                      "sent", "ended", "end"}
    /\ hol \subseteq Legs /\ pending \subseteq Legs
    /\ waiting \subseteq Legs /\ blocked \subseteq Legs

\* What leg l owes the client in platoon k: its batches or, of a merge, their
\* values.
Owed(l, k) == IF graph.join = "combine" THEN Output(l, k)
              ELSE FlattenSeq([i \in DOMAIN Output(l, k) |-> Values(l, Output(l, k)[i])])

KeepsPromise ==
    INSTANCE Stream WITH promise <- [l \in Legs |-> [k \in DOMAIN Platoons |-> Owed(l, k)]],
                         cancelled <- ctxDone

(* The flowgraph keeps the promise of a Puller (zbuf/batch.go): every platoon
   reaches the client completely, leg by leg in order, unless the client
   stopped it, and a done never costs the client a later platoon. *)
Refines == KeepsPromise!Spec

(* combine: every announced puller offers a batch, once.  A stale announcement
   would make Op.Pull wait on a leg that offers nothing.  And unwait is entered
   with every parent blocked, so its panic is not reached. *)
AnnouncedOffer ==
    /\ comb.pc \in {"idle", "next", "recv"} /\ ~ctxDone =>
           \A i \in DOMAIN queue : /\ leg[queue[i]].pc = "offer"
                                   /\ comb.pc = "recv" => queue[i] # comb.cur
                                   /\ \A j \in DOMAIN queue : queue[i] = queue[j] => i = j
    /\ comb.pc = "recv" /\ ~ctxDone => leg[comb.cur].pc = "offer"
    /\ comb.pc = "unwait" => waiting = Legs

(* merge: legs that are sorted give a sorted platoon, whether a batch was
   returned whole or values were read one by one across batches. *)
Sorted == \A i \in 1..Len(out) - 1 : out[i] <= out[i + 1]

(* Every Pull of the client, done or not, returns: router, legs and operator
   never wait for one another in a circle. *)
PullReturns == comb.pc # "idle" \/ merge.pc # "idle" ~> comb.pc = "idle" /\ merge.pc = "idle"

(* Once the context is done every goroutine of the flowgraph ends. *)
NoLeak == ctxDone ~> (router.pc \in {"off", "end"}
                       /\ \A l \in Legs : leg[l].pc \in {"off", "end"})
=============================================================================
