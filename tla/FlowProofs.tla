----------------------------- MODULE FlowProofs -----------------------------
(***************************************************************************)
(* Theorems about the combine and the merge operator, for every flowgraph: *)
(* any number of legs of any kind, any platoons and selectors, any client. *)
(***************************************************************************)
EXTENDS Flow, TLAPS, WellFoundedInduction

(* The inductive invariant. *)

(* What is needed of the types. *)
LegInv ==
    /\ graph \in Graphs
    /\ queue \in Seq(Legs)
    /\ DOMAIN leg = Legs
    /\ \A l \in Legs : DOMAIN leg[l] = {"pc", "item", "op"}

(* Except while a done is propagated, which leaves announcements behind    *)
(* that Propagated clears away, an announced puller offers its batch, is   *)
(* announced once and is not the one being received from.                  *)
QueueInv ==
    comb.pc # "propagate" /\ ~ctxDone =>
        /\ \A i \in DOMAIN queue : leg[queue[i]].pc = "offer"
        /\ \A i, j \in DOMAIN queue : queue[i] = queue[j] => i = j
        /\ comb.pc = "recv" => /\ leg[comb.cur].pc = "offer"
                               /\ \A i \in DOMAIN queue : queue[i] # comb.cur

(* A done is sent to every leg that is not blocked already. *)
BlockedInv ==
    /\ comb.pc = "propagate" => pending \cup waiting = Legs
    /\ comb.pc = "unwait" => waiting = Legs
    /\ waiting \subseteq Legs
    /\ comb.pc = "recv" => comb.cur \in Legs

IInv == LegInv /\ QueueInv /\ BlockedInv

-----------------------------------------------------------------------------
(* Steps that do not touch the announcements leave the pullers that offer  *)
(* alone: a leg that offers is not at its route.                           *)

LEMMA QueueKept ==
  ASSUME IInv, queue' = queue, ctxDone => ctxDone', comb' = comb,
         graph' = graph, DOMAIN leg' = Legs,
         \A l \in Legs : leg[l].pc = "offer" /\ ~ctxDone' => leg'[l].pc = "offer",
         UNCHANGED <<pending, waiting>>
  PROVE QueueInv' /\ BlockedInv'
<1>1. \A i \in DOMAIN queue : queue[i] \in Legs
  BY DEF IInv, LegInv
<1>2. QueueInv'
  BY <1>1 DEF IInv, QueueInv, BlockedInv, Legs
<1> QED
  BY <1>2 DEF IInv, BlockedInv, Legs

LEMMA LegRecords ==
  ASSUME IInv, NEW l \in Legs
  PROVE /\ \A b : DOMAIN Received(l, b) = {"pc", "item", "op"}
        /\ DOMAIN Pulling(l) = {"pc", "item", "op"}
        /\ DOMAIN Dropping(l) = {"pc", "item", "op"}
        /\ DOMAIN Dropped(l) = {"pc", "item", "op"}
<1>1. DOMAIN leg[l] = {"pc", "item", "op"} /\ graph.legs[l] \in {"pass", "head", "tail"}
  BY RouterAssumption DEF IInv, LegInv, Legs
<1>2. ASSUME NEW b PROVE DOMAIN Received(l, b) = {"pc", "item", "op"}
  BY <1>1 DEF Received
<1>3. DOMAIN Pulling(l) = {"pc", "item", "op"} /\ DOMAIN Dropping(l) = {"pc", "item", "op"}
  BY DEF Pulling, Dropping
<1>4. DOMAIN Dropped(l) = {"pc", "item", "op"}
  BY <1>1 DEF Dropped
<1> QED
  BY <1>2, <1>3, <1>4

Fields == {"pc", "item", "op"}

(* A step of one leg, other than taking it away from an offer. *)
LEMMA OneLeg ==
  ASSUME IInv, NEW x, NEW r, leg' = [leg EXCEPT ![x] = r],
         x \in Legs => DOMAIN r = Fields,
         UNCHANGED <<graph, queue>>
  PROVE /\ LegInv' /\ DOMAIN leg' = Legs
        /\ \A l \in Legs : l # x => leg'[l] = leg[l]
        /\ x \in Legs => leg'[x] = r
  BY DEF IInv, LegInv, Legs, Fields

LEMMA RouterStepInv ==
  ASSUME IInv, RouterStep
  PROVE IInv'
<1>1. /\ UNCHANGED <<queue, comb, pending, waiting>> /\ graph' = graph /\ ctxDone' = ctxDone
  BY DEF RouterStep, RouterNext, combineVars, DoneUpstream, PullUpstream, PullUpstreamFails,
         Send, TakeDone, RouterCancelled
<1>2. CASE UNCHANGED leg
  <2>1. LegInv'
    BY <1>1, <1>2 DEF IInv, LegInv, Legs
  <2>2. DOMAIN leg' = Legs
    BY <1>2 DEF IInv, LegInv
  <2> QED
    BY <1>1, <1>2, <2>1, <2>2, QueueKept DEF IInv
<1>3. ASSUME NEW r, leg' = [leg EXCEPT ![router.at] = r],
             leg[router.at].pc \in {"recv", "done"},
             router.at \in Legs => DOMAIN r = Fields
      PROVE IInv'
  <2>1. /\ LegInv' /\ DOMAIN leg' = Legs
        /\ \A l \in Legs : l # router.at => leg'[l] = leg[l]
    BY <1>1, <1>3, OneLeg
  <2>2. \A l \in Legs : leg[l].pc = "offer" => leg'[l].pc = "offer"
    BY <1>3, <2>1
  <2> QED
    BY <1>1, <2>1, <2>2, QueueKept DEF IInv
<1>4. CASE Send
  BY <1>3, <1>4, LegRecords DEF Send, Fields
<1>5. CASE TakeDone
  BY <1>3, <1>5, LegRecords DEF TakeDone, Fields
<1>6. DoneUpstream \/ PullUpstream \/ PullUpstreamFails \/ RouterCancelled => UNCHANGED leg
  BY DEF DoneUpstream, PullUpstream, PullUpstreamFails, RouterCancelled
<1> QED
  BY <1>2, <1>4, <1>5, <1>6 DEF RouterStep, RouterNext

LEMMA RouteCancelledInv ==
  ASSUME IInv, NEW l \in Legs, RouteCancelled(l), UNCHANGED combineVars
  PROVE IInv'
<1> DEFINE r == IF leg[l].pc = "recv" THEN [pc |-> "out", item |-> Err, op |-> 0]
                ELSE IF leg[l].item = EOS THEN Dropped(l)
                ELSE [pc |-> "out", item |-> Err, op |-> Limit - 1]
<1>1. /\ UNCHANGED <<queue, comb, pending, waiting>> /\ graph' = graph /\ ctxDone' = ctxDone
      /\ ctxDone
  BY DEF RouteCancelled, combineVars
<1>2. leg' = [leg EXCEPT ![l] = r] /\ DOMAIN r = Fields
  BY LegRecords DEF RouteCancelled, Fields, IInv, LegInv
<1> HIDE DEF r
<1>3. LegInv' /\ DOMAIN leg' = Legs
  BY <1>1, <1>2, OneLeg
<1> QED
  BY <1>1, <1>3, QueueKept DEF IInv

LEMMA PullerInv ==
  ASSUME IInv, NEW l \in Legs, PullerStep(l)
  PROVE IInv'
<1>1. CASE Announce(l)
  <2>1. /\ leg[l].pc = "out" /\ queue' = Append(queue, l)
        /\ leg' = [leg EXCEPT ![l] = [leg[l] EXCEPT !.pc = "offer"]]
        /\ UNCHANGED <<graph, ctxDone, comb, pending, waiting>> /\ Legs' = Legs
    BY <1>1 DEF Announce, Legs
  <2>2. /\ queue \in Seq(Legs) /\ DOMAIN leg = Legs /\ DOMAIN leg[l] = Fields
    BY DEF IInv, LegInv, Fields
  <2>3. /\ queue' \in Seq(Legs) /\ Len(queue) \in Nat
        /\ DOMAIN queue = 1 .. Len(queue) /\ DOMAIN queue' = 1 .. Len(queue) + 1
        /\ \A i \in DOMAIN queue : queue'[i] = queue[i] /\ queue[i] \in Legs
        /\ queue'[Len(queue) + 1] = l
    BY <2>1, <2>2
  <2>4. /\ \A k \in Legs \ {l} : leg'[k] = leg[k]
        /\ leg'[l].pc = "offer" /\ DOMAIN leg'[l] = Fields /\ DOMAIN leg' = Legs
    BY <2>1, <2>2 DEF Fields
  <2>5. LegInv'
    BY <2>1, <2>3, <2>4 DEF IInv, LegInv, Fields
  <2>6. QueueInv'
    <3> SUFFICES ASSUME comb.pc # "propagate", ~ctxDone
        PROVE /\ \A i \in DOMAIN queue' : leg'[queue'[i]].pc = "offer"
              /\ \A i, j \in DOMAIN queue' : queue'[i] = queue'[j] => i = j
              /\ comb.pc = "recv" => /\ leg'[comb.cur].pc = "offer"
                                     /\ \A i \in DOMAIN queue' : queue'[i] # comb.cur
      BY <2>1 DEF QueueInv
    <3>1. \A i \in DOMAIN queue : leg[queue[i]].pc = "offer" /\ queue[i] # l
      BY <2>1 DEF IInv, QueueInv
    <3>2. \A i \in DOMAIN queue' : i \in DOMAIN queue \/ i = Len(queue) + 1
      BY <2>3
    <3>3. \A i \in DOMAIN queue' : leg'[queue'[i]].pc = "offer"
      BY <2>3, <2>4, <3>1, <3>2
    <3>4. \A i, j \in DOMAIN queue' : queue'[i] = queue'[j] => i = j
      BY <2>3, <3>1, <3>2 DEF IInv, QueueInv
    <3>5. ASSUME comb.pc = "recv"
          PROVE /\ leg'[comb.cur].pc = "offer"
                /\ \A i \in DOMAIN queue' : queue'[i] # comb.cur
      BY <2>1, <2>3, <2>4, <3>2, <3>5 DEF IInv, QueueInv, BlockedInv
    <3> QED
      BY <3>3, <3>4, <3>5
  <2> QED
    BY <2>1, <2>5, <2>6 DEF IInv, BlockedInv
<1>2. CASE PullerCancelled(l)
  <2> DEFINE r == IF leg[l].pc = "sent" THEN Pulling(l) ELSE [leg[l] EXCEPT !.pc = "end"]
  <2>1. /\ UNCHANGED <<queue, comb, pending, waiting>> /\ graph' = graph /\ ctxDone' = ctxDone
        /\ ctxDone
    BY <1>2 DEF PullerCancelled
  <2>2. leg' = [leg EXCEPT ![l] = r] /\ DOMAIN r = Fields
    BY <1>2, LegRecords DEF PullerCancelled, Fields, IInv, LegInv
  <2> HIDE DEF r
  <2>3. LegInv' /\ DOMAIN leg' = Legs
    BY <2>1, <2>2, OneLeg
  <2> QED
    BY <2>1, <2>3, QueueKept DEF IInv
<1> QED
  BY <1>1, <1>2 DEF PullerStep

(* The first Pull starts the goroutines. *)
LEMMA StartedInv ==
  ASSUME IInv, Started, UNCHANGED <<graph, queue>>
  PROVE /\ LegInv' /\ DOMAIN leg' = Legs
        /\ \A l \in Legs : leg[l].pc = "offer" => leg'[l] = leg[l]
<1>1. leg' = [l \in Legs |-> IF leg[l].pc = "off" THEN Pulling(l) ELSE leg[l]]
  BY DEF Started
<1>2. \A l \in Legs : DOMAIN leg'[l] = Fields
  BY <1>1, LegRecords DEF IInv, LegInv, Fields
<1> QED
  BY <1>1, <1>2 DEF IInv, LegInv, Legs, Fields

LEMMA CombineClientInv ==
  ASSUME IInv, Pull \/ PullDone
  PROVE IInv'
<1>1. CASE Pull
  <2>1. /\ UNCHANGED <<graph, queue, ctxDone, pending, waiting>> /\ Started
        /\ comb.pc = "idle" /\ comb'.pc = "next"
    BY <1>1 DEF Pull, Idle
  <2>2. /\ LegInv' /\ DOMAIN leg' = Legs
        /\ \A l \in Legs : leg[l].pc = "offer" => leg'[l] = leg[l]
    BY <2>1, StartedInv
  <2>3. \A i \in DOMAIN queue : queue[i] \in Legs
    BY DEF IInv, LegInv
  <2>4. QueueInv'
    BY <2>1, <2>2, <2>3 DEF IInv, QueueInv
  <2>5. BlockedInv'
    BY <2>1 DEF IInv, BlockedInv, Legs
  <2> QED
    BY <2>2, <2>4, <2>5 DEF IInv
<1>2. CASE PullDone
  <2>1. /\ UNCHANGED <<graph, queue, leg, waiting>> /\ comb'.pc = "propagate"
        /\ pending' = Legs \ waiting
    BY <1>2 DEF PullDone, Idle, routerVars
  <2>2. BlockedInv'
    BY <2>1 DEF IInv, BlockedInv, Legs
  <2>3. LegInv'
    BY <2>1 DEF IInv, LegInv, Legs
  <2>4. QueueInv'
    BY <2>1 DEF QueueInv
  <2> QED
    BY <2>2, <2>3, <2>4 DEF IInv
<1> QED
  BY <1>1, <1>2

CombInv == DOMAIN comb = {"pc", "cur", "n"}

LEMMA CombineStepInv ==
  ASSUME IInv, CombInv, CombineStep
  PROVE IInv'
<1>1. /\ queue \in Seq(Legs) /\ DOMAIN leg = Legs /\ DOMAIN queue = 1 .. Len(queue)
      /\ Len(queue) \in Nat /\ \A i \in DOMAIN queue : queue[i] \in Legs
  BY DEF IInv, LegInv
<1>2. CASE NextPuller
  <2>0. UNCHANGED <<graph, ctxDone, leg, waiting, pending>> /\ comb.pc = "next" /\ Legs' = Legs
    BY <1>2 DEF NextPuller, routerVars, Legs
  <2>1. CASE waiting = Legs
    <3>1. comb'.pc = "unwait" /\ queue' = queue
      BY <1>2, <2>1 DEF NextPuller, Idle
    <3> QED
      BY <2>0, <2>1, <3>1 DEF IInv, LegInv, QueueInv, BlockedInv
  <2>2. CASE waiting # Legs
    <3>1. /\ comb'.pc = "recv" /\ comb'.cur = Head(queue) /\ queue # <<>> /\ queue' = Tail(queue)
      BY <1>2, <2>2 DEF NextPuller, Idle
    <3>2. /\ queue' \in Seq(Legs) /\ DOMAIN queue' = 1 .. Len(queue) - 1
          /\ Head(queue) = queue[1] /\ 1 \in DOMAIN queue
          /\ \A i \in DOMAIN queue' : queue'[i] = queue[i + 1] /\ i + 1 \in DOMAIN queue /\ i + 1 # 1
      BY <1>1, <3>1
    <3>3. LegInv'
      BY <2>0, <3>2 DEF IInv, LegInv
    <3>4. QueueInv'
      <4> SUFFICES ASSUME ~ctxDone
          PROVE /\ \A i \in DOMAIN queue' : leg[queue'[i]].pc = "offer"
                /\ \A i, j \in DOMAIN queue' : queue'[i] = queue'[j] => i = j
                /\ leg[queue[1]].pc = "offer"
                /\ \A i \in DOMAIN queue' : queue'[i] # queue[1]
        BY <2>0, <3>1, <3>2 DEF QueueInv
      <4>1. /\ \A i \in DOMAIN queue : leg[queue[i]].pc = "offer"
            /\ \A i, j \in DOMAIN queue : queue[i] = queue[j] => i = j
        BY <2>0 DEF IInv, QueueInv
      <4>2. \A i, j \in DOMAIN queue' : queue'[i] = queue'[j] => i = j
        BY <1>1, <3>2, <4>1
      <4> QED
        BY <1>1, <3>2, <4>1, <4>2
    <3> QED
      BY <1>1, <2>0, <3>1, <3>2, <3>3, <3>4 DEF IInv, BlockedInv
  <2> QED
    BY <2>1, <2>2
<1>3. CASE Receive
  <2> DEFINE l == comb.cur
  <2>1. /\ comb.pc = "recv" /\ leg[l].pc = "offer"
        /\ UNCHANGED <<graph, ctxDone, queue, pending>> /\ Legs' = Legs
        /\ comb'.pc \in {"idle", "next"}
        /\ waiting' \in {waiting, waiting \cup {l}}
    BY <1>3 DEF Receive, Idle, Legs
  <2>2. PICK r : /\ leg' = [leg EXCEPT ![l] = r]
                 /\ r \in {[leg[l] EXCEPT !.pc = "end"], [leg[l] EXCEPT !.pc = "sent"], Pulling(l)}
    BY <1>3 DEF Receive
  <2>3. l \in Legs => DOMAIN r = Fields
    BY <2>2, LegRecords DEF IInv, LegInv, Fields
  <2>4. LegInv' /\ \A k \in Legs : k # l => leg'[k] = leg[k]
    BY <2>1, <2>2, <2>3, OneLeg
  <2>5. QueueInv'
    BY <1>1, <2>1, <2>4 DEF IInv, QueueInv
  <2>6. waiting' \subseteq Legs
    BY <2>1 DEF IInv, BlockedInv
  <2> QED
    BY <2>1, <2>4, <2>5, <2>6 DEF IInv, BlockedInv
<1>4. CASE Discard
  <2>1. /\ comb.pc = "propagate" /\ queue # <<>> /\ queue' = Tail(queue)
        /\ UNCHANGED <<graph, ctxDone, leg, comb, pending, waiting>> /\ Legs' = Legs
    BY <1>4 DEF Discard, routerVars, Legs
  <2>2. queue' \in Seq(Legs)
    BY <1>1, <2>1
  <2> QED
    BY <2>1, <2>2 DEF IInv, LegInv, QueueInv, BlockedInv
<1>5. CASE Propagated
  <2>1. /\ comb.pc = "propagate" /\ pending = {} /\ queue' = <<>> /\ comb'.pc = "unwait"
        /\ UNCHANGED <<graph, ctxDone, leg, pending, waiting>> /\ Legs' = Legs
    BY <1>5 DEF Propagated, routerVars, Legs, Idle
  <2>2. queue' \in Seq(Legs) /\ DOMAIN queue' = {}
    BY <2>1
  <2> QED
    BY <2>1, <2>2 DEF IInv, LegInv, QueueInv, BlockedInv
<1>6. CASE CombineCancelled
  <2>1. /\ ctxDone /\ comb'.pc = "idle"
        /\ UNCHANGED <<graph, ctxDone, leg, queue, waiting>> /\ Legs' = Legs
    BY <1>6 DEF CombineCancelled, routerVars, Legs, Idle
  <2> QED
    BY <2>1 DEF IInv, LegInv, QueueInv, BlockedInv
<1>7. ASSUME NEW l \in Legs, SendDone(l) PROVE IInv'
  <2> DEFINE r == IF leg[l].item \in {EOS, Err} THEN [leg[l] EXCEPT !.pc = "ended", !.item = EOS]
                  ELSE Dropping(l)
  <2>1. /\ comb.pc = "propagate" /\ pending' = pending \ {l} /\ waiting' = waiting \cup {l}
        /\ UNCHANGED <<graph, ctxDone, queue, comb>> /\ Legs' = Legs
    BY <1>7 DEF SendDone, Legs
  <2>2. leg' = [leg EXCEPT ![l] = r] /\ DOMAIN r = Fields
    BY <1>7, LegRecords DEF SendDone, Fields, IInv, LegInv
  <2> HIDE DEF r
  <2>3. LegInv'
    BY <2>1, <2>2, OneLeg
  <2> QED
    BY <2>1, <2>3 DEF IInv, QueueInv, BlockedInv
<1>8. ASSUME NEW l \in Legs, Unwait(l) PROVE IInv'
  <2>1. /\ comb.pc = "unwait" /\ leg[l].pc \in {"sent", "ended"}
        /\ leg' = [leg EXCEPT ![l] = Pulling(l)]
        /\ UNCHANGED <<graph, ctxDone, queue>> /\ Legs' = Legs
    BY <1>8 DEF Unwait, Legs
  <2>2. \/ comb' = [comb EXCEPT !.n = comb.n + 1] /\ waiting' = waiting
        \/ comb'.pc = "idle" /\ waiting' = {}
    BY <1>8 DEF Unwait, Idle
  <2>3. LegInv' /\ \A k \in Legs : k # l => leg'[k] = leg[k]
    BY <2>1, OneLeg, LegRecords DEF Fields
  <2>4. comb'.pc \in {"unwait", "idle"} /\ (comb'.pc = "unwait" => waiting' = waiting)
          /\ waiting' \subseteq waiting
    BY <2>1, <2>2 DEF CombInv
  <2>5. QueueInv'
    BY <1>1, <2>1, <2>3, <2>4 DEF IInv, QueueInv
  <2> QED
    BY <2>1, <2>3, <2>4, <2>5 DEF IInv, BlockedInv
<1> QED
  BY <1>2, <1>3, <1>4, <1>5, <1>6, <1>7, <1>8 DEF CombineStep

-----------------------------------------------------------------------------
(* Under a merge there is no combine. *)

JoinInv == graph.join = "merge" => queue = <<>> /\ comb.pc = "idle"

LEMMA MergeKeeps ==
  ASSUME IInv, JoinInv, graph.join = "merge", UNCHANGED combineVars,
         \/ MergeStep \/ MergePull \/ MergePullDone
         \/ \E l \in Legs : MergePullerStep(l)
  PROVE IInv'
<1>1. /\ UNCHANGED <<queue, comb, pending, waiting>> /\ graph' = graph /\ Legs' = Legs
      /\ comb.pc = "idle" /\ DOMAIN queue = {}
  <2>1. graph' = graph
    BY DEF MergeStep, MergePull, MergePullDone, MergePullerStep, Serve, Read, Replenish, PopLast,
           SendDoneTo, PullAgain, MergePullerCancelled, MergeCancelled, routerVars
  <2>2. queue = <<>> /\ comb.pc = "idle"
    BY DEF JoinInv
  <2> QED
    BY <2>1, <2>2 DEF combineVars, Legs
<1>2. LegInv'
  <2>1. CASE UNCHANGED leg
    BY <2>1, <1>1 DEF IInv, LegInv
  <2>2. ASSUME NEW l, NEW r, leg' = [leg EXCEPT ![l] = r],
               r \in {[leg[l] EXCEPT !.pc = "end"], Pulling(l), Dropping(l)}
        PROVE LegInv'
    <3>1. l \in Legs => DOMAIN r = Fields
      BY <2>2, LegRecords DEF IInv, LegInv, Fields
    <3> QED
      BY <1>1, <2>2, <3>1, OneLeg
  <2>3. CASE MergePull
    BY <1>1, <2>3, StartedInv DEF MergePull
  <2>4. CASE Serve \/ Read \/ PopLast \/ MergeCancelled \/ MergePullDone
    BY <2>1, <2>4 DEF Serve, Read, PopLast, MergeCancelled, MergePullDone, routerVars
  <2>5. CASE Replenish
    BY <2>2, <2>5 DEF Replenish
  <2>6. CASE SendDoneTo
    BY <2>2, <2>6 DEF SendDoneTo
  <2>7. ASSUME NEW l \in Legs, MergePullerStep(l) PROVE LegInv'
    BY <2>2, <2>7 DEF MergePullerStep, PullAgain, MergePullerCancelled
  <2> QED
    BY <2>3, <2>4, <2>5, <2>6, <2>7 DEF MergeStep
<1>3. QueueInv' /\ BlockedInv'
  BY <1>1 DEF IInv, QueueInv, BlockedInv
<1> QED
  BY <1>2, <1>3 DEF IInv

-----------------------------------------------------------------------------
Inv == IInv /\ CombInv /\ JoinInv

LEMMA InitEstablishes == Init => Inv
<1> SUFFICES ASSUME Init PROVE Inv
  OBVIOUS
<1>1. queue = <<>> /\ DOMAIN queue = {} /\ queue \in Seq(Legs) /\ comb.pc = "idle" /\ waiting = {}
        /\ CombInv
  BY DEF Init, CombineInit, Idle, CombInv
<1>2. LegInv
  BY <1>1 DEF Init, RouterInit, LegInv
<1> QED
  BY <1>1, <1>2 DEF Inv, IInv, QueueInv, BlockedInv, JoinInv

LEMMA NextPreserves == Inv /\ [Next]_vars => Inv'
<1> SUFFICES ASSUME Inv, [Next]_vars PROVE Inv'
  OBVIOUS
<1> USE DEF Inv
<1>1. graph' = graph
  BY DEF Next, vars, ClientStep, OpStep, RouterStep, LegStep, RouterNext, RouteCancelled,
     PullerStep, MergePullerStep, CombineStep, MergeStep, Pull, PullDone, MergePull, MergePullDone,
     Cancel, DoneUpstream, PullUpstream, PullUpstreamFails, Send, TakeDone, RouterCancelled,
     Announce, PullerCancelled, NextPuller, Receive, Discard, SendDone, Propagated, Unwait,
     CombineCancelled, Serve, Read, Replenish, PopLast, SendDoneTo, PullAgain,
     MergePullerCancelled, MergeCancelled, routerVars
<1>2. JoinInv' /\ CombInv'
  <2>1. graph.join = "merge" => UNCHANGED <<queue, comb>>
    BY DEF Next, vars, ClientStep, OpStep, RouterStep, LegStep, combineVars
  <2>2. \/ comb' = comb \/ comb' = Idle \/ \E n : comb' = [comb EXCEPT !.n = n]
        \/ \E w : comb' = [Idle EXCEPT !.pc = w]
        \/ \E w, l : comb' = [Idle EXCEPT !.pc = w, !.cur = l]
    BY DEF Next, vars, ClientStep, OpStep, RouterStep, LegStep, PullerStep, CombineStep, Pull,
       PullDone, Announce, PullerCancelled, NextPuller, Receive, Discard, SendDone, Propagated,
       Unwait, CombineCancelled, combineVars
  <2>3. CombInv'
    BY <2>2 DEF CombInv, Idle
  <2> QED
    BY <1>1, <2>1, <2>3 DEF JoinInv
<1>3. CASE RouterStep
  BY <1>3, <1>2, RouterStepInv
<1>4. ASSUME NEW l \in Legs, LegStep(l) PROVE IInv'
  BY <1>4, RouteCancelledInv, PullerInv, MergeKeeps DEF LegStep
<1>5. CASE OpStep
  BY <1>5, <1>2, CombineStepInv, MergeKeeps DEF OpStep
<1>6. CASE ClientStep
  <2>1. CASE Cancel /\ UNCHANGED <<combineVars, mergeVars>>
    <3>1. /\ UNCHANGED <<queue, comb, pending, waiting, leg, graph>> /\ ctxDone' /\ Legs' = Legs
      BY <2>1 DEF Cancel, combineVars, Legs
    <3> QED
      BY <1>2, <3>1 DEF IInv, LegInv, QueueInv, BlockedInv
  <2> QED
    BY <1>2, <1>6, <2>1, CombineClientInv, MergeKeeps DEF ClientStep
<1>7. CASE UNCHANGED vars
  <2>1. UNCHANGED <<queue, comb, pending, waiting, leg, graph, ctxDone>> /\ Legs' = Legs
    BY <1>7 DEF vars, routerVars, combineVars, Legs
  <2> QED
    BY <1>2, <2>1 DEF IInv, LegInv, QueueInv, BlockedInv
<1> QED
  BY <1>2, <1>3, <1>4, <1>5, <1>6, <1>7 DEF Next

(* In every flowgraph, whatever dones and cancels the client sends, the    *)
(* puller that combine takes from its queue offers a batch: Op.Pull never  *)
(* waits on a leg that has none, and unwait never panics.                  *)
THEOREM AnnouncedPullersOffer == Spec => []AnnouncedOffer
<1>1. Inv => AnnouncedOffer
  BY DEF Inv, IInv, QueueInv, BlockedInv, AnnouncedOffer
<1> QED
  BY <1>1, InitEstablishes, NextPreserves, PTL DEF Spec

-----------------------------------------------------------------------------
(* merge.  What a leg can still deliver in the platoon it is in is bounded *)
(* from below by what it has delivered, wherever router, leg and operator  *)
(* stand, and whatever dones cross.                                        *)

IsBatch(b) == b \notin {EOS, Err}

Keys(l, b) == ToSet(graph.keys[l][b])

(* The batches that leg l can get. *)
Mine(l) == {b \in Nat \ {0} : \E k \in DOMAIN Platoons : \E i \in DOMAIN Platoons[k] :
                                 b = Platoons[k][i] /\ l \in graph.forward[b]}

SendsEOS == router.pc = "send" /\ router.item = EOS

(* The keys that leg l can get from the router before its EOS, and any at  *)
(* all where its EOS of this platoon has passed.                           *)
Ahead(l) ==
    {x \in Int :
        /\ router.pc # "end"
        /\ \/ l \in blocked
           \/ SendsEOS /\ l < router.at
           \/ /\ ~SendsEOS
              /\ \/ /\ router.pc = "send" /\ l >= router.at
                    /\ l \in graph.forward[router.item] /\ x \in Keys(l, router.item)
                 \/ \E i \in DOMAIN Platoons[src.k] :
                       /\ src.k \in DOMAIN Platoons /\ i >= src.i
                       /\ l \in graph.forward[Platoons[src.k][i]]
                       /\ x \in Keys(l, Platoons[src.k][i])}

(* The keys that leg l can deliver before it delivers an EOS. *)
Future(l) ==
    {x \in Int :
        \/ leg[l].pc \in {"off", "ended"} \/ (leg[l].pc = "done" /\ leg[l].item = EOS)
        \/ /\ leg[l].pc \in {"out", "recv", "done"} /\ IsBatch(leg[l].item)
           /\ x \in Keys(l, leg[l].item)
        \/ /\ leg[l].pc = "recv" \/ (leg[l].pc = "out" /\ IsBatch(leg[l].item) /\ ~AtEnd(l))
           /\ x \in Ahead(l)}

Precedes(S, T) == \A x \in S, y \in T : x <= y

KeysIn(s) == {s[i].key : i \in DOMAIN s}

Ascending(s) == \A i, j \in DOMAIN s : i < j => s[i].key <= s[j].key

Keyed == [leg : Legs, key : Int]

(* What is needed of the types. *)
RouterTypes ==
    /\ graph \in Graphs
    /\ DOMAIN src = {"k", "i"} /\ src.k \in Nat \ {0} /\ src.i \in Nat \ {0}
    /\ DOMAIN router = {"pc", "item", "at"} /\ blocked \subseteq Legs

LegTypes ==
    /\ DOMAIN leg = Legs
    /\ \A l \in Legs : DOMAIN leg[l] = Fields /\ leg[l].item \in {EOS, Err} \cup Mine(l)

MergeTypes ==
    /\ DOMAIN merge = {"pc", "at", "then"}
    /\ hol \subseteq Legs
    /\ DOMAIN vals = Legs /\ \A l \in Legs : vals[l] \in Seq(Keyed)
    /\ acc \in Seq(Keyed) /\ out \in Seq(Int)

TypeInv == RouterTypes /\ LegTypes /\ MergeTypes

RouterInv ==
    router.pc = "send" =>
        /\ router.at \in Legs \ blocked
        /\ router.item # EOS =>
             /\ src.k \in DOMAIN Platoons /\ src.i - 1 \in DOMAIN Platoons[src.k]
             /\ router.item = Platoons[src.k][src.i - 1]
             /\ router.at \in graph.forward[router.item]

(* The batch a leg holds is before what it can still get. *)
Holds(l) ==
    /\ leg[l].pc = "done" /\ leg[l].item # EOS => AtEnd(l) /\ IsBatch(leg[l].item)
    /\ leg[l].pc = "recv" => ~AtEnd(l)
    /\ leg[l].pc \in {"out", "recv"} /\ IsBatch(leg[l].item) /\ ~AtEnd(l) =>
         Precedes(Keys(l, leg[l].item), Ahead(l))

HoldInv == \A l \in Legs : Holds(l)

(* So is the batch of it in the heap. *)
HolInv ==
    \A l \in hol : /\ vals[l] # <<>> /\ Ascending(vals[l])
                   /\ Precedes(KeysIn(vals[l]), Future(l))

(* What was taken in this platoon is in order and before all in the heap. *)
Serving == merge.pc \in {"serve", "read", "fill"} \/ (merge.pc = "idle" /\ over = "open")

MergeInv ==
    /\ merge.pc \notin {"read", "fill"} => acc = <<>>
    /\ merge.pc = "fill" => /\ merge.at \in Legs \ hol
                            /\ merge.then \in {"read", "return"} /\ acc # <<>>
                            /\ \A l \in Legs : l = merge.at => Precedes(KeysIn(acc), Future(l))
    /\ merge.pc = "start" => /\ merge.at \in Legs /\ merge.then \in {"serve", "eos"}
                             /\ merge.then = "serve" => out = <<>>
                             /\ merge.at \notin hol
                             /\ \A l \in hol : l < merge.at
    /\ merge.pc = "done" => merge.at \in Legs \ hol
    /\ router.pc = "off" => merge.pc = "idle" /\ hol = {} /\ out = <<>>
    /\ Serving => /\ Ascending(acc)
                  /\ Precedes(ToSet(out), KeysIn(acc))
                  /\ \A l \in hol : /\ Precedes(ToSet(out), KeysIn(vals[l]))
                                    /\ Precedes(KeysIn(acc), KeysIn(vals[l]))
    /\ \A i, j \in DOMAIN out : i < j => out[i] <= out[j]

OrderInv == TypeInv /\ RouterInv /\ HoldInv /\ HolInv /\ MergeInv

-----------------------------------------------------------------------------
LEMMA MinLeast ==
  ASSUME NEW T \in SUBSET Nat, T # {}
  PROVE Min(T) \in T /\ \A y \in T : Min(T) <= y
<1>1. IsWellFoundedOn(OpToRel(<, Nat), Nat)
  BY NatLessThanWellFounded
<1>2. PICK x \in T : \A y \in T : ~ (<<y, x>> \in OpToRel(<, Nat))
  BY <1>1, WFMin, Zenon
<1>3. \A y \in T : ~ (y < x)
  BY <1>2 DEF OpToRel
<1>4. \A y \in T : x <= y
  BY <1>3
<1> QED
  BY <1>4 DEF Min

(* What the assumption on sorted legs says of the running graph. *)
LEMMA Batches ==
  ASSUME graph \in Graphs, graph.join = "merge"
  PROVE /\ Len(graph.legs) \in Nat /\ Legs = 1 .. Len(graph.legs) /\ 1 \in Legs
        /\ Platoons \in Seq(Seq(Nat \ {0}))
        /\ \A l \in Legs : \A b \in Mine(l) :
             /\ IsBatch(b) /\ graph.keys[l][b] \in Seq(Int) /\ graph.keys[l][b] # <<>>
             /\ \A m, n \in DOMAIN graph.keys[l][b] :
                  m < n => graph.keys[l][b][m] <= graph.keys[l][b][n]
             /\ Keys(l, b) \subseteq Int
        /\ \A l \in Legs, k \in DOMAIN Platoons : \A i, j \in DOMAIN Platoons[k] :
             /\ Platoons[k][i] \in Nat \ {0} /\ graph.forward[Platoons[k][i]] \subseteq Legs
             /\ l \in graph.forward[Platoons[k][i]] => Platoons[k][i] \in Mine(l)
             /\ /\ l \in graph.forward[Platoons[k][i]] /\ l \in graph.forward[Platoons[k][j]]
                /\ i < j
                => Precedes(Keys(l, Platoons[k][i]), Keys(l, Platoons[k][j]))
<1>1. SortedLegs(graph)
  BY SortedAssumption
<1>2. graph.legs \in Seq(STRING) /\ graph.legs # <<>> /\ Platoons \in Seq(Seq(Nat \ {0}))
  BY <1>1 DEF SortedLegs, Platoons
<1>3. Len(graph.legs) \in Nat /\ Legs = 1 .. Len(graph.legs) /\ 1 \in Legs
  BY <1>2 DEF Legs
<1>4. ASSUME NEW k \in DOMAIN Platoons, NEW i \in DOMAIN Platoons[k]
      PROVE Platoons[k][i] \in Nat \ {0} /\ graph.forward[Platoons[k][i]] \subseteq Legs
  <2>1. Platoons[k] \in Seq(Nat \ {0})
    BY <1>2
  <2>2. Platoons[k][i] \in Nat \ {0}
    BY <2>1
  <2>3. \A g \in Graphs : \A m \in DOMAIN g.platoons : \A n \in DOMAIN g.platoons[m] :
          g.forward[g.platoons[m][n]] \subseteq DOMAIN g.legs
    BY RouterAssumption
  <2> QED
    BY <2>2, <2>3 DEF Platoons, Legs
<1>5. ASSUME NEW l \in Legs, NEW k \in DOMAIN Platoons, NEW i \in DOMAIN Platoons[k],
             l \in graph.forward[Platoons[k][i]]
      PROVE /\ graph.keys[l][Platoons[k][i]] \in Seq(Int)
            /\ graph.keys[l][Platoons[k][i]] # <<>>
            /\ \A m, n \in DOMAIN graph.keys[l][Platoons[k][i]] : m < n =>
                 graph.keys[l][Platoons[k][i]][m] <= graph.keys[l][Platoons[k][i]][n]
            /\ \A j \in DOMAIN Platoons[k] : l \in graph.forward[Platoons[k][j]] /\ i < j =>
                 \A m \in DOMAIN graph.keys[l][Platoons[k][i]],
                    n \in DOMAIN graph.keys[l][Platoons[k][j]] :
                   graph.keys[l][Platoons[k][i]][m] <= graph.keys[l][Platoons[k][j]][n]
  BY <1>1, <1>5 DEF SortedLegs, Legs, Platoons
<1>6. ASSUME NEW l \in Legs, NEW b \in Mine(l)
      PROVE /\ IsBatch(b) /\ graph.keys[l][b] \in Seq(Int) /\ graph.keys[l][b] # <<>>
            /\ \A m, n \in DOMAIN graph.keys[l][b] :
                 m < n => graph.keys[l][b][m] <= graph.keys[l][b][n]
  <2>1. PICK k \in DOMAIN Platoons : \E i \in DOMAIN Platoons[k] :
                                 b = Platoons[k][i] /\ l \in graph.forward[b]
    BY DEF Mine
  <2>2. PICK i \in DOMAIN Platoons[k] : b = Platoons[k][i] /\ l \in graph.forward[b]
    BY <2>1
  <2>3. IsBatch(b)
    BY DEF Mine, IsBatch, EOS, Err
  <2> QED
    BY <1>5, <2>2, <2>3
<1>7. \A l \in Legs : \A b \in Mine(l) : Keys(l, b) \subseteq Int
  BY <1>6 DEF Keys, ToSet
<1>8. ASSUME NEW l \in Legs, NEW k \in DOMAIN Platoons, NEW i \in DOMAIN Platoons[k],
             l \in graph.forward[Platoons[k][i]]
      PROVE Platoons[k][i] \in Mine(l)
  BY <1>4, <1>8 DEF Mine
<1>9. ASSUME NEW l \in Legs, NEW k \in DOMAIN Platoons, NEW i \in DOMAIN Platoons[k],
             NEW j \in DOMAIN Platoons[k], l \in graph.forward[Platoons[k][i]],
             l \in graph.forward[Platoons[k][j]], i < j
      PROVE Precedes(Keys(l, Platoons[k][i]), Keys(l, Platoons[k][j]))
  BY <1>5, <1>9 DEF Keys, ToSet, Precedes
<1>10. ASSUME NEW l \in Legs, NEW k \in DOMAIN Platoons,
              NEW i \in DOMAIN Platoons[k], NEW j \in DOMAIN Platoons[k]
       PROVE /\ Platoons[k][i] \in Nat \ {0} /\ graph.forward[Platoons[k][i]] \subseteq Legs
             /\ l \in graph.forward[Platoons[k][i]] => Platoons[k][i] \in Mine(l)
             /\ /\ l \in graph.forward[Platoons[k][i]] /\ l \in graph.forward[Platoons[k][j]]
                /\ i < j
                => Precedes(Keys(l, Platoons[k][i]), Keys(l, Platoons[k][j]))
  BY <1>4, <1>8, <1>9
<1> QED
  BY <1>2, <1>3, <1>6, <1>7, <1>10


-----------------------------------------------------------------------------
(* The router: what is ahead of a leg becomes less, except for the leg     *)
(* that takes part in the step.                                            *)

LEMMA Forwarding ==
  ASSUME TypeInv, graph.join = "merge", NEW b, Exits(b) \subseteq Legs, NEW i \in Nat, Forward(b, i)
  PROVE \/ /\ router'.pc = "send" /\ router'.item = b /\ blocked' = blocked
           /\ router'.at \in Exits(b) \ blocked /\ router'.at > i
           /\ \A l \in Legs : l \in Exits(b) \ blocked /\ l > i => l >= router'.at
           /\ DOMAIN router' = {"pc", "item", "at"}
        \/ /\ router'.pc = "top" /\ DOMAIN router' = {"pc", "item", "at"}
           /\ blocked' = IF b = EOS THEN {} ELSE blocked
           /\ \A l \in Legs : l \in Exits(b) \ blocked => l <= i
<1> DEFINE T == {l \in Exits(b) \ blocked : l > i}
<1>1. CASE T # {}
  <2>1. router' = [pc |-> "send", item |-> b, at |-> Min(T)] /\ blocked' = blocked
    BY <1>1 DEF Forward
  <2>2. T \in SUBSET Nat
    BY Batches DEF TypeInv, RouterTypes
  <2>3. Min(T) \in T /\ \A y \in T : Min(T) <= y
    BY <1>1, <2>2, MinLeast
  <2>4. \A l \in Legs : l \in Exits(b) \ blocked /\ l > i => l >= Min(T)
    BY <2>2, <2>3
  <2> QED
    BY <2>1, <2>3, <2>4
<1>2. CASE T = {}
  BY <1>2, Batches DEF Forward, TypeInv, RouterTypes
<1> QED
  BY <1>1, <1>2

(* The batch the source has next. *)
LEMMA Sourced ==
  ASSUME TypeInv, graph.join = "merge", SourceItem # EOS
  PROVE /\ src.k \in DOMAIN Platoons /\ src.i \in DOMAIN Platoons[src.k]
        /\ SourceItem = Platoons[src.k][src.i]
        /\ Exits(SourceItem) = graph.forward[SourceItem]
        /\ Exits(SourceItem) \subseteq Legs
<1>1. /\ src.k \in Nat \ {0} /\ src.i \in Nat \ {0} /\ Platoons \in Seq(Seq(Nat \ {0}))
      /\ Legs = 1 .. Len(graph.legs)
  BY Batches DEF TypeInv, RouterTypes
<1>2. /\ ~(src.k > Len(Platoons)) /\ ~(src.i > Len(Platoons[src.k]))
      /\ SourceItem = Platoons[src.k][src.i]
  BY DEF SourceItem
<1>3. src.k \in DOMAIN Platoons
  BY <1>1, <1>2
<1>4. Platoons[src.k] \in Seq(Nat \ {0})
  BY <1>1, <1>3
<1>5. src.i \in DOMAIN Platoons[src.k]
  BY <1>1, <1>2, <1>4
<1>6. graph.forward[SourceItem] \subseteq Legs
  <2>1. \A g \in Graphs : \A m \in DOMAIN g.platoons : \A n \in DOMAIN g.platoons[m] :
          g.forward[g.platoons[m][n]] \subseteq DOMAIN g.legs
    BY RouterAssumption
  <2> QED
    BY <1>2, <1>3, <1>5, <2>1 DEF TypeInv, RouterTypes, Platoons, Legs
<1> QED
  BY <1>2, <1>3, <1>5, <1>6 DEF Exits

LEMMA PulledAhead ==
  ASSUME TypeInv, graph.join = "merge", PullUpstream \/ PullUpstreamFails, NEW l \in Legs
  PROVE Ahead(l)' \subseteq Ahead(l) /\ RouterInv'
<1>0. /\ router.pc = "top" /\ graph' = graph /\ Legs' = Legs /\ Platoons' = Platoons
      /\ blocked # Legs /\ UNCHANGED leg
  BY DEF PullUpstream, PullUpstreamFails, Legs, Platoons
<1>1. CASE Forward(EOS, 0)
  <2>1. Exits(EOS) = Legs
    BY DEF Exits
  <2>2. \A m \in Legs : m \in Nat /\ m > 0
    BY Batches DEF TypeInv, RouterTypes
  <2>3. ~ \A m \in Legs : m \in blocked \/ m <= 0
    <3>1. blocked \subseteq Legs
      BY DEF TypeInv, RouterTypes
    <3> QED
      BY <1>0, <2>2, <3>1
  <2> QED
    BY <1>0, <1>1, <2>1, <2>2, <2>3, Forwarding DEF RouterInv, Ahead, SendsEOS
<1>2. CASE Forward(SourceItem, 0) /\ SourceItem # EOS /\ src' = [src EXCEPT !.i = src.i + 1]
  <2>1. /\ src.k \in DOMAIN Platoons /\ src.i \in DOMAIN Platoons[src.k]
        /\ SourceItem = Platoons[src.k][src.i]
        /\ Exits(SourceItem) = graph.forward[SourceItem] /\ Exits(SourceItem) \subseteq Legs
    BY <1>2, Sourced
  <2>2. src'.k = src.k /\ src'.i = src.i + 1 /\ src.i \in Nat /\ src'.i - 1 = src.i
    BY <1>2 DEF TypeInv, RouterTypes
  <2> DEFINE b == SourceItem
  <2> HIDE DEF b
  <2>3. /\ blocked' = blocked
        /\ \/ /\ router'.pc = "send" /\ router'.item = b
              /\ router'.at \in Exits(b) \ blocked
           \/ router'.pc = "top"
    BY <1>2, <2>1, Forwarding DEF b
  <2>4. RouterInv'
    BY <1>0, <2>1, <2>2, <2>3 DEF RouterInv, b
  <2>5. ASSUME NEW x \in Ahead(l)' PROVE x \in Ahead(l)
    <3>1. CASE l \in blocked
      BY <1>0, <2>3, <2>5, <3>1 DEF Ahead
    <3>2. CASE l \notin blocked /\ router'.pc = "send" /\ l \in graph.forward[b] /\ x \in Keys(l, b)
      BY <1>0, <2>1, <2>2, <3>2, <2>5 DEF Ahead, SendsEOS, b
    <3>3. CASE l \notin blocked /\ \E i \in DOMAIN Platoons[src.k] :
                       /\ i >= src.i + 1 /\ l \in graph.forward[Platoons[src.k][i]]
                       /\ x \in Keys(l, Platoons[src.k][i])
      <4>1. PICK i \in DOMAIN Platoons[src.k] : /\ i >= src.i + 1
                       /\ l \in graph.forward[Platoons[src.k][i]]
                       /\ x \in Keys(l, Platoons[src.k][i])
        BY <3>3
      <4>2. i >= src.i
        <5>1. DOMAIN Platoons[src.k] \subseteq Nat
          BY <2>1, Batches, SMTT(30) DEF TypeInv, RouterTypes
        <5> QED
          BY <4>1, <5>1, <2>2
      <4> QED
        BY <1>0, <2>1, <2>5, <4>1, <4>2 DEF Ahead, SendsEOS
    <3>4. /\ router'.pc = "send" => Keys(l, router.item)' = Keys(l, b)
          /\ \A i : Keys(l, Platoons[src.k][i])' = Keys(l, Platoons[src.k][i])
      BY <1>0, <2>2, <2>3 DEF Keys
    <3>5. ~SendsEOS'
      BY <1>2, <2>3 DEF SendsEOS, b
    <3> QED
      BY <1>0, <2>2, <2>3, <2>5, <3>1, <3>2, <3>3, <3>4, <3>5 DEF Ahead
  <2> QED
    BY <2>4, <2>5
<1> QED
  BY <1>1, <1>2 DEF PullUpstream, PullUpstreamFails

(* The batch being sent, and what comes after it. *)
LEMMA Sending ==
  ASSUME TypeInv, RouterInv, graph.join = "merge", router.pc = "send", router.item # EOS
  PROVE /\ Exits(router.item) = graph.forward[router.item] /\ Exits(router.item) \subseteq Legs
        /\ router.item \in Mine(router.at)
        /\ Keys(router.at, router.item) \subseteq Ahead(router.at)
        /\ \A i \in DOMAIN Platoons[src.k] :
             i >= src.i /\ router.at \in graph.forward[Platoons[src.k][i]]
               => Precedes(Keys(router.at, router.item), Keys(router.at, Platoons[src.k][i]))
<1> DEFINE l == router.at
           b == router.item
           j == src.i - 1
<1>1. /\ l \in Legs \ blocked /\ src.k \in DOMAIN Platoons /\ j \in DOMAIN Platoons[src.k]
      /\ b = Platoons[src.k][j] /\ l \in graph.forward[b]
  BY DEF RouterInv
<1>2. /\ src.i \in Nat /\ j \in Nat /\ Legs = 1 .. Len(graph.legs) /\ l \in Nat
      /\ DOMAIN Platoons[src.k] \subseteq Nat
  <2>1. /\ src.i \in Nat /\ Legs = 1 .. Len(graph.legs) /\ Platoons \in Seq(Seq(Nat \ {0}))
        /\ Len(graph.legs) \in Nat
    BY Batches DEF TypeInv, RouterTypes
  <2>2. Platoons[src.k] \in Seq(Nat \ {0})
    BY <1>1, <2>1
  <2>3. DOMAIN Platoons[src.k] \subseteq Nat
    BY <2>2
  <2> QED
    BY <1>1, <2>1, <2>3, SMTT(30)
<1>3. /\ b \in Nat \ {0} /\ graph.forward[b] \subseteq Legs /\ b \in Mine(l)
  BY <1>1, Batches DEF TypeInv, RouterTypes
<1>4. Keys(l, b) \subseteq Ahead(l)
  <2>1. Keys(l, b) \subseteq Int
    BY <1>1, <1>3, Batches DEF TypeInv, RouterTypes
  <2> QED
    BY <1>1, <1>2, <2>1 DEF Ahead, SendsEOS
<1>5. ASSUME NEW i \in DOMAIN Platoons[src.k], i >= src.i, l \in graph.forward[Platoons[src.k][i]]
      PROVE Precedes(Keys(l, b), Keys(l, Platoons[src.k][i]))
  <2>1. j < i
    BY <1>2, <1>5
  <2> QED
    BY <1>1, <1>5, <2>1, Batches DEF TypeInv, RouterTypes
<1> QED
  BY <1>3, <1>4, <1>5 DEF Exits

LEMMA ServedAhead ==
  ASSUME TypeInv, RouterInv, graph.join = "merge", Send \/ TakeDone
  PROVE /\ RouterInv'
        /\ \A l \in Legs : l # router.at => Ahead(l)' \subseteq Ahead(l)
        /\ \A l \in Legs : Send /\ l = router.at /\ router.item # EOS =>
             /\ Ahead(l)' \subseteq Ahead(l)
             /\ Precedes(Keys(l, router.item), Ahead(l)')
<1> DEFINE b == router.item
           at == router.at
<1>0. /\ router.pc = "send" /\ graph' = graph /\ Legs' = Legs /\ Platoons' = Platoons /\ src' = src
      /\ at \in Legs \ blocked
  BY DEF Send, TakeDone, Legs, Platoons, RouterInv
<1>1. \A l \in Legs : l \in Nat
  BY Batches DEF TypeInv, RouterTypes
<1>3. CASE router.item = EOS
  <2>1. Forward(EOS, at) /\ Exits(EOS) = Legs
    BY <1>3 DEF Send, TakeDone, Exits
  <2>2. \/ /\ router'.pc = "send" /\ router'.item = EOS /\ blocked' = blocked
           /\ router'.at \in Legs \ blocked
           /\ \A l \in Legs : l \notin blocked /\ l > at => l >= router'.at
        \/ /\ router'.pc = "top"
           /\ \A l \in Legs : l \in blocked \/ l <= at
    BY <1>0, <1>1, <2>1, Forwarding
  <2>3. RouterInv'
    BY <1>0, <2>2 DEF RouterInv
  <2>4. ASSUME NEW l \in Legs, l # at PROVE Ahead(l)' \subseteq Ahead(l)
    <3>1. CASE l \in blocked \/ l < at
      BY <1>0, <1>3, <3>1 DEF Ahead, SendsEOS
    <3>2. CASE l \notin blocked /\ l > at
      <4>1. router'.pc = "send" /\ router'.item = EOS /\ blocked' = blocked /\ l >= router'.at
        BY <1>0, <1>1, <2>2, <3>2
      <4>2. ~(l < router'.at)
        BY <1>0, <1>1, <2>2, <4>1
      <4> QED
        BY <3>2, <4>1, <4>2 DEF Ahead, SendsEOS
    <3> QED
      BY <1>0, <1>1, <2>4, <3>1, <3>2
  <2> QED
    BY <1>3, <2>3, <2>4
<1>4. CASE router.item # EOS
  <2>0. /\ Exits(b) = graph.forward[b] /\ Exits(b) \subseteq Legs /\ b \in Mine(at)
        /\ Keys(at, b) \subseteq Ahead(at)
        /\ \A i \in DOMAIN Platoons[src.k] :
             i >= src.i /\ at \in graph.forward[Platoons[src.k][i]]
               => Precedes(Keys(at, b), Keys(at, Platoons[src.k][i]))
    BY <1>0, <1>4, Sending
  <2>1. /\ blocked \subseteq blocked' /\ blocked' \subseteq blocked \cup {at}
        /\ Send => blocked' = blocked
        /\ \/ /\ router'.pc = "send" /\ router'.item = b /\ router'.at > at
              /\ router'.at \in Exits(b) \ blocked
           \/ router'.pc = "top"
    <3>1. CASE Send
      <4>1. Forward(b, at)
        BY <3>1 DEF Send
      <4> QED
        BY <1>0, <1>1, <1>4, <2>0, <3>1, <4>1, Forwarding
    <3>2. CASE TakeDone
      <4> DEFINE T == {l \in Exits(b) \ blocked : l > at}
      <4>1. /\ router' = IF T = {} THEN [pc |-> "top", item |-> EOS, at |-> 0]
                         ELSE [router EXCEPT !.at = Min(T)]
            /\ blocked' = blocked \cup {at}
        BY <1>4, <3>2 DEF TakeDone
      <4>2. T # {} => Min(T) \in T
        <5>1. T \in SUBSET Nat
          BY <1>1, <2>0
        <5> QED
          BY <5>1, MinLeast
      <4>3. ~Send
        BY <3>2 DEF Send, TakeDone
      <4> QED
        BY <1>0, <4>1, <4>2, <4>3 DEF TypeInv, RouterTypes
    <3> QED
      BY <3>1, <3>2
  <2>2. RouterInv'
    <3>1. ASSUME router'.pc = "send" PROVE /\ router'.item = b /\ router'.at \in Exits(b) \ blocked
                                           /\ router'.at # at
      BY <1>0, <1>1, <2>0, <2>1, <3>1
    <3> QED
      BY <1>0, <1>4, <2>0, <2>1, <3>1 DEF RouterInv
  <2>3. ~SendsEOS'
    BY <1>4, <2>1 DEF SendsEOS
  <2>4. ASSUME NEW l \in Legs, l \in blocked' => l \in blocked, NEW x \in Ahead(l)'
        PROVE /\ x \in Ahead(l)
              /\ l = at => \/ l \in blocked
                           \/ \E i \in DOMAIN Platoons[src.k] :
                                /\ i >= src.i /\ at \in graph.forward[Platoons[src.k][i]]
                                /\ x \in Keys(at, Platoons[src.k][i])
    <3>0. x \in Int /\ ~SendsEOS /\ router.pc # "end"
      BY <1>0, <1>4, <2>4 DEF Ahead, SendsEOS
    <3>1. CASE l \in blocked
      BY <3>0, <3>1 DEF Ahead
    <3>2. CASE router'.pc = "send" /\ l >= router'.at /\ l \in graph.forward[b] /\ x \in Keys(l, b)
      <4>1. l >= at /\ l # at
        BY <1>0, <1>1, <2>0, <2>1, <3>2
      <4> QED
        BY <1>0, <3>0, <3>2, <4>1 DEF Ahead
    <3>3. CASE \E i \in DOMAIN Platoons[src.k] :
                 /\ src.k \in DOMAIN Platoons /\ i >= src.i
                 /\ l \in graph.forward[Platoons[src.k][i]] /\ x \in Keys(l, Platoons[src.k][i])
      BY <3>0, <3>3 DEF Ahead
    <3>4. /\ router'.pc = "send" => Keys(l, router.item)' = Keys(l, b)
          /\ \A i : Keys(l, Platoons[src.k][i])' = Keys(l, Platoons[src.k][i])
      BY <1>0, <2>1 DEF Keys
    <3> QED
      BY <1>0, <2>1, <2>3, <2>4, <3>1, <3>2, <3>3, <3>4 DEF Ahead
  <2>5. ASSUME NEW l \in Legs, l # at PROVE Ahead(l)' \subseteq Ahead(l)
    BY <2>1, <2>4, <2>5
  <2>6. ASSUME Send, NEW l \in Legs, l = at, NEW x \in Ahead(l)'
        PROVE x \in Ahead(l) /\ \A y \in Keys(l, b) : y <= x
    <3>1. l \notin blocked /\ (l \in blocked' => l \in blocked)
      BY <1>0, <2>1, <2>6
    <3>2. /\ x \in Ahead(l)
          /\ \E i \in DOMAIN Platoons[src.k] :
               /\ i >= src.i /\ l \in graph.forward[Platoons[src.k][i]]
               /\ x \in Keys(l, Platoons[src.k][i])
      BY <2>4, <2>6, <3>1
    <3>3. PICK i \in DOMAIN Platoons[src.k] : /\ i >= src.i
                                             /\ l \in graph.forward[Platoons[src.k][i]]
                                             /\ x \in Keys(l, Platoons[src.k][i])
      BY <3>2
    <3>4. Precedes(Keys(l, b), Keys(l, Platoons[src.k][i]))
      BY <2>0, <2>6, <3>3
    <3> QED
      BY <3>2, <3>3, <3>4 DEF Precedes
  <2> QED
    BY <2>2, <2>5, <2>6 DEF Precedes
<1> QED
  BY <1>3, <1>4

LEMMA RouterAhead ==
  ASSUME TypeInv, graph.join = "merge", DoneUpstream \/ RouterCancelled
  PROVE RouterInv' /\ \A l \in Legs : Ahead(l)' \subseteq Ahead(l)
<1>1. CASE DoneUpstream
  BY <1>1 DEF DoneUpstream, RouterInv, Ahead
<1>2. CASE RouterCancelled
  BY <1>2 DEF RouterCancelled, RouterInv, Ahead
<1> QED
  BY <1>1, <1>2

-----------------------------------------------------------------------------
(* The legs. *)

LEMMA LegKinds ==
  ASSUME TypeInv, NEW l \in Legs
  PROVE /\ \A b \in {EOS, Err} \cup Mine(l) :
             DOMAIN Received(l, b) = Fields /\ Received(l, b).item \in {EOS, Err} \cup Mine(l)
        /\ DOMAIN Pulling(l) = Fields /\ Pulling(l).item = EOS
        /\ DOMAIN Dropping(l) = Fields /\ Dropping(l).item = EOS
        /\ DOMAIN Dropped(l) = Fields /\ Dropped(l).item \in {EOS, Err} \cup Mine(l)
        /\ graph.legs[l] \in {"pass", "head", "tail"}
<1>1. /\ DOMAIN leg[l] = Fields /\ graph.legs[l] \in {"pass", "head", "tail"}
      /\ leg[l].item \in {EOS, Err} \cup Mine(l)
  BY RouterAssumption DEF TypeInv, LegTypes, RouterTypes, Legs
<1>2. ASSUME NEW b \in {EOS, Err} \cup Mine(l)
      PROVE DOMAIN Received(l, b) = Fields /\ Received(l, b).item \in {EOS, Err} \cup Mine(l)
  BY <1>1 DEF Received, Fields
<1>3. /\ DOMAIN Pulling(l) = Fields /\ Pulling(l).item = EOS
      /\ DOMAIN Dropping(l) = Fields /\ Dropping(l).item = EOS
  BY DEF Pulling, Dropping, Fields
<1>4. DOMAIN Dropped(l) = Fields /\ Dropped(l).item \in {EOS, Err} \cup Mine(l)
  BY <1>1 DEF Dropped, Fields
<1> QED
  BY <1>1, <1>2, <1>3, <1>4

LEMMA SameGraph ==
  ASSUME graph' = graph
  PROVE /\ Legs' = Legs /\ Platoons' = Platoons
        /\ \A l : Mine(l)' = Mine(l)
        /\ \A l, b : Keys(l, b)' = Keys(l, b)
<1>1. Legs' = Legs /\ Platoons' = Platoons
  BY DEF Legs, Platoons
<1>2. ASSUME NEW l PROVE Mine(l)' = Mine(l)
  BY <1>1 DEF Mine
<1>3. ASSUME NEW l, NEW b PROVE Keys(l, b)' = Keys(l, b)
  BY DEF Keys
<1> QED
  BY <1>1, <1>2, <1>3

(* A leg that does not move, and what is ahead of it has not grown. *)
LEMMA LegStays ==
  ASSUME NEW l, graph' = graph, leg'[l] = leg[l], Holds(l), Ahead(l)' \subseteq Ahead(l)
  PROVE Holds(l)' /\ Future(l)' \subseteq Future(l)
<1>1. /\ AtEnd(l)' = AtEnd(l) /\ Keys(l, leg[l].item)' = Keys(l, leg[l].item)
      /\ IsBatch(leg[l].item)' = IsBatch(leg[l].item)
  BY DEF AtEnd, Keys, IsBatch
<1>2. Holds(l)'
  BY <1>1 DEF Holds, Precedes
<1>3. Future(l)' \subseteq Future(l)
  BY <1>1 DEF Future
<1> QED
  BY <1>2, <1>3

(* The leg takes what the router sends. *)
LEMMA LegReceives ==
  ASSUME TypeInv, RouterInv, graph.join = "merge", Send, NEW l \in Legs, l = router.at, Holds(l)
  PROVE Holds(l)' /\ Future(l)' \subseteq Future(l)
<1> DEFINE b == router.item
<1>0. /\ leg[l].pc = "recv" /\ leg'[l] = Received(l, b) /\ graph' = graph /\ ~AtEnd(l)
      /\ graph.legs[l] \in {"pass", "head", "tail"} /\ Limit \in Nat \ {0}
      /\ DOMAIN leg[l] = Fields
  BY RouterAssumption, LegKinds DEF Send, TypeInv, LegTypes, Holds
<1>1. \A c : Keys(l, c)' = Keys(l, c)
  BY <1>0, SameGraph
<1>2. CASE b = EOS
  <2>1. CASE graph.legs[l] \in {"pass", "head"}
    <3>1. leg'[l].pc = "out" /\ leg'[l].item = EOS
      BY <1>0, <1>2, <2>1 DEF Received
    <3> QED
      BY <3>1 DEF Holds, Future, IsBatch
  <2>2. CASE graph.legs[l] = "tail"
    <3>1. leg'[l] = [leg[l] EXCEPT !.pc = "out", !.op = IF leg[l].item = EOS THEN 0 ELSE 1]
      BY <1>0, <1>2, <2>2 DEF Received, EOS, Err
    <3>2. /\ leg'[l].pc = "out" /\ leg'[l].item = leg[l].item
          /\ leg[l].item # EOS => leg'[l].op = 1
      BY <1>0, <3>1 DEF Fields
    <3>3. leg[l].item # EOS => AtEnd(l)'
      BY <1>0, <2>2, <3>2 DEF AtEnd
    <3>4. Keys(l, leg[l].item)' = Keys(l, leg[l].item)
      BY <1>0, <3>2 DEF Keys
    <3> QED
      BY <1>0, <3>2, <3>3, <3>4 DEF Holds, Future, IsBatch
  <2> QED
    BY <1>0, <2>1, <2>2
<1>3. CASE b # EOS
  <2>1. b \in Mine(l) /\ Keys(l, b) \subseteq Ahead(l)
    BY <1>3, Sending DEF Send
  <2>2. IsBatch(b)
    BY <2>1, Batches DEF TypeInv, RouterTypes
  <2>3. Ahead(l)' \subseteq Ahead(l) /\ Precedes(Keys(l, b), Ahead(l)')
    BY <1>3, ServedAhead
  <2>4. /\ leg'[l].item = b
        /\ \/ leg'[l].pc = "out" \/ (leg'[l].pc = "recv" /\ ~AtEnd(l)')
           \/ leg'[l].pc = "done" /\ AtEnd(l)'
    <3>1. CASE graph.legs[l] = "pass"
      BY <1>0, <3>1 DEF Received
    <3>2. CASE graph.legs[l] = "head"
      BY <1>0, <2>2, <3>2 DEF Received, AtEnd, IsBatch
    <3>3. CASE graph.legs[l] = "tail"
      BY <1>0, <2>2, <3>3 DEF Received, AtEnd, IsBatch
    <3> QED
      BY <1>0, <3>1, <3>2, <3>3
  <2>5. Keys(l, leg[l].item)' = Keys(l, b)
    BY <1>0, <2>4 DEF Keys
  <2>6. Holds(l)'
    BY <2>2, <2>3, <2>4, <2>5 DEF Holds, IsBatch
  <2>7. Ahead(l) \subseteq Future(l)
    BY <1>0 DEF Future, Ahead
  <2>8. Future(l)' \subseteq Keys(l, b) \cup Ahead(l)'
    BY <2>2, <2>4, <2>5 DEF Future, IsBatch
  <2> QED
    BY <2>1, <2>3, <2>6, <2>7, <2>8
<1> QED
  BY <1>2, <1>3

(* The router takes the leg's done. *)
LEMMA LegDropped ==
  ASSUME TypeInv, NEW l \in Legs, Holds(l), graph' = graph, leg[l].pc = "done",
         leg'[l] = Dropped(l)
  PROVE Holds(l)' /\ Future(l)' \subseteq Future(l)
<1>0. DOMAIN leg[l] = Fields
  BY DEF TypeInv, LegTypes
<1>1. CASE leg[l].item = EOS
  <2>1. leg'[l].pc = "ended"
    BY <1>0, <1>1 DEF Dropped, Fields
  <2> QED
    BY <1>1, <2>1 DEF Holds, Future
<1>2. CASE leg[l].item # EOS
  <2>1. leg'[l].pc = "out" /\ leg'[l].item = leg[l].item /\ leg'[l].op = leg[l].op
    BY <1>0, <1>2 DEF Dropped, Fields
  <2>2. AtEnd(l) /\ AtEnd(l)' /\ IsBatch(leg[l].item)
    BY <1>2, <2>1 DEF Holds, AtEnd
  <2>3. Keys(l, leg[l].item)' = Keys(l, leg[l].item)
    BY <2>1 DEF Keys
  <2> QED
    BY <2>1, <2>2, <2>3 DEF Holds, Future
<1> QED
  BY <1>1, <1>2

(* A leg that begins to pull where nothing was known of it. *)
LEMMA LegPulls ==
  ASSUME TypeInv, NEW l \in Legs, graph' = graph, leg'[l] = Pulling(l)
  PROVE Holds(l)' /\ Future(l)' \subseteq Ahead(l)'
<1>0. DOMAIN leg[l] = Fields
  BY DEF TypeInv, LegTypes
<1>1. CASE AtEnd(l)
  <2>1. leg'[l].pc = "out" /\ leg'[l].item = EOS
    BY <1>1 DEF Pulling
  <2> QED
    BY <2>1 DEF Holds, Future, IsBatch
<1>2. CASE ~AtEnd(l)
  <2>1. leg'[l].pc = "recv" /\ leg'[l].item = EOS /\ leg'[l].op = leg[l].op
    BY <1>2 DEF Pulling
  <2>2. ~AtEnd(l)'
    BY <1>2, <2>1 DEF AtEnd
  <2> QED
    BY <2>1, <2>2 DEF Holds, Future, IsBatch
<1> QED
  BY <1>1, <1>2

LEMMA LegFails ==
  ASSUME NEW l, leg'[l].pc = "end" \/ (leg'[l].pc = "out" /\ leg'[l].item \in {EOS, Err})
  PROVE Holds(l)' /\ Future(l)' = {}
  BY DEF Holds, Future, IsBatch

(* Steps that the operator takes no part in. *)
LEMMA MergeStays ==
  ASSUME HolInv, MergeInv, MergeTypes, UNCHANGED <<mergeVars, over>>, graph' = graph,
         router'.pc = "off" => router.pc = "off",
         \A l \in Legs : Future(l)' \subseteq Future(l)
  PROVE HolInv' /\ MergeInv' /\ MergeTypes'
<1>0. /\ UNCHANGED <<merge, acc, hol, vals, out, over>> /\ Legs' = Legs /\ Keyed' = Keyed
      /\ hol \subseteq Legs
  BY SameGraph DEF mergeVars, MergeTypes, Keyed
<1>1. HolInv'
  <2>1. ASSUME NEW l \in hol PROVE Precedes(KeysIn(vals[l]), Future(l)')
    BY <1>0, <2>1 DEF HolInv, Precedes
  <2>2. \A l : Ascending(vals[l])' = Ascending(vals[l]) /\ KeysIn(vals[l])' = KeysIn(vals[l])
    BY <1>0 DEF Ascending, KeysIn
  <2> QED
    BY <1>0, <2>1, <2>2 DEF HolInv, Precedes
<1>2. MergeInv'
  <2>1. /\ Ascending(acc)' = Ascending(acc) /\ KeysIn(acc)' = KeysIn(acc)
        /\ ToSet(out)' = ToSet(out) /\ Serving' = Serving
        /\ \A l : KeysIn(vals[l])' = KeysIn(vals[l])
    BY <1>0 DEF Ascending, KeysIn, Serving
  <2>2. merge.pc = "fill" => \A l \in Legs : l = merge.at => Precedes(KeysIn(acc), Future(l)')
    BY <1>0 DEF MergeInv, Precedes
  <2> QED
    BY <1>0, <2>1, <2>2 DEF MergeInv, Precedes
<1>3. MergeTypes'
  BY <1>0 DEF MergeTypes
<1> QED
  BY <1>1, <1>2, <1>3

LEMMA Forwarded ==
  ASSUME NEW b, NEW i, Forward(b, i), blocked \subseteq Legs
  PROVE DOMAIN router' = {"pc", "item", "at"} /\ blocked' \subseteq Legs /\ router'.pc # "off"
  BY DEF Forward

LEMMA RouterTyped ==
  ASSUME TypeInv, RouterInv, graph.join = "merge", RouterNext
  PROVE RouterTypes' /\ (router'.pc = "off" => router.pc = "off")
<1>0. /\ graph' = graph /\ Legs' = Legs
      /\ graph \in Graphs /\ blocked \subseteq Legs /\ DOMAIN router = {"pc", "item", "at"}
      /\ DOMAIN src = {"k", "i"} /\ src.k \in Nat \ {0} /\ src.i \in Nat \ {0}
      /\ Len(Platoons) \in Nat
  <2>1. graph' = graph
    BY DEF RouterNext, DoneUpstream, PullUpstream, PullUpstreamFails, Send, TakeDone,
           RouterCancelled
  <2>2. graph \in Graphs /\ Platoons \in Seq(Seq(Nat \ {0}))
    BY Batches DEF TypeInv, RouterTypes
  <2> QED
    BY <2>1, <2>2, SameGraph DEF TypeInv, RouterTypes
<1>1. DOMAIN src' = {"k", "i"} /\ src'.k \in Nat \ {0} /\ src'.i \in Nat \ {0}
  <2>1. \/ src' = src \/ src' = NextPlatoonOf(src) \/ src' = [src EXCEPT !.i = src.i + 1]
    BY DEF RouterNext, DoneUpstream, PullUpstream, PullUpstreamFails, Send, TakeDone,
           RouterCancelled
  <2>2. Min({src.k + 1, Len(Platoons) + 1}) \in {src.k + 1, Len(Platoons) + 1}
    <3> DEFINE S == {src.k + 1, Len(Platoons) + 1}
    <3>1. S \in SUBSET Nat /\ S # {}
      BY <1>0
    <3> HIDE DEF S
    <3>2. Min(S) \in S
      BY <3>1, MinLeast
    <3> QED
      BY <3>2 DEF S
  <2>3. NextPlatoonOf(src).k \in Nat \ {0} /\ NextPlatoonOf(src).i = 1
        /\ DOMAIN NextPlatoonOf(src) = {"k", "i"}
    BY <1>0, <2>2 DEF NextPlatoonOf
  <2> QED
    BY <1>0, <2>1, <2>3
<1>2. DOMAIN router' = {"pc", "item", "at"} /\ blocked' \subseteq Legs
      /\ (router'.pc = "off" => router.pc = "off")
  <2>1. ASSUME NEW b, NEW i, Forward(b, i)
        PROVE DOMAIN router' = {"pc", "item", "at"} /\ blocked' \subseteq Legs
              /\ router'.pc # "off"
    BY <1>0, <2>1, Forwarded
  <2>2. CASE DoneUpstream \/ RouterCancelled
    BY <1>0, <2>2 DEF DoneUpstream, RouterCancelled
  <2>3. CASE PullUpstream \/ PullUpstreamFails \/ Send
    BY <2>1, <2>3 DEF PullUpstream, PullUpstreamFails, Send
  <2>4. CASE TakeDone
    <3>1. CASE router.item = EOS
      BY <2>1, <2>4, <3>1 DEF TakeDone
    <3>2. CASE router.item # EOS
      <4>1. router.at \in Legs
        BY <2>4 DEF TakeDone, RouterInv
      <4> QED
        BY <1>0, <2>4, <3>2, <4>1 DEF TakeDone
    <3> QED
      BY <3>1, <3>2
  <2> QED
    BY <2>2, <2>3, <2>4 DEF RouterNext
<1> QED
  BY <1>0, <1>1, <1>2 DEF RouterTypes

(* One leg moves. *)
LEMMA LegMoves ==
  ASSUME LegTypes, graph' = graph, NEW x \in Legs, NEW r, leg' = [leg EXCEPT ![x] = r],
         DOMAIN r = Fields, r.item \in {EOS, Err} \cup Mine(x)
  PROVE LegTypes' /\ leg'[x] = r /\ \A l \in Legs : l # x => leg'[l] = leg[l]
<1>1. Legs' = Legs /\ \A l : Mine(l)' = Mine(l)
  BY SameGraph
<1> QED
  BY <1>1 DEF LegTypes

LEMMA RouterOrder ==
  ASSUME OrderInv, graph.join = "merge", RouterStep
  PROVE OrderInv'
<1>0. /\ TypeInv /\ RouterInv /\ HoldInv /\ HolInv /\ MergeInv /\ RouterTypes /\ LegTypes
      /\ MergeTypes /\ UNCHANGED <<mergeVars, over>> /\ graph' = graph /\ RouterNext
      /\ Legs' = Legs /\ \A l : Mine(l)' = Mine(l)
  <2>1. graph' = graph
    BY DEF RouterStep, RouterNext, DoneUpstream, PullUpstream, PullUpstreamFails, Send, TakeDone,
           RouterCancelled
  <2> QED
    BY <2>1, SameGraph DEF OrderInv, TypeInv, RouterStep, client
<1>1. RouterTypes' /\ (router'.pc = "off" => router.pc = "off")
  BY <1>0, RouterTyped
<1>2. /\ RouterInv' /\ LegTypes'
      /\ \A l \in Legs : Holds(l)' /\ Future(l)' \subseteq Future(l)
  <2>1. CASE PullUpstream \/ PullUpstreamFails \/ DoneUpstream \/ RouterCancelled
    <3>1. UNCHANGED leg
      BY <2>1 DEF PullUpstream, PullUpstreamFails, DoneUpstream, RouterCancelled
    <3>2. RouterInv'
      <4>1. CASE DoneUpstream \/ RouterCancelled
        BY <1>0, <4>1, RouterAhead
      <4>2. CASE PullUpstream \/ PullUpstreamFails
        <5>1. PICK l \in Legs : TRUE
          BY <1>0, <4>2 DEF PullUpstream, PullUpstreamFails, RouterTypes
        <5> QED
          BY <1>0, <4>2, <5>1, PulledAhead
      <4> QED
        BY <2>1, <4>1, <4>2
    <3>3. \A l \in Legs : Ahead(l)' \subseteq Ahead(l)
      BY <1>0, <2>1, PulledAhead, RouterAhead
    <3>4. LegTypes'
      BY <1>0, <3>1 DEF LegTypes
    <3> QED
      BY <1>0, <3>1, <3>2, <3>3, <3>4, LegStays DEF HoldInv
  <2>2. CASE Send \/ TakeDone
    <3> DEFINE x == router.at
               r == IF leg[x].pc = "recv" THEN Received(x, router.item) ELSE Dropped(x)
    <3>1. /\ RouterInv'
          /\ \A l \in Legs : l # x => Ahead(l)' \subseteq Ahead(l)
      BY <1>0, <2>2, ServedAhead
    <3>2. x \in Legs /\ leg' = [leg EXCEPT ![x] = r]
      BY <1>0, <2>2 DEF Send, TakeDone, RouterInv
    <3>3. router.item \in {EOS, Err} \cup Mine(x)
      BY <1>0, <2>2, Sending DEF Send, TakeDone
    <3>4. DOMAIN r = Fields /\ r.item \in {EOS, Err} \cup Mine(x)
      BY <1>0, <3>2, <3>3, LegKinds
    <3>5. LegTypes' /\ leg'[x] = r /\ \A l \in Legs : l # x => leg'[l] = leg[l]
      <4> HIDE DEF r, x
      <4> QED
        BY <1>0, <3>2, <3>4, LegMoves
    <3>6. ASSUME NEW l \in Legs PROVE Holds(l)' /\ Future(l)' \subseteq Future(l)
      <4>1. Holds(l)
        BY <1>0 DEF HoldInv
      <4>2. CASE l # x
        BY <1>0, <3>1, <3>5, <4>1, <4>2, LegStays
      <4>3. CASE l = x /\ Send
        BY <1>0, <4>1, <4>3, LegReceives
      <4>4. CASE l = x /\ TakeDone
        <5>1. leg[l].pc = "done" /\ leg'[l] = Dropped(l)
          BY <3>5, <4>4 DEF TakeDone
        <5> QED
          BY <1>0, <4>1, <5>1, LegDropped
      <4> QED
        BY <2>2, <4>2, <4>3, <4>4
    <3> QED
      BY <3>1, <3>5, <3>6
  <2> QED
    BY <1>0, <2>1, <2>2 DEF RouterNext
<1>3. HolInv' /\ MergeInv' /\ MergeTypes'
  BY <1>0, <1>1, <1>2, MergeStays
<1>4. HoldInv'
  BY <1>0, <1>2 DEF HoldInv
<1> QED
  BY <1>1, <1>2, <1>3, <1>4 DEF OrderInv, TypeInv

(* Steps that the router takes no part in. *)
LEMMA RouterStays ==
  ASSUME UNCHANGED <<graph, router, blocked, src>>, RouterTypes, RouterInv
  PROVE RouterTypes' /\ RouterInv' /\ \A l : Ahead(l)' = Ahead(l)
<1>1. Legs' = Legs /\ Platoons' = Platoons /\ \A l, b : Keys(l, b)' = Keys(l, b)
  BY SameGraph
<1>2. RouterTypes' /\ RouterInv'
  BY <1>1 DEF RouterTypes, RouterInv
<1>3. ASSUME NEW l PROVE Ahead(l)' = Ahead(l)
  BY <1>1 DEF Ahead, SendsEOS, Keys
<1> QED
  BY <1>2, <1>3

LEMMA LegOrder ==
  ASSUME OrderInv, graph.join = "merge", NEW x \in Legs, RouteCancelled(x) \/ MergePullerStep(x),
         UNCHANGED <<client, mergeVars>>
  PROVE OrderInv'
<1> DEFINE r == IF leg[x].pc = "ended" THEN Pulling(x)
                ELSE IF leg[x].pc = "out" THEN [leg[x] EXCEPT !.pc = "end"]
                ELSE IF leg[x].pc = "recv" THEN [pc |-> "out", item |-> Err, op |-> 0]
                ELSE IF leg[x].item = EOS THEN Dropped(x)
                ELSE [pc |-> "out", item |-> Err, op |-> Limit - 1]
<1>0. /\ TypeInv /\ RouterInv /\ HoldInv /\ HolInv /\ MergeInv /\ RouterTypes /\ LegTypes
      /\ MergeTypes /\ UNCHANGED <<graph, router, blocked, src, mergeVars, over>>
      /\ leg' = [leg EXCEPT ![x] = r] /\ leg[x].pc \in {"ended", "out", "recv", "done"}
      /\ DOMAIN leg[x] = Fields /\ leg[x].item \in {EOS, Err} \cup Mine(x)
  BY DEF OrderInv, TypeInv, LegTypes, RouteCancelled, MergePullerStep, PullAgain,
         MergePullerCancelled, client
<1>1. Legs' = Legs
  BY <1>0, SameGraph
<1>2. DOMAIN r = Fields /\ r.item \in {EOS, Err} \cup Mine(x)
  BY <1>0, LegKinds DEF Fields
<1>3. LegTypes' /\ leg'[x] = r /\ \A l \in Legs : l # x => leg'[l] = leg[l]
  <2> HIDE DEF r
  <2> QED
    BY <1>0, <1>2, LegMoves
<1>4. RouterTypes' /\ RouterInv' /\ \A l : Ahead(l)' = Ahead(l)
  BY <1>0, RouterStays
<1>5. ASSUME NEW l \in Legs PROVE Holds(l)' /\ Future(l)' \subseteq Future(l)
  <2>0. Holds(l)
    BY <1>0 DEF HoldInv
  <2>1. CASE l # x
    BY <1>0, <1>3, <1>4, <2>0, <2>1, LegStays
  <2>2. CASE l = x /\ leg[x].pc = "ended"
    <3>1. Future(l) = Int /\ leg'[l] = Pulling(l)
      BY <1>3, <2>2 DEF Future
    <3>2. Ahead(l) \subseteq Int
      BY DEF Ahead
    <3> QED
      BY <1>0, <1>4, <3>1, <3>2, LegPulls
  <2>3. CASE l = x /\ leg[x].pc = "done" /\ leg[x].item = EOS
    <3>1. leg'[l] = Dropped(l)
      BY <1>3, <2>3
    <3> QED
      BY <1>0, <2>0, <2>3, <3>1, LegDropped
  <2>4. CASE l = x /\ ~(leg[x].pc = "ended" \/ (leg[x].pc = "done" /\ leg[x].item = EOS))
    <3>1. leg'[l].pc = "end" \/ (leg'[l].pc = "out" /\ leg'[l].item = Err)
      BY <1>0, <1>3, <2>4 DEF Fields
    <3>2. Holds(l)' /\ Future(l)' = {}
      BY <3>1, LegFails
    <3> QED
      BY <3>2
  <2> QED
    BY <1>0, <2>1, <2>2, <2>3, <2>4
<1>6. HolInv' /\ MergeInv' /\ MergeTypes'
  BY <1>0, <1>5, MergeStays
<1>7. HoldInv'
  BY <1>1, <1>5 DEF HoldInv
<1> QED
  BY <1>3, <1>4, <1>6, <1>7 DEF OrderInv, TypeInv

LEMMA CancelOrder ==
  ASSUME OrderInv, UNCHANGED <<graph, src, router, blocked, leg, mergeVars, over>>
  PROVE OrderInv'
<1>0. /\ TypeInv /\ RouterInv /\ HoldInv /\ HolInv /\ MergeInv /\ RouterTypes /\ LegTypes
      /\ MergeTypes /\ Legs' = Legs /\ \A l : Mine(l)' = Mine(l)
  BY SameGraph DEF OrderInv, TypeInv
<1>1. RouterTypes' /\ RouterInv' /\ \A l : Ahead(l)' = Ahead(l)
  BY <1>0, RouterStays
<1>2. \A l \in Legs : Holds(l)' /\ Future(l)' \subseteq Future(l)
  BY <1>0, <1>1, LegStays DEF HoldInv
<1>3. HolInv' /\ MergeInv' /\ MergeTypes'
  BY <1>0, <1>2, MergeStays
<1> QED
  BY <1>0, <1>1, <1>2, <1>3 DEF OrderInv, TypeInv, HoldInv, LegTypes

-----------------------------------------------------------------------------
(* The operator. *)

LEMMA Primed ==
  /\ \A l : KeysIn(vals[l])' = KeysIn(vals'[l]) /\ Ascending(vals[l])' = Ascending(vals'[l])
  /\ KeysIn(acc)' = KeysIn(acc') /\ Ascending(acc)' = Ascending(acc') /\ ToSet(out)' = ToSet(out')
<1>1. ASSUME NEW l
      PROVE KeysIn(vals[l])' = KeysIn(vals'[l]) /\ Ascending(vals[l])' = Ascending(vals'[l])
  BY DEF KeysIn, Ascending
<1>2. KeysIn(acc)' = KeysIn(acc') /\ Ascending(acc)' = Ascending(acc') /\ ToSet(out)' = ToSet(out')
  BY DEF KeysIn, Ascending, ToSet
<1> QED
  BY <1>1, <1>2

LEMMA Ends ==
  ASSUME NEW s \in Seq(Keyed), s # <<>>, Ascending(s)
  PROVE /\ First(s) \in KeysIn(s) /\ Last(s).key \in KeysIn(s) /\ KeysIn(s) \subseteq Int
        /\ \A x \in KeysIn(s) : First(s) <= x /\ x <= Last(s).key
<1>1. Len(s) \in Nat /\ Len(s) > 0 /\ DOMAIN s = 1 .. Len(s) /\ \A i \in DOMAIN s : s[i].key \in Int
  <2>1. \A r \in Keyed : r.key \in Int
    BY DEF Keyed
  <2>2. \A i \in DOMAIN s : s[i] \in Keyed
    OBVIOUS
  <2>3. Len(s) \in Nat /\ Len(s) > 0 /\ DOMAIN s = 1 .. Len(s)
    OBVIOUS
  <2> QED
    BY <2>1, <2>2, <2>3
<1>2. Head(s) = s[1] /\ Last(s) = s[Len(s)] /\ 1 \in DOMAIN s /\ Len(s) \in DOMAIN s
  BY <1>1 DEF Last
<1>3. ASSUME NEW i \in DOMAIN s PROVE s[1].key <= s[i].key /\ s[i].key <= s[Len(s)].key
  <2>1. (i = 1 \/ 1 < i) /\ (i = Len(s) \/ i < Len(s))
    BY <1>1
  <2> QED
    BY <1>1, <1>2, <2>1 DEF Ascending
<1> QED
  BY <1>1, <1>2, <1>3 DEF KeysIn, First

(* What a Pull returns is appended. *)
LEMMA Delivered ==
  ASSUME NEW s \in Seq(Keyed), NEW o \in Seq(Int), NEW d, d = o \o [i \in DOMAIN s |-> s[i].key],
         Ascending(s), Precedes(ToSet(o), KeysIn(s)),
         \A i, j \in DOMAIN o : i < j => o[i] <= o[j]
  PROVE /\ d \in Seq(Int)
        /\ \A i, j \in DOMAIN d : i < j => d[i] <= d[j]
        /\ ToSet(d) \subseteq ToSet(o) \cup KeysIn(s)
<1> DEFINE k == [i \in DOMAIN s |-> s[i].key]
<1>1. Len(s) \in Nat /\ DOMAIN s = 1 .. Len(s) /\ \A i \in DOMAIN s : s[i].key \in Int
  <2>1. \A r \in Keyed : r.key \in Int
    BY DEF Keyed
  <2>2. \A i \in DOMAIN s : s[i] \in Keyed
    OBVIOUS
  <2>3. Len(s) \in Nat /\ DOMAIN s = 1 .. Len(s)
    OBVIOUS
  <2> QED
    BY <2>1, <2>2, <2>3
<1>2. k \in Seq(Int) /\ Len(k) = Len(s) /\ \A i \in 1 .. Len(s) : k[i] = s[i].key
  <2>1. k \in [1 .. Len(s) -> Int]
    BY <1>1
  <2> QED
    BY <1>1, <2>1
<1> HIDE DEF k
<1>3. Len(o) \in Nat /\ DOMAIN o = 1 .. Len(o) /\ \A i \in DOMAIN o : o[i] \in Int
  OBVIOUS
<1>4. /\ d \in Seq(Int) /\ Len(d) = Len(o) + Len(s) /\ DOMAIN d = 1 .. Len(o) + Len(s)
      /\ \A i \in 1 .. Len(o) : d[i] = o[i]
      /\ \A i \in (Len(o) + 1) .. (Len(o) + Len(s)) : d[i] = k[i - Len(o)]
  BY <1>1, <1>2, <1>3 DEF k
<1>5. \A i \in DOMAIN o : o[i] \in ToSet(o)
  BY DEF ToSet
<1>6. \A i \in DOMAIN s : s[i].key \in KeysIn(s)
  BY DEF KeysIn
<1>7. ASSUME NEW i \in DOMAIN d
      PROVE \/ i \in DOMAIN o /\ d[i] = o[i]
            \/ i > Len(o) /\ i - Len(o) \in DOMAIN s /\ d[i] = s[i - Len(o)].key
  BY <1>1, <1>2, <1>3, <1>4
<1>8. ASSUME NEW i \in DOMAIN d, NEW j \in DOMAIN d, i < j PROVE d[i] <= d[j]
  <2>0. i \in Int /\ j \in Int
    BY <1>4
  <2>1. CASE i \in DOMAIN o /\ d[i] = o[i]
    <3>1. CASE j \in DOMAIN o /\ d[j] = o[j]
      BY <1>8, <2>1, <3>1
    <3>2. CASE j - Len(o) \in DOMAIN s /\ d[j] = s[j - Len(o)].key
      BY <1>5, <1>6, <2>1, <3>2 DEF Precedes
    <3> QED
      BY <1>7, <3>1, <3>2
  <2>2. CASE i > Len(o) /\ i - Len(o) \in DOMAIN s /\ d[i] = s[i - Len(o)].key
    <3>1. j > Len(o) /\ j \notin DOMAIN o
      BY <1>3, <1>8, <2>0, <2>2
    <3>2. j - Len(o) \in DOMAIN s /\ d[j] = s[j - Len(o)].key
      BY <1>7, <3>1
    <3>3. i - Len(o) < j - Len(o)
      BY <1>3, <1>8, <2>0
    <3> QED
      BY <2>2, <3>2, <3>3 DEF Ascending
  <2> QED
    BY <1>7, <2>1, <2>2
<1>9. ToSet(d) \subseteq ToSet(o) \cup KeysIn(s)
  BY <1>5, <1>6, <1>7, ZenonT(30) DEF ToSet
<1> QED
  BY <1>4, <1>8, <1>9

(* A value is taken off the front. *)
LEMMA Taken ==
  ASSUME NEW s \in Seq(Keyed), s # <<>>, Ascending(s), NEW a \in Seq(Keyed), Ascending(a),
         Precedes(KeysIn(a), KeysIn(s))
  PROVE /\ Tail(s) \in Seq(Keyed) /\ Ascending(Tail(s)) /\ KeysIn(Tail(s)) \subseteq KeysIn(s)
        /\ Len(s) > 1 => Tail(s) # <<>>
        /\ Append(a, Head(s)) \in Seq(Keyed) /\ Append(a, Head(s)) # <<>>
        /\ Ascending(Append(a, Head(s)))
        /\ KeysIn(Append(a, Head(s))) = KeysIn(a) \cup {First(s)}
<1>1. /\ Len(s) \in Nat /\ Len(s) > 0 /\ DOMAIN s = 1 .. Len(s) /\ Head(s) = s[1] /\ s[1] \in Keyed
      /\ Len(a) \in Nat /\ DOMAIN a = 1 .. Len(a)
  OBVIOUS
<1>2. /\ Tail(s) \in Seq(Keyed) /\ Len(Tail(s)) = Len(s) - 1 /\ DOMAIN Tail(s) = 1 .. Len(s) - 1
      /\ \A i \in 1 .. Len(s) - 1 : Tail(s)[i] = s[i + 1]
  BY <1>1
<1>3. Ascending(Tail(s)) /\ KeysIn(Tail(s)) \subseteq KeysIn(s) /\ (Len(s) > 1 => Tail(s) # <<>>)
  <2> DEFINE u == Tail(s)
  <2>1. \A i \in DOMAIN u : i \in Int /\ i + 1 \in DOMAIN s /\ u[i] = s[i + 1]
    BY <1>1, <1>2
  <2>2. Len(s) > 1 => u # <<>>
    <3>1. Len(s) > 1 => 1 \in DOMAIN u
      BY <1>1, <1>2
    <3> QED
      BY <3>1
  <2> HIDE DEF u
  <2>3. \A i, j \in DOMAIN u : i < j => i + 1 < j + 1
    BY <2>1
  <2>4. Ascending(u)
    BY <2>1, <2>3 DEF Ascending
  <2>5. KeysIn(u) \subseteq KeysIn(s)
    BY <2>1 DEF KeysIn
  <2> QED
    BY <2>2, <2>4, <2>5 DEF u
<1> DEFINE t == Append(a, Head(s))
<1>4. /\ t \in Seq(Keyed) /\ t # <<>> /\ DOMAIN t = 1 .. Len(a) + 1
      /\ \A i \in 1 .. Len(a) : t[i] = a[i]
      /\ t[Len(a) + 1] = s[1]
  BY <1>1
<1> HIDE DEF t
<1>5. First(s) = s[1].key /\ First(s) \in KeysIn(s) /\ \A i \in DOMAIN a : a[i].key \in KeysIn(a)
  BY <1>1 DEF First, KeysIn
<1>6. ASSUME NEW i \in DOMAIN t, NEW j \in DOMAIN t, i < j PROVE t[i].key <= t[j].key
  <2>1. i \in DOMAIN a /\ t[i] = a[i]
    BY <1>1, <1>4, <1>6
  <2>2. CASE j \in DOMAIN a
    BY <1>1, <1>4, <1>6, <2>1, <2>2 DEF Ascending
  <2>3. CASE j \notin DOMAIN a
    <3>1. t[j] = s[1]
      BY <1>1, <1>4, <2>3
    <3> QED
      BY <1>5, <2>1, <3>1 DEF Precedes
  <2> QED
    BY <2>2, <2>3
<1>7. KeysIn(t) = KeysIn(a) \cup {First(s)}
  <2>1. Len(a) + 1 \in DOMAIN t /\ \A i \in DOMAIN t : i \in DOMAIN a \/ i = Len(a) + 1
    BY <1>1, <1>4
  <2>2. DOMAIN a \subseteq DOMAIN t
    BY <1>1, <1>4
  <2>3. \A i \in DOMAIN a : t[i].key = a[i].key
    BY <1>1, <1>4
  <2>4. t[Len(a) + 1].key = First(s)
    BY <1>4, <1>5
  <2> HIDE DEF t
  <2>5. \A x \in KeysIn(t) : x \in KeysIn(a) \/ x = First(s)
    BY <2>1, <2>3, <2>4 DEF KeysIn
  <2>6. \A x \in KeysIn(a) : x \in KeysIn(t)
    BY <2>2, <2>3 DEF KeysIn
  <2>7. First(s) \in KeysIn(t)
    BY <2>1, <2>4 DEF KeysIn
  <2> QED
    BY <2>5, <2>6, <2>7
<1> QED
  BY <1>2, <1>3, <1>4, <1>6, <1>7 DEF Ascending, t

(* Steps of the operator alone. *)
LEMMA LegsStay ==
  ASSUME OrderInv, UNCHANGED routerVars
  PROVE /\ RouterTypes' /\ LegTypes' /\ RouterInv' /\ HoldInv'
        /\ UNCHANGED <<graph, router>> /\ Legs' = Legs /\ Keyed' = Keyed
        /\ \A l \in Legs : Future(l)' \subseteq Future(l)
        /\ hol \subseteq Legs /\ DOMAIN vals = Legs /\ \A l \in Legs : vals[l] \in Seq(Keyed)
        /\ acc \in Seq(Keyed) /\ out \in Seq(Int) /\ DOMAIN merge = {"pc", "at", "then"}
        /\ TypeInv /\ HolInv /\ MergeInv /\ MergeTypes
<1>0. /\ TypeInv /\ RouterInv /\ HoldInv /\ HolInv /\ MergeInv /\ RouterTypes /\ LegTypes
      /\ MergeTypes /\ UNCHANGED <<graph, src, router, blocked, leg>>
  BY DEF OrderInv, TypeInv, routerVars
<1>1. Legs' = Legs /\ (\A l : Mine(l)' = Mine(l)) /\ Keyed' = Keyed
  BY <1>0, SameGraph DEF Keyed
<1>2. RouterTypes' /\ RouterInv' /\ \A l : Ahead(l)' = Ahead(l)
  BY <1>0, RouterStays
<1>3. \A l \in Legs : Holds(l)' /\ Future(l)' \subseteq Future(l)
  BY <1>0, <1>2, LegStays DEF HoldInv
<1>4. HoldInv' /\ LegTypes'
  BY <1>0, <1>1, <1>3 DEF HoldInv, LegTypes
<1> QED
  BY <1>0, <1>1, <1>2, <1>3, <1>4 DEF MergeTypes

LEMMA ServeOrder ==
  ASSUME OrderInv, graph.join = "merge", Serve
  PROVE OrderInv'
<1>0. UNCHANGED routerVars /\ merge.pc = "serve" /\ UNCHANGED <<vals, out, over>>
  BY DEF Serve, client
<1>1. /\ RouterTypes' /\ LegTypes' /\ RouterInv' /\ HoldInv'
      /\ UNCHANGED <<graph, router>> /\ Legs' = Legs /\ Keyed' = Keyed
      /\ \A l \in Legs : Future(l)' \subseteq Future(l)
      /\ hol \subseteq Legs /\ DOMAIN vals = Legs /\ \A l \in Legs : vals[l] \in Seq(Keyed)
      /\ acc \in Seq(Keyed) /\ out \in Seq(Int) /\ DOMAIN merge = {"pc", "at", "then"}
      /\ TypeInv /\ HolInv /\ MergeInv /\ MergeTypes
  BY <1>0, LegsStay
<1>2. acc = <<>> /\ router.pc # "off" /\ Serving
  BY <1>0, <1>1 DEF MergeInv, Serving
<1>3. HolInv' /\ MergeTypes'
  <2>1. hol' \subseteq hol /\ (acc' = acc \/ \E l \in hol : acc' = vals[l])
        /\ DOMAIN merge' = {"pc", "at", "then"}
    BY DEF Serve, Least, Ready
  <2>2. MergeTypes'
    BY <1>0, <1>1, <2>1 DEF MergeTypes
  <2>3. ASSUME NEW l \in hol' PROVE /\ vals'[l] # <<>> /\ Ascending(vals'[l])
                                     /\ Precedes(KeysIn(vals'[l]), Future(l)')
    BY <1>0, <1>1, <2>1, <2>3 DEF HolInv, Precedes
  <2> QED
    BY <2>2, <2>3, Primed DEF HolInv
<1>4. MergeInv'
  <2>1. CASE hol = {} /\ merge' = [pc |-> "start", at |-> 1, then |-> "eos"] /\ UNCHANGED <<acc, hol>>
    <3>1. 1 \in Legs
      BY <1>1, Batches DEF TypeInv, RouterTypes
    <3> QED
      BY <1>0, <1>1, <1>2, <2>1, <3>1 DEF MergeInv, Serving
  <2>2. CASE merge' = [Ready EXCEPT !.pc = "read"] /\ UNCHANGED <<acc, hol>>
    <3>1. merge'.pc = "read"
      BY <2>2 DEF Ready
    <3> QED
      BY <1>0, <1>1, <1>2, <2>2, <3>1, Primed DEF MergeInv, Serving
  <2>3. ASSUME NEW l \in hol, l \in Least(hol), \A m \in hol \ {l} : Last(vals[l]).key <= First(vals[m]),
               merge' = [pc |-> "fill", at |-> l, then |-> "return"], acc' = vals[l],
               hol' = hol \ {l}
        PROVE MergeInv'
    <3>0. /\ merge'.pc = "fill" /\ merge'.at = l /\ merge'.then = "return" /\ l \in Legs \ hol'
          /\ acc' # <<>>
      BY <1>1, <2>3 DEF HolInv
    <3>1. \A m \in hol : vals[m] \in Seq(Keyed) /\ vals[m] # <<>> /\ Ascending(vals[m])
      BY <1>1 DEF HolInv
    <3>2. ASSUME NEW m \in hol' PROVE Precedes(KeysIn(vals[l]), KeysIn(vals[m]))
      <4>1. m \in hol /\ Last(vals[l]).key <= First(vals[m])
        BY <2>3, <3>2
      <4>2. /\ Last(vals[l]).key \in Int /\ KeysIn(vals[l]) \subseteq Int
            /\ \A x \in KeysIn(vals[l]) : x <= Last(vals[l]).key
        BY <3>1, Ends
      <4>3. /\ First(vals[m]) \in Int /\ KeysIn(vals[m]) \subseteq Int
            /\ \A x \in KeysIn(vals[m]) : First(vals[m]) <= x
        BY <3>1, <4>1, Ends
      <4> QED
        BY <4>1, <4>2, <4>3 DEF Precedes
    <3>3. Precedes(KeysIn(acc'), Future(l)')
      BY <1>1, <2>3 DEF HolInv, Precedes
    <3>4. /\ Ascending(acc') /\ Precedes(ToSet(out'), KeysIn(acc'))
          /\ \A m \in hol' : /\ Precedes(ToSet(out'), KeysIn(vals'[m]))
                             /\ Precedes(KeysIn(acc'), KeysIn(vals'[m]))
      BY <1>0, <1>1, <1>2, <2>3, <3>1, <3>2 DEF MergeInv
    <3>5. Ascending(acc)' /\ Precedes(ToSet(out), KeysIn(acc))'
          /\ \A m \in hol' : /\ Precedes(ToSet(out), KeysIn(vals[m]))'
                             /\ Precedes(KeysIn(acc), KeysIn(vals[m]))'
      BY <3>4, Primed DEF Precedes
    <3>6. \A m \in Legs' : m = merge'.at => Precedes(KeysIn(acc), Future(m))'
      BY <3>0, <3>3, Primed DEF Precedes
    <3>7. \A i, j \in DOMAIN out' : i < j => out'[i] <= out'[j]
      BY <1>0, <1>1 DEF MergeInv
    <3> QED
      BY <1>1, <1>2, <3>0, <3>5, <3>6, <3>7 DEF MergeInv
  <2> QED
    BY <2>1, <2>2, <2>3 DEF Serve, Least
<1> QED
  BY <1>1, <1>3, <1>4 DEF OrderInv, TypeInv

LEMMA ReadOrder ==
  ASSUME OrderInv, graph.join = "merge", Read
  PROVE OrderInv'
<1>0. UNCHANGED routerVars /\ merge.pc = "read" /\ over' = over
  BY DEF Read, Deliver, client
<1>1. /\ RouterTypes' /\ LegTypes' /\ RouterInv' /\ HoldInv'
      /\ UNCHANGED <<graph, router>> /\ Legs' = Legs /\ Keyed' = Keyed
      /\ \A l \in Legs : Future(l)' \subseteq Future(l)
      /\ hol \subseteq Legs /\ DOMAIN vals = Legs /\ \A l \in Legs : vals[l] \in Seq(Keyed)
      /\ acc \in Seq(Keyed) /\ out \in Seq(Int) /\ DOMAIN merge = {"pc", "at", "then"}
      /\ TypeInv /\ HolInv /\ MergeInv /\ MergeTypes
  BY <1>0, LegsStay
<1>2. /\ router.pc # "off" /\ Ascending(acc) /\ Precedes(ToSet(out), KeysIn(acc))
      /\ \A l \in hol : /\ Precedes(ToSet(out), KeysIn(vals[l]))
                        /\ Precedes(KeysIn(acc), KeysIn(vals[l]))
      /\ \A i, j \in DOMAIN out : i < j => out[i] <= out[j]
  BY <1>0, <1>1 DEF MergeInv, Serving
<1>3. CASE Deliver(acc) /\ UNCHANGED <<hol, vals>>
  <2>0. /\ merge' = Ready /\ acc' = <<>> /\ out' = out \o [i \in DOMAIN acc |-> acc[i].key]
    BY <1>3 DEF Deliver
  <2>1. /\ out' \in Seq(Int)
        /\ \A i, j \in DOMAIN out' : i < j => out'[i] <= out'[j]
        /\ ToSet(out') \subseteq ToSet(out) \cup KeysIn(acc)
    BY <1>1, <1>2, <2>0, Delivered
  <2>2. HolInv'
    <3>1. ASSUME NEW l \in hol PROVE Precedes(KeysIn(vals'[l]), Future(l)')
      BY <1>1, <1>3, <3>1 DEF HolInv, Precedes
    <3> QED
      BY <1>1, <1>3, <3>1, Primed DEF HolInv
  <2>3. MergeTypes'
    BY <1>1, <1>3, <2>0, <2>1 DEF MergeTypes, Ready
  <2>4. \A l \in hol' : Precedes(ToSet(out'), KeysIn(vals'[l]))
    BY <1>2, <1>3, <2>1 DEF Precedes
  <2>5. Ascending(acc') /\ KeysIn(acc') = {}
    BY <2>0 DEF Ascending, KeysIn
  <2>6. MergeInv'
    BY <1>1, <1>2, <2>0, <2>1, <2>4, <2>5, Primed DEF MergeInv, Precedes, Ready
  <2> QED
    BY <1>1, <2>2, <2>3, <2>6 DEF OrderInv, TypeInv
<1>4. ASSUME NEW l \in hol, \A m \in hol : First(vals[l]) <= First(vals[m]),
             acc' = Append(acc, Head(vals[l])), vals' = [vals EXCEPT ![l] = Tail(@)],
             IF Len(vals[l]) > 1 THEN UNCHANGED <<merge, hol>>
             ELSE merge' = [pc |-> "fill", at |-> l, then |-> "read"] /\ hol' = hol \ {l},
             UNCHANGED out
      PROVE OrderInv'
  <2>1. l \in Legs /\ \A m \in hol : vals[m] \in Seq(Keyed) /\ vals[m] # <<>> /\ Ascending(vals[m])
    BY <1>1, <1>4 DEF HolInv
  <2>2. /\ Tail(vals[l]) \in Seq(Keyed) /\ Ascending(Tail(vals[l]))
        /\ KeysIn(Tail(vals[l])) \subseteq KeysIn(vals[l])
        /\ Len(vals[l]) > 1 => Tail(vals[l]) # <<>>
        /\ acc' \in Seq(Keyed) /\ acc' # <<>> /\ Ascending(acc')
        /\ KeysIn(acc') = KeysIn(acc) \cup {First(vals[l])}
    BY <1>1, <1>2, <1>4, <2>1, Taken
  <2>3. /\ vals'[l] = Tail(vals[l]) /\ DOMAIN vals' = Legs
        /\ \A m \in Legs : m # l => vals'[m] = vals[m]
        /\ hol' \subseteq hol /\ (l \in hol' => Len(vals[l]) > 1)
    BY <1>1, <1>4, <2>1
  <2>4. ASSUME NEW m \in hol' PROVE /\ vals'[m] # <<>> /\ Ascending(vals'[m])
                                    /\ KeysIn(vals'[m]) \subseteq KeysIn(vals[m]) /\ m \in hol
    BY <1>1, <2>1, <2>2, <2>3, <2>4
  <2>5. MergeTypes'
    <3>1. \A m \in Legs : vals'[m] \in Seq(Keyed)
      BY <1>1, <2>2, <2>3
    <3>2. DOMAIN merge' = {"pc", "at", "then"}
      BY <1>1, <1>4
    <3> QED
      BY <1>1, <1>4, <2>2, <2>3, <3>1, <3>2 DEF MergeTypes
  <2>6. HolInv'
    <3>1. ASSUME NEW m \in hol' PROVE Precedes(KeysIn(vals'[m]), Future(m)')
      BY <1>1, <2>4, <3>1 DEF HolInv, Precedes
    <3> QED
      BY <2>4, <3>1, Primed DEF HolInv
  <2>7. ASSUME NEW m \in hol
        PROVE \A y \in KeysIn(vals[m]) : First(vals[l]) <= y
    <3>1. /\ First(vals[m]) \in Int /\ KeysIn(vals[m]) \subseteq Int
          /\ \A x \in KeysIn(vals[m]) : First(vals[m]) <= x
      BY <2>1, <2>7, Ends
    <3>2. First(vals[l]) \in Int
      BY <1>4, <2>1, Ends
    <3> QED
      BY <1>4, <3>1, <3>2
  <2>8. First(vals[l]) \in KeysIn(vals[l])
    BY <1>4, <2>1, Ends
  <2>9. /\ Precedes(ToSet(out'), KeysIn(acc'))
        /\ \A m \in hol' : /\ Precedes(ToSet(out'), KeysIn(vals'[m]))
                           /\ Precedes(KeysIn(acc'), KeysIn(vals'[m]))
    <3>1. Precedes(ToSet(out'), KeysIn(acc'))
      BY <1>2, <1>4, <2>2, <2>8 DEF Precedes
    <3>2. ASSUME NEW m \in hol' PROVE Precedes(ToSet(out'), KeysIn(vals'[m]))
      BY <1>2, <1>4, <2>4, <3>2 DEF Precedes
    <3>3. ASSUME NEW m \in hol' PROVE Precedes(KeysIn(acc'), KeysIn(vals'[m]))
      BY <1>2, <2>2, <2>4, <2>7, <3>3 DEF Precedes
    <3> QED
      BY <3>1, <3>2, <3>3
  <2>10. /\ Ascending(acc)' /\ Precedes(ToSet(out), KeysIn(acc))'
         /\ \A m \in hol' : /\ Precedes(ToSet(out), KeysIn(vals[m]))'
                            /\ Precedes(KeysIn(acc), KeysIn(vals[m]))'
    BY <2>2, <2>9, Primed DEF Precedes
  <2>11. Precedes(KeysIn(acc'), Future(l)')
    <3>1. Precedes({First(vals[l])}, Future(l)')
      BY <1>1, <1>4, <2>1, <2>8 DEF HolInv, Precedes
    <3>2. Precedes(KeysIn(acc), Future(l)')
      <4>1. \A x \in KeysIn(acc) : x \in Int /\ x <= First(vals[l])
        <5>1. \A r \in Keyed : r.key \in Int
          BY DEF Keyed
        <5>2. \A i \in DOMAIN acc : acc[i] \in Keyed
          BY <1>1
        <5> QED
          BY <1>2, <1>4, <2>8, <5>1, <5>2 DEF Precedes, KeysIn
      <4>2. \A y \in Future(l)' : y \in Int /\ First(vals[l]) <= y /\ First(vals[l]) \in Int
        <5>1. First(vals[l]) \in Int
          BY <1>4, <2>1, Ends
        <5>2. Future(l) \subseteq Int
          BY DEF Future
        <5> QED
          BY <1>1, <2>1, <3>1, <5>1, <5>2 DEF Precedes
      <4> QED
        BY <4>1, <4>2 DEF Precedes
    <3> QED
      BY <2>2, <3>1, <3>2 DEF Precedes
  <2>12. \A i, j \in DOMAIN out' : i < j => out'[i] <= out'[j]
    BY <1>2, <1>4
  <2>13. MergeInv'
    <3>1. CASE merge' = merge
      BY <1>0, <1>1, <1>2, <2>10, <2>12, <3>1 DEF MergeInv
    <3>2. CASE merge' = [pc |-> "fill", at |-> l, then |-> "read"] /\ hol' = hol \ {l}
      <4>1. \A m \in Legs' : m = merge'.at => Precedes(KeysIn(acc), Future(m))'
        BY <2>11, <3>2, Primed DEF Precedes
      <4>2. /\ merge'.pc = "fill" /\ merge'.at \in Legs' \ hol' /\ merge'.then = "read"
        BY <1>1, <2>1, <3>2
      <4> QED
        BY <1>1, <1>2, <2>2, <2>10, <2>12, <4>1, <4>2 DEF MergeInv
    <3> QED
      BY <1>4, <3>1, <3>2
  <2> QED
    BY <1>1, <2>5, <2>6, <2>13 DEF OrderInv, TypeInv
<1> QED
  BY <1>3, <1>4 DEF Read, Least

LEMMA QuietOrder ==
  ASSUME OrderInv, graph.join = "merge", PopLast \/ MergeCancelled \/ MergePullDone
  PROVE OrderInv'
<1>0. /\ UNCHANGED routerVars /\ UNCHANGED <<vals, out>> /\ hol' \subseteq hol
      /\ (acc' = acc \/ acc' = <<>>)
  <2>1. CASE PopLast
    BY <2>1 DEF PopLast
  <2>2. CASE MergeCancelled
    BY <2>2 DEF MergeCancelled, MergeFails
  <2>3. CASE MergePullDone
    BY <2>3 DEF MergePullDone
  <2> QED
    BY <2>1, <2>2, <2>3
<1>1. /\ RouterTypes' /\ LegTypes' /\ RouterInv' /\ HoldInv'
      /\ UNCHANGED <<graph, router>> /\ Legs' = Legs /\ Keyed' = Keyed
      /\ \A l \in Legs : Future(l)' \subseteq Future(l)
      /\ hol \subseteq Legs /\ DOMAIN vals = Legs /\ \A l \in Legs : vals[l] \in Seq(Keyed)
      /\ acc \in Seq(Keyed) /\ out \in Seq(Int) /\ DOMAIN merge = {"pc", "at", "then"}
      /\ TypeInv /\ HolInv /\ MergeInv /\ MergeTypes
  BY <1>0, LegsStay
<1>2. HolInv'
  <2>1. ASSUME NEW l \in hol' PROVE /\ vals'[l] # <<>> /\ Ascending(vals'[l])
                                    /\ Precedes(KeysIn(vals'[l]), Future(l)')
    BY <1>0, <1>1, <2>1 DEF HolInv, Precedes
  <2> QED
    BY <2>1, Primed DEF HolInv
<1>3. DOMAIN merge' = {"pc", "at", "then"}
  <2>1. \/ merge' = Ready \/ merge' = [pc |-> "start", at |-> 1, then |-> "eos"]
        \/ merge' = [Ready EXCEPT !.pc = "propagate"]
        \/ \E l \in hol : merge' = [Ready EXCEPT !.pc = "done", !.at = l]
    BY DEF PopLast, MergeCancelled, MergePullDone, MergeFails
  <2> QED
    BY <2>1 DEF Ready
<1>4. MergeTypes'
  <2>0. <<>> \in Seq(Keyed)
    OBVIOUS
  <2>1. acc' \in Seq(Keyed)
    <3>1. acc \in Seq(Keyed)
      BY <1>1
    <3>2. acc' = acc \/ acc' = <<>>
      BY <1>0
    <3> QED
      BY <2>0, <3>1, <3>2, Zenon
  <2> QED
    BY <1>0, <1>1, <1>3, <2>1 DEF MergeTypes
<1>5. \A i, j \in DOMAIN out' : i < j => out'[i] <= out'[j]
  BY <1>0, <1>1 DEF MergeInv
<1>6. router.pc # "off" /\ (merge.pc \notin {"read", "fill"} => acc = <<>>)
  <2>1. merge.pc # "idle" \/ out # <<>>
    BY DEF PopLast, MergeCancelled, MergePullDone
  <2> QED
    BY <1>1, <2>1 DEF MergeInv
<1>7. MergeInv'
  <2>1. CASE PopLast
    <3>1. 1 \in Legs
      BY <1>1, Batches DEF TypeInv, RouterTypes
    <3>2. UNCHANGED <<acc, out>> /\ acc = <<>>
      BY <1>6, <2>1 DEF PopLast
    <3>3. CASE hol = {} /\ merge' = [pc |-> "start", at |-> 1, then |-> "eos"] /\ UNCHANGED hol
      BY <1>1, <1>5, <1>6, <3>1, <3>2, <3>3 DEF MergeInv, Serving
    <3>4. ASSUME NEW l \in hol, hol' = hol \ {l}, merge' = [Ready EXCEPT !.pc = "done", !.at = l]
          PROVE MergeInv'
      <4>1. merge'.pc = "done" /\ merge'.at = l
        BY <3>4 DEF Ready
      <4> QED
        BY <1>1, <1>5, <1>6, <3>2, <3>4, <4>1 DEF MergeInv, Serving
    <3> QED
      BY <2>1, <3>3, <3>4 DEF PopLast
  <2>2. CASE MergePullDone
    BY <1>1, <1>5, <1>6, <2>2 DEF MergePullDone, MergeInv, Serving, Ready
  <2>3. CASE MergeCancelled
    BY <1>1, <1>5, <1>6, <2>3 DEF MergeCancelled, MergeFails, ClientFails, MergeInv, Serving, Ready
  <2> QED
    BY <2>1, <2>2, <2>3
<1> QED
  BY <1>1, <1>2, <1>4, <1>7 DEF OrderInv, TypeInv

LEMMA PullOrder ==
  ASSUME OrderInv, graph.join = "merge", MergePull
  PROVE OrderInv'
<1>0. /\ TypeInv /\ RouterInv /\ HoldInv /\ HolInv /\ MergeInv /\ RouterTypes /\ LegTypes
      /\ MergeTypes /\ UNCHANGED <<graph, src, blocked, acc, hol, vals, out, over>>
      /\ Started /\ merge = Ready /\ merge.pc = "idle" /\ over = "open"
  BY DEF OrderInv, TypeInv, MergePull, client, Ready
<1>1. /\ Legs' = Legs /\ Platoons' = Platoons /\ (\A l : Mine(l)' = Mine(l)) /\ Keyed' = Keyed
      /\ \A l, b : Keys(l, b)' = Keys(l, b)
  BY <1>0, SameGraph DEF Keyed
<1>2. /\ router' = router \/ (router.pc = "off" /\ router'.pc = "top")
      /\ DOMAIN router' = {"pc", "item", "at"} /\ router'.pc # "off"
  BY <1>0 DEF Started, RouterTypes
<1>3. RouterTypes' /\ RouterInv'
  BY <1>0, <1>1, <1>2 DEF RouterTypes, RouterInv
<1>4. ASSUME NEW l \in Legs PROVE Ahead(l)' \subseteq Ahead(l)
  <2>1. CASE router' = router
    BY <1>0, <1>3, <2>1, RouterStays
  <2>2. CASE router.pc = "off" /\ router'.pc = "top"
    BY <1>0, <1>1, <2>2 DEF Ahead, SendsEOS, Keys
  <2> QED
    BY <1>2, <2>1, <2>2
<1>5. LegTypes'
  <2>1. ASSUME NEW l \in Legs
        PROVE DOMAIN leg'[l] = Fields /\ leg'[l].item \in {EOS, Err} \cup Mine(l)
    BY <1>0, <2>1, LegKinds DEF Started, LegTypes
  <2>2. DOMAIN leg' = Legs
    BY <1>0 DEF Started
  <2> QED
    BY <1>1, <2>1, <2>2 DEF LegTypes
<1>6. ASSUME NEW l \in Legs PROVE Holds(l)' /\ Future(l)' \subseteq Future(l)
  <2>1. CASE leg[l].pc = "off"
    <3>1. leg'[l] = Pulling(l)
      BY <1>0, <2>1 DEF Started
    <3>2. Future(l) = Int
      BY <2>1 DEF Future
    <3>3. Ahead(l)' \subseteq Int
      BY DEF Ahead
    <3> QED
      BY <1>0, <3>1, <3>2, <3>3, LegPulls
  <2>2. CASE leg[l].pc # "off"
    <3>1. leg'[l] = leg[l] /\ Holds(l)
      BY <1>0, <2>2 DEF Started, HoldInv
    <3> QED
      BY <1>0, <1>4, <3>1, LegStays
  <2> QED
    BY <2>1, <2>2
<1>7. HoldInv'
  BY <1>1, <1>6 DEF HoldInv
<1>8. HolInv'
  <2>1. ASSUME NEW l \in hol PROVE Precedes(KeysIn(vals[l]), Future(l)')
    BY <1>0, <1>6, <2>1 DEF HolInv, MergeTypes, Precedes
  <2> QED
    BY <1>0, <2>1, Primed DEF HolInv
<1>9. \/ /\ merge' = [pc |-> "start", at |-> 1, then |-> "serve"] /\ router.pc = "off"
      \/ merge' = [Ready EXCEPT !.pc = "serve"]
  BY DEF MergePull
<1>10. MergeTypes'
  <2>1. DOMAIN merge' = {"pc", "at", "then"}
    BY <1>9 DEF Ready
  <2> QED
    BY <1>0, <1>1, <2>1 DEF MergeTypes
<1>11. MergeInv'
  <2>1. CASE merge' = [pc |-> "start", at |-> 1, then |-> "serve"] /\ router.pc = "off"
    <3>1. 1 \in Legs /\ hol = {} /\ out = <<>> /\ acc = <<>>
      BY <1>0, <2>1, Batches DEF TypeInv, RouterTypes, MergeInv
    <3> QED
      BY <1>0, <1>1, <1>2, <2>1, <3>1 DEF MergeInv, Serving
  <2>2. CASE merge' = [Ready EXCEPT !.pc = "serve"]
    <3>1. merge'.pc = "serve" /\ Serving
      BY <1>0, <2>2 DEF Ready, Serving
    <3> QED
      BY <1>0, <1>1, <1>2, <3>1, Primed DEF MergeInv
  <2> QED
    BY <1>9, <2>1, <2>2
<1> QED
  BY <1>3, <1>5, <1>7, <1>8, <1>10, <1>11 DEF OrderInv, TypeInv

(* The leg at merge.at is not in the heap: whatever it does next is free. *)
LEMMA OutLeg ==
  ASSUME OrderInv, graph.join = "merge", UNCHANGED <<graph, src, router, blocked>>,
         NEW x \in Legs, NEW r, leg' = [leg EXCEPT ![x] = r], r.item \in {EOS, Err} \cup Mine(x),
         DOMAIN r = Fields, Holds(x)'
  PROVE /\ RouterTypes' /\ LegTypes' /\ RouterInv' /\ HoldInv' /\ leg'[x] = r
        /\ Legs' = Legs /\ Keyed' = Keyed /\ Ahead(x)' = Ahead(x)
        /\ \A l \in Legs : l # x => Future(l)' \subseteq Future(l)
        /\ hol \subseteq Legs /\ DOMAIN vals = Legs /\ \A l \in Legs : vals[l] \in Seq(Keyed)
        /\ acc \in Seq(Keyed) /\ out \in Seq(Int) /\ DOMAIN merge = {"pc", "at", "then"}
        /\ TypeInv /\ HolInv /\ MergeInv /\ MergeTypes /\ Holds(x)
<1>0. /\ TypeInv /\ RouterInv /\ HoldInv /\ HolInv /\ MergeInv /\ RouterTypes /\ LegTypes
      /\ MergeTypes
  BY DEF OrderInv, TypeInv
<1>1. Legs' = Legs /\ Keyed' = Keyed
  BY SameGraph DEF Keyed
<1>2. LegTypes' /\ leg'[x] = r /\ \A l \in Legs : l # x => leg'[l] = leg[l]
  BY <1>0, LegMoves
<1>3. RouterTypes' /\ RouterInv' /\ \A l : Ahead(l)' = Ahead(l)
  BY <1>0, RouterStays
<1>4. ASSUME NEW l \in Legs, l # x PROVE Holds(l)' /\ Future(l)' \subseteq Future(l)
  BY <1>0, <1>2, <1>3, <1>4, LegStays DEF HoldInv
<1>5. HoldInv'
  BY <1>1, <1>4 DEF HoldInv
<1> QED
  BY <1>0, <1>1, <1>2, <1>3, <1>4, <1>5 DEF MergeTypes, HoldInv

LEMMA SendDoneOrder ==
  ASSUME OrderInv, graph.join = "merge", SendDoneTo
  PROVE OrderInv'
<1> DEFINE x == merge.at
<1>0. /\ UNCHANGED <<graph, src, router, blocked, acc, hol, out, over>> /\ merge.pc = "done"
      /\ leg' = [leg EXCEPT ![x] = Dropping(x)] /\ vals' = [vals EXCEPT ![x] = <<>>]
      /\ merge' = [Ready EXCEPT !.pc = "propagate"] /\ merge'.pc = "propagate"
      /\ DOMAIN merge' = {"pc", "at", "then"}
  BY DEF SendDoneTo, client, Ready
<1>1. x \in Legs \ hol /\ acc = <<>> /\ TypeInv
  BY <1>0 DEF OrderInv, MergeInv
<1> HIDE DEF x
<1>2. DOMAIN Dropping(x) = Fields /\ Dropping(x).item \in {EOS, Err} \cup Mine(x)
  BY <1>1, LegKinds
<1>3. ASSUME NEW l \in Legs, l = x PROVE Holds(l)'
  <2>1. leg'[l] = Dropping(l)
    BY <1>0, <1>1, <1>3 DEF TypeInv, LegTypes
  <2>2. leg'[l].pc \in {"ended", "done"} /\ leg'[l].item = EOS
    BY <2>1 DEF Dropping
  <2> QED
    BY <2>2 DEF Holds
<1>4. PICK y \in Legs : y = x
  BY <1>1
<1>5. /\ RouterTypes' /\ LegTypes' /\ RouterInv' /\ HoldInv'
      /\ Legs' = Legs /\ Keyed' = Keyed
      /\ \A l \in Legs : l # y => Future(l)' \subseteq Future(l)
      /\ hol \subseteq Legs /\ DOMAIN vals = Legs /\ \A l \in Legs : vals[l] \in Seq(Keyed)
      /\ acc \in Seq(Keyed) /\ out \in Seq(Int)
      /\ TypeInv /\ HolInv /\ MergeInv /\ MergeTypes
  <2>1. leg' = [leg EXCEPT ![y] = Dropping(y)] /\ Holds(y)'
    BY <1>0, <1>3, <1>4
  <2>2. DOMAIN Dropping(y) = Fields /\ Dropping(y).item \in {EOS, Err} \cup Mine(y)
    BY <1>2, <1>4
  <2> QED
    BY <1>0, <2>1, <2>2, OutLeg
<1>6. HolInv'
  <2>1. ASSUME NEW l \in hol PROVE vals'[l] = vals[l] /\ Precedes(KeysIn(vals[l]), Future(l)')
    BY <1>0, <1>1, <1>4, <1>5, <2>1 DEF HolInv, Precedes
  <2> QED
    BY <1>0, <1>5, <2>1, Primed DEF HolInv
<1>7. MergeTypes'
  <2>1. \A l \in Legs : vals'[l] \in Seq(Keyed)
    <3>1. <<>> \in Seq(Keyed)
      OBVIOUS
    <3> QED
      BY <1>0, <1>5, <3>1
  <2> QED
    BY <1>0, <1>5, <2>1 DEF MergeTypes
<1>8. MergeInv'
  BY <1>0, <1>1, <1>5 DEF MergeInv, Serving
<1> QED
  BY <1>5, <1>6, <1>7, <1>8 DEF OrderInv, TypeInv

(* The values of a batch in the heap are those of its keys. *)
LEMMA BatchValuesOf ==
  ASSUME graph \in Graphs, graph.join = "merge", NEW l \in Legs, NEW b \in Mine(l)
  PROVE /\ Values(l, b) \in Seq(Keyed) /\ Values(l, b) # <<>> /\ Ascending(Values(l, b))
        /\ KeysIn(Values(l, b)) = Keys(l, b)
<1> DEFINE k == graph.keys[l][b]
           v == Values(l, b)
<1>1. /\ k \in Seq(Int) /\ k # <<>> /\ \A m, n \in DOMAIN k : m < n => k[m] <= k[n]
  BY Batches
<1>2. Len(k) \in Nat /\ DOMAIN k = 1 .. Len(k) /\ Len(k) > 0 /\ \A i \in DOMAIN k : k[i] \in Int
  BY <1>1
<1>3. v = [i \in DOMAIN k |-> [leg |-> l, key |-> k[i]]]
  BY DEF Values
<1> HIDE DEF k, v
<1>4. DOMAIN v = DOMAIN k /\ \A i \in DOMAIN k : v[i] \in Keyed /\ v[i].key = k[i]
  BY <1>2, <1>3 DEF Keyed
<1>5. v \in Seq(Keyed) /\ v # <<>>
  <2>1. v \in [1 .. Len(k) -> Keyed]
    BY <1>2, <1>3, <1>4
  <2>2. v \in Seq(Keyed)
    BY <1>2, <2>1
  <2>3. 1 \in DOMAIN v
    BY <1>2, <1>4
  <2> QED
    BY <2>2, <2>3
<1>6. Ascending(v)
  BY <1>1, <1>4 DEF Ascending
<1>7. KeysIn(v) = Keys(l, b)
  BY <1>4 DEF KeysIn, Keys, ToSet, k
<1> QED
  BY <1>5, <1>6, <1>7 DEF v

(* The leg's error ends the query. *)
LEMMA ReplenishFailsOrder ==
  ASSUME OrderInv, graph.join = "merge", Replenish, leg[merge.at].item = Err
  PROVE OrderInv'
<1>0. /\ UNCHANGED <<graph, src, router, blocked, hol, vals, out>> /\ merge.pc \in {"fill", "start"}
      /\ leg' = [leg EXCEPT ![merge.at].pc = "end"]
      /\ merge' = Ready /\ acc' = <<>> /\ over' = "failed"
  BY DEF Replenish, MergeFails, ClientFails
<1>1. TypeInv /\ merge.at \in Legs \ hol /\ router.pc # "off"
  BY <1>0 DEF OrderInv, MergeInv
<1>2. PICK y \in Legs : y = merge.at
  BY <1>1
<1> DEFINE r == [leg[y] EXCEPT !.pc = "end"]
<1>3. /\ leg' = [leg EXCEPT ![y] = r] /\ DOMAIN r = Fields /\ r.pc = "end"
      /\ r.item \in {EOS, Err} \cup Mine(y) /\ leg'[y] = r
  BY <1>0, <1>1, <1>2 DEF TypeInv, LegTypes, Fields
<1>4. Holds(y)' /\ Future(y)' = {}
  BY <1>3, LegFails
<1> HIDE DEF r
<1>5. /\ RouterTypes' /\ LegTypes' /\ RouterInv' /\ HoldInv'
      /\ Legs' = Legs /\ Keyed' = Keyed
      /\ \A l \in Legs : l # y => Future(l)' \subseteq Future(l)
      /\ hol \subseteq Legs /\ DOMAIN vals = Legs /\ \A l \in Legs : vals[l] \in Seq(Keyed)
      /\ acc \in Seq(Keyed) /\ out \in Seq(Int)
      /\ TypeInv /\ HolInv /\ MergeInv /\ MergeTypes
  BY <1>0, <1>3, <1>4, OutLeg
<1>6. HolInv'
  <2>1. ASSUME NEW l \in hol PROVE Precedes(KeysIn(vals[l]), Future(l)')
    BY <1>1, <1>2, <1>5, <2>1 DEF HolInv, Precedes
  <2> QED
    BY <1>0, <1>5, <2>1, Primed DEF HolInv
<1>7. MergeTypes'
  <2>1. <<>> \in Seq(Keyed) /\ DOMAIN merge' = {"pc", "at", "then"}
    BY <1>0 DEF Ready
  <2> QED
    BY <1>0, <1>5, <2>1 DEF MergeTypes
<1>8. MergeInv'
  <2>1. merge'.pc = "idle" /\ ~Serving'
    BY <1>0 DEF Ready, Serving
  <2> QED
    BY <1>0, <1>1, <1>5, <2>1 DEF MergeInv
<1> QED
  BY <1>5, <1>6, <1>7, <1>8 DEF OrderInv, TypeInv

(* What replenish is followed by. *)
LEMMA Replenished ==
  ASSUME Replenish, leg[merge.at].item # Err
  PROVE /\ merge.pc = "fill" /\ merge.then = "return" => Deliver(acc)
        /\ merge.pc = "fill" /\ merge.then = "read" =>
             merge' = [Ready EXCEPT !.pc = "read"] /\ UNCHANGED <<acc, out>>
        /\ /\ merge.then \notin {"return", "read"} /\ merge.pc = "start"
           /\ merge.at < Len(graph.legs) /\ merge.at # Len(graph.legs)
           => merge' = [merge EXCEPT !.at = merge.at + 1] /\ UNCHANGED <<acc, out>>
<1>1. (CASE merge.then = "return" -> Deliver(acc)
         [] merge.then = "read" -> /\ merge' = [Ready EXCEPT !.pc = "read"]
                                   /\ UNCHANGED <<acc, client, out>>
         [] merge.pc = "start" /\ merge.at < Len(graph.legs) ->
                /\ merge' = [merge EXCEPT !.at = @ + 1]
                /\ UNCHANGED <<acc, client, out>>
         [] merge.then = "serve" /\ merge.at = Len(graph.legs) ->
                /\ merge' = [Ready EXCEPT !.pc = "serve"]
                /\ UNCHANGED <<acc, client, out>>
         [] merge.then = "eos" /\ merge.at = Len(graph.legs) ->
                merge' = Ready /\ out' = <<>> /\ ClientEOS /\ UNCHANGED acc)
  BY Zenon DEF Replenish
<1>2. ASSUME merge.pc = "fill", merge.then = "return" PROVE Deliver(acc)
  BY <1>1, <1>2
<1>3. ASSUME merge.pc = "fill", merge.then = "read"
      PROVE merge' = [Ready EXCEPT !.pc = "read"] /\ UNCHANGED <<acc, out>>
  BY <1>1, <1>3
<1>4. ASSUME merge.then \notin {"return", "read"}, merge.pc = "start", merge.at < Len(graph.legs),
             merge.at # Len(graph.legs)
      PROVE merge' = [merge EXCEPT !.at = merge.at + 1] /\ UNCHANGED <<acc, out>>
  BY <1>1, <1>4
<1> QED
  BY <1>2, <1>3, <1>4

LEMMA ReplenishOrder ==
  ASSUME OrderInv, graph.join = "merge", Replenish, leg[merge.at].item # Err
  PROVE OrderInv'
<1> DEFINE b == leg[merge.at].item
<1>0. /\ UNCHANGED <<graph, src, router, blocked>> /\ merge.pc \in {"fill", "start"}
      /\ leg[merge.at].pc = "out"
      /\ leg' = [leg EXCEPT ![merge.at] = Pulling(merge.at)]
      /\ hol' = IF b = EOS THEN hol ELSE hol \cup {merge.at}
      /\ vals' = [vals EXCEPT ![merge.at] = IF b = EOS THEN <<>> ELSE Values(merge.at, b)]
  BY DEF Replenish
<1>1. TypeInv /\ merge.at \in Legs \ hol /\ router.pc # "off"
  BY <1>0 DEF OrderInv, MergeInv
<1>2. PICK y \in Legs : y = merge.at
  BY <1>1
<1> HIDE DEF b
<1>3. /\ leg' = [leg EXCEPT ![y] = Pulling(y)] /\ DOMAIN Pulling(y) = Fields
      /\ Pulling(y).item \in {EOS, Err} \cup Mine(y) /\ leg'[y] = Pulling(y)
      /\ b \in {EOS} \cup Mine(y)
  <2>1. b \in {EOS} \cup Mine(y)
    BY <1>1, <1>2 DEF TypeInv, LegTypes, b
  <2>2. DOMAIN leg = Legs
    BY <1>1 DEF TypeInv, LegTypes
  <2> QED
    BY <1>0, <1>1, <1>2, <2>1, <2>2, LegKinds
<1>4. Holds(y)' /\ Future(y)' \subseteq Ahead(y)' /\ (AtEnd(y) => Future(y)' = {})
  <2>1. Holds(y)' /\ Future(y)' \subseteq Ahead(y)'
    BY <1>0, <1>1, <1>3, LegPulls
  <2>2. ASSUME AtEnd(y) PROVE Future(y)' = {}
    <3>1. leg'[y].pc = "out" /\ leg'[y].item = EOS
      BY <1>3, <2>2 DEF Pulling
    <3> QED
      BY <3>1, LegFails
  <2> QED
    BY <2>1, <2>2
<1>5. /\ RouterTypes' /\ LegTypes' /\ RouterInv' /\ HoldInv'
      /\ Legs' = Legs /\ Keyed' = Keyed /\ Ahead(y)' = Ahead(y)
      /\ \A l \in Legs : l # y => Future(l)' \subseteq Future(l)
      /\ hol \subseteq Legs /\ DOMAIN vals = Legs /\ \A l \in Legs : vals[l] \in Seq(Keyed)
      /\ acc \in Seq(Keyed) /\ out \in Seq(Int) /\ DOMAIN merge = {"pc", "at", "then"}
      /\ TypeInv /\ HolInv /\ MergeInv /\ MergeTypes /\ Holds(y)
  BY <1>0, <1>3, <1>4, OutLeg
<1>6. b # EOS => /\ b \in Mine(y) /\ IsBatch(b) /\ vals'[y] = Values(y, b)
                 /\ vals'[y] \in Seq(Keyed) /\ vals'[y] # <<>> /\ Ascending(vals'[y])
                 /\ KeysIn(vals'[y]) = Keys(y, b) /\ Keys(y, b) \subseteq Int
                 /\ Precedes(Keys(y, b), Future(y)') /\ Keys(y, b) \subseteq Future(y)
  <2> SUFFICES ASSUME b # EOS
               PROVE /\ b \in Mine(y) /\ IsBatch(b) /\ vals'[y] = Values(y, b)
                     /\ vals'[y] \in Seq(Keyed) /\ vals'[y] # <<>> /\ Ascending(vals'[y])
                     /\ KeysIn(vals'[y]) = Keys(y, b) /\ Keys(y, b) \subseteq Int
                     /\ Precedes(Keys(y, b), Future(y)') /\ Keys(y, b) \subseteq Future(y)
    OBVIOUS
  <2>1. b \in Mine(y) /\ graph \in Graphs
    BY <1>1, <1>3 DEF TypeInv, RouterTypes
  <2>2. IsBatch(b) /\ Keys(y, b) \subseteq Int
    BY <2>1, Batches
  <2>3. vals'[y] = Values(y, b)
    BY <1>0, <1>2, <1>5
  <2>4. /\ vals'[y] \in Seq(Keyed) /\ vals'[y] # <<>> /\ Ascending(vals'[y])
        /\ KeysIn(vals'[y]) = Keys(y, b)
    BY <2>1, <2>3, BatchValuesOf
  <2>5. leg[y].pc = "out" /\ leg[y].item = b
    BY <1>0, <1>2 DEF b
  <2>6. Precedes(Keys(y, b), Future(y)')
    BY <1>4, <1>5, <2>2, <2>5 DEF Holds, Precedes
  <2>7. Keys(y, b) \subseteq Future(y)
    BY <2>2, <2>5 DEF Future
  <2> QED
    BY <2>1, <2>2, <2>3, <2>4, <2>6, <2>7
<1>7. /\ \A l \in Legs : l # y => vals'[l] = vals[l]
      /\ hol' \subseteq Legs /\ y \notin hol /\ (y \in hol' => b # EOS)
      /\ \A l \in hol' : l # y => l \in hol
      /\ DOMAIN vals' = Legs
  BY <1>0, <1>1, <1>2, <1>5
<1>8. HolInv'
  <2>1. ASSUME NEW l \in hol' PROVE /\ vals'[l] # <<>> /\ Ascending(vals'[l])
                                    /\ Precedes(KeysIn(vals'[l]), Future(l)')
    <3>1. CASE l = y
      BY <1>6, <1>7, <2>1, <3>1
    <3>2. CASE l # y
      BY <1>5, <1>7, <2>1, <3>2 DEF HolInv, Precedes
    <3> QED
      BY <3>1, <3>2
  <2> QED
    BY <2>1, Primed DEF HolInv
<1>9. \A l \in Legs : vals'[l] \in Seq(Keyed)
  <2>1. b = EOS => vals'[y] = <<>> /\ <<>> \in Seq(Keyed)
    BY <1>0, <1>2, <1>5
  <2> QED
    BY <1>5, <1>6, <1>7, <2>1
<1>10. \A i, j \in DOMAIN out : i < j => out[i] <= out[j]
  BY <1>5 DEF MergeInv
<1>11. CASE merge.pc = "fill"
  <2>1. /\ merge.then \in {"read", "return"} /\ acc # <<>> /\ Ascending(acc)
        /\ Precedes(ToSet(out), KeysIn(acc)) /\ Precedes(KeysIn(acc), Future(y))
        /\ \A l \in hol : /\ Precedes(ToSet(out), KeysIn(vals[l]))
                          /\ Precedes(KeysIn(acc), KeysIn(vals[l]))
    BY <1>2, <1>5, <1>11 DEF MergeInv, Serving
  <2>2. ASSUME NEW l \in hol' PROVE Precedes(KeysIn(acc), KeysIn(vals'[l]))
    BY <1>6, <1>7, <2>1, <2>2 DEF Precedes
  <2>3. ASSUME NEW l \in hol' PROVE Precedes(ToSet(out), KeysIn(vals'[l]))
    <3>1. First(acc) \in KeysIn(acc) /\ First(acc) \in Int
      BY <1>5, <2>1, Ends
    <3>2. ToSet(out) \subseteq Int
      BY <1>5 DEF ToSet
    <3>3. KeysIn(vals'[l]) \subseteq Int
      <4>1. vals'[l] \in Seq(Keyed) /\ \A r \in Keyed : r.key \in Int
        BY <1>7, <1>9, <2>3 DEF Keyed
      <4> QED
        BY <4>1 DEF KeysIn
    <3>4. \A x \in ToSet(out) : x <= First(acc)
      BY <2>1, <3>1 DEF Precedes
    <3>5. \A z \in KeysIn(vals'[l]) : First(acc) <= z
      BY <2>2, <2>3, <3>1 DEF Precedes
    <3> QED
      BY <3>1, <3>2, <3>3, <3>4, <3>5 DEF Precedes
  <2>4. CASE merge.then = "return"
    <3>0. merge' = Ready /\ acc' = <<>> /\ out' = out \o [i \in DOMAIN acc |-> acc[i].key]
      BY <1>11, <2>4, Replenished DEF Deliver
    <3>1. /\ out' \in Seq(Int)
          /\ \A i, j \in DOMAIN out' : i < j => out'[i] <= out'[j]
          /\ ToSet(out') \subseteq ToSet(out) \cup KeysIn(acc)
      BY <1>5, <1>10, <2>1, <3>0, Delivered
    <3>2. MergeTypes'
      <4>1. <<>> \in Seq(Keyed) /\ DOMAIN merge' = {"pc", "at", "then"}
        BY <3>0 DEF Ready
      <4> QED
        BY <1>5, <1>7, <1>9, <3>0, <3>1, <4>1 DEF MergeTypes
    <3>3. \A l \in hol' : Precedes(ToSet(out'), KeysIn(vals'[l]))
      BY <2>2, <2>3, <3>1 DEF Precedes
    <3>4. Ascending(acc') /\ KeysIn(acc') = {} /\ merge'.pc = "idle"
      BY <3>0 DEF Ascending, KeysIn, Ready
    <3>5. MergeInv'
      BY <1>0, <1>1, <3>0, <3>1, <3>3, <3>4, Primed DEF MergeInv, Precedes
    <3> QED
      BY <1>5, <1>8, <3>2, <3>5 DEF OrderInv, TypeInv
  <2>5. CASE merge.then = "read"
    <3>0. merge' = [Ready EXCEPT !.pc = "read"] /\ UNCHANGED <<acc, out>>
      BY <1>11, <2>5, Replenished
    <3>1. merge'.pc = "read" /\ DOMAIN merge' = {"pc", "at", "then"}
      BY <3>0 DEF Ready
    <3>2. MergeTypes'
      BY <1>5, <1>7, <1>9, <3>0, <3>1 DEF MergeTypes
    <3>3. MergeInv'
      BY <1>0, <1>1, <1>10, <2>1, <2>2, <2>3, <3>0, <3>1, Primed DEF MergeInv, Precedes
    <3> QED
      BY <1>5, <1>8, <3>2, <3>3 DEF OrderInv, TypeInv
  <2> QED
    BY <2>1, <2>4, <2>5
<1>12. CASE merge.pc = "start"
  <2>1. /\ merge.then \in {"serve", "eos"} /\ (merge.then = "serve" => out = <<>>)
        /\ acc = <<>> /\ \A l \in hol : l < merge.at
    BY <1>5, <1>12 DEF MergeInv
  <2>2. merge.at \in Int /\ Legs = 1 .. Len(graph.legs) /\ Len(graph.legs) \in Nat
        /\ merge.at \in 1 .. Len(graph.legs)
    BY <1>1, Batches DEF TypeInv, RouterTypes
  <2>3. CASE merge.at < Len(graph.legs)
    <3>0. merge' = [merge EXCEPT !.at = merge.at + 1] /\ UNCHANGED <<acc, out>>
      BY <1>12, <2>1, <2>2, <2>3, Replenished
    <3>1. /\ merge'.pc = "start" /\ merge'.at = merge.at + 1 /\ merge'.then = merge.then
          /\ DOMAIN merge' = {"pc", "at", "then"}
      BY <1>5, <1>12, <3>0
    <3>2. merge'.at \in Legs /\ \A l \in hol' : l < merge'.at /\ l # merge'.at
      <4>1. \A l \in hol' : l \in Int /\ (l = merge.at \/ l < merge.at)
        BY <1>2, <1>7, <2>1, <2>2
      <4> QED
        BY <2>2, <2>3, <3>1, <4>1
    <3>3. MergeTypes'
      BY <1>5, <1>7, <1>9, <3>0, <3>1 DEF MergeTypes
    <3>4. MergeInv'
      BY <1>0, <1>1, <1>5, <1>10, <2>1, <3>0, <3>1, <3>2 DEF MergeInv, Serving
    <3> QED
      BY <1>5, <1>8, <3>3, <3>4 DEF OrderInv, TypeInv
  <2>4. CASE merge.at = Len(graph.legs)
    <3>0. /\ ~(merge.at < Len(graph.legs))
          /\ \/ merge' = [Ready EXCEPT !.pc = "serve"] /\ out' = out /\ out = <<>>
             \/ merge' = Ready /\ out' = <<>>
          /\ acc' = <<>>
      <4>1. ~(merge.at < Len(graph.legs))
        BY <2>2, <2>4
      <4>2. CASE merge.then = "serve"
        BY <1>0, <1>12, <2>1, <2>4, <4>1, <4>2 DEF Replenish, b
      <4>3. CASE merge.then = "eos"
        BY <1>0, <1>12, <2>1, <2>4, <4>1, <4>3 DEF Replenish, b
      <4> QED
        BY <2>1, <4>1, <4>2, <4>3
    <3>1. merge'.pc \in {"serve", "idle"} /\ DOMAIN merge' = {"pc", "at", "then"}
      BY <3>0 DEF Ready
    <3>2. out' = <<>> /\ <<>> \in Seq(Int) /\ <<>> \in Seq(Keyed) /\ DOMAIN out' = {}
      BY <3>0
    <3>3. MergeTypes'
      BY <1>5, <1>7, <1>9, <3>0, <3>1, <3>2 DEF MergeTypes
    <3>4. Ascending(acc') /\ KeysIn(acc') = {} /\ ToSet(out') = {}
      BY <3>0, <3>2 DEF Ascending, KeysIn, ToSet
    <3>5. MergeInv'
      BY <1>0, <1>1, <3>0, <3>1, <3>2, <3>4, Primed DEF MergeInv, Precedes
    <3> QED
      BY <1>5, <1>8, <3>3, <3>5 DEF OrderInv, TypeInv
  <2> QED
    BY <2>2, <2>3, <2>4
<1> QED
  BY <1>0, <1>11, <1>12

-----------------------------------------------------------------------------
(* Without a merge the operator's variables stay as they were. *)
MergeOrder == /\ graph.join \in {"combine", "merge"}
              /\ graph.join = "merge" => OrderInv
              /\ graph.join = "combine" => out = <<>>

LEMMA OrderInit == Init => MergeOrder
<1> SUFFICES ASSUME Init PROVE MergeOrder
  OBVIOUS
<1>1. graph \in Graphs /\ graph.join \in {"combine", "merge"}
  BY RouterAssumption DEF Init, RouterInit
<1>2. graph.join = "combine" => out = <<>>
  BY DEF Init, MergeInit
<1>3. ASSUME graph.join = "merge" PROVE OrderInv
  <2>1. RouterTypes /\ LegTypes /\ RouterInv
    BY <1>1 DEF Init, RouterInit, RouterTypes, LegTypes, RouterInv, Fields
  <2>2. HoldInv
    BY DEF Init, RouterInit, HoldInv, Holds
  <2>3. merge.pc = "idle" /\ acc = <<>> /\ hol = {} /\ out = <<>> /\ DOMAIN out = {}
        /\ vals = [l \in Legs |-> <<>>] /\ DOMAIN merge = {"pc", "at", "then"}
    BY DEF Init, MergeInit, Ready
  <2>4. MergeTypes
    <3>1. <<>> \in Seq(Keyed) /\ <<>> \in Seq(Int)
      OBVIOUS
    <3> QED
      BY <2>3, <3>1 DEF MergeTypes
  <2>5. Ascending(acc) /\ KeysIn(acc) = {} /\ ToSet(out) = {}
    BY <2>3 DEF Ascending, KeysIn, ToSet
  <2>6. HolInv /\ MergeInv
    BY <2>3, <2>5 DEF HolInv, MergeInv, Precedes
  <2> QED
    BY <2>1, <2>2, <2>4, <2>6 DEF OrderInv, TypeInv
<1> QED
  BY <1>1, <1>2, <1>3 DEF MergeOrder

LEMMA OrderNext == MergeOrder /\ [Next]_vars => MergeOrder'
<1> SUFFICES ASSUME MergeOrder, [Next]_vars PROVE MergeOrder'
  OBVIOUS
<1>1. graph' = graph
  BY DEF Next, vars, ClientStep, OpStep, RouterStep, LegStep, RouterNext, RouteCancelled,
     PullerStep, MergePullerStep, CombineStep, MergeStep, Pull, PullDone, MergePull, MergePullDone,
     Cancel, DoneUpstream, PullUpstream, PullUpstreamFails, Send, TakeDone, RouterCancelled,
     Announce, PullerCancelled, NextPuller, Receive, Discard, SendDone, Propagated, Unwait,
     CombineCancelled, Serve, Read, Replenish, PopLast, SendDoneTo, PullAgain,
     MergePullerCancelled, MergeCancelled, routerVars
<1>2. ASSUME graph.join = "combine" PROVE out' = out
  BY <1>2 DEF Next, vars, ClientStep, OpStep, RouterStep, LegStep, mergeVars
<1>3. ASSUME graph.join = "merge" PROVE OrderInv'
  <2>0. OrderInv
    BY <1>3 DEF MergeOrder
  <2>1. CASE RouterStep
    BY <1>3, <2>0, <2>1, RouterOrder
  <2>2. ASSUME NEW l \in Legs, LegStep(l) PROVE OrderInv'
    <3>1. CASE RouteCancelled(l) /\ UNCHANGED <<client, combineVars, mergeVars>>
      BY <1>3, <2>0, <2>2, <3>1, LegOrder
    <3>2. CASE MergePullerStep(l)
      <4>1. UNCHANGED <<client, mergeVars>>
        BY <3>2 DEF MergePullerStep, PullAgain, MergePullerCancelled
      <4> QED
        BY <1>3, <2>0, <2>2, <3>2, <4>1, LegOrder
    <3> QED
      BY <1>3, <2>2, <3>1, <3>2 DEF LegStep
  <2>3. CASE OpStep
    BY <1>3, <2>0, <2>3, ServeOrder, ReadOrder, ReplenishOrder, ReplenishFailsOrder, QuietOrder,
       SendDoneOrder DEF OpStep, MergeStep
  <2>4. CASE ClientStep
    <3>1. CASE Cancel /\ UNCHANGED <<combineVars, mergeVars>>
      BY <2>0, <3>1, CancelOrder DEF Cancel, client
    <3> QED
      BY <1>3, <2>0, <2>4, <3>1, PullOrder, QuietOrder DEF ClientStep
  <2>5. CASE UNCHANGED vars
    BY <2>0, <2>5, CancelOrder DEF vars, routerVars, client
  <2> QED
    BY <2>1, <2>2, <2>3, <2>4, <2>5 DEF Next
<1> QED
  BY <1>1, <1>2, <1>3 DEF MergeOrder

(* In every flowgraph whose merge joins sorted legs, the client receives   *)
(* each platoon in order, whether Op.Pull returned batches whole or read   *)
(* value by value, whatever the legs' pipelines drop, and whenever dones,  *)
(* errors and cancels come: neither a done that overtakes a batch nor the  *)
(* batches of the next platoon put a value out of its place.               *)
THEOREM MergeKeepsOrder == Spec => []Sorted
<1>1. MergeOrder => Sorted
  <2> SUFFICES ASSUME MergeOrder, NEW i \in 1 .. Len(out) - 1 PROVE out[i] <= out[i + 1]
    BY DEF Sorted
  <2>1. CASE graph.join = "combine"
    <3>1. Len(out) = 0
      BY <2>1 DEF MergeOrder
    <3> QED
      BY <3>1
  <2>2. CASE graph.join = "merge"
    <3>1. out \in Seq(Int) /\ \A m, n \in DOMAIN out : m < n => out[m] <= out[n]
      BY <2>2 DEF MergeOrder, OrderInv, TypeInv, MergeTypes, MergeInv
    <3>2. i \in DOMAIN out /\ i + 1 \in DOMAIN out /\ i < i + 1
      BY <3>1
    <3> QED
      BY <3>1, <3>2
  <2> QED
    BY <2>1, <2>2 DEF MergeOrder
<1> QED
  BY <1>1, OrderInit, OrderNext, PTL DEF Spec
=============================================================================
