------------------------------- MODULE Router -------------------------------
(***************************************************************************)
(* A query flowgraph between a source and a fan-in operator: op.Router     *)
(* with the selectors of fork and switch, and the legs behind its routes,  *)
(* each a short pipeline (pass, head, tail) pulled by a goroutine of its   *)
(* own, and the client at the other end.  The fan-in operators between the *)
(* legs and the client are in Combine and Merge, which extend this.        *)
(*                                                                         *)
(* Every channel here is unbuffered, so a send and its receive are one     *)
(* step of both goroutines.  A batch is a positive number that stands for  *)
(* one value; EOS and Err are the nil batch without and with an error.     *)
(***************************************************************************)
EXTENDS Integers, Sequences, FiniteSets, SequencesExt

CONSTANTS Graphs,     \* the flowgraphs
          Limit,      \* of the head operators
          SourceFails \* the source may fail

ASSUME RouterAssumption ==
    /\ Limit \in Nat \ {0}
    /\ SourceFails \in BOOLEAN
    /\ \A g \in Graphs :
         /\ g.join \in {"combine", "merge"}
         /\ \A l \in DOMAIN g.legs : g.legs[l] \in {"pass", "head", "tail"}
         /\ \A k \in DOMAIN g.platoons : \A i \in DOMAIN g.platoons[k] :
              g.forward[g.platoons[k][i]] \subseteq DOMAIN g.legs

VARIABLES graph,   \* the flowgraph that runs
          ctxDone, \* the context is cancelled
          src,     \* [k, i]: the source stands at batch i of platoon k
          failed,  \* the source has returned an error
          router,  \* [pc, item, at]: Router.run
          blocked, \* the routes marked blocked
          leg,     \* leg[l] = [pc, item, op]: goroutine and pipeline of a leg
          platoon, \* the platoon the client is in
          got,     \* got[l]: what it received of leg l in this platoon
          over     \* "open", "closed" after the last platoon, or "failed"

routerVars == <<graph, ctxDone, src, failed, router, blocked, leg>>
client     == <<platoon, got, over>>

EOS == 0
Err == -1

\* A flowgraph is a record: join, the fan-in operator; legs, the pipelines;
\* platoons, what the source has, a sequence of sequences of batches; forward,
\* the legs that the selector sends each batch to; keys, for a merge, the sort
\* keys of each leg's copy of each batch; dones and cancels, whether the client
\* may stop a platoon with Pull(true) and give up the query while it runs.
Legs == DOMAIN graph.legs
Platoons == graph.platoons

(***************************************************************************)
(* The pipeline of a leg.  op is head's count, or tail's eos flag; tail    *)
(* keeps the last batch it saw in item until its parent's EOS.             *)
(***************************************************************************)
\* The pipeline has reached its end of the platoon and owes only the EOS.
AtEnd(l) == \/ graph.legs[l] = "head" /\ leg[l].op = Limit
            \/ graph.legs[l] = "tail" /\ leg[l].op = 1

\* The goroutine calls Pull(false) on its pipeline.
Pulling(l) == IF AtEnd(l) THEN [pc |-> "out", item |-> EOS, op |-> 0]
                          ELSE [pc |-> "recv", item |-> EOS, op |-> leg[l].op]

\* The route's Pull(false) returns b to the pipeline.
Received(l, b) ==
    CASE graph.legs[l] = "pass" -> [pc |-> "out", item |-> b, op |-> 0]
      [] graph.legs[l] = "head" ->
            IF b \in {EOS, Err} THEN [pc |-> "out", item |-> b, op |-> 0]
            ELSE IF leg[l].op + 1 < Limit
            THEN [pc |-> "out", item |-> b, op |-> leg[l].op + 1]
            ELSE [pc |-> "done", item |-> b, op |-> Limit]
      [] graph.legs[l] = "tail" ->
            IF b = Err THEN [pc |-> "out", item |-> Err, op |-> 0]
            ELSE IF b = EOS
            THEN [leg[l] EXCEPT !.pc = "out", !.op = IF leg[l].item = EOS THEN 0 ELSE 1]
            ELSE [pc |-> "recv", item |-> b, op |-> 0]

\* The goroutine calls Pull(true) on its pipeline.
Dropping(l) == IF AtEnd(l) THEN [pc |-> "ended", item |-> EOS, op |-> 0]
                           ELSE [pc |-> "done", item |-> EOS, op |-> 0]

\* The route's Pull(true) returns: head goes on with its last batch,
\* a goroutine that dropped its batch is through with the platoon.
Dropped(l) == [leg[l] EXCEPT !.pc = IF leg[l].item = EOS THEN "ended" ELSE "out"]

\* What leg l makes of platoon k when nobody stops it.
Output(l, k) ==
    LET in == SelectSeq(Platoons[k], LAMBDA b : l \in graph.forward[b])
    IN  CASE graph.legs[l] = "pass" -> in
          [] graph.legs[l] = "head" -> SubSeq(in, 1, Min({Limit, Len(in)}))
          [] graph.legs[l] = "tail" -> SubSeq(in, Max({1, Len(in)}), Len(in))
-----------------------------------------------------------------------------
\* The source: platoon after platoon, then EOS for ever.
SourceItem == IF src.k > Len(Platoons) \/ src.i > Len(Platoons[src.k])
              THEN EOS ELSE Platoons[src.k][src.i]

NextPlatoonOf(s) == [k |-> Min({s.k + 1, Len(Platoons) + 1}), i |-> 1]

\* The routes the selector sends batch b to; an EOS goes to all.
Exits(b) == IF b = EOS THEN Legs ELSE graph.forward[b]

\* Whom batch b goes to after route i, and what is next when all have it.
Forward(b, i) ==
    LET T == {l \in Exits(b) \ blocked : l > i}
    IN  IF T # {} THEN /\ router' = [pc |-> "send", item |-> b, at |-> Min(T)]
                       /\ UNCHANGED blocked
        ELSE /\ router' = [pc |-> "top", item |-> EOS, at |-> 0]
             /\ blocked' = IF b = EOS THEN {} ELSE blocked

\* Everything downstream is done: the done goes upstream, all routes unblock.
DoneUpstream ==
    /\ router.pc = "top" /\ blocked = Legs
    /\ src' = IF failed THEN src ELSE NextPlatoonOf(src)
    /\ blocked' = {}
    /\ UNCHANGED <<graph, ctxDone, failed, router, leg>>

PullUpstream ==
    /\ router.pc = "top" /\ blocked # Legs /\ ~failed
    /\ src' = IF SourceItem = EOS THEN NextPlatoonOf(src) ELSE [src EXCEPT !.i = @ + 1]
    /\ Forward(SourceItem, 0)
    /\ UNCHANGED <<graph, ctxDone, failed, leg>>

\* An error of the parent: sendEOS(err) sends the routes an EOS without it.
PullUpstreamFails ==
    /\ router.pc = "top" /\ blocked # Legs
    /\ failed \/ SourceFails \/ ctxDone
    /\ failed' = TRUE
    /\ Forward(EOS, 0)
    /\ UNCHANGED <<graph, ctxDone, src, leg>>

\* Router.Send and sendEOS: the route takes the batch.
Send ==
    /\ router.pc = "send" /\ leg[router.at].pc = "recv"
    /\ leg' = [leg EXCEPT ![router.at] = Received(router.at, router.item)]
    /\ Forward(router.item, router.at)
    /\ UNCHANGED <<graph, ctxDone, src, failed>>

\* Mutant: sendEOS waits for the route to receive and does not listen for a done, and no
\* route is marked blocked.
TakeDoneNotAtEOS ==
    /\ router.pc = "send" /\ leg[router.at].pc = "done" /\ router.item # EOS
    /\ leg' = [leg EXCEPT ![router.at] = Dropped(router.at)]
    /\ Forward(router.item, router.at)
    /\ UNCHANGED <<graph, ctxDone, src, failed>>

\* The route is sending its done instead: the batch is dropped for it.
TakeDone ==
    /\ router.pc = "send" /\ leg[router.at].pc = "done"
    /\ leg' = [leg EXCEPT ![router.at] = Dropped(router.at)]
    /\ IF router.item = EOS THEN Forward(EOS, router.at)
       ELSE LET T == {l \in Exits(router.item) \ blocked : l > router.at}
            IN  /\ router' = IF T = {} THEN [pc |-> "top", item |-> EOS, at |-> 0]
                             ELSE [router EXCEPT !.at = Min(T)]
                /\ blocked' = blocked \cup {router.at}
    /\ UNCHANGED <<graph, ctxDone, src, failed>>

\* Mutant: sendEOS does not listen for the end of the context.
RouterCancelledNotAtEOS ==
    /\ ctxDone /\ router.pc = "send" /\ router.item # EOS
    /\ router' = [pc |-> "end", item |-> EOS, at |-> 0]
    /\ UNCHANGED <<graph, ctxDone, src, failed, blocked, leg>>

RouterCancelled ==
    /\ ctxDone /\ router.pc = "send"
    /\ router' = [pc |-> "end", item |-> EOS, at |-> 0]
    /\ UNCHANGED <<graph, ctxDone, src, failed, blocked, leg>>

\* The select of route.Pull takes the context's side.
RouteCancelled(l) ==
    /\ ctxDone /\ leg[l].pc \in {"recv", "done"}
    /\ leg' = [leg EXCEPT ![l] =
                IF @.pc = "recv" THEN [pc |-> "out", item |-> Err, op |-> 0]
                ELSE IF @.item = EOS THEN Dropped(l)
                ELSE [pc |-> "out", item |-> Err, op |-> Limit - 1]]
    /\ UNCHANGED <<graph, ctxDone, src, failed, router, blocked>>

RouterNext == \/ DoneUpstream \/ PullUpstream \/ PullUpstreamFails
              \/ Send \/ TakeDone \/ RouterCancelled

RouterInit ==
    /\ graph \in Graphs
    /\ ctxDone = FALSE
    /\ src = [k |-> 1, i |-> 1]
    /\ failed = FALSE
    /\ router = [pc |-> "off", item |-> EOS, at |-> 0]
    /\ blocked = {}
    /\ leg = [l \in Legs |-> [pc |-> "off", item |-> EOS, op |-> 0]]
    /\ platoon = 1
    /\ got = [l \in Legs |-> <<>>]
    /\ over = "open"

\* The first Pull of the fan-in starts the legs' goroutines, whose first
\* Pulls start the router's.
Started ==
    /\ leg' = [l \in Legs |-> IF leg[l].pc = "off" THEN Pulling(l) ELSE leg[l]]
    /\ router' = IF router.pc = "off" THEN [router EXCEPT !.pc = "top"] ELSE router
-----------------------------------------------------------------------------
\* The client receives an EOS, natural or for its done.
ClientEOS ==
    /\ platoon' = platoon + 1
    /\ got' = [l \in Legs |-> <<>>]
    /\ over' = IF platoon = Len(Platoons) THEN "closed" ELSE "open"

ClientFails == over' = "failed" /\ UNCHANGED <<platoon, got>>

\* A query that is over, or that somebody gives up, cancels its context.
Cancel ==
    /\ ~ctxDone /\ (graph.cancels \/ over # "open")
    /\ ctxDone' = TRUE
    /\ UNCHANGED <<graph, src, failed, router, blocked, leg, client>>
=============================================================================
