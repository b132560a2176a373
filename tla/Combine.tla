------------------------------- MODULE Combine -------------------------------
(***************************************************************************)
(* The combine operator over the legs of a Router: a puller goroutine per  *)
(* leg that announces itself on a shared queue and then offers its batch,  *)
(* the operator that serves one Pull(false) or Pull(true) of the client at *)
(* a time, and the barrier (waitCh) that keeps every leg in the same       *)
(* platoon.  Leg states beyond Router's:                                   *)
(*   out    at p.queue <- p            offer   at the select of run        *)
(*   sent   in wait() after an EOS     ended   in wait() after a done      *)
(***************************************************************************)
EXTENDS Router

VARIABLES queue,    \* the announced pullers
          comb,     \* [pc, cur, n]: Op.Pull
          pending,  \* the goroutines of propagateDone that still run
          waiting   \* Op's blocked parents

combineVars == <<queue, comb, pending, waiting>>

Idle == [pc |-> "idle", cur |-> 0, n |-> 0]

CombineInit ==
    /\ queue = <<>>
    /\ comb = Idle
    /\ pending = {}
    /\ waiting = {}
-----------------------------------------------------------------------------
\* Op.Pull(false).
Pull ==
    /\ comb = Idle /\ over = "open"
    /\ Started
    /\ comb' = [Idle EXCEPT !.pc = "next"]
    /\ UNCHANGED <<graph, ctxDone, src, failed, blocked, queue, pending, waiting, client>>

\* The client has what it wants of this platoon (a head downstream).
PullDone ==
    /\ graph.dones
    /\ comb = Idle /\ over = "open"
    /\ \E l \in Legs : got[l] # <<>>
    /\ comb' = [Idle EXCEPT !.pc = "propagate"]
    /\ pending' = Legs \ waiting
    /\ UNCHANGED <<routerVars, queue, waiting, client>>

\* The legs' goroutines.
Announce(l) ==
    /\ leg[l].pc = "out" /\ Len(queue) < Len(graph.legs)
    /\ queue' = Append(queue, l)
    /\ leg' = [leg EXCEPT ![l].pc = "offer"]
    /\ UNCHANGED <<graph, ctxDone, src, failed, router, blocked, comb, pending, waiting, client>>

PullerCancelled(l) ==
    /\ ctxDone /\ leg[l].pc \in {"offer", "sent", "ended"}
    /\ leg' = [leg EXCEPT ![l] = IF @.pc = "sent" THEN Pulling(l)
                                 ELSE [@ EXCEPT !.pc = "end"]]
    /\ UNCHANGED <<graph, ctxDone, src, failed, router, blocked, queue, comb, pending, waiting, client>>

\* Op.next: the next announced leg, or the barrier when all are at EOS.
NextPuller ==
    /\ comb.pc = "next"
    /\ IF waiting = Legs
       THEN comb' = [Idle EXCEPT !.pc = "unwait"] /\ UNCHANGED queue
       ELSE /\ queue # <<>>
            /\ comb' = [Idle EXCEPT !.pc = "recv", !.cur = Head(queue)]
            /\ queue' = Tail(queue)
    /\ UNCHANGED <<routerVars, pending, waiting, client>>

\* The batch the leg offers: an error, an EOS, or a batch for the client.
Receive ==
    LET l == comb.cur
        b == leg[l].item
    IN  /\ comb.pc = "recv" /\ leg[l].pc = "offer"
        /\ CASE b = Err -> /\ leg' = [leg EXCEPT ![l].pc = "end"]
                           /\ comb' = Idle /\ ClientFails
                           /\ UNCHANGED waiting
             [] b = EOS -> /\ leg' = [leg EXCEPT ![l].pc = "sent"]
                           /\ waiting' = waiting \cup {l}
                           /\ comb' = [Idle EXCEPT !.pc = "next"]
                           /\ UNCHANGED client
             [] OTHER   -> /\ leg' = [leg EXCEPT ![l] = Pulling(l)]
                           /\ got' = [got EXCEPT ![l] = Append(@, b)]
                           /\ comb' = Idle
                           /\ UNCHANGED <<waiting, platoon, over>>
        /\ UNCHANGED <<graph, ctxDone, src, failed, router, blocked, queue, pending>>

\* propagateDone: a goroutine per unblocked leg empties the queue ...
Discard ==
    /\ comb.pc = "propagate" /\ pending # {} /\ queue # <<>>
    /\ queue' = Tail(queue)
    /\ UNCHANGED <<routerVars, comb, pending, waiting, client>>

\* Mutant: the done is passed on from a leg at EOS too.
SendDoneAtEOS(l) ==
    /\ comb.pc = "propagate" /\ l \in pending /\ leg[l].pc = "offer"
    /\ leg' = [leg EXCEPT ![l] = Dropping(l)]
    /\ pending' = pending \ {l}
    /\ waiting' = waiting \cup {l}
    /\ UNCHANGED <<graph, ctxDone, src, failed, router, blocked, queue, comb, client>>

\* ... until its leg takes the done.  A leg at EOS has no done to pass on.
SendDone(l) ==
    /\ comb.pc = "propagate" /\ l \in pending /\ leg[l].pc = "offer"
    /\ leg' = [leg EXCEPT ![l] = IF @.item \in {EOS, Err}
                                 THEN [@ EXCEPT !.pc = "ended", !.item = EOS]
                                 ELSE Dropping(l)]
    /\ pending' = pending \ {l}
    /\ waiting' = waiting \cup {l}
    /\ UNCHANGED <<graph, ctxDone, src, failed, router, blocked, queue, comb, client>>

\* Mutant: the announcements of this platoon stay in the queue.
PropagatedKeepsQueue ==
    /\ comb.pc = "propagate" /\ pending = {}
    /\ comb' = [Idle EXCEPT !.pc = "unwait"]
    /\ UNCHANGED <<routerVars, queue, pending, waiting, client>>

Propagated ==
    /\ comb.pc = "propagate" /\ pending = {}
    /\ queue' = <<>>
    /\ comb' = [Idle EXCEPT !.pc = "unwait"]
    /\ UNCHANGED <<routerVars, pending, waiting, client>>

\* unwait: as many receives on waitCh as there are legs, of whichever leg.
Unwait(l) ==
    /\ comb.pc = "unwait" /\ leg[l].pc \in {"sent", "ended"}
    /\ leg' = [leg EXCEPT ![l] = Pulling(l)]
    /\ IF comb.n + 1 < Len(graph.legs)
       THEN comb' = [comb EXCEPT !.n = @ + 1] /\ UNCHANGED <<waiting, client>>
       ELSE comb' = Idle /\ waiting' = {} /\ ClientEOS
    /\ UNCHANGED <<graph, ctxDone, src, failed, router, blocked, queue, pending>>

\* The operator's selects take the context's side.
CombineCancelled ==
    /\ ctxDone /\ comb.pc \in {"next", "recv", "propagate", "unwait"}
    /\ comb.pc = "next" => waiting # Legs
    /\ comb.pc = "propagate" => pending # {}
    /\ comb' = Idle /\ ClientFails
    /\ pending' = {}
    /\ UNCHANGED <<routerVars, queue, waiting>>

CombineStep == \/ NextPuller \/ Receive \/ Discard \/ Propagated \/ CombineCancelled
               \/ \E l \in Legs : SendDone(l) \/ Unwait(l)

PullerStep(l) == Announce(l) \/ PullerCancelled(l)
=============================================================================
