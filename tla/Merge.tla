-------------------------------- MODULE Merge --------------------------------
(***************************************************************************)
(* The merge operator over the legs of a Router: a puller goroutine per    *)
(* leg that offers one batch at a time, and the operator, which keeps the  *)
(* first unread batch of every leg in a heap (hol) and refills it from the *)
(* leg it takes a batch of.                                                *)
(* Leg states beyond Router's: out, at the select of puller.run; ended,    *)
(* about to loop; end, returned.  The heap is the set hol: which member is *)
(* hol[0] depends on the keys, and any other member can be the last one.   *)
(***************************************************************************)
EXTENDS Router

CONSTANT BatchValues \* zbuf.PullerBatchValues

ASSUME MergeAssumption == BatchValues \in Nat \ {0}

\* A merge joins one leg or more, and they are sorted: the keys of each batch,
\* and those of the batches of a platoon that go to the same leg.
SortedLegs(g) ==
    /\ g.legs \in Seq(STRING) \ {<<>>} /\ g.platoons \in Seq(Seq(Nat \ {0}))
    /\ \A l \in DOMAIN g.legs, k \in DOMAIN g.platoons :
        LET batch  == g.platoons[k]
            mine   == {i \in DOMAIN batch : l \in g.forward[batch[i]]}
            key(i) == g.keys[l][batch[i]]
        IN  \A i \in mine :
              /\ key(i) \in Seq(Int) \ {<<>>}
              /\ \A m, n \in DOMAIN key(i) : m < n => key(i)[m] <= key(i)[n]
              /\ \A j \in mine : i < j => \A m \in DOMAIN key(i), n \in DOMAIN key(j) :
                                                key(i)[m] <= key(j)[n]

ASSUME SortedAssumption == \A g \in Graphs : g.join = "merge" => SortedLegs(g)

VARIABLES merge, \* [pc, at, then]: Op.Pull
          acc,   \* the values the running Pull has taken so far
          hol,   \* the legs in the head-of-line heap
          vals,  \* vals[l]: the unread values of leg l's batch
          out    \* the keys the client received in this platoon

mergeVars == <<merge, acc, hol, vals, out>>

Ready == [pc |-> "idle", at |-> 0, then |-> "none"]

MergeInit ==
    /\ merge = Ready
    /\ acc = <<>>
    /\ hol = {}
    /\ vals = [l \in Legs |-> <<>>]
    /\ out = <<>>

\* The values of leg l's copy of batch b, each with its leg and its key.
Values(l, b) == [i \in DOMAIN graph.keys[l][b] |-> [leg |-> l, key |-> graph.keys[l][b][i]]]

First(s) == Head(s).key
Least(S) == {l \in S : \A m \in S : First(vals[l]) <= First(vals[m])}

Deliver(s) ==
    /\ merge' = Ready
    /\ acc' = <<>>
    /\ got' = [l \in Legs |-> got[l] \o SelectSeq(s, LAMBDA v : v.leg = l)]
    /\ out' = out \o [i \in DOMAIN s |-> s[i].key]
    /\ UNCHANGED <<platoon, over>>

MergeFails == merge' = Ready /\ acc' = <<>> /\ ClientFails /\ UNCHANGED out
-----------------------------------------------------------------------------
\* The first Pull starts the goroutines and fills the heap.
MergePull ==
    /\ merge = Ready /\ over = "open"
    /\ Started
    /\ merge' = IF router.pc = "off" THEN [pc |-> "start", at |-> 1, then |-> "serve"]
                ELSE [Ready EXCEPT !.pc = "serve"]
    /\ UNCHANGED <<graph, ctxDone, src, failed, blocked, acc, hol, vals, client, out>>

MergePullDone ==
    /\ graph.dones
    /\ merge = Ready /\ over = "open"
    /\ out # <<>>
    /\ merge' = [Ready EXCEPT !.pc = "propagate"]
    /\ UNCHANGED <<routerVars, acc, hol, vals, client, out>>

\* Mutant: a batch is returned whole if it begins before the others do.
ServeWhole ==
    /\ merge.pc = "serve"
    /\ \/ /\ hol = {}
          /\ merge' = [pc |-> "start", at |-> 1, then |-> "eos"]
          /\ UNCHANGED <<acc, hol>>
       \/ \E l \in Least(hol) :
             /\ merge' = [pc |-> "fill", at |-> l, then |-> "return"]
             /\ acc' = vals[l]
             /\ hol' = hol \ {l}
    /\ UNCHANGED <<routerVars, vals, client, out>>

\* The heap is empty (EOS), or its least batch ends before the next begins
\* and is returned whole, or values are read one by one.
Serve ==
    /\ merge.pc = "serve"
    /\ \/ /\ hol = {}
          /\ merge' = [pc |-> "start", at |-> 1, then |-> "eos"]
          /\ UNCHANGED <<acc, hol>>
       \/ \E l \in Least(hol) :
             IF \A m \in hol \ {l} : Last(vals[l]).key <= First(vals[m])
             THEN /\ merge' = [pc |-> "fill", at |-> l, then |-> "return"]
                  /\ acc' = vals[l]
                  /\ hol' = hol \ {l}
             ELSE /\ merge' = [Ready EXCEPT !.pc = "read"]
                  /\ UNCHANGED <<acc, hol>>
    /\ UNCHANGED <<routerVars, vals, client, out>>

\* Op.Read under zbuf.NewPuller: up to BatchValues values.
Read ==
    /\ merge.pc = "read"
    /\ IF hol = {} \/ Len(acc) = BatchValues
       THEN Deliver(acc) /\ UNCHANGED <<hol, vals>>
       ELSE \E l \in Least(hol) :
              /\ acc' = Append(acc, Head(vals[l]))
              /\ vals' = [vals EXCEPT ![l] = Tail(@)]
              /\ IF Len(vals[l]) > 1 THEN UNCHANGED <<merge, hol>>
                 ELSE /\ merge' = [pc |-> "fill", at |-> l, then |-> "read"]
                      /\ hol' = hol \ {l}
              /\ UNCHANGED <<client, out>>
    /\ UNCHANGED routerVars

\* replenish: the leg's next batch joins the heap, its EOS leaves it out.
Replenish ==
    LET l == merge.at
        b == leg[l].item
    IN  /\ merge.pc \in {"fill", "start"} /\ leg[l].pc = "out"
        /\ IF b = Err
           THEN /\ leg' = [leg EXCEPT ![l].pc = "end"]
                /\ MergeFails
                /\ UNCHANGED <<hol, vals>>
           ELSE /\ leg' = [leg EXCEPT ![l] = Pulling(l)]
                /\ hol' = IF b = EOS THEN hol ELSE hol \cup {l}
                /\ vals' = [vals EXCEPT ![l] = IF b = EOS THEN <<>> ELSE Values(l, b)]
                /\ CASE merge.then = "return" -> Deliver(acc)
                     [] merge.then = "read" -> /\ merge' = [Ready EXCEPT !.pc = "read"]
                                               /\ UNCHANGED <<acc, client, out>>
                     [] merge.pc = "start" /\ l < Len(graph.legs) ->
                            /\ merge' = [merge EXCEPT !.at = @ + 1]
                            /\ UNCHANGED <<acc, client, out>>
                     [] merge.then = "serve" /\ l = Len(graph.legs) ->
                            /\ merge' = [Ready EXCEPT !.pc = "serve"]
                            /\ UNCHANGED <<acc, client, out>>
                     [] merge.then = "eos" /\ l = Len(graph.legs) ->
                            merge' = Ready /\ out' = <<>> /\ ClientEOS /\ UNCHANGED acc
        /\ UNCHANGED <<graph, ctxDone, src, failed, router, blocked>>

\* propagateDone takes the legs off the end of the heap, one after the other.
PopLast ==
    /\ merge.pc = "propagate"
    /\ \/ /\ hol = {}
          /\ merge' = [pc |-> "start", at |-> 1, then |-> "eos"]
          /\ UNCHANGED hol
       \/ \E l \in hol :
             /\ hol = {l} \/ Least(hol) # {l}
             /\ hol' = hol \ {l}
             /\ merge' = [Ready EXCEPT !.pc = "done", !.at = l]
    /\ UNCHANGED <<routerVars, acc, vals, client, out>>

\* The leg takes the done, drops what it holds, EOS included, and passes it on.
SendDoneTo ==
    /\ merge.pc = "done" /\ leg[merge.at].pc = "out"
    /\ leg' = [leg EXCEPT ![merge.at] = Dropping(merge.at)]
    /\ vals' = [vals EXCEPT ![merge.at] = <<>>]
    /\ merge' = [Ready EXCEPT !.pc = "propagate"]
    /\ UNCHANGED <<graph, ctxDone, src, failed, router, blocked, acc, hol, client, out>>

PullAgain(l) ==
    /\ leg[l].pc = "ended"
    /\ leg' = [leg EXCEPT ![l] = Pulling(l)]
    /\ UNCHANGED <<graph, ctxDone, src, failed, router, blocked, mergeVars, client>>

MergePullerCancelled(l) ==
    /\ ctxDone /\ leg[l].pc = "out"
    /\ leg' = [leg EXCEPT ![l].pc = "end"]
    /\ UNCHANGED <<graph, ctxDone, src, failed, router, blocked, mergeVars, client>>

MergeCancelled ==
    /\ ctxDone /\ merge.pc \in {"fill", "start", "done"}
    /\ MergeFails
    /\ UNCHANGED <<routerVars, hol, vals>>

MergeStep == Serve \/ Read \/ Replenish \/ PopLast \/ SendDoneTo \/ MergeCancelled

MergePullerStep(l) == PullAgain(l) \/ MergePullerCancelled(l)
=============================================================================
