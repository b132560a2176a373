------------------------------- MODULE Stream -------------------------------
(***************************************************************************)
(* What a Puller promises the operator that pulls from it (the comment on  *)
(* zbuf.Puller, zbuf/batch.go:48-57), for a puller that joins several      *)
(* legs: a run of platoons, each delivered leg by leg in order and closed  *)
(* by an EOS once every leg is exhausted or by a done of the consumer.     *)
(***************************************************************************)
EXTENDS Naturals, Sequences

LOCAL INSTANCE SequencesExt

VARIABLES promise,   \* promise[l][k]: what leg l owes in platoon k
          cancelled, \* the query's context is done
          platoon,   \* the platoon the consumer is in
          got,       \* got[l]: what it received of leg l in this platoon
          over       \* "open", "closed" after the last platoon, or "failed"

vars == <<promise, cancelled, platoon, got, over>>

Legs == DOMAIN promise

Init == /\ cancelled = FALSE
        /\ platoon = 1
        /\ got = [l \in Legs |-> <<>>]
        /\ over = "open"

\* The consumer gets the next values of one leg or, of a merge, of several.
Batch == /\ over = "open"
         /\ got' # got
         /\ \A l \in Legs : /\ IsPrefix(got[l], got'[l])
                            /\ IsPrefix(got'[l], promise[l][platoon])
         /\ UNCHANGED <<promise, cancelled, platoon, over>>

Complete == \A l \in Legs : got[l] = promise[l][platoon]

NextPlatoon == /\ over = "open"
               /\ platoon' = platoon + 1
               /\ got' = [l \in Legs |-> <<>>]
               /\ over' = IF \A l \in Legs : platoon = Len(promise[l])
                          THEN "closed" ELSE "open"
               /\ UNCHANGED <<promise, cancelled>>

EOS == NextPlatoon /\ Complete

Done == NextPlatoon /\ \E l \in Legs : got[l] # <<>>

Cancel == cancelled' = TRUE /\ UNCHANGED <<promise, platoon, got, over>>

\* Nothing is promised to a consumer whose query was cancelled.
AfterCancel == cancelled /\ UNCHANGED <<promise, cancelled>>

Next == \/ Batch
        \/ EOS
        \/ Done
        \/ Cancel
        \/ AfterCancel

Spec == Init /\ [][Next]_vars
=============================================================================
