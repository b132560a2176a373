----------------------------- MODULE MCJournal -----------------------------
(* Instances of Journal for TLC. *)
EXTENDS Journal, TLC

CONSTANTS k1, k2, v1, v2, p1, p2, t1, t2

MCKeys == {k1, k2}
MCVals == {v1, v2}

Op(kind, k, n, v, e) ==
    [kind |-> kind, key |-> k, newKey |-> n, val |-> v, expect |-> e]

All == Op("All", k1, k1, v1, NoVal)

(* Every kind of operation, on colliding keys. *)
MCOps == {
    All,
    Op("Insert", k1, k1, v1, NoVal), Op("Insert", k2, k2, v1, NoVal),
    Op("Update", k1, k1, v2, v1),    Op("Delete", k1, k1, v1, v2),
    Op("Move",   k1, k2, v1, NoVal)}

(* One key inserted, updated and deleted. *)
MCKeyOps == {All,
    Op("Insert", k1, k1, v1, NoVal), Op("Update", k1, k1, v2, NoVal),
    Op("Delete", k1, k1, v1, NoVal)}

MCLookupOps == MCKeyOps \cup {Op("Lookup", k1, k1, v1, NoVal)}

MCStoreOf == (t1 :> p1) @@ (t2 :> p2)       \* two processes
MCShared  == (t1 :> p1) @@ (t2 :> p1)       \* two goroutines of one process
============================================================================
