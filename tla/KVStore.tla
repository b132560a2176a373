------------------------------ MODULE KVStore ------------------------------
(***************************************************************************)
(* The promise of the journal store (lake/journal/store.go): a key-value   *)
(* table that changes only by whole operations, one at a time, each of     *)
(* them valid in exactly the table it changes.                             *)
(***************************************************************************)
EXTENDS KVTable

VARIABLE kv     \* the table

Init == kv = EmptyTable

Commit(op) ==
    /\ op.kind \in CommitKinds
    /\ CheckOK(kv, op)
    /\ kv' = Apply(kv, op)

Next == \E op \in Ops : Commit(op)

Spec == Init /\ [][Next]_kv
============================================================================
