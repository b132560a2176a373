------------------------------ MODULE KVTable ------------------------------
(***************************************************************************)
(* The vocabulary of the journal store (lake/journal/store.go): tables of  *)
(* entries, what an operation's check demands of a table and what its      *)
(* journal entry does to one.                                              *)
(***************************************************************************)
EXTENDS Naturals

CONSTANTS
    Keys,       \* keys of the store: pool names, branch names
    Vals,       \* entries: pool and branch configurations
    NoVal,      \* "not in the table"
    Ops         \* the operations clients call

Tables == [Keys -> Vals \cup {NoVal}]

(* Reads (All, Keys, Values, Lookup) leave no entry; the others carry the  *)
(* new entry val, the key Move takes the entry to, and the entry the       *)
(* caller's Constraint accepts (NoVal: no constraint).                     *)
ReadKinds   == {"All", "Lookup"}
CommitKinds == {"Insert", "Update", "Delete", "Move"}

OpRecords == [kind : ReadKinds \cup CommitKinds, key : Keys, newKey : Keys,
              val : Vals, expect : Vals \cup {NoVal}]

ASSUME NoValAssumption == NoVal \notin Vals
ASSUME OpsAssumption   == Ops \subseteq OpRecords /\ Ops # {}

EmptyTable == [k \in Keys |-> NoVal]

(* The check function each operation hands to Store.commit. *)
CheckOK(t, op) ==
    \/ op.kind = "Insert" /\ t[op.key] = NoVal
    \/ op.kind = "Move"   /\ t[op.key] # NoVal /\ t[op.newKey] = NoVal
    \/ /\ op.kind \in {"Update", "Delete"}
       /\ t[op.key] # NoVal
       /\ op.expect \in {NoVal, t[op.key]}

(* What replaying the journal entry of an operation does to one key. *)
Touches(op, k) == k = op.key \/ (op.kind = "Move" /\ k = op.newKey)

Written(op, k) ==
    IF op.kind = "Delete" \/ (op.kind = "Move" /\ k # op.newKey)
    THEN NoVal ELSE op.val

Apply(t, op) == [k \in Keys |-> IF Touches(op, k) THEN Written(op, k) ELSE t[k]]
============================================================================
