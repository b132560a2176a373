------------------------------- MODULE MCPool -------------------------------
(* Instances of Pool for TLC. *)
EXTENDS Pool

CONSTANTS main, live, w1, w2

Branches == {main, live}

Setting(kinds, names, faulty, lost, ids) ==
    [kinds |-> kinds, names |-> names, faulty |-> faulty, lost |-> lost, ids |-> ids]

(* Any change and its revert on one branch. *)
Reverting == {Setting({"Load", "Delete", "Revert", "AddVectors", "DeleteVectors"},
                      {main}, {}, FALSE, 6)}

(* Compactions, rewriting deletes and vacuums; compactions whose workers   *)
(* crash while the branch comes and goes; and loads and merges of two      *)
(* branches whose workers crash and lose replies.                          *)
Sharing == {Setting({"Load", "DeleteWhere", "Compact", "Vacuum"}, {main}, {}, FALSE, 6),
            Setting({"Load", "Compact", "RemoveBranch"}, {main}, Workers, FALSE, 5),
            Setting({"Load", "Merge"}, {main, live}, Workers, TRUE, 5)}

Deleting == {Setting({"Load", "Delete", "Merge"}, {main, live}, {}, FALSE, 6)}

Symmetry == Permutations({w1, w2})
=============================================================================
