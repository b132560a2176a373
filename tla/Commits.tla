------------------------------ MODULE Commits ------------------------------
(***************************************************************************)
(* Commit objects, the snapshots they lead to and the patches between      *)
(* snapshots (lake/commits).  Data objects and their vectors obey the same *)
(* rules, so a snapshot, a commit object and a patch each hold one part    *)
(* per family of IDs.                                                      *)
(***************************************************************************)
EXTENDS Naturals, Sequences, FiniteSets, SequencesExt

Family == {"objs", "vecs"}

(* The actions of a commit object, in the order every constructor appends  *)
(* them: data objects deleted, then added; vectors deleted, then added.    *)
Actions(delObjs, addObjs, delVecs, addVecs) ==
    [del |-> [objs |-> delObjs, vecs |-> delVecs],
     add |-> [objs |-> addObjs, vecs |-> addVecs]]

Nothing      == [f \in Family |-> {}]
NewSnapshot  == [ok |-> TRUE, has |-> Nothing]
Unreadable   == [ok |-> FALSE, has |-> Nothing]     \* playing it is an error

(* ErrWriteConflict: a delete of what is absent, an add of what is there. *)
Playable(v, c) ==
    \A f \in Family :
        /\ IsInjective(c.del[f]) /\ ToSet(c.del[f]) \subseteq v.has[f]
        /\ IsInjective(c.add[f])
        /\ ToSet(c.add[f]) \cap (v.has[f] \ ToSet(c.del[f])) = {}

Play(v, c) ==
    IF v.ok /\ Playable(v, c)
    THEN [ok |-> TRUE, has |-> [f \in Family |->
                (v.has[f] \ ToSet(c.del[f])) \cup ToSet(c.add[f])]]
    ELSE Unreadable

----------------------------------------------------------------------------
(* Patch: what is added to a base snapshot and what is deleted from it.    *)
NewPatch(base) ==
    [f \in Family |-> [ok |-> TRUE, base |-> base.has[f], diff |-> {}, dels |-> <<>>]]

(* What a Lookup in one family of a patch finds, the deleted included. *)
All(part) == part.base \cup part.diff

PatchDelete(part, id) ==
    IF id \in part.diff THEN [part EXCEPT !.diff = @ \ {id}]
    ELSE [part EXCEPT !.ok = @ /\ id \in part.base, !.dels = Append(@, id)]

PatchAdd(part, id) ==
    [part EXCEPT !.ok = @ /\ id \notin All(part), !.diff = @ \cup {id}]

(* Play the actions c into a patch. *)
PlayPatch(p, c) ==
    [f \in Family |->
        FoldLeft(PatchAdd, FoldLeft(PatchDelete, p[f], c.del[f]), c.add[f])]

PatchOK(p) == \A f \in Family : p[f].ok

(* Mutant: what the parent has already is added again. *)
DiffAll(parent, child) ==
    IF child.objs.diff = {} /\ child.objs.dels = <<>> THEN {}
    ELSE {Actions(child.objs.dels, SetToSeq(child.objs.diff), <<>>, <<>>)}

(* Diff: what the child's patch adds to the parent's.  Constructors return *)
(* a set: the one commit object, or none for an error.                     *)
Diff(parent, child) ==
    LET adds == All(child.objs) \ All(parent.objs)
        dels == child.objs.dels
        conflict == \/ adds \cap ToSet(dels) # {}
                    \/ ~(ToSet(dels) \subseteq All(parent.objs))
    IN IF conflict \/ (adds = {} /\ dels = <<>>) THEN {}
       ELSE {Actions(dels, SetToSeq(adds), <<>>, <<>>)}

(* Mutant: the tip is not consulted. *)
RevertBlindly(patch, tip) ==
    {Actions(SetToSeq(patch.objs.diff), patch.objs.dels, <<>>, <<>>)}

(* The IDs that are absent in a snapshot, in order. *)
Absent(tip, ids) ==
    FoldLeft(LAMBDA adds, id : IF id \in tip.has.objs THEN adds ELSE Append(adds, id), <<>>, ids)

(* Revert: delete what the patch added and the tip has, add back what it   *)
(* deleted and the tip lacks.                                              *)
RevertPatch(patch, tip) ==
    LET dels == SetToSeq(patch.objs.diff \cap tip.has.objs)
        adds == Absent(tip, patch.objs.dels)
    IN IF dels = <<>> /\ adds = <<>> THEN {}
       ELSE {Actions(dels, adds, <<>>, <<>>)}
============================================================================
