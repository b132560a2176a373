----------------------------- MODULE PoolProofs -----------------------------
(***************************************************************************)
(* Theorems about the history and the snapshots of branches, for any       *)
(* number of workers, branches, objects and retries, and any mix of        *)
(* operations and faults.                                                  *)
(***************************************************************************)
EXTENDS Pool, TLAPS, FiniteSetTheorems, WellFoundedInduction

USE NoBranchAssumption

----------------------------------------------------------------------------
(* Paths.  Path is a recursive function of the commit objects; that there  *)
(* is one and only one function with its equation is part of the           *)
(* invariant, so that the induction is along the behaviour and not over    *)
(* the length of a path.                                                   *)

IsPath(f) ==
    f = [c \in 0 .. Len(commits) |->
            IF c = Nil THEN {} ELSE {c} \cup f[commits[c].parent]]

PathDefined ==
    /\ \E S : commits \in Seq(S)
    /\ \E f : IsPath(f)
    /\ \A f, g : IsPath(f) /\ IsPath(g) => f = g

(* The parent of a commit object is an older one, and a path holds the     *)
(* paths of its commits.                                                   *)
PathShape ==
    /\ \A c \in 1 .. Len(commits) : commits[c].parent \in 0 .. c - 1
    /\ \A c \in 0 .. Len(commits) : Path[c] \subseteq 1 .. c
    /\ \A c, d \in 0 .. Len(commits) : c \in Path[d] => Path[c] \subseteq Path[d]

TreeInv == PathDefined /\ PathShape

LEMMA PathIsPath == ASSUME \E f : IsPath(f) PROVE IsPath(Path)
  BY DEF IsPath, Path

(* The equation of Path, one commit at a time. *)
LEMMA PathEquation ==
  ASSUME TreeInv
  PROVE /\ Path[0] = {}
        /\ \A c \in 1 .. Len(commits) : Path[c] = {c} \cup Path[commits[c].parent]
        /\ Len(commits) \in Nat
<1>1. IsPath(Path)
  BY PathIsPath DEF TreeInv, PathDefined
<1>2. Len(commits) \in Nat
  BY DEF TreeInv, PathDefined
<1>3. Path[0] = {}
  BY <1>1, <1>2 DEF IsPath, Nil
<1>4. ASSUME NEW c \in 1 .. Len(commits)
      PROVE Path[c] = {c} \cup Path[commits[c].parent]
  BY <1>1, <1>2 DEF IsPath, Nil
<1> QED
  BY <1>2, <1>3, <1>4

LEMMA TreeSame ==
  ASSUME TreeInv, UNCHANGED commits
  PROVE TreeInv' /\ Path' = Path
<1>1. Path' = Path
  BY DEF Path
<1>2. PathDefined'
  BY DEF TreeInv, PathDefined, IsPath
<1>3. PathShape'
  BY <1>1 DEF TreeInv, PathShape
<1> QED
  BY <1>1, <1>2, <1>3 DEF TreeInv

(* A new commit object leaves the paths of the others alone. *)
LEMMA TreeGrows ==
  ASSUME TreeInv, NEW par \in 0 .. Len(commits), NEW acts,
         commits' = Append(commits, [parent |-> par, acts |-> acts])
  PROVE /\ TreeInv'
        /\ Len(commits') = Len(commits) + 1
        /\ \A c \in 1 .. Len(commits) : commits'[c] = commits[c]
        /\ commits'[Len(commits) + 1].parent = par
        /\ \A c \in 0 .. Len(commits) : Path'[c] = Path[c]
        /\ Path'[Len(commits) + 1] = {Len(commits) + 1} \cup Path[par]
<1> DEFINE N == Len(commits)
           e == [parent |-> par, acts |-> acts]
<1>1. N \in Nat /\ IsPath(Path) /\ PathShape /\ \A f, g : IsPath(f) /\ IsPath(g) => f = g
  BY PathIsPath DEF TreeInv, PathDefined
<1>2. PICK S : commits \in Seq(S)
  BY DEF TreeInv, PathDefined
<1>3. /\ Len(commits') = N + 1
      /\ \A c \in 1 .. N : commits'[c] = commits[c]
      /\ commits'[N + 1] = e
  BY <1>2
<1>4. commits' \in Seq(S \cup {e})
  BY <1>2
<1>5. \A c \in 1 .. N + 1 : commits'[c].parent \in 0 .. c - 1
  BY <1>1, <1>3 DEF PathShape
<1> HIDE DEF N, e
(* A path of the longer sequence is one of the shorter, and more.          *)
<1>6. ASSUME NEW f, IsPath(f)'
      PROVE /\ \A c \in 0 .. N : f[c] = Path[c]
            /\ f[N + 1] = {N + 1} \cup Path[par]
            /\ f = [c \in 0 .. N + 1 |-> f[c]]
  <2> DEFINE g == [c \in 0 .. N |-> f[c]]
  <2>1. f = [c \in 0 .. N + 1 |->
              IF c = Nil THEN {} ELSE {c} \cup f[commits'[c].parent]]
    BY <1>3, <1>6 DEF IsPath
  <2>0. \A c \in 0 .. N + 1 :
          f[c] = IF c = Nil THEN {} ELSE {c} \cup f[commits'[c].parent]
    BY <2>1
  <2>2. ASSUME NEW c \in 0 .. N
        PROVE g[c] = IF c = Nil THEN {} ELSE {c} \cup g[commits[c].parent]
    <3>1. c = Nil => g[c] = {}
      BY <2>1, <1>1
    <3>2. c # Nil => commits[c].parent \in 0 .. N /\ commits'[c] = commits[c]
      BY <1>1, <1>3, <1>5 DEF Nil
    <3>3. c # Nil => f[c] = {c} \cup f[commits[c].parent]
      <4>1. c \in 0 .. N + 1
        BY <1>1
      <4> QED
        BY <2>0, <3>2, <4>1
    <3> QED
      BY <3>1, <3>2, <3>3
  <2>3. IsPath(g)
    BY <2>2 DEF IsPath, N
  <2>4. g = Path
    BY <2>3, <1>1
  <2>5. \A c \in 0 .. N : f[c] = Path[c]
    BY <2>4
  <2>6. f[N + 1] = {N + 1} \cup f[par]
    <3>1. commits'[N + 1].parent = par /\ N + 1 # Nil /\ N + 1 \in 0 .. N + 1
      BY <1>1, <1>3 DEF e, Nil
    <3> QED
      BY <2>0, <3>1
  <2> QED
    BY <2>1, <2>5, <2>6 DEF N
<1>7. \E f : IsPath(f)'
  <2> DEFINE h == [c \in 0 .. N + 1 |-> IF c = N + 1 THEN {N + 1} \cup Path[par] ELSE Path[c]]
  <2>1. /\ h[N + 1] = {N + 1} \cup Path[par]
        /\ \A c \in 0 .. N : h[c] = Path[c]
        /\ h = [c \in 0 .. N + 1 |-> h[c]]
    BY <1>1
  <2> HIDE DEF h
  <2>2. ASSUME NEW c \in 0 .. N + 1
        PROVE h[c] = IF c = Nil THEN {} ELSE {c} \cup h[commits'[c].parent]
    <3>1. CASE c = N + 1
      <4>1. commits'[c].parent = par /\ par \in 0 .. N /\ c # Nil
        BY <3>1, <1>1, <1>3 DEF e, N, Nil
      <4> QED
        BY <4>1, <3>1, <2>1
    <3>2. CASE c = Nil
      <4>1. Path[c] = {} /\ c \in 0 .. N
        BY <3>2, <1>1, PathEquation DEF Nil
      <4> QED
        BY <4>1, <3>2, <2>1
    <3>3. CASE c \in 1 .. N
      <4>1. commits'[c] = commits[c] /\ commits[c].parent \in 0 .. N
        BY <3>3, <1>1, <1>3, <1>5
      <4>2. Path[c] = {c} \cup Path[commits[c].parent]
        BY <3>3, PathEquation DEF N
      <4>3. c # Nil /\ c \in 0 .. N
        BY <3>3 DEF Nil
      <4> QED
        BY <4>1, <4>2, <4>3, <2>1
    <3>4. c = N + 1 \/ c = Nil \/ c \in 1 .. N
      BY <1>1 DEF Nil
    <3> QED
      BY <3>1, <3>2, <3>3, <3>4
  <2>3. h = [c \in 0 .. N + 1 |-> IF c = Nil THEN {} ELSE {c} \cup h[commits'[c].parent]]
    BY <2>1, <2>2
  <2>4. \E f : f = [c \in 0 .. N + 1 |->
                      IF c = Nil THEN {} ELSE {c} \cup f[commits'[c].parent]]
    BY <2>3
  <2>5. PICK f : f = [c \in 0 .. N + 1 |->
                       IF c = Nil THEN {} ELSE {c} \cup f[commits'[c].parent]]
    BY <2>4
  <2>6. IsPath(f)'
    BY <2>5, <1>3 DEF IsPath
  <2> QED
    BY <2>6
<1>8. IsPath(Path)'
  BY <1>7 DEF IsPath, Path
<1>9. \A c \in 0 .. N : Path'[c] = Path[c]
  BY <1>6, <1>8
<1>10. Path'[N + 1] = {N + 1} \cup Path[par]
  BY <1>6, <1>8
<1>11. PathDefined'
  <2>1. ASSUME NEW f, NEW g, IsPath(f)', IsPath(g)'
        PROVE f = g
    <3>1. /\ \A c \in 0 .. N : f[c] = Path[c]
          /\ f[N + 1] = {N + 1} \cup Path[par]
          /\ f = [c \in 0 .. N + 1 |-> f[c]]
      BY <1>6, <2>1
    <3>2. /\ \A c \in 0 .. N : g[c] = Path[c]
          /\ g[N + 1] = {N + 1} \cup Path[par]
          /\ g = [c \in 0 .. N + 1 |-> g[c]]
      BY <1>6, <2>1
    <3>3. \A c \in 0 .. N + 1 : c \in 0 .. N \/ c = N + 1
      BY <1>1
    <3>4. \A c \in 0 .. N + 1 : f[c] = g[c]
      BY <3>1, <3>2, <3>3
    <3>5. [c \in 0 .. N + 1 |-> f[c]] = [c \in 0 .. N + 1 |-> g[c]]
      BY <3>4
    <3> QED
      BY <3>1, <3>2, <3>5
  <2> QED
    BY <1>4, <1>7, <2>1 DEF PathDefined
<1>12. PathShape'
  <2>1. \A c \in 0 .. N : Path[c] \subseteq 1 .. c
    BY <1>1 DEF PathShape, N
  <2>2. \A c \in 0 .. N + 1 : Path'[c] \subseteq 1 .. c
    BY <2>1, <1>1, <1>9, <1>10 DEF N
  <2>3. ASSUME NEW c \in 0 .. N + 1, NEW d \in 0 .. N + 1, c \in Path'[d]
        PROVE Path'[c] \subseteq Path'[d]
    <3>1. CASE d \in 0 .. N
      <4>1. c \in Path[d] /\ c \in 0 .. N
        BY <3>1, <2>1, <2>3, <1>1, <1>9
      <4> QED
        BY <4>1, <3>1, <1>1, <1>9 DEF PathShape, N
    <3>2. CASE d = N + 1 /\ c = N + 1
      BY <3>2
    <3>3. CASE d = N + 1 /\ c # N + 1
      <4>1. c \in Path[par] /\ c \in 0 .. N
        BY <3>3, <2>3, <1>1, <1>10
      <4> QED
        BY <4>1, <3>3, <1>1, <1>9, <1>10 DEF PathShape, N
    <3> QED
      BY <3>1, <3>2, <3>3, <1>1
  <2> QED
    BY <2>2, <2>3, <1>3, <1>5 DEF PathShape
<1> QED
  BY <1>3, <1>9, <1>10, <1>11, <1>12 DEF TreeInv, N, e

----------------------------------------------------------------------------
(* The inductive invariant.  Data objects and the contents of commits play *)
(* no part in it.                                                          *)

OnBranch == {"lookup", "create", "update", "remove"}
OnTip    == {"create", "update", "remove"}

(* What is needed of the types: branches point at commits, and a worker    *)
(* knows its branch, then the tip it works on.                             *)
WorkInv ==
    /\ tips \in [Names -> 0 .. Len(commits) \cup {NoBranch}]
    /\ pc \in [Workers -> OnBranch \cup {"idle", "vacuum"}]
    /\ job = [p \in Workers |-> job[p]]
    /\ \A p \in Workers :
         /\ DOMAIN job[p] = DOMAIN Done
         /\ pc[p] \in OnBranch => job[p].branch \in Names
         /\ pc[p] \in OnTip => job[p].parent \in 0 .. Len(commits)

(* The commit object a worker has put and not yet made a tip is its own:   *)
(* it is in storage, built on the tip the worker looked up, and on no      *)
(* branch and on nothing another worker builds on.                         *)
OwnInv ==
    \A p \in Workers : pc[p] = "update" =>
        /\ job[p].made \in files \cap 1 .. Len(commits)
        /\ commits[job[p].made].parent = job[p].parent
        /\ \A b \in Names : Exists(b) => job[p].made \notin Path[tips[b]]
        /\ \A q \in Workers : pc[q] \in OnTip => job[p].made \notin Path[job[q].parent]
        /\ \A q \in Workers : pc[q] = "update" /\ job[q].made = job[p].made => q = p

IInv == TreeInv /\ WorkInv /\ OwnInv /\ TipsReachable

Fields == {"kind", "branch", "ids", "from", "new", "vecs", "parent", "made", "retries"}

LEMMA DoneFields == DOMAIN Done = Fields /\ Done.branch = NoBranch
  BY DEF Done, Fields

(* TipsReachable, branch by branch. *)
LEMMA Reachable ==
  TipsReachable <=>
    (~setting.lost => \A b \in Names : Exists(b) => Path[tips[b]] \subseteq files)
  BY DEF TipsReachable, Tips

(* A worker that returns, calls an operation, starts its commit over or    *)
(* vacuums touches no branch, and no commit object but its own.            *)
LEMMA LocalStep ==
  ASSUME IInv, NEW p \in Workers, NEW w \in {"idle", "lookup", "vacuum"}, NEW j,
         DOMAIN j = Fields, w = "lookup" => j.branch \in Names,
         pc' = [pc EXCEPT ![p] = w], job' = [job EXCEPT ![p] = j],
         \/ files' = files
         \/ pc[p] = "update" /\ files' = files \ {job[p].made},
         UNCHANGED <<commits, tips, setting>>
  PROVE IInv'
<1>1. TreeInv' /\ Path' = Path
  BY TreeSame DEF IInv
<1>2. /\ \A q \in Workers \ {p} : pc'[q] = pc[q] /\ job'[q] = job[q]
      /\ pc'[p] = w /\ job'[p] = j
  BY DEF IInv, WorkInv
<1>3. WorkInv'
  <2>1. pc' \in [Workers -> OnBranch \cup {"idle", "vacuum"}]
    BY DEF IInv, WorkInv, OnBranch
  <2>2. job' = [q \in Workers |-> job'[q]]
    BY DEF IInv, WorkInv
  <2>3. tips' \in [Names -> 0 .. Len(commits') \cup {NoBranch}]
    BY DEF IInv, WorkInv
  <2>4. ASSUME NEW q \in Workers
        PROVE /\ DOMAIN job'[q] = DOMAIN Done
              /\ pc'[q] \in OnBranch => job'[q].branch \in Names
              /\ pc'[q] \in OnTip => job'[q].parent \in 0 .. Len(commits')
    <3>1. CASE q = p
      BY <3>1, <1>2, DoneFields DEF OnBranch, OnTip
    <3>2. CASE q # p
      BY <3>2, <1>2 DEF IInv, WorkInv
    <3> QED
      BY <3>1, <3>2
  <2> QED
    BY <2>1, <2>2, <2>3, <2>4 DEF WorkInv
<1>4. OwnInv'
  <2> SUFFICES ASSUME NEW q \in Workers, pc'[q] = "update"
      PROVE /\ job'[q].made \in files' \cap 1 .. Len(commits')
            /\ commits'[job'[q].made].parent = job'[q].parent
            /\ \A b \in Names : Exists(b)' => job'[q].made \notin Path'[tips'[b]]
            /\ \A r \in Workers : pc'[r] \in OnTip => job'[q].made \notin Path'[job'[r].parent]
            /\ \A r \in Workers : pc'[r] = "update" /\ job'[r].made = job'[q].made => r = q
    BY DEF OwnInv
  <2>1. q # p /\ pc[q] = "update" /\ job'[q] = job[q]
    BY <1>2
  <2>2. job[q].made \in files'
    BY <2>1 DEF IInv, OwnInv
  <2>3. \A r \in Workers : pc'[r] \in OnTip => r # p /\ pc[r] \in OnTip /\ job'[r] = job[r]
    BY <1>2 DEF OnTip
  <2> QED
    BY <1>1, <1>2, <2>1, <2>2, <2>3 DEF IInv, OwnInv, Exists
<1>5. TipsReachable'
  <2>1. \A b \in Names : Exists(b) /\ Path[tips[b]] \subseteq files => Path[tips[b]] \subseteq files'
    BY DEF IInv, OwnInv
  <2>2. ~setting.lost => \A b \in Names : Exists(b)' => Path'[tips'[b]] \subseteq files'
    BY <1>1, <2>1, Reachable DEF IInv, Exists
  <2> QED
    BY <2>2 DEF TipsReachable, Tips
<1> QED
  BY <1>1, <1>3, <1>4, <1>5 DEF IInv

(* The tip a worker looks up is one that exists: no worker's unfinished    *)
(* commit is on its path.                                                  *)
LEMMA LookupStep ==
  ASSUME IInv, NEW p \in Workers, NEW w \in {"create", "remove"},
         pc[p] = "lookup", Exists(job[p].branch),
         pc' = [pc EXCEPT ![p] = w],
         job' = [job EXCEPT ![p] = [job[p] EXCEPT !.parent = tips[job[p].branch]]],
         UNCHANGED <<commits, files, tips, setting>>
  PROVE IInv'
<1> DEFINE b == job[p].branch
<1>1. TreeInv' /\ Path' = Path
  BY TreeSame DEF IInv
<1>2. b \in Names /\ tips[b] \in 0 .. Len(commits)
  BY DEF IInv, WorkInv, OnBranch, Exists
<1>3. /\ \A q \in Workers \ {p} : pc'[q] = pc[q] /\ job'[q] = job[q]
      /\ pc'[p] = w /\ DOMAIN job'[p] = Fields
      /\ job'[p].branch = b /\ job'[p].parent = tips[b]
  BY DoneFields DEF IInv, WorkInv, Fields
<1>4. WorkInv'
  <2>1. pc' \in [Workers -> OnBranch \cup {"idle", "vacuum"}]
    BY DEF IInv, WorkInv, OnBranch
  <2>2. job' = [q \in Workers |-> job'[q]]
    BY DEF IInv, WorkInv
  <2>3. tips' \in [Names -> 0 .. Len(commits') \cup {NoBranch}]
    BY DEF IInv, WorkInv
  <2>4. ASSUME NEW q \in Workers
        PROVE /\ DOMAIN job'[q] = DOMAIN Done
              /\ pc'[q] \in OnBranch => job'[q].branch \in Names
              /\ pc'[q] \in OnTip => job'[q].parent \in 0 .. Len(commits')
    <3>1. CASE q = p
      BY <3>1, <1>2, <1>3, DoneFields
    <3>2. CASE q # p
      BY <3>2, <1>3 DEF IInv, WorkInv
    <3> QED
      BY <3>1, <3>2
  <2> QED
    BY <2>1, <2>2, <2>3, <2>4 DEF WorkInv
<1>5. OwnInv'
  <2> SUFFICES ASSUME NEW q \in Workers, pc'[q] = "update"
      PROVE /\ job'[q].made \in files' \cap 1 .. Len(commits')
            /\ commits'[job'[q].made].parent = job'[q].parent
            /\ \A n \in Names : Exists(n)' => job'[q].made \notin Path'[tips'[n]]
            /\ \A r \in Workers : pc'[r] \in OnTip => job'[q].made \notin Path'[job'[r].parent]
            /\ \A r \in Workers : pc'[r] = "update" /\ job'[r].made = job'[q].made => r = q
    BY DEF OwnInv
  <2>1. q # p /\ pc[q] = "update" /\ job'[q] = job[q]
    BY <1>3
  <2>2. ASSUME NEW r \in Workers, pc'[r] \in OnTip
        PROVE job[q].made \notin Path[job'[r].parent]
    BY <1>2, <1>3, <2>1, <2>2 DEF IInv, OwnInv
  <2>3. \A r \in Workers : pc'[r] = "update" => r # p /\ pc[r] = "update" /\ job'[r] = job[r]
    BY <1>3
  <2> QED
    BY <1>1, <2>1, <2>2, <2>3 DEF IInv, OwnInv, Exists
<1>6. TipsReachable'
  BY <1>1 DEF IInv, TipsReachable, Tips, Exists
<1> QED
  BY <1>1, <1>4, <1>5, <1>6 DEF IInv

(* The commit object a worker puts is new: no path has it. *)
LEMMA CreateStep ==
  ASSUME IInv, NEW p \in Workers, Create(p), UNCHANGED setting
  PROVE IInv'
<1> DEFINE c == Len(commits) + 1
           j == job[p]
<1>1. /\ pc[p] = "create" /\ files' = files \cup {c} /\ tips' = tips
      /\ pc' = [pc EXCEPT ![p] = "update"]
      /\ job' = [job EXCEPT ![p] = [j EXCEPT !.made = c]]
  BY DEF Create, Go
<1>2. PICK acts : commits' = Append(commits, [parent |-> j.parent, acts |-> acts])
  BY DEF Create
<1>3. j.parent \in 0 .. Len(commits) /\ j.branch \in Names /\ Len(commits) \in Nat
  BY <1>1, PathEquation DEF IInv, WorkInv, OnBranch, OnTip
<1>4. /\ TreeInv' /\ Len(commits') = c
      /\ \A d \in 1 .. Len(commits) : commits'[d] = commits[d]
      /\ commits'[c].parent = j.parent
      /\ \A d \in 0 .. Len(commits) : Path'[d] = Path[d]
  BY <1>2, <1>3, TreeGrows DEF IInv
<1>5. \A d \in 0 .. Len(commits) : c \notin Path[d]
  BY <1>3 DEF IInv, TreeInv, PathShape
<1>6. /\ \A q \in Workers \ {p} : pc'[q] = pc[q] /\ job'[q] = job[q]
      /\ pc'[p] = "update" /\ DOMAIN job'[p] = Fields
      /\ job'[p].branch = j.branch /\ job'[p].parent = j.parent /\ job'[p].made = c
  BY <1>1, DoneFields DEF IInv, WorkInv, Fields
<1> HIDE DEF c, j
<1>7. \A b \in Names : Exists(b) => tips[b] \in 0 .. Len(commits)
  BY DEF IInv, WorkInv, Exists
<1>8. \A q \in Workers : pc'[q] \in OnTip =>
         pc[q] \in OnTip /\ job'[q].parent = job[q].parent /\ job[q].parent \in 0 .. Len(commits)
  BY <1>1, <1>3, <1>6 DEF IInv, WorkInv, OnTip, j
<1>9. WorkInv'
  <2>1. pc' \in [Workers -> OnBranch \cup {"idle", "vacuum"}]
    BY <1>1 DEF IInv, WorkInv, OnBranch
  <2>2. job' = [q \in Workers |-> job'[q]]
    BY <1>1 DEF IInv, WorkInv
  <2>3. tips' \in [Names -> 0 .. Len(commits') \cup {NoBranch}]
    <3>1. 0 .. Len(commits) \subseteq 0 .. Len(commits')
      BY <1>3, <1>4 DEF c
    <3> QED
      BY <3>1, <1>1 DEF IInv, WorkInv
  <2>4. ASSUME NEW q \in Workers
        PROVE /\ DOMAIN job'[q] = DOMAIN Done
              /\ pc'[q] \in OnBranch => job'[q].branch \in Names
              /\ pc'[q] \in OnTip => job'[q].parent \in 0 .. Len(commits')
    <3>1. CASE q = p
      BY <3>1, <1>3, <1>4, <1>6, DoneFields DEF c
    <3>2. CASE q # p
      BY <3>2, <1>3, <1>4, <1>6, <1>8 DEF IInv, WorkInv, c
    <3> QED
      BY <3>1, <3>2
  <2> QED
    BY <2>1, <2>2, <2>3, <2>4 DEF WorkInv
<1>10. OwnInv'
  <2> SUFFICES ASSUME NEW q \in Workers, pc'[q] = "update"
      PROVE /\ job'[q].made \in files' \cap 1 .. Len(commits')
            /\ commits'[job'[q].made].parent = job'[q].parent
            /\ \A n \in Names : Exists(n)' => job'[q].made \notin Path'[tips'[n]]
            /\ \A r \in Workers : pc'[r] \in OnTip => job'[q].made \notin Path'[job'[r].parent]
            /\ \A r \in Workers : pc'[r] = "update" /\ job'[r].made = job'[q].made => r = q
    BY DEF OwnInv
  <2>1. \A n \in Names : Exists(n)' => Exists(n) /\ Path'[tips'[n]] = Path[tips[n]]
    BY <1>1, <1>4, <1>7 DEF Exists
  <2>2. \A r \in Workers : pc'[r] \in OnTip => Path'[job'[r].parent] = Path[job[r].parent]
    BY <1>4, <1>8
  <2>3. ASSUME NEW r \in Workers \ {p}, pc'[r] = "update"
        PROVE pc[r] = "update" /\ job'[r] = job[r] /\ job[r].made \in 1 .. Len(commits)
                /\ job[r].made # c /\ job[r].made \in files
    BY <1>3, <1>6, <2>3 DEF IInv, OwnInv, c
  <2>4. CASE q = p
    <3>1. c \in files' \cap 1 .. Len(commits')
      BY <1>1, <1>3, <1>4 DEF c
    <3>2. \A n \in Names : Exists(n)' => c \notin Path'[tips'[n]]
      BY <2>1, <1>5, <1>7
    <3>3. \A r \in Workers : pc'[r] \in OnTip => c \notin Path'[job'[r].parent]
      BY <2>2, <1>5, <1>8
    <3> QED
      BY <2>3, <2>4, <3>1, <3>2, <3>3, <1>4, <1>6
  <2>5. CASE q # p
    <3>1. pc[q] = "update" /\ job'[q] = job[q] /\ job[q].made \in 1 .. Len(commits)
            /\ job[q].made # c /\ job[q].made \in files
      BY <2>3, <2>5
    <3>2. job[q].made \in files' \cap 1 .. Len(commits')
      BY <3>1, <1>1, <1>3, <1>4 DEF c
    <3>3. commits'[job[q].made].parent = job[q].parent
      BY <3>1, <1>4 DEF IInv, OwnInv
    <3>4. \A n \in Names : Exists(n)' => job[q].made \notin Path'[tips'[n]]
      BY <2>1, <3>1 DEF IInv, OwnInv
    <3>5. \A r \in Workers : pc'[r] \in OnTip => job[q].made \notin Path'[job'[r].parent]
      BY <2>2, <3>1, <1>8 DEF IInv, OwnInv
    <3>6. \A r \in Workers : pc'[r] = "update" /\ job'[r].made = job[q].made => r = q
      BY <2>3, <3>1, <1>6 DEF IInv, OwnInv
    <3> QED
      BY <3>1, <3>2, <3>3, <3>4, <3>5, <3>6
  <2> QED
    BY <2>4, <2>5
<1>11. TipsReachable'
  <2>1. ~setting.lost => \A b \in Names : Exists(b)' => Path'[tips'[b]] \subseteq files'
    BY <1>1, <1>4, <1>7, Reachable DEF IInv, Exists
  <2> QED
    BY <2>1 DEF TipsReachable, Tips
<1> QED
  BY <1>4, <1>9, <1>10, <1>11 DEF IInv

----------------------------------------------------------------------------
(* The branches store. *)

(* An update takes effect only on the tip its commit was built on. *)
LEMMA UpdateOfTip ==
  ASSUME IInv, NEW p \in Workers, pc[p] = "update",
         KV!CheckOK(tips, UpdateOp(p)), tips' = KV!Apply(tips, UpdateOp(p))
  PROVE /\ job[p].branch \in Names /\ tips[job[p].branch] = job[p].parent
        /\ Exists(job[p].branch)
        /\ tips' = [tips EXCEPT ![job[p].branch] = job[p].made]
<1>1. job[p].branch \in Names /\ job[p].parent \in Nat
  BY PathEquation DEF IInv, WorkInv, OnBranch, OnTip
<1>2. tips[job[p].branch] = job[p].parent /\ Exists(job[p].branch)
  BY <1>1 DEF KV!CheckOK, UpdateOp, BranchOp, Exists
<1>3. tips' = [tips EXCEPT ![job[p].branch] = job[p].made]
  BY <1>1 DEF KV!Apply, KV!Touches, KV!Written, UpdateOp, BranchOp, IInv, WorkInv
<1> QED
  BY <1>1, <1>2, <1>3

(* Names that keep their tip, lose it or get one whose path holds nobody's *)
(* unfinished commit, while every worker stays or returns.                 *)
LEMMA TipStep ==
  ASSUME IInv, NEW b \in Names, NEW t \in 0 .. Len(commits) \cup {NoBranch},
         tips' = [tips EXCEPT ![b] = t],
         UNCHANGED <<commits, setting>>,
         NEW Q \in SUBSET Workers,
         pc' = [p \in Workers |-> IF p \in Q THEN "idle" ELSE pc[p]],
         job' = [p \in Workers |-> IF p \in Q THEN Done ELSE job[p]],
         t # NoBranch => \A p \in Workers \ Q : pc[p] = "update" => job[p].made \notin Path[t],
         \A p \in Workers \ Q : pc[p] = "update" => job[p].made \in files',
         ~setting.lost => /\ files \subseteq files'
                          /\ t # NoBranch => Path[t] \subseteq files'
  PROVE IInv'
<1>1. TreeInv' /\ Path' = Path
  BY TreeSame DEF IInv
<1>2. /\ \A q \in Workers \ Q : pc'[q] = pc[q] /\ job'[q] = job[q]
      /\ \A q \in Q : q \in Workers /\ pc'[q] = "idle" /\ job'[q] = Done
  OBVIOUS
<1>3. \A n \in Names : Exists(n)' =>
         \/ Exists(n) /\ tips'[n] = tips[n]
         \/ tips'[n] = t /\ t # NoBranch
  BY DEF IInv, WorkInv, Exists
<1>4. WorkInv'
  <2>1. pc' \in [Workers -> OnBranch \cup {"idle", "vacuum"}]
    BY DEF IInv, WorkInv
  <2>2. job' = [q \in Workers |-> job'[q]]
    OBVIOUS
  <2>3. tips' \in [Names -> 0 .. Len(commits') \cup {NoBranch}]
    BY DEF IInv, WorkInv
  <2>4. ASSUME NEW q \in Workers
        PROVE /\ DOMAIN job'[q] = DOMAIN Done
              /\ pc'[q] \in OnBranch => job'[q].branch \in Names
              /\ pc'[q] \in OnTip => job'[q].parent \in 0 .. Len(commits')
    <3>1. CASE q \in Q
      BY <3>1, <1>2 DEF OnBranch, OnTip
    <3>2. CASE q \notin Q
      BY <3>2, <1>2 DEF IInv, WorkInv
    <3> QED
      BY <3>1, <3>2
  <2> QED
    BY <2>1, <2>2, <2>3, <2>4 DEF WorkInv
<1>5. OwnInv'
  <2> SUFFICES ASSUME NEW q \in Workers, pc'[q] = "update"
      PROVE /\ job'[q].made \in files' \cap 1 .. Len(commits')
            /\ commits'[job'[q].made].parent = job'[q].parent
            /\ \A n \in Names : Exists(n)' => job'[q].made \notin Path'[tips'[n]]
            /\ \A r \in Workers : pc'[r] \in OnTip => job'[q].made \notin Path'[job'[r].parent]
            /\ \A r \in Workers : pc'[r] = "update" /\ job'[r].made = job'[q].made => r = q
    BY DEF OwnInv
  <2>1. q \notin Q /\ pc[q] = "update" /\ job'[q] = job[q] /\ job[q].made \in files'
    BY <1>2
  <2>2. \A r \in Workers : pc'[r] \in OnTip => r \notin Q /\ pc[r] = pc'[r] /\ job'[r] = job[r]
    BY <1>2 DEF OnTip
  <2>3. \A n \in Names : Exists(n)' => job[q].made \notin Path[tips'[n]]
    BY <1>3, <2>1 DEF IInv, OwnInv
  <2>4. "update" \in OnTip
    BY DEF OnTip
  <2> QED
    BY <1>1, <2>1, <2>2, <2>3, <2>4 DEF IInv, OwnInv
<1>6. TipsReachable'
  <2>1. ~setting.lost => \A n \in Names : Exists(n)' => Path'[tips'[n]] \subseteq files'
    BY <1>1, <1>3, Reachable DEF IInv
  <2> QED
    BY <2>1 DEF TipsReachable, Tips
<1> QED
  BY <1>1, <1>4, <1>5, <1>6 DEF IInv

LEMMA UpdateStep ==
  ASSUME IInv, NEW p \in Workers, UNCHANGED setting, Update(p) \/ LostReply(p)
  PROVE IInv'
<1> DEFINE b == job[p].branch
           c == job[p].made
           Q == {p}
<1>1. /\ pc[p] = "update" /\ UNCHANGED commits
      /\ KV!CheckOK(tips, UpdateOp(p)) /\ tips' = KV!Apply(tips, UpdateOp(p))
      /\ pc' = [pc EXCEPT ![p] = "idle"] /\ job' = [job EXCEPT ![p] = Done]
      /\ files' = files \/ (setting.lost /\ files' = files \ {c})
  BY DEF Update, LostReply, Return, Fail, Go
<1>2. b \in Names /\ tips[b] = job[p].parent /\ Exists(b) /\ tips' = [tips EXCEPT ![b] = c]
  BY <1>1, UpdateOfTip
<1>3. c \in 1 .. Len(commits) /\ c \in files /\ commits[c].parent = tips[b] /\ Len(commits) \in Nat
  BY <1>1, <1>2, PathEquation DEF IInv, OwnInv
<1>4. Path[c] = {c} \cup Path[tips[b]]
  BY <1>3, PathEquation DEF IInv
<1>5. \A q \in Workers \ Q : pc[q] = "update" => job[q].made \notin Path[c] /\ job[q].made \in files'
  BY <1>1, <1>2, <1>4 DEF IInv, OwnInv
<1>6. ~setting.lost => files \subseteq files' /\ Path[c] \subseteq files'
  BY <1>1, <1>2, <1>3, <1>4, Reachable DEF IInv
<1>7. /\ pc' = [q \in Workers |-> IF q \in Q THEN "idle" ELSE pc[q]]
      /\ job' = [q \in Workers |-> IF q \in Q THEN Done ELSE job[q]]
  BY <1>1 DEF IInv, WorkInv
<1>8. c \in 0 .. Len(commits) \cup {NoBranch}
  BY <1>3
<1> HIDE DEF b, c, Q
<1>9. Q \in SUBSET Workers
  BY DEF Q
<1> QED
  BY <1>1, <1>2, <1>5, <1>6, <1>7, <1>8, <1>9, TipStep

(* A new branch starts at a commit of another one, or at none. *)
LEMMA CreateBranchStep ==
  ASSUME IInv, UNCHANGED setting, CreateBranch, setting.names \subseteq Names
  PROVE IInv'
<1>1. PICK b \in setting.names, c \in Known \cup {Nil} :
        /\ KV!CheckOK(tips, BranchOp("Insert", b, c, NoBranch))
        /\ tips' = KV!Apply(tips, BranchOp("Insert", b, c, NoBranch))
        /\ UNCHANGED <<commits, views, files, rows, data, pc, job>>
  BY DEF CreateBranch
<1> DEFINE Q == {}
<1>2. b \in Names /\ ~Exists(b) /\ tips' = [tips EXCEPT ![b] = c]
  BY <1>1 DEF KV!CheckOK, KV!Apply, KV!Touches, KV!Written, BranchOp, IInv, WorkInv, Exists
<1>3. \/ c = Nil /\ Path[c] = {}
      \/ \E n \in Names : Exists(n) /\ c \in Path[tips[n]]
  BY PathEquation DEF Known, Nil, IInv
<1>4. \A n \in Names : Exists(n) => /\ tips[n] \in 0 .. Len(commits)
                                    /\ Path[tips[n]] \subseteq 1 .. tips[n]
  BY DEF IInv, WorkInv, Exists, TreeInv, PathShape
<1>5. c \in 0 .. Len(commits)
  BY <1>3, <1>4, PathEquation, SMTT(30) DEF Nil, IInv
<1>6. \/ Path[c] = {}
      \/ \E n \in Names : Exists(n) /\ Path[c] \subseteq Path[tips[n]]
  BY <1>3, <1>4, <1>5 DEF IInv, TreeInv, PathShape
<1>7. \A q \in Workers : pc[q] = "update" => job[q].made \notin Path[c] /\ job[q].made \in files'
  BY <1>1, <1>6 DEF IInv, OwnInv
<1>8. ~setting.lost => Path[c] \subseteq files /\ files' = files
  BY <1>1, <1>6, Reachable DEF IInv
<1>9. /\ pc' = [q \in Workers |-> IF q \in Q THEN "idle" ELSE pc[q]]
      /\ job' = [q \in Workers |-> IF q \in Q THEN Done ELSE job[q]]
  BY <1>1 DEF IInv, WorkInv
<1>10. Q \in SUBSET Workers
  OBVIOUS
<1> HIDE DEF Q
<1> QED
  BY <1>1, <1>2, <1>5, <1>7, <1>8, <1>9, <1>10, TipStep

LEMMA DeleteBranchStep ==
  ASSUME IInv, UNCHANGED setting, NEW p \in Workers, DeleteBranch(p)
  PROVE IInv'
<1> DEFINE b == job[p].branch
           op == BranchOp("Delete", b, Nil, job[p].parent)
           Q == {p}
<1>1. /\ pc[p] = "remove" /\ UNCHANGED <<commits, files>>
      /\ pc' = [pc EXCEPT ![p] = "idle"] /\ job' = [job EXCEPT ![p] = Done]
      /\ tips' = IF KV!CheckOK(tips, op) THEN KV!Apply(tips, op) ELSE tips
  BY DEF DeleteBranch, Return, Go
<1>2. b \in Names
  BY <1>1 DEF IInv, WorkInv, OnBranch
<1>3. KV!Apply(tips, op) = [tips EXCEPT ![b] = NoBranch]
  BY <1>2 DEF KV!Apply, KV!Touches, KV!Written, BranchOp, IInv, WorkInv
<1>4. CASE tips' = [tips EXCEPT ![b] = NoBranch]
  <2>1. /\ pc' = [q \in Workers |-> IF q \in Q THEN "idle" ELSE pc[q]]
        /\ job' = [q \in Workers |-> IF q \in Q THEN Done ELSE job[q]]
    BY <1>1 DEF IInv, WorkInv
  <2>2. \A q \in Workers : pc[q] = "update" => job[q].made \in files'
    BY <1>1 DEF IInv, OwnInv
  <2> HIDE DEF b, op, Q
  <2>3. Q \in SUBSET Workers
    BY DEF Q
  <2> QED
    BY <1>1, <1>2, <1>4, <2>1, <2>2, <2>3, TipStep
<1>5. CASE tips' = tips
  BY <1>1, <1>5, LocalStep, DoneFields
<1> QED
  BY <1>1, <1>3, <1>4, <1>5

----------------------------------------------------------------------------
(* Every step. *)

LEMMA BeginStep ==
  ASSUME IInv, UNCHANGED setting, NEW p \in Workers,
         NEW kind, NEW b, NEW ids, NEW from, NEW new, NEW vecs,
         kind # "Vacuum" => b \in Names,
         Begin(p, kind, b, ids, from, new, vecs)
  PROVE IInv'
<1> DEFINE w == IF kind = "Vacuum" THEN "vacuum" ELSE "lookup"
           j == [Done EXCEPT !.kind = kind, !.branch = b, !.ids = ids,
                             !.from = from, !.new = new, !.vecs = vecs]
<1>1. /\ pc' = [pc EXCEPT ![p] = w] /\ job' = [job EXCEPT ![p] = j]
      /\ UNCHANGED <<commits, files, tips>>
  BY DEF Begin
<1>2. DOMAIN j = Fields /\ j.branch = b
  BY DoneFields DEF Fields, Done
<1>3. w \in {"idle", "lookup", "vacuum"} /\ (w = "lookup" => b \in Names)
  OBVIOUS
<1> HIDE DEF w, j
<1> QED
  BY <1>1, <1>2, <1>3, LocalStep

LEMMA StartStep ==
  ASSUME IInv, UNCHANGED setting, NEW p \in Workers, Start(p)
  PROVE IInv'
<1>1. CASE Load(p)
  BY <1>1, BeginStep DEF Load
<1>2. CASE DeleteOrVectors(p)
  BY <1>2, BeginStep DEF DeleteOrVectors
<1>3. CASE DeleteWhere(p)
  BY <1>3, BeginStep DEF DeleteWhere
<1>4. CASE Revert(p)
  BY <1>4, BeginStep DEF Revert
<1>5. CASE Merge(p)
  BY <1>5, BeginStep DEF Merge
<1>6. CASE Compact(p)
  BY <1>6, BeginStep DEF Compact
<1>7. CASE Vacuum(p)
  BY <1>7, BeginStep DEF Vacuum
<1>8. CASE RemoveBranch(p)
  BY <1>8, BeginStep DEF RemoveBranch
<1> QED
  BY <1>1, <1>2, <1>3, <1>4, <1>5, <1>6, <1>7, <1>8 DEF Start

(* A worker that returns, having removed at most its own commit object. *)
LEMMA ReturnStep ==
  ASSUME IInv, UNCHANGED <<commits, tips, setting>>, NEW p \in Workers, Return(p),
         files' = files \/ (pc[p] = "update" /\ files' = files \ {job[p].made})
  PROVE IInv'
  BY LocalStep, DoneFields DEF Return, Go

LEMMA WorkerStep ==
  ASSUME IInv, UNCHANGED setting, NEW p \in Workers, Step(p)
  PROVE IInv'
<1> DEFINE j == job[p]
<1>0. DOMAIN j = Fields /\ (pc[p] \in OnBranch => j.branch \in Names)
  BY DoneFields DEF IInv, WorkInv
<1>1. CASE Lookup(p)
  <2>1. CASE Exists(j.branch)
    <3> DEFINE w == IF j.kind = "RemoveBranch" THEN "remove" ELSE "create"
    <3>1. /\ pc[p] = "lookup" /\ pc' = [pc EXCEPT ![p] = w]
          /\ job' = [job EXCEPT ![p] = [j EXCEPT !.parent = tips[j.branch]]]
          /\ UNCHANGED <<commits, files, tips>>
      BY <1>1, <2>1 DEF Lookup, Go
    <3>2. w \in {"create", "remove"}
      OBVIOUS
    <3> HIDE DEF w
    <3> QED
      BY <3>1, <3>2, <2>1, LookupStep
  <2>2. CASE ~Exists(j.branch)
    BY <1>1, <2>2, ReturnStep DEF Lookup, Fail
  <2> QED
    BY <2>1, <2>2
<1>2. CASE Create(p)
  BY <1>2, CreateStep
<1>3. CASE CreateFails(p)
  BY <1>3, ReturnStep DEF CreateFails, Fail
<1>4. CASE Update(p)
  BY <1>4, UpdateStep
<1>5. CASE Conflict(p)
  <2>1. CASE j.retries + 1 < MaxRetries
    <3> DEFINE k == [j EXCEPT !.parent = Nil, !.made = Nil, !.retries = @ + 1]
    <3>1. /\ pc[p] = "update" /\ pc' = [pc EXCEPT ![p] = "lookup"]
          /\ job' = [job EXCEPT ![p] = k]
          /\ files' = files \ {j.made} /\ UNCHANGED <<commits, tips>>
      BY <1>5, <2>1 DEF Conflict, Go
    <3>2. DOMAIN k = Fields /\ k.branch = j.branch /\ j.branch \in Names
      BY <3>1, <1>0 DEF Fields, OnBranch
    <3> HIDE DEF k
    <3> QED
      BY <3>1, <3>2, LocalStep
  <2>2. CASE ~(j.retries + 1 < MaxRetries)
    BY <1>5, <2>2, ReturnStep DEF Conflict, Fail
  <2> QED
    BY <2>1, <2>2
<1>6. CASE UpdateFails(p)
  BY <1>6, ReturnStep DEF UpdateFails, Fail
<1>7. CASE DeleteBranch(p)
  BY <1>7, DeleteBranchStep
<1>8. CASE VacuumObject(p)
  <2>1. CASE j.ids = <<>>
    BY <1>8, <2>1, ReturnStep DEF VacuumObject
  <2>2. CASE j.ids # <<>>
    <3> DEFINE k == [j EXCEPT !.ids = Tail(@)]
    <3>1. /\ pc' = [pc EXCEPT ![p] = "vacuum"] /\ job' = [job EXCEPT ![p] = k]
          /\ UNCHANGED <<commits, files, tips>>
      BY <1>8, <2>2 DEF VacuumObject, Go
    <3>2. DOMAIN k = Fields
      BY <1>0
    <3> HIDE DEF k
    <3> QED
      BY <3>1, <3>2, LocalStep
  <2> QED
    BY <2>1, <2>2
<1> QED
  BY <1>1, <1>2, <1>3, <1>4, <1>5, <1>6, <1>7, <1>8 DEF Step

Inv == IInv /\ setting \in Settings

LEMMA InitEstablishes == Init => Inv
<1> SUFFICES ASSUME Init PROVE IInv
  BY DEF Init, Inv
<1>1. commits = <<>> /\ Len(commits) = 0
  BY DEF Init
<1>2. TreeInv
  <2>1. PathDefined
    <3>1. commits \in Seq({})
      BY <1>1
    <3>2. \A f : IsPath(f) <=> f = [c \in {0} |-> {}]
      <4>1. 0 .. 0 = {0}
        OBVIOUS
      <4> QED
        BY <1>1, <4>1 DEF IsPath, Nil
    <3> QED
      BY <3>1, <3>2 DEF PathDefined
  <2>2. Path[0] = {}
    BY <2>1, <1>1, PathIsPath DEF IsPath, PathDefined, Nil
  <2>3. PathShape
    BY <1>1, <2>2 DEF PathShape
  <2> QED
    BY <2>1, <2>3 DEF TreeInv
<1>3. WorkInv
  BY <1>1 DEF Init, WorkInv, OnBranch, OnTip
<1>4. OwnInv
  BY DEF Init, OwnInv
<1>5. TipsReachable
  BY DEF Init, TipsReachable, Tips, Exists
<1> QED
  BY <1>2, <1>3, <1>4, <1>5 DEF IInv

LEMMA NextPreserves == Inv /\ [Next]_vars => Inv'
<1> SUFFICES ASSUME Inv, [Next]_vars PROVE Inv'
  OBVIOUS
<1>1. UNCHANGED setting /\ setting.names \subseteq Names
  BY SettingsAssumption DEF Inv, Next, vars
<1>2. ASSUME NEW p \in Workers, Start(p) \/ Step(p) PROVE IInv'
  BY <1>1, <1>2, StartStep, WorkerStep DEF Inv
<1>3. ASSUME NEW p \in Workers, StorageError(p) PROVE IInv'
  BY <1>1, <1>3, ReturnStep DEF Inv, StorageError, Fail
<1>4. ASSUME NEW p \in Workers, LostReply(p) PROVE IInv'
  BY <1>1, <1>4, UpdateStep DEF Inv
<1>5. ASSUME NEW p \in Workers, Crash(p) PROVE IInv'
  BY <1>1, <1>5, ReturnStep DEF Inv, Crash
<1>6. CASE CreateBranch
  BY <1>1, <1>6, CreateBranchStep DEF Inv
<1>7. CASE UNCHANGED vars
  <2>1. TreeInv' /\ Path' = Path
    BY <1>7, TreeSame DEF Inv, IInv, vars
  <2>2. WorkInv'
    BY <1>7 DEF vars, Inv, IInv, WorkInv
  <2>3. OwnInv'
    BY <1>7, <2>1 DEF vars, Inv, IInv, OwnInv, Exists
  <2>4. TipsReachable'
    BY <1>7, <2>1 DEF vars, Inv, IInv, TipsReachable, Tips, Exists
  <2> QED
    BY <1>1, <2>1, <2>2, <2>3, <2>4 DEF Inv, IInv
<1> QED
  BY <1>1, <1>2, <1>3, <1>4, <1>5, <1>6, <1>7 DEF Inv, Next

(* A commit object that a branch needs is never removed, whatever retries, *)
(* removals, storage errors and crashes happen: Branch.commit removes only *)
(* the object that it has put itself and that no branch has got.           *)
THEOREM NeededCommitsStay == Spec => []TipsReachable
<1>1. Inv => TipsReachable
  BY DEF Inv, IInv
<1> QED
  BY <1>1, InitEstablishes, NextPreserves, PTL DEF Spec

LEMMA StepMovesToChild == Inv /\ [Next]_vars => [TipsMoveToChildren]_vars
<1> SUFFICES ASSUME Inv, Next, NEW b \in Names,
                    Exists(b), tips'[b] \notin {tips[b], NoBranch}
             PROVE commits[tips'[b]].parent = tips[b]
  BY DEF TipsMoveToChildren
<1>1. ASSUME NEW p \in Workers, Update(p) \/ LostReply(p)
      PROVE commits[tips'[b]].parent = tips[b]
  <2>1. /\ pc[p] = "update" /\ KV!CheckOK(tips, UpdateOp(p))
        /\ tips' = KV!Apply(tips, UpdateOp(p))
    BY <1>1 DEF Update, LostReply
  <2>2. /\ job[p].branch \in Names /\ tips[job[p].branch] = job[p].parent
        /\ tips' = [tips EXCEPT ![job[p].branch] = job[p].made]
    BY <2>1, UpdateOfTip DEF Inv
  <2>3. b = job[p].branch /\ tips'[b] = job[p].made
    BY <2>2 DEF Inv, IInv, WorkInv
  <2> QED
    BY <2>1, <2>2, <2>3 DEF Inv, IInv, OwnInv
<1>2. ASSUME NEW p \in Workers, DeleteBranch(p)
      PROVE tips'[b] \in {tips[b], NoBranch}
  BY <1>2 DEF DeleteBranch, KV!Apply, KV!Touches, KV!Written, BranchOp
<1>3. CreateBranch => tips'[b] = tips[b]
  BY DEF CreateBranch, KV!CheckOK, KV!Apply, KV!Touches, KV!Written, BranchOp, Exists
<1>4. ASSUME NEW p \in Workers, Start(p)
      PROVE tips' = tips
  BY <1>4 DEF Start, Load, DeleteOrVectors, DeleteWhere, Revert, Merge, Compact, Vacuum,
              RemoveBranch, Begin
<1>5. ASSUME NEW p \in Workers,
             \/ Lookup(p) \/ Create(p) \/ CreateFails(p) \/ Conflict(p) \/ UpdateFails(p)
             \/ VacuumObject(p) \/ StorageError(p) \/ Crash(p)
      PROVE tips' = tips
  BY <1>5 DEF Lookup, Create, CreateFails, Conflict, UpdateFails, VacuumObject,
              StorageError, Crash
<1> QED
  BY <1>1, <1>2, <1>3, <1>4, <1>5 DEF Next, Step

(* A branch only grows: it moves from a commit to one of its children, or  *)
(* is removed, so no worker's commit is lost by a concurrent one.          *)
THEOREM BranchesOnlyGrow == Spec => HistoryKept
  BY InitEstablishes, NextPreserves, StepMovesToChild, PTL DEF Spec, HistoryKept

(***************************************************************************)
(* The snapshots of branches can be computed.  The first part is about the *)
(* folds that patches are made with, the second about what the             *)
(* constructors of commit objects make, the third about the steps.         *)
(***************************************************************************)
----------------------------------------------------------------------------
HIDE NoBranchAssumption

(* Folds.  Induction is over a set of naturals, so that no operator has to *)
(* be instantiated; a fold is then known by its stages.                    *)

LEMMA NatSetInduction ==
  ASSUME NEW P, 0 \in P, \A n \in Nat : n \in P => n + 1 \in P
  PROVE Nat \subseteq P
<1> DEFINE T == Nat \ P
<1> SUFFICES ASSUME T # {} PROVE FALSE
  OBVIOUS
<1>1. IsWellFoundedOn(OpToRel(<, Nat), Nat)
  BY NatLessThanWellFounded
<1>2. T \subseteq Nat
  OBVIOUS
<1> HIDE DEF T
<1>3. PICK x \in T : \A y \in T : ~ (<<y, x>> \in OpToRel(<, Nat))
  BY <1>1, <1>2, WFMin, Zenon
<1>5. \A y \in T : ~ (y < x)
  BY <1>2, <1>3 DEF OpToRel
<1>6. x \in Nat /\ x \notin P /\ x # 0
  BY DEF T
<1>8. x - 1 \in Nat /\ (x - 1) + 1 = x
  BY <1>6
<1>9. x - 1 \in P
  BY <1>5, <1>8 DEF T
<1> QED
  BY <1>6, <1>8, <1>9

LEMMA MaxIsLast ==
  ASSUME NEW m \in Nat, NEW s \in SUBSET (1 .. m + 1), m + 1 \in s
  PROVE Max(s) = m + 1
<1>1. \A y \in s : m + 1 >= y
  OBVIOUS
<1>2. Max(s) \in s /\ \A y \in s : Max(s) >= y
  BY <1>1 DEF Max
<1>3. Max(s) \in 1 .. m + 1 /\ Max(s) >= m + 1
  BY <1>2
<1> QED
  BY <1>3

LEMMA MaxInSet ==
  ASSUME NEW n \in Nat, NEW s \in SUBSET (1 .. n), s # {}
  PROVE Max(s) \in s
<1> DEFINE P == {m \in Nat : \A t \in SUBSET (1 .. m) : t # {} => Max(t) \in t}
<1>1. 0 \in P
  <2>1. 1 .. 0 = {}
    OBVIOUS
  <2> QED
    BY <2>1
<1>2. ASSUME NEW m \in Nat, m \in P PROVE m + 1 \in P
  <2> SUFFICES ASSUME NEW t \in SUBSET (1 .. m + 1), t # {} PROVE Max(t) \in t
    OBVIOUS
  <2>1. CASE m + 1 \in t
    BY <2>1, MaxIsLast
  <2>2. CASE m + 1 \notin t
    <3>1. t \in SUBSET (1 .. m)
      BY <2>2
    <3> QED
      BY <3>1, <1>2
  <2> QED
    BY <2>1, <2>2
<1> HIDE DEF P
<1>3. Nat \subseteq P
  BY <1>1, <1>2, NatSetInduction
<1> QED
  BY <1>3 DEF P

IsFold(f, D, n, base, step) ==
    /\ f = [s \in SUBSET (1 .. n) |-> IF s = {} THEN base ELSE step[Max(s)][f[s \ {Max(s)}]]]
    /\ \A s \in SUBSET (1 .. n) : f[s] \in D

LEMMA FoldExists ==
  ASSUME NEW D, NEW n \in Nat, NEW base \in D, NEW step,
         \A i \in 1 .. n, d \in D : step[i][d] \in D
  PROVE \E f : IsFold(f, D, n, base, step)
<1> DEFINE Is(f, m) == /\ f \in [SUBSET (1 .. m) -> D]
                       /\ f[{}] = base
                       /\ \A s \in SUBSET (1 .. m) :
                            s # {} => f[s] = step[Max(s)][f[s \ {Max(s)}]]
           P == {m \in Nat : m <= n => \E f : Is(f, m)}
<1> HIDE DEF Is
<1>1. 0 \in P
  <2> DEFINE f == [s \in SUBSET (1 .. 0) |-> base]
  <2>1. 1 .. 0 = {}
    OBVIOUS
  <2>2. /\ f \in [SUBSET (1 .. 0) -> D]
        /\ f[{}] = base
        /\ \A s \in SUBSET (1 .. 0) : s = {}
    BY <2>1
  <2>3. Is(f, 0)
    BY <2>2 DEF Is
  <2> QED
    BY <2>3
<1>2. ASSUME NEW m \in Nat, m \in P PROVE m + 1 \in P
  <2> SUFFICES ASSUME m + 1 <= n PROVE \E f : Is(f, m + 1)
    OBVIOUS
  <2>1. PICK f : Is(f, m)
    <3>1. m <= n
      OBVIOUS
    <3> QED
      BY <1>2, <3>1
  <2> DEFINE g == [s \in SUBSET (1 .. m + 1) |->
                    IF m + 1 \in s THEN step[m + 1][f[s \ {m + 1}]] ELSE f[s]]
  <2>2. \A s \in SUBSET (1 .. m + 1) :
          /\ s \ {m + 1} \in SUBSET (1 .. m)
          /\ m + 1 \notin s => s \in SUBSET (1 .. m)
    <3>1. \A i \in 1 .. m + 1 : i = m + 1 \/ i \in 1 .. m
      OBVIOUS
    <3> QED
      BY <3>1
  <2>3. ASSUME NEW s \in SUBSET (1 .. m + 1) PROVE g[s] \in D
    BY <2>1, <2>2 DEF Is
  <2>4. g[{}] = base
    BY <2>1 DEF Is
  <2>5. ASSUME NEW s \in SUBSET (1 .. m + 1), s # {}
        PROVE g[s] = step[Max(s)][g[s \ {Max(s)}]]
    <3>1. CASE m + 1 \in s
      <4>1. Max(s) = m + 1
        BY <3>1, MaxIsLast
      <4>2. g[s \ {m + 1}] = f[s \ {m + 1}]
        BY <2>2
      <4> QED
        BY <3>1, <4>1, <4>2
    <3>2. CASE m + 1 \notin s
      <4>1. s \in SUBSET (1 .. m) /\ s \ {Max(s)} \in SUBSET (1 .. m + 1)
              /\ m + 1 \notin s \ {Max(s)}
        BY <3>2, <2>2
      <4>2. g[s] = f[s] /\ g[s \ {Max(s)}] = f[s \ {Max(s)}]
        BY <3>2, <4>1
      <4> QED
        BY <2>1, <2>5, <4>1, <4>2 DEF Is
    <3> QED
      BY <3>1, <3>2
  <2>6. g = [s \in SUBSET (1 .. m + 1) |-> g[s]]
    OBVIOUS
  <2> HIDE DEF g
  <2>7. g \in [SUBSET (1 .. m + 1) -> D]
    BY <2>3, <2>6
  <2>8. Is(g, m + 1)
    BY <2>4, <2>5, <2>7 DEF Is
  <2> QED
    BY <2>8
<1> HIDE DEF P
<1>3. Nat \subseteq P
  BY <1>1, <1>2, NatSetInduction
<1>4. PICK f : Is(f, n)
  <2>1. n <= n
    OBVIOUS
  <2> QED
    BY <1>3, <2>1 DEF P
<1>5. f = [s \in SUBSET (1 .. n) |->
            IF s = {} THEN base ELSE step[Max(s)][f[s \ {Max(s)}]]]
  <2>1. f = [s \in SUBSET (1 .. n) |-> f[s]]
    BY <1>4 DEF Is
  <2>2. \A s \in SUBSET (1 .. n) :
          f[s] = IF s = {} THEN base ELSE step[Max(s)][f[s \ {Max(s)}]]
    BY <1>4 DEF Is
  <2> QED
    BY <2>1, <2>2
<1>6. \A s \in SUBSET (1 .. n) : f[s] \in D
  BY <1>4 DEF Is
<1> QED
  BY <1>5, <1>6 DEF IsFold

----------------------------------------------------------------------------
(* The folds of patches. *)

Parts == [ok : BOOLEAN, base : SUBSET Nat, diff : SUBSET Nat, dels : Seq(Nat)]

(* What Absent does with the next ID. *)
Keep(tip, adds, id) == IF id \in tip.has.objs THEN adds ELSE Append(adds, id)

LEMMA PatchDeleteType ==
  ASSUME NEW part \in Parts, NEW id \in Nat
  PROVE PatchDelete(part, id) \in Parts
<1>1. part.diff \ {id} \in SUBSET Nat /\ Append(part.dels, id) \in Seq(Nat)
  BY DEF Parts
<1>2. (part.ok /\ id \in part.base) \in BOOLEAN
  OBVIOUS
<1> QED
  BY <1>1, <1>2 DEF PatchDelete, Parts

LEMMA PatchAddType ==
  ASSUME NEW part \in Parts, NEW id \in Nat
  PROVE PatchAdd(part, id) \in Parts
<1>1. part.diff \cup {id} \in SUBSET Nat
  BY DEF Parts
<1>2. (part.ok /\ id \notin All(part)) \in BOOLEAN
  OBVIOUS
<1> QED
  BY <1>1, <1>2 DEF PatchAdd, Parts

LEMMA KeepType ==
  ASSUME NEW tip, NEW adds \in Seq(Nat), NEW id \in Nat
  PROVE Keep(tip, adds, id) \in Seq(Nat)
  BY DEF Keep

LEMMA PatchDeleteStages ==
  ASSUME NEW part \in Parts, NEW ids \in Seq(Nat)
  PROVE \E g : /\ g[0] = part
               /\ \A k \in 0 .. Len(ids) - 1 : g[k + 1] = PatchDelete(g[k], ids[k + 1])
               /\ FoldLeft(PatchDelete, part, ids) = g[Len(ids)]
<1> DEFINE n == Len(ids)
           step == [i \in 1 .. n |-> [d \in Parts |-> PatchDelete(d, ids[i])]]
           Eq(f) == f = [s \in SUBSET (DOMAIN ids) |->
                          IF s = {} THEN part ELSE PatchDelete(f[s \ {Max(s)}], ids[Max(s)])]
<1>1. n \in Nat /\ DOMAIN ids = 1 .. n /\ \A i \in 1 .. n : ids[i] \in Nat
  OBVIOUS
<1>2. \A i \in 1 .. n, d \in Parts : PatchDelete(d, ids[i]) \in Parts
  BY <1>1, PatchDeleteType
<1>3. \A i \in 1 .. n, d \in Parts : step[i][d] = PatchDelete(d, ids[i])
  OBVIOUS
<1> HIDE DEF n, step
<1>4. PICK f : IsFold(f, Parts, n, part, step)
  <2>1. \A i \in 1 .. n, d \in Parts : step[i][d] \in Parts
    BY <1>2, <1>3
  <2> QED
    BY <1>1, <2>1, FoldExists
<1>5. \A s \in SUBSET (1 .. n) : s # {} =>
         step[Max(s)][f[s \ {Max(s)}]] = PatchDelete(f[s \ {Max(s)}], ids[Max(s)])
  <2> SUFFICES ASSUME NEW s \in SUBSET (1 .. n), s # {}
               PROVE step[Max(s)][f[s \ {Max(s)}]] = PatchDelete(f[s \ {Max(s)}], ids[Max(s)])
    OBVIOUS
  <2>1. Max(s) \in 1 .. n /\ f[s \ {Max(s)}] \in Parts
    BY <1>1, <1>4, MaxInSet DEF IsFold
  <2> QED
    BY <2>1, <1>3
<1>6. Eq(f)
  BY <1>1, <1>4, <1>5 DEF IsFold
<1> DEFINE h == CHOOSE x : Eq(x)
<1>7. Eq(h)
  BY <1>6
<1>8. FoldLeft(PatchDelete, part, ids) = h[DOMAIN ids]
  BY DEF FoldLeft, MapThenFoldSet
<1> HIDE DEF h
<1> DEFINE g == [k \in 0 .. n |-> h[1 .. k]]
<1>9. g[0] = part
  <2>1. 1 .. 0 = {} /\ 0 \in 0 .. n
    BY <1>1
  <2> QED
    BY <1>7, <2>1
<1>10. ASSUME NEW k \in 0 .. n - 1 PROVE g[k + 1] = PatchDelete(g[k], ids[k + 1])
  <2>1. 1 .. k + 1 \in SUBSET (1 .. n) /\ 1 .. k + 1 # {}
    BY <1>1
  <2>2. (1 .. k + 1) \ {k + 1} = 1 .. k
    OBVIOUS
  <2>3. Max(1 .. k + 1) = k + 1
    BY MaxIsLast
  <2>4. h[1 .. k + 1] = PatchDelete(h[1 .. k], ids[k + 1])
    BY <1>1, <1>7, <2>1, <2>2, <2>3
  <2>5. k \in 0 .. n /\ k + 1 \in 0 .. n
    BY <1>1
  <2> QED
    BY <2>4, <2>5
<1>11. g[n] = h[DOMAIN ids]
  BY <1>1
<1> HIDE DEF g
<1> QED
  BY <1>8, <1>9, <1>10, <1>11 DEF n

LEMMA PatchAddStages ==
  ASSUME NEW part \in Parts, NEW ids \in Seq(Nat)
  PROVE \E g : /\ g[0] = part
               /\ \A k \in 0 .. Len(ids) - 1 : g[k + 1] = PatchAdd(g[k], ids[k + 1])
               /\ FoldLeft(PatchAdd, part, ids) = g[Len(ids)]
<1> DEFINE n == Len(ids)
           step == [i \in 1 .. n |-> [d \in Parts |-> PatchAdd(d, ids[i])]]
           Eq(f) == f = [s \in SUBSET (DOMAIN ids) |->
                          IF s = {} THEN part ELSE PatchAdd(f[s \ {Max(s)}], ids[Max(s)])]
<1>1. n \in Nat /\ DOMAIN ids = 1 .. n /\ \A i \in 1 .. n : ids[i] \in Nat
  OBVIOUS
<1>2. \A i \in 1 .. n, d \in Parts : PatchAdd(d, ids[i]) \in Parts
  BY <1>1, PatchAddType
<1>3. \A i \in 1 .. n, d \in Parts : step[i][d] = PatchAdd(d, ids[i])
  OBVIOUS
<1> HIDE DEF n, step
<1>4. PICK f : IsFold(f, Parts, n, part, step)
  <2>1. \A i \in 1 .. n, d \in Parts : step[i][d] \in Parts
    BY <1>2, <1>3
  <2> QED
    BY <1>1, <2>1, FoldExists
<1>5. \A s \in SUBSET (1 .. n) : s # {} =>
         step[Max(s)][f[s \ {Max(s)}]] = PatchAdd(f[s \ {Max(s)}], ids[Max(s)])
  <2> SUFFICES ASSUME NEW s \in SUBSET (1 .. n), s # {}
               PROVE step[Max(s)][f[s \ {Max(s)}]] = PatchAdd(f[s \ {Max(s)}], ids[Max(s)])
    OBVIOUS
  <2>1. Max(s) \in 1 .. n /\ f[s \ {Max(s)}] \in Parts
    BY <1>1, <1>4, MaxInSet DEF IsFold
  <2> QED
    BY <2>1, <1>3
<1>6. Eq(f)
  BY <1>1, <1>4, <1>5 DEF IsFold
<1> DEFINE h == CHOOSE x : Eq(x)
<1>7. Eq(h)
  BY <1>6
<1>8. FoldLeft(PatchAdd, part, ids) = h[DOMAIN ids]
  BY DEF FoldLeft, MapThenFoldSet
<1> HIDE DEF h
<1> DEFINE g == [k \in 0 .. n |-> h[1 .. k]]
<1>9. g[0] = part
  <2>1. 1 .. 0 = {} /\ 0 \in 0 .. n
    BY <1>1
  <2> QED
    BY <1>7, <2>1
<1>10. ASSUME NEW k \in 0 .. n - 1 PROVE g[k + 1] = PatchAdd(g[k], ids[k + 1])
  <2>1. 1 .. k + 1 \in SUBSET (1 .. n) /\ 1 .. k + 1 # {}
    BY <1>1
  <2>2. (1 .. k + 1) \ {k + 1} = 1 .. k
    OBVIOUS
  <2>3. Max(1 .. k + 1) = k + 1
    BY MaxIsLast
  <2>4. h[1 .. k + 1] = PatchAdd(h[1 .. k], ids[k + 1])
    BY <1>1, <1>7, <2>1, <2>2, <2>3
  <2>5. k \in 0 .. n /\ k + 1 \in 0 .. n
    BY <1>1
  <2> QED
    BY <2>4, <2>5
<1>11. g[n] = h[DOMAIN ids]
  BY <1>1
<1> HIDE DEF g
<1> QED
  BY <1>8, <1>9, <1>10, <1>11 DEF n

LEMMA AppendToSet ==
  ASSUME NEW s \in Seq(Nat), NEW x \in Nat
  PROVE /\ ToSet(Append(s, x)) = ToSet(s) \cup {x}
        /\ IsInjective(s) /\ x \notin ToSet(s) => IsInjective(Append(s, x))
<1>1. /\ Len(s) \in Nat /\ DOMAIN s = 1 .. Len(s)
      /\ DOMAIN Append(s, x) = 1 .. Len(s) + 1
      /\ \A i \in 1 .. Len(s) : Append(s, x)[i] = s[i]
      /\ Append(s, x)[Len(s) + 1] = x
  OBVIOUS
<1>2. \A i \in 1 .. Len(s) + 1 : i \in 1 .. Len(s) \/ i = Len(s) + 1
  BY <1>1
<1>3. ToSet(Append(s, x)) = ToSet(s) \cup {x}
  BY <1>1, <1>2 DEF ToSet
<1>4. ASSUME IsInjective(s), x \notin ToSet(s) PROVE IsInjective(Append(s, x))
  BY <1>1, <1>2, <1>4 DEF IsInjective, ToSet
<1> QED
  BY <1>3, <1>4

LEMMA AbsentStages ==
  ASSUME NEW tip, NEW ids \in Seq(Nat)
  PROVE \E g : /\ g[0] = <<>>
               /\ \A k \in 0 .. Len(ids) - 1 : g[k + 1] = Keep(tip, g[k], ids[k + 1])
               /\ Absent(tip, ids) = g[Len(ids)]
<1> DEFINE n == Len(ids)
           step == [i \in 1 .. n |-> [d \in Seq(Nat) |-> Keep(tip, d, ids[i])]]
           Eq(f) == f = [s \in SUBSET (DOMAIN ids) |->
                          IF s = {} THEN <<>> ELSE Keep(tip, f[s \ {Max(s)}], ids[Max(s)])]
<1>1. n \in Nat /\ DOMAIN ids = 1 .. n /\ \A i \in 1 .. n : ids[i] \in Nat
  OBVIOUS
<1>2. \A i \in 1 .. n, d \in Seq(Nat) : Keep(tip, d, ids[i]) \in Seq(Nat)
  BY <1>1, KeepType
<1>3. \A i \in 1 .. n, d \in Seq(Nat) : step[i][d] = Keep(tip, d, ids[i])
  OBVIOUS
<1> HIDE DEF n, step
<1>4. PICK f : IsFold(f, Seq(Nat), n, <<>>, step)
  <2>1. \A i \in 1 .. n, d \in Seq(Nat) : step[i][d] \in Seq(Nat)
    BY <1>2, <1>3
  <2>2. <<>> \in Seq(Nat)
    OBVIOUS
  <2> QED
    BY <1>1, <2>1, <2>2, FoldExists
<1>5. \A s \in SUBSET (1 .. n) : s # {} =>
         step[Max(s)][f[s \ {Max(s)}]] = Keep(tip, f[s \ {Max(s)}], ids[Max(s)])
  <2> SUFFICES ASSUME NEW s \in SUBSET (1 .. n), s # {}
               PROVE step[Max(s)][f[s \ {Max(s)}]] = Keep(tip, f[s \ {Max(s)}], ids[Max(s)])
    OBVIOUS
  <2>1. Max(s) \in 1 .. n /\ f[s \ {Max(s)}] \in Seq(Nat)
    BY <1>1, <1>4, MaxInSet DEF IsFold
  <2> QED
    BY <2>1, <1>3
<1>6. Eq(f)
  BY <1>1, <1>4, <1>5 DEF IsFold
<1> DEFINE h == CHOOSE x : Eq(x)
<1>7. Eq(h)
  BY <1>6
<1>8. Absent(tip, ids) = h[DOMAIN ids]
  BY DEF Absent, Keep, FoldLeft, MapThenFoldSet
<1> HIDE DEF h
<1> DEFINE g == [k \in 0 .. n |-> h[1 .. k]]
<1>9. g[0] = <<>>
  <2>1. 1 .. 0 = {} /\ 0 \in 0 .. n
    BY <1>1
  <2> QED
    BY <1>7, <2>1
<1>10. ASSUME NEW k \in 0 .. n - 1 PROVE g[k + 1] = Keep(tip, g[k], ids[k + 1])
  <2>1. 1 .. k + 1 \in SUBSET (1 .. n) /\ 1 .. k + 1 # {}
    BY <1>1
  <2>2. (1 .. k + 1) \ {k + 1} = 1 .. k
    OBVIOUS
  <2>3. Max(1 .. k + 1) = k + 1
    BY MaxIsLast
  <2>4. h[1 .. k + 1] = Keep(tip, h[1 .. k], ids[k + 1])
    BY <1>1, <1>7, <2>1, <2>2, <2>3
  <2>5. k \in 0 .. n /\ k + 1 \in 0 .. n
    BY <1>1
  <2> QED
    BY <2>4, <2>5
<1>11. g[n] = h[DOMAIN ids]
  BY <1>1
<1> HIDE DEF g
<1> QED
  BY <1>8, <1>9, <1>10, <1>11 DEF n

(* What a fold has read of the IDs when it has done k of them. *)
FirstIDs(ids, k) == {ids[i] : i \in 1 .. k}

LEMMA FirstIDsGrow ==
  ASSUME NEW ids \in Seq(Nat)
  PROVE /\ FirstIDs(ids, 0) = {} /\ FirstIDs(ids, Len(ids)) = ToSet(ids)
        /\ \A k \in 0 .. Len(ids) - 1 : FirstIDs(ids, k + 1) = FirstIDs(ids, k) \cup {ids[k + 1]}
<1>1. 1 .. 0 = {} /\ DOMAIN ids = 1 .. Len(ids)
  OBVIOUS
<1>2. ASSUME NEW k \in 0 .. Len(ids) - 1 PROVE 1 .. k + 1 = (1 .. k) \cup {k + 1}
  OBVIOUS
<1> QED
  BY <1>1, <1>2 DEF FirstIDs, ToSet

(* Deletes played into a new patch: if none fails, all IDs are in the base.*)
LEMMA PatchDeletes ==
  ASSUME NEW part \in Parts, NEW ids \in Seq(Nat), part.diff = {}, part.dels = <<>>
  PROVE LET r == FoldLeft(PatchDelete, part, ids)
        IN /\ r \in Parts /\ r.base = part.base /\ r.diff = {}
           /\ ToSet(r.dels) = ToSet(ids) /\ (IsInjective(ids) => IsInjective(r.dels))
           /\ r.ok => part.ok /\ ToSet(ids) \subseteq part.base
<1>1. PICK g : /\ g[0] = part
               /\ \A k \in 0 .. Len(ids) - 1 : g[k + 1] = PatchDelete(g[k], ids[k + 1])
               /\ FoldLeft(PatchDelete, part, ids) = g[Len(ids)]
  BY PatchDeleteStages
<1> DEFINE Stage(k) == /\ g[k] \in Parts /\ g[k].base = part.base /\ g[k].diff = {}
                       /\ Len(g[k].dels) = k /\ \A i \in 1 .. k : g[k].dels[i] = ids[i]
                       /\ g[k].ok => part.ok /\ FirstIDs(ids, k) \subseteq part.base
           P == {k \in Nat : k <= Len(ids) => Stage(k)}
<1>2. Len(ids) \in Nat
  OBVIOUS
<1>3. 0 \in P
  BY <1>1, FirstIDsGrow DEF Parts
<1>4. ASSUME NEW k \in Nat, k \in P PROVE k + 1 \in P
  <2> SUFFICES ASSUME k + 1 <= Len(ids) PROVE Stage(k + 1)
    OBVIOUS
  <2>1. k \in 0 .. Len(ids) - 1 /\ k <= Len(ids) /\ ids[k + 1] \in Nat
    BY <1>2
  <2>2. Stage(k)
    BY <1>4, <2>1
  <2>3. g[k + 1] = PatchDelete(g[k], ids[k + 1])
    BY <1>1, <2>1
  <2>4. g[k + 1] \in Parts
    BY <2>1, <2>2, <2>3, PatchDeleteType
  <2>5. g[k + 1] = [g[k] EXCEPT !.ok = @ /\ ids[k + 1] \in g[k].base,
                                !.dels = Append(@, ids[k + 1])]
    BY <2>2, <2>3 DEF PatchDelete
  <2>6. /\ g[k + 1].base = part.base /\ g[k + 1].diff = {}
        /\ g[k + 1].dels = Append(g[k].dels, ids[k + 1])
        /\ g[k + 1].ok => g[k].ok /\ ids[k + 1] \in part.base
    BY <2>2, <2>5 DEF Parts
  <2>7. g[k].dels \in Seq(Nat)
    BY <2>2 DEF Parts
  <2>8. /\ Len(g[k + 1].dels) = k + 1
        /\ \A i \in 1 .. k + 1 : g[k + 1].dels[i] = ids[i]
    BY <2>1, <2>2, <2>6, <2>7
  <2>9. g[k + 1].ok => part.ok /\ FirstIDs(ids, k + 1) \subseteq part.base
    BY <2>1, <2>2, <2>6, FirstIDsGrow
  <2> QED
    BY <2>4, <2>6, <2>8, <2>9
<1> HIDE DEF P
<1>5. Nat \subseteq P
  BY <1>3, <1>4, NatSetInduction
<1>6. Stage(Len(ids))
  BY <1>2, <1>5 DEF P
<1>7. g[Len(ids)].dels \in Seq(Nat)
  BY <1>6 DEF Parts
<1>8. /\ DOMAIN g[Len(ids)].dels = DOMAIN ids
      /\ \A i \in DOMAIN ids : g[Len(ids)].dels[i] = ids[i]
  <2>1. ASSUME NEW d \in Seq(Nat), Len(d) = Len(ids) PROVE DOMAIN d = DOMAIN ids
    BY <2>1
  <2>2. DOMAIN ids = 1 .. Len(ids)
    OBVIOUS
  <2> QED
    BY <1>6, <1>7, <2>1, <2>2
<1>9. /\ ToSet(g[Len(ids)].dels) = ToSet(ids)
      /\ IsInjective(ids) => IsInjective(g[Len(ids)].dels)
  BY <1>8 DEF ToSet, IsInjective
<1> QED
  BY <1>1, <1>6, <1>9, FirstIDsGrow

(* Adds change neither the base nor the deletes. *)
LEMMA PatchAdds ==
  ASSUME NEW part \in Parts, NEW ids \in Seq(Nat)
  PROVE LET r == FoldLeft(PatchAdd, part, ids)
        IN /\ r \in Parts /\ r.base = part.base /\ r.dels = part.dels
           /\ r.diff = part.diff \cup ToSet(ids)
           /\ r.ok => part.ok
<1>1. PICK g : /\ g[0] = part
               /\ \A k \in 0 .. Len(ids) - 1 : g[k + 1] = PatchAdd(g[k], ids[k + 1])
               /\ FoldLeft(PatchAdd, part, ids) = g[Len(ids)]
  BY PatchAddStages
<1> DEFINE Stage(k) == /\ g[k] \in Parts /\ g[k].base = part.base /\ g[k].dels = part.dels
                       /\ g[k].diff = part.diff \cup FirstIDs(ids, k)
                       /\ g[k].ok => part.ok
           P == {k \in Nat : k <= Len(ids) => Stage(k)}
<1>2. Len(ids) \in Nat
  OBVIOUS
<1>3. 0 \in P
  BY <1>1, FirstIDsGrow
<1>4. ASSUME NEW k \in Nat, k \in P PROVE k + 1 \in P
  <2> SUFFICES ASSUME k + 1 <= Len(ids) PROVE Stage(k + 1)
    OBVIOUS
  <2>1. k \in 0 .. Len(ids) - 1 /\ k <= Len(ids) /\ ids[k + 1] \in Nat
    BY <1>2
  <2>2. Stage(k)
    BY <1>4, <2>1
  <2>3. g[k + 1] = PatchAdd(g[k], ids[k + 1])
    BY <1>1, <2>1
  <2>4. g[k + 1] \in Parts
    BY <2>1, <2>2, <2>3, PatchAddType
  <2>5. /\ g[k + 1].base = g[k].base /\ g[k + 1].dels = g[k].dels
        /\ g[k + 1].diff = g[k].diff \cup {ids[k + 1]}
        /\ g[k + 1].ok => g[k].ok
    BY <2>2, <2>3 DEF PatchAdd, Parts
  <2>6. g[k + 1].diff = part.diff \cup FirstIDs(ids, k + 1)
    BY <2>1, <2>2, <2>5, FirstIDsGrow
  <2> QED
    BY <2>2, <2>4, <2>5, <2>6
<1> HIDE DEF P
<1>5. Nat \subseteq P
  BY <1>3, <1>4, NatSetInduction
<1>6. Stage(Len(ids))
  BY <1>2, <1>5 DEF P
<1> QED
  BY <1>1, <1>6, FirstIDsGrow

(* Absent keeps the IDs the tip lacks, each as often as it is named. *)
LEMMA AbsentIDs ==
  ASSUME NEW tip, NEW ids \in Seq(Nat), IsInjective(ids)
  PROVE /\ Absent(tip, ids) \in Seq(Nat) /\ IsInjective(Absent(tip, ids))
        /\ ToSet(Absent(tip, ids)) = ToSet(ids) \ tip.has.objs
<1>1. PICK g : /\ g[0] = <<>>
               /\ \A k \in 0 .. Len(ids) - 1 : g[k + 1] = Keep(tip, g[k], ids[k + 1])
               /\ Absent(tip, ids) = g[Len(ids)]
  BY AbsentStages
<1> DEFINE Stage(k) == /\ g[k] \in Seq(Nat) /\ IsInjective(g[k])
                       /\ ToSet(g[k]) = FirstIDs(ids, k) \ tip.has.objs
           P == {k \in Nat : k <= Len(ids) => Stage(k)}
<1>2. Len(ids) \in Nat
  OBVIOUS
<1>3. 0 \in P
  <2>1. <<>> \in Seq(Nat) /\ ToSet(<<>>) = {} /\ IsInjective(<<>>)
    BY DEF ToSet, IsInjective
  <2> QED
    BY <1>1, <2>1, FirstIDsGrow
<1>4. ASSUME NEW k \in Nat, k \in P PROVE k + 1 \in P
  <2> SUFFICES ASSUME k + 1 <= Len(ids) PROVE Stage(k + 1)
    OBVIOUS
  <2>1. k \in 0 .. Len(ids) - 1 /\ k <= Len(ids) /\ ids[k + 1] \in Nat
    BY <1>2
  <2>2. Stage(k)
    BY <1>4, <2>1
  <2>3. g[k + 1] = Keep(tip, g[k], ids[k + 1])
    BY <1>1, <2>1
  <2>4. FirstIDs(ids, k + 1) = FirstIDs(ids, k) \cup {ids[k + 1]}
    BY <2>1, FirstIDsGrow
  <2>5. CASE ids[k + 1] \in tip.has.objs
    BY <2>2, <2>3, <2>4, <2>5 DEF Keep
  <2>6. CASE ids[k + 1] \notin tip.has.objs
    <3>1. g[k + 1] = Append(g[k], ids[k + 1])
      BY <2>3, <2>6 DEF Keep
    <3>2. ids[k + 1] \notin FirstIDs(ids, k)
      BY <2>1 DEF FirstIDs, IsInjective
    <3>3. ids[k + 1] \notin ToSet(g[k])
      BY <2>2, <3>2
    <3>4. g[k + 1] \in Seq(Nat)
      BY <2>1, <2>2, <3>1
    <3> QED
      BY <2>1, <2>2, <2>4, <2>6, <3>1, <3>3, <3>4, AppendToSet
  <2> QED
    BY <2>5, <2>6
<1> HIDE DEF P
<1>5. Nat \subseteq P
  BY <1>3, <1>4, NatSetInduction
<1>6. Stage(Len(ids))
  BY <1>2, <1>5 DEF P
<1> QED
  BY <1>1, <1>6, FirstIDsGrow

----------------------------------------------------------------------------
(* The first invariant, for operations other than merges whose callers     *)
(* name no ID twice: every commit object can be played on its parent, and  *)
(* the object an operation has written and not yet committed is in no      *)
(* commit that a branch has or an operation starts from.                   *)

NoMerges == ~Repeats /\ "Merge" \notin setting.kinds

Has(c) == Snapshot(c).has.objs \cup Snapshot(c).has.vecs

Building == {"Load", "Delete", "DeleteWhere", "Revert", "Compact", "AddVectors", "DeleteVectors"}

ActsTyped(a) == \A f \in Family : a.del[f] \in Seq(Nat) /\ a.add[f] \in Seq(Nat)

SnapInv ==
    /\ views \in Seq(Snapshots) /\ Len(views) = Len(commits)
    /\ rows \in Seq(SUBSET Nat)
    /\ \A c \in 1 .. Len(commits) :
         /\ ActsTyped(commits[c].acts)
         /\ Playable(Snapshot(commits[c].parent), commits[c].acts)
         /\ views[c] = Play(Snapshot(commits[c].parent), commits[c].acts)
         /\ views[c].ok
         /\ Has(c) \subseteq 1 .. Len(rows)

JobOK(p) ==
    LET j == job[p]
    IN /\ j.kind \in setting.kinds \cup {"none"}
       /\ j.from \in 0 .. Len(commits) /\ j.parent \in 0 .. Len(commits)
       /\ j.kind = "Revert" => j.from # Nil
       /\ j.kind # "Vacuum" => j.ids \in Seq(Nat) /\ IsInjective(j.ids)
       /\ j.kind \in {"Load", "Compact"} => \E n \in 1 .. Len(rows) : j.new = <<n>>
       /\ j.kind \notin {"Load", "Compact"} => j.new = <<>>
       /\ j.vecs \in {<<>>, j.new}
       /\ pc[p] = "vacuum" => j.kind = "Vacuum"
       /\ pc[p] = "lookup" => j.kind \in Building \cup {"RemoveBranch"}
       /\ pc[p] \in {"create", "update"} => j.kind \in Building

JobInv == \A p \in Workers : JobOK(p)

NewOf(p) == ToSet(job[p].new)

Reach ==
    {Nil} \cup (UNION {Path[tips[b]] : b \in {n \in Names : Exists(n)}})
          \cup (UNION {Path[job[p].parent] \cup Path[job[p].from] : p \in Workers})

FreshInv ==
    \A p \in Workers :
        /\ \A c \in Reach : NewOf(p) \cap Has(c) = {}
        /\ \A q \in Workers : q # p =>
             /\ NewOf(p) \cap NewOf(q) = {}
             /\ pc[q] = "update" => NewOf(p) \cap Has(job[q].made) = {}

ReadInv == Inv /\ SnapInv /\ JobInv /\ FreshInv

LEMMA SnapshotOK ==
  ASSUME SnapInv, NEW c \in 0 .. Len(commits)
  PROVE /\ Snapshot(c) \in Snapshots /\ Snapshot(c).ok /\ Has(c) \subseteq 1 .. Len(rows)
        /\ Snapshot(c).has.objs \subseteq 1 .. Len(rows)
        /\ Snapshot(c).has.vecs \subseteq 1 .. Len(rows)
<1>1. Len(commits) \in Nat
  BY DEF SnapInv
<1>2. CASE c = Nil
  BY <1>2 DEF Snapshot, NewSnapshot, Nothing, Snapshots, Has, Family
<1>3. CASE c # Nil
  <2>1. c \in 1 .. Len(commits) /\ Snapshot(c) = views[c]
    BY <1>1, <1>3 DEF Snapshot, Nil
  <2>2. views[c] \in Snapshots /\ views[c].ok /\ Has(c) \subseteq 1 .. Len(rows)
    BY <2>1 DEF SnapInv
  <2> QED
    BY <2>1, <2>2 DEF Has
<1> QED
  BY <1>2, <1>3

LEMMA InReach ==
  ASSUME NEW c
  PROVE c \in Reach <=> \/ c = Nil
                        \/ \E b \in Names : Exists(b) /\ c \in Path[tips[b]]
                        \/ \E p \in Workers : c \in Path[job[p].parent] \/ c \in Path[job[p].from]
<1> DEFINE T == UNION {Path[tips[b]] : b \in {n \in Names : Exists(n)}}
           W == UNION {Path[job[p].parent] \cup Path[job[p].from] : p \in Workers}
<1>1. c \in T <=> \E b \in Names : Exists(b) /\ c \in Path[tips[b]]
  OBVIOUS
<1>2. c \in W <=> \E p \in Workers : c \in Path[job[p].parent] \/ c \in Path[job[p].from]
  OBVIOUS
<1>3. Reach = {Nil} \cup T \cup W
  BY DEF Reach
<1> HIDE DEF T, W
<1> QED
  BY <1>1, <1>2, <1>3

(* Commits a branch has, or an operation starts from, and their parents. *)
LEMMA ReachFacts ==
  ASSUME Inv, JobInv
  PROVE /\ Nil \in Reach /\ Reach \subseteq 0 .. Len(commits)
        /\ \A b \in Names : Exists(b) => tips[b] \in Reach
        /\ \A p \in Workers : job[p].parent \in Reach /\ job[p].from \in Reach
        /\ \A c \in Reach : c # Nil => commits[c].parent \in Reach
        /\ \A c \in Reach : Path[c] \subseteq Reach
        /\ Known \subseteq Reach /\ Nil \notin Known
<1>1. Len(commits) \in Nat /\ TreeInv
  BY PathEquation DEF Inv, IInv
<1>2. ASSUME NEW c \in 0 .. Len(commits) PROVE c = Nil \/ c \in Path[c]
  BY <1>1, PathEquation DEF Nil
<1>3. /\ \A b \in Names : Exists(b) => tips[b] \in 0 .. Len(commits)
      /\ \A p \in Workers : job[p].parent \in 0 .. Len(commits) /\ job[p].from \in 0 .. Len(commits)
  BY DEF Inv, IInv, WorkInv, Exists, JobInv, JobOK
<1>4. \A c \in 0 .. Len(commits) : Path[c] \subseteq 1 .. Len(commits)
  BY <1>1 DEF TreeInv, PathShape
<1>5. Nil \in Reach /\ Reach \subseteq 0 .. Len(commits)
  <2>1. ASSUME NEW c \in Reach PROVE c \in 0 .. Len(commits)
    BY <1>1, <1>3, <1>4, InReach DEF Nil
  <2> QED
    BY <2>1, InReach
<1>6. ASSUME NEW c \in Reach, c # Nil
      PROVE \E d \in 0 .. Len(commits) : c \in Path[d] /\ Path[d] \subseteq Reach
  BY <1>3, <1>6, InReach
<1>7. ASSUME NEW c \in Reach PROVE Path[c] \subseteq Reach
  <2>1. CASE c = Nil
    BY <1>1, <2>1, PathEquation DEF Nil
  <2>2. CASE c # Nil
    BY <1>1, <1>5, <1>6, <2>2 DEF TreeInv, PathShape
  <2> QED
    BY <2>1, <2>2
<1>8. ASSUME NEW c \in Reach, c # Nil PROVE commits[c].parent \in Reach
  <2>1. c \in 1 .. Len(commits) /\ commits[c].parent \in 0 .. Len(commits)
    BY <1>1, <1>5, <1>8 DEF Nil, TreeInv, PathShape
  <2>2. Path[commits[c].parent] \subseteq Path[c]
    BY <1>1, <2>1, PathEquation
  <2> QED
    BY <1>2, <1>5, <1>7, <2>1, <2>2
<1>9. Known \subseteq Reach /\ Nil \notin Known
  BY <1>1, <1>3, <1>4 DEF Known, Reach, Nil
<1>10. \A b \in Names : Exists(b) => tips[b] \in Reach
  BY <1>2, <1>3, <1>5 DEF Reach
<1>11. \A p \in Workers : job[p].parent \in Reach /\ job[p].from \in Reach
  BY <1>2, <1>3, <1>5, InReach
<1> QED
  BY <1>5, <1>7, <1>8, <1>9, <1>10, <1>11

(* A set with the paths of its members has Reach of the next state if it   *)
(* has the tips and what the operations work from.                         *)
LEMMA ReachNext ==
  ASSUME NEW S, Nil \in S, \A c \in S : Path'[c] \subseteq S,
         \A b \in Names : Exists(b)' => tips'[b] \in S,
         \A p \in Workers : job'[p].parent \in S /\ job'[p].from \in S
  PROVE Reach' \subseteq S
<1> DEFINE T == UNION {Path'[tips'[b]] : b \in {n \in Names : Exists(n)'}}
           W == UNION {Path'[job'[p].parent] \cup Path'[job'[p].from] : p \in Workers}
<1>1. T \subseteq S
  OBVIOUS
<1>2. W \subseteq S
  OBVIOUS
<1>3. Reach' = {Nil} \cup T \cup W
  BY DEF Reach
<1> HIDE DEF T, W
<1> QED
  BY <1>1, <1>2, <1>3

----------------------------------------------------------------------------
(* What the constructors make can be played on the parent's snapshot.      *)

LEMMA SetToSeqOfFinite ==
  ASSUME NEW n \in Nat, NEW S \in SUBSET (1 .. n)
  PROVE /\ SetToSeq(S) \in Seq(Nat) /\ IsInjective(SetToSeq(S))
        /\ ToSet(SetToSeq(S)) = S
<1>1. IsFiniteSet(S)
  <2>1. IsFiniteSet(1 .. n)
    BY FS_Interval
  <2> QED
    BY <2>1, FS_Subset
<1> DEFINE k == Cardinality(S)
           s == SetToSeq(S)
<1>2. k \in Nat /\ ExistsBijection(1 .. k, S)
  BY <1>1, FS_CardinalityType
<1>3. \E g \in [1 .. k -> S] : IsInjective(g)
  BY <1>2 DEF ExistsBijection, Bijection, Injection
<1>4. s \in [1 .. k -> S] /\ IsInjective(s)
  BY <1>3 DEF SetToSeq
<1> HIDE DEF s
<1>5. s \in Injection(1 .. k, S)
  BY <1>4 DEF Injection
<1>6. Cardinality(1 .. k) = k
  BY <1>2, FS_Interval
<1>7. s \in Surjection(1 .. k, S)
  BY <1>1, <1>5, <1>6, FS_Injection
<1>8. ToSet(s) = S
  BY <1>4, <1>7 DEF Surjection, ToSet
<1>9. s \in Seq(Nat)
  <2> HIDE DEF k
  <2>0. S \subseteq Nat
    OBVIOUS
  <2>1. \A i \in 1 .. k : s[i] \in Nat
    <3>1. s \in [1 .. k -> S]
      BY <1>4
    <3> QED
      BY <2>0, <3>1
  <2>2. s = [i \in 1 .. k |-> s[i]]
    BY <1>4
  <2> QED
    BY <1>2, <2>1, <2>2
<1> QED
  BY <1>4, <1>8, <1>9 DEF s

LEMMA ShortLists ==
  /\ <<>> \in Seq(Nat) /\ IsInjective(<<>>) /\ ToSet(<<>>) = {}
  /\ \A n \in Nat : <<n>> \in Seq(Nat) /\ IsInjective(<<n>>) /\ ToSet(<<n>>) = {n} /\ <<n>> # <<>>
  BY DEF IsInjective, ToSet

Adds(acts) == ToSet(acts.add.objs) \cup ToSet(acts.add.vecs)

(* Lists that name no ID twice, of what the snapshot has or lacks.         *)
LEMMA PlayableActions ==
  ASSUME NEW v, NEW a,
         a.del.objs \in Seq(Nat), IsInjective(a.del.objs), ToSet(a.del.objs) \subseteq v.has.objs,
         a.add.objs \in Seq(Nat), IsInjective(a.add.objs), ToSet(a.add.objs) \cap v.has.objs = {},
         a.del.vecs \in Seq(Nat), IsInjective(a.del.vecs), ToSet(a.del.vecs) \subseteq v.has.vecs,
         a.add.vecs \in Seq(Nat), IsInjective(a.add.vecs), ToSet(a.add.vecs) \cap v.has.vecs = {}
  PROVE ActsTyped(a) /\ Playable(v, a)
<1>1. ActsTyped(a)
  BY DEF ActsTyped, Family
<1>2. Playable(v, a)
  BY DEF Playable, Family
<1> QED
  BY <1>1, <1>2

LEMMA ActionsParts ==
  ASSUME NEW do, NEW ao, NEW dv, NEW av
  PROVE LET a == Actions(do, ao, dv, av)
        IN /\ a.del.objs = do /\ a.add.objs = ao /\ a.del.vecs = dv /\ a.add.vecs = av
           /\ Adds(a) = ToSet(ao) \cup ToSet(av)
  BY DEF Actions, Adds

(* What playing actions into a new patch leads to. *)
LEMMA PlayNewPatch ==
  ASSUME NEW v \in Snapshots, NEW acts, ActsTyped(acts), NEW f \in Family
  PROVE LET r == PlayPatch(NewPatch(v), acts)[f]
        IN /\ r.diff = ToSet(acts.add[f]) /\ r.dels \in Seq(Nat)
           /\ ToSet(r.dels) = ToSet(acts.del[f])
           /\ IsInjective(acts.del[f]) => IsInjective(r.dels)
           /\ r.ok => ToSet(acts.del[f]) \subseteq v.has[f]
<1> DEFINE n == NewPatch(v)[f]
           d == FoldLeft(PatchDelete, n, acts.del[f])
           r == FoldLeft(PatchAdd, d, acts.add[f])
<1>1. /\ n \in Parts /\ n.diff = {} /\ n.dels = <<>> /\ n.base = v.has[f]
  <2>1. v.has[f] \in SUBSET Nat
    BY DEF Snapshots
  <2> QED
    BY <2>1 DEF NewPatch, Parts
<1>2. acts.del[f] \in Seq(Nat) /\ acts.add[f] \in Seq(Nat)
  BY DEF ActsTyped
<1>3. PlayPatch(NewPatch(v), acts)[f] = r
  BY DEF PlayPatch
<1> HIDE DEF n
<1>4. /\ d \in Parts /\ d.diff = {} /\ ToSet(d.dels) = ToSet(acts.del[f])
      /\ (IsInjective(acts.del[f]) => IsInjective(d.dels))
      /\ d.ok => ToSet(acts.del[f]) \subseteq v.has[f]
  BY <1>1, <1>2, PatchDeletes
<1> HIDE DEF d
<1>5. /\ r \in Parts /\ r.dels = d.dels /\ r.diff = d.diff \cup ToSet(acts.add[f])
      /\ r.ok => d.ok
  BY <1>2, <1>4, PatchAdds
<1> HIDE DEF r
<1>6. r.dels \in Seq(Nat)
  BY <1>5 DEF Parts
<1> QED
  BY <1>3, <1>4, <1>5, <1>6

(* A worker that is about to construct a commit. *)
LEMMA AtCreate ==
  ASSUME ReadInv, NEW p \in Workers, pc[p] = "create"
  PROVE LET v == Snapshot(job[p].parent)
        IN /\ job[p].parent \in Reach /\ job[p].from \in Reach
           /\ v \in Snapshots /\ v.ok
           /\ v.has.objs \subseteq 1 .. Len(rows) /\ v.has.vecs \subseteq 1 .. Len(rows)
           /\ Has(job[p].parent) = v.has.objs \cup v.has.vecs
           /\ NewOf(p) \cap v.has.objs = {} /\ NewOf(p) \cap v.has.vecs = {}
           /\ job[p].kind \in Building
           /\ job[p].ids \in Seq(Nat) /\ IsInjective(job[p].ids)
<1>1. /\ job[p].parent \in Reach /\ job[p].from \in Reach
      /\ job[p].parent \in 0 .. Len(commits)
  BY ReachFacts DEF ReadInv, JobInv, JobOK
<1>2. NewOf(p) \cap Has(job[p].parent) = {}
  BY <1>1 DEF ReadInv, FreshInv
<1>3. job[p].kind \in Building /\ job[p].kind # "Vacuum"
  BY DEF ReadInv, JobInv, JobOK, Building
<1>4. job[p].ids \in Seq(Nat) /\ IsInjective(job[p].ids)
  BY <1>3 DEF ReadInv, JobInv, JobOK
<1>5. SnapInv
  BY DEF ReadInv
<1> QED
  BY <1>1, <1>2, <1>3, <1>4, <1>5, SnapshotOK DEF Has

(* The IDs a commit of worker p may add. *)
Source(p, acts, id) ==
    \/ id \in NewOf(p)
    \/ \E c \in Reach : id \in Has(c)
    \/ job[p].kind = "DeleteWhere" /\ acts.add.objs # <<>> /\ id = NextObject

Fits(p, acts) ==
    /\ ActsTyped(acts) /\ Playable(Snapshot(job[p].parent), acts)
    /\ \A id \in Adds(acts) : Source(p, acts, id)

LEMMA LoadFits ==
  ASSUME ReadInv, NEW p \in Workers, pc[p] = "create", job[p].kind = "Load"
  PROVE Fits(p, Actions(<<>>, job[p].new, <<>>, <<>>))
<1> DEFINE v == Snapshot(job[p].parent)
<1>1. PICK n \in 1 .. Len(rows) : job[p].new = <<n>>
  BY DEF ReadInv, JobInv, JobOK
<1>2. NewOf(p) = ToSet(job[p].new) /\ NewOf(p) \cap v.has.objs = {}
  BY AtCreate DEF NewOf
<1> DEFINE a == Actions(<<>>, job[p].new, <<>>, <<>>)
           none == <<>>
<1>3. ActsTyped(a) /\ Playable(v, a) /\ Adds(a) = NewOf(p)
  <2>1. none \in Seq(Nat) /\ IsInjective(none) /\ ToSet(none) = {}
    BY ShortLists
  <2>2. job[p].new \in Seq(Nat) /\ IsInjective(job[p].new)
    BY <1>1, ShortLists
  <2>3. /\ a.del.objs = none /\ a.add.objs = job[p].new /\ a.del.vecs = none /\ a.add.vecs = none
        /\ Adds(a) = ToSet(job[p].new) \cup ToSet(none)
    BY ActionsParts
  <2> HIDE DEF v, a, none
  <2> QED
    BY <1>2, <2>1, <2>2, <2>3, PlayableActions
<1> QED
  BY <1>3 DEF Fits, Source

LEMMA ListsFit ==
  ASSUME ReadInv, NEW p \in Workers, pc[p] = "create", NEW acts,
         \/ acts \in Deletes(Snapshot(job[p].parent), job[p].ids)
         \/ acts \in AddsVectors(Snapshot(job[p].parent), job[p].ids)
         \/ acts \in DeletesVectors(Snapshot(job[p].parent), job[p].ids)
  PROVE Fits(p, acts)
<1> DEFINE v == Snapshot(job[p].parent)
           ids == job[p].ids
           none == <<>>
<1>0. none \in Seq(Nat) /\ IsInjective(none) /\ ToSet(none) = {}
  BY ShortLists
<1>1. /\ ids \in Seq(Nat) /\ IsInjective(ids) /\ job[p].parent \in Reach
      /\ Has(job[p].parent) = v.has.objs \cup v.has.vecs
  BY AtCreate
<1> HIDE DEF v, ids, none
<1>2. CASE acts \in Deletes(v, ids)
  <2>1. acts = Actions(ids, none, none, none) /\ ToSet(ids) \subseteq v.has.objs
    BY <1>2 DEF Deletes, none
  <2>2. /\ acts.del.objs = ids /\ acts.add.objs = none /\ acts.del.vecs = none /\ acts.add.vecs = none
        /\ Adds(acts) = ToSet(none) \cup ToSet(none)
    BY <2>1, ActionsParts
  <2>3. ActsTyped(acts) /\ Playable(v, acts) /\ Adds(acts) = {}
    <3>1. /\ ToSet(acts.del.objs) \subseteq v.has.objs /\ ToSet(acts.add.objs) \cap v.has.objs = {}
          /\ ToSet(acts.del.vecs) \subseteq v.has.vecs /\ ToSet(acts.add.vecs) \cap v.has.vecs = {}
      BY <1>0, <2>1, <2>2
    <3> QED
      BY <1>0, <1>1, <2>2, <3>1, PlayableActions
  <2> QED
    BY <2>3 DEF Fits, v
<1>3. CASE acts \in AddsVectors(v, ids)
  <2>1. acts = Actions(none, none, none, ids) /\ ToSet(ids) \subseteq v.has.objs \ v.has.vecs
    BY <1>3 DEF AddsVectors, none
  <2>2. /\ acts.del.objs = none /\ acts.add.objs = none /\ acts.del.vecs = none /\ acts.add.vecs = ids
        /\ Adds(acts) = ToSet(none) \cup ToSet(ids)
    BY <2>1, ActionsParts
  <2>3. ActsTyped(acts) /\ Playable(v, acts) /\ Adds(acts) = ToSet(ids)
    <3>1. /\ ToSet(acts.del.objs) \subseteq v.has.objs /\ ToSet(acts.add.objs) \cap v.has.objs = {}
          /\ ToSet(acts.del.vecs) \subseteq v.has.vecs /\ ToSet(acts.add.vecs) \cap v.has.vecs = {}
      BY <1>0, <2>1, <2>2
    <3> QED
      BY <1>0, <1>1, <2>2, <3>1, PlayableActions
  <2>4. \A id \in Adds(acts) : id \in Has(job[p].parent)
    BY <1>1, <2>1, <2>3
  <2> QED
    BY <1>1, <2>3, <2>4 DEF Fits, Source, v
<1>4. CASE acts \in DeletesVectors(v, ids)
  <2>1. acts = Actions(none, none, ids, none) /\ ToSet(ids) \subseteq v.has.vecs
    BY <1>4 DEF DeletesVectors, none
  <2>2. /\ acts.del.objs = none /\ acts.add.objs = none /\ acts.del.vecs = ids /\ acts.add.vecs = none
        /\ Adds(acts) = ToSet(none) \cup ToSet(none)
    BY <2>1, ActionsParts
  <2>3. ActsTyped(acts) /\ Playable(v, acts) /\ Adds(acts) = {}
    <3>1. /\ ToSet(acts.del.objs) \subseteq v.has.objs /\ ToSet(acts.add.objs) \cap v.has.objs = {}
          /\ ToSet(acts.del.vecs) \subseteq v.has.vecs /\ ToSet(acts.add.vecs) \cap v.has.vecs = {}
      BY <1>0, <2>1, <2>2
    <3> QED
      BY <1>0, <1>1, <2>2, <3>1, PlayableActions
  <2> QED
    BY <2>3 DEF Fits, v
<1> QED
  BY <1>2, <1>3, <1>4 DEF v, ids

LEMMA RewritesFit ==
  ASSUME ReadInv, NEW p \in Workers, pc[p] = "create", job[p].kind = "DeleteWhere", NEW r,
         NEW acts \in Rewrites(Snapshot(job[p].parent), r)
  PROVE /\ Fits(p, acts)
        /\ ToSet(acts.del.objs) = Hit(Snapshot(job[p].parent), r)
        /\ acts.add.objs = IF Left(Snapshot(job[p].parent), r) = {} THEN <<>> ELSE <<NextObject>>
        /\ ToSet(acts.add.objs) \subseteq {NextObject}
<1> DEFINE v == Snapshot(job[p].parent)
           hit == SetToSeq(Hit(v, r))
           new == IF Left(v, r) = {} THEN <<>> ELSE <<NextObject>>
           none == <<>>
<1>0. none \in Seq(Nat) /\ IsInjective(none) /\ ToSet(none) = {}
  BY ShortLists
<1>1. Len(rows) \in Nat /\ v.has.objs \subseteq 1 .. Len(rows) /\ v.has.vecs \subseteq 1 .. Len(rows)
  BY AtCreate DEF ReadInv, SnapInv
<1>2. hit \in Seq(Nat) /\ IsInjective(hit) /\ ToSet(hit) = Hit(v, r) /\ ToSet(hit) \subseteq v.has.objs
  <2>1. Hit(v, r) \in SUBSET (1 .. Len(rows)) /\ Hit(v, r) \subseteq v.has.objs
    BY <1>1 DEF Hit
  <2> QED
    BY <1>1, <2>1, SetToSeqOfFinite
<1>3. /\ new \in Seq(Nat) /\ IsInjective(new) /\ ToSet(new) \subseteq {NextObject}
      /\ new = <<>> => ToSet(new) = {}
  BY <1>1, ShortLists DEF NextObject
<1>4. acts = Actions(hit, new, none, none)
  BY DEF Rewrites
<1>5. /\ acts.del.objs = hit /\ acts.add.objs = new /\ acts.del.vecs = none /\ acts.add.vecs = none
      /\ Adds(acts) = ToSet(new) \cup ToSet(none)
  BY <1>4, ActionsParts
<1> HIDE DEF v, hit, new, none
<1>6. /\ ToSet(acts.del.objs) \subseteq v.has.objs /\ ToSet(acts.add.objs) \cap v.has.objs = {}
      /\ ToSet(acts.del.vecs) \subseteq v.has.vecs /\ ToSet(acts.add.vecs) \cap v.has.vecs = {}
  <2>1. NextObject \notin v.has.objs
    BY <1>1 DEF NextObject
  <2> QED
    BY <1>0, <1>2, <1>3, <1>5, <2>1
<1>7. ActsTyped(acts) /\ Playable(v, acts)
  BY <1>0, <1>2, <1>3, <1>5, <1>6, PlayableActions
<1>8. \A id \in Adds(acts) : acts.add.objs # <<>> /\ id = NextObject
  BY <1>0, <1>3, <1>5
<1> QED
  BY <1>2, <1>3, <1>5, <1>7, <1>8 DEF Fits, Source, v, new

LEMMA CompactsFit ==
  ASSUME ReadInv, NEW p \in Workers, pc[p] = "create", job[p].kind = "Compact",
         NEW acts \in Compacts(Snapshot(job[p].parent), job[p].ids, job[p].new, job[p].vecs)
  PROVE /\ Fits(p, acts)
        /\ acts.del.objs = job[p].ids /\ acts.add.objs = job[p].new
        /\ ToSet(job[p].ids) \subseteq Objs(job[p].parent)
<1> DEFINE v == Snapshot(job[p].parent)
           ids == job[p].ids
           new == job[p].new
           vecs == job[p].vecs
           none == <<>>
<1>0. none \in Seq(Nat) /\ IsInjective(none) /\ ToSet(none) = {}
  BY ShortLists
<1>1. /\ ids \in Seq(Nat) /\ IsInjective(ids) /\ v \in Snapshots
      /\ NewOf(p) \cap v.has.objs = {} /\ NewOf(p) \cap v.has.vecs = {}
  BY AtCreate
<1>2. PICK n \in 1 .. Len(rows) : new = <<n>> /\ vecs \in {<<>>, new}
  BY DEF ReadInv, JobInv, JobOK
<1>3. /\ new \in Seq(Nat) /\ IsInjective(new) /\ NewOf(p) = ToSet(new)
      /\ vecs \in Seq(Nat) /\ IsInjective(vecs) /\ ToSet(vecs) \subseteq NewOf(p)
  <2>1. n \in Nat
    OBVIOUS
  <2>2. /\ new \in Seq(Nat) /\ IsInjective(new) /\ NewOf(p) = ToSet(new)
    BY <1>2, <2>1, ShortLists DEF NewOf
  <2>3. CASE vecs = none
    BY <1>0, <2>2, <2>3
  <2>4. CASE vecs = new
    BY <2>2, <2>4
  <2> QED
    BY <1>2, <2>2, <2>3, <2>4
<1>4. acts = Actions(ids, new, none, vecs) /\ PatchOK(PlayPatch(NewPatch(v), acts))
  BY DEF Compacts
<1>5. /\ acts.del.objs = ids /\ acts.add.objs = new /\ acts.del.vecs = none /\ acts.add.vecs = vecs
      /\ Adds(acts) = ToSet(new) \cup ToSet(vecs)
  BY <1>4, ActionsParts
<1> HIDE DEF v, ids, new, vecs, none
<1>6. ActsTyped(acts)
  BY <1>0, <1>1, <1>3, <1>5 DEF ActsTyped, Family
<1>7. ToSet(ids) \subseteq v.has.objs
  <2>1. "objs" \in Family
    BY DEF Family
  <2>2. PlayPatch(NewPatch(v), acts).objs.ok => ToSet(acts.del.objs) \subseteq v.has.objs
    BY <1>1, <1>6, <2>1, PlayNewPatch
  <2> QED
    BY <1>4, <1>5, <2>1, <2>2 DEF PatchOK
<1>8. /\ ToSet(acts.del.objs) \subseteq v.has.objs /\ ToSet(acts.add.objs) \cap v.has.objs = {}
      /\ ToSet(acts.del.vecs) \subseteq v.has.vecs /\ ToSet(acts.add.vecs) \cap v.has.vecs = {}
  BY <1>0, <1>1, <1>3, <1>5, <1>7
<1>9. ActsTyped(acts) /\ Playable(v, acts)
  BY <1>0, <1>1, <1>3, <1>5, <1>8, PlayableActions
<1>10. \A id \in Adds(acts) : id \in NewOf(p)
  BY <1>3, <1>5
<1> QED
  BY <1>5, <1>7, <1>9, <1>10 DEF Fits, Source, v, ids, new, Objs

LEMMA RevertsFit ==
  ASSUME ReadInv, NEW p \in Workers, pc[p] = "create", job[p].kind = "Revert",
         NEW acts \in Reverts(Snapshot(job[p].parent), job[p].from)
  PROVE Fits(p, acts)
<1> DEFINE v == Snapshot(job[p].parent)
           c == job[p].from
           w == Snapshot(commits[c].parent)
           patch == PlayPatch(NewPatch(w), commits[c].acts)
           dels == SetToSeq(patch.objs.diff \cap v.has.objs)
           adds == Absent(v, patch.objs.dels)
           none == <<>>
<1>0. none \in Seq(Nat) /\ IsInjective(none) /\ ToSet(none) = {}
  BY ShortLists
<1>1. /\ v \in Snapshots /\ v.has.objs \subseteq 1 .. Len(rows)
      /\ c \in Reach /\ Len(rows) \in Nat
  BY AtCreate DEF ReadInv, SnapInv
<1>2. c \in 1 .. Len(commits) /\ commits[c].parent \in Reach /\ commits[c].parent \in 0 .. Len(commits)
  BY <1>1, ReachFacts DEF ReadInv, JobInv, JobOK, Nil
<1>3. /\ w \in Snapshots /\ ActsTyped(commits[c].acts) /\ Playable(w, commits[c].acts)
      /\ \A id \in w.has.objs : id \in Has(commits[c].parent)
  BY <1>2, SnapshotOK DEF ReadInv, SnapInv, Has
<1>4. acts = Actions(dels, adds, none, none)
  BY DEF Reverts, RevertPatch, PatchOfCommit
<1>5. "objs" \in Family
  BY DEF Family
<1>6. /\ IsInjective(commits[c].acts.del.objs)
      /\ ToSet(commits[c].acts.del.objs) \subseteq w.has.objs
  BY <1>3, <1>5 DEF Playable
<1>7. /\ patch.objs.dels \in Seq(Nat) /\ IsInjective(patch.objs.dels)
      /\ ToSet(patch.objs.dels) \subseteq w.has.objs
  <2> HIDE DEF c, w
  <2> QED
    BY <1>3, <1>5, <1>6, PlayNewPatch
<1> HIDE DEF patch, w, c, v
<1>8. /\ adds \in Seq(Nat) /\ IsInjective(adds)
      /\ ToSet(adds) \subseteq w.has.objs \ v.has.objs
  BY <1>7, AbsentIDs
<1>9. dels \in Seq(Nat) /\ IsInjective(dels) /\ ToSet(dels) \subseteq v.has.objs
  <2>1. patch.objs.diff \cap v.has.objs \in SUBSET (1 .. Len(rows))
    BY <1>1
  <2>2. /\ dels \in Seq(Nat) /\ IsInjective(dels)
        /\ ToSet(dels) = patch.objs.diff \cap v.has.objs
    BY <1>1, <2>1, SetToSeqOfFinite
  <2> QED
    BY <2>2
<1>10. /\ acts.del.objs = dels /\ acts.add.objs = adds /\ acts.del.vecs = none /\ acts.add.vecs = none
       /\ Adds(acts) = ToSet(adds) \cup ToSet(none)
  BY <1>4, ActionsParts
<1> HIDE DEF dels, adds, none
<1>11. /\ ToSet(acts.del.objs) \subseteq v.has.objs /\ ToSet(acts.add.objs) \cap v.has.objs = {}
       /\ ToSet(acts.del.vecs) \subseteq v.has.vecs /\ ToSet(acts.add.vecs) \cap v.has.vecs = {}
  BY <1>0, <1>8, <1>9, <1>10
<1>12. ActsTyped(acts) /\ Playable(v, acts)
  BY <1>0, <1>8, <1>9, <1>10, <1>11, PlayableActions
<1>13. \A id \in Adds(acts) : id \in Has(commits[c].parent)
  BY <1>0, <1>3, <1>8, <1>10
<1> QED
  BY <1>2, <1>12, <1>13 DEF Fits, Source, v

LEMMA Constructs ==
  ASSUME ReadInv, NEW p \in Workers, pc[p] = "create", NEW acts \in Constructed(job[p])
  PROVE Fits(p, acts)
<1>1. job[p].kind \in Building /\ job[p].kind # "Merge"
  BY AtCreate DEF Building
<1>2. CASE job[p].kind = "Load"
  <2>1. acts = Actions(<<>>, job[p].new, <<>>, <<>>)
    BY <1>2 DEF Constructed
  <2> QED
    BY <1>2, <2>1, LoadFits
<1>3. CASE job[p].kind \in {"Delete", "AddVectors", "DeleteVectors"}
  <2>1. \/ acts \in Deletes(Snapshot(job[p].parent), job[p].ids)
        \/ acts \in AddsVectors(Snapshot(job[p].parent), job[p].ids)
        \/ acts \in DeletesVectors(Snapshot(job[p].parent), job[p].ids)
    BY <1>3 DEF Constructed
  <2> QED
    BY <2>1, ListsFit
<1>4. CASE job[p].kind = "DeleteWhere"
  <2>1. acts \in Rewrites(Snapshot(job[p].parent), job[p].ids[1])
    BY <1>4 DEF Constructed
  <2> QED
    BY <1>4, <2>1, RewritesFit
<1>5. CASE job[p].kind = "Compact"
  <2>1. acts \in Compacts(Snapshot(job[p].parent), job[p].ids, job[p].new, job[p].vecs)
    BY <1>5 DEF Constructed
  <2> QED
    BY <1>5, <2>1, CompactsFit
<1>6. CASE job[p].kind = "Revert"
  <2>1. acts \in Reverts(Snapshot(job[p].parent), job[p].from)
    BY <1>6 DEF Constructed
  <2> QED
    BY <1>6, <2>1, RevertsFit
<1> QED
  BY <1>1, <1>2, <1>3, <1>4, <1>5, <1>6 DEF Building

LEMMA PlayResult ==
  ASSUME NEW v \in Snapshots, v.ok, NEW a, ActsTyped(a), Playable(v, a)
  PROVE /\ Play(v, a) \in Snapshots /\ Play(v, a).ok
        /\ Play(v, a).has.objs = (v.has.objs \ ToSet(a.del.objs)) \cup ToSet(a.add.objs)
        /\ Play(v, a).has.vecs = (v.has.vecs \ ToSet(a.del.vecs)) \cup ToSet(a.add.vecs)
<1> DEFINE h == [f \in Family |-> (v.has[f] \ ToSet(a.del[f])) \cup ToSet(a.add[f])]
<1>1. Play(v, a) = [ok |-> TRUE, has |-> h]
  BY DEF Play
<1>2. ASSUME NEW f \in Family PROVE (v.has[f] \ ToSet(a.del[f])) \cup ToSet(a.add[f]) \in SUBSET Nat
  <2>1. v.has[f] \in SUBSET Nat /\ a.add[f] \in Seq(Nat)
    BY DEF Snapshots, ActsTyped
  <2>2. ToSet(a.add[f]) \subseteq Nat
    BY <2>1 DEF ToSet
  <2> QED
    BY <2>1, <2>2
<1>3. h \in [Family -> SUBSET Nat]
  BY <1>2
<1>4. /\ h.objs = (v.has.objs \ ToSet(a.del.objs)) \cup ToSet(a.add.objs)
      /\ h.vecs = (v.has.vecs \ ToSet(a.del.vecs)) \cup ToSet(a.add.vecs)
  BY DEF Family
<1> HIDE DEF h
<1> QED
  BY <1>1, <1>3, <1>4 DEF Snapshots

LEMMA NewIsWritten == ASSUME SnapInv, JobInv, NEW p \in Workers PROVE NewOf(p) \subseteq 1 .. Len(rows)
<1>1. CASE job[p].kind \in {"Load", "Compact"}
  <2>1. PICK n \in 1 .. Len(rows) : job[p].new = <<n>>
    BY <1>1 DEF JobInv, JobOK
  <2> QED
    BY <2>1, ShortLists DEF NewOf
<1>2. CASE job[p].kind \notin {"Load", "Compact"}
  BY <1>2, ShortLists DEF NewOf, JobInv, JobOK
<1> QED
  BY <1>1, <1>2

(* The step in which worker p puts the commit object with actions acts. *)
Puts(p, acts) ==
    LET j == job[p]
        c == Len(commits) + 1
    IN /\ commits' = Append(commits, [parent |-> j.parent, acts |-> acts])
       /\ views' = Append(views, Play(Snapshot(j.parent), acts))
       /\ files' = files \cup {c}
       /\ IF j.kind = "DeleteWhere" /\ acts.add.objs # <<>>
          THEN WriteObject(Left(Snapshot(j.parent), j.ids[1]))
          ELSE UNCHANGED <<rows, data>>
       /\ Go(p, "update", [j EXCEPT !.made = c])
       /\ UNCHANGED <<tips, setting>>

LEMMA CreatePuts ==
  ASSUME NEW p \in Workers, Create(p), UNCHANGED setting
  PROVE pc[p] = "create" /\ \E acts \in Constructed(job[p]) : Puts(p, acts)
  BY DEF Create, Puts

(* A step that writes at most one data object. *)
RowsGrow == rows' = rows \/ \E r \in SUBSET Nat : rows' = Append(rows, r)

LEMMA RowsKept ==
  ASSUME rows \in Seq(SUBSET Nat), RowsGrow
  PROVE /\ rows' \in Seq(SUBSET Nat) /\ Len(rows) \in Nat /\ Len(rows') \in Len(rows) .. Len(rows) + 1
        /\ \A o \in 1 .. Len(rows) : rows'[o] = rows[o]
        /\ 1 .. Len(rows) \subseteq 1 .. Len(rows')
<1>1. CASE rows' = rows
  BY <1>1
<1>2. CASE \E r \in SUBSET Nat : rows' = Append(rows, r)
  BY <1>2
<1> QED
  BY <1>1, <1>2 DEF RowsGrow

LEMMA PutShape ==
  ASSUME ReadInv, NEW p \in Workers, pc[p] = "create", NEW acts \in Constructed(job[p]), Puts(p, acts)
  PROVE /\ Inv' /\ Len(commits) \in Nat /\ Len(commits') = Len(commits) + 1
        /\ views' \in Seq(Snapshots) /\ Len(views') = Len(commits')
        /\ \A d \in 0 .. Len(commits) : /\ Snapshot(d)' = Snapshot(d) /\ Has(d)' = Has(d)
                                        /\ Path'[d] = Path[d]
        /\ \A d \in 1 .. Len(commits) : commits'[d] = commits[d] /\ views'[d] = views[d]
        /\ commits'[Len(commits) + 1] = [parent |-> job[p].parent, acts |-> acts]
        /\ Path'[Len(commits) + 1] = {Len(commits) + 1} \cup Path[job[p].parent]
        /\ \A d : d = Len(commits) + 1 =>
             views'[d] = Play(Snapshot(job[p].parent), acts) /\ Snapshot(d)' = views'[d]
        /\ RowsGrow /\ rows \in Seq(SUBSET Nat)
        /\ pc' = [pc EXCEPT ![p] = "update"]
        /\ \A q \in Workers : q # p => pc'[q] = pc[q] /\ job'[q] = job[q]
        /\ pc'[p] = "update" /\ job'[p] = [job[p] EXCEPT !.made = Len(commits) + 1]
        /\ tips' = tips
<1> DEFINE c == Len(commits) + 1
           v == Snapshot(job[p].parent)
<1>1. Create(p) /\ UNCHANGED setting
  BY DEF Create, Puts
<1>2. Inv'
  BY <1>1, CreateStep DEF ReadInv, Inv
<1>3. job[p].parent \in 0 .. Len(commits) /\ Len(commits) \in Nat /\ TreeInv
  BY PathEquation DEF ReadInv, Inv, IInv, WorkInv, OnTip
<1>4. commits' = Append(commits, [parent |-> job[p].parent, acts |-> acts])
  BY DEF Puts
<1>5. /\ Len(commits') = c
      /\ \A d \in 1 .. Len(commits) : commits'[d] = commits[d]
      /\ \A d \in 0 .. Len(commits) : Path'[d] = Path[d]
      /\ Path'[c] = {c} \cup Path[job[p].parent]
  BY <1>3, <1>4, TreeGrows
<1>6. commits'[c] = [parent |-> job[p].parent, acts |-> acts]
  <2>1. PICK S : commits \in Seq(S)
    BY <1>3 DEF TreeInv, PathDefined
  <2> QED
    BY <1>4, <2>1
<1>7. v \in Snapshots /\ v.ok /\ ActsTyped(acts) /\ Playable(v, acts)
  BY AtCreate, Constructs DEF Fits
<1>8. Play(v, acts) \in Snapshots
  <2> HIDE DEF v
  <2> QED
    BY <1>7, PlayResult
<1>9. /\ views \in Seq(Snapshots) /\ Len(views) = Len(commits) /\ rows \in Seq(SUBSET Nat)
      /\ views' = Append(views, Play(v, acts))
  BY DEF ReadInv, SnapInv, Puts
<1>10. /\ views' \in Seq(Snapshots) /\ Len(views') = c
       /\ \A d \in 1 .. Len(commits) : views'[d] = views[d]
       /\ views'[c] = Play(v, acts)
  <2> HIDE DEF v
  <2> QED
    BY <1>8, <1>9
<1>11. ASSUME NEW d \in 0 .. Len(commits) PROVE Snapshot(d)' = Snapshot(d)
  <2>1. d = Nil \/ d \in 1 .. Len(commits)
    BY <1>3 DEF Nil
  <2> QED
    BY <1>10, <2>1 DEF Snapshot
<1>12. \A d : d = c => Snapshot(d)' = views'[d]
  BY <1>3 DEF Snapshot, Nil
<1>13. \A d \in 0 .. Len(commits) : Has(d)' = Has(d)
  BY <1>11 DEF Has
<1>14. RowsGrow
  <2>1. CASE job[p].kind = "DeleteWhere" /\ acts.add.objs # <<>>
    <3>1. rows' = Append(rows, Left(v, job[p].ids[1]))
      BY <2>1 DEF Puts, WriteObject
    <3>2. \A o \in v.has.objs : o \in 1 .. Len(rows)
      BY AtCreate
    <3>3. Left(v, job[p].ids[1]) \in SUBSET Nat
      <4> HIDE DEF v
      <4> QED
        BY <1>9, <3>2 DEF Left, RowsIn, Hit
    <3> QED
      BY <3>1, <3>3 DEF RowsGrow
  <2>2. CASE ~(job[p].kind = "DeleteWhere" /\ acts.add.objs # <<>>)
    BY <2>2 DEF Puts, RowsGrow
  <2> QED
    BY <2>1, <2>2
<1>15. /\ pc' = [pc EXCEPT ![p] = "update"]
       /\ \A q \in Workers : q # p => pc'[q] = pc[q] /\ job'[q] = job[q]
       /\ pc'[p] = "update" /\ job'[p] = [job[p] EXCEPT !.made = c]
       /\ tips' = tips
  <2>1. /\ pc' = [pc EXCEPT ![p] = "update"] /\ tips' = tips
        /\ job' = [job EXCEPT ![p] = [job[p] EXCEPT !.made = c]]
    BY DEF Puts, Go
  <2>2. DOMAIN pc = Workers /\ DOMAIN job = Workers
    BY DEF ReadInv, Inv, IInv, WorkInv
  <2> QED
    BY <2>1, <2>2
<1> HIDE DEF v
<1> QED
  BY <1>2, <1>3, <1>5, <1>6, <1>9, <1>10, <1>11, <1>12, <1>13, <1>14, <1>15 DEF v

LEMMA PutKeeps ==
  ASSUME ReadInv, NEW p \in Workers, pc[p] = "create", NEW acts \in Constructed(job[p]), Puts(p, acts)
  PROVE ReadInv'
<1> DEFINE N == Len(commits)
           c == N + 1
           par == job[p].parent
           v == Snapshot(par)
<1>1. /\ Inv' /\ N \in Nat /\ Len(commits') = c
      /\ views' \in Seq(Snapshots) /\ Len(views') = Len(commits')
      /\ \A d \in 1 .. N : commits'[d] = commits[d] /\ views'[d] = views[d]
      /\ commits'[c] = [parent |-> par, acts |-> acts]
      /\ views'[c] = Play(v, acts)
      /\ RowsGrow /\ rows \in Seq(SUBSET Nat)
      /\ \A q \in Workers : q # p => pc'[q] = pc[q] /\ job'[q] = job[q]
      /\ pc'[p] = "update" /\ job'[p] = [job[p] EXCEPT !.made = c]
      /\ tips' = tips
  BY PutShape
<1>2. \A d \in 0 .. N : Snapshot(d)' = Snapshot(d) /\ Has(d)' = Has(d) /\ Path'[d] = Path[d]
  BY PutShape
<1>3. \A d : d = c => Snapshot(d)' = views'[d]
  BY PutShape
<1>4. Fits(p, acts) /\ par \in Reach /\ v \in Snapshots /\ v.ok /\ Has(par) = v.has.objs \cup v.has.vecs
  BY Constructs, AtCreate
<1>5. /\ Play(v, acts) \in Snapshots /\ Play(v, acts).ok
      /\ Play(v, acts).has.objs \cup Play(v, acts).has.vecs \subseteq Has(par) \cup Adds(acts)
  BY <1>4, PlayResult DEF Fits, Adds
<1>6. /\ rows' \in Seq(SUBSET Nat) /\ Len(rows) \in Nat /\ 1 .. Len(rows) \subseteq 1 .. Len(rows')
  BY <1>1, RowsKept
<1>7. Reach \subseteq 0 .. N /\ par \in 0 .. N
  BY <1>4, ReachFacts DEF ReadInv
<1>8. \A d \in 0 .. N : Has(d) \subseteq 1 .. Len(rows)
  BY SnapshotOK DEF ReadInv
<1>9. \A q \in Workers : NewOf(q) \subseteq 1 .. Len(rows)
  BY NewIsWritten DEF ReadInv
<1>10. \A d : d = c => Has(d)' \subseteq Has(par) \cup Adds(acts)
  BY <1>1, <1>3, <1>5 DEF Has
<1>11. \A id \in Adds(acts) : id \in 1 .. Len(rows')
  <2> SUFFICES ASSUME NEW id \in Adds(acts) PROVE id \in 1 .. Len(rows')
    OBVIOUS
  <2>1. Source(p, acts, id)
    BY <1>4 DEF Fits
  <2>2. CASE job[p].kind = "DeleteWhere" /\ acts.add.objs # <<>> /\ id = NextObject
    <3>1. \E r : rows' = Append(rows, r)
      BY <2>2 DEF Puts, WriteObject
    <3> QED
      BY <1>1, <2>2, <3>1 DEF NextObject
  <2> QED
    BY <1>6, <1>7, <1>8, <1>9, <2>1, <2>2 DEF Source
<1> HIDE DEF v
<1>12. SnapInv'
  <2> SUFFICES ASSUME NEW d \in 1 .. Len(commits')
               PROVE /\ ActsTyped(commits'[d].acts)
                     /\ Playable(Snapshot(commits[d].parent), commits[d].acts)'
                     /\ views'[d] = Play(Snapshot(commits[d].parent), commits[d].acts)'
                     /\ views'[d].ok
                     /\ Has(d)' \subseteq 1 .. Len(rows')
    BY <1>1, <1>6 DEF SnapInv, ActsTyped
  <2>1. CASE d \in 1 .. N
    <3>1. /\ ActsTyped(commits[d].acts)
          /\ Playable(Snapshot(commits[d].parent), commits[d].acts)
          /\ views[d] = Play(Snapshot(commits[d].parent), commits[d].acts)
          /\ views[d].ok /\ Has(d) \subseteq 1 .. Len(rows)
      BY <2>1 DEF ReadInv, SnapInv
    <3>2. commits[d].parent \in 0 .. N
      BY <1>1, <2>1 DEF ReadInv, Inv, IInv, TreeInv, PathShape
    <3>3. Snapshot(commits[d].parent)' = Snapshot(commits[d].parent)
      <4>1. \A e : e = commits[d].parent => Snapshot(e)' = Snapshot(e)
        BY <1>2, <3>2
      <4>2. \A e : e = commits'[d].parent => Snapshot(e)' = Snapshot(commits[d].parent)
        BY <1>1, <2>1, <4>1
      <4> QED
        BY <4>2 DEF Snapshot
    <3> QED
      BY <1>1, <1>2, <1>6, <2>1, <3>1, <3>3 DEF Playable
  <2>2. CASE d = c
    <3>1. \A e : e = par => Snapshot(e)' = v
      BY <1>2, <1>7 DEF v
    <3>2. \A e : e = commits'[d].parent => Snapshot(e)' = v
      BY <1>1, <2>2, <3>1
    <3>3. Snapshot(commits[d].parent)' = v
      BY <3>2 DEF Snapshot
    <3>4. Has(d)' \subseteq 1 .. Len(rows')
      BY <1>6, <1>7, <1>8, <1>10, <1>11, <2>2
    <3>5. commits'[d].acts = acts
      BY <1>1, <2>2
    <3>6. ActsTyped(acts) /\ Playable(v, acts)
      BY <1>4 DEF Fits, v
    <3> QED
      BY <1>1, <1>5, <2>2, <3>3, <3>4, <3>5, <3>6 DEF Playable
  <2> QED
    BY <1>1, <2>1, <2>2
<1>13. \A q \in Workers : /\ job'[q].parent = job[q].parent /\ job'[q].from = job[q].from
                          /\ job'[q].new = job[q].new
  <2>1. DOMAIN job[p] = Fields
    BY DoneFields DEF ReadInv, Inv, IInv, WorkInv
  <2> QED
    BY <1>1, <2>1 DEF Fields
<1>14. JobInv'
  <2> SUFFICES ASSUME NEW q \in Workers PROVE JobOK(q)'
    BY DEF JobInv
  <2>1. JobOK(q)
    BY DEF ReadInv, JobInv
  <2>2. setting' = setting /\ 0 .. N \subseteq 0 .. Len(commits')
    BY <1>1 DEF Puts
  <2>3. CASE q # p
    BY <1>1, <1>6, <2>1, <2>2, <2>3 DEF JobOK
  <2>4. CASE q = p
    <3>1. DOMAIN job[p] = Fields
      BY DoneFields DEF ReadInv, Inv, IInv, WorkInv
    <3>2. /\ job'[p].kind = job[p].kind /\ job'[p].from = job[p].from
          /\ job'[p].parent = job[p].parent /\ job'[p].ids = job[p].ids
          /\ job'[p].new = job[p].new /\ job'[p].vecs = job[p].vecs
      BY <1>1, <3>1 DEF Fields
    <3> QED
      BY <1>1, <1>6, <2>1, <2>2, <2>4, <3>2 DEF JobOK
  <2> QED
    BY <2>3, <2>4
<1>15. \A q \in Workers : NewOf(q)' = NewOf(q)
  BY <1>13 DEF NewOf
<1>16. Reach' \subseteq Reach
  <2>1. \A d \in Reach : Path'[d] \subseteq Reach
    BY <1>2, <1>7, ReachFacts DEF ReadInv
  <2>2. \A b \in Names : Exists(b)' => tips'[b] \in Reach
    BY <1>1, ReachFacts DEF ReadInv, Exists
  <2>3. \A q \in Workers : job'[q].parent \in Reach /\ job'[q].from \in Reach
    BY <1>13, ReachFacts DEF ReadInv
  <2>4. Nil \in Reach
    BY ReachFacts DEF ReadInv
  <2> QED
    BY <2>1, <2>2, <2>3, <2>4, ReachNext
<1>17. FreshInv'
  <2> SUFFICES ASSUME NEW q \in Workers
               PROVE /\ \A d \in Reach' : NewOf(q)' \cap Has(d)' = {}
                     /\ \A r \in Workers : r # q =>
                          /\ NewOf(q)' \cap NewOf(r)' = {}
                          /\ pc'[r] = "update" => NewOf(q)' \cap Has(job[r].made)' = {}
    BY DEF FreshInv
  <2>1. \A d \in Reach' : NewOf(q)' \cap Has(d)' = {}
    BY <1>2, <1>7, <1>15, <1>16 DEF ReadInv, FreshInv
  <2>2. ASSUME NEW r \in Workers, r # q, pc'[r] = "update" PROVE NewOf(q)' \cap Has(job[r].made)' = {}
    <3>1. CASE r # p
      <4>1. /\ pc[r] = "update" /\ job'[r] = job[r] /\ job[r].made \in 0 .. N
            /\ NewOf(q) \cap Has(job[r].made) = {}
        BY <1>1, <2>2, <3>1 DEF ReadInv, FreshInv, Inv, IInv, OwnInv
      <4>2. \A e : e = job'[r].made => Has(e)' = Has(job[r].made)
        BY <1>2, <4>1
      <4>3. Has(job[r].made)' = Has(job[r].made)
        BY <4>2 DEF Has, Snapshot
      <4> QED
        BY <1>15, <4>1, <4>3
    <3>2. CASE r = p
      <4>1. NewOf(q) \cap Has(par) = {} /\ NewOf(q) \cap NewOf(p) = {}
        BY <1>4, <2>2, <3>2 DEF ReadInv, FreshInv
      <4>2. \A id \in Adds(acts) : id \notin NewOf(q)
        <5> SUFFICES ASSUME NEW id \in Adds(acts), id \in NewOf(q) PROVE FALSE
          OBVIOUS
        <5>1. Source(p, acts, id)
          BY <1>4 DEF Fits
        <5>2. id # NextObject
          BY <1>6, <1>9 DEF NextObject
        <5> QED
          BY <4>1, <5>1, <5>2 DEF Source, ReadInv, FreshInv
      <4>3. job'[p].made = c
        BY <1>1 DEF ReadInv, Inv, IInv, WorkInv, Done
      <4>4. \A e : e = job'[r].made => Has(e)' \subseteq Has(par) \cup Adds(acts)
        BY <1>10, <3>2, <4>3
      <4>5. Has(job[r].made)' \subseteq Has(par) \cup Adds(acts)
        BY <4>4 DEF Has, Snapshot
      <4> QED
        BY <1>15, <4>1, <4>2, <4>5
    <3> QED
      BY <3>1, <3>2
  <2>3. \A r \in Workers : r # q => NewOf(q)' \cap NewOf(r)' = {}
    BY <1>15 DEF ReadInv, FreshInv
  <2> QED
    BY <2>1, <2>2, <2>3
<1> QED
  BY <1>1, <1>12, <1>14, <1>17 DEF ReadInv

(* A step that puts no commit object: worker p, or none, moves, and no     *)
(* branch or operation turns to a commit that is on no branch and worked   *)
(* on by nobody, except that p may make its own a tip and return.          *)
Quiet(p) ==
    /\ UNCHANGED <<commits, views, setting>> /\ RowsGrow
    /\ \A q \in Workers :
         \/ pc'[q] = pc[q] /\ job'[q] = job[q]
         \/ /\ q = p /\ JobOK(p)' /\ pc'[p] # "update"
            /\ NewOf(p)' \subseteq NewOf(p) \cup {NextObject}
    /\ \A c \in Reach' :
         \/ c \in Reach
         \/ p \in Workers /\ pc[p] = "update" /\ c = job[p].made /\ NewOf(p)' = {}

LEMMA QuietKeeps ==
  ASSUME ReadInv, Inv', NEW p, Quiet(p)
  PROVE ReadInv'
<1>1. /\ Len(commits) \in Nat /\ Reach \subseteq 0 .. Len(commits)
      /\ Path' = Path
  BY ReachFacts, PathEquation, TreeSame DEF ReadInv, Inv, IInv, Quiet
<1>2. \A c : Snapshot(c)' = Snapshot(c)
  BY DEF Quiet, Snapshot
<1>3. \A c : Has(c)' = Has(c)
  BY <1>2 DEF Has
<1>4. rows \in Seq(SUBSET Nat) /\ RowsGrow
  BY DEF ReadInv, SnapInv, Quiet
<1>5. rows' \in Seq(SUBSET Nat) /\ Len(rows) \in Nat /\ 1 .. Len(rows) \subseteq 1 .. Len(rows')
  BY <1>4, RowsKept
<1>6. SnapInv'
  <2> SUFFICES ASSUME NEW c \in 1 .. Len(commits)
               PROVE /\ ActsTyped(commits[c].acts)
                     /\ Playable(Snapshot(commits[c].parent), commits[c].acts)'
                     /\ views[c] = Play(Snapshot(commits[c].parent), commits[c].acts)'
                     /\ views[c].ok
                     /\ Has(c)' \subseteq 1 .. Len(rows')
    BY <1>5 DEF SnapInv, ActsTyped, Quiet, ReadInv
  <2>1. /\ ActsTyped(commits[c].acts)
        /\ Playable(Snapshot(commits[c].parent), commits[c].acts)
        /\ views[c] = Play(Snapshot(commits[c].parent), commits[c].acts)
        /\ views[c].ok /\ Has(c) \subseteq 1 .. Len(rows)
    BY DEF ReadInv, SnapInv
  <2>2. commits' = commits /\ Snapshot(commits[c].parent)' = Snapshot(commits[c].parent)
    BY DEF Quiet, Snapshot
  <2>3. Has(c)' \subseteq 1 .. Len(rows')
    BY <1>3, <1>5, <2>1
  <2> QED
    BY <2>1, <2>2, <2>3 DEF Playable
<1>7. JobInv'
  <2> SUFFICES ASSUME NEW q \in Workers, pc'[q] = pc[q], job'[q] = job[q] PROVE JobOK(q)'
    BY DEF JobInv, Quiet
  <2>1. JobOK(q) /\ commits' = commits /\ setting' = setting
    BY DEF ReadInv, JobInv, Quiet
  <2> QED
    BY <1>5, <2>1 DEF JobOK
<1>8. \A q \in Workers : NewOf(q) \subseteq 1 .. Len(rows)
  BY NewIsWritten DEF ReadInv
<1>9. \A q \in Workers : pc[q] = "update" => job[q].made \in 0 .. Len(commits)
  BY <1>1 DEF ReadInv, Inv, IInv, OwnInv
<1>10. \A c \in 0 .. Len(commits) : NextObject \notin Has(c)
  BY <1>5, SnapshotOK DEF ReadInv, NextObject
<1>11. \A q \in Workers : NextObject \notin NewOf(q)
  BY <1>5, <1>8 DEF NextObject
<1>12. ASSUME NEW q \in Workers
       PROVE \/ NewOf(q)' = NewOf(q)
             \/ q = p /\ NewOf(p)' \subseteq NewOf(p) \cup {NextObject}
  BY DEF Quiet, NewOf
<1>13. FreshInv'
  <2> SUFFICES ASSUME NEW q \in Workers
               PROVE /\ \A d \in Reach' : NewOf(q)' \cap Has(d) = {}
                     /\ \A r \in Workers : r # q =>
                          /\ NewOf(q)' \cap NewOf(r)' = {}
                          /\ pc'[r] = "update" => NewOf(q)' \cap Has(job'[r].made) = {}
    <3>1. \A r \in Workers : Has(job[r].made)' = Has(job'[r].made)
      BY <1>3 DEF Has, Snapshot, Quiet
    <3> QED
      BY <1>3, <3>1 DEF FreshInv
  <2>1. ASSUME NEW d \in Reach' PROVE NewOf(q)' \cap Has(d) = {}
    <3>1. CASE d \in Reach
      BY <1>1, <1>10, <1>12, <3>1 DEF ReadInv, FreshInv
    <3>2. CASE p \in Workers /\ pc[p] = "update" /\ d = job[p].made /\ NewOf(p)' = {}
      <4>1. q = p => NewOf(q)' = {}
        BY <3>2
      <4>2. q # p => NewOf(q)' = NewOf(q) /\ NewOf(q) \cap Has(d) = {}
        BY <1>12, <3>2 DEF ReadInv, FreshInv
      <4> QED
        BY <4>1, <4>2
    <3> QED
      BY <3>1, <3>2 DEF Quiet
  <2>2. ASSUME NEW r \in Workers, r # q PROVE NewOf(q)' \cap NewOf(r)' = {}
    <3>1. NewOf(q) \cap NewOf(r) = {}
      BY <2>2 DEF ReadInv, FreshInv
    <3> QED
      BY <1>11, <1>12, <2>2, <3>1
  <2>3. ASSUME NEW r \in Workers, r # q, pc'[r] = "update"
        PROVE NewOf(q)' \cap Has(job'[r].made) = {}
    <3>1. pc[r] = "update" /\ job'[r] = job[r]
      BY <2>3 DEF Quiet
    <3>2. NewOf(q) \cap Has(job[r].made) = {} /\ NextObject \notin Has(job[r].made)
      BY <1>9, <1>10, <2>3, <3>1 DEF ReadInv, FreshInv
    <3> QED
      BY <1>12, <3>1, <3>2
  <2> QED
    BY <2>1, <2>2, <2>3
<1> QED
  BY <1>6, <1>7, <1>13 DEF ReadInv

(* Worker p goes to w with locals j; the others stay where they are. *)
LEMMA OthersStay ==
  ASSUME WorkInv, NEW p \in Workers, NEW w, NEW j, Go(p, w, j)
  PROVE /\ pc'[p] = w /\ job'[p] = j
        /\ \A q \in Workers : q # p => pc'[q] = pc[q] /\ job'[q] = job[q]
  BY DEF WorkInv, Go

LEMMA GoIsQuiet ==
  ASSUME ReadInv, NEW p \in Workers, NEW w, NEW j, Go(p, w, j), w # "update",
         UNCHANGED <<commits, views, setting>>, RowsGrow,
         JobOK(p)', j.parent \in Reach, j.from \in Reach,
         ToSet(j.new) \subseteq NewOf(p) \cup {NextObject},
         \A b \in Names : Exists(b)' =>
            \/ tips'[b] \in Reach
            \/ pc[p] = "update" /\ tips'[b] = job[p].made /\ j = Done
  PROVE Quiet(p)
<1>1. /\ pc'[p] = w /\ job'[p] = j
      /\ \A q \in Workers : q # p => pc'[q] = pc[q] /\ job'[q] = job[q]
  BY OthersStay DEF ReadInv, Inv, IInv
<1>2. NewOf(p)' = ToSet(j.new)
  BY <1>1 DEF NewOf
<1> DEFINE own == IF pc[p] = "update" /\ j = Done THEN {job[p].made} ELSE {}
<1>3. Path' = Path /\ Nil \in Reach
  BY TreeSame, ReachFacts DEF ReadInv, Inv, IInv
<1>4. \A c \in Reach \cup own : Path'[c] \subseteq Reach \cup own
  <2>1. \A c \in Reach : Path[c] \subseteq Reach
    BY ReachFacts DEF ReadInv
  <2>2. pc[p] = "update" => /\ job[p].made \in 1 .. Len(commits)
                            /\ commits[job[p].made].parent = job[p].parent
                            /\ job[p].parent \in Reach
    BY ReachFacts DEF ReadInv, Inv, IInv, OwnInv
  <2>3. pc[p] = "update" => Path[job[p].made] = {job[p].made} \cup Path[job[p].parent]
    BY <2>2, PathEquation DEF ReadInv, Inv, IInv
  <2> QED
    BY <1>3, <2>1, <2>2, <2>3
<1>5. \A b \in Names : Exists(b)' => tips'[b] \in Reach \cup own
  OBVIOUS
<1>6. \A q \in Workers : job'[q].parent \in Reach \cup own /\ job'[q].from \in Reach \cup own
  BY <1>1, ReachFacts DEF ReadInv
<1> DEFINE S == Reach \cup own
<1>7. Nil \in S /\ \A c \in S : Path'[c] \subseteq S
  BY <1>3, <1>4
<1>8. Reach' \subseteq S
  <2>1. /\ \A b \in Names : Exists(b)' => tips'[b] \in S
        /\ \A q \in Workers : job'[q].parent \in S /\ job'[q].from \in S
    BY <1>5, <1>6
  <2> HIDE DEF S
  <2> QED
    BY <1>7, <2>1, ReachNext
<1>9. j = Done => NewOf(p)' = {}
  BY <1>2, ShortLists DEF Done
<1> QED
  BY <1>1, <1>2, <1>8, <1>9 DEF Quiet

LEMMA ReturnIsQuiet ==
  ASSUME ReadInv, NEW p \in Workers, Return(p), UNCHANGED <<commits, views, rows, setting>>,
         \A b \in Names : Exists(b)' =>
            \/ Exists(b) /\ tips'[b] = tips[b]
            \/ pc[p] = "update" /\ tips'[b] = job[p].made
  PROVE Quiet(p)
<1>1. pc'[p] = "idle" /\ job'[p] = Done
  BY OthersStay DEF ReadInv, Inv, IInv, Return
<1>2. Len(commits) \in Nat
  BY PathEquation DEF ReadInv, Inv, IInv
<1>3. JobOK(p)'
  BY <1>1, <1>2, ShortLists DEF JobOK, Done, Nil
<1>4. Nil \in Reach /\ \A b \in Names : Exists(b) => tips[b] \in Reach
  BY ReachFacts DEF ReadInv
<1>5. RowsGrow
  BY DEF RowsGrow
<1>6. Done.parent = Nil /\ Done.from = Nil /\ ToSet(Done.new) = {} /\ Go(p, "idle", Done)
  BY ShortLists DEF Done, Return
<1> QED
  BY <1>3, <1>4, <1>5, <1>6, GoIsQuiet

(* A worker calls an operation. *)
LEMMA BeginIsQuiet ==
  ASSUME ReadInv, NEW p \in Workers, UNCHANGED setting, RowsGrow,
         NEW kind, NEW b, NEW ids, NEW from \in Reach, NEW new, NEW vecs,
         Begin(p, kind, b, ids, from, new, vecs),
         kind \in Building \cup {"RemoveBranch", "Vacuum"},
         kind # "Vacuum" => ids \in Seq(Nat) /\ IsInjective(ids),
         kind = "Revert" => from # Nil,
         kind \in {"Load", "Compact"} => new = <<NextObject>> /\ NextObject \in 1 .. Len(rows'),
         kind \notin {"Load", "Compact"} => new = <<>>,
         vecs \in {<<>>, new}
  PROVE Quiet(p)
<1> DEFINE w == IF kind = "Vacuum" THEN "vacuum" ELSE "lookup"
           j == [Done EXCEPT !.kind = kind, !.branch = b, !.ids = ids,
                             !.from = from, !.new = new, !.vecs = vecs]
<1>1. /\ Go(p, w, j) /\ UNCHANGED <<commits, views, tips>> /\ kind \in setting.kinds
  BY DEF Begin, Go
<1>2. /\ j.kind = kind /\ j.branch = b /\ j.ids = ids /\ j.from = from /\ j.new = new
      /\ j.vecs = vecs /\ j.parent = Nil
  BY DEF Done
<1>3. /\ w \in {"vacuum", "lookup"} /\ (w = "lookup" => kind \in Building \cup {"RemoveBranch"})
      /\ w = "vacuum" => kind = "Vacuum"
  OBVIOUS
<1> HIDE DEF w, j
<1>4. pc'[p] = w /\ job'[p] = j
  BY <1>1, OthersStay DEF ReadInv, Inv, IInv
<1>5. Len(commits) \in Nat /\ Reach \subseteq 0 .. Len(commits) /\ Nil \in Reach
      /\ \A n \in Names : Exists(n) => tips[n] \in Reach
  BY PathEquation, ReachFacts DEF ReadInv, Inv, IInv
<1>6. JobOK(p)'
  BY <1>1, <1>2, <1>3, <1>4, <1>5 DEF JobOK, Nil
<1>7. ToSet(j.new) \subseteq {NextObject}
  BY <1>2, ShortLists DEF ToSet
<1>8. \A n \in Names : Exists(n)' => tips'[n] \in Reach
  BY <1>1, <1>5 DEF Exists
<1> QED
  BY <1>1, <1>2, <1>3, <1>5, <1>6, <1>7, <1>8, GoIsQuiet

LEMMA WritesOne ==
  ASSUME rows \in Seq(SUBSET Nat), NEW r \in SUBSET Nat, WriteObject(r)
  PROVE RowsGrow /\ rows' = Append(rows, r) /\ NextObject \in 1 .. Len(rows')
<1>1. rows' = Append(rows, r)
  BY DEF WriteObject
<1> QED
  BY <1>1 DEF RowsGrow, NextObject

LEMMA ListedIDs ==
  ASSUME rows \in Seq(SUBSET Nat), NEW ids \in IDLists
  PROVE ids \in Seq(Nat) /\ ToSet(ids) \subseteq 1 .. Len(rows)
<1>1. DOMAIN rows = 1 .. Len(rows) /\ Len(rows) \in Nat
  OBVIOUS
<1>2. (\E o \in 1 .. Len(rows) : ids = <<o>>) \/ (\E o, q \in 1 .. Len(rows) : ids = <<o, q>>)
  BY <1>1 DEF IDLists
<1> QED
  <2>1. ASSUME NEW o \in 1 .. Len(rows), ids = <<o>>
        PROVE ids \in Seq(Nat) /\ ToSet(ids) \subseteq 1 .. Len(rows)
    BY <2>1, ShortLists
  <2>2. ASSUME NEW o \in 1 .. Len(rows), NEW q \in 1 .. Len(rows), ids = <<o, q>>
        PROVE ids \in Seq(Nat) /\ ToSet(ids) \subseteq 1 .. Len(rows)
    <3>1. ids \in Seq(Nat) /\ DOMAIN ids = {1, 2} /\ ids[1] = o /\ ids[2] = q
      BY <2>2
    <3> QED
      BY <3>1 DEF ToSet
  <2> QED
    BY <1>2, <2>1, <2>2

LEMMA StartIsQuiet ==
  ASSUME ReadInv, NoMerges, UNCHANGED setting, NEW p \in Workers, Start(p)
  PROVE Quiet(p)
<1> DEFINE none == <<>>
<1>1. /\ rows \in Seq(SUBSET Nat) /\ Len(rows) \in Nat /\ Nil \in Reach
      /\ Known \subseteq Reach /\ Nil \notin Known
      /\ none \in Seq(Nat) /\ IsInjective(none)
  BY ReachFacts, ShortLists DEF ReadInv, SnapInv
<1>2. CASE Load(p)
  <2>1. PICK b \in Names : Begin(p, "Load", b, none, Nil, <<NextObject>>, none)
    BY <1>2 DEF Load
  <2>2. RowsGrow /\ NextObject \in 1 .. Len(rows')
    <3>1. WriteObject({NextObject}) /\ {NextObject} \in SUBSET Nat
      BY <1>1, <1>2 DEF Load, NextObject
    <3> QED
      BY <1>1, <3>1, WritesOne
  <2> QED
    BY <1>1, <2>1, <2>2, BeginIsQuiet DEF Building
<1>3. CASE DeleteOrVectors(p)
  <2>1. PICK kind \in {"Delete", "AddVectors", "DeleteVectors"}, b \in Names, ids \in IDLists :
          /\ Repeats \/ IsInjective(ids)
          /\ Begin(p, kind, b, ids, Nil, none, none) /\ UNCHANGED rows
    BY <1>3 DEF DeleteOrVectors
  <2>2. ids \in Seq(Nat) /\ IsInjective(ids) /\ RowsGrow
    BY <1>1, <2>1, ListedIDs DEF NoMerges, RowsGrow
  <2> QED
    BY <1>1, <2>1, <2>2, BeginIsQuiet DEF Building
<1>4. CASE DeleteWhere(p)
  <2>1. PICK b \in Names, r \in DOMAIN rows :
          Begin(p, "DeleteWhere", b, <<r>>, Nil, none, none) /\ UNCHANGED rows
    BY <1>4 DEF DeleteWhere
  <2>2. <<r>> \in Seq(Nat) /\ IsInjective(<<r>>) /\ RowsGrow
    BY <1>1, <2>1, ShortLists DEF RowsGrow
  <2> QED
    BY <1>1, <2>1, <2>2, BeginIsQuiet DEF Building
<1>5. CASE Revert(p)
  <2>1. PICK b \in Names, c \in Known :
          Begin(p, "Revert", b, none, c, none, none) /\ UNCHANGED rows
    BY <1>5 DEF Revert
  <2>2. c \in Reach /\ c # Nil /\ RowsGrow
    BY <1>1, <2>1 DEF RowsGrow
  <2> QED
    BY <1>1, <2>1, <2>2, BeginIsQuiet DEF Building
<1>6. CASE Merge(p)
  BY <1>6 DEF Merge, Begin, NoMerges
<1>7. CASE Compact(p)
  <2>0. PICK b \in Names :
          /\ Exists(b)
          /\ \E src \in SUBSET (Objs(tips[b]) \cap data), writeVectors \in BOOLEAN :
               /\ Begin(p, "Compact", b, SetToSeq(src), Nil, <<NextObject>>,
                        IF writeVectors THEN <<NextObject>> ELSE <<>>)
               /\ WriteObject(RowsIn(src))
    BY <1>7 DEF Compact
  <2>1. PICK src \in SUBSET (Objs(tips[b]) \cap data), writeVectors \in BOOLEAN :
          /\ Begin(p, "Compact", b, SetToSeq(src), Nil, <<NextObject>>,
                   IF writeVectors THEN <<NextObject>> ELSE <<>>)
          /\ WriteObject(RowsIn(src))
    BY <2>0
  <2>2. tips[b] \in 0 .. Len(commits)
    BY <2>0, ReachFacts DEF ReadInv
  <2>3. src \in SUBSET (1 .. Len(rows))
    BY <2>2, SnapshotOK DEF ReadInv, Objs
  <2>4. SetToSeq(src) \in Seq(Nat) /\ IsInjective(SetToSeq(src))
    BY <1>1, <2>3, SetToSeqOfFinite
  <2>5. RowsIn(src) \in SUBSET Nat
    BY <1>1, <2>3 DEF RowsIn
  <2>6. RowsGrow /\ NextObject \in 1 .. Len(rows')
    BY <1>1, <2>1, <2>5, WritesOne
  <2> QED
    BY <1>1, <2>1, <2>4, <2>6, BeginIsQuiet DEF Building
<1>8. CASE Vacuum(p)
  <2>1. PICK leaf \in Known :
          Begin(p, "Vacuum", NoBranch, SetToSeq(Vacuumable(leaf)), leaf, none, none) /\ UNCHANGED rows
    BY <1>8 DEF Vacuum
  <2>2. leaf \in Reach /\ RowsGrow
    BY <1>1, <2>1 DEF RowsGrow
  <2> QED
    BY <1>1, <2>1, <2>2, BeginIsQuiet DEF Building
<1>9. CASE RemoveBranch(p)
  <2>1. PICK b \in Names : Begin(p, "RemoveBranch", b, none, Nil, none, none) /\ UNCHANGED rows
    BY <1>9 DEF RemoveBranch
  <2>2. RowsGrow
    BY <2>1 DEF RowsGrow
  <2> QED
    BY <1>1, <2>1, <2>2, BeginIsQuiet DEF Building
<1> QED
  BY <1>2, <1>3, <1>4, <1>5, <1>6, <1>7, <1>8, <1>9 DEF Start

(* A worker that goes on with some of its locals changed. *)
LEMMA ChangeIsQuiet ==
  ASSUME ReadInv, NEW p \in Workers, NEW w, NEW j, Go(p, w, j), w # "update",
         UNCHANGED <<commits, views, rows, tips, setting>>,
         j.kind = job[p].kind, j.from = job[p].from, j.new = job[p].new, j.vecs = job[p].vecs,
         j.kind # "Vacuum" => j.ids = job[p].ids,
         j.parent \in Reach, w = "create" => j.kind \in Building,
         w = "lookup" => j.kind \in Building \cup {"RemoveBranch"},
         w = "vacuum" => j.kind = "Vacuum"
  PROVE Quiet(p)
<1>1. pc'[p] = w /\ job'[p] = j
  BY OthersStay DEF ReadInv, Inv, IInv
<1>2. Reach \subseteq 0 .. Len(commits) /\ j.from \in Reach /\ \A b \in Names : Exists(b) => tips[b] \in Reach
  BY ReachFacts DEF ReadInv
<1>3. JobOK(p)'
  BY <1>1, <1>2 DEF JobOK, ReadInv, JobInv
<1>4. ToSet(j.new) \subseteq NewOf(p) /\ RowsGrow
  BY DEF NewOf, RowsGrow
<1>5. \A b \in Names : Exists(b)' => tips'[b] \in Reach
  BY <1>2 DEF Exists
<1> QED
  BY <1>2, <1>3, <1>4, <1>5, GoIsQuiet

LEMMA UpdatesOne ==
  ASSUME ReadInv, NEW p \in Workers, Update(p) \/ LostReply(p)
  PROVE /\ pc[p] = "update"
        /\ \A b \in Names : Exists(b)' =>
             \/ Exists(b) /\ tips'[b] = tips[b]
             \/ pc[p] = "update" /\ tips'[b] = job[p].made
<1>1. /\ pc[p] = "update" /\ KV!CheckOK(tips, UpdateOp(p))
      /\ tips' = KV!Apply(tips, UpdateOp(p))
  BY DEF Update, LostReply
<1>2. tips' = [tips EXCEPT ![job[p].branch] = job[p].made]
  BY <1>1, UpdateOfTip DEF ReadInv, Inv
<1> QED
  BY <1>1, <1>2 DEF Exists, ReadInv, Inv, IInv, WorkInv

LEMMA StepIsQuiet ==
  ASSUME ReadInv, UNCHANGED setting, NEW p \in Workers, Step(p), ~Create(p)
  PROVE Quiet(p)
<1> DEFINE j == job[p]
<1>0. /\ DOMAIN j = Fields /\ JobOK(p) /\ Nil \in Reach
      /\ \A b \in Names : Exists(b) => tips[b] \in Reach
      /\ pc[p] \in OnBranch => j.branch \in Names
      /\ j.parent \in Reach
  BY DoneFields, ReachFacts DEF ReadInv, Inv, IInv, WorkInv, JobInv
<1>1. CASE Lookup(p)
  <2>1. CASE Exists(j.branch)
    <3> DEFINE w == IF j.kind = "RemoveBranch" THEN "remove" ELSE "create"
               k == [j EXCEPT !.parent = tips[j.branch]]
    <3>1. pc[p] = "lookup" /\ Go(p, w, k) /\ UNCHANGED <<commits, views, rows, tips>>
      BY <1>1, <2>1 DEF Lookup
    <3>2. /\ k.kind = j.kind /\ k.from = j.from /\ k.new = j.new /\ k.vecs = j.vecs /\ k.ids = j.ids
          /\ k.parent = tips[j.branch]
      BY <1>0 DEF Fields
    <3>3. w \in {"create", "remove"} /\ (w = "create" => j.kind \in Building)
      BY <1>0, <3>1 DEF JobOK
    <3>4. tips[j.branch] \in Reach
      BY <1>0, <2>1, <3>1 DEF OnBranch
    <3> HIDE DEF w, k
    <3> QED
      BY <3>1, <3>2, <3>3, <3>4, ChangeIsQuiet
  <2>2. CASE ~Exists(j.branch)
    BY <1>1, <2>2, ReturnIsQuiet DEF Lookup, Fail, Exists
  <2> QED
    BY <2>1, <2>2
<1>2. CASE CreateFails(p)
  BY <1>2, ReturnIsQuiet DEF CreateFails, Fail, Exists
<1>3. CASE Update(p)
  BY <1>3, UpdatesOne, ReturnIsQuiet DEF Update
<1>4. CASE Conflict(p)
  <2>1. CASE j.retries + 1 < MaxRetries
    <3> DEFINE k == [j EXCEPT !.parent = Nil, !.made = Nil, !.retries = @ + 1]
    <3>1. pc[p] = "update" /\ Go(p, "lookup", k) /\ UNCHANGED <<commits, views, rows, tips>>
      BY <1>4, <2>1 DEF Conflict
    <3>2. /\ k.kind = j.kind /\ k.from = j.from /\ k.new = j.new /\ k.vecs = j.vecs /\ k.ids = j.ids
          /\ k.parent = Nil
      BY <1>0 DEF Fields
    <3>3. j.kind \in Building
      BY <1>0, <3>1 DEF JobOK
    <3> HIDE DEF k
    <3> QED
      BY <1>0, <3>1, <3>2, <3>3, ChangeIsQuiet
  <2>2. CASE ~(j.retries + 1 < MaxRetries)
    BY <1>4, <2>2, ReturnIsQuiet DEF Conflict, Fail, Exists
  <2> QED
    BY <2>1, <2>2
<1>5. CASE UpdateFails(p)
  BY <1>5, ReturnIsQuiet DEF UpdateFails, Fail, Exists
<1>6. CASE DeleteBranch(p)
  <2>1. \A b \in Names : Exists(b)' => Exists(b) /\ tips'[b] = tips[b]
    <3>1. KV!Apply(tips, BranchOp("Delete", j.branch, Nil, j.parent))
            = [tips EXCEPT ![j.branch] = NoBranch]
      BY <1>0, <1>6 DEF DeleteBranch, KV!Apply, KV!Touches, KV!Written, BranchOp, ReadInv, Inv,
                        IInv, WorkInv, OnBranch
    <3> QED
      BY <1>6, <3>1 DEF DeleteBranch, Exists, ReadInv, Inv, IInv, WorkInv
  <2> QED
    BY <1>6, <2>1, ReturnIsQuiet DEF DeleteBranch
<1>7. CASE VacuumObject(p)
  <2>1. CASE j.ids = <<>>
    BY <1>7, <2>1, ReturnIsQuiet DEF VacuumObject, Exists
  <2>2. CASE j.ids # <<>>
    <3> DEFINE k == [j EXCEPT !.ids = Tail(@)]
    <3>1. pc[p] = "vacuum" /\ Go(p, "vacuum", k) /\ UNCHANGED <<commits, views, rows, tips>>
      BY <1>7, <2>2 DEF VacuumObject
    <3>2. /\ k.kind = j.kind /\ k.from = j.from /\ k.new = j.new /\ k.vecs = j.vecs
          /\ k.parent = j.parent
      BY <1>0 DEF Fields
    <3>3. j.kind = "Vacuum"
      BY <1>0, <3>1 DEF JobOK
    <3> HIDE DEF k
    <3> QED
      BY <1>0, <3>1, <3>2, <3>3, ChangeIsQuiet
  <2> QED
    BY <2>1, <2>2
<1> QED
  BY <1>1, <1>2, <1>3, <1>4, <1>5, <1>6, <1>7 DEF Step

LEMMA FaultIsQuiet ==
  ASSUME ReadInv, UNCHANGED setting, NEW p \in Workers, StorageError(p) \/ LostReply(p) \/ Crash(p)
  PROVE Quiet(p)
<1>1. CASE StorageError(p)
  BY <1>1, ReturnIsQuiet DEF StorageError, Fail, Exists
<1>2. CASE LostReply(p)
  BY <1>2, UpdatesOne, ReturnIsQuiet DEF LostReply, Fail
<1>3. CASE Crash(p)
  BY <1>3, ReturnIsQuiet DEF Crash, Exists
<1> QED
  BY <1>1, <1>2, <1>3

LEMMA CreateBranchIsQuiet ==
  ASSUME ReadInv, UNCHANGED setting, CreateBranch, NEW p
  PROVE Quiet(p) /\ Reach' \subseteq Reach
<1>1. PICK b \in setting.names, c \in Known \cup {Nil} :
        /\ tips' = KV!Apply(tips, BranchOp("Insert", b, c, NoBranch))
        /\ UNCHANGED <<commits, views, files, rows, data, pc, job>>
  BY DEF CreateBranch
<1>2. b \in Names
  BY SettingsAssumption DEF ReadInv, Inv
<1>3. tips' = [tips EXCEPT ![b] = c]
  BY <1>1, <1>2 DEF KV!Apply, KV!Touches, KV!Written, BranchOp, ReadInv, Inv, IInv, WorkInv
<1>4. /\ Nil \in Reach /\ Known \subseteq Reach /\ \A d \in Reach : Path[d] \subseteq Reach
      /\ \A n \in Names : Exists(n) => tips[n] \in Reach
      /\ \A q \in Workers : job[q].parent \in Reach /\ job[q].from \in Reach
  BY ReachFacts DEF ReadInv
<1>5. \A n \in Names : Exists(n)' => tips'[n] \in Reach
  BY <1>3, <1>4 DEF Exists, ReadInv, Inv, IInv, WorkInv
<1>6. Path' = Path
  BY <1>1, TreeSame DEF ReadInv, Inv, IInv
<1>7. Reach' \subseteq Reach
  BY <1>1, <1>4, <1>5, <1>6, ReachNext
<1> QED
  BY <1>1, <1>7 DEF Quiet, RowsGrow

LEMMA ReadInit == Init => ReadInv
<1> SUFFICES ASSUME Init PROVE ReadInv
  OBVIOUS
<1>1. /\ commits = <<>> /\ views = <<>> /\ rows = <<>> /\ Len(commits) = 0
      /\ \A p \in Workers : pc[p] = "idle" /\ job[p] = Done
  BY DEF Init
<1>2. Inv
  BY InitEstablishes
<1>3. SnapInv
  BY <1>1 DEF SnapInv
<1>4. JobInv
  <2>1. ASSUME NEW p \in Workers PROVE JobOK(p)
    <3>1. pc[p] = "idle" /\ job[p] = Done
      BY <1>1
    <3>2. /\ Done.kind = "none" /\ Done.from = 0 /\ Done.parent = 0 /\ Done.ids = <<>>
          /\ Done.new = <<>> /\ Done.vecs = <<>>
      BY DEF Done, Nil
    <3> QED
      BY <1>1, <3>1, <3>2, ShortLists DEF JobOK, Nil
  <2> QED
    BY <2>1 DEF JobInv
<1>5. FreshInv
  BY <1>1, ShortLists DEF FreshInv, NewOf, Done
<1> QED
  BY <1>2, <1>3, <1>4, <1>5 DEF ReadInv

LEMMA ReadNext == NoMerges /\ ReadInv /\ [Next]_vars => NoMerges' /\ ReadInv'
<1> SUFFICES ASSUME NoMerges, ReadInv, [Next]_vars PROVE ReadInv'
  BY DEF NoMerges, Next, vars
<1>1. Inv' /\ setting' = setting
  BY NextPreserves DEF ReadInv, Next, vars
<1>2. ASSUME NEW p \in Workers, Create(p) PROVE ReadInv'
  BY <1>1, <1>2, CreatePuts, PutKeeps
<1>3. ASSUME NEW p \in Workers, Start(p) PROVE Quiet(p)
  BY <1>1, <1>3, StartIsQuiet
<1>4. ASSUME NEW p \in Workers, Step(p), ~Create(p) PROVE Quiet(p)
  BY <1>1, <1>4, StepIsQuiet
<1>5. ASSUME NEW p \in Workers, StorageError(p) \/ LostReply(p) \/ Crash(p) PROVE Quiet(p)
  BY <1>1, <1>5, FaultIsQuiet
<1>6. ASSUME CreateBranch PROVE \E p : Quiet(p)
  BY <1>1, <1>6, CreateBranchIsQuiet
<1>7. ASSUME UNCHANGED vars PROVE \E p : Quiet(p)
  <2>1. Path' = Path
    BY <1>7, TreeSame DEF ReadInv, Inv, IInv, vars
  <2>2. Reach' = Reach
    BY <1>7, <2>1 DEF Reach, Exists, vars
  <2> QED
    BY <1>7, <2>2 DEF Quiet, RowsGrow, vars
<1>8. ASSUME NEW p, Quiet(p) PROVE ReadInv'
  BY <1>1, <1>8, QuietKeeps
<1> QED
  BY <1>2, <1>3, <1>4, <1>5, <1>6, <1>7, <1>8 DEF Next

(* The snapshot of every branch can be computed: no commit deletes what is *)
(* not there or adds what is, whatever was committed, compacted, deleted   *)
(* or reverted since the operation that made it began.  The operations are *)
(* any but merges, called without naming an ID twice; a merge can do it.   *)
THEOREM BranchesAreReadable == Spec /\ NoMerges => []TipsReadable
<1>1. ReadInv => TipsReadable
  <2> SUFFICES ASSUME ReadInv, NEW b \in Names, Exists(b) PROVE Snapshot(tips[b]).ok
    BY DEF TipsReadable, Tips
  <2>1. tips[b] \in 0 .. Len(commits)
    BY ReachFacts DEF ReadInv
  <2> QED
    BY <2>1, SnapshotOK DEF ReadInv
<1> QED
  BY <1>1, ReadInit, ReadNext, PTL DEF Spec
=============================================================================
