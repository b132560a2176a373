----------------------------- MODULE MCGroupBy -----------------------------
(* Instances of GroupBy for TLC. *)
EXTENDS GroupBy

Query(dir, limit, platoons, dones, cancels, fails) ==
    [dir |-> dir, limit |-> limit, platoons |-> platoons,
     dones |-> dones, cancels |-> cancels, fails |-> fails]

\* The ways to cut four values into batches.
Cuts(vs) == {<<vs>>, <<SubSeq(vs, 1, 1), SubSeq(vs, 2, 4)>>,
             <<SubSeq(vs, 1, 2), SubSeq(vs, 3, 4)>>,
             <<SubSeq(vs, 1, 2), SubSeq(vs, 3, 3), SubSeq(vs, 4, 4)>>,
             <<SubSeq(vs, 1, 1), SubSeq(vs, 2, 2), SubSeq(vs, 3, 3), SubSeq(vs, 4, 4)>>}

Values4(firsts, seconds) == [i \in 1..4 |-> <<firsts[i], seconds[i], 1>>]

\* Sorted by the first key: early results, with every choice of second keys.
M == Missing
Ascending == {<<1, 1, 1, 2>>, <<1, 1, 2, 2>>, <<1, 2, 2, 3>>, <<1, 2, M, M>>, <<1, M, M, M>>}
SortedQueries ==
    UNION {{Query("asc", l, <<c>>, TRUE, FALSE, FALSE) : c \in Cuts(Values4(f, s))} :
           l \in {1, 2, 3}, f \in Ascending, s \in [1..4 -> {1, 2}]}
    \cup UNION {{Query("desc", l, <<c>>, TRUE, FALSE, FALSE) : c \in Cuts(Values4(Reverse(f), s))} :
           l \in {1, 2, 3}, f \in Ascending, s \in {<<1, 2, 1, 2>>, <<2, 1, 2, 1>>, <<1, 2, 2, 1>>}}

\* In any order, in two platoons, with partial results and quiet keys.
Mixed == {<<<<<<1, 1, 1>>, <<2, 1, 1>>>>, <<<<1, 1, 2>>, <<2, Quiet, 1>>, <<2, 1, 1>>>>>>,
          <<<<<<2, 2, 1>>, <<1, 2, 3>>, <<Quiet, 1, 1>>, <<2, 2, 1>>>>>>,
          <<<<<<2, 1, 1>>>>, <<<<1, 1, 1>>>>, <<<<2, 1, 1>>>>>>}
UnsortedQueries ==
    {Query("none", l, <<p, q>>, FALSE, FALSE, FALSE) : l \in {1, 2}, p \in Mixed, q \in Mixed}

\* Failing disks and parents, and contexts that end.
FailingQueries ==
    {Query(d, 1, <<p>>, TRUE, TRUE, TRUE) : d \in {"asc", "none"},
        p \in {<<<<<<1, 1, 1>>, <<1, 2, 1>>>>, <<<<2, 1, 1>>, <<2, 2, 1>>>>, <<<<3, Quiet, 1>>>>>>}}

Queries == SortedQueries \cup UnsortedQueries \cup FailingQueries

\* The same group without a first key in two batches.
MissingQueries ==
    {Query("asc", 1, <<<<<<<<M, 1, 1>>, <<M, 2, 1>>>>, <<<<M, 1, 1>>>>>>>>, FALSE, FALSE, FALSE)}

\* A first key and none in the table when it is spilled.
PanicQueries ==
    {Query("asc", 2, <<<<<<<<1, 1, 1>>, <<M, 1, 1>>, <<M, 2, 1>>>>>>>>, FALSE, FALSE, FALSE)}

\* count() by a, ts on input sorted by ts, which the optimizer declares sorted.
SecondKeySorted ==
    {Query("asc", 2, <<<<<<<<1, 1, 1>>, <<2, 1, 1>>>>, <<<<1, 1, 1>>>>>>>>, FALSE, FALSE, FALSE)}
=============================================================================
