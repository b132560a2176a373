------------------------------- MODULE MCFlow -------------------------------
(* Instances of Flow for TLC. *)
EXTENDS Flow

Fork(n) == [b \in 1..4 |-> 1..n]
Switch  == <<{2}, {1}, {}, {1}>> \* the values of batch 3 match no case

Combined(kinds, forward, platoons, cancels) ==
    [join |-> "combine", legs |-> kinds, platoons |-> platoons,
     forward |-> forward, keys |-> <<>>, dones |-> TRUE, cancels |-> cancels]

Merged(kinds, forward, platoons, keys, dones, cancels) ==
    [join |-> "merge", legs |-> kinds, platoons |-> platoons,
     forward |-> forward, keys |-> keys, dones |-> dones, cancels |-> cancels]

ThreeAndOne == <<<<1, 2, 3>>, <<4>>>>
TwoAndOne   == <<<<1, 2>>, <<3>>>>

\* Combine with every kind of leg and selector, and a client that stops a
\* platoon or the query at will.  Merge of two copies whose keys keep pace, of
\* batches whose keys interleave, of the cases of a switch, and under a client
\* that stops the only platoon.
QueryGraphs == {
    Combined(<<"pass", "pass">>, Fork(2), ThreeAndOne, FALSE),
    Combined(<<"tail", "pass">>, Fork(2), TwoAndOne, FALSE),
    Combined(<<"head", "pass">>, Fork(2), TwoAndOne, TRUE),
    Combined(<<"head", "tail">>, Switch, ThreeAndOne, TRUE),
    Merged(<<"pass", "pass">>, Fork(2), ThreeAndOne,
           <<<<<<1>>, <<2>>, <<5>>, <<1>>>>, <<<<4>>, <<5>>, <<6>>, <<1>>>>>>, FALSE, FALSE),
    Merged(<<"pass", "pass">>, Fork(2), ThreeAndOne,
           <<<<<<1, 3>>, <<4, 6>>, <<6>>, <<2, 2>>>>,
             <<<<2, 4>>, <<5>>, <<6, 7>>, <<1, 3>>>>>>, FALSE, TRUE),
    Merged(<<"head", "pass", "tail">>, <<{1}, {1, 2}, {3}, {2}>>, ThreeAndOne,
           <<<<<<1, 3>>, <<4, 6>>, <<6>>, <<2>>>>,
             <<<<2>>, <<2, 4>>, <<6>>, <<1>>>>,
             <<<<1>>, <<1>>, <<2, 3>>, <<1>>>>>>, FALSE, TRUE),
    Merged(<<"pass", "pass">>, Fork(2), <<<<1, 2>>>>,
           <<<<<<1>>, <<3>>>>, <<<<2>>, <<4>>>>>>, TRUE, TRUE)}

\* fork (=> pass => put key := key + 10) | merge key, one value per batch.
Shifted == {Merged(<<"pass", "pass">>, Fork(2), <<<<1, 2, 3, 4>>>>,
                   <<[b \in 1..4 |-> <<b>>], [b \in 1..4 |-> <<b + 10>>]>>, FALSE, FALSE)}
=============================================================================
