------------------------------- MODULE MCScan -------------------------------
(* Instances of Scan for TLC. *)
EXTENDS Scan

CONSTANTS w1, w2

\* Enough frames to fill both channels, and every kind behind and before data.
SmallFiles == UNION {[1..n -> Kinds \ {"bad"}] : n \in 0..2} \cup
              {<<"data", "data", "data", "data">>,
               <<"data", "filtered", "control", "data">>,
               <<"data", "bad", "data", "data">>,
               <<"filtered", "data", "torn">>}
=============================================================================
