------------------------------ MODULE MCLakeScan ------------------------------
(* Instances of LakeScan for TLC. *)
EXTENDS LakeScan

CONSTANTS t1, t2

K(n) == Key("int", n)

Row(id, key, other) == [id |-> id, key |-> key, other |-> other]

(* The rows of a pool: all keys different, some null or missing with, if   *)
(* the pool is ascending, a zero, and enough equal ones for objects with   *)
(* three entries in their seek index.                                      *)
RowSets(o) == {
    <<Row(1, K(1), "true"), Row(2, K(2), "false"), Row(3, K(3), "true"), Row(4, K(4), "missing")>>,
    <<Row(1, K(IF o = "asc" THEN 0 ELSE 1), "false"), Row(2, K(3), "true"),
      Row(3, Key("null", 0), "true"), Row(4, Key("missing", 0), "false")>>,
    <<Row(1, K(1), "true"), Row(2, K(1), "false"), Row(3, K(2), "true"), Row(4, K(2), "missing"),
      Row(5, K(3), "false")>> }

(* The ways to spread n rows over objects, up to the names of objects. *)
Spread(n) == {f \in [1 .. n -> 1 .. IF n = 4 THEN 3 ELSE 2] :
                f[1] = 1 /\ \A i \in 2 .. n : \E j \in 1 .. i - 1 : f[i] <= f[j] + 1}

Pool(o, rs, f) ==
    [order |-> o,
     objs  |-> {NewObject(o, id, Sorted(o, {rs[i] : i \in {k \in DOMAIN rs : f[k] = id}})) :
                   id \in {f[i] : i \in DOMAIN rs}}]

MCPools == UNION {UNION {{Pool(o, rs, f) : f \in Spread(Len(rs))} : rs \in RowSets(o)} :
                     o \in {"asc", "desc"}}

(* Objects from null to 5, from 0 to -1 and from null to -2. *)
ZeroPools ==
    {Pool("desc", <<Row(1, Key("null", 0), "true"), Row(2, K(5), "true"),
                    Row(3, K(0), "true"), Row(4, K(-1), "true"),
                    Row(5, Key("null", 0), "true"), Row(6, K(-2), "true")>>, <<1, 1, 2, 2, 3, 3>>)}
AnyRow == {One(Other)}

(* Comparisons whose pruning is sound. *)
MCPreds == {
    One(KeyCompare("<=", 1)), One(LiteralCompare(2, "<")),
    Both(KeyCompare(">=", 2), Other), Either(KeyCompare("<", 2), KeyCompare(">", 2)),
    Either(Other, KeyCompare("==", 3)) }

(* A comparison that reverseComparator turns into key > 2. *)
LiteralPreds == {One(LiteralCompare(2, "<="))}
=============================================================================
