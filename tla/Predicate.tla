------------------------------ MODULE Predicate ------------------------------
(***************************************************************************)
(* The filter predicates of lake queries and deletes, as far as the pool   *)
(* key is concerned: what a predicate evaluates to on a row                *)
(* (runtime/sam/expr), and the range pruner the optimizer derives from it  *)
(* (compiler/optimizer/optimizer.go), which decides from a range of keys   *)
(* alone that the rows in it need not be read.                             *)
(*                                                                         *)
(* A predicate is a comparison, or two of them joined by "and" or "or".  A *)
(* comparison is of the pool key with an integer literal, on either side,  *)
(* or it is about something else, and then each row says what it gives.    *)
(***************************************************************************)
EXTENDS Integers

(* "null" is the untyped null, "nullint" null(int64). *)
KeyKinds == {"int", "null", "nullint", "missing"}

(* val is zero unless kind is "int". *)
Key(kind, val) == [kind |-> kind, val |-> val]

Keys == {k \in [kind : KeyKinds, val : Int] : k.kind # "int" => k.val = 0}

Outcomes == {"true", "false", "missing", "error"}

Operators == {"<", "<=", ">", ">=", "=="}

Bool(b) == IF b THEN "true" ELSE "false"

----------------------------------------------------------------------------
(* The order of keys: nulls, and missing keys taken as null, are largest. *)

IsNull(k) == k.kind # "int"

Less(a, b) == ~IsNull(a) /\ (IsNull(b) \/ a.val < b.val)

SameKey(a, b) == ~Less(a, b) /\ ~Less(b, a)

----------------------------------------------------------------------------
(* Evaluation. *)

Compare(op, a, b) ==
    CASE op = "<"  -> a < b
      [] op = "<=" -> a <= b
      [] op = ">"  -> a > b
      [] op = ">=" -> a >= b
      [] op = "==" -> a = b

KeyCompare(op, lit)     == [on |-> "key", op |-> op, lit |-> lit, literalFirst |-> FALSE]
LiteralCompare(lit, op) == [on |-> "key", op |-> op, lit |-> lit, literalFirst |-> TRUE]
Other                   == [on |-> "other", op |-> "==", lit |-> 0, literalFirst |-> FALSE]

Comparisons ==
    [on : {"key", "other"}, op : Operators, lit : Int, literalFirst : BOOLEAN]

(* With the literal on the right the compiled comparison looks at the      *)
(* key's type and reads null(int64) as zero.                               *)
CompareInt64(op, k, lit) ==
    Bool(k.kind \in {"int", "nullint"} /\ Compare(op, k.val, lit))

(* With the literal on the left a null key compares as false. *)
CompareRelative(lit, op, k) == Bool(k.kind = "int" /\ Compare(op, lit, k.val))

EvalOne(c, row) ==
    IF c.on = "other" THEN row.other
    ELSE IF row.key.kind = "missing" THEN "missing"
    ELSE IF c.literalFirst THEN CompareRelative(c.lit, c.op, row.key)
    ELSE CompareInt64(c.op, row.key, c.lit)

And(l, r) == IF l = "true" THEN r ELSE l

Or(l, r)  == IF l \in {"true", "error"} THEN l ELSE r

Not(v) == CASE v = "true" -> "false" [] v = "false" -> "true" [] OTHER -> v

IsMissing(v) == CASE v = "missing" -> "true" [] v = "error" -> "error" [] OTHER -> "false"

One(c)     == [form |-> "one", l |-> c, r |-> c]
Both(c, d)   == [form |-> "and", l |-> c, r |-> d]
Either(c, d) == [form |-> "or", l |-> c, r |-> d]

Predicates == [form : {"one", "and", "or"}, l : Comparisons, r : Comparisons]

Eval(p, row) ==
    CASE p.form = "one" -> EvalOne(p.l, row)
      [] p.form = "and" -> And(EvalOne(p.l, row), EvalOne(p.r, row))
      [] p.form = "or"  -> Or(EvalOne(p.l, row), EvalOne(p.r, row))

(* A query keeps the rows on which its filter is true. *)
Selected(p, row) == Eval(p, row) = "true"

(* Mutant: rows on which the predicate is missing are not kept. *)
KeptIfFalse(p, row) == Not(Eval(p, row)) = "true"

(* A delete keeps the rows on which "!p or missing(p)" is true. *)
Kept(p, row) == Or(Not(Eval(p, row)), IsMissing(Eval(p, row))) = "true"

----------------------------------------------------------------------------
(* The range pruner: TRUE if rows with keys from min to max can be left    *)
(* out.  A part that is not a comparison of the key is no pruner at all,   *)
(* which is the same as one that never prunes.                             *)

reverseComparator(op) ==
    CASE op = "<"  -> ">="
      [] op = "<=" -> ">"
      [] op = ">"  -> "<="
      [] op = ">=" -> "<"
      [] op = "==" -> op

rangePrunerPred(op, lit, min, max) ==
    LET k == Key("int", lit)
    IN CASE op = "<"  -> ~Less(min, k)
         [] op = "<=" -> Less(k, min)
         [] op = ">"  -> ~Less(k, max)
         [] op = ">=" -> Less(max, k)
         [] op = "==" -> Less(k, min) \/ Less(max, k)

PrunesOne(c, min, max) ==
    /\ c.on = "key"
    /\ rangePrunerPred(IF c.literalFirst THEN reverseComparator(c.op) ELSE c.op,
                       c.lit, min, max)

Prunes(p, min, max) ==
    CASE p.form = "one" -> PrunesOne(p.l, min, max)
      [] p.form = "and" -> PrunesOne(p.l, min, max) \/ PrunesOne(p.r, min, max)
      [] p.form = "or"  -> PrunesOne(p.l, min, max) /\ PrunesOne(p.r, min, max)

----------------------------------------------------------------------------
(* A row is in a range of keys. *)
InRange(row, min, max) == ~Less(row.key, min) /\ ~Less(max, row.key)

(* What optimizer.go:541-546 says of the pruner: it prunes only when the   *)
(* comparisons with literals rule out for certain that the predicate is    *)
(* true of any value in the range.  This fails for 2 <= key, whose         *)
(* reversal is key > 2, and for rows with null(int64) keys.                *)
PrunesFor(p, row, min, max) ==
    Prunes(p, min, max) /\ InRange(row, min, max) => ~Selected(p, row)
=============================================================================
