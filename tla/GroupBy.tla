------------------------------ MODULE GroupBy ------------------------------
(***************************************************************************)
(* groupby.Op: the goroutine that pulls values, aggregates them in a table *)
(* of limited size, spills the table to sorted runs on disk and delivers   *)
(* the groups of each platoon; early, while the platoon lasts, if its      *)
(* input is sorted by the first group-by key.  Groups are pairs of keys,   *)
(* the aggregation is count().  Channels are unbuffered, so that a send    *)
(* and its receive are one step.                                           *)
(***************************************************************************)
EXTENDS Integers, Sequences, FiniteSets, SequencesExt, FiniteSetsExt

CONSTANTS Inputs,   \* the queries
          Missing,  \* the first key of a value that lacks it: error("missing")
          BatchLen  \* op.BatchLen (100): the groups read from spills at a time

\* A missing key sorts with null, after every other one.
ASSUME GroupByAssumption ==
    /\ BatchLen \in Nat \ {0} /\ Missing \in Int \ {0}
    /\ \A q \in Inputs :
          /\ q.dir \in {"asc", "desc", "none"} /\ q.limit \in Nat \ {0}
          /\ q.platoons \in Seq(Seq(Seq({k \in Int : k <= Missing} \X Int \X Nat)))

VARIABLES input,   \* the query that runs
          src,     \* [k, i]: the parent stands at batch i of platoon k
          agg,     \* Aggregator, and the temporary directories on disk
          run,     \* [pc, vals, res, next]: Op.run
          client,  \* [pc, platoon, got]: the operator that pulls
          ctxDone  \* the context is cancelled

vars == <<input, src, agg, run, client, ctxDone>>

\* A query is a record: dir, whether and how the optimizer says the input is
\* sorted; limit, of the table; platoons, what the parent has, a sequence of
\* sequences of batches of values; dones, cancels and fails, whether the client
\* may stop a platoon, the context may end and parent and disk may fail.  A
\* value is <<first key, second key, count>>; its count is 1 unless it is a
\* partial result of another groupby.
Quiet == 0 \* a key that evaluates to error("quiet")
Nil   == 0 \* no key yet
EOS   == [rows |-> <<>>, err |-> FALSE]
Err   == [rows |-> <<>>, err |-> TRUE]
Batch(rows) == [rows |-> rows, err |-> FALSE]

Platoons == input.platoons
Group(v) == <<v[1], v[2]>>

\* valueCompare and keysComparator.
Before(x, y) == IF input.dir = "desc" THEN x > y ELSE x < y
KeysBefore(g, h) == \/ Before(g[1], h[1])
                    \/ g[1] = h[1] /\ Before(g[2], h[2])
Later(max, x) == IF max = Nil \/ Before(max, x) THEN x ELSE max

EmptyTable == [g \in {} |-> [n |-> 0, prim |-> Nil]]

Init == /\ input \in Inputs
        /\ src = [k |-> 1, i |-> 1]
        /\ agg = [table |-> EmptyTable, spiller |-> FALSE, spills |-> {}, nspill |-> 0,
                  maxTable |-> Nil, maxSpill |-> Nil, dirs |-> 0]
        /\ run = [pc |-> "off", vals |-> <<>>, res |-> EOS, next |-> "pull"]
        /\ client = [pc |-> "idle", platoon |-> 1, got |-> <<>>]
        /\ ctxDone = FALSE

Goto(pc) == run' = [run EXCEPT !.pc = pc]

\* sendResult offers res; when it is taken the goroutine goes on at next.
Offer(res, next) == run' = [run EXCEPT !.pc = "send", !.res = res, !.next = next]
-----------------------------------------------------------------------------
(***************************************************************************)
(* The Aggregator.                                                         *)
(***************************************************************************)
Rows(gs) == {[key |-> g, n |-> agg.table[g].n] : g \in gs}

SortedByPrimary(s) == \A i, j \in DOMAIN s : i < j => ~Before(s[j].key[1], s[i].key[1])

\* Spill writes a run with the partial results of the whole table.  The record
\* whose key becomes maxSpillKey is the last one the map gave, not the largest:
\* SortStableReader leaves the slice as it is.  An error is not taken.
Spilled(a, last) ==
    [a EXCEPT !.table = EmptyTable,
              !.spiller = TRUE,
              !.dirs = IF a.spiller THEN @ ELSE @ + 1,
              !.nspill = @ + 1,
              !.spills = @ \cup {[run |-> a.nspill + 1, key |-> g, n |-> a.table[g].n] :
                                    g \in DOMAIN a.table},
              !.maxSpill = IF last \in {Nil, Missing} THEN @ ELSE Later(@, last)]

\* The table is lost when its run cannot be written.
SpillFailed(a) ==
    [a EXCEPT !.table = EmptyTable,
              !.spiller = TRUE,
              !.dirs = IF a.spiller THEN @ ELSE @ + 1]

\* Mutant: groups of the largest spilled key are taken for complete.
HeldBackPastLast(a) ==
    {r.key : r \in {x \in a.spills : x.key[1] # Missing /\ (a.maxSpill = Nil \/ Before(a.maxSpill, x.key[1]))}}

\* The spilled groups at which an early reading stops.  A missing key is never
\* one of them.
HeldBack(a) ==
    {r.key : r \in {x \in a.spills : x.key[1] # Missing /\ (a.maxSpill = Nil \/ ~Before(x.key[1], a.maxSpill))}}

SpillKeys(a, below) ==
    {r.key : r \in {x \in a.spills : below => \A h \in HeldBack(a) : KeysBefore(x.key, h)}}

\* readSpills comes to a key that it must compare with maxSpillKey, which is nil
\* as long as each spill ended with a missing key.
NilKey ==
    /\ agg.spiller /\ agg.maxSpill = Nil /\ HeldBack(agg) # {}
    /\ Cardinality(SpillKeys(agg, TRUE)) < BatchLen

\* readSpills: merging the runs gives the keys in order; the partial results
\* that share a key are added up.
Merged(keys) == {s \in SetToSeqs(keys) : \A i, j \in DOMAIN s : i < j => KeysBefore(s[i], s[j])}

Combined(a, key) == MapThenSumSet(LAMBDA r : r.n, {r \in a.spills : r.key = key})

ReadSpills(a, below) ==
    {[i \in 1 .. Min({BatchLen, Len(s)}) |-> [key |-> s[i], n |-> Combined(a, s[i])]] :
        s \in Merged(SpillKeys(a, below))}

Taken(a, res) == [a EXCEPT !.spills = {r \in @ : \A i \in DOMAIN res : res[i].key # r.key}]

\* Mutant: the spiller is dropped and its files stay.
ResetKeepsFiles == [agg EXCEPT !.table = EmptyTable, !.spiller = FALSE, !.spills = {}]

\* Op.reset; maxTableKey and maxSpillKey stay.
Reset == [agg EXCEPT !.table = EmptyTable, !.spiller = FALSE, !.spills = {}, !.nspill = 0,
                     !.dirs = IF agg.spiller THEN @ - 1 ELSE @]
-----------------------------------------------------------------------------
(***************************************************************************)
(* Op.run.  Pulling from the parent.                                       *)
(***************************************************************************)
More == src.k <= Len(Platoons) /\ src.i <= Len(Platoons[src.k])

PullBatch ==
    /\ run.pc = "pull"
    /\ More
    /\ run' = [run EXCEPT !.pc = "consume", !.vals = Platoons[src.k][src.i]]
    /\ src' = [src EXCEPT !.i = @ + 1]
    /\ UNCHANGED <<input, agg, client, ctxDone>>

NextPlatoon == [k |-> Min({src.k, Len(Platoons)}) + 1, i |-> 1]

PullEOS ==
    /\ run.pc = "pull"
    /\ ~More
    /\ src' = NextPlatoon
    /\ Goto("final")
    /\ UNCHANGED <<input, agg, client, ctxDone>>

PullFails ==
    /\ run.pc = "pull"
    /\ input.fails \/ ctxDone
    /\ Offer(Err, "pull")
    /\ UNCHANGED <<input, src, agg, client, ctxDone>>

(***************************************************************************)
(* Aggregator.Consume, value by value.                                     *)
(***************************************************************************)
\* updateMaxTableKey comes before the second key is looked at.
Seen(v) == IF v[1] = Quiet \/ input.dir = "none" THEN agg
           ELSE [agg EXCEPT !.maxTable = Later(@, v[1])]

Added(a, v) ==
    LET g   == Group(v)
        row == IF g \in DOMAIN a.table THEN a.table[g] ELSE [n |-> 0, prim |-> a.maxTable]
        new == [row EXCEPT !.n = @ + v[3]]
    IN  [a EXCEPT !.table = [h \in DOMAIN @ \cup {g} |-> IF h = g THEN new ELSE @[h]]]

Full(v) == Group(v) \notin DOMAIN agg.table /\ Cardinality(DOMAIN agg.table) >= input.limit

Consume ==
    /\ run.pc = "consume" /\ run.vals # <<>>
    /\ LET v == Head(run.vals)
           a == Seen(v)
       IN  IF v[1] = Quiet \/ v[2] = Quiet THEN agg' = a
           ELSE IF ~Full(v) THEN agg' = Added(a, v)
           ELSE \E g \in DOMAIN agg.table :
                   agg' = Added(Spilled(a, IF input.dir = "none" THEN Nil ELSE g[1]), v)
    /\ run' = [run EXCEPT !.vals = Tail(@)]
    /\ UNCHANGED <<input, src, client, ctxDone>>

ConsumeFails ==
    /\ run.pc = "consume" /\ run.vals # <<>>
    /\ input.fails \/ ctxDone
    /\ Full(Head(run.vals)) /\ Quiet \notin {Head(run.vals)[1], Head(run.vals)[2]}
    /\ agg' = SpillFailed(Seen(Head(run.vals)))
    /\ Offer(Err, "exit")
    /\ UNCHANGED <<input, src, client, ctxDone>>

Consumed ==
    /\ run.pc = "consume" /\ run.vals = <<>>
    /\ Goto(IF input.dir = "none" THEN "pull" ELSE "early")
    /\ UNCHANGED <<input, src, agg, client, ctxDone>>

(***************************************************************************)
(* nextResult.                                                             *)
(***************************************************************************)
Without(gs) == [agg EXCEPT !.table = [g \in DOMAIN @ \ gs |-> @[g]]]

\* Mutant: early groups go out in the order of the map.
EarlyRowsUnsorted(gs) == SetToSeqs(Rows(gs))

EarlyRows(gs) == {s \in SetToSeqs(Rows(gs)) : SortedByPrimary(s)}

\* nextResult(false) after each batch of sorted input: the groups whose first
\* key has been passed.
Early ==
    /\ run.pc = "early" /\ ~NilKey
    /\ IF agg.spiller
       THEN \E rows \in ReadSpills(agg, TRUE) :
               /\ agg' = Taken(agg, rows)
               /\ IF rows = <<>> THEN Goto("pull") ELSE Offer(Batch(rows), "early")
       ELSE LET gs == {g \in DOMAIN agg.table : Before(agg.table[g].prim, agg.maxTable)}
            IN /\ agg' = Without(gs)
               /\ IF gs = {} THEN Goto("pull")
                  ELSE \E s \in EarlyRows(gs) : Offer(Batch(s), "early")
    /\ UNCHANGED <<input, src, client, ctxDone>>

\* nextResult(true) after the parent's EOS.  Groups of the table come in the
\* order of the map.
Final ==
    /\ run.pc = "final"
    /\ IF agg.spiller
       THEN LET a == IF DOMAIN agg.table = {} THEN agg ELSE Spilled(agg, Nil)
            IN \E rows \in ReadSpills(a, FALSE) :
                  /\ agg' = Taken(a, rows)
                  /\ Offer(Batch(rows), IF rows = <<>> THEN "pull" ELSE "final")
       ELSE /\ agg' = Without(DOMAIN agg.table)
            /\ IF DOMAIN agg.table = {} THEN Offer(EOS, "pull")
               ELSE \E s \in SetToSeqs(Rows(DOMAIN agg.table)) : Offer(Batch(s), "final")
    /\ UNCHANGED <<input, src, client, ctxDone>>

\* A run cannot be written or read.
ResultFails ==
    /\ run.pc \in {"early", "final"} /\ agg.spiller
    /\ input.fails \/ ctxDone
    /\ agg' = IF run.pc = "final" THEN SpillFailed(agg) ELSE agg
    /\ Offer(Err, "pull")
    /\ UNCHANGED <<input, src, client, ctxDone>>

(***************************************************************************)
(* sendResult, with the client at the other end of the channels.           *)
(***************************************************************************)
\* The defers of run: close resultCh, remove the spill files, release Cancel.
Exit == run' = [run EXCEPT !.pc = "exit", !.vals = <<>>, !.res = EOS]

Cleaned == [agg EXCEPT !.spiller = FALSE, !.spills = {}, !.table = EmptyTable,
                       !.dirs = IF agg.spiller THEN @ - 1 ELSE @]

\* What the client makes of a result: after the last platoon and after an error
\* it gives up the query.
Received(res) ==
    IF res.err THEN [client EXCEPT !.pc = "over"]
    ELSE IF res.rows = <<>>
         THEN [pc |-> IF client.platoon >= Len(Platoons) THEN "over" ELSE "idle",
               platoon |-> client.platoon + 1, got |-> <<>>]
         ELSE [client EXCEPT !.pc = "idle", !.got = @ \o res.rows]

SendResult ==
    /\ run.pc \in {"send", "fail"} /\ client.pc = "pull"
    /\ client' = Received(run.res)
    /\ IF run.pc = "fail" \/ run.next = "exit" THEN Exit /\ agg' = Cleaned
       ELSE run' = [run EXCEPT !.pc = run.next, !.res = EOS] /\ UNCHANGED agg
    /\ UNCHANGED <<input, src, ctxDone>>

\* A done instead: the parent is pulled with done, and an error that was to be
\* sent is kept for the next Pull.
TakeDone ==
    /\ run.pc = "send" /\ client.pc = "done"
    /\ client' = Received(EOS)
    /\ agg' = Reset
    /\ src' = NextPlatoon
    /\ run' = IF run.res.err THEN [run EXCEPT !.pc = "fail"]
              ELSE [run EXCEPT !.pc = "pull", !.res = EOS]
    /\ UNCHANGED <<input, ctxDone>>

RunCancelled ==
    /\ run.pc \in {"send", "fail"} /\ ctxDone
    /\ Exit /\ agg' = Cleaned
    /\ UNCHANGED <<input, src, client, ctxDone>>

\* The nil pointer: nothing recovers, the defers run and the process dies.
Panic ==
    /\ run.pc = "early" /\ NilKey
    /\ Goto("panic")
    /\ agg' = Cleaned
    /\ client' = [client EXCEPT !.pc = "gone"]
    /\ UNCHANGED <<input, src, ctxDone>>

RunStep == \/ PullBatch \/ PullEOS \/ PullFails \/ Consume \/ ConsumeFails \/ Consumed
           \/ Early \/ Panic \/ Final \/ ResultFails \/ SendResult \/ TakeDone \/ RunCancelled
-----------------------------------------------------------------------------
(***************************************************************************)
(* The client: Pull(false), Pull(true), and Cancel, which waits for run.   *)
(***************************************************************************)
Pull ==
    /\ client.pc = "idle"
    /\ client' = [client EXCEPT !.pc = "pull"]
    /\ IF run.pc = "off" THEN Goto("pull") ELSE UNCHANGED run
    /\ UNCHANGED <<input, src, agg, ctxDone>>

\* A consumer stops a platoon of which it has seen something.
PullDone ==
    /\ client.pc = "idle" /\ input.dones /\ client.got # <<>>
    /\ client' = [client EXCEPT !.pc = "done"]
    /\ UNCHANGED <<input, src, agg, run, ctxDone>>

\* resultCh is closed, or the context ended while done was being sent.
PullEnds ==
    /\ \/ client.pc = "pull" /\ run.pc = "exit"
       \/ client.pc = "done" /\ ctxDone
    /\ client' = Received(IF ctxDone THEN Err ELSE EOS)
    /\ UNCHANGED <<input, src, agg, run, ctxDone>>

Cancel ==
    /\ client.pc = "over" \/ (client.pc = "idle" /\ input.cancels)
    /\ ctxDone' = TRUE
    /\ client' = [client EXCEPT !.pc = "cancel"]
    /\ UNCHANGED <<input, src, agg, run>>

CancelReturns ==
    /\ client.pc = "cancel" /\ run.pc \in {"off", "exit"}
    /\ client' = [client EXCEPT !.pc = "end"]
    /\ UNCHANGED <<input, src, agg, run, ctxDone>>

\* The context the query was started with ends.
ContextEnds ==
    /\ input.cancels /\ ~ctxDone
    /\ ctxDone' = TRUE
    /\ UNCHANGED <<input, src, agg, run, client>>

ClientStep == PullEnds \/ CancelReturns

Next == RunStep \/ ClientStep \/ Pull \/ PullDone \/ Cancel \/ ContextEnds

\* The goroutine keeps running, and Pull and Cancel return once they can;
\* nothing makes the client pull again.
Spec == Init /\ [][Next]_vars /\ WF_vars(RunStep) /\ WF_vars(ClientStep)
-----------------------------------------------------------------------------
\* The groups of platoon k, by the definition of a summarize.
Values(k) == FlattenSeq(Platoons[k])
Groups(k) == {Group(Values(k)[i]) : i \in {j \in DOMAIN Values(k) :
                                             Quiet \notin {Values(k)[j][1], Values(k)[j][2]}}}
Count(k, g) == MapThenSumSet(LAMBDA i : Values(k)[i][3],
                             {i \in DOMAIN Values(k) : Group(Values(k)[i]) = g})

CountIn(rows, g) == MapThenSumSet(LAMBDA i : rows[i].n, {i \in DOMAIN rows : rows[i].key = g})

\* Groups that an early result must not take apart.
Whole(g) == input.dir = "none" \/ g[1] # Missing

(* However early it is delivered, however often the table was spilled before,
   and whatever the order the map gives, a group with a first key is delivered
   once per platoon and with all of its values; the parts of a group whose first
   key is missing never count a value twice; and a platoon that ends by itself
   has delivered all of its groups with all of their values. *)
GroupsExact ==
    [][LET k == client.platoon
           sent == DOMAIN client'.got
       IN  /\ client'.got # client.got /\ client'.platoon = k =>
                 \A i \in sent : LET g == client'.got[i].key IN
                    /\ Whole(g) => /\ client'.got[i].n = Count(k, g)
                                   /\ \A j \in sent : client'.got[j].key = g => j = i
                    /\ CountIn(client'.got, g) <= Count(k, g)
           /\ client.pc = "pull" /\ client'.platoon = k + 1 =>
                 /\ {r.key : r \in ToSet(client.got)} = Groups(k)
                 /\ \A g \in Groups(k) : CountIn(client.got, g) = Count(k, g)]_vars

(* A summarize "outputs each unique combination of values of the group-by keys"
   (docs/language/operators/summarize.md:22), so none comes twice.  One does if
   its first key is missing (groupby.go:449), and if the input is sorted by a
   later key only, which the optimizer takes for good (optimizer.go:346). *)
GroupsOnce ==
    \A i, j \in DOMAIN client.got : client.got[i].key = client.got[j].key => i = j

(* "If the input is sorted in the primary key, Results can be called before eof,
   and keys that are completed will returned" (groupby.go:417-420).  It cannot
   always: if the groups spilled last lack the first key, the first group that
   has one is compared with a maxSpillKey that is nil (groupby.go:449). *)
NoPanic == run.pc # "panic"

(* Sorted input gives output sorted by the first key, as the optimizer tells
   the operators downstream (optimizer.go:348-352): early and final batches,
   from the table or from merged runs, fit together. *)
OutputSorted == input.dir # "none" => SortedByPrimary(client.got)

(* Every Pull returns, with done or without, and Cancel returns when the
   goroutine has ended, unless the process dies (NoPanic); and its temporary
   files are removed (runtime/context.go:34). *)
Ends == /\ client.pc \in {"pull", "done"} ~> client.pc \in {"idle", "over", "gone"}
        /\ client.pc = "cancel" ~> client.pc \in {"end", "gone"} /\ agg.dirs = 0
=============================================================================
