-------------------------------- MODULE Scan --------------------------------
(***************************************************************************)
(* The threaded ZNG scanner (zio/zngio/scanner.go) under the operator that *)
(* pulls from it: an input goroutine that reads frames, workers that       *)
(* decode and filter them in parallel, and a queue of result channels, one *)
(* per frame, that keeps the batches in the order of the file.  The        *)
(* operator is a goroutine of the query's WaitGroup, as sort and groupby   *)
(* are.  Frame n's result channel is n; channel 0 is the nil channel.      *)
(***************************************************************************)
EXTENDS Naturals, Sequences, FiniteSets, SequencesExt

CONSTANTS Files,   \* the files: sequences of frame kinds
          Workers, \* the worker goroutines (ReaderOpts.Threads of them)
          Cancels  \* the query may be cancelled while it runs

\* A data frame gives a batch or none (filtered), or fails to decode; a
\* control frame is passed on; reading a torn frame fails.
Kinds == {"data", "filtered", "bad", "control", "torn"}

ASSUME ScanAssumption == /\ Files \subseteq Seq(Kinds)
                         /\ IsFiniteSet(Workers) /\ Workers # {}
                         /\ Cancels \in BOOLEAN

VARIABLES file,     \* the file that is scanned
          ctxDone,  \* the query's context is cancelled
          stopped,  \* the scanner's own context is cancelled
          input,    \* [pc, pos, w]: the input goroutine
          worker,   \* worker[w] = [pc, job]
          free,     \* workerCh
          results,  \* resultChCh
          closed,   \* resultChCh is closed
          chan,     \* chan[n] = [item, closed]: the result channel of frame n
          op,       \* [pc, cur]: the operator's goroutine, in scanner.Pull
          seen,     \* the frames whose batch the operator got
          status    \* "open", or how the scan ended for the operator

vars == <<file, ctxDone, stopped, input, worker, free, results, closed, chan, op, seen, status>>

Slots == Cardinality(Workers) + 1 \* the capacity of workerCh and resultChCh
Stop == ctxDone \/ stopped
Frame(n) == IF n <= Len(file) THEN file[n] ELSE "eof"

Init ==
    /\ file \in Files
    /\ ctxDone = FALSE
    /\ stopped = FALSE
    /\ input = [pc |-> "off", pos |-> 0, w |-> 0]
    /\ worker = [w \in Workers |-> [pc |-> "off", job |-> 0]]
    /\ free = <<>>
    /\ results = <<>>
    /\ closed = FALSE
    /\ chan = [n \in 1..Len(file) + 1 |-> [item |-> "none", closed |-> FALSE]]
    /\ op = [pc |-> "idle", cur |-> 0]
    /\ seen = <<>>
    /\ status = "open"
-----------------------------------------------------------------------------
\* The input goroutine.
ReadFrame ==
    LET n == input.pos + 1
        k == Frame(n)
    IN  /\ input.pc = "read"
        /\ input' = [input EXCEPT !.pos = n,
                                  !.pc = CASE k = "control" -> "control"
                                           [] k \in {"torn", "eof"} -> "last"
                                           [] OTHER -> "worker"]
        /\ chan' = IF k \in {"control", "torn", "eof"}
                   THEN [chan EXCEPT ![n].item = k] ELSE chan
        /\ UNCHANGED <<file, ctxDone, stopped, worker, free, results, closed, op, seen, status>>

TakeWorker ==
    /\ input.pc = "worker" /\ free # <<>>
    /\ input' = [input EXCEPT !.pc = "post", !.w = Head(free)]
    /\ free' = Tail(free)
    /\ UNCHANGED <<file, ctxDone, stopped, worker, results, closed, chan, op, seen, status>>

\* The frame's result channel is queued before the worker has the frame.
PostResult ==
    /\ input.pc = "post" /\ Len(results) < Slots
    /\ results' = Append(results, input.pos)
    /\ input' = [input EXCEPT !.pc = "give"]
    /\ UNCHANGED <<file, ctxDone, stopped, worker, free, closed, chan, op, seen, status>>

GiveWork ==
    /\ input.pc = "give" /\ worker[input.w].pc = "idle"
    /\ worker' = [worker EXCEPT ![input.w] = [pc |-> "work", job |-> input.pos]]
    /\ input' = [input EXCEPT !.pc = "read", !.w = 0]
    /\ UNCHANGED <<file, ctxDone, stopped, free, results, closed, chan, op, seen, status>>

SendControl ==
    /\ input.pc \in {"control", "last"} /\ Len(results) < Slots
    /\ results' = Append(results, input.pos)
    /\ input' = [input EXCEPT !.pc = IF @ = "last" THEN "end" ELSE "read"]
    /\ closed' = (closed \/ input.pc = "last")
    /\ UNCHANGED <<file, ctxDone, stopped, worker, free, chan, op, seen, status>>

InputStops ==
    /\ Stop /\ input.pc \in {"worker", "post", "give", "control", "last"}
    /\ input' = [input EXCEPT !.pc = IF @ = "control" THEN "read" ELSE "end"]
    /\ closed' = (closed \/ input.pc # "control")
    /\ chan' = IF input.pc = "give" THEN [chan EXCEPT ![input.pos].closed = TRUE] ELSE chan
    /\ UNCHANGED <<file, ctxDone, stopped, worker, free, results, op, seen, status>>

InputStep == ReadFrame \/ TakeWorker \/ PostResult \/ GiveWork \/ SendControl \/ InputStops

\* The workers.
Ready(w) ==
    /\ worker[w].pc = "ready" /\ Len(free) < Slots
    /\ free' = Append(free, w)
    /\ worker' = [worker EXCEPT ![w].pc = "idle"]
    /\ UNCHANGED <<file, ctxDone, stopped, input, results, closed, chan, op, seen, status>>

\* Mutant: the result channel of a frame without a match stays open.
ScanBatchKeepsOpen(w) ==
    LET n == worker[w].job
    IN  /\ worker[w].pc = "work"
        /\ chan' = IF file[n] = "filtered" THEN chan
                   ELSE [chan EXCEPT ![n] = [item |-> file[n], closed |-> TRUE]]
        /\ worker' = [worker EXCEPT ![w] = [pc |-> "ready", job |-> 0]]
        /\ UNCHANGED <<file, ctxDone, stopped, input, free, results, closed, op, seen, status>>

ScanBatch(w) ==
    LET n == worker[w].job
    IN  /\ worker[w].pc = "work"
        /\ chan' = [chan EXCEPT ![n] = [item   |-> IF file[n] = "filtered" THEN "none" ELSE file[n],
                                        closed |-> TRUE]]
        /\ worker' = [worker EXCEPT ![w] = [pc |-> "ready", job |-> 0]]
        /\ UNCHANGED <<file, ctxDone, stopped, input, free, results, closed, op, seen, status>>

WorkerStops(w) ==
    /\ Stop /\ worker[w].pc \in {"ready", "idle"}
    /\ worker' = [worker EXCEPT ![w].pc = "end"]
    /\ UNCHANGED <<file, ctxDone, stopped, input, free, results, closed, chan, op, seen, status>>

WorkerStep(w) == Ready(w) \/ ScanBatch(w) \/ WorkerStops(w)

\* The operator's goroutine calls Pull; the first call starts the others.
Start ==
    /\ input' = IF input.pc = "off" THEN [input EXCEPT !.pc = "read"] ELSE input
    /\ worker' = [w \in Workers |-> IF worker[w].pc = "off"
                                    THEN [pc |-> "ready", job |-> 0] ELSE worker[w]]

Pull ==
    /\ op.pc = "idle" /\ status = "open"
    /\ Start
    /\ op' = [op EXCEPT !.pc = "select"]
    /\ UNCHANGED <<file, ctxDone, stopped, free, results, closed, chan, seen, status>>

PullDone ==
    /\ op.pc = "idle" /\ status = "open"
    /\ Start
    /\ stopped' = TRUE
    /\ op' = [op EXCEPT !.pc = "drain"]
    /\ UNCHANGED <<file, ctxDone, free, results, closed, chan, seen, status>>

\* A receive from a closed resultChCh gives the nil channel.
SelectResult ==
    /\ op.pc = "select" /\ (results # <<>> \/ closed)
    /\ op' = [pc |-> "recv", cur |-> IF results # <<>> THEN Head(results) ELSE 0]
    /\ results' = IF results # <<>> THEN Tail(results) ELSE results
    /\ UNCHANGED <<file, ctxDone, stopped, input, worker, free, closed, chan, seen, status>>

\* Pull returns the context's error, which ends the operator.
SelectCancelled ==
    /\ op.pc = "select" /\ Stop
    /\ op' = [op EXCEPT !.pc = "idle"]
    /\ status' = "cancelled"
    /\ UNCHANGED <<file, ctxDone, stopped, input, worker, free, results, closed, chan, seen>>

\* Mutant: a closed result channel is taken for the end of the stream.
ReceiveFilteredEnds ==
    /\ op.pc = "recv" /\ op.cur # 0
    /\ LET c == chan[op.cur]
       IN  \/ /\ c.item \in {"data", "control"}
              /\ seen' = Append(seen, op.cur)
              /\ UNCHANGED <<stopped, status>>
           \/ /\ c.item \in {"bad", "torn", "eof"} \/ c.closed
              /\ stopped' = TRUE
              /\ status' = IF c.item \in {"eof", "none"} THEN "eos" ELSE "error"
              /\ UNCHANGED seen
    /\ op' = [pc |-> "idle", cur |-> 0]
    /\ UNCHANGED <<file, ctxDone, input, worker, free, results, closed, chan>>

\* Mutant: the scanner's context is not cancelled at the end of the stream.
ReceiveNoCancel ==
    /\ op.pc = "recv" /\ op.cur # 0
    /\ LET c == chan[op.cur]
       IN  \/ /\ c.item = "none" /\ c.closed
              /\ op' = [pc |-> "select", cur |-> 0]
              /\ UNCHANGED <<seen, status>>
           \/ /\ c.item \in {"data", "control"}
              /\ op' = [pc |-> "idle", cur |-> 0]
              /\ seen' = Append(seen, op.cur)
              /\ UNCHANGED status
           \/ /\ c.item \in {"bad", "torn", "eof"}
              /\ op' = [pc |-> "idle", cur |-> 0]
              /\ status' = IF c.item = "eof" THEN "eos" ELSE "error"
              /\ UNCHANGED seen
    /\ UNCHANGED <<file, ctxDone, stopped, input, worker, free, results, closed, chan>>

Receive ==
    /\ op.pc = "recv" /\ op.cur # 0
    /\ LET c == chan[op.cur]
       IN  \/ /\ c.item = "none" /\ c.closed
              /\ op' = [pc |-> "select", cur |-> 0]
              /\ UNCHANGED <<stopped, seen, status>>
           \/ /\ c.item \in {"data", "control"}
              /\ op' = [pc |-> "idle", cur |-> 0]
              /\ seen' = Append(seen, op.cur)
              /\ UNCHANGED <<stopped, status>>
           \/ /\ c.item \in {"bad", "torn", "eof"}
              /\ op' = [pc |-> "idle", cur |-> 0]
              /\ stopped' = TRUE
              /\ status' = IF c.item = "eof" THEN "eos" ELSE "error"
              /\ UNCHANGED seen
    /\ UNCHANGED <<file, ctxDone, input, worker, free, results, closed, chan>>

\* Mutant: Pull(true) returns when it sees resultChCh empty.
DrainNoWait ==
    /\ op.pc = "drain"
    /\ IF results # <<>>
       THEN results' = Tail(results) /\ UNCHANGED <<op, status>>
       ELSE /\ op' = [op EXCEPT !.pc = "idle"]
            /\ status' = "done"
            /\ UNCHANGED results
    /\ UNCHANGED <<file, ctxDone, stopped, input, worker, free, closed, chan, seen>>

\* Pull(true) ranges over resultChCh until the input goroutine closes it.
Drain ==
    /\ op.pc = "drain"
    /\ IF results # <<>>
       THEN results' = Tail(results) /\ UNCHANGED <<op, status>>
       ELSE /\ closed
            /\ op' = [op EXCEPT !.pc = "idle"]
            /\ status' = "done"
            /\ UNCHANGED results
    /\ UNCHANGED <<file, ctxDone, stopped, input, worker, free, closed, chan, seen>>

OpStep == SelectResult \/ SelectCancelled \/ Receive \/ Drain

\* runtime.Context.Cancel cancels the context, then waits for the operator.
Cancel ==
    /\ Cancels /\ ~ctxDone
    /\ ctxDone' = TRUE
    /\ UNCHANGED <<file, stopped, input, worker, free, results, closed, chan, op, seen, status>>

Next == \/ Pull \/ PullDone \/ Cancel \/ OpStep \/ InputStep
        \/ \E w \in Workers : WorkerStep(w)

\* Every goroutine that can run does; reading the file always returns.
Fairness == WF_vars(OpStep) /\ WF_vars(InputStep) /\ \A w \in Workers : WF_vars(WorkerStep(w))

Spec == Init /\ [][Next]_vars /\ Fairness
-----------------------------------------------------------------------------
TypeOK ==
    /\ file \in Files
    /\ input.pos \in 0..Len(file) + 1
    /\ results \in Seq(DOMAIN chan) /\ Len(results) <= Slots
    /\ free \in Seq(Workers)
    /\ op.cur \in 0..Len(file) + 1
    /\ status \in {"open", "eos", "error", "done", "cancelled"}

Failing(n) == Frame(n) \in {"bad", "torn"}
Visible(n) == Frame(n) \in {"data", "control"}

\* What must not be skipped; once the context is done, sendControl may drop its
\* message and the input goroutine go on.
Due(n) == Frame(n) = "data" \/ (Frame(n) = "control" /\ ~ctxDone)

(* The operator gets the batches of the file in file order, none skipped and
   none twice, however the workers finish; it is told of the end only when it
   has them all, and of an error only at the failing frame. *)
InOrder ==
    /\ \A i \in DOMAIN seen : /\ Visible(seen[i])
                              /\ \A n \in 1..seen[i] - 1 :
                                    /\ ~Failing(n)
                                    /\ Due(n) => \E j \in 1..i - 1 : seen[j] = n
                              /\ \A j \in 1..i - 1 : seen[j] < seen[i]
    /\ status = "eos" => \A n \in DOMAIN file : ~Failing(n) /\ (Due(n) => n \in ToSet(seen))
    /\ status = "error" => \E n \in DOMAIN file :
            Failing(n) /\ \A k \in 1..n - 1 : ~Failing(k) /\ (Due(k) => k \in ToSet(seen))

(* When Pull(true) has returned the input goroutine has ended, so that nobody
   reads from the underlying io.Reader behind the caller's back. *)
DoneStopsReading == status = "done" => input.pc = "end"

(* Every Pull of a query that is not cancelled returns: the input goroutine, the
   workers and the operator never wait for one another in a circle, with both
   channels full included. *)
PullReturns == op.pc # "idle" ~> op.pc = "idle" \/ ctxDone

(* A scan that ended for the operator, or whose query was cancelled, leaves no
   goroutine behind. *)
NoLeak == status # "open" \/ ctxDone ~> input.pc \in {"off", "end"}
                                       /\ \A w \in Workers : worker[w].pc \in {"off", "end"}
=============================================================================
