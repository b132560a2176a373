----------------------------- MODULE ScanProofs -----------------------------
(***************************************************************************)
(* Theorems about the threaded scanner, for every file and any number of   *)
(* workers.                                                                *)
(***************************************************************************)
EXTENDS Scan, SequenceTheorems, TLAPS

USE ScanAssumption

-----------------------------------------------------------------------------
(* The inductive invariant. *)

Slot    == 1 .. Len(file) + 1
Pending == {"worker", "post", "control", "last"}  \* read, and not yet queued
Decoded == {"data", "filtered", "bad"}            \* what goes to a worker

(* Every variable has the type the code gives it. *)
TypeInv ==
    /\ file \in Seq(Kinds)
    /\ ctxDone \in BOOLEAN /\ stopped \in BOOLEAN /\ closed \in BOOLEAN
    /\ DOMAIN input = {"pc", "pos", "w"}
    /\ input.pc \in Pending \cup {"off", "read", "give", "end"}
    /\ input.pos \in 0 .. Len(file) + 1
    /\ worker \in [Workers -> [pc : {"off", "ready", "idle", "work", "end"},
                               job : 0 .. Len(file) + 1]]
    /\ results \in Seq(Slot)
    /\ chan \in [Slot -> [item : Kinds \cup {"none", "eof"}, closed : BOOLEAN]]
    /\ op \in [pc : {"idle", "select", "recv", "drain"}, cur : 0 .. Len(file) + 1]
    /\ seen \in Seq(Slot)
    /\ status \in {"open", "eos", "error", "done", "cancelled"}

(* Only the end of the input goroutine closes resultChCh, and Pull(true)   *)
(* waits for that.                                                         *)
EndInv ==
    /\ closed => input.pc = "end"
    /\ status = "done" => closed

(* The input goroutine and the workers hold frames of the kind they are    *)
(* for.                                                                    *)
FrameInv ==
    /\ input.pc = "off" => input.pos = 0
    /\ input.pc = "read" => input.pos <= Len(file)
    /\ input.pc \in {"worker", "post", "give"} => Frame(input.pos) \in Decoded
    /\ input.pc = "control" => Frame(input.pos) = "control"
    /\ input.pc \in Pending \cup {"give"} => input.pos # 0
    /\ \A w \in Workers : worker[w].pc = "work" =>
            worker[w].job # 0 /\ Frame(worker[w].job) \in Decoded

(* A result channel gives what its frame is, and is closed with nothing in *)
(* it only for a frame without a match or when the input goroutine has     *)
(* stopped at it.                                                          *)
ChanInv ==
    \A n \in Slot :
        /\ chan[n].item \in {"none", Frame(n)}
        /\ chan[n].closed /\ chan[n].item = "none"
             => Frame(n) = "filtered" \/ (n = input.pos /\ input.pc = "end")

(* What the operator has got, what it waits for, what is queued and what   *)
(* is being read are in the order of the file.                             *)
OrderInv ==
    /\ \A i, j \in DOMAIN results : i < j => results[i] < results[j]
    /\ \A n \in ToSet(results) \cup {op.cur} \cup ToSet(seen) :
            n <= input.pos /\ (input.pc \in Pending => n < input.pos)
    /\ \A n \in ToSet(results) : op.cur < n /\ \A m \in ToSet(seen) : m < n
    /\ op.cur # 0 => \A m \in ToSet(seen) : m < op.cur

(* While the operator may still get batches the scanner is not stopped,    *)
(* and no frame that has been read is lost.                                *)
Live == status = "open" /\ op.pc # "drain"

CoverInv ==
    /\ op.pc # "recv" => op.cur = 0
    /\ op.pc # "idle" => status = "open"
    /\ Live =>
        /\ ~stopped
        /\ \A n \in DOMAIN file :
             (n < input.pos \/ (n = input.pos /\ input.pc \in {"read", "give"})) =>
                /\ Failing(n) => n \in {op.cur} \cup ToSet(results)
                /\ Due(n) => n \in ToSet(seen) \cup {op.cur} \cup ToSet(results)

IInv == TypeInv /\ EndInv /\ FrameInv /\ ChanInv /\ OrderInv /\ CoverInv /\ InOrder

-----------------------------------------------------------------------------
(* Sequences. *)

LEMMA Appended ==
  ASSUME NEW S, NEW s \in Seq(S), NEW e \in S
  PROVE /\ Append(s, e) \in Seq(S) /\ Len(Append(s, e)) = Len(s) + 1 /\ Len(s) \in Nat
        /\ \A i \in 1 .. Len(s) : Append(s, e)[i] = s[i]
        /\ Append(s, e)[Len(s) + 1] = e
        /\ DOMAIN Append(s, e) = 1 .. Len(s) + 1 /\ DOMAIN s = 1 .. Len(s)
        /\ ToSet(Append(s, e)) = ToSet(s) \cup {e}
<1>1. /\ Append(s, e) \in Seq(S) /\ Len(Append(s, e)) = Len(s) + 1 /\ Len(s) \in Nat
      /\ \A i \in 1 .. Len(s) : Append(s, e)[i] = s[i]
      /\ Append(s, e)[Len(s) + 1] = e
      /\ DOMAIN Append(s, e) = 1 .. Len(s) + 1 /\ DOMAIN s = 1 .. Len(s)
  OBVIOUS
<1>2. ToSet(Append(s, e)) = ToSet(s) \cup {e}
  <2>1. ASSUME NEW x \in ToSet(s) PROVE x \in ToSet(Append(s, e))
    BY <1>1, <2>1 DEF ToSet
  <2>2. e \in ToSet(Append(s, e))
    BY <1>1 DEF ToSet
  <2>3. ASSUME NEW x \in ToSet(Append(s, e)) PROVE x \in ToSet(s) \cup {e}
    <3>1. PICK i \in 1 .. Len(s) + 1 : x = Append(s, e)[i]
      BY <1>1, <2>3 DEF ToSet
    <3>2. i \in 1 .. Len(s) \/ i = Len(s) + 1
      BY <1>1
    <3> QED
      BY <1>1, <3>1, <3>2 DEF ToSet
  <2> QED
    BY <2>1, <2>2, <2>3
<1> QED
  BY <1>1, <1>2

LEMMA Tailed ==
  ASSUME NEW S, NEW s \in Seq(S), s # <<>>
  PROVE /\ Tail(s) \in Seq(S) /\ Head(s) \in S
        /\ Len(s) \in Nat \ {0} /\ DOMAIN s = 1 .. Len(s) /\ Head(s) = s[1]
        /\ DOMAIN Tail(s) = 1 .. Len(s) - 1
        /\ \A i \in 1 .. Len(s) - 1 : Tail(s)[i] = s[i + 1]
        /\ ToSet(s) = {Head(s)} \cup ToSet(Tail(s))
<1>1. /\ Tail(s) \in Seq(S) /\ Head(s) \in S
      /\ Len(s) \in Nat \ {0} /\ DOMAIN s = 1 .. Len(s) /\ Head(s) = s[1]
      /\ DOMAIN Tail(s) = 1 .. Len(s) - 1
      /\ \A i \in 1 .. Len(s) - 1 : Tail(s)[i] = s[i + 1]
  OBVIOUS
<1>2. ToSet(s) = {Head(s)} \cup ToSet(Tail(s))
  <2>1. ASSUME NEW x \in ToSet(s), x # Head(s) PROVE x \in ToSet(Tail(s))
    <3>1. PICK i \in 1 .. Len(s) : x = s[i]
      BY <1>1, <2>1 DEF ToSet
    <3>2. i - 1 \in 1 .. Len(s) - 1 /\ (i - 1) + 1 = i
      BY <1>1, <2>1, <3>1
    <3>3. Tail(s)[i - 1] = s[(i - 1) + 1]
      BY <1>1, <3>2
    <3> QED
      BY <1>1, <3>1, <3>2, <3>3 DEF ToSet
  <2>2. ASSUME NEW x \in ToSet(Tail(s)) PROVE x \in ToSet(s)
    <3>1. PICK i \in 1 .. Len(s) - 1 : x = Tail(s)[i]
      BY <1>1, <2>2 DEF ToSet
    <3>2. i + 1 \in 1 .. Len(s)
      BY <1>1
    <3> QED
      BY <1>1, <3>1, <3>2 DEF ToSet
  <2>3. Head(s) \in ToSet(s)
    BY <1>1 DEF ToSet
  <2> QED
    BY <2>1, <2>2, <2>3
<1> QED
  BY <1>1, <1>2

(* Kinds of frames. *)
LEMMA FrameKind ==
  ASSUME TypeInv
  PROVE /\ Len(file) \in Nat /\ DOMAIN file = 1 .. Len(file)
        /\ \A n \in 1 .. Len(file) : Frame(n) = file[n] /\ file[n] \in Kinds
        /\ \A n \in Slot : /\ Frame(n) \in Kinds \cup {"eof"}
                           /\ Frame(n) # "eof" => n \in 1 .. Len(file)
                           /\ Frame(n) = "eof" => n = Len(file) + 1
<1>1. Len(file) \in Nat /\ DOMAIN file = 1 .. Len(file) /\ \A n \in 1 .. Len(file) : file[n] \in Kinds
  BY DEF TypeInv
<1> QED
  BY <1>1 DEF Frame, Slot, Kinds

(* What a receive from the channel of the current frame does. *)
LEMMA ReceiveCases ==
  ASSUME Receive
  PROVE \/ /\ chan[op.cur].item = "none" /\ chan[op.cur].closed
           /\ op' = [pc |-> "select", cur |-> 0]
           /\ UNCHANGED <<stopped, seen, status>>
        \/ /\ chan[op.cur].item \in {"data", "control"}
           /\ op' = [pc |-> "idle", cur |-> 0]
           /\ seen' = Append(seen, op.cur)
           /\ UNCHANGED <<stopped, status>>
        \/ /\ chan[op.cur].item \in {"bad", "torn", "eof"}
           /\ op' = [pc |-> "idle", cur |-> 0]
           /\ stopped' = TRUE
           /\ status' = IF chan[op.cur].item = "eof" THEN "eos" ELSE "error"
           /\ UNCHANGED seen
  BY DEF Receive

LEMMA FileFixed ==
  ASSUME Next
  PROVE UNCHANGED file /\ UNCHANGED Slot
  BY DEF Next, OpStep, InputStep, WorkerStep, Pull, PullDone, Cancel, SelectResult,
     SelectCancelled, Receive, Drain, ReadFrame, TakeWorker, PostResult, GiveWork,
     SendControl, InputStops, Ready, ScanBatch, WorkerStops, Slot

-----------------------------------------------------------------------------
(* The types. *)

LEMMA TypeStep == IInv /\ Next => TypeInv'
<1> SUFFICES ASSUME IInv, Next PROVE TypeInv'
  OBVIOUS
<1> USE DEF IInv
<1>1. UNCHANGED file /\ UNCHANGED Slot
  BY FileFixed
<1>2. /\ input.pc \in Pending \cup {"give"} => input.pos \in Slot
      /\ \A w \in Workers : worker[w].pc = "work" => worker[w].job \in 1 .. Len(file)
  <2>1. ASSUME NEW w \in Workers, worker[w].pc = "work" PROVE worker[w].job \in 1 .. Len(file)
    <3>1. worker[w].job \in Slot
      BY <2>1, FrameKind DEF TypeInv, FrameInv, Slot
    <3> QED
      BY <2>1, <3>1, FrameKind DEF FrameInv, Decoded
  <2> QED
    BY <2>1, FrameKind DEF FrameInv, TypeInv, Slot
<1>3. CASE ReadFrame
  <2>1. input.pos + 1 \in Slot /\ Len(file) \in Nat
    BY <1>3, FrameKind DEF ReadFrame, FrameInv, TypeInv, Slot
  <2>2. chan' \in [Slot -> [item : Kinds \cup {"none", "eof"}, closed : BOOLEAN]]
    BY <1>3, <2>1, ZenonT(30) DEF ReadFrame, TypeInv, Kinds
  <2> QED
    BY <1>1, <1>3, <2>1, <2>2 DEF ReadFrame, TypeInv, Pending, Slot
<1>4. CASE TakeWorker
  BY <1>1, <1>4 DEF TakeWorker, TypeInv, Pending
<1>5. CASE PostResult \/ SendControl
  <2>1. results' \in Seq(Slot)
    <3>1. input.pos \in Slot /\ results' = Append(results, input.pos)
      BY <1>2, <1>5 DEF PostResult, SendControl, Pending
    <3>2. results \in Seq(Slot)
      BY DEF TypeInv
    <3> QED
      BY <3>1, <3>2, Appended
  <2> QED
    BY <1>1, <1>5, <2>1 DEF PostResult, SendControl, TypeInv, Pending
<1>6. CASE GiveWork
  BY <1>1, <1>6 DEF GiveWork, TypeInv, Pending
<1>7. CASE InputStops
  <2>1. chan' \in [Slot -> [item : Kinds \cup {"none", "eof"}, closed : BOOLEAN]]
    BY <1>2, <1>7, ZenonT(30) DEF InputStops, TypeInv
  <2> QED
    BY <1>1, <1>7, <2>1 DEF InputStops, TypeInv, Pending
<1>8. ASSUME NEW w \in Workers, Ready(w) \/ WorkerStops(w) PROVE TypeInv'
  <2>1. PICK where \in {"idle", "end"} : worker' = [worker EXCEPT ![w].pc = where]
    BY <1>8 DEF Ready, WorkerStops
  <2>2. worker' \in [Workers -> [pc : {"off", "ready", "idle", "work", "end"},
                                 job : 0 .. Len(file) + 1]]
    BY <2>1, ZenonT(30) DEF TypeInv
  <2> QED
    BY <1>1, <1>8, <2>2 DEF Ready, WorkerStops, TypeInv
<1>9. ASSUME NEW w \in Workers, ScanBatch(w) PROVE TypeInv'
  <2>1. worker[w].job \in Slot /\ file[worker[w].job] \in Kinds
    BY <1>2, <1>9, FrameKind DEF ScanBatch, Slot
  <2>2. chan' \in [Slot -> [item : Kinds \cup {"none", "eof"}, closed : BOOLEAN]]
    BY <1>9, <2>1 DEF ScanBatch, TypeInv
  <2> QED
    BY <1>1, <1>9, <2>2 DEF ScanBatch, TypeInv
<1>10. CASE Pull \/ PullDone
  <2>1. worker' \in [Workers -> [pc : {"off", "ready", "idle", "work", "end"},
                                 job : 0 .. Len(file) + 1]]
    BY <1>10, FrameKind DEF Pull, PullDone, Start, TypeInv
  <2>2. /\ DOMAIN input' = {"pc", "pos", "w"} /\ input'.pos = input.pos
        /\ input'.pc \in {"read", input.pc}
    BY <1>10 DEF Pull, PullDone, Start, TypeInv
  <2>3. op' \in [pc : {"idle", "select", "recv", "drain"}, cur : 0 .. Len(file) + 1]
    BY <1>10 DEF Pull, PullDone, TypeInv
  <2> QED
    BY <1>1, <1>10, <2>1, <2>2, <2>3 DEF Pull, PullDone, TypeInv
<1>11. CASE SelectResult
  <2>1. op' \in [pc : {"idle", "select", "recv", "drain"}, cur : 0 .. Len(file) + 1]
        /\ results' \in Seq(Slot)
    <3>1. results \in Seq(Slot) /\ Len(file) \in Nat
      BY FrameKind DEF TypeInv
    <3>2. CASE results # <<>>
      <4>1. Head(results) \in Slot /\ Tail(results) \in Seq(Slot)
        BY <3>1, <3>2, Tailed
      <4> QED
        BY <1>11, <3>1, <3>2, <4>1 DEF SelectResult, Slot
    <3>3. CASE results = <<>>
      BY <1>11, <3>1, <3>3 DEF SelectResult
    <3> QED
      BY <3>2, <3>3
  <2> QED
    BY <1>1, <1>11, <2>1 DEF SelectResult, TypeInv
<1>12. CASE SelectCancelled \/ Cancel
  BY <1>1, <1>12 DEF SelectCancelled, Cancel, TypeInv
<1>13. CASE Receive
  <2>1. op.cur \in Slot
    BY <1>13, FrameKind DEF Receive, TypeInv, Slot
  <2>2. seen' \in Seq(Slot)
    <3>1. seen \in Seq(Slot) /\ (seen' = seen \/ seen' = Append(seen, op.cur))
      BY <1>13 DEF Receive, TypeInv
    <3> QED
      BY <2>1, <3>1, Appended
  <2>3. op' \in [pc : {"idle", "select", "recv", "drain"}, cur : 0 .. Len(file) + 1]
    <3>1. op' = [pc |-> "select", cur |-> 0] \/ op' = [pc |-> "idle", cur |-> 0]
      BY <1>13, ReceiveCases
    <3>2. 0 \in 0 .. Len(file) + 1
      BY FrameKind
    <3> QED
      BY <3>1, <3>2
  <2>4. stopped' \in BOOLEAN
    BY <1>13, ReceiveCases, Zenon DEF TypeInv
  <2>5. status' \in {"open", "eos", "error", "done", "cancelled"}
    BY <1>13, ReceiveCases DEF TypeInv
  <2> QED
    BY <1>1, <1>13, <2>2, <2>3, <2>4, <2>5 DEF Receive, TypeInv
<1>14. CASE Drain
  <2>1. results' \in Seq(Slot)
    <3>1. results \in Seq(Slot)
      BY DEF TypeInv
    <3>2. results' = results \/ (results # <<>> /\ results' = Tail(results))
      BY <1>14 DEF Drain
    <3> QED
      BY <3>1, <3>2, Tailed
  <2> QED
    BY <1>1, <1>14, <2>1 DEF Drain, TypeInv
<1> QED
  BY <1>3, <1>4, <1>5, <1>6, <1>7, <1>8, <1>9, <1>10, <1>11, <1>12, <1>13, <1>14
     DEF Next, OpStep, InputStep, WorkerStep

-----------------------------------------------------------------------------
(* The end of the input goroutine, what it and the workers hold, and what  *)
(* the result channels give.                                               *)

(* A step that is not the input goroutine's leaves input alone, or starts  *)
(* it.                                                                     *)
LEMMA InputMoves ==
  ASSUME TypeInv, Next
  PROVE \/ InputStep
        \/ /\ input'.pos = input.pos /\ closed' = closed
           /\ input'.pc = input.pc \/ (input.pc = "off" /\ input'.pc = "read")
  BY DEF Next, TypeInv, OpStep, WorkerStep, Pull, PullDone, Start, Cancel, SelectResult,
     SelectCancelled, Receive, Drain, Ready, ScanBatch, WorkerStops

LEMMA EndStep == IInv /\ Next => EndInv'
<1> SUFFICES ASSUME IInv, Next PROVE EndInv'
  OBVIOUS
<1> USE DEF IInv
<1>1. closed' => input'.pc = "end"
  <2>1. CASE InputStep
    BY <2>1 DEF InputStep, ReadFrame, TakeWorker, PostResult, GiveWork, SendControl,
          InputStops, TypeInv, EndInv
  <2> QED
    BY <2>1, InputMoves DEF EndInv
<1>2. closed => closed'
  <2>1. CASE InputStep
    BY <2>1 DEF InputStep, ReadFrame, TakeWorker, PostResult, GiveWork, SendControl, InputStops
  <2> QED
    BY <2>1, InputMoves
<1>3. status' = "done" => status = "done" \/ closed
  BY DEF Next, OpStep, InputStep, WorkerStep, Pull, PullDone, Cancel, SelectResult,
     SelectCancelled, Receive, Drain, ReadFrame, TakeWorker, PostResult, GiveWork,
     SendControl, InputStops, Ready, ScanBatch, WorkerStops
<1> QED
  BY <1>1, <1>2, <1>3 DEF EndInv

LEMMA FrameStep == IInv /\ Next => FrameInv'
<1> SUFFICES ASSUME IInv, Next PROVE FrameInv'
  OBVIOUS
<1> USE DEF IInv
<1>1. file' = file
  BY FileFixed
<1>2. /\ input'.pc = "off" => input'.pos = 0
      /\ input'.pc = "read" => input'.pos <= Len(file)
      /\ input'.pc \in {"worker", "post", "give"} => Frame(input'.pos) \in Decoded
      /\ input'.pc = "control" => Frame(input'.pos) = "control"
      /\ input'.pc \in Pending \cup {"give"} => input'.pos # 0
  <2>1. CASE ReadFrame
    <3>1. input.pos + 1 \in Slot /\ input.pos \in Nat
      BY <2>1, FrameKind DEF ReadFrame, FrameInv, TypeInv, Slot
    <3>2. Frame(input.pos + 1) \in Kinds \cup {"eof"}
      BY <3>1, FrameKind
    <3> QED
      BY <2>1, <3>1, <3>2 DEF ReadFrame, TypeInv, Kinds, Decoded, Pending
  <2>2. CASE TakeWorker \/ PostResult
    BY <2>2 DEF TakeWorker, PostResult, TypeInv, FrameInv, Pending
  <2>3. CASE GiveWork \/ SendControl \/ InputStops
    <3>1. /\ input'.pos = input.pos
          /\ input'.pc = "end" \/ (input'.pc = "read" /\ input.pc \in {"give", "control"})
      BY <2>3 DEF GiveWork, SendControl, InputStops, TypeInv
    <3>2. input.pc \in {"give", "control"} => input.pos \in Slot /\ Frame(input.pos) # "eof"
      BY FrameKind DEF FrameInv, Decoded, Pending, Slot, TypeInv
    <3>3. input'.pc = "read" => input'.pos <= Len(file)
      BY <3>1, <3>2, FrameKind
    <3> QED
      BY <3>1, <3>3 DEF Pending
  <2>4. CASE input'.pos = input.pos /\ input'.pc = input.pc
    BY <2>4 DEF FrameInv
  <2>5. CASE input'.pos = input.pos /\ input.pc = "off" /\ input'.pc = "read"
    BY <2>5, FrameKind DEF FrameInv, Pending
  <2> QED
    BY <2>1, <2>2, <2>3, <2>4, <2>5, InputMoves DEF InputStep
<1>3. ASSUME NEW w \in Workers, worker'[w].pc = "work"
      PROVE worker'[w].job # 0 /\ Frame(worker'[w].job) \in Decoded
  <2>1. CASE GiveWork /\ w = input.w
    BY <2>1 DEF GiveWork, TypeInv, FrameInv
  <2>2. worker'[w] = worker[w] \/ (GiveWork /\ w = input.w)
    <3>1. CASE Pull \/ PullDone
      BY <1>3, <3>1 DEF Pull, PullDone, Start
    <3>2. CASE OpStep \/ Cancel
      BY <3>2 DEF OpStep, Cancel, SelectResult, SelectCancelled, Receive, Drain
    <3>3. CASE InputStep /\ ~GiveWork
      BY <3>3 DEF InputStep, ReadFrame, TakeWorker, PostResult, SendControl, InputStops
    <3>4. CASE GiveWork
      BY <3>4 DEF GiveWork, TypeInv
    <3>5. ASSUME NEW v \in Workers, WorkerStep(v) PROVE worker'[w] = worker[w]
      <4>1. v # w => worker'[w] = worker[w]
        BY <3>5 DEF WorkerStep, Ready, ScanBatch, WorkerStops, TypeInv
      <4>2. worker'[v].pc # "work"
        BY <3>5 DEF WorkerStep, Ready, ScanBatch, WorkerStops, TypeInv
      <4> QED
        BY <1>3, <4>1, <4>2
    <3> QED
      BY <3>1, <3>2, <3>3, <3>4, <3>5 DEF Next
  <2> QED
    BY <1>3, <2>1, <2>2 DEF FrameInv
<1> QED
  BY <1>1, <1>2, <1>3 DEF FrameInv, Frame

LEMMA ChanStep == IInv /\ Next => ChanInv'
<1> SUFFICES ASSUME IInv, Next, NEW n \in Slot
             PROVE /\ chan'[n].item \in {"none", Frame(n)}
                   /\ chan'[n].closed /\ chan'[n].item = "none"
                        => Frame(n) = "filtered" \/ (n = input'.pos /\ input'.pc = "end")
  BY FileFixed DEF ChanInv, Frame
<1> USE DEF IInv
<1>1. CASE ReadFrame
  <2>1. Frame(n) \in Kinds \cup {"eof"} /\ input.pc # "end"
    BY <1>1, FrameKind DEF ReadFrame
  <2>2. CASE chan'[n] = chan[n]
    BY <2>1, <2>2 DEF ChanInv
  <2>3. CASE chan'[n].item = Frame(n) /\ Frame(n) # "none"
    BY <2>3
  <2>4. chan'[n] = chan[n] \/ chan'[n].item = Frame(n)
    BY <1>1 DEF ReadFrame, TypeInv
  <2> QED
    BY <2>1, <2>2, <2>3, <2>4 DEF Kinds
<1>2. ASSUME NEW w \in Workers, ScanBatch(w)
      PROVE /\ chan'[n].item \in {"none", Frame(n)}
            /\ chan'[n].closed /\ chan'[n].item = "none"
                 => Frame(n) = "filtered" \/ (n = input'.pos /\ input'.pc = "end")
  <2>1. worker[w].job \in Slot /\ Frame(worker[w].job) = file[worker[w].job]
          /\ file[worker[w].job] \in Kinds
    BY <1>2, FrameKind DEF ScanBatch, FrameInv, TypeInv, Decoded, Slot
  <2>2. CASE n = worker[w].job
    BY <1>2, <2>1, <2>2 DEF ScanBatch, TypeInv, Kinds
  <2>3. CASE n # worker[w].job
    BY <1>2, <2>1, <2>3 DEF ScanBatch, TypeInv, ChanInv
  <2> QED
    BY <2>2, <2>3
<1>3. CASE InputStops
  <2>1. CASE input.pc = "give" /\ n = input.pos
    BY <1>3, <2>1 DEF InputStops, TypeInv, ChanInv
  <2>2. CASE ~(input.pc = "give" /\ n = input.pos)
    BY <1>3, <2>2 DEF InputStops, TypeInv, ChanInv
  <2> QED
    BY <2>1, <2>2
<1>4. CASE TakeWorker \/ PostResult \/ GiveWork \/ SendControl
  BY <1>4 DEF TakeWorker, PostResult, GiveWork, SendControl, ChanInv
<1>5. CASE Pull \/ PullDone \/ Cancel \/ OpStep \/ \E w \in Workers : Ready(w) \/ WorkerStops(w)
  <2>1. chan' = chan
    BY <1>5 DEF OpStep, Pull, PullDone, Cancel,
       SelectResult, SelectCancelled, Receive, Drain, Ready, WorkerStops
  <2>2. input.pc = "end" => input'.pc = "end" /\ input'.pos = input.pos
    BY InputMoves DEF InputStep, ReadFrame, TakeWorker, PostResult, GiveWork, SendControl, InputStops
  <2> QED
    BY <2>1, <2>2 DEF ChanInv
<1> QED
  BY <1>1, <1>2, <1>3, <1>4, <1>5 DEF Next, InputStep, WorkerStep

-----------------------------------------------------------------------------
(* The order of the file. *)

(* The steps that change neither the queue nor what the operator has and   *)
(* waits for. *)
LEMMA Elsewhere ==
  ASSUME TypeInv, Next, ~PostResult, ~SendControl, ~SelectResult, ~Receive, ~Drain
  PROVE results' = results /\ op'.cur = op.cur /\ seen' = seen
  BY DEF Next, OpStep, InputStep, WorkerStep, Pull, PullDone, Cancel,
     SelectCancelled, ReadFrame, TakeWorker, GiveWork, InputStops, Ready, ScanBatch,
     WorkerStops, TypeInv

(* Reading moves on; nothing else that a goroutine waits to queue moves.   *)
LEMMA PosMoves ==
  ASSUME TypeInv, FrameInv, Next, ~PostResult, ~SendControl
  PROVE \/ /\ input.pc = "read" /\ input'.pos = input.pos + 1 /\ input'.pc \in Pending
           /\ ReadFrame
        \/ /\ input'.pos = input.pos
           /\ input'.pc \in Pending => input.pc \in Pending
<1>1. CASE ReadFrame
  BY <1>1 DEF ReadFrame, TypeInv, Pending
<1>2. CASE InputStep /\ ~ReadFrame
  BY <1>2 DEF InputStep, TakeWorker, GiveWork, InputStops, TypeInv, Pending
<1> QED
  BY <1>1, <1>2, InputMoves DEF Pending

LEMMA OrderStep == IInv /\ Next => OrderInv'
<1> SUFFICES ASSUME IInv, Next PROVE OrderInv'
  OBVIOUS
<1> USE DEF IInv
<1> DEFINE All == ToSet(results) \cup {op.cur} \cup ToSet(seen)
<1>1. /\ Len(file) \in Nat /\ input.pos \in Nat /\ op.cur \in Nat
      /\ results \in Seq(Slot) /\ seen \in Seq(Slot) /\ Slot \subseteq Nat \ {0}
      /\ ToSet(results) \subseteq Slot /\ ToSet(seen) \subseteq Slot
  BY FrameKind DEF TypeInv, Slot, ToSet
<1>2. CASE ~PostResult /\ ~SendControl /\ ~SelectResult /\ ~Receive /\ ~Drain
  <2>1. results' = results /\ op'.cur = op.cur /\ seen' = seen
    BY <1>2, Elsewhere
  <2>2. \A n \in All : n <= input'.pos /\ (input'.pc \in Pending => n < input'.pos)
    <3>1. \A n \in All : n \in Nat /\ n <= input.pos /\ (input.pc \in Pending => n < input.pos)
      BY <1>1 DEF OrderInv
    <3> QED
      BY <1>1, <1>2, <3>1, PosMoves
  <2> QED
    BY <2>1, <2>2 DEF OrderInv
<1>3. CASE PostResult \/ SendControl
  <2>1. /\ input.pos \in Slot /\ results' = Append(results, input.pos)
        /\ input.pc \in Pending /\ input'.pc \notin Pending /\ input'.pos = input.pos
        /\ op' = op /\ seen' = seen
    BY <1>3, <1>1 DEF PostResult, SendControl, Pending, FrameInv, TypeInv, Slot
  <2>2. \A n \in All : n < input.pos /\ n \in Nat
    BY <2>1, <1>1 DEF OrderInv
  <2>3. /\ ToSet(results') = ToSet(results) \cup {input.pos}
        /\ DOMAIN results' = 1 .. Len(results) + 1 /\ DOMAIN results = 1 .. Len(results)
        /\ Len(results) \in Nat
        /\ \A i \in 1 .. Len(results) : results'[i] = results[i]
        /\ results'[Len(results) + 1] = input.pos
    BY <2>1, <1>1, Appended
  <2>4. ASSUME NEW i \in DOMAIN results', NEW j \in DOMAIN results', i < j
        PROVE results'[i] < results'[j]
    <3>1. i \in DOMAIN results /\ results'[i] = results[i]
      BY <2>3, <2>4
    <3>2. CASE j \in DOMAIN results
      BY <2>3, <2>4, <3>1, <3>2 DEF OrderInv
    <3>3. CASE j = Len(results) + 1
      <4>1. results[i] \in All
        BY <3>1 DEF ToSet
      <4> QED
        BY <2>2, <2>3, <3>1, <3>3, <4>1
    <3> QED
      BY <2>3, <3>2, <3>3
  <2>5. \A n \in ToSet(results') \cup {op'.cur} \cup ToSet(seen') : n <= input'.pos
    BY <1>1, <2>1, <2>2, <2>3
  <2>6. \A n \in ToSet(results') : op'.cur < n /\ \A m \in ToSet(seen') : m < n
    BY <1>1, <2>1, <2>2, <2>3 DEF OrderInv
  <2> QED
    BY <2>1, <2>4, <2>5, <2>6 DEF OrderInv
<1>4. CASE SelectResult \/ Drain
  <2>1. /\ input' = input /\ seen' = seen
        /\ \/ results' = results /\ op'.cur \in {0, op.cur}
           \/ results # <<>> /\ results' = Tail(results) /\ op'.cur \in {op.cur, Head(results)}
    BY <1>4 DEF SelectResult, Drain, TypeInv
  <2>2. CASE results' = results /\ op'.cur \in {0, op.cur}
    <3>1. \A n \in ToSet(results) : 0 < n
      BY <1>1 DEF Slot
    <3>2. 0 <= input.pos /\ (input.pc \in Pending => 0 < input.pos)
      BY <1>1 DEF FrameInv
    <3> QED
      BY <2>1, <2>2, <3>1, <3>2 DEF OrderInv
  <2>3. CASE results # <<>> /\ results' = Tail(results) /\ op'.cur \in {op.cur, Head(results)}
    <3>1. /\ ToSet(results) = {Head(results)} \cup ToSet(results')
          /\ DOMAIN results = 1 .. Len(results) /\ DOMAIN results' = 1 .. Len(results) - 1
          /\ Len(results) \in Nat \ {0} /\ Head(results) = results[1]
          /\ \A i \in 1 .. Len(results) - 1 : results'[i] = results[i + 1]
      BY <2>3, <1>1, Tailed
    <3>2. \A i, j \in DOMAIN results' : i < j => results'[i] < results'[j]
      BY <3>1 DEF OrderInv
    <3>3. \A n \in ToSet(results') : Head(results) < n
      <4> SUFFICES ASSUME NEW i \in DOMAIN results' PROVE results[1] < results'[i]
        BY <3>1 DEF ToSet
      <4> QED
        BY <3>1 DEF OrderInv
    <3>4. \A n \in ToSet(results') : op'.cur < n
      BY <2>3, <3>1, <3>3 DEF OrderInv
    <3>5. op'.cur # 0 => \A m \in ToSet(seen') : m < op'.cur
      BY <2>1, <2>3, <3>1 DEF OrderInv
    <3> QED
      BY <2>1, <2>3, <3>1, <3>2, <3>4, <3>5 DEF OrderInv
  <2> QED
    BY <2>1, <2>2, <2>3
<1>5. CASE Receive
  <2>1. /\ input' = input /\ results' = results /\ op.cur # 0 /\ op'.cur = 0
        /\ seen' = seen \/ seen' = Append(seen, op.cur)
    BY <1>5, ReceiveCases DEF Receive
  <2>2. op.cur \in Slot
    BY <2>1, <1>1 DEF TypeInv, Slot
  <2>3. ToSet(seen') \subseteq ToSet(seen) \cup {op.cur}
    <3>1. ToSet(Append(seen, op.cur)) = ToSet(seen) \cup {op.cur}
      BY <2>2, <1>1, Appended
    <3> QED
      BY <2>1, <3>1
  <2>4. \A n \in ToSet(results) : 0 < n
    BY <1>1 DEF Slot
  <2>5. 0 <= input.pos /\ (input.pc \in Pending => 0 < input.pos)
    BY <1>1 DEF FrameInv
  <2> QED
    BY <2>1, <2>3, <2>4, <2>5 DEF OrderInv
<1> QED
  BY <1>2, <1>3, <1>4, <1>5

-----------------------------------------------------------------------------
(* Nothing is lost. *)

LEMMA CoverStep == IInv /\ Next => CoverInv'
<1> SUFFICES ASSUME IInv, Next PROVE CoverInv'
  OBVIOUS
<1> USE DEF IInv
<1> DEFINE Read(n) == n < input.pos \/ (n = input.pos /\ input.pc \in {"read", "give"})
           ReadNow(n) == n < input'.pos \/ (n = input'.pos /\ input'.pc \in {"read", "give"})
           Kept(n) == /\ Failing(n) => n \in {op.cur} \cup ToSet(results)
                      /\ Due(n) => n \in ToSet(seen) \cup {op.cur} \cup ToSet(results)
           KeptNow(n) == /\ Failing(n) => n \in {op'.cur} \cup ToSet(results')
                         /\ Due(n)' => n \in ToSet(seen') \cup {op'.cur} \cup ToSet(results')
<1>1. /\ Len(file) \in Nat /\ input.pos \in Nat /\ op.cur \in 0 .. Len(file) + 1
      /\ results \in Seq(Slot) /\ seen \in Seq(Slot) /\ file' = file
  BY FrameKind, FileFixed DEF TypeInv
<1>2. (op'.pc # "recv" => op'.cur = 0) /\ (op'.pc # "idle" => status' = "open")
  <2>1. CASE Receive
    BY <2>1, ReceiveCases DEF Receive, CoverInv
  <2>2. CASE SelectResult
    BY <2>2 DEF SelectResult, CoverInv
  <2>3. CASE Pull \/ PullDone \/ SelectCancelled
    BY <2>3 DEF Pull, PullDone, SelectCancelled, CoverInv, TypeInv
  <2>4. CASE Drain
    BY <2>4 DEF Drain, CoverInv, TypeInv
  <2>5. CASE Cancel \/ InputStep \/ \E w \in Workers : WorkerStep(w)
    <3>1. op' = op /\ status' = status
      BY <2>5 DEF Cancel, InputStep, WorkerStep, ReadFrame, TakeWorker, PostResult, GiveWork,
         SendControl, InputStops, Ready, ScanBatch, WorkerStops
    <3> QED
      BY <3>1 DEF CoverInv
  <2> QED
    BY <2>1, <2>2, <2>3, <2>4, <2>5 DEF Next, OpStep
<1>4. ASSUME Live' PROVE Live /\ ~stopped /\ ~stopped' /\ ~PullDone /\ ~Drain
  <2>1. Live /\ ~PullDone /\ ~Drain
    BY <1>4 DEF Live, CoverInv, TypeInv, Next, OpStep, InputStep, WorkerStep, Pull, PullDone,
       Cancel, SelectResult, SelectCancelled, Receive, Drain, ReadFrame, TakeWorker, PostResult,
       GiveWork, SendControl, InputStops, Ready, ScanBatch, WorkerStops
  <2>2. ~stopped
    BY <2>1 DEF CoverInv
  <2>3. stopped' = stopped
    BY <1>4, <2>1 DEF Live, CoverInv, TypeInv, Next, OpStep, InputStep, WorkerStep, Pull, PullDone,
       Cancel, SelectResult, SelectCancelled, Receive, Drain, ReadFrame, TakeWorker, PostResult,
       GiveWork, SendControl, InputStops, Ready, ScanBatch, WorkerStops
  <2> QED
    BY <2>1, <2>2, <2>3
<1>5. ASSUME NEW n, Due(n)' PROVE Due(n)
  <2>1. ctxDone => ctxDone'
    BY DEF Next, OpStep, InputStep, WorkerStep, Pull, PullDone, Cancel, SelectResult,
       SelectCancelled, Receive, Drain, ReadFrame, TakeWorker, PostResult, GiveWork,
       SendControl, InputStops, Ready, ScanBatch, WorkerStops
  <2> QED
    BY <1>1, <1>5, <2>1 DEF Due, Frame
<1>6. ASSUME Live', NEW n \in DOMAIN file, ReadNow(n) PROVE KeptNow(n)
  <2>1. Live /\ n \in Nat /\ (Read(n) => Kept(n))
    BY <1>1, <1>4, <1>6 DEF CoverInv
  <2>2. CASE ~PostResult /\ ~SendControl /\ ~SelectResult /\ ~Receive /\ ~Drain
    <3>1. results' = results /\ op'.cur = op.cur /\ seen' = seen
      BY <2>2, Elsewhere
    <3>2. CASE Read(n)
      BY <2>1, <3>1, <3>2, <1>5
    <3>3. CASE ~Read(n)
      <4>1. InputStops /\ input.pc = "control" /\ n = input.pos
        <5>1. CASE ReadFrame
          BY <1>1, <1>6, <2>1, <3>3, <5>1 DEF ReadFrame, TypeInv
        <5>2. CASE TakeWorker \/ GiveWork
          BY <1>1, <1>6, <2>1, <3>3, <5>2 DEF TakeWorker, GiveWork, TypeInv
        <5>3. CASE InputStops
          BY <1>1, <1>6, <2>1, <3>3, <5>3 DEF InputStops, TypeInv
        <5>4. CASE input'.pos = input.pos /\ input'.pc = input.pc
          BY <1>6, <3>3, <5>4
        <5>5. CASE input'.pos = input.pos /\ input.pc = "off"
          BY <1>1, <1>6, <3>3, <5>5 DEF FrameInv
        <5> QED
          BY <2>2, <5>1, <5>2, <5>3, <5>4, <5>5, InputMoves DEF InputStep
      <4>2. Frame(n) = "control" /\ ctxDone'
        BY <4>1, <1>4, <1>6 DEF FrameInv, InputStops, Stop
      <4> QED
        BY <4>2, <1>1 DEF Failing, Due, Frame
    <3> QED
      BY <3>2, <3>3
  <2>3. CASE PostResult \/ SendControl
    <3>1. /\ input.pos \in Slot /\ results' = Append(results, input.pos)
          /\ input'.pos = input.pos /\ op' = op /\ seen' = seen
      BY <2>3, <1>1 DEF PostResult, SendControl, Pending, FrameInv, TypeInv, Slot
    <3>2. ToSet(results') = ToSet(results) \cup {input.pos}
      BY <3>1, <1>1, Appended
    <3>3. n = input.pos \/ Read(n)
      BY <1>6, <3>1
    <3> QED
      BY <2>1, <3>1, <3>2, <3>3, <1>5
  <2>4. CASE SelectResult
    <3>1. input' = input /\ seen' = seen /\ op.cur = 0
      BY <2>4 DEF SelectResult, CoverInv
    <3>2. ToSet(results) \subseteq {op'.cur} \cup ToSet(results')
      <4>1. CASE results # <<>>
        <5>1. ToSet(results) = {Head(results)} \cup ToSet(Tail(results))
          BY <4>1, <1>1, Tailed
        <5> QED
          BY <5>1, <4>1, <2>4 DEF SelectResult
      <4>2. CASE results = <<>>
        BY <4>2, <2>4 DEF SelectResult
      <4> QED
        BY <4>1, <4>2
    <3>3. n # 0
      BY <1>1
    <3> QED
      BY <1>5, <1>6, <2>1, <3>1, <3>2, <3>3
  <2>5. CASE Receive
    <3>1. input' = input /\ results' = results /\ op.cur # 0 /\ status = "open" /\ status' = "open"
      BY <1>6, <2>1, <2>5 DEF Receive, Live
    <3>2. Kept(n)
      BY <1>6, <2>1, <3>1
    <3>3. op.cur \in Slot
      BY <1>1, <3>1 DEF Slot
    <3>4. CASE n # op.cur
      <4>1. ToSet(seen) \subseteq ToSet(seen')
        <5>1. ToSet(Append(seen, op.cur)) = ToSet(seen) \cup {op.cur}
          BY <3>3, <1>1, Appended
        <5>2. seen' = seen \/ seen' = Append(seen, op.cur)
          BY <2>5, ReceiveCases
        <5> QED
          BY <5>1, <5>2
      <4> QED
        BY <3>1, <3>2, <3>4, <4>1, <1>5
    <3>5. CASE n = op.cur
      <4>1. CASE chan[n].item = "none" /\ chan[n].closed /\ seen' = seen
        <5>1. Frame(n) = "filtered" \/ (n = input.pos /\ input.pc = "end")
          BY <3>3, <3>5, <4>1 DEF ChanInv
        <5>2. Frame(n) = "filtered"
          BY <5>1, <1>6, <3>1, <1>1
        <5> QED
          BY <5>2, <1>5 DEF Failing, Due
      <4>2. CASE chan[n].item \in {"data", "control"} /\ seen' = Append(seen, op.cur)
        <5>1. ToSet(seen') = ToSet(seen) \cup {n}
          BY <3>3, <3>5, <4>2, <1>1, Appended
        <5>2. Frame(n) \in {"data", "control"}
          BY <3>3, <3>5, <4>2 DEF ChanInv
        <5> QED
          BY <5>1, <5>2 DEF Failing
      <4>3. status' # "open" \/ (chan[n].item = "none" /\ chan[n].closed /\ seen' = seen)
              \/ (chan[n].item \in {"data", "control"} /\ seen' = Append(seen, op.cur))
        BY <2>5, <3>5, ReceiveCases
      <4> QED
        BY <3>1, <4>1, <4>2, <4>3
    <3> QED
      BY <3>4, <3>5
  <2> QED
    BY <1>4, <1>6, <2>2, <2>3, <2>4, <2>5
<1>7. \A n : Failing(n)' = Failing(n)
  BY <1>1 DEF Failing, Frame
<1> QED
  BY <1>1, <1>2, <1>4, <1>6, <1>7 DEF CoverInv

-----------------------------------------------------------------------------
(* What the operator gets. *)

LEMMA InOrderStep == IInv /\ Next => InOrder'
<1> SUFFICES ASSUME IInv, Next PROVE InOrder'
  OBVIOUS
<1> USE DEF IInv
<1>1. /\ file' = file /\ Len(file) \in Nat /\ DOMAIN file = 1 .. Len(file)
      /\ seen \in Seq(Slot) /\ Slot \subseteq Nat \ {0}
  BY FileFixed, FrameKind DEF TypeInv, Slot
<1>2. \A n : (Failing(n)' <=> Failing(n)) /\ (Visible(n)' <=> Visible(n)) /\ (Due(n)' => Due(n))
  <2>1. ctxDone => ctxDone'
    BY DEF Next, OpStep, InputStep, WorkerStep, Pull, PullDone, Cancel, SelectResult,
       SelectCancelled, Receive, Drain, ReadFrame, TakeWorker, PostResult, GiveWork,
       SendControl, InputStops, Ready, ScanBatch, WorkerStops
  <2> QED
    BY <1>1, <2>1 DEF Failing, Visible, Due, Frame
<1>3. CASE ~Receive
  <2>1. seen' = seen /\ status' \in {status, "done", "cancelled"}
    BY <1>3 DEF Next, OpStep, InputStep, WorkerStep, Pull, PullDone, Cancel, SelectResult,
       SelectCancelled, Drain, ReadFrame, TakeWorker, PostResult, GiveWork,
       SendControl, InputStops, Ready, ScanBatch, WorkerStops
  <2> QED
    BY <1>1, <1>2, <2>1 DEF InOrder
<1>4. CASE Receive
  <2> DEFINE n == op.cur
  <2>1. n \in Slot /\ Live /\ n <= input.pos
    BY <1>1, <1>4 DEF Receive, TypeInv, CoverInv, Live, Slot, OrderInv
  <2>2. chan[n].item \in {"none", Frame(n)}
    BY <2>1 DEF ChanInv
  <2>3. ASSUME NEW k \in 1 .. n - 1, k \in DOMAIN file
        PROVE ~Failing(k) /\ (Due(k) => k \in ToSet(seen))
    <3>1. k < n /\ k < input.pos
      BY <1>1, <2>1 DEF TypeInv
    <3>2. k \notin {op.cur} \cup ToSet(results)
      <4>1. n \in Nat /\ k \in Nat
        BY <2>1, <1>1 DEF Slot
      <4>2. ASSUME NEW m \in ToSet(results) PROVE k < m
        <5>1. m \in Slot
          BY <1>1 DEF TypeInv, ToSet
        <5>2. m \in Nat /\ n < m
          BY <1>1, <5>1 DEF OrderInv
        <5> QED
          BY <3>1, <4>1, <5>2
      <4>3. k \notin ToSet(results)
        BY <4>1, <4>2
      <4> QED
        BY <3>1, <4>1, <4>3
    <3> QED
      BY <2>1, <2>3, <3>1, <3>2 DEF CoverInv
  <2>4. status = "open"
    BY <2>1 DEF Live
  <2>5. CASE chan[n].item = "none" /\ UNCHANGED <<seen, status>>
    BY <1>1, <1>2, <2>5 DEF InOrder
  <2>6. CASE chan[n].item \in {"data", "control"} /\ seen' = Append(seen, n) /\ status' = status
    <3>1. Visible(n) /\ n \in 1 .. Len(file)
      BY <2>1, <2>2, <2>6, FrameKind DEF Visible
    <3>2. /\ DOMAIN seen' = 1 .. Len(seen) + 1 /\ DOMAIN seen = 1 .. Len(seen) /\ Len(seen) \in Nat
          /\ \A i \in 1 .. Len(seen) : seen'[i] = seen[i]
          /\ seen'[Len(seen) + 1] = n
      BY <1>1, <2>1, <2>6, Appended
    <3>3. ASSUME NEW i \in DOMAIN seen'
          PROVE /\ Visible(seen'[i])
                /\ \A k \in 1 .. seen'[i] - 1 :
                      ~Failing(k) /\ (Due(k)' => \E j \in 1 .. i - 1 : seen'[j] = k)
                /\ \A j \in 1 .. i - 1 : seen'[j] < seen'[i]
      <4>1. CASE i \in DOMAIN seen
        <5>1. \A j \in 1 .. i : seen'[j] = seen[j]
          BY <3>2, <4>1
        <5>2. i \in 1 .. i /\ \A j \in 1 .. i - 1 : j \in 1 .. i
          BY <3>2, <4>1
        <5> QED
          BY <4>1, <5>1, <5>2, <1>2 DEF InOrder
      <4>2. CASE i = Len(seen) + 1
        <5>1. ASSUME NEW k \in 1 .. n - 1
              PROVE ~Failing(k) /\ (Due(k)' => \E j \in 1 .. i - 1 : seen'[j] = k)
          <6>1. k \in DOMAIN file
            BY <1>1, <3>1
          <6>2. ~Failing(k) /\ (Due(k)' => k \in ToSet(seen))
            BY <1>2, <2>3, <6>1
          <6>3. k \in ToSet(seen) => \E j \in 1 .. Len(seen) : seen'[j] = k
            BY <3>2 DEF ToSet
          <6> QED
            BY <3>2, <4>2, <6>2, <6>3
        <5>2. ASSUME NEW j \in 1 .. i - 1 PROVE seen'[j] < n
          <6>1. j \in DOMAIN seen /\ seen'[j] = seen[j]
            BY <3>2, <4>2
          <6>2. seen[j] \in ToSet(seen) /\ n # 0
            BY <6>1, <2>1, <1>1 DEF ToSet
          <6> QED
            BY <6>1, <6>2 DEF OrderInv
        <5> QED
          BY <3>1, <3>2, <4>2, <5>1, <5>2
      <4> QED
        BY <3>2, <4>1, <4>2
    <3> QED
      BY <1>2, <2>4, <2>6, <3>3 DEF InOrder
  <2>7. CASE /\ chan[n].item \in {"bad", "torn", "eof"} /\ seen' = seen
             /\ status' = IF chan[n].item = "eof" THEN "eos" ELSE "error"
    <3>1. CASE chan[n].item = "eof"
      <4>1. n = Len(file) + 1
        BY <2>1, <2>2, <3>1, FrameKind
      <4>2. \A k \in DOMAIN file : ~Failing(k) /\ (Due(k)' => k \in ToSet(seen))
        BY <1>1, <1>2, <2>3, <4>1
      <4> QED
        BY <1>1, <1>2, <2>7, <3>1, <4>2 DEF InOrder
    <3>2. CASE chan[n].item # "eof"
      <4>1. n \in DOMAIN file /\ Failing(n)
        BY <1>1, <2>1, <2>2, <2>7, <3>2, FrameKind DEF Failing
      <4>2. \A k \in 1 .. n - 1 : ~Failing(k) /\ (Due(k)' => k \in ToSet(seen))
        BY <1>1, <1>2, <2>3, <4>1
      <4> QED
        BY <1>1, <1>2, <2>7, <3>2, <4>1, <4>2 DEF InOrder
    <3> QED
      BY <3>1, <3>2
  <2> QED
    BY <1>4, <2>5, <2>6, <2>7, ReceiveCases
<1> QED
  BY <1>3, <1>4

LEMMA InitEstablishes == Init => IInv
<1> SUFFICES ASSUME Init PROVE IInv
  OBVIOUS
<1>1. file \in Seq(Kinds) /\ Len(file) \in Nat /\ DOMAIN file = 1 .. Len(file)
  BY DEF Init
<1>2. ToSet(results) = {} /\ ToSet(seen) = {} /\ results \in Seq(Slot) /\ seen \in Seq(Slot)
        /\ DOMAIN seen = {} /\ DOMAIN results = {}
  BY DEF Init, ToSet
<1>3. TypeInv
  <2>1. /\ input.pc = "off" /\ input.pos = 0 /\ DOMAIN input = {"pc", "pos", "w"}
        /\ op \in [pc : {"idle", "select", "recv", "drain"}, cur : 0 .. Len(file) + 1]
    BY <1>1 DEF Init
  <2>2. worker \in [Workers -> [pc : {"off", "ready", "idle", "work", "end"},
                                job : 0 .. Len(file) + 1]]
    BY <1>1 DEF Init
  <2>3. chan \in [Slot -> [item : Kinds \cup {"none", "eof"}, closed : BOOLEAN]]
    BY DEF Init, Slot
  <2>4. ctxDone \in BOOLEAN /\ stopped \in BOOLEAN /\ closed \in BOOLEAN
    BY DEF Init
  <2> QED
    BY <1>1, <1>2, <2>1, <2>2, <2>3, <2>4 DEF Init, TypeInv
<1>4. EndInv /\ FrameInv
  BY <1>1 DEF Init, EndInv, FrameInv, Pending
<1>5. ChanInv
  BY DEF Init, ChanInv, Slot
<1>6. OrderInv
  BY <1>1, <1>2 DEF Init, OrderInv, Pending
<1>7. CoverInv
  BY <1>1, <1>2 DEF Init, CoverInv
<1>8. InOrder
  BY <1>2 DEF Init, InOrder
<1> QED
  BY <1>3, <1>4, <1>5, <1>6, <1>7, <1>8 DEF IInv

LEMMA NextPreserves == IInv /\ [Next]_vars => IInv'
<1> SUFFICES ASSUME IInv, [Next]_vars PROVE IInv'
  OBVIOUS
<1>1. CASE Next
  BY <1>1, TypeStep, EndStep, FrameStep, ChanStep, OrderStep, CoverStep, InOrderStep DEF IInv
<1>2. CASE UNCHANGED vars
  <2>1. /\ UNCHANGED <<Slot, Live>>
        /\ \A n : /\ Frame(n)' = Frame(n) /\ Failing(n)' = Failing(n)
                  /\ Visible(n)' = Visible(n) /\ Due(n)' = Due(n)
    BY <1>2 DEF vars, Slot, Live, Frame, Failing, Visible, Due
  <2>2. TypeInv' /\ EndInv' /\ OrderInv'
    BY <1>2, <2>1 DEF vars, IInv, TypeInv, EndInv, OrderInv
  <2>3. FrameInv' /\ ChanInv'
    BY <1>2, <2>1 DEF vars, IInv, FrameInv, ChanInv, Frame
  <2>4. CoverInv' /\ InOrder'
    BY <1>2, <2>1 DEF vars, IInv, CoverInv, InOrder
  <2> QED
    BY <2>2, <2>3, <2>4 DEF IInv
<1> QED
  BY <1>1, <1>2

(* The operator gets the batches of the file in file order, none skipped   *)
(* and none twice, for every file and any number of workers and whatever   *)
(* the order in which the workers finish; it is told of the end only when  *)
(* it has them all, and of an error only at the failing frame.             *)
THEOREM BatchesInOrder == Spec => []InOrder
<1>1. IInv => InOrder
  BY DEF IInv
<1> QED
  BY <1>1, InitEstablishes, NextPreserves, PTL DEF Spec

(* When Pull(true) has returned, the input goroutine has ended and does    *)
(* not read behind the caller's back.                                      *)
THEOREM DoneMeansStopped == Spec => []DoneStopsReading
<1>1. IInv => DoneStopsReading
  BY DEF IInv, EndInv, DoneStopsReading
<1> QED
  BY <1>1, InitEstablishes, NextPreserves, PTL DEF Spec
=============================================================================
