--------------------------- MODULE EvaluationRunProofs ---------------------------
(***************************************************************************)
(* Proofs about EvaluationRun for any number of runs, processes and faults *)
(* and any channel capacity.                                               *)
(*                                                                         *)
(* The argument is that of AgentTaskProofs: TableMove lists what a step of *)
(* any actor may do to the table, and what is said of rows follows from    *)
(* it.  The difference is in Held: a worker need not own the row it works  *)
(* on, because a cancel takes the row away and leaves the worker at work.  *)
(* While nothing has gone wrong it owns its row and the lease, or the row  *)
(* has settled; either way nobody else can claim it.                       *)
(***************************************************************************)
EXTENDS EvaluationRun, SequenceTheorems, FiniteSetTheorems, TLAPS

USE Constants DEF Constants

-----------------------------------------------------------------------------
(* What the channel operations return.                                     *)

\* Appending to a channel keeps it a sequence of ids within its capacity.
LEMMA EnqueueBounded ==
    ASSUME NEW q \in Seq(Runs), NEW ids \in Seq(Runs)
    PROVE  Enqueue(q, ids) \in Seq(Runs) /\ Len(Enqueue(q, ids)) <= QueueSize
<1> DEFINE all == q \o ids
<1>1. all \in Seq(Runs)
  BY ConcatProperties
<1>2. CASE Len(all) <= QueueSize
  BY <1>1, <1>2 DEF Enqueue
<1>3. CASE ~(Len(all) <= QueueSize)
  <2>1. \A i \in 1..QueueSize : all[i] \in Runs
    BY <1>1, <1>3, ElementOfSeq
  <2>2. /\ SubSeq(all, 1, QueueSize) \in Seq(Runs)
        /\ Len(SubSeq(all, 1, QueueSize)) = QueueSize
    <3> DEFINE n == QueueSize
    <3>1. n \in Int /\ 1 \in Int /\ n >= 1 /\ n - 1 + 1 = n
      OBVIOUS
    <3>2. \A i \in 1..n : all[i] \in Runs
      BY <2>1
    <3> HIDE DEF n, all
    <3>3. SubSeq(all, 1, n) \in Seq(Runs) /\ Len(SubSeq(all, 1, n)) = n
      BY <3>1, <3>2, SubSeqProperties
    <3> QED BY <3>3 DEF n
  <2> QED BY <1>3, <2>2 DEF Enqueue
<1> QED BY <1>2, <1>3

\* A recovery pass does as well, whatever the order in which the store lists
\* the runnable rows.
LEMMA RecoveredBounded ==
    ASSUME NEW q \in Seq(Runs), NEW p \in Recovered(q)
    PROVE  p \in Seq(Runs) /\ Len(p) <= QueueSize
<1>1. PICK ids \in SetToSeqs(Runnable) : p = Enqueue(q, ids)
  BY DEF Recovered
<1>2. Runnable \subseteq Runs /\ Cardinality(Runnable) \in Nat
  BY FS_Subset, FS_CardinalityType DEF Runnable
<1>3. ids \in [1..Cardinality(Runnable) -> Runs]
  BY <1>1, <1>2 DEF SetToSeqs
<1>4. ids \in Seq(Runs)
  BY <1>2, <1>3, SeqDef
<1> QED BY <1>1, <1>4, EnqueueBounded

-----------------------------------------------------------------------------
(* What a row operation returns.                                           *)

LEMMA NewRowType ==
    ASSUME NEW n \in 1..MaxAttempts, NEW original \in Runs \cup {None}
    PROVE  /\ NewRow(n, original) \in Row
           /\ NewRow(n, original).status = "pending"
           /\ NewRow(n, original).owner = None
           /\ NewRow(n, original).lease = FALSE
           /\ NewRow(n, original).attempt = n
           /\ NewRow(n, original).retryOf = original
<1>1. n \in 0..MaxAttempts
  BY DEF MaxAttempts
<1> QED BY <1>1 DEF Row, NewRow, BlankRow, Gates

LEMMA ClaimedRowType ==
    ASSUME NEW row \in Row, NEW w \in Workers
    PROVE  ClaimedRow(row, w) \in Row
BY DEF ClaimedRow, Row

LEMMA CanceledRowType ==
    ASSUME NEW row \in Row
    PROVE  CanceledRow(row) \in Row
BY DEF CanceledRow, Row, Terminal, Gates

\* The verdict as a row tells it, outcome by outcome.
Tells(r, outcome) ==
    /\ outcome \in FailureCodes =>
         r.status = "failed" /\ r.gate = "error" /\ r.code = outcome
    /\ outcome = "passed" =>
         r.status = "completed" /\ r.gate = "passed" /\ r.code = "none"
    /\ outcome = "below" =>
         r.status = "completed" /\ r.gate = "failed" /\ r.code = "none"
    /\ outcome = "canceled" =>
         r.status = "canceled" /\ r.gate = "canceled" /\ r.code = "none"
    /\ r.cancel \in BOOLEAN /\ (r.cancel <=> outcome = "canceled")
    /\ r.owner = None /\ ~r.lease

LEMMA SettledColumns ==
    ASSUME NEW row \in Row, NEW outcome \in Outcomes
    PROVE  /\ Tells(SettledRow(row, outcome), outcome)
           /\ SettledRow(row, outcome).attempt = row.attempt
           /\ SettledRow(row, outcome).retryOf = row.retryOf
<1>1. CASE outcome \in FailureCodes
  BY <1>1 DEF SettledRow, Tells, Row, FailureCodes
<1>2. CASE outcome = "passed"
  BY <1>2 DEF SettledRow, Tells, Row, FailureCodes
<1>3. CASE outcome = "below"
  BY <1>3 DEF SettledRow, Tells, Row, FailureCodes
<1>4. CASE outcome = "canceled"
  BY <1>4 DEF SettledRow, Tells, Row, FailureCodes
<1> QED BY <1>1, <1>2, <1>3, <1>4 DEF Outcomes

LEMMA SettledRowType ==
    ASSUME NEW row \in Row, NEW outcome \in Outcomes
    PROVE  SettledRow(row, outcome) \in Row /\ SettledRow(row, outcome).status \in Terminal
<1> DEFINE r == SettledRow(row, outcome)
<1>1. r.status \in Terminal
  BY SettledColumns DEF Tells, Outcomes, Terminal
<1>2. r.gate \in Gates /\ r.code \in FailureCodes \cup {"none"} /\ r.cancel \in BOOLEAN
  BY SettledColumns DEF Tells, Outcomes, Gates
<1>3. \E status, gate, code, cancel :
        r = [row EXCEPT !.status = status, !.gate = gate, !.code = code,
                        !.cancel = cancel, !.owner = None, !.lease = FALSE]
  BY ZenonT(60) DEF SettledRow
<1>4. PICK status, gate, code, cancel :
        r = [row EXCEPT !.status = status, !.gate = gate, !.code = code,
                        !.cancel = cancel, !.owner = None, !.lease = FALSE]
  BY <1>3
<1> HIDE DEF r
<1>5. /\ status = r.status /\ gate = r.gate /\ code = r.code /\ cancel = r.cancel
  BY <1>4 DEF Row
<1>6. r \in Row
  BY <1>1, <1>2, <1>4, <1>5 DEF Row
<1> QED BY <1>1, <1>6 DEF r

LEMMA LeaseRowType ==
    ASSUME NEW row \in Row, NEW b \in BOOLEAN
    PROVE  [row EXCEPT !.lease = b] \in Row
BY DEF Row

LEMMA GoneRowType ==
    ASSUME NEW row \in Row
    PROVE  [row EXCEPT !.owner = Gone] \in Row
BY DEF Row

LEMMA OutcomeType ==
    ASSUME NEW seen \in BOOLEAN, NEW w, worker[w].result \in Outcomes,
           worker[w].ctx \in {"live", "deadline", "canceled"}
    PROVE  Outcome(seen, w) \in Outcomes
<1>1. CASE seen
  BY <1>1 DEF Outcome, Outcomes
<1>2. CASE ~seen /\ worker[w].ctx = "live"
  BY <1>2 DEF Outcome
<1>3. CASE ~seen /\ worker[w].ctx = "deadline"
  BY <1>3 DEF Outcome, Outcomes, FailureCodes
<1>4. CASE ~seen /\ worker[w].ctx = "canceled"
  BY <1>4 DEF Outcome, Outcomes, FailureCodes
<1> QED BY <1>1, <1>2, <1>3, <1>4

-----------------------------------------------------------------------------
(* Types.                                                                  *)

\* A worker record as the code leaves it: the rows could not be typed if a
\* worker about to write had not chosen an outcome.
Fit(r) ==
    /\ r \in Worker
    /\ r.phase \in Working => r.run \in Runs
    /\ r.phase \in {"returned", "decided"} => r.result \in Outcomes

RowsTyped == runs \in [Runs -> Row]
WorkersTyped == worker \in [Workers -> Worker] /\ \A w \in Workers : Fit(worker[w])
QueuesTyped ==
    /\ queue \in [Workers -> Seq(Runs)]
    /\ \A w \in Workers : Len(queue[w]) <= QueueSize
SignalsTyped == signals \in [Workers -> SUBSET Runs]
FaultsTyped == faults \in 0..MaxFaults

Typed == RowsTyped /\ WorkersTyped /\ QueuesTyped /\ SignalsTyped /\ FaultsTyped

LEMMA TypedMeans == Typed => TypeOK
BY DEF Typed, RowsTyped, WorkersTyped, QueuesTyped, SignalsTyped, FaultsTyped,
       Fit, TypeOK

\* Writing one entry of a table keeps it typed.
LEMMA RowStep ==
    ASSUME RowsTyped, NEW e \in Runs, NEW r \in Row, runs' = [runs EXCEPT ![e] = r]
    PROVE  RowsTyped'
BY DEF RowsTyped

LEMMA WorkerStep ==
    ASSUME WorkersTyped, NEW w \in Workers, NEW r, Fit(r),
           worker' = [worker EXCEPT ![w] = r]
    PROVE  WorkersTyped'
<1>1. r \in Worker
  BY DEF Fit
<1>2. worker' \in [Workers -> Worker]
  BY <1>1 DEF WorkersTyped
<1>3. \A v \in Workers : worker'[v] = IF v = w THEN r ELSE worker[v]
  BY DEF WorkersTyped
<1>4. \A v \in Workers : Fit(worker'[v])
  BY <1>3 DEF WorkersTyped
<1>5. \A v \in Workers : Fit(worker'[v]) = Fit(worker[v])'
  BY DEF Fit
<1> QED BY <1>2, <1>4 DEF WorkersTyped, Fit

LEMMA QueueStep ==
    ASSUME QueuesTyped, NEW w \in Workers, NEW q \in Seq(Runs), Len(q) <= QueueSize,
           queue' = [queue EXCEPT ![w] = q]
    PROVE  QueuesTyped'
BY DEF QueuesTyped

LEMMA SignalStep ==
    ASSUME SignalsTyped, NEW w \in Workers, NEW s \in SUBSET Runs,
           signals' = [signals EXCEPT ![w] = s]
    PROVE  SignalsTyped'
BY DEF SignalsTyped

LEMMA FaultStep ==
    ASSUME FaultsTyped, Fault \/ NoFault
    PROVE  FaultsTyped'
BY DEF FaultsTyped, Fault, NoFault

LEMMA SameTyped ==
    /\ RowsTyped /\ UNCHANGED runs => RowsTyped'
    /\ WorkersTyped /\ UNCHANGED worker => WorkersTyped'
    /\ QueuesTyped /\ UNCHANGED queue => QueuesTyped'
    /\ SignalsTyped /\ UNCHANGED signals => SignalsTyped'
    /\ FaultsTyped /\ UNCHANGED faults => FaultsTyped'
BY DEF RowsTyped, WorkersTyped, QueuesTyped, SignalsTyped, FaultsTyped, Fit

LEMMA RestFits == Fit(Down) /\ Fit(Idle)
BY DEF Fit, Down, Idle, Worker, Working

LEMMA EmptyQueue == <<>> \in Seq(Runs) /\ Len(<<>>) <= QueueSize
BY EmptySeq

LEMMA InitTyped == Init => Typed
<1> SUFFICES ASSUME Init PROVE Typed
  OBVIOUS
<1>1. RowsTyped
  BY DEF RowsTyped, Init, NoRow, BlankRow, Row, MaxAttempts, Gates
<1>2. WorkersTyped
  <2>1. Down \in Worker
    BY RestFits DEF Fit
  <2> QED BY <2>1, RestFits DEF WorkersTyped, Init
<1>3. QueuesTyped
  BY EmptyQueue DEF QueuesTyped, Init
<1>4. SignalsTyped /\ FaultsTyped
  BY DEF SignalsTyped, FaultsTyped, Init
<1> QED BY <1>1, <1>2, <1>3, <1>4 DEF Typed

\* A process that exits leaves everything typed.
LEMMA ExitTyped ==
    ASSUME Typed, NEW w \in Workers, Exit(w), Fault \/ NoFault
    PROVE  Typed'
<1> USE DEF Typed
<1>1. RowsTyped'
  BY GoneRowType DEF Exit, RowsTyped
<1>2. WorkersTyped'
  BY RestFits, WorkerStep DEF Exit
<1>3. QueuesTyped'
  BY EmptyQueue, QueueStep DEF Exit
<1>4. SignalsTyped'
  BY SignalStep DEF Exit
<1> QED BY <1>1, <1>2, <1>3, <1>4, FaultStep

\* Every action keeps everything typed.
LEMMA StepTyped == Typed /\ [Next]_vars => Typed'
<1> SUFFICES ASSUME Typed, [Next]_vars PROVE Typed'
  OBVIOUS
<1> USE DEF Typed
<1>rows. ASSUME NEW e \in Runs PROVE runs[e] \in Row
  BY DEF RowsTyped
<1>fit. ASSUME NEW w \in Workers PROVE Fit(worker[w])
  BY DEF WorkersTyped
<1>queues. ASSUME NEW w \in Workers
           PROVE  queue[w] \in Seq(Runs) /\ Len(queue[w]) <= QueueSize
  BY DEF QueuesTyped
<1>signals. ASSUME NEW w \in Workers PROVE signals[w] \in SUBSET Runs
  BY DEF SignalsTyped
<1>1. ASSUME NEW w \in Workers, NEW e \in Runs, StartRun(w, e) PROVE Typed'
  <2>1. NewRow(1, None) \in Row
    <3>1. 1 \in 1..MaxAttempts /\ None \in Runs \cup {None}
      BY DEF MaxAttempts
    <3> QED BY <3>1, NewRowType
  <2>2. RowsTyped'
    BY <1>1, <2>1, RowStep DEF StartRun, Insert
  <2>3. QueuesTyped'
    <3>1. <<e>> \in Seq(Runs)
      OBVIOUS
    <3> QED BY <1>1, <1>queues, <3>1, EnqueueBounded, QueueStep DEF StartRun, Insert
  <2> QED BY <1>1, <2>2, <2>3, SameTyped DEF StartRun, Insert
<1>2. ASSUME NEW w \in Workers, NEW e \in Runs, NEW original \in Runs,
             RetryRun(w, original, e)
      PROVE  Typed'
  <2>1. runs[original].attempt + 1 \in 1..MaxAttempts
    BY <1>2, <1>rows DEF RetryRun, Retryable, Row, MaxAttempts
  <2>2. NewRow(runs[original].attempt + 1, original) \in Row
    BY <2>1, NewRowType
  <2>3. RowsTyped'
    BY <1>2, <2>2, RowStep DEF RetryRun, Insert
  <2>4. QueuesTyped'
    <3>1. <<e>> \in Seq(Runs)
      OBVIOUS
    <3> QED BY <1>2, <1>queues, <3>1, EnqueueBounded, QueueStep DEF RetryRun, Insert
  <2> QED BY <1>2, <2>3, <2>4, SameTyped DEF RetryRun, Insert
<1>3. ASSUME NEW w \in Workers, NEW e \in Runs, RequestCancel(w, e) PROVE Typed'
  <2>1. RowsTyped'
    BY <1>3, <1>rows, CanceledRowType, RowStep DEF RequestCancel
  <2>2. SignalsTyped'
    <3>1. signals[w] \cup {e} \in SUBSET Runs
      BY <1>signals
    <3> QED BY <1>3, <3>1, SignalStep DEF RequestCancel
  <2> QED BY <1>3, <2>1, <2>2, SameTyped DEF RequestCancel
<1>4. ASSUME NEW w \in Workers, NEW e \in Runs, SignalCancel(w, e) PROVE Typed'
  <2> DEFINE r == [worker[w] EXCEPT !.ctx = Cancelled(worker[w].ctx)]
  <2>1. Fit(r)
    BY <1>fit DEF Fit, Cancelled, Worker
  <2>2. WorkersTyped'
    BY <1>4, <2>1, WorkerStep, SameTyped DEF SignalCancel
  <2>3. SignalsTyped'
    BY <1>4, <1>signals, SignalStep, ZenonT(60) DEF SignalCancel
  <2> QED BY <1>4, <2>2, <2>3, SameTyped DEF SignalCancel
<1>5. ASSUME NEW w \in Workers, Boot(w) PROVE Typed'
  <2>1. WorkersTyped'
    BY <1>5, RestFits, WorkerStep DEF Boot
  <2>2. QueuesTyped'
    BY <1>5, EmptyQueue, RecoveredBounded, QueueStep DEF Boot
  <2>3. FaultsTyped'
    BY <1>5, FaultStep DEF Boot
  <2> QED BY <1>5, <2>1, <2>2, <2>3, SameTyped DEF Boot
<1>6. ASSUME NEW w \in Workers, Tick(w) PROVE Typed'
  <2>1. QueuesTyped'
    BY <1>6, <1>queues, RecoveredBounded, QueueStep DEF Tick
  <2> QED BY <1>6, <2>1, SameTyped DEF Tick
<1>7. ASSUME NEW w \in Workers, Dequeue(w) PROVE Typed'
  <2> DEFINE e == Head(queue[w])
             r == [Idle EXCEPT !.phase = "claimed", !.run = e, !.beat = TRUE]
  <2>1. /\ e \in Runs
        /\ Tail(queue[w]) \in Seq(Runs) /\ Len(Tail(queue[w])) <= QueueSize
    BY <1>7, <1>queues, HeadTailProperties DEF Dequeue
  <2>2. ClaimedRow(runs[e], w) \in Row
    BY <1>rows, <2>1, ClaimedRowType
  <2>3. Fit(r)
    BY <2>1 DEF Fit, Idle, Down, Worker, Working
  <2>4. \/ UNCHANGED runs
        \/ runs' = [runs EXCEPT ![e] = ClaimedRow(runs[e], w)]
    BY <1>7 DEF Dequeue
  <2>5. RowsTyped'
    BY <2>1, <2>2, <2>4, RowStep, SameTyped
  <2>6. WorkersTyped'
    BY <1>7, <2>3, WorkerStep, SameTyped DEF Dequeue
  <2>7. QueuesTyped'
    BY <1>7, <2>1, QueueStep DEF Dequeue
  <2>8. FaultsTyped'
    BY <1>7, FaultStep DEF Dequeue, NoFault
  <2> QED BY <1>7, <2>5, <2>6, <2>7, <2>8, SameTyped DEF Dequeue
<1>8. ASSUME NEW w \in Workers, ReadSuite(w) PROVE Typed'
  <2> DEFINE c == [worker[w] EXCEPT !.phase = "registered",
                     !.ctx = IF worker[w].stopping THEN "canceled" ELSE "live"]
             d == [worker[w] EXCEPT !.phase = "decided", !.result = "suite_unavailable"]
  <2>1. Fit(c)
    BY <1>8, <1>fit DEF ReadSuite, Fit, Worker, Working
  <2>2. Fit(d)
    BY <1>8, <1>fit DEF ReadSuite, Fit, Worker, Working, Outcomes, FailureCodes
  <2>3. worker' = [worker EXCEPT ![w] = c] \/ worker' = [worker EXCEPT ![w] = d]
    BY <1>8 DEF ReadSuite, Decided
  <2>4. WorkersTyped'
    <3> HIDE DEF c, d
    <3> QED BY <2>1, <2>2, <2>3, WorkerStep
  <2>5. FaultsTyped'
    BY <1>8, FaultStep DEF ReadSuite
  <2> QED BY <1>8, <2>4, <2>5, SameTyped DEF ReadSuite
<1>18. ASSUME NEW w \in Workers, Check(w) PROVE Typed'
  <2>1. PICK ctx \in {worker[w].ctx, Cancelled(worker[w].ctx)} :
          worker' = [worker EXCEPT ![w] =
                       [worker[w] EXCEPT !.phase = "running", !.ctx = ctx]]
    <3>1. [worker[w] EXCEPT !.phase = "running"] =
            [worker[w] EXCEPT !.phase = "running", !.ctx = worker[w].ctx]
      BY <1>fit DEF Fit, Worker
    <3> QED BY <1>18, <3>1 DEF Check, Become
  <2>2. Fit([worker[w] EXCEPT !.phase = "running", !.ctx = ctx])
    BY <1>18, <1>fit DEF Check, Fit, Worker, Working, Cancelled
  <2>3. WorkersTyped'
    BY <2>1, <2>2, WorkerStep
  <2>4. FaultsTyped'
    BY <1>18, FaultStep DEF Check
  <2> QED BY <1>18, <2>3, <2>4, SameTyped DEF Check
<1>9. ASSUME NEW w \in Workers, Heartbeat(w) PROVE Typed'
  <2> DEFINE e == worker[w].run
             r == [worker[w] EXCEPT !.beat = FALSE, !.ctx = Cancelled(worker[w].ctx)]
  <2>1. Fit(r) /\ e \in Runs
    BY <1>9, <1>fit DEF Heartbeat, Fit, Cancelled, Worker, Working
  <2>2. WorkersTyped'
    BY <1>9, <2>1, WorkerStep, SameTyped DEF Heartbeat
  <2>3. [runs[e] EXCEPT !.lease = TRUE] \in Row
    BY <2>1, <1>rows, LeaseRowType
  <2>4. RowsTyped'
    BY <1>9, <2>1, <2>3, RowStep, SameTyped DEF Heartbeat
  <2>5. FaultsTyped'
    BY <1>9, FaultStep DEF Heartbeat, NoFault
  <2> QED BY <1>9, <2>2, <2>4, <2>5, SameTyped DEF Heartbeat
<1>10. ASSUME NEW w \in Workers, Timeout(w) PROVE Typed'
  <2> DEFINE r == [worker[w] EXCEPT !.ctx = "deadline"]
  <2>1. Fit(r)
    BY <1>fit DEF Fit, Worker
  <2>2. WorkersTyped'
    BY <1>10, <2>1, WorkerStep DEF Timeout
  <2> QED BY <1>10, <2>2, SameTyped DEF Timeout
<1>11. ASSUME NEW w \in Workers, Return(w) PROVE Typed'
  <2>1. CASE worker[w].stopping
    BY <1>11, <2>1, ExitTyped DEF Return
  <2>2. CASE ~worker[w].stopping
    <3>1. PICK result \in {"passed", "below"} :
            worker' = [worker EXCEPT ![w] =
                         [worker[w] EXCEPT !.phase = "returned", !.result = result]]
      BY <1>11, <2>2 DEF Return
    <3>2. Fit([worker[w] EXCEPT !.phase = "returned", !.result = result])
      BY <1>11, <1>fit DEF Return, Fit, Worker, Working, Outcomes
    <3>3. WorkersTyped'
      BY <3>1, <3>2, WorkerStep
    <3> QED BY <1>11, <2>2, <3>3, SameTyped DEF Return, NoFault
  <2> QED BY <2>1, <2>2
<1>12. ASSUME NEW w \in Workers, Decide(w) PROVE Typed'
  <2>0. worker[w].run \in Runs /\ worker[w].phase = "returned"
    BY <1>12, <1>fit DEF Decide, Fit, Working
  <2>1. PICK seen \in BOOLEAN : worker' = [worker EXCEPT ![w] =
             [worker[w] EXCEPT !.phase = "decided", !.result = Outcome(seen, w)]]
    <3>1. runs[worker[w].run].cancel \in BOOLEAN
      BY <2>0, <1>rows DEF Row
    <3> QED BY <1>12, <3>1 DEF Decide, Decided
  <2> DEFINE o == Outcome(seen, w)
  <2>2. o \in Outcomes
    BY <2>0, <1>fit, OutcomeType DEF Fit, Worker
  <2>3. Fit([worker[w] EXCEPT !.phase = "decided", !.result = o])
    <3> HIDE DEF o
    <3> QED BY <1>12, <2>2, <1>fit DEF Decide, Fit, Worker, Working
  <2>4. WorkersTyped'
    BY <2>1, <2>3, WorkerStep
  <2>5. FaultsTyped'
    BY <1>12, FaultStep DEF Decide
  <2> QED BY <1>12, <2>4, <2>5, SameTyped DEF Decide
<1>13. ASSUME NEW w \in Workers, CompleteRun(w) PROVE Typed'
  <2> DEFINE e == worker[w].run
             row == SettledRow(runs[e], worker[w].result)
             r == [Idle EXCEPT !.stopping = worker[w].stopping]
  <2>1. e \in Runs /\ worker[w].result \in Outcomes
    BY <1>13, <1>fit DEF CompleteRun, Fit, Working
  <2>2. row \in Row
    BY <2>1, <1>rows, SettledRowType
  <2>3. UNCHANGED runs \/ runs' = [runs EXCEPT ![e] = row]
    BY <1>13 DEF CompleteRun
  <2>4. RowsTyped'
    <3> HIDE DEF row, e
    <3> QED BY <2>1, <2>2, <2>3, RowStep, SameTyped
  <2>5. Fit(r)
    BY <1>fit DEF Fit, Idle, Down, Worker, Working
  <2>6. WorkersTyped'
    BY <1>13, <2>5, WorkerStep DEF CompleteRun
  <2>7. FaultsTyped'
    BY <1>13, FaultStep DEF CompleteRun
  <2> QED BY <1>13, <2>4, <2>6, <2>7, SameTyped DEF CompleteRun
<1>14. ASSUME NEW w \in Workers, Close(w) PROVE Typed'
  <2> DEFINE r == [worker[w] EXCEPT !.stopping = TRUE,
                     !.ctx = IF worker[w].phase \in HasContext
                             THEN Cancelled(worker[w].ctx) ELSE worker[w].ctx]
  <2>1. Fit(r)
    BY <1>fit DEF Fit, Worker, Cancelled
  <2>2. WorkersTyped'
    BY <1>14, <2>1, WorkerStep DEF Close
  <2>3. FaultsTyped'
    BY <1>14, FaultStep DEF Close
  <2> QED BY <1>14, <2>2, <2>3, SameTyped DEF Close
<1>15. ASSUME NEW w \in Workers, Stop(w) \/ Crash(w) PROVE Typed'
  BY <1>15, ExitTyped DEF Stop, Crash
<1>16. ASSUME NEW e \in Runs, LeaseExpires(e) PROVE Typed'
  <2>1. [runs[e] EXCEPT !.lease = FALSE] \in Row
    BY <1>rows, LeaseRowType
  <2>2. RowsTyped'
    BY <1>16, <2>1, RowStep DEF LeaseExpires
  <2>3. FaultsTyped'
    BY <1>16, FaultStep DEF LeaseExpires
  <2> QED BY <1>16, <2>2, <2>3, SameTyped DEF LeaseExpires
<1>17. CASE UNCHANGED vars
  BY <1>17, SameTyped DEF vars
<1> QED BY <1>1, <1>2, <1>3, <1>4, <1>5, <1>6, <1>7, <1>8, <1>9, <1>10, <1>11,
           <1>12, <1>13, <1>14, <1>15, <1>16, <1>17, <1>18 DEF Next

\* Every variable keeps its shape in every reachable state: in particular the
\* attempt of a run never exceeds three, and no channel overflows.
THEOREM TypeCorrect == Spec => []TypeOK
<1>1. Init => Typed
  BY InitTyped
<1>2. Typed /\ [Next]_vars => Typed'
  BY StepTyped
<1>3. Typed => TypeOK
  BY TypedMeans
<1> QED BY <1>1, <1>2, <1>3, PTL DEF Spec

-----------------------------------------------------------------------------
(* What a step may do to the table.                                        *)

\* The new value r of row e, by the operation that wrote it.
RowMove(e, r) ==
    \/ runs[e].status = "absent" /\ r = NewRow(1, None)
    \/ /\ runs[e].status = "absent"
       /\ \E original \in Runs :
             /\ Retryable(runs[original], original)
             /\ r = NewRow(runs[original].attempt + 1, original)
    \/ runs[e].status # "absent" /\ r = CanceledRow(runs[e])
    \/ Claimable(runs[e]) /\ \E w \in Workers : r = ClaimedRow(runs[e], w)
    \/ /\ runs[e].status = "running"
       /\ \E outcome \in Outcomes : r = SettledRow(runs[e], outcome)
    \/ /\ runs[e].status = "running"
       /\ \E b \in BOOLEAN : r = [runs[e] EXCEPT !.lease = b]

\* What the exit of process w does.
Abandoned(w) ==
    runs' = [e \in Runs |-> IF runs[e].owner = w
                              THEN [runs[e] EXCEPT !.owner = Gone]
                              ELSE runs[e]]

TableMove ==
    \/ UNCHANGED runs
    \/ \E w \in Workers : Abandoned(w)
    \/ \E e \in Runs, r \in Row : RowMove(e, r) /\ runs' = [runs EXCEPT ![e] = r]

LEMMA Moves == Typed /\ Typed' /\ [Next]_vars => TableMove
<1> SUFFICES ASSUME Typed, Typed', [Next]_vars PROVE TableMove
  OBVIOUS
<1>rows. ASSUME NEW e \in Runs PROVE runs[e] \in Row /\ runs'[e] \in Row
  BY DEF Typed, RowsTyped
<1>fit. ASSUME NEW w \in Workers PROVE Fit(worker[w])
  BY DEF Typed, WorkersTyped
\* A step that writes row e with r, by one of the operations of RowMove.
<1>write. ASSUME NEW e \in Runs, NEW r, RowMove(e, r), runs' = [runs EXCEPT ![e] = r]
          PROVE  TableMove
  <2>1. runs'[e] = r
    BY <1>write DEF Typed, RowsTyped
  <2>2. r \in Row
    BY <2>1, <1>rows
  <2> QED BY <1>write, <2>2 DEF TableMove
<1>1. ASSUME NEW w \in Workers, NEW e \in Runs, StartRun(w, e) PROVE TableMove
  BY <1>1, <1>write DEF StartRun, Insert, RowMove
<1>2. ASSUME NEW w \in Workers, NEW e \in Runs, NEW original \in Runs,
             RetryRun(w, original, e)
      PROVE  TableMove
  BY <1>2, <1>write DEF RetryRun, Insert, RowMove
<1>3. ASSUME NEW w \in Workers, NEW e \in Runs, RequestCancel(w, e) PROVE TableMove
  BY <1>3, <1>write DEF RequestCancel, RowMove
<1>4. ASSUME NEW w \in Workers, Dequeue(w) PROVE TableMove
  <2> DEFINE e == Head(queue[w])
  <2>1. e \in Runs
    BY <1>4, HeadTailProperties DEF Dequeue, Typed, QueuesTyped
  <2>2. \/ UNCHANGED runs
        \/ Claimable(runs[e]) /\ runs' = [runs EXCEPT ![e] = ClaimedRow(runs[e], w)]
    BY <1>4 DEF Dequeue
  <2>3. Claimable(runs[e]) => RowMove(e, ClaimedRow(runs[e], w))
    BY DEF RowMove
  <2> HIDE DEF e
  <2> QED BY <2>1, <2>2, <2>3, <1>write DEF TableMove
<1>5. ASSUME NEW w \in Workers, Heartbeat(w) PROVE TableMove
  <2> DEFINE e == worker[w].run
             r == [runs[e] EXCEPT !.lease = TRUE]
  <2>1. e \in Runs
    BY <1>5, <1>fit DEF Heartbeat, Fit, Working
  <2>2. \/ UNCHANGED runs
        \/ runs[e].status = "running" /\ runs' = [runs EXCEPT ![e] = r]
    BY <1>5 DEF Heartbeat, Owned
  <2>3. runs[e].status = "running" => RowMove(e, r)
    BY DEF RowMove
  <2> HIDE DEF e, r
  <2> QED BY <2>1, <2>2, <2>3, <1>write DEF TableMove
<1>6. ASSUME NEW w \in Workers, CompleteRun(w) PROVE TableMove
  <2> DEFINE e == worker[w].run
             r == SettledRow(runs[e], worker[w].result)
  <2>1. e \in Runs /\ worker[w].result \in Outcomes
    BY <1>6, <1>fit DEF CompleteRun, Fit, Working
  <2>2. \/ UNCHANGED runs
        \/ runs[e].status = "running" /\ runs' = [runs EXCEPT ![e] = r]
    BY <1>6 DEF CompleteRun, Owned
  <2>3. runs[e].status = "running" => RowMove(e, r)
    BY <2>1 DEF RowMove
  <2> HIDE DEF e, r
  <2> QED BY <2>1, <2>2, <2>3, <1>write DEF TableMove
<1>7. ASSUME NEW w \in Workers, Exit(w) PROVE TableMove
  BY <1>7 DEF Exit, Abandoned, TableMove
<1>8. ASSUME NEW e \in Runs, LeaseExpires(e) PROVE TableMove
  BY <1>8, <1>write DEF LeaseExpires, RowMove
<1>9. ASSUME NEW w \in Workers,
             \/ \E e \in Runs : SignalCancel(w, e)
             \/ Boot(w) \/ Tick(w) \/ ReadSuite(w) \/ Check(w) \/ Timeout(w) \/ Decide(w)
             \/ Close(w)
      PROVE  TableMove
  BY <1>9 DEF SignalCancel, Boot, Tick, ReadSuite, Check, Timeout, Decide, Close,
              TableMove
<1>10. ASSUME NEW w \in Workers, Return(w) PROVE TableMove
  BY <1>10, <1>7 DEF Return, TableMove
<1>11. ASSUME NEW w \in Workers, Stop(w) \/ Crash(w) PROVE TableMove
  BY <1>11, <1>7 DEF Stop, Crash
<1>12. CASE UNCHANGED vars
  BY <1>12 DEF vars, TableMove
<1> QED BY <1>1, <1>2, <1>3, <1>4, <1>5, <1>6, <1>8, <1>9, <1>10, <1>11, <1>12
        DEF Next

-----------------------------------------------------------------------------
(* Rows.                                                                   *)

ShapeOf(row) ==
    /\ row.status = "absent" => row.attempt = 0 /\ row.retryOf = None
    /\ row.status # "running" => row.owner = None /\ ~row.lease
    /\ row.gate = "pending" <=> row.status \notin Terminal
    /\ row.gate \in {"passed", "failed"} <=> row.status = "completed"
    /\ row.gate = "canceled" <=> row.cancel
    /\ row.code # "none" <=> row.status = "failed"

RowShape == \A e \in Runs : ShapeOf(runs[e])

\* A row operation leaves the identity of the row alone, or creates it.
LEMMA MoveShape ==
    ASSUME NEW e \in Runs, NEW r \in Row, runs[e] \in Row, ShapeOf(runs[e]),
           RowMove(e, r)
    PROVE  ShapeOf(r)
<1>1. CASE r = NewRow(1, None) \/ \E n, original : r = NewRow(n, original)
  BY <1>1 DEF NewRow, BlankRow, ShapeOf, Terminal
<1>2. CASE r = CanceledRow(runs[e])
  BY <1>2 DEF CanceledRow, ShapeOf, Row, Terminal
<1>3. CASE Claimable(runs[e]) /\ \E w \in Workers : r = ClaimedRow(runs[e], w)
  <2>1. PICK w \in Workers : r = ClaimedRow(runs[e], w)
    BY <1>3
  <2>2. /\ r.status = "running" /\ r.gate = runs[e].gate /\ r.code = runs[e].code
        /\ r.cancel = runs[e].cancel
    BY <2>1 DEF ClaimedRow, Row
  <2> QED BY <1>3, <2>2 DEF Claimable, ShapeOf, Terminal
<1>4. CASE runs[e].status = "running" /\ \E o \in Outcomes : r = SettledRow(runs[e], o)
  <2>1. PICK o \in Outcomes : r = SettledRow(runs[e], o)
    BY <1>4
  <2>2. Tells(r, o)
    BY <2>1, SettledColumns
  <2> QED BY <2>2 DEF Tells, Outcomes, FailureCodes, ShapeOf, Terminal
<1>5. CASE /\ runs[e].status = "running"
           /\ \E b \in BOOLEAN : r = [runs[e] EXCEPT !.lease = b]
  BY <1>5 DEF ShapeOf, Row, Terminal
<1> QED BY <1>1, <1>2, <1>3, <1>4, <1>5 DEF RowMove

LEMMA ShapeStep == RowsTyped /\ RowShape /\ TableMove => RowShape'
<1> SUFFICES ASSUME RowsTyped, RowShape, TableMove, NEW e \in Runs
             PROVE  ShapeOf(runs'[e])
  BY DEF RowShape, ShapeOf
<1>1. runs[e] \in Row /\ ShapeOf(runs[e])
  BY DEF RowsTyped, RowShape
<1>2. CASE UNCHANGED runs
  BY <1>1, <1>2
<1>3. ASSUME NEW w \in Workers, Abandoned(w) PROVE ShapeOf(runs'[e])
  BY <1>1, <1>3 DEF Abandoned, ShapeOf, Row
<1>4. ASSUME NEW u \in Runs, NEW r \in Row, RowMove(u, r), runs' = [runs EXCEPT ![u] = r]
      PROVE  ShapeOf(runs'[e])
  <2>1. runs'[e] = IF e = u THEN r ELSE runs[e]
    BY <1>4 DEF RowsTyped
  <2> QED BY <1>1, <1>4, <2>1, MoveShape
<1> QED BY <1>2, <1>3, <1>4 DEF TableMove

\* A settled row is none that an operation would touch.
LEMMA SettledStep ==
    ASSUME RowsTyped, RowShape, TableMove, NEW e \in Runs, runs[e].status \in Terminal
    PROVE  runs'[e] = runs[e]
<1>1. runs[e] \in Row /\ runs[e].owner = None
  BY DEF RowsTyped, RowShape, ShapeOf, Terminal
<1>2. CASE \E w \in Workers : Abandoned(w)
  BY <1>1, <1>2 DEF Abandoned
<1>3. ASSUME NEW u \in Runs, NEW r \in Row, RowMove(u, r), runs' = [runs EXCEPT ![u] = r]
      PROVE  runs'[e] = runs[e]
  <2>1. CASE u # e
    BY <1>3, <2>1 DEF RowsTyped
  <2>2. CASE u = e
    <3>1. r = runs[e]
      BY <1>3, <2>2 DEF RowMove, CanceledRow, Claimable, Terminal
    <3> QED BY <1>3, <2>2, <3>1 DEF RowsTyped
  <2> QED BY <2>1, <2>2
<1> QED BY <1>2, <1>3 DEF TableMove

LEMMA AbandonedLineage ==
    ASSUME RowsTyped, NEW w \in Workers, Abandoned(w), NEW e \in Runs
    PROVE  /\ runs'[e].status = runs[e].status
           /\ runs'[e].code = runs[e].code
           /\ runs'[e].attempt = runs[e].attempt
           /\ runs'[e].retryOf = runs[e].retryOf
BY DEF RowsTyped, Abandoned, Row

\* Only the insertion of a row says what it retries.
LEMMA MoveLineage ==
    ASSUME NEW e \in Runs, NEW r \in Row, runs[e] \in Row, RowMove(e, r),
           runs[e].status # "absent"
    PROVE  r.attempt = runs[e].attempt /\ r.retryOf = runs[e].retryOf
<1>1. CASE r = CanceledRow(runs[e])
  BY <1>1 DEF CanceledRow, Row
<1>2. CASE \E w \in Workers : r = ClaimedRow(runs[e], w)
  BY <1>2 DEF ClaimedRow, Row
<1>3. CASE \E o \in Outcomes : r = SettledRow(runs[e], o)
  BY <1>3, SettledColumns
<1>4. CASE \E b \in BOOLEAN : r = [runs[e] EXCEPT !.lease = b]
  BY <1>4 DEF Row
<1> QED BY <1>1, <1>2, <1>3, <1>4 DEF RowMove

-----------------------------------------------------------------------------
(* The invariant of rows, and what follows from it.                        *)

RowInv == Typed /\ RowShape

LEMMA RowInvInit == Init => RowInv
<1> SUFFICES ASSUME Init PROVE RowInv
  OBVIOUS
<1>1. \A e \in Runs : /\ runs[e].status = "absent" /\ runs[e].attempt = 0
                       /\ runs[e].retryOf = None /\ runs[e].owner = None
                       /\ ~runs[e].lease /\ ~runs[e].cancel
                       /\ runs[e].gate = "pending" /\ runs[e].code = "none"
  BY DEF Init, NoRow, BlankRow
<1>2. RowShape
  BY <1>1 DEF RowShape, ShapeOf, Terminal
<1> QED BY <1>2, InitTyped DEF RowInv

LEMMA RowInvStep == RowInv /\ [Next]_vars => RowInv' /\ TableMove
<1> SUFFICES ASSUME RowInv, [Next]_vars PROVE RowInv' /\ TableMove
  OBVIOUS
<1>1. Typed'
  BY StepTyped DEF RowInv
<1>2. TableMove
  BY <1>1, Moves DEF RowInv
<1>3. RowShape'
  BY <1>2, ShapeStep DEF RowInv, Typed
<1> QED BY <1>1, <1>2, <1>3 DEF RowInv

LEMMA RowInvCorrect == Spec => []RowInv
BY RowInvInit, RowInvStep, PTL DEF Spec

\* The gate a build waits for is pending until the run settles, and says passed or
\* failed only of a run whose questions were all answered and that nobody canceled.
THEOREM GateAgreesCorrect == Spec => []GateAgrees
<1>1. RowInv => GateAgrees
  BY DEF RowInv, RowShape, ShapeOf, GateAgrees
<1> QED BY <1>1, RowInvCorrect, PTL

\* No step of any actor, in any state, changes a settled row.
THEOREM SettledFrozenCorrect == Spec => SettledFrozen
<1>1. RowInv /\ [Next]_vars =>
        [\A r \in Runs : runs[r].status \in Terminal => runs'[r] = runs[r]]_vars
  BY RowInvStep, SettledStep DEF RowInv, Typed
<1>2. Spec => [][\A r \in Runs : runs[r].status \in Terminal => runs'[r] = runs[r]]_vars
  BY <1>1, RowInvCorrect, PTL DEF Spec
<1> QED BY <1>2 DEF SettledFrozen

-----------------------------------------------------------------------------
(* One execution at a time, as long as nothing fails.                      *)

\* Nobody but w can claim the row, now or later without a fault.
Keeps(row, w) == row.status \in Terminal \/ (Owned(row, w) /\ row.lease)

Holds(w) ==
    worker[w].phase \in Working =>
        /\ Keeps(runs[worker[w].run], w)
        /\ runs[worker[w].run].status \in Terminal \/ worker[w].beat
        /\ ~worker[w].stopping

Alone == \A v, w \in Workers, e \in Runs : WorksOn(v, e) /\ WorksOn(w, e) => v = w

Held == faults = 0 => Alone /\ \A w \in Workers : Holds(w)

\* A row that is written without taking it from its holder is as good as unchanged.
LEMMA HeldByRow ==
    ASSUME Typed, NEW w \in Workers, Holds(w), UNCHANGED worker,
           NEW e \in Runs, NEW r, runs' = [runs EXCEPT ![e] = r],
           Keeps(runs[e], w) => Keeps(r, w),
           runs[e].status \in Terminal => r.status \in Terminal
    PROVE  Holds(w)'
<1>1. \A u \in Runs : runs'[u] = IF u = e THEN r ELSE runs[u]
  BY DEF Typed, RowsTyped
<1>2. worker[w].phase \in Working => worker[w].run \in Runs
  BY DEF Typed, WorkersTyped, Fit
<1> QED BY <1>1, <1>2 DEF Holds, Keeps, Owned

\* A worker record that is written without touching run or stopping, by a worker
\* that works before and after, keeps what it holds; the heartbeat may give up on
\* a row that has settled.
LEMMA HeldByWorker ==
    ASSUME Typed, NEW v \in Workers, Holds(v), UNCHANGED runs,
           NEW w \in Workers, NEW r, worker' = [worker EXCEPT ![w] = r],
           r.phase \in Working =>
               /\ worker[w].phase \in Working /\ r.run = worker[w].run
               /\ r.beat = worker[w].beat \/ runs[worker[w].run].status \in Terminal
               /\ r.stopping = worker[w].stopping
    PROVE  Holds(v)'
<1>1. worker'[v] = IF v = w THEN r ELSE worker[v]
  BY DEF Typed, WorkersTyped
<1>2. CASE v # w
  BY <1>1, <1>2 DEF Holds, Keeps, Owned
<1>3. CASE v = w
  BY <1>1, <1>3 DEF Holds, Keeps, Owned
<1> QED BY <1>2, <1>3

\* A process that holds nothing exits.
LEMMA HeldByExit ==
    ASSUME Typed, NEW v \in Workers, Holds(v), NEW w \in Workers, Exit(w)
    PROVE  Holds(v)'
<1>1. worker'[v] = IF v = w THEN Down ELSE worker[v]
  BY DEF Typed, WorkersTyped, Exit
<1>2. CASE v = w
  BY <1>1, <1>2 DEF Holds, Down, Working
<1>3. CASE v # w
  <2>1. worker[v].phase \in Working => worker[v].run \in Runs
    BY DEF Typed, WorkersTyped, Fit
  <2>2. ASSUME NEW e \in Runs
        PROVE  /\ runs[e].owner = v => runs'[e] = runs[e]
               /\ runs'[e].status = runs[e].status
    <3>1. runs[e] \in Row
      BY DEF Typed, RowsTyped
    <3>2. runs'[e] = IF runs[e].owner = w THEN [runs[e] EXCEPT !.owner = Gone] ELSE runs[e]
      BY DEF Exit
    <3> QED BY <1>3, <3>1, <3>2 DEF Row
  <2> QED BY <1>1, <1>3, <2>1, <2>2 DEF Holds, Keeps, Owned
<1> QED BY <1>2, <1>3

\* Every step spends one unit of the fault budget, or none.
LEMMA Spending == [Next]_vars => Fault \/ NoFault
<1> SUFFICES ASSUME [Next]_vars PROVE Fault \/ NoFault
  OBVIOUS
<1>1. ASSUME NEW w \in Workers, NEW e \in Runs,
             \/ StartRun(w, e) \/ RequestCancel(w, e) \/ SignalCancel(w, e)
             \/ \E original \in Runs : RetryRun(w, original, e)
      PROVE  NoFault
  BY <1>1 DEF StartRun, RequestCancel, SignalCancel, RetryRun, Insert, NoFault
<1>2. ASSUME NEW w \in Workers,
             \/ Boot(w) \/ Tick(w) \/ ReadSuite(w) \/ Check(w) \/ Timeout(w) \/ Return(w)
             \/ Decide(w) \/ Close(w) \/ Stop(w) \/ Crash(w)
      PROVE  Fault \/ NoFault
  BY <1>2 DEF Boot, Tick, ReadSuite, Check, Timeout, Return, Decide, Close, Stop, Crash,
              NoFault
<1>3. ASSUME NEW w \in Workers, Dequeue(w) PROVE Fault \/ NoFault
  BY <1>3 DEF Dequeue, NoFault
<1>4. ASSUME NEW w \in Workers, Heartbeat(w) PROVE Fault \/ NoFault
  BY <1>4 DEF Heartbeat, NoFault
<1>5. ASSUME NEW w \in Workers, CompleteRun(w) PROVE Fault \/ NoFault
  BY <1>5 DEF CompleteRun
<1>6. ASSUME NEW e \in Runs, LeaseExpires(e) PROVE Fault \/ NoFault
  BY <1>6 DEF LeaseExpires
<1>7. CASE UNCHANGED vars
  BY <1>7 DEF vars, NoFault
<1> QED BY <1>1, <1>2, <1>3, <1>4, <1>5, <1>6, <1>7 DEF Next

\* What a step makes of a worker record: the worker works on what it worked on, or
\* rests, or has claimed a row that was there to be claimed.
Works(w, r) ==
    r.phase \in Working => worker[w].phase \in Working /\ r.run = worker[w].run

Claims(w, r) ==
    /\ r.run \in Runs /\ r.phase = "claimed" /\ r.beat /\ ~r.stopping
    /\ Claimable(runs[r.run])
    /\ runs' = [runs EXCEPT ![r.run] = ClaimedRow(runs[r.run], w)]

WorkerMove ==
    \/ UNCHANGED worker
    \/ \E w \in Workers : \E r : /\ worker' = [worker EXCEPT ![w] = r]
                                 /\ Works(w, r) \/ Claims(w, r)

LEMMA WorkerMoves == Typed /\ [Next]_vars => WorkerMove
<1> SUFFICES ASSUME Typed, [Next]_vars PROVE WorkerMove
  OBVIOUS
<1>fit. ASSUME NEW w \in Workers PROVE Fit(worker[w])
  BY DEF Typed, WorkersTyped
<1>write. ASSUME NEW w \in Workers, NEW r, worker' = [worker EXCEPT ![w] = r],
                 Works(w, r) \/ Claims(w, r)
          PROVE  WorkerMove
  BY <1>write DEF WorkerMove
<1>rest. Down.phase \notin Working /\ Idle.phase \notin Working
  BY DEF Down, Idle, Working
<1>exit. ASSUME NEW w \in Workers, Exit(w) PROVE WorkerMove
  BY <1>exit, <1>rest, <1>write DEF Exit, Works
<1>1. ASSUME NEW w \in Workers, NEW e \in Runs,
             \/ StartRun(w, e) \/ RequestCancel(w, e)
             \/ \E original \in Runs : RetryRun(w, original, e)
      PROVE  WorkerMove
  BY <1>1 DEF StartRun, RequestCancel, RetryRun, Insert, WorkerMove
<1>2. ASSUME NEW w \in Workers, NEW e \in Runs, SignalCancel(w, e) PROVE WorkerMove
  <2> DEFINE r == [worker[w] EXCEPT !.ctx = Cancelled(worker[w].ctx)]
  <2>1. Works(w, r)
    BY <1>fit DEF Works, Fit, Worker
  <2>2. UNCHANGED worker \/ worker' = [worker EXCEPT ![w] = r]
    BY <1>2 DEF SignalCancel
  <2> HIDE DEF r
  <2> QED BY <2>1, <2>2, <1>write DEF WorkerMove
<1>3. ASSUME NEW w \in Workers, Boot(w) PROVE WorkerMove
  BY <1>3, <1>rest, <1>write DEF Boot, Works
<1>4. ASSUME NEW w \in Workers, Tick(w) PROVE WorkerMove
  BY <1>4 DEF Tick, WorkerMove
<1>5. ASSUME NEW w \in Workers, Dequeue(w) PROVE WorkerMove
  <2> DEFINE e == Head(queue[w])
             r == [Idle EXCEPT !.phase = "claimed", !.run = e, !.beat = TRUE]
  <2>1. e \in Runs
    BY <1>5, HeadTailProperties DEF Dequeue, Typed, QueuesTyped
  <2>2. r.run = e /\ r.phase = "claimed" /\ r.beat /\ ~r.stopping
    BY DEF Idle, Down
  <2>3. \/ UNCHANGED worker
        \/ /\ Claimable(runs[e])
           /\ runs' = [runs EXCEPT ![e] = ClaimedRow(runs[e], w)]
           /\ worker' = [worker EXCEPT ![w] = r]
    BY <1>5 DEF Dequeue
  <2> HIDE DEF e, r
  <2> QED BY <2>1, <2>2, <2>3, <1>write DEF WorkerMove, Claims
<1>6. ASSUME NEW w \in Workers, NEW r, worker[w].phase \in Working,
             r.run = worker[w].run, worker' = [worker EXCEPT ![w] = r]
      PROVE  WorkerMove
  BY <1>6, <1>write DEF Works
<1>7. ASSUME NEW w \in Workers, ReadSuite(w) PROVE WorkerMove
  <2> DEFINE c == [worker[w] EXCEPT !.phase = "registered",
                     !.ctx = IF worker[w].stopping THEN "canceled" ELSE "live"]
             d == [worker[w] EXCEPT !.phase = "decided", !.result = "suite_unavailable"]
  <2>1. worker' = [worker EXCEPT ![w] = c] \/ worker' = [worker EXCEPT ![w] = d]
    BY <1>7 DEF ReadSuite, Decided
  <2>2. /\ worker[w].phase \in Working
        /\ c.run = worker[w].run /\ d.run = worker[w].run
    BY <1>7, <1>fit DEF ReadSuite, Working, Fit, Worker
  <2> HIDE DEF c, d
  <2> QED BY <2>1, <2>2, <1>6
<1>8. ASSUME NEW w \in Workers, Check(w) PROVE WorkerMove
  <2> DEFINE c == [worker[w] EXCEPT !.phase = "running",
                     !.ctx = IF runs[worker[w].run].cancel
                             THEN Cancelled(worker[w].ctx) ELSE worker[w].ctx]
             d == [worker[w] EXCEPT !.phase = "running"]
  <2>1. worker' = [worker EXCEPT ![w] = c] \/ worker' = [worker EXCEPT ![w] = d]
    BY <1>8 DEF Check, Become
  <2>2. /\ worker[w].phase \in Working
        /\ c.run = worker[w].run /\ d.run = worker[w].run
    BY <1>8, <1>fit DEF Check, Working, Fit, Worker
  <2> HIDE DEF c, d
  <2> QED BY <2>1, <2>2, <1>6
<1>9. ASSUME NEW w \in Workers, Heartbeat(w) PROVE WorkerMove
  <2> DEFINE r == [worker[w] EXCEPT !.beat = FALSE, !.ctx = Cancelled(worker[w].ctx)]
  <2>1. UNCHANGED worker \/ worker' = [worker EXCEPT ![w] = r]
    BY <1>9 DEF Heartbeat
  <2>2. worker[w].phase \in Working /\ r.run = worker[w].run
    BY <1>9, <1>fit DEF Heartbeat, Working, Fit, Worker
  <2> HIDE DEF r
  <2> QED BY <2>1, <2>2, <1>6 DEF WorkerMove
<1>10. ASSUME NEW w \in Workers, Timeout(w) PROVE WorkerMove
  <2> DEFINE r == [worker[w] EXCEPT !.ctx = "deadline"]
  <2>1. worker' = [worker EXCEPT ![w] = r]
    BY <1>10 DEF Timeout
  <2>2. worker[w].phase \in Working /\ r.run = worker[w].run
    BY <1>10, <1>fit DEF Timeout, HasContext, Working, Fit, Worker
  <2> HIDE DEF r
  <2> QED BY <2>1, <2>2, <1>6
<1>11. ASSUME NEW w \in Workers, Return(w) PROVE WorkerMove
  <2>1. CASE Exit(w)
    BY <2>1, <1>exit
  <2>2. CASE ~Exit(w)
    <3>1. PICK result :
            worker' = [worker EXCEPT ![w] =
                         [worker[w] EXCEPT !.phase = "returned", !.result = result]]
      BY <1>11, <2>2 DEF Return
    <3> DEFINE r == [worker[w] EXCEPT !.phase = "returned", !.result = result]
    <3>2. worker[w].phase \in Working /\ r.run = worker[w].run
      BY <1>11, <1>fit DEF Return, Working, Fit, Worker
    <3>3. worker' = [worker EXCEPT ![w] = r]
      BY <3>1
    <3> HIDE DEF r
    <3> QED BY <3>2, <3>3, <1>6
  <2> QED BY <2>1, <2>2
<1>12. ASSUME NEW w \in Workers, Decide(w) PROVE WorkerMove
  <2>1. PICK o : worker' = [worker EXCEPT ![w] =
                               [worker[w] EXCEPT !.phase = "decided", !.result = o]]
    BY <1>12 DEF Decide, Decided
  <2> DEFINE r == [worker[w] EXCEPT !.phase = "decided", !.result = o]
  <2>2. worker[w].phase \in Working /\ r.run = worker[w].run
    BY <1>12, <1>fit DEF Decide, Working, Fit, Worker
  <2>3. worker' = [worker EXCEPT ![w] = r]
    BY <2>1
  <2> HIDE DEF r
  <2> QED BY <2>2, <2>3, <1>6
<1>13. ASSUME NEW w \in Workers, CompleteRun(w) PROVE WorkerMove
  <2> DEFINE r == [Idle EXCEPT !.stopping = worker[w].stopping]
  <2>1. r.phase \notin Working /\ worker' = [worker EXCEPT ![w] = r]
    BY <1>13 DEF CompleteRun, Idle, Down, Working
  <2> HIDE DEF r
  <2> QED BY <2>1, <1>write DEF Works
<1>14. ASSUME NEW w \in Workers, Close(w) PROVE WorkerMove
  <2> DEFINE r == [worker[w] EXCEPT !.stopping = TRUE,
                     !.ctx = IF worker[w].phase \in HasContext
                             THEN Cancelled(worker[w].ctx) ELSE worker[w].ctx]
  <2>1. worker' = [worker EXCEPT ![w] = r] /\ Works(w, r)
    BY <1>14, <1>fit DEF Close, Works, Fit, Worker
  <2> HIDE DEF r
  <2> QED BY <2>1, <1>write
<1>15. ASSUME NEW w \in Workers, Stop(w) \/ Crash(w) PROVE WorkerMove
  BY <1>15, <1>exit DEF Stop, Crash
<1>16. ASSUME NEW e \in Runs, LeaseExpires(e) PROVE WorkerMove
  BY <1>16 DEF LeaseExpires, WorkerMove
<1>17. CASE UNCHANGED vars
  BY <1>17 DEF vars, WorkerMove
<1> QED BY <1>1, <1>2, <1>3, <1>4, <1>5, <1>7, <1>8, <1>9, <1>10, <1>11, <1>12,
           <1>13, <1>14, <1>15, <1>16, <1>17 DEF Next

\* A row that can be claimed is worked on by nobody.
LEMMA NobodyWorks ==
    ASSUME NEW e \in Runs, Claimable(runs[e]), NEW v \in Workers, Holds(v)
    PROVE  ~WorksOn(v, e)
BY DEF Holds, Keeps, Owned, Claimable, WorksOn, Terminal

\* No two workers work on one run, because a worker begins with a claim.
LEMMA AloneStep ==
    ASSUME Typed, Alone, \A w \in Workers : Holds(w), WorkerMove
    PROVE  Alone'
<1>1. CASE UNCHANGED worker
  BY <1>1 DEF Alone, WorksOn
<1>2. ASSUME NEW w \in Workers, NEW r, worker' = [worker EXCEPT ![w] = r], Works(w, r)
      PROVE  Alone'
  <2>1. \A v \in Workers : worker'[v] = IF v = w THEN r ELSE worker[v]
    BY <1>2 DEF Typed, WorkersTyped
  <2>2. \A v \in Workers, e \in Runs : WorksOn(v, e)' => WorksOn(v, e)
    BY <1>2, <2>1 DEF Works, WorksOn
  <2> QED BY <2>2 DEF Alone
<1>3. ASSUME NEW w \in Workers, NEW r, worker' = [worker EXCEPT ![w] = r], Claims(w, r)
      PROVE  Alone'
  <2>1. \A v \in Workers : worker'[v] = IF v = w THEN r ELSE worker[v]
    BY <1>3 DEF Typed, WorkersTyped
  <2>2. \A v \in Workers : ~WorksOn(v, r.run)
    BY <1>3, NobodyWorks DEF Claims
  <2>3. \A v \in Workers, e \in Runs :
          WorksOn(v, e)' => IF v = w THEN e = r.run ELSE e # r.run /\ WorksOn(v, e)
    BY <2>1, <2>2 DEF WorksOn
  <2> QED BY <2>3 DEF Alone
<1> QED BY <1>1, <1>2, <1>3 DEF WorkerMove

LEMMA HoldsStep ==
    ASSUME Typed, [Next]_vars, faults = 0, faults' = 0,
           \A w \in Workers : Holds(w), NEW v \in Workers
    PROVE  Holds(v)'
<1>h. ~Fault
  BY DEF Fault
<1>fit. ASSUME NEW w \in Workers PROVE Fit(worker[w])
  BY DEF Typed, WorkersTyped
<1>rows. ASSUME NEW e \in Runs PROVE runs[e] \in Row
  BY DEF Typed, RowsTyped
<1>1. ASSUME NEW w \in Workers, NEW e \in Runs,
             StartRun(w, e) \/ \E original \in Runs : RetryRun(w, original, e)
      PROVE  Holds(v)'
  <2>1. UNCHANGED worker /\ runs[e].status = "absent"
        /\ \E r : runs' = [runs EXCEPT ![e] = r]
    BY <1>1 DEF StartRun, RetryRun, Insert
  <2>2. ~Keeps(runs[e], v) /\ runs[e].status \notin Terminal
    BY <2>1 DEF Keeps, Owned, Terminal
  <2> QED BY <2>1, <2>2, HeldByRow
<1>2. ASSUME NEW w \in Workers, NEW e \in Runs, RequestCancel(w, e) PROVE Holds(v)'
  <2>1. runs[e] \in Row /\ runs[e].status # "absent"
    BY <1>2, <1>rows DEF RequestCancel
  <2>2. CanceledRow(runs[e]).status \in Terminal
    <3>1. CASE runs[e].status \in {"pending", "running"}
      BY <2>1, <3>1 DEF CanceledRow, Row, Terminal
    <3>2. CASE runs[e].status \notin {"pending", "running"}
      BY <2>1, <3>2 DEF CanceledRow, Row
    <3> QED BY <3>1, <3>2
  <2>3. UNCHANGED worker /\ runs' = [runs EXCEPT ![e] = CanceledRow(runs[e])]
    BY <1>2 DEF RequestCancel
  <2>4. Keeps(CanceledRow(runs[e]), v)
    BY <2>2 DEF Keeps
  <2> QED BY <2>2, <2>3, <2>4, HeldByRow
<1>3. ASSUME NEW w \in Workers, NEW r, UNCHANGED runs,
             worker' = [worker EXCEPT ![w] = r],
             r.phase \in Working =>
               /\ worker[w].phase \in Working /\ r.run = worker[w].run
               /\ r.beat = worker[w].beat /\ r.stopping = worker[w].stopping
      PROVE  Holds(v)'
  BY <1>3, HeldByWorker
<1>4. ASSUME UNCHANGED <<runs, worker>> PROVE Holds(v)'
  BY <1>4 DEF Holds, Keeps, Owned
<1>5. ASSUME NEW w \in Workers, NEW e \in Runs, SignalCancel(w, e) PROVE Holds(v)'
  <2> DEFINE r == [worker[w] EXCEPT !.ctx = Cancelled(worker[w].ctx)]
  <2>1. /\ r.phase = worker[w].phase /\ r.run = worker[w].run
        /\ r.beat = worker[w].beat /\ r.stopping = worker[w].stopping
    BY <1>fit DEF Fit, Worker
  <2>2. /\ UNCHANGED runs
        /\ UNCHANGED worker \/ worker' = [worker EXCEPT ![w] = r]
    BY <1>5 DEF SignalCancel
  <2> HIDE DEF r
  <2> QED BY <2>1, <2>2, <1>3, <1>4
<1>6. ASSUME NEW w \in Workers, Boot(w) PROVE Holds(v)'
  <2>1. /\ UNCHANGED runs /\ worker' = [worker EXCEPT ![w] = Idle]
        /\ Idle.phase \notin Working
    BY <1>6 DEF Boot, Idle, Down, Working
  <2> QED BY <2>1, <1>3
<1>7. ASSUME NEW w \in Workers, Tick(w) PROVE Holds(v)'
  BY <1>7, <1>4 DEF Tick
<1>8. ASSUME NEW w \in Workers, Dequeue(w) PROVE Holds(v)'
  <2> DEFINE e == Head(queue[w])
             r == [Idle EXCEPT !.phase = "claimed", !.run = e, !.beat = TRUE]
  <2>1. e \in Runs
    BY <1>8, HeadTailProperties DEF Dequeue, Typed, QueuesTyped
  <2>2. CASE UNCHANGED <<runs, worker>>
    BY <2>2, <1>4
  <2>3. CASE /\ Claimable(runs[e])
             /\ runs' = [runs EXCEPT ![e] = ClaimedRow(runs[e], w)]
             /\ worker' = [worker EXCEPT ![w] = r]
    <3>1. \A u \in Runs : runs'[u] = IF u = e THEN ClaimedRow(runs[e], w) ELSE runs[u]
      BY <2>3 DEF Typed, RowsTyped
    <3>2. worker'[v] = IF v = w THEN r ELSE worker[v]
      BY <2>3 DEF Typed, WorkersTyped
    <3>3. CASE v = w
      <4>1. /\ r.phase = "claimed" /\ r.run = e /\ r.beat /\ ~r.stopping
        BY DEF Idle, Down
      <4>2. Owned(ClaimedRow(runs[e], w), w) /\ ClaimedRow(runs[e], w).lease
        BY <2>1, <1>rows DEF Owned, ClaimedRow, Row
      <4> HIDE DEF r, e
      <4> QED BY <2>1, <3>1, <3>2, <3>3, <4>1, <4>2 DEF Holds, Keeps, Owned
    <3>4. CASE v # w
      <4>1. worker[v].phase \in Working => worker[v].run \in Runs /\ worker[v].run # e
        BY <2>1, <2>3, <1>fit, NobodyWorks DEF Fit, WorksOn
      <4> HIDE DEF r, e
      <4> QED BY <3>1, <3>2, <3>4, <4>1 DEF Holds, Keeps, Owned
    <3> QED BY <3>3, <3>4
  <2> QED BY <1>8, <1>h, <2>2, <2>3 DEF Dequeue
<1>9. ASSUME NEW w \in Workers, ReadSuite(w) PROVE Holds(v)'
  <2> DEFINE c == [worker[w] EXCEPT !.phase = "registered",
                     !.ctx = IF worker[w].stopping THEN "canceled" ELSE "live"]
             d == [worker[w] EXCEPT !.phase = "decided", !.result = "suite_unavailable"]
  <2>1. /\ UNCHANGED runs
        /\ worker' = [worker EXCEPT ![w] = c] \/ worker' = [worker EXCEPT ![w] = d]
    BY <1>9 DEF ReadSuite, Decided
  <2>2. /\ worker[w].phase \in Working
        /\ c.run = worker[w].run /\ d.run = worker[w].run
        /\ c.beat = worker[w].beat /\ d.beat = worker[w].beat
        /\ c.stopping = worker[w].stopping /\ d.stopping = worker[w].stopping
    BY <1>9, <1>fit DEF ReadSuite, Working, Fit, Worker
  <2> HIDE DEF c, d
  <2> QED BY <2>1, <2>2, <1>3
<1>10. ASSUME NEW w \in Workers, Check(w) PROVE Holds(v)'
  <2> DEFINE c == [worker[w] EXCEPT !.phase = "running",
                     !.ctx = IF runs[worker[w].run].cancel
                             THEN Cancelled(worker[w].ctx) ELSE worker[w].ctx]
             d == [worker[w] EXCEPT !.phase = "running"]
  <2>1. /\ UNCHANGED runs
        /\ worker' = [worker EXCEPT ![w] = c] \/ worker' = [worker EXCEPT ![w] = d]
    BY <1>10 DEF Check, Become
  <2>2. /\ worker[w].phase \in Working
        /\ c.run = worker[w].run /\ d.run = worker[w].run
        /\ c.beat = worker[w].beat /\ d.beat = worker[w].beat
        /\ c.stopping = worker[w].stopping /\ d.stopping = worker[w].stopping
    BY <1>10, <1>fit DEF Check, Working, Fit, Worker
  <2> HIDE DEF c, d
  <2> QED BY <2>1, <2>2, <1>3
<1>11. ASSUME NEW w \in Workers, Heartbeat(w) PROVE Holds(v)'
  <2> DEFINE e == worker[w].run
             r == [runs[e] EXCEPT !.lease = TRUE]
             b == [worker[w] EXCEPT !.beat = FALSE, !.ctx = Cancelled(worker[w].ctx)]
  <2>1. e \in Runs /\ worker[w].phase \in Working
    BY <1>11, <1>fit DEF Heartbeat, Fit, Working
  <2>2. CASE UNCHANGED worker /\ runs' = [runs EXCEPT ![e] = r]
    <3>1. runs[e] \in Row
      BY <2>1, <1>rows
    <3>2. r.status = runs[e].status /\ r.owner = runs[e].owner /\ r.lease
      BY <3>1 DEF Row
    <3>3. Keeps(runs[e], v) => Keeps(r, v)
      BY <3>2 DEF Keeps, Owned
    <3> HIDE DEF r, e
    <3> QED BY <2>1, <2>2, <3>2, <3>3, HeldByRow
  <2>3. CASE GivesUp(w) /\ UNCHANGED runs /\ worker' = [worker EXCEPT ![w] = b]
    <3>1. runs[e].status \in Terminal
      BY <2>1, <2>3 DEF Holds, Keeps, GivesUp
    <3>2. b.run = e /\ b.stopping = worker[w].stopping
      BY <1>fit DEF Fit, Worker
    <3> HIDE DEF b
    <3> QED BY <2>1, <2>3, <3>1, <3>2, HeldByWorker
  <2> QED BY <1>11, <1>h, <2>2, <2>3 DEF Heartbeat
<1>12. ASSUME NEW w \in Workers, Timeout(w) PROVE Holds(v)'
  <2> DEFINE r == [worker[w] EXCEPT !.ctx = "deadline"]
  <2>1. /\ worker[w].phase \in Working /\ r.run = worker[w].run
        /\ r.beat = worker[w].beat /\ r.stopping = worker[w].stopping
    BY <1>12, <1>fit DEF Timeout, HasContext, Fit, Worker, Working
  <2>2. UNCHANGED runs /\ worker' = [worker EXCEPT ![w] = r]
    BY <1>12 DEF Timeout
  <2> HIDE DEF r
  <2> QED BY <2>1, <2>2, <1>3
<1>13. ASSUME NEW w \in Workers, Return(w) PROVE Holds(v)'
  <2>1. CASE Exit(w)
    BY <2>1, HeldByExit
  <2>2. CASE ~Exit(w)
    <3>1. PICK result :
            worker' = [worker EXCEPT ![w] =
                         [worker[w] EXCEPT !.phase = "returned", !.result = result]]
      BY <1>13, <2>2 DEF Return
    <3> DEFINE r == [worker[w] EXCEPT !.phase = "returned", !.result = result]
    <3>2. /\ worker[w].phase \in Working /\ r.run = worker[w].run
          /\ r.beat = worker[w].beat /\ r.stopping = worker[w].stopping
      BY <1>13, <1>fit DEF Return, Fit, Worker, Working
    <3>3. UNCHANGED runs /\ worker' = [worker EXCEPT ![w] = r]
      BY <1>13, <2>2, <3>1 DEF Return
    <3> HIDE DEF r
    <3> QED BY <3>2, <3>3, <1>3
  <2> QED BY <2>1, <2>2
<1>14. ASSUME NEW w \in Workers, Decide(w) PROVE Holds(v)'
  <2>1. PICK o : worker' = [worker EXCEPT ![w] =
                               [worker[w] EXCEPT !.phase = "decided", !.result = o]]
    BY <1>14 DEF Decide, Decided
  <2> DEFINE r == [worker[w] EXCEPT !.phase = "decided", !.result = o]
  <2>2. /\ worker[w].phase \in Working /\ r.run = worker[w].run
        /\ r.beat = worker[w].beat /\ r.stopping = worker[w].stopping
    BY <1>14, <1>fit DEF Decide, Fit, Worker, Working
  <2>3. UNCHANGED runs /\ worker' = [worker EXCEPT ![w] = r]
    BY <1>14, <2>1 DEF Decide
  <2> HIDE DEF r
  <2> QED BY <2>2, <2>3, <1>3
<1>15. ASSUME NEW w \in Workers, CompleteRun(w) PROVE Holds(v)'
  <2> DEFINE e == worker[w].run
             row == SettledRow(runs[e], worker[w].result)
             r == [Idle EXCEPT !.stopping = worker[w].stopping]
  <2>1. e \in Runs /\ worker[w].result \in Outcomes
    BY <1>15, <1>fit DEF CompleteRun, Fit, Working
  <2>2. r.phase \notin Working
    BY DEF Idle, Down, Working
  <2>3. row.status \in Terminal
    BY <2>1, <1>rows, SettledRowType
  <2>4. \A u \in Runs : runs'[u] = runs[u] \/ (u = e /\ runs'[u] = row)
    <3>1. UNCHANGED runs \/ runs' = [runs EXCEPT ![e] = row]
      BY <1>15 DEF CompleteRun
    <3> HIDE DEF e, row
    <3> QED BY <3>1 DEF Typed, RowsTyped
  <2>5. worker'[v] = IF v = w THEN r ELSE worker[v]
    BY <1>15 DEF CompleteRun, Typed, WorkersTyped
  <2>6. worker[v].phase \in Working => worker[v].run \in Runs
    BY <1>fit DEF Fit
  <2> HIDE DEF e, row, r
  <2>7. CASE v = w
    BY <2>2, <2>5, <2>7 DEF Holds
  <2>8. CASE v # w
    <3>1. CASE worker[v].phase \notin Working
      BY <2>5, <2>8, <3>1 DEF Holds
    <3>2. CASE worker[v].phase \in Working /\ runs'[worker[v].run] = runs[worker[v].run]
      BY <2>5, <2>8, <3>2 DEF Holds, Keeps, Owned
    <3>3. CASE worker[v].phase \in Working /\ runs'[worker[v].run] = row
      BY <2>3, <2>5, <2>8, <3>3 DEF Holds, Keeps, Terminal
    <3> QED BY <2>4, <2>6, <3>1, <3>2, <3>3
  <2> QED BY <2>7, <2>8
<1>16. ASSUME NEW w \in Workers, Close(w) \/ Crash(w) PROVE Holds(v)'
  BY <1>16, <1>h DEF Close, Crash
<1>17. ASSUME NEW w \in Workers, Stop(w) PROVE Holds(v)'
  BY <1>17, HeldByExit DEF Stop
<1>18. ASSUME NEW e \in Runs, LeaseExpires(e) PROVE Holds(v)'
  <2>1. \A w \in Workers : ~(/\ runs[e].owner = w /\ WorksOn(w, e)
                             /\ worker[w].beat /\ ~worker[w].stopping)
    BY <1>18, <1>h DEF LeaseExpires
  <2>2. runs[e].status \notin Terminal
    BY <1>18 DEF LeaseExpires, Terminal
  <2>3. worker[v].phase \in Working => worker[v].run \in Runs /\ worker[v].run # e
    BY <2>1, <2>2, <1>fit DEF Holds, Keeps, WorksOn, Owned, Fit
  <2>4. UNCHANGED worker /\ runs' = [runs EXCEPT ![e] = [runs[e] EXCEPT !.lease = FALSE]]
    BY <1>18 DEF LeaseExpires
  <2>5. \A u \in Runs : u # e => runs'[u] = runs[u]
    BY <2>4 DEF Typed, RowsTyped
  <2> QED BY <2>3, <2>4, <2>5 DEF Holds, Keeps, Owned
<1>19. CASE UNCHANGED vars
  BY <1>19, <1>4 DEF vars
<1> QED BY <1>1, <1>2, <1>5, <1>6, <1>7, <1>8, <1>9, <1>10, <1>11, <1>12, <1>13,
           <1>14, <1>15, <1>16, <1>17, <1>18, <1>19 DEF Next

LEMMA HeldStep == Typed /\ Held /\ [Next]_vars => Held'
<1> SUFFICES ASSUME Typed, Held, [Next]_vars, faults' = 0
             PROVE  Alone' /\ \A v \in Workers : Holds(v)'
  BY DEF Held
<1>1. faults \in Nat /\ (Fault \/ NoFault)
  BY Spending DEF Typed, FaultsTyped
<1>2. faults = 0
  BY <1>1 DEF Fault, NoFault
<1>3. Alone /\ \A w \in Workers : Holds(w)
  BY <1>2 DEF Held
<1>4. Alone'
  BY <1>3, WorkerMoves, AloneStep
<1> QED BY <1>2, <1>3, <1>4, HoldsStep

\* The inductive invariant, all of it.
Inv == RowInv /\ Held

LEMMA InvCorrect == Spec => []Inv
<1>1. Init => Inv
  BY RowInvInit DEF Inv, Init, Held, Holds, Alone, WorksOn, Down, Working
<1>2. Inv /\ [Next]_vars => Inv'
  BY RowInvStep, HeldStep DEF Inv, RowInv
<1> QED BY <1>1, <1>2, PTL DEF Spec

\* Any number of processes that recover the same ids and race to claim them
\* never execute a run twice at a time, as long as nothing fails.
THEOREM OneExecutionCorrect == Spec => []OneExecution
<1>1. Inv => OneExecution
  BY DEF Inv, Held, Alone, OneExecution
<1> QED BY <1>1, InvCorrect, PTL

-----------------------------------------------------------------------------
(* The service implements the lifecycle it documents.                      *)

LEMMA LifecycleInit == Init => Lifecycle!Init
BY DEF Init, Lifecycle!Init, NoRow, BlankRow

\* What a step shows of row e, and only of row e, is a step of the lifecycle.
LEMMA LifecycleMove ==
    ASSUME RowsTyped, RowShape, NEW e \in Runs, NEW r \in Row, RowMove(e, r),
           runs' = [runs EXCEPT ![e] = r]
    PROVE  [Lifecycle!Next]_(Lifecycle!vars)
<1> DEFINE status == [u \in Runs |-> runs[u].status]
           attempt == [u \in Runs |-> runs[u].attempt]
           retryOf == [u \in Runs |-> runs[u].retryOf]
<1>1. runs[e] \in Row /\ ShapeOf(runs[e])
  BY DEF RowsTyped, RowShape
<1>2. /\ status' = [status EXCEPT ![e] = r.status]
      /\ attempt' = [attempt EXCEPT ![e] = r.attempt]
      /\ retryOf' = [retryOf EXCEPT ![e] = r.retryOf]
  BY DEF RowsTyped
<1>3. CASE runs[e].status = "absent" /\ r = NewRow(1, None)
  <2>1. r.status = "pending" /\ r.attempt = 1 /\ r.retryOf = retryOf[e]
    BY <1>1, <1>3 DEF NewRow, BlankRow, ShapeOf
  <2>2. UNCHANGED retryOf
    BY <1>2, <2>1
  <2>3. Lifecycle!Submit(e)
    BY <1>2, <1>3, <2>1, <2>2 DEF Lifecycle!Submit
  <2> QED BY <2>3 DEF Lifecycle!Next
<1>4. ASSUME runs[e].status = "absent", NEW original \in Runs,
             Retryable(runs[original], original),
             r = NewRow(runs[original].attempt + 1, original)
      PROVE  Lifecycle!Next
  <2>1. /\ r.status = "pending" /\ r.attempt = runs[original].attempt + 1
        /\ r.retryOf = original
    BY <1>4 DEF NewRow, BlankRow
  <2>2. Lifecycle!Retry(original, e)
    BY <1>2, <1>4, <2>1 DEF Lifecycle!Retry, Retryable
  <2> QED BY <2>2 DEF Lifecycle!Next
<1>5. CASE runs[e].status # "absent"
  <2>1. r.attempt = attempt[e] /\ r.retryOf = retryOf[e]
    BY <1>1, <1>5, MoveLineage
  <2>2. UNCHANGED <<attempt, retryOf>>
    BY <1>2, <2>1
  <2>3. \/ r.status = runs[e].status
        \/ runs[e].status = "pending" /\ r.status = "running"
        \/ runs[e].status = "running" /\ r.status \in Terminal
        \/ runs[e].status = "pending" /\ r.status = "canceled"
    <3>1. CASE r = CanceledRow(runs[e])
      BY <1>1, <3>1 DEF CanceledRow, Row
    <3>2. CASE Claimable(runs[e]) /\ \E w \in Workers : r = ClaimedRow(runs[e], w)
      BY <1>1, <3>2 DEF Claimable, ClaimedRow, Row
    <3>3. CASE /\ runs[e].status = "running"
               /\ \E o \in Outcomes : r = SettledRow(runs[e], o)
      BY <1>1, <3>3, SettledRowType
    <3>4. CASE \E b \in BOOLEAN : r = [runs[e] EXCEPT !.lease = b]
      BY <1>1, <3>4 DEF Row
    <3> QED BY <1>5, <3>1, <3>2, <3>3, <3>4 DEF RowMove
  <2>4. CASE r.status = runs[e].status
    <3>1. UNCHANGED status
      BY <1>2, <2>4
    <3> QED BY <2>2, <3>1 DEF Lifecycle!vars
  <2>5. CASE runs[e].status = "pending" /\ r.status = "running"
    <3>1. Lifecycle!Start(e)
      BY <1>2, <2>2, <2>5 DEF Lifecycle!Start
    <3> QED BY <3>1 DEF Lifecycle!Next
  <2>6. CASE \/ runs[e].status = "running" /\ r.status \in Terminal
             \/ runs[e].status = "pending" /\ r.status = "canceled"
    <3>1. r.status \in Lifecycle!Settled /\ Lifecycle!Settle(e, r.status)
      BY <1>2, <2>2, <2>6 DEF Lifecycle!Settle, Lifecycle!Settled, Terminal
    <3> QED BY <3>1 DEF Lifecycle!Next
  <2> QED BY <2>3, <2>4, <2>5, <2>6
<1> QED BY <1>3, <1>4, <1>5 DEF RowMove, Claimable

LEMMA LifecycleStep ==
    ASSUME RowsTyped, RowShape, TableMove
    PROVE  [Lifecycle!Next]_(Lifecycle!vars)
<1>1. CASE UNCHANGED runs
  BY <1>1 DEF Lifecycle!vars
<1>2. ASSUME NEW w \in Workers, Abandoned(w)
      PROVE  [Lifecycle!Next]_(Lifecycle!vars)
  BY <1>2, AbandonedLineage DEF Lifecycle!vars
<1> QED BY <1>1, <1>2, LifecycleMove DEF TableMove

\* Seen through status, attempt and retry reference, every behaviour of the
\* workers, channels, leases and failures is one of the documented lifecycle.
THEOREM LifecycleImplemented == Spec => ImplementsLifecycle
<1>1. RowInv /\ [Next]_vars => [Lifecycle!Next]_(Lifecycle!vars)
  BY RowInvStep, LifecycleStep DEF RowInv, Typed
<1> QED BY <1>1, LifecycleInit, RowInvCorrect, PTL
        DEF Spec, ImplementsLifecycle, Lifecycle!Spec
=============================================================================
