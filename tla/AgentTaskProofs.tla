--------------------------- MODULE AgentTaskProofs ---------------------------
(***************************************************************************)
(* Proofs about AgentTask for any number of tasks, processes and faults    *)
(* and any channel capacity.                                               *)
(*                                                                         *)
(* The inductive invariant Inv adds to the properties what the code relies *)
(* on without saying so: a worker about to write has chosen an outcome     *)
(* (Fit), a row that is not running names no worker (RowShape), and, while *)
(* nothing has gone wrong, a worker that works on a task still owns its    *)
(* row and its lease (Held).                                               *)
(*                                                                         *)
(* The argument goes through TableMove, which lists what a step of any     *)
(* actor may do to the table: the invariants about rows, the freezing of   *)
(* settled rows and the refinement all follow from it.                     *)
(***************************************************************************)
EXTENDS AgentTask, SequenceTheorems, FiniteSetTheorems, TLAPS

USE Constants DEF Constants

-----------------------------------------------------------------------------
(* What the channel operations return.                                     *)

\* Appending to a channel keeps it a sequence of ids within its capacity.
LEMMA EnqueueBounded ==
    ASSUME NEW q \in Seq(Tasks), NEW ids \in Seq(Tasks)
    PROVE  Enqueue(q, ids) \in Seq(Tasks) /\ Len(Enqueue(q, ids)) <= QueueSize
<1> DEFINE all == q \o ids
<1>1. all \in Seq(Tasks)
  BY ConcatProperties
<1>2. CASE Len(all) <= QueueSize
  BY <1>1, <1>2 DEF Enqueue
<1>3. CASE ~(Len(all) <= QueueSize)
  <2>1. \A i \in 1..QueueSize : all[i] \in Tasks
    BY <1>1, <1>3, ElementOfSeq
  <2>2. /\ SubSeq(all, 1, QueueSize) \in Seq(Tasks)
        /\ Len(SubSeq(all, 1, QueueSize)) = QueueSize
    <3> DEFINE n == QueueSize
    <3>1. n \in Int /\ 1 \in Int /\ n >= 1 /\ n - 1 + 1 = n
      OBVIOUS
    <3>2. \A i \in 1..n : all[i] \in Tasks
      BY <2>1
    <3> HIDE DEF n, all
    <3>3. SubSeq(all, 1, n) \in Seq(Tasks) /\ Len(SubSeq(all, 1, n)) = n
      BY <3>1, <3>2, SubSeqProperties
    <3> QED BY <3>3 DEF n
  <2> QED BY <1>3, <2>2 DEF Enqueue
<1> QED BY <1>2, <1>3

\* A recovery pass does as well, whatever the order in which the store lists
\* the runnable rows.
LEMMA RecoveredBounded ==
    ASSUME NEW q \in Seq(Tasks), NEW p \in Recovered(q)
    PROVE  p \in Seq(Tasks) /\ Len(p) <= QueueSize
<1>1. PICK ids \in SetToSeqs(Runnable) : p = Enqueue(q, ids)
  BY DEF Recovered
<1>2. Runnable \subseteq Tasks /\ Cardinality(Runnable) \in Nat
  BY FS_Subset, FS_CardinalityType DEF Runnable
<1>3. ids \in [1..Cardinality(Runnable) -> Tasks]
  BY <1>1, <1>2 DEF SetToSeqs
<1>4. ids \in Seq(Tasks)
  BY <1>2, <1>3, SeqDef
<1> QED BY <1>1, <1>4, EnqueueBounded

-----------------------------------------------------------------------------
(* What a row operation returns.                                           *)

LEMMA NewRowType ==
    ASSUME NEW n \in 1..MaxAttempts, NEW original \in Tasks \cup {None}
    PROVE  /\ NewRow(n, original) \in Row
           /\ NewRow(n, original).status = "pending"
           /\ NewRow(n, original).owner = None
           /\ NewRow(n, original).lease = FALSE
           /\ NewRow(n, original).attempt = n
           /\ NewRow(n, original).retryOf = original
<1>1. n \in 0..MaxAttempts
  BY DEF MaxAttempts
<1> QED BY <1>1 DEF Row, NewRow, BlankRow

LEMMA ClaimedRowType ==
    ASSUME NEW row \in Row, NEW w \in Workers
    PROVE  ClaimedRow(row, w) \in Row
BY DEF ClaimedRow, Row

LEMMA CanceledRowType ==
    ASSUME NEW row \in Row
    PROVE  CanceledRow(row) \in Row
BY DEF CanceledRow, Row, Terminal

LEMMA SettledRowType ==
    ASSUME NEW row \in Row, NEW outcome \in Outcomes
    PROVE  SettledRow(row, outcome) \in Row /\ SettledRow(row, outcome).status \in Terminal
BY ZenonT(60) DEF SettledRow, Row, Terminal, Outcomes, FailureCodes

LEMMA LeaseRowType ==
    ASSUME NEW row \in Row, NEW b \in BOOLEAN
    PROVE  [row EXCEPT !.lease = b] \in Row
BY DEF Row

LEMMA GoneRowType ==
    ASSUME NEW row \in Row
    PROVE  [row EXCEPT !.owner = Gone] \in Row
BY DEF Row

LEMMA OutcomeType ==
    ASSUME NEW seen, NEW ctx, NEW result
    PROVE  Outcome(seen, ctx, result) \in Outcomes
BY DEF Outcome, Outcomes, FailureCodes

-----------------------------------------------------------------------------
(* Types.                                                                  *)

\* A worker record as the code leaves it: the rows could not be typed if a
\* worker about to write had not chosen an outcome.
Fit(r) ==
    /\ r \in Worker
    /\ r.phase \in Working => r.task \in Tasks
    /\ r.phase = "decided" => r.result \in Outcomes

RowsTyped == tasks \in [Tasks -> Row]
WorkersTyped == worker \in [Workers -> Worker] /\ \A w \in Workers : Fit(worker[w])
QueuesTyped ==
    /\ queue \in [Workers -> Seq(Tasks)]
    /\ \A w \in Workers : Len(queue[w]) <= QueueSize
SignalsTyped == signals \in [Workers -> SUBSET Tasks]
FaultsTyped == faults \in 0..MaxFaults

Typed == RowsTyped /\ WorkersTyped /\ QueuesTyped /\ SignalsTyped /\ FaultsTyped

LEMMA TypedMeans == Typed => TypeOK
BY DEF Typed, RowsTyped, WorkersTyped, QueuesTyped, SignalsTyped, FaultsTyped,
       Fit, TypeOK

\* Writing one entry of a table keeps it typed.
LEMMA RowStep ==
    ASSUME RowsTyped, NEW t \in Tasks, NEW r \in Row, tasks' = [tasks EXCEPT ![t] = r]
    PROVE  RowsTyped'
BY DEF RowsTyped

LEMMA WorkerStep ==
    ASSUME WorkersTyped, NEW w \in Workers, NEW r, Fit(r),
           worker' = [worker EXCEPT ![w] = r]
    PROVE  WorkersTyped'
<1>1. r \in Worker
  BY DEF Fit
<1>2. worker' \in [Workers -> Worker]
  BY <1>1 DEF WorkersTyped
<1>3. \A v \in Workers : worker'[v] = IF v = w THEN r ELSE worker[v]
  BY DEF WorkersTyped
<1>4. \A v \in Workers : Fit(worker'[v])
  BY <1>3 DEF WorkersTyped
<1>5. \A v \in Workers : Fit(worker'[v]) = Fit(worker[v])'
  BY DEF Fit
<1> QED BY <1>2, <1>4 DEF WorkersTyped, Fit

LEMMA QueueStep ==
    ASSUME QueuesTyped, NEW w \in Workers, NEW q \in Seq(Tasks), Len(q) <= QueueSize,
           queue' = [queue EXCEPT ![w] = q]
    PROVE  QueuesTyped'
BY DEF QueuesTyped

LEMMA SignalStep ==
    ASSUME SignalsTyped, NEW w \in Workers, NEW s \in SUBSET Tasks,
           signals' = [signals EXCEPT ![w] = s]
    PROVE  SignalsTyped'
BY DEF SignalsTyped

LEMMA FaultStep ==
    ASSUME FaultsTyped, Fault \/ NoFault
    PROVE  FaultsTyped'
BY DEF FaultsTyped, Fault, NoFault

LEMMA SameTyped ==
    /\ RowsTyped /\ UNCHANGED tasks => RowsTyped'
    /\ WorkersTyped /\ UNCHANGED worker => WorkersTyped'
    /\ QueuesTyped /\ UNCHANGED queue => QueuesTyped'
    /\ SignalsTyped /\ UNCHANGED signals => SignalsTyped'
    /\ FaultsTyped /\ UNCHANGED faults => FaultsTyped'
BY DEF RowsTyped, WorkersTyped, QueuesTyped, SignalsTyped, FaultsTyped, Fit

LEMMA RestFits == Fit(Down) /\ Fit(Idle)
BY DEF Fit, Down, Idle, Worker, Working

LEMMA EmptyQueue == <<>> \in Seq(Tasks) /\ Len(<<>>) <= QueueSize
BY EmptySeq

LEMMA InitTyped == Init => Typed
<1> SUFFICES ASSUME Init PROVE Typed
  OBVIOUS
<1>1. RowsTyped
  BY DEF RowsTyped, Init, NoRow, BlankRow, Row, MaxAttempts
<1>2. WorkersTyped
  <2>1. Down \in Worker
    BY RestFits DEF Fit
  <2> QED BY <2>1, RestFits DEF WorkersTyped, Init
<1>3. QueuesTyped
  BY EmptyQueue DEF QueuesTyped, Init
<1>4. SignalsTyped /\ FaultsTyped
  BY DEF SignalsTyped, FaultsTyped, Init
<1> QED BY <1>1, <1>2, <1>3, <1>4 DEF Typed

\* A process that exits leaves everything typed.
LEMMA ExitTyped ==
    ASSUME Typed, NEW w \in Workers, Exit(w), Fault \/ NoFault
    PROVE  Typed'
<1> USE DEF Typed
<1>1. RowsTyped'
  BY GoneRowType DEF Exit, RowsTyped
<1>2. WorkersTyped'
  BY RestFits, WorkerStep DEF Exit
<1>3. QueuesTyped'
  BY EmptyQueue, QueueStep DEF Exit
<1>4. SignalsTyped'
  BY SignalStep DEF Exit
<1> QED BY <1>1, <1>2, <1>3, <1>4, FaultStep

\* Every action keeps everything typed.
LEMMA StepTyped == Typed /\ [Next]_vars => Typed'
<1> SUFFICES ASSUME Typed, [Next]_vars PROVE Typed'
  OBVIOUS
<1> USE DEF Typed
<1>rows. ASSUME NEW t \in Tasks PROVE tasks[t] \in Row
  BY DEF RowsTyped
<1>fit. ASSUME NEW w \in Workers PROVE Fit(worker[w])
  BY DEF WorkersTyped
<1>queues. ASSUME NEW w \in Workers
           PROVE  queue[w] \in Seq(Tasks) /\ Len(queue[w]) <= QueueSize
  BY DEF QueuesTyped
<1>signals. ASSUME NEW w \in Workers PROVE signals[w] \in SUBSET Tasks
  BY DEF SignalsTyped
<1>1. ASSUME NEW w \in Workers, NEW t \in Tasks, Create(w, t) PROVE Typed'
  <2>1. NewRow(1, None) \in Row
    <3>1. 1 \in 1..MaxAttempts /\ None \in Tasks \cup {None}
      BY DEF MaxAttempts
    <3> QED BY <3>1, NewRowType
  <2>2. RowsTyped'
    BY <1>1, <2>1, RowStep DEF Create
  <2>3. QueuesTyped'
    <3>1. <<t>> \in Seq(Tasks)
      OBVIOUS
    <3> QED BY <1>1, <1>queues, <3>1, EnqueueBounded, QueueStep DEF Create
  <2> QED BY <1>1, <2>2, <2>3, SameTyped DEF Create
<1>2. ASSUME NEW w \in Workers, NEW t \in Tasks, NEW original \in Tasks,
             Retry(w, original, t)
      PROVE  Typed'
  <2>1. tasks[original].attempt + 1 \in 1..MaxAttempts
    BY <1>2, <1>rows DEF Retry, Retryable, Row, MaxAttempts
  <2>2. NewRow(tasks[original].attempt + 1, original) \in Row
    BY <2>1, NewRowType
  <2>3. RowsTyped'
    BY <1>2, <2>2, RowStep DEF Retry
  <2>4. QueuesTyped'
    <3>1. <<t>> \in Seq(Tasks)
      OBVIOUS
    <3> QED BY <1>2, <1>queues, <3>1, EnqueueBounded, QueueStep DEF Retry
  <2> QED BY <1>2, <2>3, <2>4, SameTyped DEF Retry
<1>3. ASSUME NEW w \in Workers, NEW t \in Tasks, RequestCancel(w, t) PROVE Typed'
  <2>1. RowsTyped'
    BY <1>3, <1>rows, CanceledRowType, RowStep DEF RequestCancel
  <2>2. SignalsTyped'
    <3>1. signals[w] \cup {t} \in SUBSET Tasks
      BY <1>signals
    <3> QED BY <1>3, <3>1, SignalStep DEF RequestCancel
  <2> QED BY <1>3, <2>1, <2>2, SameTyped DEF RequestCancel
<1>4. ASSUME NEW w \in Workers, NEW t \in Tasks, SignalCancel(w, t) PROVE Typed'
  <2> DEFINE r == [worker[w] EXCEPT !.ctx = Cancelled(worker[w].ctx)]
  <2>1. Fit(r)
    BY <1>fit DEF Fit, Cancelled, Worker
  <2>2. WorkersTyped'
    BY <1>4, <2>1, WorkerStep, SameTyped DEF SignalCancel
  <2>3. SignalsTyped'
    BY <1>4, <1>signals, SignalStep, ZenonT(60) DEF SignalCancel
  <2> QED BY <1>4, <2>2, <2>3, SameTyped DEF SignalCancel
<1>5. ASSUME NEW w \in Workers, Boot(w) PROVE Typed'
  <2>1. WorkersTyped'
    BY <1>5, RestFits, WorkerStep DEF Boot
  <2>2. QueuesTyped'
    BY <1>5, EmptyQueue, RecoveredBounded, QueueStep DEF Boot
  <2>3. FaultsTyped'
    BY <1>5, FaultStep DEF Boot
  <2> QED BY <1>5, <2>1, <2>2, <2>3, SameTyped DEF Boot
<1>6. ASSUME NEW w \in Workers, Tick(w) PROVE Typed'
  <2>1. QueuesTyped'
    BY <1>6, <1>queues, RecoveredBounded, QueueStep DEF Tick
  <2> QED BY <1>6, <2>1, SameTyped DEF Tick
<1>7. ASSUME NEW w \in Workers, Dequeue(w) PROVE Typed'
  <2> DEFINE t == Head(queue[w])
             r == [Idle EXCEPT !.phase = "claimed", !.task = t, !.beat = TRUE]
  <2>1. /\ t \in Tasks
        /\ Tail(queue[w]) \in Seq(Tasks) /\ Len(Tail(queue[w])) <= QueueSize
    BY <1>7, <1>queues, HeadTailProperties DEF Dequeue
  <2>2. ClaimedRow(tasks[t], w) \in Row
    BY <1>rows, <2>1, ClaimedRowType
  <2>3. Fit(r)
    BY <2>1 DEF Fit, Idle, Down, Worker, Working
  <2>4. \/ UNCHANGED tasks
        \/ tasks' = [tasks EXCEPT ![t] = ClaimedRow(tasks[t], w)]
    BY <1>7 DEF Dequeue
  <2>5. RowsTyped'
    BY <2>1, <2>2, <2>4, RowStep, SameTyped
  <2>6. WorkersTyped'
    BY <1>7, <2>3, WorkerStep, SameTyped DEF Dequeue
  <2>7. QueuesTyped'
    BY <1>7, <2>1, QueueStep DEF Dequeue
  <2>8. FaultsTyped'
    BY <1>7, FaultStep DEF Dequeue, NoFault
  <2> QED BY <1>7, <2>5, <2>6, <2>7, <2>8, SameTyped DEF Dequeue
<1>8. ASSUME NEW w \in Workers, Begin(w) PROVE Typed'
  <2> DEFINE r == [worker[w] EXCEPT !.phase = "running",
                     !.ctx = IF worker[w].stopping THEN "canceled" ELSE "live"]
  <2>1. Fit(r)
    BY <1>8, <1>fit DEF Begin, Fit, Worker, Working
  <2>2. WorkersTyped'
    BY <1>8, <2>1, WorkerStep DEF Begin
  <2> QED BY <1>8, <2>2, SameTyped DEF Begin
<1>9. ASSUME NEW w \in Workers, Heartbeat(w) PROVE Typed'
  <2> DEFINE t == worker[w].task
             r == [worker[w] EXCEPT !.beat = FALSE, !.ctx = Cancelled(worker[w].ctx)]
  <2>1. Fit(r) /\ t \in Tasks
    BY <1>9, <1>fit DEF Heartbeat, Fit, Cancelled, Worker, Working
  <2>2. WorkersTyped'
    BY <1>9, <2>1, WorkerStep, SameTyped DEF Heartbeat
  <2>3. [tasks[t] EXCEPT !.lease = TRUE] \in Row
    BY <2>1, <1>rows, LeaseRowType
  <2>4. RowsTyped'
    BY <1>9, <2>1, <2>3, RowStep, SameTyped DEF Heartbeat
  <2>5. FaultsTyped'
    BY <1>9, FaultStep DEF Heartbeat
  <2> QED BY <1>9, <2>2, <2>4, <2>5, SameTyped DEF Heartbeat
<1>10. ASSUME NEW w \in Workers, Timeout(w) PROVE Typed'
  <2> DEFINE r == [worker[w] EXCEPT !.ctx = "deadline"]
  <2>1. Fit(r)
    BY <1>fit DEF Fit, Worker
  <2>2. WorkersTyped'
    BY <1>10, <2>1, WorkerStep DEF Timeout
  <2> QED BY <1>10, <2>2, SameTyped DEF Timeout
<1>11. ASSUME NEW w \in Workers, Return(w) PROVE Typed'
  <2>1. CASE worker[w].stopping
    BY <1>11, <2>1, ExitTyped DEF Return
  <2>2. CASE ~worker[w].stopping
    <3>1. PICK result \in Results :
            worker' = [worker EXCEPT ![w] =
                         [worker[w] EXCEPT !.phase = "returned", !.result = result]]
      BY <1>11, <2>2 DEF Return
    <3>2. Fit([worker[w] EXCEPT !.phase = "returned", !.result = result])
      BY <1>11, <1>fit DEF Return, Fit, Worker, Working
    <3>3. WorkersTyped'
      BY <3>1, <3>2, WorkerStep
    <3> QED BY <1>11, <2>2, <3>3, SameTyped DEF Return, NoFault
  <2> QED BY <2>1, <2>2
<1>12. ASSUME NEW w \in Workers, Decide(w) PROVE Typed'
  <2>1. PICK seen : worker' = [worker EXCEPT ![w] =
             [worker[w] EXCEPT !.phase = "decided",
                !.result = Outcome(seen, worker[w].ctx, worker[w].result)]]
    BY <1>12 DEF Decide
  <2> DEFINE o == Outcome(seen, worker[w].ctx, worker[w].result)
  <2>2. o \in Outcomes
    BY OutcomeType
  <2>3. Fit([worker[w] EXCEPT !.phase = "decided", !.result = o])
    <3> HIDE DEF o
    <3> QED BY <1>12, <2>2, <1>fit DEF Decide, Fit, Worker, Working
  <2>4. WorkersTyped'
    BY <2>1, <2>3, WorkerStep
  <2>5. FaultsTyped'
    BY <1>12, FaultStep DEF Decide
  <2> QED BY <1>12, <2>4, <2>5, SameTyped DEF Decide
<1>13. ASSUME NEW w \in Workers, Complete(w) PROVE Typed'
  <2> DEFINE t == worker[w].task
             row == SettledRow(tasks[t], worker[w].result)
             r == [Idle EXCEPT !.stopping = worker[w].stopping]
  <2>1. t \in Tasks /\ worker[w].result \in Outcomes
    BY <1>13, <1>fit DEF Complete, Fit, Working
  <2>2. row \in Row
    BY <2>1, <1>rows, SettledRowType
  <2>3. UNCHANGED tasks \/ tasks' = [tasks EXCEPT ![t] = row]
    BY <1>13 DEF Complete
  <2>4. RowsTyped'
    <3> HIDE DEF row, t
    <3> QED BY <2>1, <2>2, <2>3, RowStep, SameTyped
  <2>5. Fit(r)
    BY <1>fit DEF Fit, Idle, Down, Worker, Working
  <2>6. WorkersTyped'
    BY <1>13, <2>5, WorkerStep DEF Complete
  <2>7. FaultsTyped'
    BY <1>13, FaultStep DEF Complete
  <2> QED BY <1>13, <2>4, <2>6, <2>7, SameTyped DEF Complete
<1>14. ASSUME NEW w \in Workers, Close(w) PROVE Typed'
  <2> DEFINE r == [worker[w] EXCEPT !.stopping = TRUE,
                     !.ctx = IF worker[w].phase \in {"running", "returned"}
                             THEN Cancelled(worker[w].ctx) ELSE worker[w].ctx]
  <2>1. Fit(r)
    BY <1>fit DEF Fit, Worker, Cancelled
  <2>2. WorkersTyped'
    BY <1>14, <2>1, WorkerStep DEF Close
  <2>3. FaultsTyped'
    BY <1>14, FaultStep DEF Close
  <2> QED BY <1>14, <2>2, <2>3, SameTyped DEF Close
<1>15. ASSUME NEW w \in Workers, Stop(w) \/ Crash(w) PROVE Typed'
  BY <1>15, ExitTyped DEF Stop, Crash
<1>16. ASSUME NEW t \in Tasks, LeaseExpires(t) PROVE Typed'
  <2>1. [tasks[t] EXCEPT !.lease = FALSE] \in Row
    BY <1>rows, LeaseRowType
  <2>2. RowsTyped'
    BY <1>16, <2>1, RowStep DEF LeaseExpires
  <2>3. FaultsTyped'
    BY <1>16, FaultStep DEF LeaseExpires
  <2> QED BY <1>16, <2>2, <2>3, SameTyped DEF LeaseExpires
<1>17. CASE UNCHANGED vars
  BY <1>17, SameTyped DEF vars
<1> QED BY <1>1, <1>2, <1>3, <1>4, <1>5, <1>6, <1>7, <1>8, <1>9, <1>10, <1>11,
           <1>12, <1>13, <1>14, <1>15, <1>16, <1>17 DEF Next

\* Every variable keeps its shape in every reachable state: in particular the
\* attempt of a task never exceeds three, and no channel overflows.
THEOREM TypeCorrect == Spec => []TypeOK
<1>1. Init => Typed
  BY InitTyped
<1>2. Typed /\ [Next]_vars => Typed'
  BY StepTyped
<1>3. Typed => TypeOK
  BY TypedMeans
<1> QED BY <1>1, <1>2, <1>3, PTL DEF Spec

-----------------------------------------------------------------------------
(* What a step may do to the table.                                        *)

\* The new value r of row t, by the operation that wrote it.
RowMove(t, r) ==
    \/ tasks[t].status = "absent" /\ r = NewRow(1, None)
    \/ /\ tasks[t].status = "absent"
       /\ \E original \in Tasks :
             /\ Retryable(tasks[original], original)
             /\ r = NewRow(tasks[original].attempt + 1, original)
    \/ tasks[t].status # "absent" /\ r = CanceledRow(tasks[t])
    \/ Claimable(tasks[t]) /\ \E w \in Workers : r = ClaimedRow(tasks[t], w)
    \/ /\ tasks[t].status = "running"
       /\ \E outcome \in Outcomes : r = SettledRow(tasks[t], outcome)
    \/ /\ tasks[t].status = "running"
       /\ \E b \in BOOLEAN : r = [tasks[t] EXCEPT !.lease = b]

\* What the exit of process w does.
Abandoned(w) ==
    tasks' = [t \in Tasks |-> IF tasks[t].owner = w
                              THEN [tasks[t] EXCEPT !.owner = Gone]
                              ELSE tasks[t]]

TableMove ==
    \/ UNCHANGED tasks
    \/ \E w \in Workers : Abandoned(w)
    \/ \E t \in Tasks, r \in Row : RowMove(t, r) /\ tasks' = [tasks EXCEPT ![t] = r]

LEMMA Moves == Typed /\ Typed' /\ [Next]_vars => TableMove
<1> SUFFICES ASSUME Typed, Typed', [Next]_vars PROVE TableMove
  OBVIOUS
<1>rows. ASSUME NEW t \in Tasks PROVE tasks[t] \in Row /\ tasks'[t] \in Row
  BY DEF Typed, RowsTyped
<1>fit. ASSUME NEW w \in Workers PROVE Fit(worker[w])
  BY DEF Typed, WorkersTyped
\* A step that writes row t with r, by one of the operations of RowMove.
<1>write. ASSUME NEW t \in Tasks, NEW r, RowMove(t, r), tasks' = [tasks EXCEPT ![t] = r]
          PROVE  TableMove
  <2>1. tasks'[t] = r
    BY <1>write DEF Typed, RowsTyped
  <2>2. r \in Row
    BY <2>1, <1>rows
  <2> QED BY <1>write, <2>2 DEF TableMove
<1>1. ASSUME NEW w \in Workers, NEW t \in Tasks, Create(w, t) PROVE TableMove
  BY <1>1, <1>write DEF Create, RowMove
<1>2. ASSUME NEW w \in Workers, NEW t \in Tasks, NEW original \in Tasks,
             Retry(w, original, t)
      PROVE  TableMove
  BY <1>2, <1>write DEF Retry, RowMove
<1>3. ASSUME NEW w \in Workers, NEW t \in Tasks, RequestCancel(w, t) PROVE TableMove
  BY <1>3, <1>write DEF RequestCancel, RowMove
<1>4. ASSUME NEW w \in Workers, Dequeue(w) PROVE TableMove
  <2> DEFINE t == Head(queue[w])
  <2>1. t \in Tasks
    BY <1>4, HeadTailProperties DEF Dequeue, Typed, QueuesTyped
  <2>2. \/ UNCHANGED tasks
        \/ Claimable(tasks[t]) /\ tasks' = [tasks EXCEPT ![t] = ClaimedRow(tasks[t], w)]
    BY <1>4 DEF Dequeue
  <2>3. Claimable(tasks[t]) => RowMove(t, ClaimedRow(tasks[t], w))
    BY DEF RowMove
  <2> HIDE DEF t
  <2> QED BY <2>1, <2>2, <2>3, <1>write DEF TableMove
<1>5. ASSUME NEW w \in Workers, Heartbeat(w) PROVE TableMove
  <2> DEFINE t == worker[w].task
             r == [tasks[t] EXCEPT !.lease = TRUE]
  <2>1. t \in Tasks
    BY <1>5, <1>fit DEF Heartbeat, Fit, Working
  <2>2. \/ UNCHANGED tasks
        \/ tasks[t].status = "running" /\ tasks' = [tasks EXCEPT ![t] = r]
    BY <1>5 DEF Heartbeat, Owned
  <2>3. tasks[t].status = "running" => RowMove(t, r)
    BY DEF RowMove
  <2> HIDE DEF t, r
  <2> QED BY <2>1, <2>2, <2>3, <1>write DEF TableMove
<1>6. ASSUME NEW w \in Workers, Complete(w) PROVE TableMove
  <2> DEFINE t == worker[w].task
             r == SettledRow(tasks[t], worker[w].result)
  <2>1. t \in Tasks /\ worker[w].result \in Outcomes
    BY <1>6, <1>fit DEF Complete, Fit, Working
  <2>2. \/ UNCHANGED tasks
        \/ tasks[t].status = "running" /\ tasks' = [tasks EXCEPT ![t] = r]
    BY <1>6 DEF Complete, Owned
  <2>3. tasks[t].status = "running" => RowMove(t, r)
    BY <2>1 DEF RowMove
  <2> HIDE DEF t, r
  <2> QED BY <2>1, <2>2, <2>3, <1>write DEF TableMove
<1>7. ASSUME NEW w \in Workers, Exit(w) PROVE TableMove
  BY <1>7 DEF Exit, Abandoned, TableMove
<1>8. ASSUME NEW t \in Tasks, LeaseExpires(t) PROVE TableMove
  BY <1>8, <1>write DEF LeaseExpires, RowMove
<1>9. ASSUME NEW w \in Workers,
             \/ \E t \in Tasks : SignalCancel(w, t)
             \/ Boot(w) \/ Tick(w) \/ Begin(w) \/ Timeout(w) \/ Decide(w) \/ Close(w)
      PROVE  TableMove
  BY <1>9 DEF SignalCancel, Boot, Tick, Begin, Timeout, Decide, Close, TableMove
<1>10. ASSUME NEW w \in Workers, Return(w) PROVE TableMove
  BY <1>10, <1>7 DEF Return, TableMove
<1>11. ASSUME NEW w \in Workers, Stop(w) \/ Crash(w) PROVE TableMove
  BY <1>11, <1>7 DEF Stop, Crash
<1>12. CASE UNCHANGED vars
  BY <1>12 DEF vars, TableMove
<1> QED BY <1>1, <1>2, <1>3, <1>4, <1>5, <1>6, <1>8, <1>9, <1>10, <1>11, <1>12
        DEF Next

-----------------------------------------------------------------------------
(* Rows.                                                                   *)

ShapeOf(row) ==
    /\ row.status = "absent" => row.attempt = 0 /\ row.retryOf = None
    /\ row.status # "running" => row.owner = None /\ ~row.lease
    /\ row.status \in Terminal => (row.cancel <=> row.status = "canceled")
    /\ row.status = "pending" => ~row.cancel

RowShape == \A t \in Tasks : ShapeOf(tasks[t])

\* A row operation leaves the identity of the row alone, or creates it.
LEMMA MoveShape ==
    ASSUME NEW t \in Tasks, NEW r \in Row, tasks[t] \in Row, ShapeOf(tasks[t]),
           RowMove(t, r)
    PROVE  ShapeOf(r)
<1>1. CASE r = NewRow(1, None) \/ \E n, original : r = NewRow(n, original)
  BY <1>1 DEF NewRow, BlankRow, ShapeOf, Terminal
<1>2. CASE r = CanceledRow(tasks[t])
  BY <1>2 DEF CanceledRow, ShapeOf, Row, Terminal
<1>3. CASE \E w \in Workers : r = ClaimedRow(tasks[t], w)
  BY <1>3 DEF ClaimedRow, ShapeOf, Row, Terminal
<1>4. CASE tasks[t].status = "running" /\ \E o \in Outcomes : r = SettledRow(tasks[t], o)
  <2>1. PICK o \in Outcomes : r = SettledRow(tasks[t], o)
    BY <1>4
  <2>2. CASE o = "canceled"
    BY <2>1, <2>2, ZenonT(60) DEF SettledRow, ShapeOf, Row, Terminal, FailureCodes
  <2>3. CASE o # "canceled"
    BY <2>1, <2>3, ZenonT(60) DEF SettledRow, ShapeOf, Row, Terminal, Outcomes, FailureCodes
  <2> QED BY <2>2, <2>3
<1>5. CASE /\ tasks[t].status = "running"
           /\ \E b \in BOOLEAN : r = [tasks[t] EXCEPT !.lease = b]
  BY <1>5 DEF ShapeOf, Row, Terminal
<1> QED BY <1>1, <1>2, <1>3, <1>4, <1>5 DEF RowMove

LEMMA ShapeStep == RowsTyped /\ RowShape /\ TableMove => RowShape'
<1> SUFFICES ASSUME RowsTyped, RowShape, TableMove, NEW t \in Tasks
             PROVE  ShapeOf(tasks'[t])
  BY DEF RowShape, ShapeOf
<1>1. tasks[t] \in Row /\ ShapeOf(tasks[t])
  BY DEF RowsTyped, RowShape
<1>2. CASE UNCHANGED tasks
  BY <1>1, <1>2
<1>3. ASSUME NEW w \in Workers, Abandoned(w) PROVE ShapeOf(tasks'[t])
  BY <1>1, <1>3 DEF Abandoned, ShapeOf, Row
<1>4. ASSUME NEW u \in Tasks, NEW r \in Row, RowMove(u, r), tasks' = [tasks EXCEPT ![u] = r]
      PROVE  ShapeOf(tasks'[t])
  <2>1. tasks'[t] = IF t = u THEN r ELSE tasks[t]
    BY <1>4 DEF RowsTyped
  <2> QED BY <1>1, <1>4, <2>1, MoveShape
<1> QED BY <1>2, <1>3, <1>4 DEF TableMove

\* A settled row is none that an operation would touch.
LEMMA SettledStep ==
    ASSUME RowsTyped, RowShape, TableMove, NEW t \in Tasks, tasks[t].status \in Terminal
    PROVE  tasks'[t] = tasks[t]
<1>1. tasks[t] \in Row /\ tasks[t].owner = None
  BY DEF RowsTyped, RowShape, ShapeOf, Terminal
<1>2. CASE \E w \in Workers : Abandoned(w)
  BY <1>1, <1>2 DEF Abandoned
<1>3. ASSUME NEW u \in Tasks, NEW r \in Row, RowMove(u, r), tasks' = [tasks EXCEPT ![u] = r]
      PROVE  tasks'[t] = tasks[t]
  <2>1. CASE u # t
    BY <1>3, <2>1 DEF RowsTyped
  <2>2. CASE u = t
    <3>1. r = tasks[t]
      BY <1>3, <2>2 DEF RowMove, CanceledRow, Claimable, Terminal
    <3> QED BY <1>3, <2>2, <3>1 DEF RowsTyped
  <2> QED BY <2>1, <2>2
<1> QED BY <1>2, <1>3 DEF TableMove

-----------------------------------------------------------------------------
(* Chains of retries.                                                      *)

LEMMA AbandonedLineage ==
    ASSUME RowsTyped, NEW w \in Workers, Abandoned(w), NEW t \in Tasks
    PROVE  /\ tasks'[t].status = tasks[t].status
           /\ tasks'[t].code = tasks[t].code
           /\ tasks'[t].attempt = tasks[t].attempt
           /\ tasks'[t].retryOf = tasks[t].retryOf
BY DEF RowsTyped, Abandoned, Row

\* Only the insertion of a row says what it retries.
LEMMA MoveLineage ==
    ASSUME NEW t \in Tasks, NEW r \in Row, tasks[t] \in Row, RowMove(t, r),
           tasks[t].status # "absent"
    PROVE  r.attempt = tasks[t].attempt /\ r.retryOf = tasks[t].retryOf
<1>1. CASE r = CanceledRow(tasks[t])
  BY <1>1 DEF CanceledRow, Row
<1>2. CASE \E w \in Workers : r = ClaimedRow(tasks[t], w)
  BY <1>2 DEF ClaimedRow, Row
<1>3. CASE \E o \in Outcomes : r = SettledRow(tasks[t], o)
  BY <1>3 DEF SettledRow, Row
<1>4. CASE \E b \in BOOLEAN : r = [tasks[t] EXCEPT !.lease = b]
  BY <1>4 DEF Row
<1> QED BY <1>1, <1>2, <1>3, <1>4 DEF RowMove

LEMMA ChainStep == RowsTyped /\ RowShape /\ RetryChain /\ TableMove => RetryChain'
<1> SUFFICES ASSUME RowsTyped, RowShape, RetryChain, TableMove PROVE RetryChain'
  OBVIOUS
<1>rows. ASSUME NEW t \in Tasks PROVE tasks[t] \in Row /\ ShapeOf(tasks[t])
  BY DEF RowsTyped, RowShape
\* Nothing changes in what is retried, and what is retried is settled.
<1>same. ASSUME \A t \in Tasks : /\ tasks'[t].attempt = tasks[t].attempt
                                 /\ tasks'[t].retryOf = tasks[t].retryOf
         PROVE  RetryChain'
  <2>1. ASSUME NEW o \in Tasks, tasks[o].status \in {"failed", "canceled"}
        PROVE  tasks'[o] = tasks[o]
    BY <2>1, SettledStep DEF Terminal
  <2>2. \A t \in Tasks : tasks[t].retryOf \in Tasks \cup {None}
    BY <1>rows DEF Row
  <2> QED BY <1>same, <2>1, <2>2 DEF RetryChain
<1>1. CASE UNCHANGED tasks
  BY <1>1, <1>same
<1>2. CASE \E w \in Workers : Abandoned(w)
  BY <1>2, <1>same, AbandonedLineage
<1>3. ASSUME NEW u \in Tasks, NEW r \in Row, RowMove(u, r), tasks' = [tasks EXCEPT ![u] = r]
      PROVE  RetryChain'
  <2>1. \A t \in Tasks : tasks'[t] = IF t = u THEN r ELSE tasks[t]
    BY <1>3 DEF RowsTyped
  <2>2. CASE tasks[u].status # "absent"
    <3>1. r.attempt = tasks[u].attempt /\ r.retryOf = tasks[u].retryOf
      BY <1>3, <1>rows, <2>2, MoveLineage
    <3> QED BY <2>1, <3>1, <1>same
  <2>3. CASE tasks[u].status = "absent" /\ r = NewRow(1, None)
    <3>1. r.attempt = 1 /\ r.retryOf = None
      BY <2>3 DEF NewRow, BlankRow
    <3>2. \A t \in Tasks : tasks[t].retryOf \in Tasks \cup {None}
      BY <1>rows DEF Row
    <3>3. \A t \in Tasks : t # u /\ tasks[t].retryOf # None => tasks[t].retryOf # u
      BY <2>3 DEF RetryChain
    <3> QED BY <2>1, <3>1, <3>2, <3>3 DEF RetryChain
  <2>4. ASSUME tasks[u].status = "absent", NEW original \in Tasks,
               Retryable(tasks[original], original),
               r = NewRow(tasks[original].attempt + 1, original)
        PROVE  RetryChain'
    <3>1. r.attempt = tasks[original].attempt + 1 /\ r.retryOf = original
      BY <2>4 DEF NewRow, BlankRow
    <3>2. \A t \in Tasks : tasks[t].retryOf \in Tasks \cup {None}
      BY <1>rows DEF Row
    <3>3. \A t \in Tasks : t # u /\ tasks[t].retryOf # None => tasks[t].retryOf # u
      BY <2>4 DEF RetryChain
    <3>4. /\ original # u
          /\ tasks[original].status \in {"failed", "canceled"}
          /\ tasks[original].code # "quality_gate_failed"
          /\ \A other \in Tasks : tasks[other].retryOf # original
      BY <2>4 DEF Retryable
    <3> QED BY <2>1, <3>1, <3>2, <3>3, <3>4 DEF RetryChain
  <2>5. tasks[u].status = "absent" =>
          \/ r = NewRow(1, None)
          \/ \E original \in Tasks :
                /\ Retryable(tasks[original], original)
                /\ r = NewRow(tasks[original].attempt + 1, original)
    BY <1>3 DEF RowMove, Claimable
  <2> QED BY <2>2, <2>3, <2>4, <2>5
<1> QED BY <1>1, <1>2, <1>3 DEF TableMove

-----------------------------------------------------------------------------
(* The invariant of rows, and what follows from it.                        *)

RowInv == Typed /\ RowShape /\ RetryChain

LEMMA RowInvInit == Init => RowInv
<1> SUFFICES ASSUME Init PROVE RowInv
  OBVIOUS
<1>1. \A t \in Tasks : /\ tasks[t].status = "absent" /\ tasks[t].attempt = 0
                       /\ tasks[t].retryOf = None /\ tasks[t].owner = None
                       /\ ~tasks[t].lease
  BY DEF Init, NoRow, BlankRow
<1>2. RowShape
  BY <1>1 DEF RowShape, ShapeOf, Terminal
<1>3. RetryChain
  BY <1>1 DEF RetryChain
<1> QED BY <1>2, <1>3, InitTyped DEF RowInv

LEMMA RowInvStep == RowInv /\ [Next]_vars => RowInv' /\ TableMove
<1> SUFFICES ASSUME RowInv, [Next]_vars PROVE RowInv' /\ TableMove
  OBVIOUS
<1>1. Typed'
  BY StepTyped DEF RowInv
<1>2. TableMove
  BY <1>1, Moves DEF RowInv
<1>3. RowShape' /\ RetryChain'
  BY <1>2, ShapeStep, ChainStep DEF RowInv, Typed
<1> QED BY <1>1, <1>2, <1>3 DEF RowInv

LEMMA RowInvCorrect == Spec => []RowInv
BY RowInvInit, RowInvStep, PTL DEF Spec

\* Whatever the interleaving and the failures, a retry names a task that is
\* retried once only, one attempt before it, and retryable for good.
THEOREM RetryChainCorrect == Spec => []RetryChain
<1>1. RowInv => RetryChain
  BY DEF RowInv
<1> QED BY <1>1, RowInvCorrect, PTL

\* No step of any actor, in any state, changes a settled row.
THEOREM SettledFrozenCorrect == Spec => SettledFrozen
<1>1. RowInv /\ [Next]_vars =>
        [\A t \in Tasks : tasks[t].status \in Terminal => tasks'[t] = tasks[t]]_vars
  BY RowInvStep, SettledStep DEF RowInv, Typed
<1> QED BY <1>1, RowInvCorrect, PTL DEF Spec, SettledFrozen

-----------------------------------------------------------------------------
(* One execution at a time, as long as nothing fails.                      *)

Holds(w) ==
    worker[w].phase \in Working =>
        /\ Owned(tasks[worker[w].task], w)
        /\ tasks[worker[w].task].lease
        /\ worker[w].beat /\ ~worker[w].stopping

Held == faults = 0 => \A w \in Workers : Holds(w)

\* A row that is written without touching its holder, its status or its lease
\* is as good as unchanged.
LEMMA HeldByRow ==
    ASSUME Typed, NEW w \in Workers, Holds(w), UNCHANGED worker,
           NEW t \in Tasks, NEW r, tasks' = [tasks EXCEPT ![t] = r],
           Owned(tasks[t], w) /\ tasks[t].lease => Owned(r, w) /\ r.lease
    PROVE  Holds(w)'
<1>1. \A u \in Tasks : tasks'[u] = IF u = t THEN r ELSE tasks[u]
  BY DEF Typed, RowsTyped
<1>2. worker[w].phase \in Working => worker[w].task \in Tasks
  BY DEF Typed, WorkersTyped, Fit
<1> QED BY <1>1, <1>2 DEF Holds, Owned

\* A worker record that is written without touching task, beat or stopping, by
\* a worker that works before and after, keeps what it holds.
LEMMA HeldByWorker ==
    ASSUME Typed, NEW v \in Workers, Holds(v), UNCHANGED tasks,
           NEW w \in Workers, NEW r, worker' = [worker EXCEPT ![w] = r],
           r.phase \in Working =>
               /\ worker[w].phase \in Working /\ r.task = worker[w].task
               /\ r.beat = worker[w].beat /\ r.stopping = worker[w].stopping
    PROVE  Holds(v)'
<1>1. worker'[v] = IF v = w THEN r ELSE worker[v]
  BY DEF Typed, WorkersTyped
<1>2. CASE v # w
  BY <1>1, <1>2 DEF Holds, Owned
<1>3. CASE v = w
  BY <1>1, <1>3 DEF Holds, Owned
<1> QED BY <1>2, <1>3

\* A process that holds nothing exits.
LEMMA HeldByExit ==
    ASSUME Typed, NEW v \in Workers, Holds(v), NEW w \in Workers, Exit(w)
    PROVE  Holds(v)'
<1>1. worker'[v] = IF v = w THEN Down ELSE worker[v]
  BY DEF Typed, WorkersTyped, Exit
<1>2. CASE v = w
  BY <1>1, <1>2 DEF Holds, Down, Working
<1>3. CASE v # w
  <2>1. worker[v].phase \in Working => worker[v].task \in Tasks
    BY DEF Typed, WorkersTyped, Fit
  <2>2. \A t \in Tasks : tasks[t].owner = v => tasks'[t] = tasks[t]
    BY <1>3 DEF Exit
  <2> QED BY <1>1, <1>3, <2>1, <2>2 DEF Holds, Owned
<1> QED BY <1>2, <1>3

\* Every step spends one unit of the fault budget, or none.
LEMMA Spending == [Next]_vars => Fault \/ NoFault
<1> SUFFICES ASSUME [Next]_vars PROVE Fault \/ NoFault
  OBVIOUS
<1>1. ASSUME NEW w \in Workers, NEW t \in Tasks,
             \/ Create(w, t) \/ RequestCancel(w, t) \/ SignalCancel(w, t)
             \/ \E original \in Tasks : Retry(w, original, t)
      PROVE  NoFault
  BY <1>1 DEF Create, RequestCancel, SignalCancel, Retry, NoFault
<1>2. ASSUME NEW w \in Workers,
             \/ Boot(w) \/ Tick(w) \/ Begin(w) \/ Timeout(w) \/ Return(w)
             \/ Decide(w) \/ Close(w) \/ Stop(w) \/ Crash(w)
      PROVE  Fault \/ NoFault
  BY <1>2 DEF Boot, Tick, Begin, Timeout, Return, Decide, Close, Stop, Crash, NoFault
<1>3. ASSUME NEW w \in Workers, Dequeue(w) PROVE Fault \/ NoFault
  BY <1>3 DEF Dequeue, NoFault
<1>4. ASSUME NEW w \in Workers, Heartbeat(w) PROVE Fault \/ NoFault
  BY <1>4 DEF Heartbeat
<1>5. ASSUME NEW w \in Workers, Complete(w) PROVE Fault \/ NoFault
  BY <1>5 DEF Complete
<1>6. ASSUME NEW t \in Tasks, LeaseExpires(t) PROVE Fault \/ NoFault
  BY <1>6 DEF LeaseExpires
<1>7. CASE UNCHANGED vars
  BY <1>7 DEF vars, NoFault
<1> QED BY <1>1, <1>2, <1>3, <1>4, <1>5, <1>6, <1>7 DEF Next

LEMMA HeldStep == Typed /\ Held /\ [Next]_vars => Held'
<1> SUFFICES ASSUME Typed, Held, [Next]_vars, faults' = 0,
                    NEW v \in Workers
             PROVE  Holds(v)'
  BY DEF Held
<1>0. faults \in Nat /\ (Fault \/ NoFault)
  BY Spending DEF Typed, FaultsTyped
<1>h. faults = 0 /\ ~Fault /\ \A w \in Workers : Holds(w)
  BY <1>0 DEF Fault, NoFault, Held
<1>fit. ASSUME NEW w \in Workers PROVE Fit(worker[w])
  BY DEF Typed, WorkersTyped
<1>1. ASSUME NEW w \in Workers, NEW t \in Tasks,
             Create(w, t) \/ \E original \in Tasks : Retry(w, original, t)
      PROVE  Holds(v)'
  <2>1. /\ UNCHANGED worker /\ ~Owned(tasks[t], v)
        /\ \E r : tasks' = [tasks EXCEPT ![t] = r]
    BY <1>1 DEF Create, Retry, Owned
  <2> QED BY <1>h, <2>1, HeldByRow
<1>2. ASSUME NEW w \in Workers, NEW t \in Tasks, RequestCancel(w, t) PROVE Holds(v)'
  <2>1. tasks[t] \in Row
    BY DEF Typed, RowsTyped
  <2>2. Owned(tasks[t], v) /\ tasks[t].lease =>
          Owned(CanceledRow(tasks[t]), v) /\ CanceledRow(tasks[t]).lease
    BY <2>1 DEF Owned, CanceledRow, Row
  <2>3. UNCHANGED worker /\ tasks' = [tasks EXCEPT ![t] = CanceledRow(tasks[t])]
    BY <1>2 DEF RequestCancel
  <2> QED BY <1>h, <2>2, <2>3, HeldByRow
<1>3. ASSUME NEW w \in Workers, NEW r, UNCHANGED tasks, Fit(worker[w]),
             worker' = [worker EXCEPT ![w] = r],
             r.phase \in Working =>
               /\ worker[w].phase \in Working /\ r.task = worker[w].task
               /\ r.beat = worker[w].beat /\ r.stopping = worker[w].stopping
      PROVE  Holds(v)'
  BY <1>3, <1>h, HeldByWorker
<1>4. ASSUME UNCHANGED <<tasks, worker>> PROVE Holds(v)'
  BY <1>4, <1>h DEF Holds, Owned
<1>5. ASSUME NEW w \in Workers, NEW t \in Tasks, SignalCancel(w, t) PROVE Holds(v)'
  <2> DEFINE r == [worker[w] EXCEPT !.ctx = Cancelled(worker[w].ctx)]
  <2>1. /\ r.phase = worker[w].phase /\ r.task = worker[w].task
        /\ r.beat = worker[w].beat /\ r.stopping = worker[w].stopping
    BY <1>fit DEF Fit, Worker
  <2>2. \/ worker' = [worker EXCEPT ![w] = r]
        \/ UNCHANGED worker
    BY <1>5 DEF SignalCancel
  <2> HIDE DEF r
  <2> QED BY <1>5, <2>1, <2>2, <1>3, <1>4, <1>fit DEF SignalCancel
<1>6. ASSUME NEW w \in Workers, Boot(w) PROVE Holds(v)'
  <2>1. UNCHANGED tasks /\ worker' = [worker EXCEPT ![w] = Idle] /\ Idle.phase \notin Working
    BY <1>6 DEF Boot, Idle, Down, Working
  <2> QED BY <2>1, <1>3, <1>fit
<1>7. ASSUME NEW w \in Workers, Tick(w) PROVE Holds(v)'
  BY <1>7, <1>4 DEF Tick
<1>8. ASSUME NEW w \in Workers, Dequeue(w) PROVE Holds(v)'
  <2> DEFINE t == Head(queue[w])
             r == [Idle EXCEPT !.phase = "claimed", !.task = t, !.beat = TRUE]
  <2>1. t \in Tasks
    BY <1>8, HeadTailProperties DEF Dequeue, Typed, QueuesTyped
  <2>2. CASE UNCHANGED <<tasks, worker>>
    BY <2>2, <1>4
  <2>3. CASE /\ Claimable(tasks[t])
             /\ tasks' = [tasks EXCEPT ![t] = ClaimedRow(tasks[t], w)]
             /\ worker' = [worker EXCEPT ![w] = r]
    <3>1. \A u \in Tasks : tasks'[u] = IF u = t THEN ClaimedRow(tasks[t], w) ELSE tasks[u]
      BY <2>3 DEF Typed, RowsTyped
    <3>2. worker'[v] = IF v = w THEN r ELSE worker[v]
      BY <2>3 DEF Typed, WorkersTyped
    <3>3. CASE v = w
      <4>1. /\ r.phase = "claimed" /\ r.task = t /\ r.beat /\ ~r.stopping
        BY DEF Idle, Down
      <4>2. Owned(ClaimedRow(tasks[t], w), w) /\ ClaimedRow(tasks[t], w).lease
        BY <2>1 DEF Owned, ClaimedRow, Typed, RowsTyped, Row
      <4> HIDE DEF r, t
      <4> QED BY <2>1, <3>1, <3>2, <3>3, <4>1, <4>2 DEF Holds
    <3>4. CASE v # w
      <4>1. worker[v].phase \in Working => worker[v].task \in Tasks
        BY <1>fit DEF Fit
      <4>2. worker[v].phase \in Working => worker[v].task # t
        BY <1>h, <2>3 DEF Holds, Owned, Claimable
      <4> HIDE DEF r, t
      <4> QED BY <1>h, <3>1, <3>2, <3>4, <4>1, <4>2 DEF Holds, Owned
    <3> QED BY <3>3, <3>4
  <2> QED BY <1>8, <1>h, <2>2, <2>3 DEF Dequeue
<1>9. ASSUME NEW w \in Workers, Begin(w) PROVE Holds(v)'
  <2> DEFINE r == [worker[w] EXCEPT !.phase = "running",
                     !.ctx = IF worker[w].stopping THEN "canceled" ELSE "live"]
  <2>1. /\ worker[w].phase \in Working /\ r.task = worker[w].task
        /\ r.beat = worker[w].beat /\ r.stopping = worker[w].stopping
    BY <1>9, <1>fit DEF Begin, Fit, Worker, Working
  <2>2. UNCHANGED tasks /\ worker' = [worker EXCEPT ![w] = r]
    BY <1>9 DEF Begin
  <2> HIDE DEF r
  <2> QED BY <2>1, <2>2, <1>3, <1>fit
<1>10. ASSUME NEW w \in Workers, Heartbeat(w) PROVE Holds(v)'
  <2> DEFINE t == worker[w].task
             r == [tasks[t] EXCEPT !.lease = TRUE]
  <2>1. t \in Tasks /\ worker[w].phase \in Working
    BY <1>10, <1>fit DEF Heartbeat, Fit, Working
  <2>2. UNCHANGED worker /\ tasks' = [tasks EXCEPT ![t] = r]
    BY <1>10, <1>h, <2>1 DEF Heartbeat, Holds
  <2>3. Owned(tasks[t], v) => Owned(r, v) /\ r.lease
    BY <2>1 DEF Owned, Typed, RowsTyped, Row
  <2> HIDE DEF t, r
  <2> QED BY <1>h, <2>1, <2>2, <2>3, HeldByRow
<1>11. ASSUME NEW w \in Workers, Timeout(w) PROVE Holds(v)'
  <2> DEFINE r == [worker[w] EXCEPT !.ctx = "deadline"]
  <2>1. /\ worker[w].phase \in Working /\ r.task = worker[w].task
        /\ r.beat = worker[w].beat /\ r.stopping = worker[w].stopping
    BY <1>11, <1>fit DEF Timeout, Fit, Worker, Working
  <2>2. UNCHANGED tasks /\ worker' = [worker EXCEPT ![w] = r]
    BY <1>11 DEF Timeout
  <2> HIDE DEF r
  <2> QED BY <2>1, <2>2, <1>3, <1>fit
<1>12. ASSUME NEW w \in Workers, Return(w) PROVE Holds(v)'
  <2>1. CASE Exit(w)
    BY <1>h, <2>1, HeldByExit
  <2>2. CASE ~Exit(w)
    <3>1. PICK result \in Results :
            worker' = [worker EXCEPT ![w] =
                         [worker[w] EXCEPT !.phase = "returned", !.result = result]]
      BY <1>12, <2>2 DEF Return
    <3> DEFINE r == [worker[w] EXCEPT !.phase = "returned", !.result = result]
    <3>2. /\ worker[w].phase \in Working /\ r.task = worker[w].task
          /\ r.beat = worker[w].beat /\ r.stopping = worker[w].stopping
      BY <1>12, <1>fit DEF Return, Fit, Worker, Working
    <3>3. UNCHANGED tasks
      BY <1>12, <2>2 DEF Return
    <3> HIDE DEF r
    <3> QED BY <3>1, <3>2, <3>3, <1>3, <1>fit DEF r
  <2> QED BY <2>1, <2>2
<1>13. ASSUME NEW w \in Workers, Decide(w) PROVE Holds(v)'
  <2>1. PICK o : worker' = [worker EXCEPT ![w] =
                               [worker[w] EXCEPT !.phase = "decided", !.result = o]]
    BY <1>13 DEF Decide
  <2> DEFINE r == [worker[w] EXCEPT !.phase = "decided", !.result = o]
  <2>2. /\ worker[w].phase \in Working /\ r.task = worker[w].task
        /\ r.beat = worker[w].beat /\ r.stopping = worker[w].stopping
    BY <1>13, <1>fit DEF Decide, Fit, Worker, Working
  <2>3. UNCHANGED tasks
    BY <1>13 DEF Decide
  <2>4. worker' = [worker EXCEPT ![w] = r]
    BY <2>1
  <2> HIDE DEF r
  <2> QED BY <2>2, <2>3, <2>4, <1>3, <1>fit
<1>14. ASSUME NEW w \in Workers, Complete(w) PROVE Holds(v)'
  <2> DEFINE t == worker[w].task
             row == SettledRow(tasks[t], worker[w].result)
             r == [Idle EXCEPT !.stopping = worker[w].stopping]
  <2>1. t \in Tasks /\ worker[w].phase \in Working /\ r.phase \notin Working
    BY <1>14, <1>fit DEF Complete, Fit, Working, Idle, Down
  <2>2. Owned(tasks[t], w) /\ tasks' = [tasks EXCEPT ![t] = row]
    BY <1>14, <1>h, <2>1 DEF Complete, Holds
  <2>3. worker'[v] = IF v = w THEN r ELSE worker[v]
    BY <1>14 DEF Complete, Typed, WorkersTyped
  <2>4. CASE v = w
    BY <2>1, <2>3, <2>4 DEF Holds
  <2>5. CASE v # w
    <3>1. worker[v].phase \in Working => worker[v].task \in Tasks /\ worker[v].task # t
      BY <1>h, <1>fit, <2>2, <2>5 DEF Fit, Holds, Owned
    <3>2. \A u \in Tasks : u # t => tasks'[u] = tasks[u]
      BY <2>2 DEF Typed, RowsTyped
    <3> HIDE DEF t, row, r
    <3> QED BY <1>h, <2>3, <2>5, <3>1, <3>2 DEF Holds, Owned
  <2> QED BY <2>4, <2>5
<1>15. ASSUME NEW w \in Workers, Close(w) \/ Crash(w) PROVE Holds(v)'
  BY <1>15, <1>h DEF Close, Crash
<1>16. ASSUME NEW w \in Workers, Stop(w) PROVE Holds(v)'
  BY <1>16, <1>h, HeldByExit DEF Stop
<1>17. ASSUME NEW t \in Tasks, LeaseExpires(t) PROVE Holds(v)'
  <2>1. ~Attended(t)
    BY <1>17, <1>h DEF LeaseExpires
  <2>2. worker[v].phase \in Working => worker[v].task # t
    BY <1>h, <2>1 DEF Holds, Attended, WorksOn, Owned
  <2>3. UNCHANGED worker /\ tasks' = [tasks EXCEPT ![t] = [tasks[t] EXCEPT !.lease = FALSE]]
    BY <1>17 DEF LeaseExpires
  <2>4. \A u \in Tasks : u # t => tasks'[u] = tasks[u]
    BY <2>3 DEF Typed, RowsTyped
  <2>5. worker[v].phase \in Working => worker[v].task \in Tasks
    BY <1>fit DEF Fit
  <2> QED BY <1>h, <2>2, <2>3, <2>4, <2>5 DEF Holds, Owned
<1>18. CASE UNCHANGED vars
  BY <1>18, <1>4 DEF vars
<1> QED BY <1>1, <1>2, <1>5, <1>6, <1>7, <1>8, <1>9, <1>10, <1>11, <1>12, <1>13,
           <1>14, <1>15, <1>16, <1>17, <1>18 DEF Next

-----------------------------------------------------------------------------
(* Nobody is interrupted without cause, as long as nothing fails.          *)

\* A request to cancel the task was accepted, or came too late.
Wanted(row) ==
    \/ row.status \in Terminal
    \/ row.status = "running" /\ row.cancel

\* An interrupted execution is one somebody asked to cancel.
Warranted(r) ==
    /\ r.phase \in {"running", "returned"} /\ r.ctx = "canceled" => Wanted(tasks[r.task])
    /\ r.phase = "decided" => r.result # "lease_lost"

Signalled == \A w \in Workers : \A t \in signals[w] : Wanted(tasks[t])
Interrupted == \A w \in Workers : Warranted(worker[w])
NoneLost == \A t \in Tasks : tasks[t].code # "lease_lost"

Honest == faults = 0 => Signalled /\ Interrupted /\ NoneLost

\* No operation of the table takes a request back.
LEMMA WantedStep ==
    ASSUME RowsTyped, TableMove, NEW t \in Tasks, Wanted(tasks[t])
    PROVE  Wanted(tasks'[t])
<1>1. tasks[t] \in Row
  BY DEF RowsTyped
<1>2. CASE \E w \in Workers : Abandoned(w)
  BY <1>1, <1>2 DEF Abandoned, Wanted, Row
<1>3. ASSUME NEW u \in Tasks, NEW r \in Row, RowMove(u, r), tasks' = [tasks EXCEPT ![u] = r]
      PROVE  Wanted(tasks'[t])
  <2>1. tasks'[t] = IF t = u THEN r ELSE tasks[t]
    BY <1>3 DEF RowsTyped
  <2>2. ASSUME t = u PROVE Wanted(r)
    <3>1. CASE tasks[t].status = "absent" \/ Claimable(tasks[t])
      BY <3>1 DEF Wanted, Claimable, Terminal
    <3>2. CASE r = CanceledRow(tasks[t])
      BY <1>1, <3>2 DEF CanceledRow, Wanted, Row, Terminal
    <3>3. ASSUME NEW o \in Outcomes, r = SettledRow(tasks[t], o) PROVE Wanted(r)
      BY <1>1, <3>3, SettledRowType DEF Wanted
    <3>4. ASSUME NEW b \in BOOLEAN, r = [tasks[t] EXCEPT !.lease = b] PROVE Wanted(r)
      BY <1>1, <3>4 DEF Wanted, Row
    <3> QED BY <1>3, <2>2, <3>1, <3>2, <3>3, <3>4 DEF RowMove
  <2> QED BY <2>1, <2>2
<1> QED BY <1>2, <1>3 DEF TableMove

\* What is wanted after an accepted request.
LEMMA WantedNow ==
    ASSUME NEW row \in Row, row.status # "absent"
    PROVE  Wanted(CanceledRow(row)) /\ CanceledRow(row).code = row.code
BY DEF CanceledRow, Wanted, Row, Terminal

\* The worker who finds no cause is not the one to write lease_lost.
LEMMA NotLost ==
    ASSUME NEW seen \in BOOLEAN, NEW ctx, NEW result, ctx = "canceled" => seen
    PROVE  Outcome(seen, ctx, result) # "lease_lost"
BY DEF Outcome

LEMMA HonestStep == Typed /\ Typed' /\ Held /\ Honest /\ [Next]_vars => Honest'
<1> SUFFICES ASSUME Typed, Typed', Held, Honest, [Next]_vars, faults' = 0
             PROVE  Signalled' /\ Interrupted' /\ NoneLost'
  BY DEF Honest
<1>0. faults \in Nat /\ (Fault \/ NoFault)
  BY Spending DEF Typed, FaultsTyped
<1>h. /\ ~Fault /\ Signalled /\ Interrupted /\ NoneLost
      /\ \A w \in Workers : Holds(w)
  BY <1>0 DEF Fault, NoFault, Held, Honest
<1>fit. ASSUME NEW w \in Workers PROVE Fit(worker[w]) /\ worker[w] \in Worker
  BY DEF Typed, WorkersTyped
<1>row. ASSUME NEW t \in Tasks PROVE tasks[t] \in Row
  BY DEF Typed, RowsTyped
<1>keep. ASSUME NEW t \in Tasks, Wanted(tasks[t]) PROVE Wanted(tasks'[t])
  BY <1>keep, Moves, WantedStep DEF Typed
<1>due. ASSUME NEW w \in Workers, NEW t \in signals[w] PROVE t \in Tasks /\ Wanted(tasks[t])
  BY <1>h DEF Signalled, Typed, SignalsTyped
\* Signals that were there, or fewer.
<1>sig. ASSUME \A w \in Workers : signals'[w] \subseteq signals[w] PROVE Signalled'
  BY <1>sig, <1>due, <1>keep DEF Signalled
\* Workers as they were.
<1>same. ASSUME NEW w \in Workers, worker'[w] = worker[w] PROVE Warranted(worker[w])'
  <2>1. worker[w].phase \in {"running", "returned"} => worker[w].task \in Tasks
    BY <1>fit DEF Fit, Working
  <2> QED BY <1>h, <1>keep, <1>same, <2>1 DEF Interrupted, Warranted
\* One worker that is written.
<1>one. ASSUME NEW w \in Workers, NEW r, worker' = [worker EXCEPT ![w] = r],
               /\ r.phase \in {"running", "returned"} /\ r.ctx = "canceled" => Wanted(tasks'[r.task])
               /\ r.phase = "decided" => r.result # "lease_lost"
        PROVE  Interrupted'
  <2>1. \A v \in Workers : worker'[v] = IF v = w THEN r ELSE worker[v]
    BY <1>one DEF Typed, WorkersTyped
  <2> QED BY <1>one, <1>same, <2>1 DEF Interrupted, Warranted
<1>1. ASSUME NEW w \in Workers, NEW t \in Tasks,
             Create(w, t) \/ \E original \in Tasks : Retry(w, original, t)
      PROVE  Signalled' /\ Interrupted' /\ NoneLost'
  <2>1. UNCHANGED <<worker, signals>>
    BY <1>1 DEF Create, Retry
  <2>2. \E r : tasks' = [tasks EXCEPT ![t] = r] /\ r.code = "none"
    <3>1. \A n, original : NewRow(n, original).code = "none"
      BY DEF NewRow, BlankRow
    <3> QED BY <1>1, <3>1 DEF Create, Retry
  <2>3. NoneLost'
    BY <1>h, <2>2 DEF NoneLost, Typed, RowsTyped
  <2> QED BY <1>sig, <1>same, <2>1, <2>3 DEF Interrupted
<1>2. ASSUME NEW w \in Workers, NEW t \in Tasks, RequestCancel(w, t)
      PROVE  Signalled' /\ Interrupted' /\ NoneLost'
  <2>1. \A u \in Tasks : tasks'[u] = IF u = t THEN CanceledRow(tasks[t]) ELSE tasks[u]
    BY <1>2 DEF RequestCancel, Typed, RowsTyped
  <2>2. Wanted(CanceledRow(tasks[t])) /\ CanceledRow(tasks[t]).code = tasks[t].code
    BY <1>2, <1>row, WantedNow DEF RequestCancel
  <2>3. NoneLost'
    BY <1>h, <2>1, <2>2 DEF NoneLost
  <2>4. \A v \in Workers : signals'[v] \subseteq signals[v] \cup {t}
    BY <1>2 DEF RequestCancel, Typed, SignalsTyped
  <2>5. Signalled'
    BY <1>due, <1>keep, <2>1, <2>2, <2>4 DEF Signalled
  <2> QED BY <1>2, <1>same, <2>3, <2>5 DEF Interrupted, RequestCancel
<1>3. ASSUME NEW w \in Workers, NEW t \in Tasks, SignalCancel(w, t)
      PROVE  Signalled' /\ Interrupted' /\ NoneLost'
  <2> DEFINE r == [worker[w] EXCEPT !.ctx = Cancelled(worker[w].ctx)]
  <2>1. Signalled' /\ NoneLost'
    BY <1>3, <1>h, <1>sig DEF SignalCancel, NoneLost, Typed, SignalsTyped
  <2>2. CASE UNCHANGED worker
    BY <1>same, <2>1, <2>2 DEF Interrupted
  <2>3. CASE worker[w].phase = "running" /\ worker[w].task = t
             /\ worker' = [worker EXCEPT ![w] = r]
    <3>1. r.phase = "running" /\ r.task = t
      BY <1>fit, <2>3 DEF Worker
    <3>2. Wanted(tasks'[r.task])
      BY <1>3, <1>due, <1>keep, <3>1 DEF SignalCancel
    <3> HIDE DEF r
    <3> QED BY <1>one, <2>1, <2>3, <3>1, <3>2
  <2> QED BY <1>3, <2>2, <2>3 DEF SignalCancel
<1>4. ASSUME NEW w \in Workers, Boot(w) PROVE Signalled' /\ Interrupted' /\ NoneLost'
  <2>1. UNCHANGED <<tasks, signals>> /\ worker' = [worker EXCEPT ![w] = Idle]
    BY <1>4 DEF Boot
  <2>2. Idle.phase = "idle"
    BY DEF Idle, Down
  <2> QED BY <1>h, <1>sig, <1>one, <2>1, <2>2 DEF NoneLost
<1>5. ASSUME NEW w \in Workers, Tick(w) PROVE Signalled' /\ Interrupted' /\ NoneLost'
  BY <1>5, <1>h, <1>sig, <1>same DEF Tick, Interrupted, NoneLost
<1>6. ASSUME NEW w \in Workers, Dequeue(w) PROVE Signalled' /\ Interrupted' /\ NoneLost'
  <2> DEFINE t == Head(queue[w])
             r == [Idle EXCEPT !.phase = "claimed", !.task = t, !.beat = TRUE]
  <2>1. t \in Tasks
    BY <1>6, HeadTailProperties DEF Dequeue, Typed, QueuesTyped
  <2>2. Signalled'
    BY <1>6, <1>sig DEF Dequeue
  <2>3. CASE UNCHANGED <<tasks, worker>>
    BY <1>h, <1>same, <2>2, <2>3 DEF Interrupted, NoneLost
  <2>4. CASE /\ tasks' = [tasks EXCEPT ![t] = ClaimedRow(tasks[t], w)]
             /\ worker' = [worker EXCEPT ![w] = r]
    <3>1. r.phase = "claimed"
      BY DEF Idle, Down
    <3>2. ClaimedRow(tasks[t], w).code = tasks[t].code
      BY <1>row, <2>1 DEF ClaimedRow, Row
    <3>3. NoneLost'
      <4> HIDE DEF r, t
      <4> QED BY <1>h, <2>1, <2>4, <3>2 DEF NoneLost, Typed, RowsTyped
    <3> HIDE DEF r, t
    <3> QED BY <1>one, <2>2, <2>4, <3>1, <3>3
  <2> QED BY <1>6, <1>h, <2>3, <2>4 DEF Dequeue
<1>7. ASSUME NEW w \in Workers, Begin(w) PROVE Signalled' /\ Interrupted' /\ NoneLost'
  <2> DEFINE r == [worker[w] EXCEPT !.phase = "running",
                     !.ctx = IF worker[w].stopping THEN "canceled" ELSE "live"]
  <2>1. ~worker[w].stopping
    BY <1>7, <1>h DEF Begin, Holds, Working
  <2>2. r.phase = "running" /\ r.ctx = "live"
    BY <1>fit, <2>1 DEF Worker
  <2>3. UNCHANGED <<tasks, signals>> /\ worker' = [worker EXCEPT ![w] = r]
    BY <1>7 DEF Begin
  <2> HIDE DEF r
  <2> QED BY <1>h, <1>sig, <1>one, <2>2, <2>3 DEF NoneLost
<1>8. ASSUME NEW w \in Workers, Heartbeat(w) PROVE Signalled' /\ Interrupted' /\ NoneLost'
  <2> DEFINE t == worker[w].task
             r == [tasks[t] EXCEPT !.lease = TRUE]
  <2>1. t \in Tasks /\ worker[w].phase \in Working
    BY <1>8, <1>fit DEF Heartbeat, Fit, Working
  <2>2. UNCHANGED <<worker, signals>> /\ tasks' = [tasks EXCEPT ![t] = r]
    BY <1>8, <1>h, <2>1 DEF Heartbeat, Holds
  <2>3. r.code = tasks[t].code
    BY <1>row, <2>1 DEF Row
  <2>4. NoneLost'
    <3> HIDE DEF r, t
    <3> QED BY <1>h, <2>1, <2>2, <2>3 DEF NoneLost, Typed, RowsTyped
  <2> QED BY <1>sig, <1>same, <2>2, <2>4 DEF Interrupted
<1>9. ASSUME NEW w \in Workers, Timeout(w) PROVE Signalled' /\ Interrupted' /\ NoneLost'
  <2> DEFINE r == [worker[w] EXCEPT !.ctx = "deadline"]
  <2>1. r.phase \in {"running", "returned"} /\ r.ctx = "deadline"
    BY <1>9, <1>fit DEF Timeout, Worker
  <2>2. UNCHANGED <<tasks, signals>> /\ worker' = [worker EXCEPT ![w] = r]
    BY <1>9 DEF Timeout
  <2> HIDE DEF r
  <2> QED BY <1>h, <1>sig, <1>one, <2>1, <2>2 DEF NoneLost
<1>10. ASSUME NEW w \in Workers, Return(w) PROVE Signalled' /\ Interrupted' /\ NoneLost'
  <2>1. worker[w].phase = "running" /\ ~worker[w].stopping
    BY <1>10, <1>h DEF Return, Holds, Working
  <2>2. PICK result \in Results :
          worker' = [worker EXCEPT ![w] =
                       [worker[w] EXCEPT !.phase = "returned", !.result = result]]
    BY <1>10, <2>1 DEF Return
  <2> DEFINE r == [worker[w] EXCEPT !.phase = "returned", !.result = result]
  <2>3. r.phase = "returned" /\ r.ctx = worker[w].ctx /\ r.task = worker[w].task
    BY <1>fit DEF Worker
  <2>4. UNCHANGED <<tasks, signals>>
    BY <1>10, <2>1 DEF Return
  <2>5. r.ctx = "canceled" => Wanted(tasks'[r.task])
    BY <1>h, <2>1, <2>3, <2>4 DEF Interrupted, Warranted
  <2>6. worker' = [worker EXCEPT ![w] = r]
    BY <2>2
  <2> HIDE DEF r
  <2> QED BY <1>h, <1>sig, <1>one, <2>3, <2>4, <2>5, <2>6 DEF NoneLost
<1>11. ASSUME NEW w \in Workers, Decide(w) PROVE Signalled' /\ Interrupted' /\ NoneLost'
  <2> DEFINE t == worker[w].task
             o == Outcome(tasks[t].cancel, worker[w].ctx, worker[w].result)
             r == [worker[w] EXCEPT !.phase = "decided", !.result = o]
  <2>1. UNCHANGED <<tasks, signals>> /\ worker' = [worker EXCEPT ![w] = r]
    BY <1>11, <1>h DEF Decide
  <2>2. t \in Tasks /\ tasks[t].status = "running"
    BY <1>11, <1>h, <1>fit DEF Decide, Holds, Owned, Fit, Working
  <2>3. worker[w].ctx = "canceled" => tasks[t].cancel
    BY <1>11, <1>h, <2>2 DEF Decide, Interrupted, Warranted, Wanted, Terminal
  <2>4. tasks[t].cancel \in BOOLEAN
    BY <1>row, <2>2 DEF Row
  <2>5. o # "lease_lost"
    BY <2>3, <2>4, NotLost
  <2> HIDE DEF o, t
  <2>6. r.phase = "decided" /\ r.result # "lease_lost"
    BY <1>fit, <2>5 DEF Worker
  <2> HIDE DEF r
  <2> QED BY <1>h, <1>sig, <1>one, <2>1, <2>6 DEF NoneLost
<1>12. ASSUME NEW w \in Workers, Complete(w) PROVE Signalled' /\ Interrupted' /\ NoneLost'
  <2> DEFINE t == worker[w].task
             row == SettledRow(tasks[t], worker[w].result)
             r == [Idle EXCEPT !.stopping = worker[w].stopping]
  <2>1. t \in Tasks /\ r.phase = "idle" /\ worker[w].result # "lease_lost"
    BY <1>12, <1>h, <1>fit DEF Complete, Fit, Working, Idle, Down, Interrupted, Warranted
  <2>2. row.code # "lease_lost"
    BY <1>row, <2>1 DEF SettledRow, Row
  <2>3. tasks' = [tasks EXCEPT ![t] = row] \/ UNCHANGED tasks
    BY <1>12 DEF Complete
  <2>4. UNCHANGED signals /\ worker' = [worker EXCEPT ![w] = r]
    BY <1>12 DEF Complete
  <2>5. NoneLost'
    <3> HIDE DEF t, row, r
    <3> QED BY <1>h, <2>1, <2>2, <2>3 DEF NoneLost, Typed, RowsTyped
  <2> HIDE DEF t, row, r
  <2> QED BY <1>sig, <1>one, <2>1, <2>4, <2>5
<1>13. ASSUME NEW w \in Workers, Close(w) \/ Crash(w)
       PROVE  Signalled' /\ Interrupted' /\ NoneLost'
  BY <1>13, <1>h DEF Close, Crash
<1>14. ASSUME NEW w \in Workers, Stop(w) PROVE Signalled' /\ Interrupted' /\ NoneLost'
  <2>1. /\ worker' = [worker EXCEPT ![w] = Down] /\ Down.phase = "down"
        /\ \A v \in Workers : signals'[v] \subseteq signals[v]
        /\ Abandoned(w)
    BY <1>14 DEF Stop, Exit, Abandoned, Down, Typed, SignalsTyped
  <2>2. NoneLost'
    BY <1>h, <1>row, <2>1 DEF NoneLost, Abandoned, Row
  <2> QED BY <1>sig, <1>one, <2>1, <2>2
<1>15. ASSUME NEW t \in Tasks, LeaseExpires(t) PROVE Signalled' /\ Interrupted' /\ NoneLost'
  <2> DEFINE r == [tasks[t] EXCEPT !.lease = FALSE]
  <2>1. UNCHANGED <<worker, signals>> /\ tasks' = [tasks EXCEPT ![t] = r]
    BY <1>15 DEF LeaseExpires
  <2>2. r.code = tasks[t].code
    BY <1>row DEF Row
  <2> HIDE DEF r
  <2>3. NoneLost'
    BY <1>h, <2>1, <2>2 DEF NoneLost, Typed, RowsTyped
  <2> QED BY <1>sig, <1>same, <2>1, <2>3 DEF Interrupted
<1>16. CASE UNCHANGED vars
  BY <1>16, <1>h, <1>sig, <1>same DEF vars, Interrupted, NoneLost
<1> QED BY <1>1, <1>2, <1>3, <1>4, <1>5, <1>6, <1>7, <1>8, <1>9, <1>10, <1>11, <1>12,
           <1>13, <1>14, <1>15, <1>16 DEF Next

\* The inductive invariant, all of it.
Inv == RowInv /\ Held /\ Honest

LEMMA InvCorrect == Spec => []Inv
<1>1. Init => Inv
  <2> SUFFICES ASSUME Init PROVE Inv
    OBVIOUS
  <2>1. RowInv /\ Held
    BY RowInvInit DEF Init, Held, Holds, Down, Working
  <2>2. Honest
    BY DEF Init, Honest, Signalled, Interrupted, NoneLost, Warranted, Down, NoRow, BlankRow
  <2> QED BY <2>1, <2>2 DEF Inv
<1>2. Inv /\ [Next]_vars => Inv'
  BY RowInvStep, HeldStep, HonestStep DEF Inv, RowInv
<1> QED BY <1>1, <1>2, PTL DEF Spec

\* No settled record contradicts itself, and none says that an execution was
\* interrupted which nobody but the environment could have interrupted.
THEOREM FlagAgreesCorrect == Spec => []FlagAgrees
<1>1. Inv => FlagAgrees
  <2> SUFFICES ASSUME Inv PROVE FlagAgrees
    OBVIOUS
  <2>1. RowShape /\ Honest
    BY DEF Inv, RowInv
  <2> QED BY <2>1 DEF RowShape, ShapeOf, Honest, NoneLost, FlagAgrees
<1> QED BY <1>1, InvCorrect, PTL

\* Any number of processes that recover the same ids and race to claim them
\* never execute a task twice at a time, as long as nothing fails.
THEOREM OneExecutionCorrect == Spec => []OneExecution
<1>1. Inv => OneExecution
  BY DEF Inv, Held, Holds, OneExecution, WorksOn, Owned
<1> QED BY <1>1, InvCorrect, PTL

-----------------------------------------------------------------------------
(* The service implements the lifecycle it documents.                      *)

LEMMA LifecycleInit == Init => Lifecycle!Init
BY DEF Init, Lifecycle!Init, NoRow, BlankRow

\* What a step shows of row t, and only of row t, is a step of the lifecycle.
LEMMA LifecycleMove ==
    ASSUME RowsTyped, RowShape, NEW t \in Tasks, NEW r \in Row, RowMove(t, r),
           tasks' = [tasks EXCEPT ![t] = r]
    PROVE  [Lifecycle!Next]_(Lifecycle!vars)
<1> DEFINE status == [u \in Tasks |-> tasks[u].status]
           attempt == [u \in Tasks |-> tasks[u].attempt]
           retryOf == [u \in Tasks |-> tasks[u].retryOf]
<1>1. tasks[t] \in Row /\ ShapeOf(tasks[t])
  BY DEF RowsTyped, RowShape
<1>2. /\ status' = [status EXCEPT ![t] = r.status]
      /\ attempt' = [attempt EXCEPT ![t] = r.attempt]
      /\ retryOf' = [retryOf EXCEPT ![t] = r.retryOf]
  BY DEF RowsTyped
<1>3. CASE tasks[t].status = "absent" /\ r = NewRow(1, None)
  <2>1. r.status = "pending" /\ r.attempt = 1 /\ r.retryOf = retryOf[t]
    BY <1>1, <1>3 DEF NewRow, BlankRow, ShapeOf
  <2>2. UNCHANGED retryOf
    BY <1>2, <2>1
  <2>3. Lifecycle!Submit(t)
    BY <1>2, <1>3, <2>1, <2>2 DEF Lifecycle!Submit
  <2> QED BY <2>3 DEF Lifecycle!Next
<1>4. ASSUME tasks[t].status = "absent", NEW original \in Tasks,
             Retryable(tasks[original], original),
             r = NewRow(tasks[original].attempt + 1, original)
      PROVE  Lifecycle!Next
  <2>1. /\ r.status = "pending" /\ r.attempt = tasks[original].attempt + 1
        /\ r.retryOf = original
    BY <1>4 DEF NewRow, BlankRow
  <2>2. Lifecycle!Retry(original, t)
    BY <1>2, <1>4, <2>1 DEF Lifecycle!Retry, Retryable
  <2> QED BY <2>2 DEF Lifecycle!Next
<1>5. CASE tasks[t].status # "absent"
  <2>1. r.attempt = attempt[t] /\ r.retryOf = retryOf[t]
    BY <1>1, <1>5, MoveLineage
  <2>2. UNCHANGED <<attempt, retryOf>>
    BY <1>2, <2>1
  <2>3. \/ r.status = tasks[t].status
        \/ tasks[t].status = "pending" /\ r.status = "running"
        \/ tasks[t].status = "running" /\ r.status \in Terminal
        \/ tasks[t].status = "pending" /\ r.status = "canceled"
    <3>1. CASE r = CanceledRow(tasks[t])
      BY <1>1, <3>1 DEF CanceledRow, Row
    <3>2. CASE Claimable(tasks[t]) /\ \E w \in Workers : r = ClaimedRow(tasks[t], w)
      BY <1>1, <3>2 DEF Claimable, ClaimedRow, Row
    <3>3. CASE /\ tasks[t].status = "running"
               /\ \E o \in Outcomes : r = SettledRow(tasks[t], o)
      BY <1>1, <3>3, SettledRowType
    <3>4. CASE \E b \in BOOLEAN : r = [tasks[t] EXCEPT !.lease = b]
      BY <1>1, <3>4 DEF Row
    <3> QED BY <1>5, <3>1, <3>2, <3>3, <3>4 DEF RowMove
  <2>4. CASE r.status = tasks[t].status
    <3>1. UNCHANGED status
      BY <1>2, <2>4
    <3> QED BY <2>2, <3>1 DEF Lifecycle!vars
  <2>5. CASE tasks[t].status = "pending" /\ r.status = "running"
    <3>1. Lifecycle!Start(t)
      BY <1>2, <2>2, <2>5 DEF Lifecycle!Start
    <3> QED BY <3>1 DEF Lifecycle!Next
  <2>6. CASE \/ tasks[t].status = "running" /\ r.status \in Terminal
             \/ tasks[t].status = "pending" /\ r.status = "canceled"
    <3>1. r.status \in Lifecycle!Settled /\ Lifecycle!Settle(t, r.status)
      BY <1>2, <2>2, <2>6 DEF Lifecycle!Settle, Lifecycle!Settled, Terminal
    <3> QED BY <3>1 DEF Lifecycle!Next
  <2> QED BY <2>3, <2>4, <2>5, <2>6
<1> QED BY <1>3, <1>4, <1>5 DEF RowMove, Claimable

LEMMA LifecycleStep ==
    ASSUME RowsTyped, RowShape, TableMove
    PROVE  [Lifecycle!Next]_(Lifecycle!vars)
<1>1. CASE UNCHANGED tasks
  BY <1>1 DEF Lifecycle!vars
<1>2. ASSUME NEW w \in Workers, Abandoned(w)
      PROVE  [Lifecycle!Next]_(Lifecycle!vars)
  BY <1>2, AbandonedLineage DEF Lifecycle!vars
<1> QED BY <1>1, <1>2, LifecycleMove DEF TableMove

\* Seen through status, attempt and retry reference, every behaviour of the
\* workers, channels, leases and failures is one of the documented lifecycle.
THEOREM LifecycleImplemented == Spec => ImplementsLifecycle
<1>1. RowInv /\ [Next]_vars => [Lifecycle!Next]_(Lifecycle!vars)
  BY RowInvStep, LifecycleStep DEF RowInv, Typed
<1> QED BY <1>1, LifecycleInit, RowInvCorrect, PTL
        DEF Spec, ImplementsLifecycle, Lifecycle!Spec
=============================================================================
