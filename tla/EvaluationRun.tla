---------------------------- MODULE EvaluationRun ----------------------------
(***************************************************************************)
(* Evaluation runs (internal/evaluation): a run of a published suite of    *)
(* questions, executed in the background, whose verdict is a quality gate  *)
(* of a build.  The machinery is that of the agent tasks, a leased row and *)
(* a worker goroutine per process, with three differences that matter:     *)
(* a cancel settles a running row at once and takes it from its worker;    *)
(* the worker reads the suite after the claim, and the cancel flag before  *)
(* the execution; and a verdict below the threshold is a completed run.    *)
(*                                                                         *)
(* As in AgentTask, lease is TRUE while lease_until is not before now, and *)
(* what the environment does wrong uses up MaxFaults.                      *)
(***************************************************************************)
EXTENDS Naturals, SequencesExt

CONSTANTS Runs,       \* run ids that newID can hand out
          Workers,    \* API processes, one worker goroutine each
          None,       \* the empty worker_id or retry_of_run_id
          Gone,       \* the worker_id of a process that has exited
          QueueSize,  \* capacity of a process's channel of ids (100 in the code)
          MaxFaults   \* bound: how many times the environment misbehaves

ASSUME Constants ==
    /\ IsFiniteSet(Runs)
    /\ None \notin Runs
    /\ None \notin Workers /\ Gone \notin Workers /\ None # Gone
    /\ QueueSize \in Nat \ {0}
    /\ MaxFaults \in Nat

MaxAttempts == 3

VARIABLES runs,     \* the evaluation_runs table, a row per id
          worker,   \* the worker goroutine of each process
          queue,    \* its channel of ids
          signals,  \* cancel calls that wrote the row and have yet to look for
                    \* an execution in their own process
          faults    \* how much of the fault budget is spent

vars == <<runs, worker, queue, signals, faults>>

-----------------------------------------------------------------------------
(* Rows.                                                                   *)

Terminal == {"completed", "failed", "canceled"}
Gates == {"pending", "passed", "failed", "error", "canceled"}
FailureCodes == {"suite_unavailable", "evaluation_timeout", "lease_lost"}

\* The suite's id, version and threshold are copied into the row and never
\* change; the report is what the gate says of it.
Row == [status: {"absent", "pending", "running"} \cup Terminal,
        gate: Gates,
        code: FailureCodes \cup {"none"},
        cancel: BOOLEAN,
        owner: Workers \cup {None, Gone},
        lease: BOOLEAN,
        attempt: 0..MaxAttempts,
        retryOf: Runs \cup {None}]

BlankRow(status, attempt, original) ==
    [status |-> status, gate |-> "pending", code |-> "none", cancel |-> FALSE,
     owner |-> None, lease |-> FALSE, attempt |-> attempt, retryOf |-> original]

NoRow == BlankRow("absent", 0, None)
NewRow(attempt, original) == BlankRow("pending", attempt, original)

Claimable_Leased(row) == ~row.cancel /\ row.status \in {"pending", "running"}

\* Both ListRunnable and ClaimRun use this test.
Claimable(row) ==
    /\ ~row.cancel
    /\ \/ row.status = "pending"
       \/ row.status = "running" /\ ~row.lease

ClaimedRow(row, w) ==
    [row EXCEPT !.status = "running", !.owner = w, !.lease = TRUE]

CanceledRow_Gateless(row) ==
    IF row.status \in {"pending", "running"}
    THEN [row EXCEPT !.status = "canceled", !.cancel = TRUE, !.owner = None,
                     !.lease = FALSE]
    ELSE row

\* RequestCancel settles a run that has not settled, and takes it from its worker.
CanceledRow(row) ==
    IF row.status \in {"pending", "running"}
    THEN [row EXCEPT !.status = "canceled", !.gate = "canceled", !.cancel = TRUE,
                     !.owner = None, !.lease = FALSE]
    ELSE row

Outcomes == {"passed", "below", "canceled"} \cup FailureCodes

\* What the worker's copy says once its outcome is known.
SettledRow(row, outcome) ==
    [row EXCEPT !.status = CASE outcome \in FailureCodes -> "failed"
                             [] outcome = "canceled" -> "canceled"
                             [] OTHER -> "completed",
                !.gate = CASE outcome \in FailureCodes -> "error"
                           [] outcome = "below" -> "failed"
                           [] OTHER -> outcome,
                !.code = IF outcome \in FailureCodes THEN outcome ELSE "none",
                !.cancel = (outcome = "canceled"),
                !.owner = None,
                !.lease = FALSE]

Owned_Unfenced(row, w) == TRUE

\* The fence of RenewLease and CompleteRun.
Owned(row, w) == row.status = "running" /\ row.owner = w

Retryable_Settled(row, original) ==
    /\ row.status \in Terminal
    /\ row.attempt < MaxAttempts
    /\ \A other \in Runs : runs[other].retryOf # original

\* RetryRun's refusals and the unique index on retry_of_run_id.  A verdict below
\* the threshold is a completed run and is not repeated.
Retryable(row, original) ==
    /\ row.status \in {"failed", "canceled"}
    /\ row.attempt < MaxAttempts
    /\ \A other \in Runs : runs[other].retryOf # original

-----------------------------------------------------------------------------
(* Processes.                                                              *)

\* down, idle:  no process; the worker goroutine waits in its select
\* claimed:     ClaimRun returned the row, the suite is not read yet
\* registered:  active names the execution, the cancel flag is not read yet
\* running:     the questions are asked, the heartbeat renews
\* returned:    the report is there, the final read is still to come
\* decided:     the outcome is chosen, CompleteRun is still to come
Working == {"claimed", "registered", "running", "returned", "decided"}

\* The work context exists from its registration on.
HasContext == {"registered", "running", "returned"}

\* ctx is the error of the work context, "live" while it has none; beat says that
\* the heartbeat has not given up.
Worker == [phase: {"down", "idle"} \cup Working,
           run: Runs \cup {None},
           ctx: {"live", "deadline", "canceled"},
           beat: BOOLEAN,
           result: {"none"} \cup Outcomes,
           stopping: BOOLEAN]

Down == [phase |-> "down", run |-> None, ctx |-> "live", beat |-> FALSE,
         result |-> "none", stopping |-> FALSE]
Idle == [Down EXCEPT !.phase = "idle"]

Serving(w) == worker[w].phase # "down" /\ ~worker[w].stopping

WorksOn(w, r) == worker[w].phase \in Working /\ worker[w].run = r

Cancelled(ctx) == IF ctx = "live" THEN "canceled" ELSE ctx

Fault == faults < MaxFaults /\ faults' = faults + 1
NoFault == UNCHANGED faults

Enqueue_Unbounded(q, ids) == q \o ids

\* enqueue: a full channel drops the id.
Enqueue(q, ids) ==
    LET all == q \o ids
    IN  IF Len(all) <= QueueSize THEN all ELSE SubSeq(all, 1, QueueSize)

Runnable_Expired == {r \in Runs : Claimable(runs[r]) /\ runs[r].status = "running"}

Runnable == {r \in Runs : Claimable(runs[r])}

\* recoverRunnable; the two stores list in different orders.
Recovered(q) == {Enqueue(q, ids) : ids \in SetToSeqs(Runnable)}

Become(w, phase) == worker' = [worker EXCEPT ![w] = [@ EXCEPT !.phase = phase]]

Decided(w, outcome) ==
    worker' = [worker EXCEPT ![w] = [@ EXCEPT !.phase = "decided", !.result = outcome]]

\* A process that exits takes its channel, its executions and its worker id along.
Exit(w) ==
    /\ runs' = [r \in Runs |-> IF runs[r].owner = w
                               THEN [runs[r] EXCEPT !.owner = Gone]
                               ELSE runs[r]]
    /\ worker' = [worker EXCEPT ![w] = Down]
    /\ queue' = [queue EXCEPT ![w] = <<>>]
    /\ signals' = [signals EXCEPT ![w] = {}]

-----------------------------------------------------------------------------
(* The API.                                                                *)

Init ==
    /\ runs = [r \in Runs |-> NoRow]
    /\ worker = [w \in Workers |-> Down]
    /\ queue = [w \in Workers |-> <<>>]
    /\ signals = [w \in Workers |-> {}]
    /\ faults = 0

Insert(w, r, row) ==
    /\ Serving(w)
    /\ runs[r].status = "absent"
    /\ runs' = [runs EXCEPT ![r] = row]
    /\ queue' = [queue EXCEPT ![w] = Enqueue(@, <<r>>)]
    /\ UNCHANGED <<worker, signals, faults>>

StartRun(w, r) == Insert(w, r, NewRow(1, None))

\* The original is read before the insertion; a run that may be retried never
\* changes in between (SettledFrozen).
RetryRun(w, original, r) ==
    /\ Retryable(runs[original], original)
    /\ Insert(w, r, NewRow(runs[original].attempt + 1, original))

\* CancelRun, first half: the row.
RequestCancel(w, r) ==
    /\ Serving(w)
    /\ runs[r].status # "absent"
    /\ runs' = [runs EXCEPT ![r] = CanceledRow(@)]
    /\ signals' = [signals EXCEPT ![w] = @ \cup {r}]
    /\ UNCHANGED <<worker, queue, faults>>

\* CancelRun, second half: the execution, if this process has registered one.
SignalCancel(w, r) ==
    /\ r \in signals[w]
    /\ signals' = [signals EXCEPT ![w] = @ \ {r}]
    /\ worker' = IF worker[w].phase \in {"registered", "running"} /\ worker[w].run = r
                 THEN [worker EXCEPT ![w] = [@ EXCEPT !.ctx = Cancelled(worker[w].ctx)]]
                 ELSE worker
    /\ UNCHANGED <<runs, queue, faults>>

-----------------------------------------------------------------------------
(* The worker goroutine.                                                   *)

\* A process starts and lists the runnable rows, or fails to.  Its worker is
\* started by main, before any request.
Boot(w) ==
    /\ worker[w].phase = "down"
    /\ worker' = [worker EXCEPT ![w] = Idle]
    /\ \/ NoFault /\ \E q \in Recovered(<<>>) : queue' = [queue EXCEPT ![w] = q]
       \/ Fault /\ queue' = [queue EXCEPT ![w] = <<>>]
    /\ UNCHANGED <<runs, signals>>

\* The recovery ticker.
Tick(w) ==
    /\ worker[w].phase = "idle" /\ ~worker[w].stopping
    /\ \E q \in Recovered(queue[w]) : queue' = [queue EXCEPT ![w] = q]
    /\ UNCHANGED <<runs, worker, signals, faults>>

\* process, up to the claim.  A claim that fails may have changed the row.
Dequeue(w) ==
    /\ worker[w].phase = "idle" /\ ~worker[w].stopping
    /\ queue[w] # <<>>
    /\ queue' = [queue EXCEPT ![w] = Tail(@)]
    /\ LET r == Head(queue[w])
           claim == [runs EXCEPT ![r] = ClaimedRow(@, w)]
       IN  \/ /\ Claimable(runs[r])
              /\ runs' = claim
              /\ worker' = [worker EXCEPT ![w] =
                              [Idle EXCEPT !.phase = "claimed", !.run = r, !.beat = TRUE]]
              /\ NoFault
           \/ /\ ~Claimable(runs[r])
              /\ UNCHANGED <<runs, worker, faults>>
           \/ /\ runs' \in {runs} \cup (IF Claimable(runs[r]) THEN {claim} ELSE {})
              /\ Fault
              /\ UNCHANGED worker
    /\ UNCHANGED signals

\* The suite is read under the context of the service.  If that is closed, the
\* database refuses (the memory store does not look), as it does in a fault.
ReadSuite(w) ==
    /\ worker[w].phase = "claimed"
    /\ \/ /\ worker' = [worker EXCEPT ![w] =
                           [@ EXCEPT !.phase = "registered",
                                     !.ctx = IF worker[w].stopping THEN "canceled"
                                             ELSE "live"]]
          /\ NoFault
       \/ /\ Decided(w, "suite_unavailable")
          /\ IF worker[w].stopping THEN NoFault ELSE Fault
    /\ UNCHANGED <<runs, queue, signals>>

\* A cancel that came between the claim and the registration is found in the row,
\* unless the read fails.
Check(w) ==
    /\ worker[w].phase = "registered"
    /\ \/ /\ worker' = [worker EXCEPT ![w] =
                           [@ EXCEPT !.phase = "running",
                                     !.ctx = IF runs[worker[w].run].cancel
                                             THEN Cancelled(worker[w].ctx)
                                             ELSE worker[w].ctx]]
          /\ NoFault
       \/ Become(w, "running") /\ Fault
    /\ UNCHANGED <<runs, queue, signals>>

GivesUp_Never(w) == FALSE

\* A renewal that finds the row settled, or someone else's, cancels the work.
GivesUp(w) == ~Owned(runs[worker[w].run], w)

\* A tick of the heartbeat; one that the store does not answer gives up as well.
Heartbeat(w) ==
    /\ worker[w].phase \in {"running", "returned"}
    /\ worker[w].beat /\ ~worker[w].stopping
    /\ LET giveUp == [worker EXCEPT ![w] =
                       [@ EXCEPT !.beat = FALSE, !.ctx = Cancelled(worker[w].ctx)]]
       IN  \/ /\ Owned(runs[worker[w].run], w)
              /\ runs' = [runs EXCEPT ![worker[w].run] = [@ EXCEPT !.lease = TRUE]]
              /\ UNCHANGED <<worker, faults>>
           \/ /\ GivesUp(w)
              /\ worker' = giveUp
              /\ UNCHANGED <<runs, faults>>
           \/ /\ worker' = giveUp
              /\ Fault
              /\ UNCHANGED runs
    /\ UNCHANGED <<queue, signals>>

\* The deadline of the work context.
Timeout(w) ==
    /\ worker[w].phase \in HasContext
    /\ worker[w].ctx = "live"
    /\ worker' = [worker EXCEPT ![w] = [@ EXCEPT !.ctx = "deadline"]]
    /\ UNCHANGED <<runs, queue, signals, faults>>

\* All questions are answered.  Runner.Run fails only for an invalid suite, which
\* CreateSuite does not admit.  A service that is closing leaves the row running.
Return(w) ==
    /\ worker[w].phase = "running"
    /\ IF worker[w].stopping
       THEN Exit(w)
       ELSE /\ \E verdict \in {"passed", "below"} :
                  worker' = [worker EXCEPT ![w] =
                               [@ EXCEPT !.phase = "returned", !.result = verdict]]
            /\ UNCHANGED <<runs, queue, signals>>
    /\ NoFault

\* The switch of process.
Outcome(cancelSeen, w) ==
    CASE cancelSeen -> "canceled"
      [] ~cancelSeen /\ worker[w].ctx = "deadline" -> "evaluation_timeout"
      [] ~cancelSeen /\ worker[w].ctx = "canceled" -> "lease_lost"
      [] ~cancelSeen /\ worker[w].ctx = "live" -> worker[w].result

\* The row is read for its cancel flag, which counts as unset if the read fails.
Decide(w) ==
    /\ worker[w].phase = "returned"
    /\ \/ Decided(w, Outcome(runs[worker[w].run].cancel, w)) /\ NoFault
       \/ Decided(w, Outcome(FALSE, w)) /\ Fault
    /\ UNCHANGED <<runs, queue, signals>>

\* CompleteRun; its error is dropped.
CompleteRun(w) ==
    /\ worker[w].phase = "decided"
    /\ LET r == worker[w].run
       IN  \/ /\ runs' = IF Owned(runs[r], w)
                         THEN [runs EXCEPT ![r] = SettledRow(@, worker[w].result)]
                         ELSE runs
              /\ NoFault
           \/ Fault /\ UNCHANGED runs
    /\ worker' = [worker EXCEPT ![w] = [Idle EXCEPT !.stopping = worker[w].stopping]]
    /\ UNCHANGED <<queue, signals>>

-----------------------------------------------------------------------------
(* Time and failures.                                                      *)

\* lease_until passes.  While the holder's heartbeat is at work, or about to be,
\* that takes a process or a database that stalls.
LeaseExpires(r) ==
    /\ runs[r].status = "running" /\ runs[r].lease
    /\ IF \E w \in Workers : /\ runs[r].owner = w /\ WorksOn(w, r)
                             /\ worker[w].beat /\ ~worker[w].stopping
       THEN Fault
       ELSE NoFault
    /\ runs' = [runs EXCEPT ![r] = [@ EXCEPT !.lease = FALSE]]
    /\ UNCHANGED <<worker, queue, signals>>

\* Close cancels the service context, and the work context with it.
Close(w) ==
    /\ Serving(w)
    /\ Fault
    /\ worker' = [worker EXCEPT ![w] =
                     [@ EXCEPT !.stopping = TRUE,
                               !.ctx = IF worker[w].phase \in HasContext
                                       THEN Cancelled(worker[w].ctx) ELSE worker[w].ctx]]
    /\ UNCHANGED <<runs, queue, signals>>

\* The worker goroutine sees the closed context and ends the process.
Stop(w) ==
    /\ worker[w].phase = "idle" /\ worker[w].stopping
    /\ Exit(w)
    /\ NoFault

Crash(w) ==
    /\ worker[w].phase # "down"
    /\ Fault
    /\ Exit(w)

-----------------------------------------------------------------------------
Next ==
    \/ \E w \in Workers :
        \/ \E r \in Runs :
              \/ StartRun(w, r)
              \/ RequestCancel(w, r)
              \/ SignalCancel(w, r)
              \/ \E original \in Runs : RetryRun(w, original, r)
        \/ Boot(w) \/ Tick(w) \/ Dequeue(w) \/ ReadSuite(w) \/ Check(w)
        \/ Heartbeat(w) \/ Timeout(w) \/ Return(w) \/ Decide(w) \/ CompleteRun(w)
        \/ Close(w) \/ Stop(w) \/ Crash(w)
    \/ \E r \in Runs : LeaseExpires(r)

Spec == Init /\ [][Next]_vars

\* Processes are restarted, goroutines run, time passes for leases.  Every call
\* of an execution takes the work context, so an execution whose context is done
\* returns; nothing is assumed of one whose context is not.
Goroutines ==
    /\ \A w \in Workers :
          /\ WF_vars(Boot(w)) /\ WF_vars(Tick(w)) /\ WF_vars(Dequeue(w))
          /\ WF_vars(ReadSuite(w)) /\ WF_vars(Check(w)) /\ WF_vars(Heartbeat(w))
          /\ WF_vars(worker[w].ctx # "live" /\ Return(w))
          /\ WF_vars(Decide(w)) /\ WF_vars(CompleteRun(w)) /\ WF_vars(Stop(w))
    /\ \A r \in Runs : WF_vars(LeaseExpires(r))

\* The 30 minutes of an execution pass as well.
Deadlines == \A w \in Workers : WF_vars(Timeout(w))

PatientSpec == Spec /\ Goroutines
FairSpec == PatientSpec /\ Deadlines

-----------------------------------------------------------------------------
(* Properties.                                                             *)

\* Every variable keeps its shape.
TypeOK ==
    /\ runs \in [Runs -> Row]
    /\ worker \in [Workers -> Worker]
    /\ queue \in [Workers -> Seq(Runs)]
    /\ \A w \in Workers : Len(queue[w]) <= QueueSize
    /\ signals \in [Workers -> SUBSET Runs]
    /\ faults \in 0..MaxFaults
    /\ \A w \in Workers : worker[w].phase \in Working => worker[w].run \in Runs

\* The gate that a build waits for agrees with the run, though the status is set
\* by the API or by a worker, whichever comes first: it is pending until the run
\* has settled, and passed or failed only of a run that was not canceled.
GateAgrees ==
    \A r \in Runs :
        /\ runs[r].gate = "pending" <=> runs[r].status \notin Terminal
        /\ runs[r].gate \in {"passed", "failed"} <=> runs[r].status = "completed"
        /\ runs[r].gate = "canceled" <=> runs[r].cancel
        /\ runs[r].code # "none" <=> runs[r].status = "failed"

\* A settled run keeps its verdict, although the worker that a cancel took it from
\* executes on and tries to write its own.
SettledFrozen ==
    [][\A r \in Runs : runs[r].status \in Terminal => runs'[r] = runs[r]]_vars

\* README.md:180: the atomic claim keeps two processes from executing a run at the
\* same time, as long as no lease is lost.
OneExecution ==
    faults = 0 =>
        \A v, w \in Workers, r \in Runs : WorksOn(v, r) /\ WorksOn(w, r) => v = w

\* The service implements the job lifecycle: in particular a verdict below the
\* threshold is not repeated, and chains of retries do not fork.
Lifecycle == INSTANCE JobLifecycle
    WITH Jobs <- Runs, NoJob <- None, MaxAttempts <- MaxAttempts,
         status <- [r \in Runs |-> runs[r].status],
         attempt <- [r \in Runs |-> runs[r].attempt],
         retryOf <- [r \in Runs |-> runs[r].retryOf]

ImplementsLifecycle == Lifecycle!Spec

\* Every run settles, cancel or not, in spite of crashes, shutdowns, lost answers
\* and ids dropped by a full channel.
Settles ==
    \A r \in Runs : runs[r].status = "pending" ~> runs[r].status \in Terminal

\* A canceled run does not go on asking questions, whichever process was asked to
\* cancel it: the signal, the read before the execution or the next heartbeat
\* stops it, without waiting for its deadline.
CancelStops ==
    \A r \in Runs, w \in Workers :
        runs[r].status = "canceled" /\ WorksOn(w, r) ~> ~WorksOn(w, r)
=============================================================================
