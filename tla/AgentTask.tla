------------------------------ MODULE AgentTask ------------------------------
(***************************************************************************)
(* The asynchronous agent-task service (internal/agenttask): API processes *)
(* that share one task table, each with one worker goroutine, a bounded    *)
(* channel of task ids, a heartbeat per execution and a map of the cancel  *)
(* functions of the executions it has under way.                           *)
(*                                                                         *)
(* A process claims a row under a lease, runs the executor of its kind,    *)
(* reads the row again, decides an outcome and writes it back if the row   *)
(* still names the process.  Rows whose lease ran out are claimed again.   *)
(*                                                                         *)
(* The clock is abstract: lease is TRUE while lease_until is not before    *)
(* now, and LeaseExpires makes it FALSE.  Everything the environment may   *)
(* do wrong (a crash, a shutdown, a store call that fails, a process that  *)
(* stalls past its lease) uses one unit of a finite budget, MaxFaults.     *)
(***************************************************************************)
EXTENDS Naturals, SequencesExt

CONSTANTS Tasks,      \* task ids that newID can hand out
          Workers,    \* API processes, one worker goroutine each
          None,       \* the empty worker_id or retry_of_task_id
          Gone,       \* the worker_id of a process that has exited
          QueueSize,  \* capacity of a process's channel of ids (100 in the code)
          MaxFaults   \* bound: how many times the environment misbehaves

ASSUME Constants ==
    /\ IsFiniteSet(Tasks)
    /\ None \notin Tasks
    /\ None \notin Workers /\ Gone \notin Workers /\ None # Gone
    /\ QueueSize \in Nat \ {0}
    /\ MaxFaults \in Nat

MaxAttempts == 3

VARIABLES tasks,    \* the agent_tasks table, a row per id
          worker,   \* the worker goroutine of each process
          queue,    \* its channel of ids waiting to be processed
          signals,  \* cancel calls that wrote the row and have yet to look
                    \* for an execution to interrupt in their own process
          faults    \* how much of the fault budget is spent

vars == <<tasks, worker, queue, signals, faults>>

-----------------------------------------------------------------------------
(* Rows.                                                                   *)

Terminal == {"completed", "failed", "canceled"}
FailureCodes == {"task_timeout", "lease_lost", "execution_failed",
                 "quality_gate_failed"}

\* The columns the service decides on; inputs, usage and quality details are
\* left out.
Row == [status: {"absent", "pending", "running"} \cup Terminal,
        code: FailureCodes \cup {"none"},
        cancel: BOOLEAN,
        owner: Workers \cup {None, Gone},
        lease: BOOLEAN,
        attempt: 0..MaxAttempts,
        retryOf: Tasks \cup {None}]

BlankRow(status, attempt, original) ==
    [status |-> status, code |-> "none", cancel |-> FALSE, owner |-> None,
     lease |-> FALSE, attempt |-> attempt, retryOf |-> original]

NoRow == BlankRow("absent", 0, None)
NewRow(attempt, original) == BlankRow("pending", attempt, original)

Claimable_Leased(row) ==
    ~row.cancel /\ row.status \in {"pending", "running"}

Claimable_Failed(row) ==
    /\ ~row.cancel
    /\ \/ row.status \in {"pending", "failed"}
       \/ row.status = "running" /\ ~row.lease

\* Both ListRunnable and Claim use this test.
Claimable(row) ==
    /\ ~row.cancel
    /\ \/ row.status = "pending"
       \/ row.status = "running" /\ ~row.lease

\* Claim keeps every other column: an expired row is taken over as it stands.
ClaimedRow(row, w) ==
    [row EXCEPT !.status = "running", !.owner = w, !.lease = TRUE]

\* RequestCancel: a pending row is canceled at once, a running one is flagged,
\* a settled one is left as it is.
CanceledRow(row) ==
    CASE row.status = "pending" ->
           [row EXCEPT !.status = "canceled", !.cancel = TRUE, !.owner = None,
                       !.lease = FALSE]
      [] row.status = "running" -> [row EXCEPT !.cancel = TRUE]
      [] OTHER -> row

\* What the worker's copy of the task says once its outcome is known.  The
\* copy dates from the claim, so its cancel flag is set only by the outcome.
SettledRow(row, outcome) ==
    [row EXCEPT !.status = IF outcome \in FailureCodes THEN "failed" ELSE outcome,
                !.code = IF outcome \in FailureCodes THEN outcome ELSE "none",
                !.cancel = (outcome = "canceled"),
                !.owner = None,
                !.lease = FALSE]

Owned_AnyStatus(row, w) == row.owner = w \/ row.status \in Terminal

\* The fence of RenewLease and Complete.
Owned(row, w) == row.status = "running" /\ row.owner = w

\* Retry's refusals and the unique index on retry_of_task_id.
Retryable(row, original) ==
    /\ row.status \in {"failed", "canceled"}
    /\ row.attempt < MaxAttempts
    /\ row.code # "quality_gate_failed"
    /\ \A other \in Tasks : tasks[other].retryOf # original

-----------------------------------------------------------------------------
(* Processes.                                                              *)

\* down:     not running
\* idle:     the worker goroutine waits in its select
\* claimed:  Claim returned the row; nothing is registered in active yet
\* running:  the executor runs, Cancel can find it, the heartbeat renews
\* returned: the executor came back, the final read is still to come
\* decided:  the outcome is chosen, Complete is still to come
Working == {"claimed", "running", "returned", "decided"}

Results == {"passed", "gate", "error"}
Outcomes == {"completed", "canceled"} \cup FailureCodes

\* ctx is the error of the work context, "live" while it has none.  beat says
\* that the heartbeat goroutine has not given up.
Worker == [phase: {"down", "idle"} \cup Working,
           task: Tasks \cup {None},
           ctx: {"live", "deadline", "canceled"},
           beat: BOOLEAN,
           result: {"none"} \cup Results \cup Outcomes,
           stopping: BOOLEAN]

Down == [phase |-> "down", task |-> None, ctx |-> "live", beat |-> FALSE,
         result |-> "none", stopping |-> FALSE]
Idle == [Down EXCEPT !.phase = "idle"]

Serving(w) == worker[w].phase # "down" /\ ~worker[w].stopping

WorksOn(w, t) == worker[w].phase \in Working /\ worker[w].task = t

\* Cancelling a context that is already done changes nothing.
Cancelled(ctx) == IF ctx = "live" THEN "canceled" ELSE ctx

Fault == faults < MaxFaults /\ faults' = faults + 1
NoFault == UNCHANGED faults

\* enqueue: a full channel drops the id.
Enqueue(q, ids) ==
    LET all == q \o ids
    IN  IF Len(all) <= QueueSize THEN all ELSE SubSeq(all, 1, QueueSize)

Runnable_Expired == {t \in Tasks : Claimable(tasks[t]) /\ tasks[t].status = "running"}

Runnable == {t \in Tasks : Claimable(tasks[t])}

\* recoverRunnable puts every runnable id on the channel.  The stores list
\* them in different orders, and list at most as many as the channel holds.
Recovered(q) == {Enqueue(q, ids) : ids \in SetToSeqs(Runnable)}

\* A process that exits takes its channel, its registered executions and its
\* worker id with it: a new process draws a new id, so that no row it left
\* behind is ever its own again.
Exit(w) ==
    /\ tasks' = [t \in Tasks |-> IF tasks[t].owner = w
                                 THEN [tasks[t] EXCEPT !.owner = Gone]
                                 ELSE tasks[t]]
    /\ worker' = [worker EXCEPT ![w] = Down]
    /\ queue' = [queue EXCEPT ![w] = <<>>]
    /\ signals' = [signals EXCEPT ![w] = {}]

-----------------------------------------------------------------------------
(* The API.                                                                *)

Init ==
    /\ tasks = [t \in Tasks |-> NoRow]
    /\ worker = [w \in Workers |-> Down]
    /\ queue = [w \in Workers |-> <<>>]
    /\ signals = [w \in Workers |-> {}]
    /\ faults = 0

\* A row is inserted and its id offered to this process's own channel.  A crash
\* between the two equals one right after both: the channel is lost anyway.
Create(w, t) ==
    /\ Serving(w)
    /\ tasks[t].status = "absent"
    /\ tasks' = [tasks EXCEPT ![t] = NewRow(1, None)]
    /\ queue' = [queue EXCEPT ![w] = Enqueue(@, <<t>>)]
    /\ UNCHANGED <<worker, signals, faults>>

\* The original is read before the new row is inserted; one step for both is
\* enough because a row that may be retried never changes (SettledFrozen).
Retry(w, original, t) ==
    /\ Serving(w)
    /\ Retryable(tasks[original], original)
    /\ tasks[t].status = "absent"
    /\ tasks' = [tasks EXCEPT ![t] = NewRow(tasks[original].attempt + 1, original)]
    /\ queue' = [queue EXCEPT ![w] = Enqueue(@, <<t>>)]
    /\ UNCHANGED <<worker, signals, faults>>

\* Cancel, first half: the row.
RequestCancel(w, t) ==
    /\ Serving(w)
    /\ tasks[t].status # "absent"
    /\ tasks' = [tasks EXCEPT ![t] = CanceledRow(@)]
    /\ signals' = [signals EXCEPT ![w] = @ \cup {t}]
    /\ UNCHANGED <<worker, queue, faults>>

SignalCancel_Any(w, t) ==
    /\ t \in signals[w]
    /\ signals' = [signals EXCEPT ![w] = @ \ {t}]
    /\ worker' = IF worker[w].phase = "running"
                 THEN [worker EXCEPT ![w] = [@ EXCEPT !.ctx = Cancelled(worker[w].ctx)]]
                 ELSE worker
    /\ UNCHANGED <<tasks, queue, faults>>

\* Cancel, second half: the execution, if this process has registered one.
SignalCancel(w, t) ==
    /\ t \in signals[w]
    /\ signals' = [signals EXCEPT ![w] = @ \ {t}]
    /\ worker' = IF worker[w].phase = "running" /\ worker[w].task = t
                 THEN [worker EXCEPT ![w] = [@ EXCEPT !.ctx = Cancelled(worker[w].ctx)]]
                 ELSE worker
    /\ UNCHANGED <<tasks, queue, faults>>

-----------------------------------------------------------------------------
(* The worker goroutine.                                                   *)

\* A process starts; its worker lists the runnable rows before its first
\* select.  The listing may fail, which leaves the channel empty.
Boot(w) ==
    /\ worker[w].phase = "down"
    /\ worker' = [worker EXCEPT ![w] = Idle]
    /\ \/ NoFault /\ \E q \in Recovered(<<>>) : queue' = [queue EXCEPT ![w] = q]
       \/ Fault /\ queue' = [queue EXCEPT ![w] = <<>>]
    /\ UNCHANGED <<tasks, signals>>

\* The recovery ticker.
Tick(w) ==
    /\ worker[w].phase = "idle" /\ ~worker[w].stopping
    /\ \E q \in Recovered(queue[w]) : queue' = [queue EXCEPT ![w] = q]
    /\ UNCHANGED <<tasks, worker, signals, faults>>

\* process, up to the claim.  A claim that fails may have changed the row all
\* the same, its answer being lost.
Dequeue(w) ==
    /\ worker[w].phase = "idle" /\ ~worker[w].stopping
    /\ queue[w] # <<>>
    /\ queue' = [queue EXCEPT ![w] = Tail(@)]
    /\ LET t == Head(queue[w])
           claim == [tasks EXCEPT ![t] = ClaimedRow(@, w)]
       IN  \/ /\ Claimable(tasks[t])
              /\ tasks' = claim
              /\ worker' = [worker EXCEPT ![w] =
                              [Idle EXCEPT !.phase = "claimed", !.task = t, !.beat = TRUE]]
              /\ NoFault
           \/ /\ ~Claimable(tasks[t])
              /\ UNCHANGED <<tasks, worker, faults>>
           \/ /\ tasks' \in {tasks} \cup (IF Claimable(tasks[t]) THEN {claim} ELSE {})
              /\ Fault
              /\ UNCHANGED worker
    /\ UNCHANGED signals

\* The work context is made and registered, the heartbeat started, the executor
\* called.  A context made from a closed service is born cancelled.
Begin(w) ==
    /\ worker[w].phase = "claimed"
    /\ worker' = [worker EXCEPT ![w] =
                     [@ EXCEPT !.phase = "running",
                               !.ctx = IF worker[w].stopping THEN "canceled" ELSE "live"]]
    /\ UNCHANGED <<tasks, queue, signals, faults>>

\* A tick of the heartbeat goroutine.  Any error, a lost claim or a store that
\* does not answer, cancels the work and ends the goroutine.
Heartbeat(w) ==
    /\ worker[w].phase \in {"running", "returned"}
    /\ worker[w].beat /\ ~worker[w].stopping
    /\ LET t == worker[w].task
           giveUp == [worker EXCEPT ![w] =
                       [@ EXCEPT !.beat = FALSE, !.ctx = Cancelled(worker[w].ctx)]]
       IN  \/ /\ Owned(tasks[t], w)
              /\ tasks' = [tasks EXCEPT ![t] = [@ EXCEPT !.lease = TRUE]]
              /\ NoFault
              /\ UNCHANGED worker
           \/ /\ ~Owned(tasks[t], w)
              /\ worker' = giveUp
              /\ NoFault
              /\ UNCHANGED tasks
           \/ /\ worker' = giveUp
              /\ Fault
              /\ UNCHANGED tasks
    /\ UNCHANGED <<queue, signals>>

\* The deadline of the work context.
Timeout(w) ==
    /\ worker[w].phase \in {"running", "returned"}
    /\ worker[w].ctx = "live"
    /\ worker' = [worker EXCEPT ![w] = [@ EXCEPT !.ctx = "deadline"]]
    /\ UNCHANGED <<tasks, queue, signals, faults>>

\* The executor returns: with a result that passed the quality gate, one that
\* did not, or an error.  A service that is closing leaves the row running.
Return(w) ==
    /\ worker[w].phase = "running"
    /\ \/ /\ worker[w].stopping
          /\ Exit(w)
       \/ /\ ~worker[w].stopping
          /\ \E result \in Results :
                worker' = [worker EXCEPT ![w] =
                             [@ EXCEPT !.phase = "returned", !.result = result]]
          /\ UNCHANGED <<tasks, queue, signals>>
    /\ NoFault

\* The switch of process, its cases in order.
Outcome(cancelSeen, ctx, result) ==
    CASE cancelSeen -> "canceled"
      [] ~cancelSeen /\ ctx = "deadline" -> "task_timeout"
      [] ~cancelSeen /\ ctx = "canceled" -> "lease_lost"
      [] ~cancelSeen /\ ctx = "live" /\ result = "error" -> "execution_failed"
      [] ~cancelSeen /\ ctx = "live" /\ result = "gate" -> "quality_gate_failed"
      [] OTHER -> "completed"

\* The row is read once more for its cancel flag and the outcome chosen; if the
\* read fails the flag counts as not set.
Decide(w) ==
    /\ worker[w].phase = "returned"
    /\ LET decided(seen) ==
             [worker EXCEPT ![w] =
                [@ EXCEPT !.phase = "decided",
                          !.result = Outcome(seen, worker[w].ctx, worker[w].result)]]
       IN  \/ NoFault /\ worker' = decided(tasks[worker[w].task].cancel)
           \/ Fault /\ worker' = decided(FALSE)
    /\ UNCHANGED <<tasks, queue, signals>>

\* Complete: the outcome is written if the row still is this worker's.  The
\* error of a write that fails, or that the fence refuses, is dropped.
Complete(w) ==
    /\ worker[w].phase = "decided"
    /\ LET t == worker[w].task
       IN  \/ /\ tasks' = IF Owned(tasks[t], w)
                          THEN [tasks EXCEPT ![t] = SettledRow(@, worker[w].result)]
                          ELSE tasks
              /\ NoFault
           \/ Fault /\ UNCHANGED tasks
    /\ worker' = [worker EXCEPT ![w] = [Idle EXCEPT !.stopping = worker[w].stopping]]
    /\ UNCHANGED <<queue, signals>>

-----------------------------------------------------------------------------
(* Time and failures.                                                      *)

\* The heartbeat of the process that holds the row is at work, or about to be,
\* or the few calls that follow it are under way.
Attended(t) ==
    \E w \in Workers : /\ tasks[t].owner = w
                       /\ WorksOn(w, t)
                       /\ worker[w].beat /\ ~worker[w].stopping

\* lease_until passes.  While the row is attended that takes a process or a
\* database that stalls for longer than the lease.
LeaseExpires(t) ==
    /\ tasks[t].status = "running" /\ tasks[t].lease
    /\ IF Attended(t) THEN Fault ELSE NoFault
    /\ tasks' = [tasks EXCEPT ![t] = [@ EXCEPT !.lease = FALSE]]
    /\ UNCHANGED <<worker, queue, signals>>

\* Close cancels the service context: the work context goes with it.
Close(w) ==
    /\ Serving(w)
    /\ Fault
    /\ worker' = [worker EXCEPT ![w] =
                     [@ EXCEPT !.stopping = TRUE,
                               !.ctx = IF worker[w].phase \in {"running", "returned"}
                                       THEN Cancelled(worker[w].ctx) ELSE worker[w].ctx]]
    /\ UNCHANGED <<tasks, queue, signals>>

\* The worker goroutine sees the closed context and ends the process.
Stop(w) ==
    /\ worker[w].phase = "idle" /\ worker[w].stopping
    /\ Exit(w)
    /\ NoFault

Crash(w) ==
    /\ worker[w].phase # "down"
    /\ Fault
    /\ Exit(w)

-----------------------------------------------------------------------------
Next ==
    \/ \E w \in Workers :
        \/ \E t \in Tasks :
              \/ Create(w, t)
              \/ RequestCancel(w, t)
              \/ SignalCancel(w, t)
              \/ \E original \in Tasks : Retry(w, original, t)
        \/ Boot(w) \/ Tick(w) \/ Dequeue(w) \/ Begin(w) \/ Heartbeat(w)
        \/ Timeout(w) \/ Return(w) \/ Decide(w) \/ Complete(w)
        \/ Close(w) \/ Stop(w) \/ Crash(w)
    \/ \E t \in Tasks : LeaseExpires(t)

Spec == Init /\ [][Next]_vars

\* Processes are restarted, goroutines run, executors return (each call they
\* make takes the work context, which has a deadline) and time passes.  Nothing
\* is assumed of clients or of faults.
Fairness ==
    /\ \A w \in Workers :
          /\ WF_vars(Boot(w)) /\ WF_vars(Tick(w)) /\ WF_vars(Dequeue(w))
          /\ WF_vars(Begin(w)) /\ WF_vars(Return(w)) /\ WF_vars(Decide(w))
          /\ WF_vars(Complete(w)) /\ WF_vars(Stop(w))
    /\ \A t \in Tasks : WF_vars(LeaseExpires(t))

FairSpec == Spec /\ Fairness

-----------------------------------------------------------------------------
(* Properties.                                                             *)

\* Every variable keeps its shape; a channel never holds more than its
\* capacity, because enqueue drops what does not fit.
TypeOK ==
    /\ tasks \in [Tasks -> Row]
    /\ worker \in [Workers -> Worker]
    /\ queue \in [Workers -> Seq(Tasks)]
    /\ \A w \in Workers : Len(queue[w]) <= QueueSize
    /\ signals \in [Workers -> SUBSET Tasks]
    /\ faults \in 0..MaxFaults
    /\ \A w \in Workers : worker[w].phase \in Working => worker[w].task \in Tasks

\* A task that completed, failed or was canceled stays exactly as it settled,
\* whatever late workers, late heartbeats and late cancel requests do to its
\* row (the fence of Complete and RenewLease, the CASE of RequestCancel).
SettledFrozen ==
    [][\A t \in Tasks : tasks[t].status \in Terminal => tasks'[t] = tasks[t]]_vars

\* Retries form chains, never trees: a task is retried by at most one other,
\* which is one attempt later, of at most three, and what was retried had
\* failed or been canceled, and not at the quality gate.
RetryChain ==
    \A t \in Tasks :
        LET original == tasks[t].retryOf
        IN  /\ original = None => tasks[t].attempt <= 1
            /\ original # None =>
                 /\ tasks[original].status \in {"failed", "canceled"}
                 /\ tasks[original].code # "quality_gate_failed"
                 /\ tasks[t].attempt = tasks[original].attempt + 1
                 /\ \A other \in Tasks :
                       tasks[other].retryOf = original => other = t

\* The record of a settled task does not contradict itself, nor what happened to
\* it: the cancel flag is set exactly when the status is canceled, although the
\* API writes the one and a worker that may never have seen it the other; and only
\* the environment can interrupt an execution that nobody asked to cancel, although
\* Cancel looks for the one to interrupt after its row is written, when the process
\* may have gone on to another (Cancel, process).
FlagAgrees ==
    \A t \in Tasks :
        tasks[t].status \in Terminal =>
            /\ tasks[t].cancel <=> tasks[t].status = "canceled"
            /\ faults = 0 => tasks[t].code # "lease_lost"

\* No task is executed by two processes at a time unless the environment failed
\* at least once: that takes a lease that ran out under a worker (the lease
\* test in Claim, the renewals).  Two ids in two channels do not suffice.
OneExecution ==
    faults = 0 =>
        \A v, w \in Workers, t \in Tasks : WorksOn(v, t) /\ WorksOn(w, t) => v = w

\* Every submitted task settles, in spite of crashes, shutdowns, lost store
\* answers and ids dropped by a full channel, unless someone asked to cancel
\* it (recoverRunnable and the takeover of expired leases).
Settles ==
    \A t \in Tasks :
        tasks[t].status \in {"pending", "running"} ~>
            tasks[t].status \in Terminal \/ tasks[t].cancel

\* The service implements the job lifecycle it documents.
Lifecycle == INSTANCE JobLifecycle
    WITH Jobs <- Tasks, NoJob <- None, MaxAttempts <- MaxAttempts,
         status <- [t \in Tasks |-> tasks[t].status],
         attempt <- [t \in Tasks |-> tasks[t].attempt],
         retryOf <- [t \in Tasks |-> tasks[t].retryOf]

ImplementsLifecycle == Lifecycle!Spec

\* planning/AGENT_TASK_STANDARD.md:65 and :120: the final read of the flag keeps
\* a late result from overwriting a cancel request.
CancelKept ==
    [][\A t \in Tasks : tasks[t].cancel => tasks'[t].cancel]_vars
=============================================================================
