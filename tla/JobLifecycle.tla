---------------------------- MODULE JobLifecycle ----------------------------
(***************************************************************************)
(* What the asynchronous job services of this repository promise to their  *)
(* callers, with no workers, leases, queues or crashes in sight: a job is  *)
(* submitted, starts, and settles once; a settled job never moves again;   *)
(* running it again means a new job that names the old one, and a chain of *)
(* such jobs has at most MaxAttempts members.  It is the state diagram of  *)
(* planning/AGENT_TASK_STANDARD.md; AgentTask and EvaluationRun implement  *)
(* it.                                                                     *)
(***************************************************************************)
EXTENDS Naturals

CONSTANTS Jobs,         \* identifiers a job can be created under
          NoJob,        \* stands for an empty retry_of reference
          MaxAttempts   \* longest chain of retries, the first job included

VARIABLES status,   \* status[j]: "absent" until the job is created
          attempt,  \* attempt[j]: its place in its chain, from 1
          retryOf   \* retryOf[j]: the job it repeats, or NoJob

vars == <<status, attempt, retryOf>>

Settled == {"completed", "failed", "canceled"}

Init ==
    /\ status = [j \in Jobs |-> "absent"]
    /\ attempt = [j \in Jobs |-> 0]
    /\ retryOf = [j \in Jobs |-> NoJob]

Submit(j) ==
    /\ status[j] = "absent"
    /\ status' = [status EXCEPT ![j] = "pending"]
    /\ attempt' = [attempt EXCEPT ![j] = 1]
    /\ UNCHANGED retryOf

Start(j) ==
    /\ status[j] = "pending"
    /\ status' = [status EXCEPT ![j] = "running"]
    /\ UNCHANGED <<attempt, retryOf>>

\* A job that never started can only be canceled.
Settle(j, outcome) ==
    /\ \/ status[j] = "running"
       \/ status[j] = "pending" /\ outcome = "canceled"
    /\ status' = [status EXCEPT ![j] = outcome]
    /\ UNCHANGED <<attempt, retryOf>>

Retry(old, j) ==
    /\ status[old] \in {"failed", "canceled"}
    /\ attempt[old] < MaxAttempts
    /\ \A other \in Jobs : retryOf[other] # old
    /\ status[j] = "absent"
    /\ status' = [status EXCEPT ![j] = "pending"]
    /\ attempt' = [attempt EXCEPT ![j] = attempt[old] + 1]
    /\ retryOf' = [retryOf EXCEPT ![j] = old]

Next ==
    \E j \in Jobs :
        \/ Submit(j)
        \/ Start(j)
        \/ \E outcome \in Settled : Settle(j, outcome)
        \/ \E old \in Jobs : Retry(old, j)

Spec == Init /\ [][Next]_vars
=============================================================================
