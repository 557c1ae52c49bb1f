------------------------------- MODULE Release -------------------------------
(***************************************************************************)
(* Controlled releases (internal/release): a release of a delivered change *)
(* is verified by the code platform, approved, triggered at a CI/CD        *)
(* provider, and followed through the provider's webhooks; a release that  *)
(* succeeded may be rolled back the same way.  A production release may    *)
(* only promote the artifact of a staging release that succeeded.          *)
(*                                                                         *)
(* Every write compares and swaps on the revision, and the revision grows  *)
(* with every write, so a method that reads, checks and writes is one step *)
(* here.  The exceptions are Trigger and TriggerRollback, which call the   *)
(* provider in between: their call and their write are two steps, and the  *)
(* process may exit, or others may write, before the second.               *)
(*                                                                         *)
(* The provider and the code platform are external: their runs are modelled*)
(* from how the code uses them (one run per idempotency key), and their    *)
(* webhooks are delivered in any order, any number of times, or never, and a *)
(* platform may report the same thing again under a new event id.          *)
(***************************************************************************)
EXTENDS Integers, Sequences

CONSTANTS Staging,     \* ids of releases to an environment before production
          Production,  \* ids of releases to production
          People,      \* engineers and approvers
          Digests,     \* digests of artifacts
          Copies,      \* bound: how often one thing is reported, under a new event id
          None

ASSUME Constants ==
    /\ Staging \cap Production = {}
    /\ None \notin Staging \cup Production \cup People \cup Digests

Releases == Staging \cup Production

VARIABLES requests,  \* the release_requests table
          log,       \* release_events, a sequence per release
          receipts,  \* release_provider_receipts: the webhooks already recorded
          calls,     \* triggers the provider answered, not yet written back
          runs       \* the provider's runs: the states each has been in

store == <<requests, log, receipts>>
vars == <<requests, log, receipts, calls, runs>>

-----------------------------------------------------------------------------
(* Rows.                                                                   *)

Phases == {"deploy", "rollback"}

\* The statuses of a release while its run is under way.
Queued(phase) == IF phase = "deploy" THEN "queued" ELSE "rollback_queued"
Running(phase) == IF phase = "deploy" THEN "running" ELSE "rollback_running"

Status == {"absent", "awaiting_source_verification", "awaiting_approval",
           "approved", "rejected", "queued", "running", "succeeded", "failed",
           "rollback_awaiting_approval", "rollback_approved", "rollback_queued",
           "rollback_running", "rolled_back", "rollback_failed"}

\* started: the phases whose run id the row holds.  source: the evidence of the
\* code platform, which also fixes the commit and the confirmation.
Request == [status: Status,
            revision: Nat,
            source: BOOLEAN,
            from: Staging \cup {None},
            pinned: Digests \cup {None},
            artifact: Digests \cup {None},
            started: SUBSET Phases,
            createdBy: People \cup {None},
            approvedBy: People \cup {None},
            rollbackBy: People \cup {None},
            rollbackApprovedBy: People \cup {None}]

NoRequest ==
    [status |-> "absent", revision |-> 0, source |-> FALSE, from |-> None,
     pinned |-> None, artifact |-> None, started |-> {}, createdBy |-> None,
     approvedBy |-> None, rollbackBy |-> None, rollbackApprovedBy |-> None]

\* The service read a copy of the row, changed it to row, and writes it back with
\* the next revision and one event; cause is the webhook applied, None for a
\* person's action.
Event(copy, row, cause) ==
    [sequence |-> copy.revision + 1, from |-> copy.status, to |-> row.status,
     cause |-> cause]

Write(r, copy, row, cause) ==
    /\ requests' = [requests EXCEPT ![r] = [row EXCEPT !.revision = copy.revision + 1]]
    /\ log' = [log EXCEPT ![r] = Append(@, Event(copy, row, cause))]

\* A person's action: no webhook, nothing outside the store.
Act(r, row) ==
    /\ Write(r, requests[r], row, None)
    /\ UNCHANGED <<receipts, calls, runs>>

-----------------------------------------------------------------------------
(* The provider and its webhooks.                                          *)

RunState == {"queued", "running", "succeeded", "failed"}

\* proof: the run can show the evidence that its phase requires (signature,
\* provenance, bill of materials and the nine checks, or the two of a rollback).
Run == [state: RunState, digest: Digests \cup {None}, proof: BOOLEAN]

RunIn(state) == [state |-> state, digest |-> None, proof |-> FALSE]

\* A webhook of the provider reports a state that a run has been in; one of the
\* code platform says with proof whether the change is merged, approved and
\* checked.  Different webhooks, and the two platforms', have different event ids.
ProviderWebhook == [source: {"provider"}, release: Releases, phase: Phases, run: Run,
                    copy: Copies]
CodeWebhook == [source: {"code"}, release: Releases, proof: BOOLEAN, copy: Copies]
Webhook == ProviderWebhook \cup CodeWebhook

\* What the log holds.
Entry == [sequence: Nat, from: Status, to: Status, cause: Webhook \cup {None}]

\* A run that the provider has not started yet starts; the idempotency key of
\* the request makes every later request return the same run.
Started(r, phase) ==
    IF runs[r][phase] = {}
    THEN [runs EXCEPT ![r] = [@ EXCEPT ![phase] = {RunIn("queued")}]]
    ELSE runs

\* How a run may end.  Only a deployment that succeeded has an artifact.
Ends(phase) ==
    {RunIn("failed")} \cup
    {[state |-> "succeeded", digest |-> d, proof |-> proof] :
        d \in IF phase = "deploy" THEN Digests ELSE {None}, proof \in BOOLEAN}

Over(run) == run.state \in {"succeeded", "failed"}

RunMoves(r, phase) ==
    /\ runs[r][phase] # {} /\ \A run \in runs[r][phase] : ~Over(run)
    /\ \E run \in {RunIn("running")} \cup Ends(phase) :
          runs' = [runs EXCEPT ![r] = [@ EXCEPT ![phase] =
                                          runs[r][phase] \cup {run}]]
    /\ UNCHANGED <<requests, log, receipts, calls>>

-----------------------------------------------------------------------------
(* What people do.                                                         *)

\* A staging release of a delivered session.
Create(r, a) ==
    /\ r \in Staging /\ requests[r].status = "absent"
    /\ Act(r, [NoRequest EXCEPT !.status = "awaiting_source_verification",
                                !.createdBy = a])

\* A production release names the staging release that it promotes and pins its
\* digest.  Read and insertion are one step: nobody else knows the new id.
Promotable(s) == requests[s].status = "succeeded" /\ requests[s].artifact # None

Promote(r, s, a) ==
    /\ r \in Production /\ requests[r].status = "absent"
    /\ Promotable(s)
    /\ Act(r, [NoRequest EXCEPT !.status = "awaiting_source_verification",
                                !.createdBy = a, !.from = s,
                                !.pinned = requests[s].artifact])

Approver_Anyone(actor, requester) == actor # None

\* Nobody approves what they asked for.
Approver(actor, requester) == actor # requester

Decide(r, a, approve) ==
    /\ requests[r].status = "awaiting_approval"
    /\ Approver(a, requests[r].createdBy)
    /\ Act(r, IF approve
              THEN [requests[r] EXCEPT !.status = "approved", !.approvedBy = a]
              ELSE [requests[r] EXCEPT !.status = "rejected"])

RequestRollback(r, a) ==
    /\ requests[r].status = "succeeded"
    /\ Act(r, [requests[r] EXCEPT !.status = "rollback_awaiting_approval",
                                  !.rollbackBy = a])

DecideRollback(r, a) ==
    /\ requests[r].status = "rollback_awaiting_approval"
    /\ Approver(a, requests[r].rollbackBy)
    /\ Act(r, [requests[r] EXCEPT !.status = "rollback_approved",
                                  !.rollbackApprovedBy = a])

-----------------------------------------------------------------------------
(* Triggers.                                                               *)

ReadyFor(row, phase) ==
    IF phase = "deploy"
    THEN row.status = "approved"
    ELSE row.status = "rollback_approved" /\ row.artifact # None

Call == [release: Releases, phase: Phases, copy: Request]

\* Trigger and TriggerRollback up to the provider's answer.  The run may start
\* although the answer is lost; the row is not written then.
TriggerCall(r, phase) ==
    /\ ReadyFor(requests[r], phase)
    /\ runs' = Started(r, phase)
    /\ calls' \in {calls, calls \cup {[release |-> r, phase |-> phase,
                                       copy |-> requests[r]]}}
    /\ UNCHANGED <<requests, log, receipts>>

Unchanged_Ignored(c) == TRUE

\* The comparison of Update: nothing was written since the call read the row.
UnchangedSince(c) == requests[c.release].revision = c.copy.revision

\* The answer is written, or refused because the row has moved on.
TriggerStore(c) ==
    /\ c \in calls
    /\ calls' = calls \ {c}
    /\ IF UnchangedSince(c)
       THEN Write(c.release, c.copy,
                  [c.copy EXCEPT !.status = Queued(c.phase),
                                 !.started = c.copy.started \cup {c.phase}],
                  None)
       ELSE UNCHANGED <<requests, log>>
    /\ UNCHANGED <<receipts, runs>>

\* The process exits, or the database fails, between the call and the write.
TriggerLost(c) ==
    /\ c \in calls
    /\ calls' = calls \ {c}
    /\ UNCHANGED <<requests, log, receipts, runs>>

-----------------------------------------------------------------------------
(* Webhooks.                                                               *)

Known_Never(m) == FALSE

Known(m) == m \in receipts

\* ApplyProviderEvent records the webhook together with the write; one that is
\* recorded already changes nothing.
Record(m, row) ==
    IF Known(m)
    THEN UNCHANGED store
    ELSE /\ Write(m.release, requests[m.release], row, m)
         /\ receipts' = receipts \cup {m}

\* ReconcileCodePlatform.  An incomplete report, or one that comes too late, is
\* recorded and changes nothing but the revision.
ReconcileCode(r, proof, n) ==
    /\ requests[r].status # "absent"
    /\ Record([source |-> "code", release |-> r, proof |-> proof, copy |-> n],
              IF requests[r].status = "awaiting_source_verification" /\ proof
              THEN [requests[r] EXCEPT !.status = "awaiting_approval", !.source = TRUE]
              ELSE requests[r])
    /\ UNCHANGED <<calls, runs>>

Allowed_Any(row, phase, run) == phase \in row.started
Allowed_Running(row, phase, run) == row.status = Running(phase)

\* A webhook counts while the release is in the phase it reports on, and does not
\* say "queued" of a run that is known to run.
Allowed(row, phase, run) ==
    \/ row.status = Queued(phase)
    \/ row.status = Running(phase) /\ run.state # "queued"

Evidence_None(row, run) == TRUE
Evidence_Unpinned(row, run) == run.proof

\* The evidence of a deployment that succeeded, promoted digest included.
Evidence(row, run) == run.proof /\ row.pinned \in {None, run.digest}

\* applyProvider, for a webhook that is allowed.
Applied(row, phase, run) ==
    CASE phase = "deploy" /\ run.state = "succeeded" ->
           IF Evidence(row, run)
           THEN [row EXCEPT !.status = "succeeded", !.artifact = run.digest]
           ELSE [row EXCEPT !.status = "failed"]
      [] phase = "rollback" /\ run.state = "succeeded" ->
           [row EXCEPT !.status = IF run.proof THEN "rolled_back" ELSE "rollback_failed"]
      [] run.state = "failed" ->
           [row EXCEPT !.status = IF phase = "deploy" THEN "failed" ELSE "rollback_failed"]
      [] run.state = "running" -> [row EXCEPT !.status = Running(phase)]
      [] run.state = "queued" -> [row EXCEPT !.status = Queued(phase)]

\* Reconcile.  A webhook about a run whose id is not stored yet is refused.
Reconcile(r, phase, run, n) ==
    /\ phase \in requests[r].started
    /\ Record([source |-> "provider", release |-> r, phase |-> phase, run |-> run,
               copy |-> n],
              IF Allowed(requests[r], phase, run)
              THEN Applied(requests[r], phase, run)
              ELSE requests[r])
    /\ UNCHANGED <<calls, runs>>

-----------------------------------------------------------------------------
Init ==
    /\ requests = [r \in Releases |-> NoRequest]
    /\ log = [r \in Releases |-> <<>>]
    /\ receipts = {}
    /\ calls = {}
    /\ runs = [r \in Releases |-> [phase \in Phases |-> {}]]

Next ==
    \/ \E r \in Releases :
        \/ \E a \in People :
              \/ Create(r, a)
              \/ \E s \in Staging : Promote(r, s, a)
              \/ \E approve \in BOOLEAN : Decide(r, a, approve)
              \/ RequestRollback(r, a)
              \/ DecideRollback(r, a)
        \/ \E phase \in Phases : TriggerCall(r, phase) \/ RunMoves(r, phase)
        \/ \E n \in Copies :
              \/ \E proof \in BOOLEAN : ReconcileCode(r, proof, n)
              \/ \E phase \in Phases : \E run \in runs[r][phase] :
                    Reconcile(r, phase, run, n)
    \/ \E c \in calls : TriggerStore(c) \/ TriggerLost(c)

Spec == Init /\ [][Next]_vars

\* The provider finishes its runs, and repeats the webhook about the end of one
\* until it is accepted.
Fairness ==
    \A r \in Releases, phase \in Phases :
        /\ WF_vars(RunMoves(r, phase))
        /\ WF_vars(\E run \in runs[r][phase], n \in Copies :
                      Over(run) /\ Reconcile(r, phase, run, n))

FairSpec == Spec /\ Fairness

-----------------------------------------------------------------------------
(* Properties.                                                             *)

\* Every variable keeps its shape.
TypeOK ==
    /\ requests \in [Releases -> Request]
    /\ log \in [Releases -> Seq(Entry)]
    /\ receipts \subseteq Webhook
    /\ calls \subseteq Call
    /\ runs \in [Releases -> [Phases -> SUBSET Run]]

\* The ways of a release: what people and a trigger's answer do, what webhooks say
\* of a run under way, and webhooks that are recorded and change nothing.
StatusMoves ==
    {<<"absent", "awaiting_source_verification">>,
     <<"awaiting_source_verification", "awaiting_approval">>,
     <<"awaiting_approval", "approved">>, <<"awaiting_approval", "rejected">>,
     <<"approved", "queued">>, <<"succeeded", "rollback_awaiting_approval">>,
     <<"rollback_awaiting_approval", "rollback_approved">>,
     <<"rollback_approved", "rollback_queued">>}
    \cup ({"queued", "running"} \X {"running", "succeeded", "failed"})
    \cup ({"rollback_queued", "rollback_running"} \X
              {"rollback_running", "rolled_back", "rollback_failed"})
    \cup {<<status, status>> : status \in Status \ {"absent"}}

Audit == INSTANCE RevisionLog
    WITH Rows <- Releases, Moves <- StatusMoves,
         status <- [r \in Releases |-> requests[r].status],
         revision <- [r \in Releases |-> requests[r].revision],
         history <- log

\* Releases and their events are a revision log: one event per revision, of the
\* status that was really left, in the order of the workflow, though a trigger
\* writes a copy it read before the provider answered and webhooks come in any
\* order (Update and ApplyProviderEvent write both tables or neither, and compare
\* the revision).
ImplementsRevisionLog == Audit!Spec

\* A webhook has an effect once at most, however often it is delivered
\* (release_provider_receipts).
AppliedOnce ==
    \A r, q \in Releases : \A i \in 1..Len(log[r]), j \in 1..Len(log[q]) :
        log[r][i].cause # None /\ log[r][i].cause = log[q][j].cause => r = q /\ i = j

\* The provider runs nothing on its own authority: a deployment was verified by
\* the code platform and approved by someone other than its creator, a
\* rollback was approved by someone other than its requester, of a release that
\* has an artifact to roll back.  This holds even of a run whose id was lost.
Authorised ==
    \A r \in Releases :
        /\ runs[r]["deploy"] # {} =>
              /\ requests[r].source
              /\ requests[r].approvedBy \notin {None, requests[r].createdBy}
        /\ runs[r]["rollback"] # {} =>
              /\ requests[r].artifact # None
              /\ requests[r].rollbackApprovedBy \notin {None, requests[r].rollbackBy}

Deployed == {"succeeded", "rollback_awaiting_approval", "rollback_approved",
             "rollback_queued", "rollback_running", "rolled_back", "rollback_failed"}

\* The row tells the truth about the runs, although webhooks come late, twice, out
\* of order or not at all: a release that counts as deployed has a run that
\* succeeded with proof and produced its artifact, one that counts as rolled
\* back has a rollback that did, and one that runs has started.
Truthful ==
    \A r \in Releases :
        /\ requests[r].status \in Deployed =>
              \E run \in runs[r]["deploy"] :
                  run.state = "succeeded" /\ run.proof /\ run.digest = requests[r].artifact
        /\ requests[r].status \in {"queued", "running", "failed"} =>
              runs[r]["deploy"] # {}
        /\ requests[r].status = "rolled_back" =>
              \E run \in runs[r]["rollback"] : run.state = "succeeded" /\ run.proof
        /\ requests[r].status \in {"rollback_queued", "rollback_running"} =>
              runs[r]["rollback"] # {}

\* Nothing reaches production but an artifact that a staging release deployed
\* with proof, whatever happened to that release since.
PromotionSound ==
    \A r \in Production :
        requests[r].status \in Deployed =>
            /\ requests[requests[r].from].status \in Deployed
            /\ requests[requests[r].from].artifact = requests[r].artifact

Ended == {"rejected", "failed", "rolled_back", "rollback_failed"}

\* No webhook and no late answer of a trigger takes a release back: an ended
\* release keeps its status, and one that is deployed is never again awaiting
\* its approval, queued or running.
NoRegress ==
    [][\A r \in Releases :
          /\ requests[r].status \in Ended => requests'[r].status = requests[r].status
          /\ requests[r].status \in Deployed => requests'[r].status \in Deployed]_vars

\* A release whose run is under way, and known to be, hears of its end, though
\* the webhook may have come before the run's id was stored and been refused.
RunsSettle ==
    \A r \in Releases :
        /\ requests[r].status = "queued" ~> requests[r].status \notin {"queued", "running"}
        /\ requests[r].status = "rollback_queued" ~>
              requests[r].status \in {"rolled_back", "rollback_failed"}
=============================================================================
