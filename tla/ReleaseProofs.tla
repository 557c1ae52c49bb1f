---------------------------- MODULE ReleaseProofs ----------------------------
(***************************************************************************)
(* Proofs about Release for any number of releases, people, digests and    *)
(* repeated reports.                                                       *)
(*                                                                         *)
(* Two facts that the code relies on without saying so carry the argument. *)
(* CallsRead: the copy of a row that a trigger will write back is of a     *)
(* release that was ready, and is the row itself as long as the revision   *)
(* is the same.  RowStep: whoever writes a row, a person, a late trigger   *)
(* or a webhook, changes it in one of nine ways.  The rest is about rows:  *)
(* RowsSound, what a status says of the other fields, RunsSound, what it   *)
(* says of the runs, and Promoted, what it says of another release.        *)
(***************************************************************************)
EXTENDS Release, SequenceTheorems, TLAPS

USE Constants DEF Constants

-----------------------------------------------------------------------------
(* The inductive invariant.                                                *)

\* The statuses after an approval, and those after the approval of a rollback.
RollbackAgreed == {"rollback_approved", "rollback_queued", "rollback_running",
                   "rolled_back", "rollback_failed"}
Agreed == {"approved", "queued", "running", "failed"} \cup Deployed

CallsRead ==
    \A c \in calls :
        /\ ReadyFor(c.copy, c.phase)
        /\ runs[c.release][c.phase] # {}
        /\ c.copy.revision <= requests[c.release].revision
        /\ UnchangedSince(c) => c.copy = requests[c.release]

RowSound(row) ==
    /\ row.status \in {"awaiting_approval", "rejected"} \cup Agreed => row.source
    /\ row.status \in Agreed => row.approvedBy \notin {None, row.createdBy}
    /\ row.status \in RollbackAgreed => row.rollbackApprovedBy \notin {None, row.rollbackBy}
    /\ row.artifact # None <=> row.status \in Deployed
    /\ row.status \in Deployed => row.pinned \in {None, row.artifact}

RowsSound == \A r \in Releases : RowSound(requests[r])

\* Nothing runs that was not approved, and a deployment that succeeded has an
\* artifact.
RunsSound ==
    \A r \in Releases :
        /\ runs[r]["deploy"] # {} => requests[r].status \in Agreed
        /\ runs[r]["rollback"] # {} => requests[r].status \in RollbackAgreed
        /\ \A run \in runs[r]["deploy"] : run.state = "succeeded" => run.digest # None

Promoted ==
    \A r \in Production :
        requests[r].status # "absent" =>
            /\ requests[r].from \in Staging
            /\ requests[r].pinned # None
            /\ requests[requests[r].from].status \in Deployed
            /\ requests[requests[r].from].artifact = requests[r].pinned

\* What the log says is recorded.
CausesKnown ==
    \A r \in Releases : \A i \in 1..Len(log[r]) :
        log[r][i].cause # None => log[r][i].cause \in receipts

\* The event log is the history of the row: one event per revision, numbered
\* without gaps, each starting where the one before it ended, the last one
\* ending where the row is.
LogFaithful ==
    \A r \in Releases :
        /\ Len(log[r]) = requests[r].revision
        /\ \A i \in 1..Len(log[r]) :
              /\ log[r][i].sequence = i
              /\ log[r][i].from = IF i = 1 THEN "absent" ELSE log[r][i - 1].to
        /\ log[r] # <<>> => log[r][Len(log[r])].to = requests[r].status

\* A log that is empty is that of a release that does not exist.
LogStarts == \A r \in Releases : log[r] = <<>> => requests[r].status = "absent"

-----------------------------------------------------------------------------
(* Steps.                                                                  *)

\* What a write may make of the row of r.
RowStep(r, new) ==
    \/ /\ r \in Staging /\ requests[r].status = "absent"
       /\ \E a \in People :
             new = [NoRequest EXCEPT !.status = "awaiting_source_verification",
                                     !.createdBy = a]
    \/ /\ r \in Production /\ requests[r].status = "absent"
       /\ \E a \in People, s \in Staging :
             /\ Promotable(s)
             /\ new = [NoRequest EXCEPT !.status = "awaiting_source_verification",
                                        !.createdBy = a, !.from = s,
                                        !.pinned = requests[s].artifact]
    \/ /\ requests[r].status = "awaiting_source_verification"
       /\ new = [requests[r] EXCEPT !.status = "awaiting_approval", !.source = TRUE]
    \/ /\ requests[r].status = "awaiting_approval"
       /\ \/ new = [requests[r] EXCEPT !.status = "rejected"]
          \/ \E a \in People :
                /\ a # requests[r].createdBy
                /\ new = [requests[r] EXCEPT !.status = "approved", !.approvedBy = a]
    \/ /\ requests[r].status = "succeeded"
       /\ \E a \in People :
             new = [requests[r] EXCEPT !.status = "rollback_awaiting_approval",
                                       !.rollbackBy = a]
    \/ /\ requests[r].status = "rollback_awaiting_approval"
       /\ \E a \in People :
             /\ a # requests[r].rollbackBy
             /\ new = [requests[r] EXCEPT !.status = "rollback_approved",
                                          !.rollbackApprovedBy = a]
    \/ \E phase \in Phases :
          /\ ReadyFor(requests[r], phase) /\ runs[r][phase] # {}
          /\ new = [requests[r] EXCEPT !.status = Queued(phase),
                                       !.started = requests[r].started \cup {phase}]
    \/ requests[r].status # "absent" /\ new = requests[r]
    \/ \E phase \in Phases : \E run \in runs[r][phase] :
          /\ Allowed(requests[r], phase, run)
          /\ new = Applied(requests[r], phase, run)

\* One write: the row, its event, and the webhook that caused it, if any.
Moved(r, new, cause) ==
    /\ Write(r, requests[r], new, cause)
    /\ RowStep(r, new)
    /\ \/ cause = None /\ receipts' = receipts
       \/ cause \in Webhook \ receipts /\ receipts' = receipts \cup {cause}
    /\ UNCHANGED runs

\* A step that writes nothing.
Silent ==
    /\ UNCHANGED store
    /\ \/ UNCHANGED runs
       \/ \E r \in Releases, phase \in Phases :
             \/ TriggerCall(r, phase)
             \/ RunMoves(r, phase)

-----------------------------------------------------------------------------
(* Types.                                                                  *)

LEMMA StatusesTyped ==
    /\ \A phase \in Phases : Queued(phase) \in Status /\ Running(phase) \in Status
    /\ Deployed \subseteq Status /\ Ended \subseteq Status
BY DEF Phases, Queued, Running, Status, Deployed, Ended

LEMMA NoRequestTyped == NoRequest \in Request
BY DEF NoRequest, Request, Status

\* A webhook that counts makes a row of a row.
LEMMA AppliedTyped ==
    ASSUME NEW row \in Request, NEW phase \in Phases, NEW run \in Run,
           Allowed(row, phase, run)
    PROVE  Applied(row, phase, run) \in Request
<1> DEFINE Set(status) == [row EXCEPT !.status = status]
<1>1. \A status \in Status : Set(status) \in Request
  BY DEF Request
<1>2. \A status \in Status, d \in Digests \cup {None} :
          [row EXCEPT !.status = status, !.artifact = d] \in Request
  BY DEF Request
<1>3. run.state \in RunState /\ run.digest \in Digests \cup {None} /\ run.proof \in BOOLEAN
  BY DEF Run
<1>4. {"succeeded", "failed", "rolled_back", "rollback_failed"} \subseteq Status
  BY DEF Status
<1>5. CASE phase = "deploy" /\ run.state = "succeeded"
  <2>1. Applied(row, phase, run) =
          IF Evidence(row, run)
          THEN [row EXCEPT !.status = "succeeded", !.artifact = run.digest]
          ELSE Set("failed")
    BY <1>5 DEF Applied
  <2>2. Set("failed") \in Request
    BY <1>1, <1>4
  <2>3. [row EXCEPT !.status = "succeeded", !.artifact = run.digest] \in Request
    BY <1>2, <1>3, <1>4
  <2> QED BY <2>1, <2>2, <2>3
<1>6. CASE phase = "rollback" /\ run.state = "succeeded"
  <2>1. Applied(row, phase, run) =
          Set(IF run.proof THEN "rolled_back" ELSE "rollback_failed")
    BY <1>6 DEF Applied
  <2> QED BY <2>1, <1>1, <1>4
<1>7. CASE run.state = "failed"
  <2>1. Applied(row, phase, run) =
          Set(IF phase = "deploy" THEN "failed" ELSE "rollback_failed")
    BY <1>7 DEF Applied
  <2> QED BY <2>1, <1>1, <1>4
<1>8. CASE run.state = "running"
  <2>1. Applied(row, phase, run) = Set(Running(phase))
    BY <1>8 DEF Applied
  <2> QED BY <2>1, <1>1, StatusesTyped
<1>9. CASE run.state = "queued"
  <2>1. Applied(row, phase, run) = Set(Queued(phase))
    BY <1>9 DEF Applied
  <2> QED BY <2>1, <1>1, StatusesTyped
<1> QED BY <1>3, <1>5, <1>6, <1>7, <1>8, <1>9 DEF RunState, Phases

LEMMA RowStepTyped ==
    ASSUME TypeOK, NEW r \in Releases, NEW new, RowStep(r, new)
    PROVE  new \in Request
<1> DEFINE row == requests[r]
<1>1. row \in Request /\ \A phase \in Phases : runs[r][phase] \subseteq Run
  BY DEF TypeOK
<1>2. \A s \in Releases : requests[s].artifact \in Digests \cup {None}
  BY DEF TypeOK, Request
<1>3. CASE \E a \in People :
             new = [NoRequest EXCEPT !.status = "awaiting_source_verification",
                                     !.createdBy = a]
  BY <1>3, NoRequestTyped DEF Request, Status
<1>4. CASE \E a \in People, s \in Staging :
             new = [NoRequest EXCEPT !.status = "awaiting_source_verification",
                                     !.createdBy = a, !.from = s,
                                     !.pinned = requests[s].artifact]
  <2>1. PICK a \in People, s \in Staging :
             new = [NoRequest EXCEPT !.status = "awaiting_source_verification",
                                     !.createdBy = a, !.from = s,
                                     !.pinned = requests[s].artifact]
    BY <1>4
  <2>2. requests[s].artifact \in Digests \cup {None}
    BY <1>2 DEF Releases
  <2> QED BY <2>1, <2>2, NoRequestTyped DEF Request, Status
<1>5. CASE new = [row EXCEPT !.status = "awaiting_approval", !.source = TRUE]
  BY <1>1, <1>5 DEF Request, Status
<1>6. CASE new = [row EXCEPT !.status = "rejected"]
  BY <1>1, <1>6 DEF Request, Status
<1>7. CASE \E a \in People : new = [row EXCEPT !.status = "approved", !.approvedBy = a]
  BY <1>1, <1>7, ZenonT(60) DEF Request, Status
<1>8. CASE \E a \in People :
             new = [row EXCEPT !.status = "rollback_awaiting_approval", !.rollbackBy = a]
  BY <1>1, <1>8, ZenonT(60) DEF Request, Status
<1>9. CASE \E a \in People :
             new = [row EXCEPT !.status = "rollback_approved", !.rollbackApprovedBy = a]
  BY <1>1, <1>9, ZenonT(60) DEF Request, Status
<1>10. CASE \E phase \in Phases :
             new = [row EXCEPT !.status = Queued(phase),
                               !.started = row.started \cup {phase}]
  <2>1. PICK phase \in Phases :
             new = [row EXCEPT !.status = Queued(phase),
                               !.started = row.started \cup {phase}]
    BY <1>10
  <2>2. Queued(phase) \in Status /\ row.started \cup {phase} \in SUBSET Phases
    BY <1>1, StatusesTyped DEF Request
  <2> QED BY <1>1, <2>1, <2>2 DEF Request
<1>11. CASE new = row
  BY <1>1, <1>11
<1>12. CASE \E phase \in Phases : \E run \in runs[r][phase] :
              Allowed(row, phase, run) /\ new = Applied(row, phase, run)
  BY <1>1, <1>12, AppliedTyped
<1> QED BY <1>3, <1>4, <1>5, <1>6, <1>7, <1>8, <1>9, <1>10, <1>11, <1>12 DEF RowStep

-----------------------------------------------------------------------------
(* Every action is a silent step or one write.                             *)

Written == \E r \in Releases : \E new \in Request : \E cause \in Webhook \cup {None} :
              Moved(r, new, cause)

LEMMA ActMoves ==
    ASSUME TypeOK, NEW r \in Releases, NEW new, RowStep(r, new), Act(r, new)
    PROVE  Written
<1>1. Moved(r, new, None)
  BY DEF Act, Moved
<1>2. new \in Request
  BY RowStepTyped
<1> QED BY <1>1, <1>2 DEF Written

LEMMA RecordMoves ==
    ASSUME TypeOK, NEW m \in Webhook, m.release \in Releases, NEW new,
           RowStep(m.release, new), Record(m, new), UNCHANGED <<calls, runs>>
    PROVE  Silent \/ Written
<1>1. CASE Known(m)
  BY <1>1 DEF Record, Silent
<1>2. CASE ~Known(m)
  <2>1. Moved(m.release, new, m)
    BY <1>2 DEF Record, Moved, Known
  <2>2. new \in Request
    BY RowStepTyped
  <2> QED BY <2>1, <2>2 DEF Written
<1> QED BY <1>1, <1>2

LEMMA PeopleMove ==
    ASSUME TypeOK, NEW r \in Releases, NEW a \in People,
           \/ Create(r, a)
           \/ \E s \in Staging : Promote(r, s, a)
           \/ \E approve \in BOOLEAN : Decide(r, a, approve)
           \/ RequestRollback(r, a)
           \/ DecideRollback(r, a)
    PROVE  Written
<1>1. CASE Create(r, a)
  <2> DEFINE new == [NoRequest EXCEPT !.status = "awaiting_source_verification",
                                      !.createdBy = a]
  <2>1. Act(r, new) /\ RowStep(r, new)
    BY <1>1 DEF Create, RowStep
  <2> QED BY <2>1, ActMoves
<1>2. ASSUME NEW s \in Staging, Promote(r, s, a) PROVE Written
  <2> DEFINE new == [NoRequest EXCEPT !.status = "awaiting_source_verification",
                                      !.createdBy = a, !.from = s,
                                      !.pinned = requests[s].artifact]
  <2>1. Act(r, new) /\ RowStep(r, new)
    BY <1>2 DEF Promote, RowStep
  <2> QED BY <2>1, ActMoves
<1>3. ASSUME NEW approve \in BOOLEAN, Decide(r, a, approve) PROVE Written
  <2> DEFINE yes == [requests[r] EXCEPT !.status = "approved", !.approvedBy = a]
             no == [requests[r] EXCEPT !.status = "rejected"]
  <2>1. Act(r, yes) \/ Act(r, no)
    BY <1>3 DEF Decide
  <2>2. RowStep(r, yes) /\ RowStep(r, no)
    BY <1>3 DEF Decide, RowStep, Approver
  <2> QED BY <2>1, <2>2, ActMoves
<1>4. CASE RequestRollback(r, a)
  <2> DEFINE new == [requests[r] EXCEPT !.status = "rollback_awaiting_approval",
                                        !.rollbackBy = a]
  <2>1. Act(r, new) /\ RowStep(r, new)
    BY <1>4 DEF RequestRollback, RowStep
  <2> QED BY <2>1, ActMoves
<1>5. CASE DecideRollback(r, a)
  <2> DEFINE new == [requests[r] EXCEPT !.status = "rollback_approved",
                                        !.rollbackApprovedBy = a]
  <2>1. Act(r, new) /\ RowStep(r, new)
    BY <1>5 DEF DecideRollback, RowStep, Approver
  <2> QED BY <2>1, ActMoves
<1> QED BY <1>1, <1>2, <1>3, <1>4, <1>5

\* A late answer is written only over the row that the call read.
LEMMA TriggerMoves ==
    ASSUME TypeOK, CallsRead, NEW c \in calls, TriggerStore(c)
    PROVE  Silent \/ Written
<1> DEFINE r == c.release
           new == [c.copy EXCEPT !.status = Queued(c.phase),
                                 !.started = c.copy.started \cup {c.phase}]
<1>1. r \in Releases /\ c.phase \in Phases
  BY DEF TypeOK, Call
<1>2. CASE UnchangedSince(c)
  <2>1. c.copy = requests[r] /\ ReadyFor(requests[r], c.phase) /\ runs[r][c.phase] # {}
    BY <1>2 DEF CallsRead
  <2>2. RowStep(r, new)
    BY <1>1, <2>1 DEF RowStep
  <2>3. Write(r, requests[r], new, None) /\ UNCHANGED <<receipts, runs>>
    BY <1>2, <2>1 DEF TriggerStore
  <2>4. Moved(r, new, None)
    BY <2>2, <2>3 DEF Moved
  <2>5. new \in Request
    BY <1>1, <2>2, RowStepTyped
  <2> QED BY <1>1, <2>4, <2>5 DEF Written
<1>3. CASE ~UnchangedSince(c)
  BY <1>3 DEF TriggerStore, Silent, store
<1> QED BY <1>2, <1>3

LEMMA CodeMoves ==
    ASSUME TypeOK, NEW r \in Releases, NEW proof \in BOOLEAN, NEW n \in Copies,
           ReconcileCode(r, proof, n)
    PROVE  Silent \/ Written
<1> DEFINE m == [source |-> "code", release |-> r, proof |-> proof, copy |-> n]
           new == IF requests[r].status = "awaiting_source_verification" /\ proof
                  THEN [requests[r] EXCEPT !.status = "awaiting_approval", !.source = TRUE]
                  ELSE requests[r]
<1>1. m \in Webhook /\ m.release = r
  BY DEF Webhook, CodeWebhook
<1>2. Record(m, new) /\ UNCHANGED <<calls, runs>> /\ requests[r].status # "absent"
  BY DEF ReconcileCode
<1>3. RowStep(r, new)
  BY <1>2 DEF RowStep
<1> HIDE DEF m, new
<1> QED BY <1>1, <1>2, <1>3, RecordMoves

LEMMA ProviderMoves ==
    ASSUME TypeOK, RunsSound, NEW r \in Releases, NEW phase \in Phases,
           NEW run \in runs[r][phase], NEW n \in Copies, Reconcile(r, phase, run, n)
    PROVE  Silent \/ Written
<1> DEFINE m == [source |-> "provider", release |-> r, phase |-> phase, run |-> run,
                 copy |-> n]
           new == IF Allowed(requests[r], phase, run)
                  THEN Applied(requests[r], phase, run)
                  ELSE requests[r]
<1>1. m \in Webhook /\ m.release = r
  BY DEF Webhook, ProviderWebhook, TypeOK
<1>2. Record(m, new) /\ UNCHANGED <<calls, runs>>
  BY DEF Reconcile
<1>3. requests[r].status # "absent"
  BY DEF RunsSound, Agreed, RollbackAgreed, Deployed, Phases
<1>4. RowStep(r, new)
  BY <1>3 DEF RowStep
<1> HIDE DEF m, new
<1> QED BY <1>1, <1>2, <1>4, RecordMoves

LEMMA Steps ==
    ASSUME TypeOK, CallsRead, RunsSound, [Next]_vars
    PROVE  Silent \/ Written
<1>1. CASE UNCHANGED vars
  BY <1>1 DEF vars, Silent, store
<1>2. ASSUME NEW r \in Releases, NEW a \in People,
             \/ Create(r, a)
             \/ \E s \in Staging : Promote(r, s, a)
             \/ \E approve \in BOOLEAN : Decide(r, a, approve)
             \/ RequestRollback(r, a)
             \/ DecideRollback(r, a)
      PROVE  Written
  BY <1>2, PeopleMove
<1>3. ASSUME NEW r \in Releases, NEW phase \in Phases,
             TriggerCall(r, phase) \/ RunMoves(r, phase)
      PROVE  Silent
  BY <1>3 DEF Silent, store, TriggerCall, RunMoves
<1>4. ASSUME NEW r \in Releases, NEW n \in Copies,
             \/ \E proof \in BOOLEAN : ReconcileCode(r, proof, n)
             \/ \E phase \in Phases : \E run \in runs[r][phase] :
                   Reconcile(r, phase, run, n)
      PROVE  Silent \/ Written
  BY <1>4, CodeMoves, ProviderMoves
<1>5. ASSUME NEW c \in calls, TriggerStore(c) PROVE Silent \/ Written
  BY <1>5, TriggerMoves
<1>6. ASSUME NEW c \in calls, TriggerLost(c) PROVE Silent
  BY <1>6 DEF TriggerLost, Silent, store
<1> QED BY <1>1, <1>2, <1>3, <1>4, <1>5, <1>6 DEF Next

-----------------------------------------------------------------------------
(* What a write does to a row.                                             *)

\* What a webhook that counts may make of a row, case by case.
AppliedCase(r, phase, run, new) ==
    \/ /\ phase = "deploy" /\ requests[r].status \in {"queued", "running"}
       /\ \/ /\ run.state = "succeeded" /\ Evidence(requests[r], run)
             /\ new = [requests[r] EXCEPT !.status = "succeeded",
                                          !.artifact = run.digest]
          \/ new = [requests[r] EXCEPT !.status = "failed"]
          \/ new = [requests[r] EXCEPT !.status = "running"]
          \/ /\ requests[r].status = "queued"
             /\ new = [requests[r] EXCEPT !.status = "queued"]
    \/ /\ phase = "rollback"
       /\ requests[r].status \in {"rollback_queued", "rollback_running"}
       /\ \/ /\ run.state = "succeeded" /\ run.proof
             /\ new = [requests[r] EXCEPT !.status = "rolled_back"]
          \/ new = [requests[r] EXCEPT !.status = "rollback_failed"]
          \/ new = [requests[r] EXCEPT !.status = "rollback_running"]
          \/ /\ requests[r].status = "rollback_queued"
             /\ new = [requests[r] EXCEPT !.status = "rollback_queued"]

LEMMA AppliedCases ==
    ASSUME TypeOK, NEW r \in Releases, NEW phase \in Phases, NEW run \in runs[r][phase],
           Allowed(requests[r], phase, run), NEW new,
           new = Applied(requests[r], phase, run)
    PROVE  AppliedCase(r, phase, run, new)
<1>1. run \in Run /\ run.state \in RunState
  BY DEF TypeOK, Run
<1>2. CASE phase = "deploy"
  <2>1. requests[r].status \in {"queued", "running"}
    BY <1>2 DEF Allowed, Queued, Running
  <2>2. Running(phase) = "running" /\ Queued(phase) = "queued"
    BY <1>2 DEF Queued, Running
  <2>3. CASE run.state = "succeeded"
    BY <1>2, <2>1, <2>3 DEF Applied, AppliedCase
  <2>4. CASE run.state = "failed"
    BY <1>2, <2>1, <2>4 DEF Applied, AppliedCase
  <2>5. CASE run.state = "running"
    BY <1>2, <2>1, <2>2, <2>5 DEF Applied, AppliedCase
  <2>6. CASE run.state = "queued"
    BY <1>2, <2>1, <2>2, <2>6 DEF Allowed, Applied, AppliedCase
  <2> QED BY <1>1, <2>3, <2>4, <2>5, <2>6 DEF RunState
<1>3. CASE phase = "rollback"
  <2>1. requests[r].status \in {"rollback_queued", "rollback_running"}
    BY <1>3 DEF Allowed, Queued, Running
  <2>2. Running(phase) = "rollback_running" /\ Queued(phase) = "rollback_queued"
    BY <1>3 DEF Queued, Running
  <2>3. CASE run.state = "succeeded"
    BY <1>3, <2>1, <2>3 DEF Applied, AppliedCase
  <2>4. CASE run.state = "failed"
    BY <1>3, <2>1, <2>4 DEF Applied, AppliedCase
  <2>5. CASE run.state = "running"
    BY <1>3, <2>1, <2>2, <2>5 DEF Applied, AppliedCase
  <2>6. CASE run.state = "queued"
    BY <1>3, <2>1, <2>2, <2>6 DEF Allowed, Applied, AppliedCase
  <2> QED BY <1>1, <2>3, <2>4, <2>5, <2>6 DEF RunState
<1> QED BY <1>2, <1>3 DEF Phases

\* What RowSound, NoRegress, Truthful and PromotionSound need to know of a write
\* to an existing row.
RowFacts(r, new) ==
    /\ RowSound(new)
    /\ new.status # "absent"
    /\ new.from = requests[r].from /\ new.pinned = requests[r].pinned
    /\ requests[r].status \in Ended => new.status = requests[r].status
    /\ requests[r].status \in Agreed => new.status \in Agreed
    /\ requests[r].status \in RollbackAgreed => new.status \in RollbackAgreed
    /\ requests[r].status \in Deployed =>
          new.status \in Deployed /\ new.artifact = requests[r].artifact
    /\ new.status \in Deployed /\ requests[r].status \notin Deployed =>
          \E run \in runs[r]["deploy"] :
              run.state = "succeeded" /\ run.proof /\ run.digest = new.artifact
    /\ new.status \in {"queued", "running", "failed"} => runs[r]["deploy"] # {}
    /\ new.status = "rolled_back" /\ requests[r].status # "rolled_back" =>
          \E run \in runs[r]["rollback"] : run.state = "succeeded" /\ run.proof
    /\ new.status \in {"rollback_queued", "rollback_running"} => runs[r]["rollback"] # {}

\* A webhook changes an existing row as RowFacts says.
LEMMA AppliedFacts ==
    ASSUME TypeOK, RowsSound, RunsSound, NEW r \in Releases, NEW phase \in Phases,
           NEW run \in runs[r][phase], Allowed(requests[r], phase, run), NEW new,
           new = Applied(requests[r], phase, run)
    PROVE  RowFacts(r, new)
<1> DEFINE row == requests[r]
<1>1. row \in Request /\ RowSound(row)
  BY DEF TypeOK, RowsSound
<1>2. AppliedCase(r, phase, run, new)
  BY AppliedCases
<1>3. runs[r][phase] # {}
  OBVIOUS
<1> USE DEF RowFacts, RowSound, Deployed, Agreed, RollbackAgreed, Ended
<1>4. CASE /\ phase = "deploy" /\ row.status \in {"queued", "running"}
           /\ run.state = "succeeded" /\ Evidence(row, run)
           /\ new = [row EXCEPT !.status = "succeeded", !.artifact = run.digest]
  <2>1. run.proof /\ row.pinned \in {None, run.digest} /\ run.digest # None
    BY <1>4 DEF Evidence, RunsSound
  <2>2. /\ new.status = "succeeded" /\ new.artifact = run.digest
        /\ new.source = row.source /\ new.approvedBy = row.approvedBy
        /\ new.createdBy = row.createdBy /\ new.from = row.from
        /\ new.pinned = row.pinned
    BY <1>1, <1>4 DEF Request
  <2> QED BY <1>1, <1>4, <2>1, <2>2
<1>5. CASE /\ phase = "deploy" /\ row.status \in {"queued", "running"}
           /\ \E status \in {"failed", "running", "queued"} :
                 new = [row EXCEPT !.status = status]
  <2>1. /\ new.status \in {"failed", "running", "queued"} /\ new.artifact = row.artifact
        /\ new.source = row.source /\ new.approvedBy = row.approvedBy
        /\ new.createdBy = row.createdBy /\ new.from = row.from
        /\ new.pinned = row.pinned
    BY <1>1, <1>5 DEF Request
  <2> QED BY <1>1, <1>3, <1>5, <2>1
<1>6. CASE /\ phase = "rollback" /\ row.status \in {"rollback_queued", "rollback_running"}
           /\ \E status \in {"rolled_back", "rollback_failed", "rollback_running",
                             "rollback_queued"} :
                 /\ new = [row EXCEPT !.status = status]
                 /\ status = "rolled_back" => run.state = "succeeded" /\ run.proof
  <2>1. /\ new.status \in {"rolled_back", "rollback_failed", "rollback_running",
                           "rollback_queued"}
        /\ new.status = "rolled_back" => run.state = "succeeded" /\ run.proof
        /\ new.artifact = row.artifact
        /\ new.source = row.source /\ new.approvedBy = row.approvedBy
        /\ new.createdBy = row.createdBy /\ new.from = row.from
        /\ new.pinned = row.pinned /\ new.rollbackBy = row.rollbackBy
        /\ new.rollbackApprovedBy = row.rollbackApprovedBy
    BY <1>1, <1>6 DEF Request
  <2> QED BY <1>1, <1>3, <1>6, <2>1
<1> QED BY <1>2, <1>4, <1>5, <1>6 DEF AppliedCase

\* A row that exists changes as RowFacts says, whoever writes it.
LEMMA StepFacts ==
    ASSUME TypeOK, RowsSound, RunsSound, Truthful, NEW r \in Releases, NEW new,
           RowStep(r, new), requests[r].status # "absent"
    PROVE  RowFacts(r, new)
<1> DEFINE row == requests[r]
<1>1. row \in Request /\ RowSound(row)
  BY DEF TypeOK, RowsSound
<1>2. CASE \E phase \in Phases : \E run \in runs[r][phase] :
              Allowed(row, phase, run) /\ new = Applied(row, phase, run)
  BY <1>2, AppliedFacts
<1> USE DEF RowFacts, RowSound, Deployed, Agreed, RollbackAgreed, Ended
<1>3. CASE /\ row.status = "awaiting_source_verification"
           /\ new = [row EXCEPT !.status = "awaiting_approval", !.source = TRUE]
  <2>1. /\ new.status = "awaiting_approval" /\ new.source = TRUE
        /\ new.artifact = row.artifact /\ new.from = row.from /\ new.pinned = row.pinned
    BY <1>1, <1>3 DEF Request
  <2> QED BY <1>1, <1>3, <2>1
<1>4. CASE row.status = "awaiting_approval" /\ new = [row EXCEPT !.status = "rejected"]
  <2>1. /\ new.status = "rejected" /\ new.source = row.source
        /\ new.artifact = row.artifact /\ new.from = row.from /\ new.pinned = row.pinned
    BY <1>1, <1>4 DEF Request
  <2> QED BY <1>1, <1>4, <2>1
<1>5. CASE /\ row.status = "awaiting_approval"
           /\ \E a \in People :
                 /\ a # row.createdBy
                 /\ new = [row EXCEPT !.status = "approved", !.approvedBy = a]
  <2>1. PICK a \in People : /\ a # row.createdBy
                            /\ new = [row EXCEPT !.status = "approved", !.approvedBy = a]
    BY <1>5
  <2>2. /\ new.status = "approved" /\ new.source = row.source /\ new.approvedBy = a
        /\ new.createdBy = row.createdBy
        /\ new.artifact = row.artifact /\ new.from = row.from /\ new.pinned = row.pinned
    BY <1>1, <2>1 DEF Request
  <2> QED BY <1>1, <1>5, <2>1, <2>2
<1>6. CASE /\ row.status = "succeeded"
           /\ \E a \in People :
                 new = [row EXCEPT !.status = "rollback_awaiting_approval",
                                   !.rollbackBy = a]
  <2>1. /\ new.status = "rollback_awaiting_approval" /\ new.source = row.source
        /\ new.approvedBy = row.approvedBy /\ new.createdBy = row.createdBy
        /\ new.artifact = row.artifact /\ new.from = row.from /\ new.pinned = row.pinned
    BY <1>1, <1>6 DEF Request
  <2> QED BY <1>1, <1>6, <2>1
<1>7. CASE /\ row.status = "rollback_awaiting_approval"
           /\ \E a \in People :
                 /\ a # row.rollbackBy
                 /\ new = [row EXCEPT !.status = "rollback_approved",
                                      !.rollbackApprovedBy = a]
  <2>1. PICK a \in People : /\ a # row.rollbackBy
                            /\ new = [row EXCEPT !.status = "rollback_approved",
                                                 !.rollbackApprovedBy = a]
    BY <1>7
  <2>2. /\ new.status = "rollback_approved" /\ new.source = row.source
        /\ new.approvedBy = row.approvedBy /\ new.createdBy = row.createdBy
        /\ new.rollbackApprovedBy = a /\ new.rollbackBy = row.rollbackBy
        /\ new.artifact = row.artifact /\ new.from = row.from /\ new.pinned = row.pinned
    BY <1>1, <2>1 DEF Request
  <2> QED BY <1>1, <1>7, <2>1, <2>2
<1>8. CASE \E phase \in Phases :
             /\ ReadyFor(row, phase) /\ runs[r][phase] # {}
             /\ new = [row EXCEPT !.status = Queued(phase),
                                  !.started = row.started \cup {phase}]
  <2>1. PICK phase \in Phases :
             /\ ReadyFor(row, phase) /\ runs[r][phase] # {}
             /\ new = [row EXCEPT !.status = Queued(phase),
                                  !.started = row.started \cup {phase}]
    BY <1>8
  <2>2. /\ new.status = Queued(phase) /\ new.source = row.source
        /\ new.approvedBy = row.approvedBy /\ new.createdBy = row.createdBy
        /\ new.rollbackApprovedBy = row.rollbackApprovedBy
        /\ new.rollbackBy = row.rollbackBy
        /\ new.artifact = row.artifact /\ new.from = row.from /\ new.pinned = row.pinned
    BY <1>1, <2>1 DEF Request
  <2>3. \/ phase = "deploy" /\ row.status = "approved" /\ new.status = "queued"
        \/ phase = "rollback" /\ row.status = "rollback_approved"
                              /\ new.status = "rollback_queued"
    BY <2>1, <2>2 DEF ReadyFor, Queued, Phases
  <2> QED BY <1>1, <2>1, <2>2, <2>3
<1>9. CASE new = row
  BY <1>1, <1>9 DEF Truthful
<1> QED BY <1>2, <1>3, <1>4, <1>5, <1>6, <1>7, <1>8, <1>9 DEF RowStep

\* A new row is that of a release that waits for its verification.
NewFacts(r, new) ==
    /\ RowSound(new)
    /\ new.status = "awaiting_source_verification"
    /\ r \in Production =>
          /\ new.from \in Staging
          /\ Promotable(new.from) /\ new.pinned = requests[new.from].artifact

LEMMA NewRows ==
    ASSUME TypeOK, NEW r \in Releases, NEW new, RowStep(r, new),
           requests[r].status = "absent"
    PROVE  NewFacts(r, new)
<1>1. ASSUME NEW row, row.status = "awaiting_source_verification", row.artifact = None
      PROVE  RowSound(row)
  BY <1>1 DEF RowSound, Deployed, Agreed, RollbackAgreed
<1>2. CASE /\ r \in Staging
           /\ \E a \in People :
                 new = [NoRequest EXCEPT !.status = "awaiting_source_verification",
                                         !.createdBy = a]
  <2>1. new.status = "awaiting_source_verification" /\ new.artifact = None
    BY <1>2 DEF NoRequest
  <2>2. r \notin Production
    BY <1>2
  <2> QED BY <1>1, <2>1, <2>2 DEF NewFacts
<1>3. CASE /\ r \in Production
           /\ \E a \in People, s \in Staging :
                 /\ Promotable(s)
                 /\ new = [NoRequest EXCEPT !.status = "awaiting_source_verification",
                                            !.createdBy = a, !.from = s,
                                            !.pinned = requests[s].artifact]
  <2>1. PICK a \in People, s \in Staging :
                 /\ Promotable(s)
                 /\ new = [NoRequest EXCEPT !.status = "awaiting_source_verification",
                                            !.createdBy = a, !.from = s,
                                            !.pinned = requests[s].artifact]
    BY <1>3
  <2>2. /\ new.status = "awaiting_source_verification" /\ new.artifact = None
        /\ new.from = s /\ new.pinned = requests[s].artifact
    BY <2>1 DEF NoRequest
  <2> QED BY <1>1, <2>1, <2>2 DEF NewFacts
<1> QED
  BY <1>2, <1>3 DEF RowStep, ReadyFor, Allowed, Queued, Running, Phases

-----------------------------------------------------------------------------
(* The state after a step.                                                 *)

\* Everything but the revision.
Same(row, new) ==
    /\ row.status = new.status /\ row.source = new.source /\ row.from = new.from
    /\ row.pinned = new.pinned /\ row.artifact = new.artifact
    /\ row.started = new.started
    /\ row.createdBy = new.createdBy /\ row.approvedBy = new.approvedBy
    /\ row.rollbackBy = new.rollbackBy
    /\ row.rollbackApprovedBy = new.rollbackApprovedBy

LEMMA MovedRow ==
    ASSUME TypeOK, NEW r \in Releases, NEW new \in Request, NEW cause, Moved(r, new, cause)
    PROVE  /\ requests' \in [Releases -> Request]
           /\ Same(requests'[r], new)
           /\ requests'[r].revision = requests[r].revision + 1
           /\ \A q \in Releases : q # r => requests'[q] = requests[q]
<1> DEFINE row == [new EXCEPT !.revision = requests[r].revision + 1]
<1>1. requests[r].revision + 1 \in Nat /\ requests \in [Releases -> Request]
  BY DEF TypeOK, Request
<1>2. row \in Request /\ row.revision = requests[r].revision + 1 /\ Same(row, new)
  BY <1>1 DEF Same, Request
<1>3. requests' = [requests EXCEPT ![r] = row]
  BY DEF Moved, Write
<1> HIDE DEF row
<1>4. requests'[r] = row
  BY <1>1, <1>3
<1> QED BY <1>1, <1>2, <1>3, <1>4

LEMMA MovedLog ==
    ASSUME TypeOK, NEW r \in Releases, NEW new \in Request, NEW cause \in Webhook \cup {None},
           Moved(r, new, cause)
    PROVE  /\ log' \in [Releases -> Seq(Entry)]
           /\ Len(log'[r]) = Len(log[r]) + 1
           /\ \A i \in 1..Len(log[r]) : log'[r][i] = log[r][i]
           /\ LET last == log'[r][Len(log[r]) + 1]
              IN  /\ last.sequence = requests[r].revision + 1
                  /\ last.from = requests[r].status /\ last.to = new.status
                  /\ last.cause = cause
           /\ \A q \in Releases : q # r => log'[q] = log[q]
<1> DEFINE event == Event(requests[r], new, cause)
<1>1. log \in [Releases -> Seq(Entry)] /\ requests[r] \in Request
  BY DEF TypeOK
<1>2. /\ event \in Entry
      /\ event.sequence = requests[r].revision + 1
      /\ event.from = requests[r].status /\ event.to = new.status
      /\ event.cause = cause
  BY <1>1 DEF Event, Entry, Request
<1>3. log' = [log EXCEPT ![r] = Append(log[r], event)]
  BY DEF Moved, Write
<1> HIDE DEF event
<1>4. log'[r] = Append(log[r], event) /\ log[r] \in Seq(Entry)
  BY <1>1, <1>3
<1>5. /\ Append(log[r], event) \in Seq(Entry)
      /\ Len(log'[r]) = Len(log[r]) + 1
      /\ \A i \in 1..Len(log[r]) : log'[r][i] = log[r][i]
      /\ log'[r][Len(log[r]) + 1] = event
  BY <1>2, <1>4, AppendProperties
<1> QED BY <1>1, <1>2, <1>3, <1>5

\* The facts about what is written hold of the row that is stored.
LEMMA MoveFacts ==
    ASSUME TypeOK, RowsSound, RunsSound, Truthful, NEW r \in Releases,
           NEW new \in Request, NEW cause, Moved(r, new, cause)
    PROVE  /\ requests[r].status # "absent" => RowFacts(r, requests'[r])
           /\ requests[r].status = "absent" => NewFacts(r, requests'[r])
<1>1. Same(requests'[r], new) /\ RowStep(r, new)
  BY MovedRow DEF Moved
<1>2. ASSUME NEW row, Same(row, new)
      PROVE  /\ RowFacts(r, new) => RowFacts(r, row)
             /\ NewFacts(r, new) => NewFacts(r, row)
  BY <1>2 DEF Same, RowFacts, NewFacts, RowSound
<1> QED BY <1>1, <1>2, StepFacts, NewRows

\* The runs after a step: none is forgotten, the first of a phase starts when the
\* release is ready for it, and a deployment that succeeds has an artifact.
RunsGrow ==
    /\ \A q \in Releases, p \in Phases :
          /\ runs[q][p] \subseteq runs'[q][p]
          /\ runs'[q][p] # {} => runs[q][p] # {} \/ ReadyFor(requests[q], p)
    /\ \A q \in Releases : \A run \in runs'[q]["deploy"] \ runs[q]["deploy"] :
          run.state = "succeeded" => run.digest # None

LEMMA RunsMove ==
    ASSUME TypeOK, Silent
    PROVE  runs' \in [Releases -> [Phases -> SUBSET Run]] /\ RunsGrow
<1>1. runs \in [Releases -> [Phases -> SUBSET Run]]
  BY DEF TypeOK
<1>2. CASE UNCHANGED runs
  BY <1>1, <1>2 DEF RunsGrow
<1>3. ASSUME NEW r \in Releases, NEW phase \in Phases, TriggerCall(r, phase)
      PROVE  runs' \in [Releases -> [Phases -> SUBSET Run]] /\ RunsGrow
  <2>1. RunIn("queued") \in Run /\ RunIn("queued").state # "succeeded"
    BY DEF RunIn, Run, RunState
  <2>2. CASE runs[r][phase] = {}
    <3>1. runs' = [runs EXCEPT ![r] = [runs[r] EXCEPT ![phase] = {RunIn("queued")}]]
      BY <1>3, <2>2 DEF TriggerCall, Started
    <3>2. ReadyFor(requests[r], phase)
      BY <1>3 DEF TriggerCall
    <3> QED BY <1>1, <2>1, <2>2, <3>1, <3>2 DEF RunsGrow
  <2>3. CASE runs[r][phase] # {}
    <3>1. runs' = runs
      BY <1>3, <2>3 DEF TriggerCall, Started
    <3> QED BY <1>1, <3>1 DEF RunsGrow
  <2> QED BY <2>2, <2>3
<1>4. ASSUME NEW r \in Releases, NEW phase \in Phases, RunMoves(r, phase)
      PROVE  runs' \in [Releases -> [Phases -> SUBSET Run]] /\ RunsGrow
  <2>1. PICK run \in {RunIn("running")} \cup Ends(phase) :
          runs' = [runs EXCEPT ![r] = [runs[r] EXCEPT ![phase] = runs[r][phase] \cup {run}]]
    BY <1>4 DEF RunMoves
  <2>2. run \in Run
    <3>1. RunIn("running") \in Run /\ RunIn("failed") \in Run
      BY DEF RunIn, Run, RunState
    <3>2. \A d \in Digests \cup {None}, proof \in BOOLEAN :
              [state |-> "succeeded", digest |-> d, proof |-> proof] \in Run
      BY DEF Run, RunState
    <3> QED BY <3>1, <3>2 DEF Ends
  <2>3. phase = "deploy" /\ run.state = "succeeded" => run.digest # None
    BY DEF RunIn, Ends
  <2>4. runs[r][phase] # {}
    BY <1>4 DEF RunMoves
  <2> QED BY <1>1, <2>1, <2>2, <2>3, <2>4 DEF RunsGrow
<1> QED BY <1>2, <1>3, <1>4 DEF Silent

\* A call that is under way was under way before, or has just read the row.
LEMMA CallsMove ==
    ASSUME [Next]_vars, NEW c \in calls'
    PROVE  \/ c \in calls
           \/ \E r \in Releases, phase \in Phases :
                 /\ TriggerCall(r, phase)
                 /\ c = [release |-> r, phase |-> phase, copy |-> requests[r]]
<1>1. CASE UNCHANGED vars
  BY <1>1 DEF vars
<1>2. ASSUME NEW r \in Releases, NEW a \in People,
             \/ Create(r, a)
             \/ \E s \in Staging : Promote(r, s, a)
             \/ \E approve \in BOOLEAN : Decide(r, a, approve)
             \/ RequestRollback(r, a)
             \/ DecideRollback(r, a)
      PROVE  calls' = calls
  BY <1>2 DEF Create, Promote, Decide, RequestRollback, DecideRollback, Act
<1>3. ASSUME NEW r \in Releases, NEW phase \in Phases, RunMoves(r, phase)
      PROVE  calls' = calls
  BY <1>3 DEF RunMoves
<1>4. ASSUME NEW r \in Releases, NEW n \in Copies,
             \/ \E proof \in BOOLEAN : ReconcileCode(r, proof, n)
             \/ \E phase \in Phases : \E run \in runs[r][phase] :
                   Reconcile(r, phase, run, n)
      PROVE  calls' = calls
  BY <1>4 DEF ReconcileCode, Reconcile
<1>5. ASSUME NEW d \in calls, TriggerStore(d) \/ TriggerLost(d)
      PROVE  c \in calls
  BY <1>5 DEF TriggerStore, TriggerLost
<1>6. ASSUME NEW r \in Releases, NEW phase \in Phases, TriggerCall(r, phase)
      PROVE  \/ c \in calls
             \/ c = [release |-> r, phase |-> phase, copy |-> requests[r]]
  BY <1>6 DEF TriggerCall
<1> QED BY <1>1, <1>2, <1>3, <1>4, <1>5, <1>6 DEF Next

-----------------------------------------------------------------------------
(* Each part of the invariant is kept.                                     *)

Inv ==
    /\ TypeOK
    /\ CallsRead
    /\ RowsSound
    /\ RunsSound
    /\ Truthful
    /\ Promoted
    /\ LogFaithful
    /\ LogStarts
    /\ CausesKnown
    /\ AppliedOnce

LEMMA KeepsTypes ==
    ASSUME Inv, [Next]_vars
    PROVE  TypeOK'
<1> USE DEF Inv
<1>1. calls' \subseteq Call
  <2>1. ASSUME NEW c \in calls' PROVE c \in Call
    BY <2>1, CallsMove DEF TypeOK, Call
  <2> QED BY <2>1
<1>2. CASE Silent
  BY <1>1, <1>2, RunsMove DEF TypeOK, Silent, store
<1>3. ASSUME NEW r \in Releases, NEW new \in Request,
             NEW cause \in Webhook \cup {None}, Moved(r, new, cause)
      PROVE  TypeOK'
  BY <1>1, <1>3, MovedRow, MovedLog DEF TypeOK, Moved
<1> QED BY <1>2, <1>3, Steps DEF Written

\* The copies that calls hold stay behind as soon as the row is written.
LEMMA KeepsCalls ==
    ASSUME Inv, [Next]_vars
    PROVE  CallsRead'
<1> USE DEF Inv
<1>1. SUFFICES ASSUME NEW c \in calls'
               PROVE  /\ ReadyFor(c.copy, c.phase)
                      /\ runs'[c.release][c.phase] # {}
                      /\ c.copy.revision <= requests'[c.release].revision
                      /\ requests'[c.release].revision = c.copy.revision =>
                            c.copy = requests'[c.release]
  BY DEF CallsRead, UnchangedSince
<1>2. CASE c \in calls
  <2>1. /\ c.release \in Releases /\ c.phase \in Phases
        /\ c.copy.revision \in Nat /\ requests[c.release].revision \in Nat
    BY <1>2 DEF TypeOK, Call, Request
  <2>2. /\ ReadyFor(c.copy, c.phase)
        /\ runs[c.release][c.phase] # {}
        /\ c.copy.revision <= requests[c.release].revision
        /\ requests[c.release].revision = c.copy.revision => c.copy = requests[c.release]
    BY <1>2 DEF CallsRead, UnchangedSince
  <2>3. CASE Silent
    BY <2>1, <2>2, <2>3, RunsMove DEF Silent, store, RunsGrow
  <2>4. ASSUME NEW r \in Releases, NEW new \in Request,
               NEW cause \in Webhook \cup {None}, Moved(r, new, cause)
        PROVE  /\ runs'[c.release][c.phase] # {}
               /\ c.copy.revision <= requests'[c.release].revision
               /\ requests'[c.release].revision = c.copy.revision =>
                     c.copy = requests'[c.release]
    BY <2>1, <2>2, <2>4, MovedRow DEF Moved
  <2> QED BY <2>2, <2>3, <2>4, Steps DEF Written
<1>3. ASSUME NEW r \in Releases, NEW phase \in Phases, TriggerCall(r, phase),
             c = [release |-> r, phase |-> phase, copy |-> requests[r]]
      PROVE  /\ ReadyFor(c.copy, c.phase)
             /\ runs'[c.release][c.phase] # {}
             /\ c.copy.revision <= requests'[c.release].revision
             /\ requests'[c.release].revision = c.copy.revision =>
                   c.copy = requests'[c.release]
  <2>1. c.release = r /\ c.phase = phase /\ c.copy = requests[r]
    BY <1>3
  <2>2. ReadyFor(requests[r], phase) /\ runs' = Started(r, phase) /\ requests' = requests
    BY <1>3 DEF TriggerCall
  <2>3. runs'[r][phase] # {}
    BY <2>2 DEF Started, TypeOK
  <2>4. requests[r].revision \in Nat
    BY DEF TypeOK, Request
  <2> QED BY <2>1, <2>2, <2>3, <2>4
<1> QED BY <1>2, <1>3, CallsMove

\* What a write and a silent step do to all the rows and runs at once.
LEMMA RowsMove ==
    ASSUME Inv, [Next]_vars
    PROVE  /\ RunsGrow
           /\ \A q \in Releases :
                \/ requests'[q] = requests[q]
                \/ /\ requests[q].status # "absent" /\ RowFacts(q, requests'[q])
                   /\ runs' = runs
                \/ /\ requests[q].status = "absent" /\ NewFacts(q, requests'[q])
                   /\ runs' = runs
<1> USE DEF Inv
<1>1. CASE Silent
  BY <1>1, RunsMove DEF Silent, store
<1>2. ASSUME NEW r \in Releases, NEW new \in Request,
             NEW cause \in Webhook \cup {None}, Moved(r, new, cause)
      PROVE  /\ RunsGrow
             /\ \A q \in Releases :
                  \/ requests'[q] = requests[q]
                  \/ /\ requests[q].status # "absent" /\ RowFacts(q, requests'[q])
                     /\ runs' = runs
                  \/ /\ requests[q].status = "absent" /\ NewFacts(q, requests'[q])
                     /\ runs' = runs
  <2>1. runs' = runs
    BY <1>2 DEF Moved
  <2>2. RunsGrow
    BY <2>1 DEF RunsGrow
  <2>3. \A q \in Releases : q # r => requests'[q] = requests[q]
    BY <1>2, MovedRow
  <2>4. /\ requests[r].status # "absent" => RowFacts(r, requests'[r])
        /\ requests[r].status = "absent" => NewFacts(r, requests'[r])
    BY <1>2, MoveFacts
  <2> QED BY <2>1, <2>2, <2>3, <2>4
<1> QED BY <1>1, <1>2, Steps DEF Written

LEMMA KeepsRows ==
    ASSUME Inv, [Next]_vars
    PROVE  RowsSound'
<1>1. \A q \in Releases : RowSound(requests[q])
  BY DEF Inv, RowsSound
<1> QED BY <1>1, RowsMove DEF RowsSound, RowFacts, NewFacts

LEMMA KeepsRuns ==
    ASSUME Inv, [Next]_vars
    PROVE  RunsSound'
<1>1. SUFFICES ASSUME NEW q \in Releases
               PROVE  /\ runs'[q]["deploy"] # {} => requests'[q].status \in Agreed
                      /\ runs'[q]["rollback"] # {} =>
                            requests'[q].status \in RollbackAgreed
                      /\ \A run \in runs'[q]["deploy"] :
                            run.state = "succeeded" => run.digest # None
  BY DEF RunsSound
<1>2. /\ runs[q]["deploy"] # {} => requests[q].status \in Agreed
      /\ runs[q]["rollback"] # {} => requests[q].status \in RollbackAgreed
      /\ \A run \in runs[q]["deploy"] : run.state = "succeeded" => run.digest # None
  BY DEF Inv, RunsSound
<1>3. /\ runs'[q]["deploy"] # {} => runs[q]["deploy"] # {} \/ ReadyFor(requests[q], "deploy")
      /\ runs'[q]["rollback"] # {} =>
            runs[q]["rollback"] # {} \/ ReadyFor(requests[q], "rollback")
      /\ \A run \in runs'[q]["deploy"] :
            run.state = "succeeded" => run.digest # None
  BY <1>2, RowsMove DEF RunsGrow, Phases
<1>4. /\ runs'[q]["deploy"] # {} => requests[q].status \in Agreed
      /\ runs'[q]["rollback"] # {} => requests[q].status \in RollbackAgreed
  BY <1>2, <1>3 DEF ReadyFor, Agreed, RollbackAgreed
<1>5. \/ requests'[q] = requests[q]
      \/ requests[q].status # "absent" /\ RowFacts(q, requests'[q])
      \/ requests[q].status = "absent"
  BY RowsMove
<1>6. "absent" \notin Agreed \cup RollbackAgreed
  BY DEF Agreed, RollbackAgreed, Deployed
<1> QED BY <1>3, <1>4, <1>5, <1>6 DEF RowFacts

LEMMA KeepsTruth ==
    ASSUME Inv, [Next]_vars
    PROVE  Truthful'
<1> DEFINE Proved(q) ==
            \E run \in runs[q]["deploy"] :
                run.state = "succeeded" /\ run.proof /\ run.digest = requests[q].artifact
           Undone(q) == \E run \in runs[q]["rollback"] : run.state = "succeeded" /\ run.proof
<1>1. SUFFICES ASSUME NEW q \in Releases
               PROVE  /\ requests'[q].status \in Deployed =>
                            \E run \in runs'[q]["deploy"] :
                                /\ run.state = "succeeded" /\ run.proof
                                /\ run.digest = requests'[q].artifact
                      /\ requests'[q].status \in {"queued", "running", "failed"} =>
                            runs'[q]["deploy"] # {}
                      /\ requests'[q].status = "rolled_back" =>
                            \E run \in runs'[q]["rollback"] :
                                run.state = "succeeded" /\ run.proof
                      /\ requests'[q].status \in {"rollback_queued", "rollback_running"} =>
                            runs'[q]["rollback"] # {}
  BY DEF Truthful
<1>2. /\ requests[q].status \in Deployed => Proved(q)
      /\ requests[q].status \in {"queued", "running", "failed"} => runs[q]["deploy"] # {}
      /\ requests[q].status = "rolled_back" => Undone(q)
      /\ requests[q].status \in {"rollback_queued", "rollback_running"} =>
            runs[q]["rollback"] # {}
  BY DEF Inv, Truthful
<1>3. runs[q]["deploy"] \subseteq runs'[q]["deploy"]
      /\ runs[q]["rollback"] \subseteq runs'[q]["rollback"]
  BY RowsMove DEF RunsGrow, Phases
<1>4. CASE requests'[q] = requests[q]
  BY <1>2, <1>3, <1>4
<1>5. CASE RowFacts(q, requests'[q]) /\ runs' = runs
  <2>1. requests'[q].status \in Deployed =>
          \E run \in runs'[q]["deploy"] :
              /\ run.state = "succeeded" /\ run.proof
              /\ run.digest = requests'[q].artifact
    BY <1>2, <1>5 DEF RowFacts
  <2>2. requests'[q].status = "rolled_back" =>
          \E run \in runs'[q]["rollback"] : run.state = "succeeded" /\ run.proof
    BY <1>2, <1>5 DEF RowFacts
  <2> QED BY <1>5, <2>1, <2>2 DEF RowFacts
<1>6. CASE NewFacts(q, requests'[q])
  BY <1>6 DEF NewFacts, Deployed
<1> QED BY <1>4, <1>5, <1>6, RowsMove

\* A staging release that is promoted stays deployed with the same artifact.
LEMMA KeepsPromoted ==
    ASSUME Inv, [Next]_vars
    PROVE  Promoted'
<1>1. \A q \in Releases :
          requests[q].status \in Deployed =>
              /\ requests'[q].status \in Deployed
              /\ requests'[q].artifact = requests[q].artifact
  BY RowsMove DEF RowFacts, Deployed
<1>2. SUFFICES ASSUME NEW r \in Production, requests'[r].status # "absent"
               PROVE  /\ requests'[r].from \in Staging
                      /\ requests'[r].pinned # None
                      /\ requests'[requests'[r].from].status \in Deployed
                      /\ requests'[requests'[r].from].artifact = requests'[r].pinned
  BY DEF Promoted
<1>3. r \in Releases /\ Staging \subseteq Releases
  BY DEF Releases
<1>4. CASE requests[r].status # "absent"
  <2>1. requests'[r].from = requests[r].from /\ requests'[r].pinned = requests[r].pinned
    BY <1>3, <1>4, RowsMove DEF RowFacts
  <2>2. /\ requests[r].from \in Staging /\ requests[r].pinned # None
        /\ requests[requests[r].from].status \in Deployed
        /\ requests[requests[r].from].artifact = requests[r].pinned
    BY <1>4 DEF Inv, Promoted
  <2> QED BY <1>1, <1>3, <2>1, <2>2
<1>5. CASE requests[r].status = "absent"
  <2>1. /\ requests'[r].from \in Staging /\ Promotable(requests'[r].from)
        /\ requests'[r].pinned = requests[requests'[r].from].artifact
    BY <1>2, <1>3, <1>5, RowsMove DEF NewFacts
  <2> QED BY <1>1, <1>3, <2>1 DEF Promotable, Deployed
<1> QED BY <1>4, <1>5

LEMMA KeepsLog ==
    ASSUME Inv, [Next]_vars
    PROVE  LogFaithful' /\ LogStarts'
<1> USE DEF Inv
<1>1. CASE Silent
  BY <1>1 DEF Silent, store, LogFaithful, LogStarts
<1>2. ASSUME NEW r \in Releases, NEW new \in Request,
             NEW cause \in Webhook \cup {None}, Moved(r, new, cause)
      PROVE  LogFaithful' /\ LogStarts'
  <2>1. \A q \in Releases : q # r => log'[q] = log[q] /\ requests'[q] = requests[q]
    BY <1>2, MovedRow, MovedLog
  <2>2. requests'[r].status = new.status
        /\ requests'[r].revision = requests[r].revision + 1
    BY <1>2, MovedRow DEF Same
  <2> DEFINE n == Len(log[r]) + 1
  <2>3. /\ Len(log'[r]) = n
        /\ \A i \in 1..(n - 1) : log'[r][i] = log[r][i]
        /\ log'[r][n].sequence = requests[r].revision + 1
        /\ log'[r][n].from = requests[r].status /\ log'[r][n].to = new.status
    <3>1. Len(log[r]) \in Nat
      BY LenProperties DEF TypeOK
    <3>2. n - 1 = Len(log[r])
      BY <3>1
    <3> QED BY <1>2, <3>2, MovedLog
  <2>4. /\ Len(log[r]) = requests[r].revision /\ n \in Nat \ {0}
        /\ \A i \in 1..(n - 1) :
              /\ log[r][i].sequence = i
              /\ log[r][i].from = IF i = 1 THEN "absent" ELSE log[r][i - 1].to
        /\ requests[r].status = IF n = 1 THEN "absent" ELSE log[r][n - 1].to
    <3>1. log[r] \in Seq(Entry) /\ Len(log[r]) \in Nat
      BY LenProperties DEF TypeOK
    <3>2. log[r] = <<>> <=> n = 1
      BY <3>1, EmptySeq
    <3> QED BY <3>1, <3>2 DEF LogFaithful, LogStarts
  <2>5. log'[r] # <<>>
    BY <2>3, <2>4
  <2> HIDE DEF n
  <2>6. ASSUME NEW i \in 1..n
        PROVE  /\ log'[r][i].sequence = i
               /\ log'[r][i].from = IF i = 1 THEN "absent" ELSE log'[r][i - 1].to
    <3>1. CASE i = n
      <4>1. n # 1 => log'[r][n - 1] = log[r][n - 1]
        BY <2>3, <2>4
      <4>2. requests[r].revision + 1 = n
        BY <2>4 DEF n
      <4> QED BY <2>3, <2>4, <3>1, <4>1, <4>2
    <3>2. CASE i # n
      <4>1. i \in 1..(n - 1) /\ (i # 1 => i - 1 \in 1..(n - 1))
        BY <2>4, <3>2
      <4> QED BY <2>3, <2>4, <4>1
    <3> QED BY <3>1, <3>2
  <2>7. Len(log'[r]) = requests'[r].revision /\ log'[r][Len(log'[r])].to = requests'[r].status
    BY <2>2, <2>3, <2>4 DEF n
  <2>8. LogFaithful'
    <3>1. ASSUME NEW q \in Releases
          PROVE  /\ Len(log'[q]) = requests'[q].revision
                 /\ \A i \in 1..Len(log'[q]) :
                       /\ log'[q][i].sequence = i
                       /\ log'[q][i].from = IF i = 1 THEN "absent" ELSE log'[q][i - 1].to
                 /\ log'[q] # <<>> => log'[q][Len(log'[q])].to = requests'[q].status
      <4>1. CASE q = r
        BY <2>3, <2>6, <2>7, <4>1
      <4>2. CASE q # r
        BY <2>1, <4>2 DEF LogFaithful
      <4> QED BY <4>1, <4>2
    <3> QED BY <3>1 DEF LogFaithful
  <2>9. LogStarts'
    BY <2>1, <2>5 DEF LogStarts
  <2> QED BY <2>8, <2>9
<1> QED BY <1>1, <1>2, Steps DEF Written

\* A webhook that is written was not recorded, so that no log names it yet.
LEMMA KeepsCauses ==
    ASSUME Inv, [Next]_vars
    PROVE  CausesKnown' /\ AppliedOnce'
<1> USE DEF Inv
<1>1. CASE Silent
  BY <1>1 DEF Silent, store, CausesKnown, AppliedOnce
<1>2. ASSUME NEW r \in Releases, NEW new \in Request,
             NEW cause \in Webhook \cup {None}, Moved(r, new, cause)
      PROVE  CausesKnown' /\ AppliedOnce'
  <2> DEFINE n == Len(log[r]) + 1
  <2>1. \A q \in Releases : Len(log[q]) \in Nat
    BY LenProperties DEF TypeOK
  <2>2. \A q \in Releases : q # r => log'[q] = log[q]
    BY <1>2, MovedLog
  <2>3. /\ Len(log'[r]) = n
        /\ \A i \in 1..Len(log[r]) : log'[r][i] = log[r][i]
        /\ log'[r][n].cause = cause
    BY <1>2, MovedLog
  <2>4. /\ receipts \subseteq receipts'
        /\ cause # None => cause \in receipts' /\ cause \notin receipts
    BY <1>2 DEF Moved
  <2>5. \A q \in Releases : \A i \in 1..Len(log'[q]) :
            \/ i \in 1..Len(log[q]) /\ log'[q][i] = log[q][i]
            \/ q = r /\ i = n
    BY <2>1, <2>2, <2>3
  <2> HIDE DEF n
  <2>6. CausesKnown'
    BY <2>3, <2>4, <2>5 DEF CausesKnown
  <2>7. \A q \in Releases : \A i \in 1..Len(log[q]) :
            log[q][i].cause # None => log[q][i].cause # cause
    BY <2>4 DEF CausesKnown
  <2>8. ASSUME NEW q \in Releases, NEW p \in Releases,
               NEW i \in 1..Len(log'[q]), NEW j \in 1..Len(log'[p]),
               log'[q][i].cause # None, log'[q][i].cause = log'[p][j].cause
        PROVE  q = p /\ i = j
    <3>1. CASE i \in 1..Len(log[q]) /\ log'[q][i] = log[q][i]
      <4>1. j \in 1..Len(log[p]) /\ log'[p][j] = log[p][j]
        BY <2>3, <2>5, <2>7, <2>8, <3>1
      <4> QED BY <2>8, <3>1, <4>1 DEF AppliedOnce
    <3>2. CASE q = r /\ i = n
      <4>1. p = r /\ j = n
        BY <2>3, <2>5, <2>7, <2>8, <3>2
      <4> QED BY <3>2, <4>1
    <3> QED BY <2>5, <3>1, <3>2
  <2>9. AppliedOnce'
    BY <2>8 DEF AppliedOnce
  <2> QED BY <2>6, <2>9
<1> QED BY <1>1, <1>2, Steps DEF Written

-----------------------------------------------------------------------------
(* The log of a release.                                                   *)

\* Every way of changing a row is a way of the release.
LEMMA StepMoves ==
    ASSUME TypeOK, NEW r \in Releases, NEW new, RowStep(r, new)
    PROVE  <<requests[r].status, new.status>> \in StatusMoves
<1> DEFINE row == requests[r]
<1>1. row \in Request /\ row.status \in Status
  BY DEF TypeOK, Request
<1> USE DEF StatusMoves
<1>2. ASSUME NEW phase \in Phases, NEW run \in runs[r][phase], Allowed(row, phase, run),
             new = Applied(row, phase, run)
      PROVE  <<row.status, new.status>> \in StatusMoves
  <2>1. AppliedCase(r, phase, run, new)
    BY <1>2, AppliedCases
  <2>2. CASE row.status \in {"queued", "running"}
    <3>1. \/ new.status \in {"running", "succeeded", "failed"}
          \/ row.status = "queued" /\ new.status = "queued"
      BY <1>1, <2>1, <2>2 DEF AppliedCase, Request
    <3> QED BY <1>1, <2>2, <3>1
  <2>3. CASE row.status \in {"rollback_queued", "rollback_running"}
    <3>1. \/ new.status \in {"rollback_running", "rolled_back", "rollback_failed"}
          \/ row.status = "rollback_queued" /\ new.status = "rollback_queued"
      BY <1>1, <2>1, <2>3 DEF AppliedCase, Request
    <3> QED BY <1>1, <2>3, <3>1
  <2> QED BY <2>1, <2>2, <2>3 DEF AppliedCase
<1>3. CASE /\ row.status = "absent"
           /\ \/ \E a \in People :
                    new = [NoRequest EXCEPT !.status = "awaiting_source_verification",
                                            !.createdBy = a]
              \/ \E a \in People, s \in Staging :
                    new = [NoRequest EXCEPT !.status = "awaiting_source_verification",
                                            !.createdBy = a, !.from = s,
                                            !.pinned = requests[s].artifact]
  <2>1. new.status = "awaiting_source_verification"
    BY <1>3 DEF NoRequest
  <2> QED BY <1>3, <2>1
<1>4. CASE /\ row.status = "awaiting_source_verification"
           /\ new = [row EXCEPT !.status = "awaiting_approval", !.source = TRUE]
  <2>1. new.status = "awaiting_approval"
    BY <1>1, <1>4 DEF Request
  <2> QED BY <1>4, <2>1
<1>5. CASE /\ row.status = "awaiting_approval"
           /\ \/ new = [row EXCEPT !.status = "rejected"]
              \/ \E a \in People :
                    new = [row EXCEPT !.status = "approved", !.approvedBy = a]
  <2>1. new.status \in {"rejected", "approved"}
    BY <1>1, <1>5 DEF Request
  <2> QED BY <1>5, <2>1
<1>6. CASE /\ row.status = "succeeded"
           /\ \E a \in People :
                 new = [row EXCEPT !.status = "rollback_awaiting_approval",
                                   !.rollbackBy = a]
  <2>1. new.status = "rollback_awaiting_approval"
    BY <1>1, <1>6 DEF Request
  <2> QED BY <1>6, <2>1
<1>7. CASE /\ row.status = "rollback_awaiting_approval"
           /\ \E a \in People :
                 new = [row EXCEPT !.status = "rollback_approved",
                                   !.rollbackApprovedBy = a]
  <2>1. new.status = "rollback_approved"
    BY <1>1, <1>7 DEF Request
  <2> QED BY <1>7, <2>1
<1>8. ASSUME NEW phase \in Phases, ReadyFor(row, phase),
             new = [row EXCEPT !.status = Queued(phase),
                               !.started = row.started \cup {phase}]
      PROVE  <<row.status, new.status>> \in StatusMoves
  <2>1. new.status = Queued(phase)
    BY <1>1, <1>8 DEF Request
  <2> QED BY <1>8, <2>1 DEF ReadyFor, Queued
<1>9. CASE row.status # "absent" /\ new = row
  BY <1>1, <1>9
<1> QED BY <1>2, <1>3, <1>4, <1>5, <1>6, <1>7, <1>8, <1>9 DEF RowStep

\* A write is one step of the revision log.
LEMMA LogGrows ==
    ASSUME TypeOK, NEW r \in Releases, NEW new \in Request,
           NEW cause \in Webhook \cup {None}, Moved(r, new, cause)
    PROVE  Audit!Next
<1> DEFINE event == Event(requests[r], new, cause)
           status == [q \in Releases |-> requests[q].status]
           revision == [q \in Releases |-> requests[q].revision]
<1>1. /\ log \in [Releases -> Seq(Entry)] /\ requests[r] \in Request
      /\ log' = [log EXCEPT ![r] = Append(log[r], event)]
  BY DEF TypeOK, Moved, Write
<1>2. /\ event.sequence = requests[r].revision + 1
      /\ event.from = requests[r].status /\ event.to = new.status
  BY DEF Event
<1>3. event \in Entry
  BY <1>1 DEF Event, Entry, Request
<1> HIDE DEF event
<1>4. Len(log'[r]) > 0 /\ log'[r][Len(log'[r])] = event
  <2>1. log'[r] = Append(log[r], event) /\ log[r] \in Seq(Entry)
    BY <1>1
  <2> QED BY <1>3, <2>1, AppendProperties, LenProperties
<1>5. status' = [status EXCEPT ![r] = new.status]
      /\ revision' = [revision EXCEPT ![r] = requests[r].revision + 1]
  BY MovedRow DEF Same
<1>6. <<requests[r].status, new.status>> \in StatusMoves
  BY StepMoves DEF Moved
<1>7. status[r] = requests[r].status /\ revision[r] = requests[r].revision
  OBVIOUS
<1>8. Audit!Record(r, event)
  <2>1. /\ event.from = status[r] /\ event.sequence = revision[r] + 1
        /\ <<event.from, event.to>> \in StatusMoves
    BY <1>2, <1>6, <1>7
  <2>2. /\ status' = [status EXCEPT ![r] = event.to]
        /\ revision' = [revision EXCEPT ![r] = event.sequence]
    BY <1>2, <1>5
  <2> QED BY <1>1, <2>1, <2>2 DEF Audit!Record
<1>9. Audit!Record(r, log'[r][Len(log'[r])])
  BY <1>4, <1>8 DEF Audit!Record
<1> QED BY <1>4, <1>9 DEF Audit!Next

-----------------------------------------------------------------------------
(* The theorems.                                                           *)

LEMMA InitInv == Init => Inv
<1> SUFFICES ASSUME Init PROVE Inv
  OBVIOUS
<1>1. /\ \A r \in Releases : requests[r] = NoRequest /\ log[r] = <<>>
      /\ \A r \in Releases, phase \in Phases : runs[r][phase] = {}
      /\ receipts = {} /\ calls = {}
  BY DEF Init
<1>2. /\ NoRequest.status = "absent" /\ NoRequest.artifact = None
      /\ NoRequest.revision = 0
  BY DEF NoRequest
<1>3. TypeOK
  <2>1. <<>> \in Seq(Entry)
    OBVIOUS
  <2> QED BY <2>1, NoRequestTyped DEF Init, TypeOK
<1>4. CallsRead
  BY <1>1 DEF CallsRead
<1>5. RowsSound
  BY <1>1, <1>2 DEF RowsSound, RowSound, Deployed, Agreed, RollbackAgreed
<1>6. RunsSound
  BY <1>1 DEF RunsSound, Phases
<1>7. Truthful
  BY <1>1, <1>2 DEF Truthful, Deployed
<1>8. Promoted
  BY <1>1, <1>2 DEF Promoted, Releases
<1>9. LogFaithful /\ LogStarts /\ CausesKnown /\ AppliedOnce
  BY <1>1, <1>2, EmptySeq DEF LogFaithful, LogStarts, CausesKnown, AppliedOnce
<1> QED BY <1>3, <1>4, <1>5, <1>6, <1>7, <1>8, <1>9 DEF Inv

LEMMA NextInv == Inv /\ [Next]_vars => Inv'
BY KeepsTypes, KeepsCalls, KeepsRows, KeepsRuns, KeepsTruth, KeepsPromoted, KeepsLog,
   KeepsCauses DEF Inv

\* Inv holds in every reachable state: the theorems below read their properties off it
\* (the service and its stores in internal/release).
THEOREM Invariant == Spec => []Inv
BY InitInv, NextInv, PTL DEF Spec

\* Every variable keeps its shape: an answer, a webhook or a person never writes a
\* row, an event or a receipt that is not one (internal/release/model.go).
THEOREM TypeCorrect == Spec => []TypeOK
<1>1. Inv => TypeOK
  BY DEF Inv
<1> QED BY <1>1, Invariant, PTL

\* The events of a release are its history without gaps, however many releases,
\* webhooks and late answers compete (Update, ApplyProviderEvent).
THEOREM LogFaithfulCorrect == Spec => []LogFaithful
<1>1. Inv => LogFaithful
  BY DEF Inv
<1> QED BY <1>1, Invariant, PTL

\* Releases and their events are a revision log: no late answer and no webhook writes
\* over what it did not read (Update, ApplyProviderEvent).
THEOREM RevisionLogImplemented == Spec => ImplementsRevisionLog
<1> DEFINE status == [r \in Releases |-> requests[r].status]
           revision == [r \in Releases |-> requests[r].revision]
<1>1. Init => Audit!Init
  BY DEF Init, Audit!Init, NoRequest
<1>2. Inv /\ [Next]_vars => [Audit!Next]_<<status, revision, log>>
  <2> SUFFICES ASSUME Inv, [Next]_vars, ~UNCHANGED <<status, revision, log>>
               PROVE  Audit!Next
    OBVIOUS
  <2>1. ~Silent
    BY DEF Silent, store
  <2> QED BY <2>1, Steps, LogGrows DEF Inv, Written
<1> QED BY <1>1, <1>2, Invariant, PTL DEF Spec, ImplementsRevisionLog, Audit!Spec

\* A webhook that is delivered again changes nothing (release_provider_receipts).
THEOREM AppliedOnceCorrect == Spec => []AppliedOnce
<1>1. Inv => AppliedOnce
  BY DEF Inv
<1> QED BY <1>1, Invariant, PTL

\* What the provider runs was verified, and approved by a second person, even if
\* the id of the run was lost (Trigger, TriggerRollback, Decide).
THEOREM AuthorisedCorrect == Spec => []Authorised
<1>1. Inv => Authorised
  <2>1. ASSUME Inv, NEW r \in Releases
        PROVE  /\ runs[r]["deploy"] # {} =>
                     /\ requests[r].source
                     /\ requests[r].approvedBy \notin {None, requests[r].createdBy}
               /\ runs[r]["rollback"] # {} =>
                     /\ requests[r].artifact # None
                     /\ requests[r].rollbackApprovedBy \notin
                            {None, requests[r].rollbackBy}
    <3>1. RowSound(requests[r])
      BY <2>1 DEF Inv, RowsSound
    <3>2. RollbackAgreed \subseteq Deployed /\ Deployed \subseteq Agreed
      BY DEF RollbackAgreed, Deployed, Agreed
    <3> QED BY <2>1, <3>1, <3>2 DEF Inv, RunsSound, RowSound
  <2> QED BY <2>1 DEF Authorised
<1> QED BY <1>1, Invariant, PTL

\* What a row says of its runs is so, whatever became of the webhooks
\* (applyProvider).
THEOREM TruthfulCorrect == Spec => []Truthful
<1>1. Inv => Truthful
  BY DEF Inv
<1> QED BY <1>1, Invariant, PTL

\* A production release deploys the artifact of a staging release that was deployed
\* (Create, validDeploymentEvidence).
THEOREM PromotionSoundCorrect == Spec => []PromotionSound
<1>1. Inv => PromotionSound
  <2>1. ASSUME Inv, NEW r \in Production, requests[r].status \in Deployed
        PROVE  /\ requests[requests[r].from].status \in Deployed
               /\ requests[requests[r].from].artifact = requests[r].artifact
    <3>1. r \in Releases /\ requests[r].status # "absent"
      BY <2>1 DEF Releases, Deployed
    <3>2. requests[r].pinned # None /\ requests[r].pinned \in {None, requests[r].artifact}
      BY <2>1, <3>1 DEF Inv, Promoted, RowsSound, RowSound
    <3> QED BY <2>1, <3>1, <3>2 DEF Inv, Promoted
  <2> QED BY <2>1 DEF PromotionSound
<1> QED BY <1>1, Invariant, PTL

\* No late answer and no late webhook takes a release back from an end or from
\* production.
THEOREM NoRegressCorrect == Spec => NoRegress
<1> DEFINE Step ==
      \A r \in Releases :
          /\ requests[r].status \in Ended => requests'[r].status = requests[r].status
          /\ requests[r].status \in Deployed => requests'[r].status \in Deployed
<1>1. Inv /\ [Next]_vars => [Step]_vars
  <2>1. "absent" \notin Ended \cup Deployed
    BY DEF Ended, Deployed
  <2>2. Inv /\ [Next]_vars => Step
    BY <2>1, RowsMove DEF RowFacts
  <2> QED BY <2>2
<1>2. Spec => [][Step]_vars
  BY <1>1, Invariant, PTL DEF Spec
<1> QED BY <1>2 DEF NoRegress
=============================================================================
