------------------------- MODULE DevelopmentSession -------------------------
(***************************************************************************)
(* Development sessions (internal/development): a change is proposed,      *)
(* approved by another person, executed in an isolated copy and, once it   *)
(* is verified, delivered as a branch and a pull request.                  *)
(*                                                                         *)
(* A request reads the session, checks it, inspects the repository and the *)
(* reviews of the package, and then compares and swaps on the revision.    *)
(* Execute and Deliver write that they began, act outside the database,    *)
(* and write the outcome with a second compare-and-swap.  Every server     *)
(* also runs Recover again and again, which takes what began too long ago  *)
(* for interrupted, in a pass of many steps.                               *)
(*                                                                         *)
(* What the repository, the reviews, the scanners and the commands say is  *)
(* a nondeterministic choice: a request that fails there changes nothing,  *)
(* a run that fails there returns failed.  Runner and deliverer are enabled*)
(* on every server, and the servers share the database and the directories.*)
(***************************************************************************)
EXTENDS Integers, Sequences, FiniteSets

CONSTANTS Sessions,   \* ids of sessions
          People,     \* authors, approvers, deliverers
          Servers,    \* processes
          Ids,        \* ids of executions and deliveries, drawn when one begins
          None,
          MaxRequests, \* bound: requests under way that are not alike
          MaxFaults   \* bound: crashes, failing recovery passes and slow runs

ASSUME Constants ==
    /\ None \notin Sessions \cup People \cup Servers \cup Ids \cup {"execution", "delivery"}
    /\ "system" \notin People
    /\ MaxRequests \in Nat
    /\ MaxFaults \in Nat

VARIABLES sessions,  \* the development_sessions table
          log,       \* development_session_events, a sequence per session
          requests,  \* requests that passed their checks and are about to write;
                     \* of each, there may be any number alike
          runs,      \* executions and deliveries: what they have done outside
          passes,    \* per server, the pass of Recover that is under way
          faults

vars == <<sessions, log, requests, runs, passes, faults>>

-----------------------------------------------------------------------------
(* Rows and events.                                                        *)

Status == {"absent", "draft", "awaiting_approval", "approved", "rejected",
           "executing", "verified", "execution_failed",
           "delivering", "delivered", "delivery_failed"}

\* What a row says of its execution or delivery: who asked for it, how it went,
\* and how far it got on the remote, as far as it knows.
Results == {"none", "running", "passed", "failed", "interrupted"}
Remote == {"nothing", "branch", "pull_request"}
Evidence == [id: Ids \cup {None}, by: People \cup {None}, result: Results,
             remote: Remote]

NoEvidence == [id |-> None, by |-> None, result |-> "none", remote |-> "nothing"]

Kinds == {"execution", "delivery"}

Session == [status: Status,
            revision: 0..7,
            createdBy: People \cup {None},
            reviewedBy: People \cup {None},
            evidence: [Kinds -> Evidence]]

NoSession == [status |-> "absent", revision |-> 0, createdBy |-> None,
              reviewedBy |-> None, evidence |-> [k \in Kinds |-> NoEvidence]]

\* How the statuses and events of the two kinds are called.
InFlight == [execution |-> "executing", delivery |-> "delivering"]
Passed == [execution |-> "verified", delivery |-> "delivered"]
Failed == [execution |-> "execution_failed", delivery |-> "delivery_failed"]
Began == [execution |-> "execution_started", delivery |-> "delivery_started"]
Ended == [execution |-> [passed |-> "execution_passed", failed |-> "execution_failed",
                         interrupted |-> "execution_recovered"],
          delivery |-> [passed |-> "delivery_passed", failed |-> "delivery_failed",
                        interrupted |-> "delivery_recovered"]]

\* One write: the row with the next revision, and one event.
Write(s, row, type, actor) ==
    /\ sessions' = [sessions EXCEPT ![s] = [row EXCEPT !.revision = row.revision + 1]]
    /\ log' = [log EXCEPT ![s] = Append(@, [type |-> type, actor |-> actor])]

\* The compare-and-swap of the store: nobody wrote since the row was read.
Unchanged_Ignored(s, revision) == TRUE

Unchanged(s, revision) == sessions[s].revision = revision

-----------------------------------------------------------------------------
(* Requests.                                                               *)

Operations == {"submit", "decide", "execute", "deliver"}

\* The status each operation asks for.
Asks == [submit |-> "draft", decide |-> "awaiting_approval",
         execute |-> "approved", deliver |-> "verified"]

\* The author submits and executes, somebody else decides and delivers.
Permitted_Author(row, operation, actor) ==
    operation \in {"submit", "execute", "deliver"} <=> actor = row.createdBy

Permitted(row, operation, actor) ==
    operation \in {"submit", "execute"} <=> actor = row.createdBy

Request == [operation: Operations, session: Sessions, actor: People, revision: 1..7]

Run == [kind: Kinds \cup {None}, session: Sessions \cup {None},
        server: Servers \cup {None}, revision: 0..7,
        stage: {"unused", "started", "working", "returned", "over"},
        passed: BOOLEAN,        \* what the runner or deliverer returned
        remote: Remote,         \* what is on the remote
        told: Remote,           \* what the evidence says of it
        directory: BOOLEAN,     \* its directory is on the disk
        late: BOOLEAN]          \* it began longer ago than the timeout and the grace

NoRun == [kind |-> None, session |-> None, server |-> None, revision |-> 0,
          stage |-> "unused", passed |-> FALSE, remote |-> "nothing",
          told |-> "nothing", directory |-> FALSE, late |-> FALSE]

\* The pass of Recover on a server: what it looks for, the rows it listed and has
\* not come to, and the ids of the runs it has marked and not cleaned up after.
Pass == [stage: {"idle", "between"} \cup Kinds,
         todo: SUBSET [session: Sessions, revision: 1..7],
         marked: SUBSET Ids]

NoPass == [stage |-> "idle", todo |-> {}, marked |-> {}]

Init ==
    /\ sessions = [s \in Sessions |-> NoSession]
    /\ log = [s \in Sessions |-> <<>>]
    /\ requests = {}
    /\ runs = [i \in Ids |-> NoRun]
    /\ passes = [w \in Servers |-> NoPass]
    /\ faults = 0

-----------------------------------------------------------------------------
(* What people ask for.                                                    *)

Create(s, actor) ==
    /\ sessions[s].status = "absent"
    /\ Write(s, [NoSession EXCEPT !.status = "draft", !.createdBy = actor],
             "created", actor)
    /\ UNCHANGED <<requests, runs, passes, faults>>

\* The method reads the row and passes every check.
Ask(operation, s, actor) ==
    /\ Cardinality(requests) < MaxRequests
    /\ sessions[s].status = Asks[operation]
    /\ Permitted(sessions[s], operation, actor)
    /\ requests' = requests \cup {[operation |-> operation, session |-> s,
                                   actor |-> actor, revision |-> sessions[s].revision]}
    /\ UNCHANGED <<sessions, log, runs, passes, faults>>

\* One of the requests that are alike writes; it may be the last.
Taken(request) == requests' \in {requests, requests \ {request}}

\* It finds that somebody wrote first, or it is given up before it writes.
Refuse(request) ==
    /\ requests' = requests \ {request}
    /\ UNCHANGED <<sessions, log, runs, passes, faults>>

Submit(request) ==
    LET s == request.session
    IN  /\ request.operation = "submit"
        /\ Unchanged(s, request.revision)
        /\ Write(s, [sessions[s] EXCEPT !.status = "awaiting_approval"],
                 "proposal_submitted", request.actor)
        /\ Taken(request)
        /\ UNCHANGED <<runs, passes, faults>>

\* What is decided is part of the request; nothing depends on it before.
Decide(request) ==
    LET s == request.session
    IN  /\ request.operation = "decide"
        /\ Unchanged(s, request.revision)
        /\ \E decision \in {"approved", "rejected"} :
              Write(s, [sessions[s] EXCEPT !.status = decision,
                                           !.reviewedBy = request.actor],
                    decision, request.actor)
        /\ Taken(request)
        /\ UNCHANGED <<runs, passes, faults>>

\* Ids are random and never drawn twice, so it does not matter which is next.
NextId == CHOOSE i \in Ids : runs[i].stage = "unused"

\* Execute and Deliver write that they began, and then begin.
Begin(kind, request, w) ==
    LET s == request.session
        i == NextId
        began == [id |-> i, by |-> request.actor, result |-> "running",
                  remote |-> "nothing"]
    IN  /\ \E id \in Ids : runs[id].stage = "unused"
        /\ Unchanged(s, request.revision)
        /\ Write(s, [sessions[s] EXCEPT !.status = InFlight[kind],
                                        !.evidence = [@ EXCEPT ![kind] = began]],
                 Began[kind], request.actor)
        /\ runs' = [runs EXCEPT ![i] =
                      [NoRun EXCEPT !.kind = kind, !.session = s, !.server = w,
                                    !.revision = sessions[s].revision + 1,
                                    !.stage = "started"]]
        /\ Taken(request)
        /\ UNCHANGED <<passes, faults>>

Execute(request, w) ==
    request.operation = "execute" /\ Begin("execution", request, w)

Deliver(request, w) ==
    request.operation = "deliver" /\ Begin("delivery", request, w)

-----------------------------------------------------------------------------
(* What a run does outside the database.                                   *)

Isolate(i) ==
    /\ runs[i].stage = "started"
    /\ runs' = [runs EXCEPT ![i] = [@ EXCEPT !.stage = "working", !.directory = TRUE]]
    /\ UNCHANGED <<sessions, log, requests, passes, faults>>

\* The push, then the pull request.  Either may take effect and be reported as
\* failed, and nothing is attempted after a failure.
Publish(i) ==
    /\ runs[i].stage = "working"
    /\ runs[i].kind = "delivery"
    /\ runs[i].told = runs[i].remote
    /\ \E next \in {"branch", "pull_request"}, told \in BOOLEAN :
          /\ next = "branch" <=> runs[i].remote = "nothing"
          /\ runs[i].remote # "pull_request"
          /\ runs' = [runs EXCEPT ![i] =
                        [@ EXCEPT !.remote = next,
                                  !.told = IF told THEN next ELSE runs[i].told]]
    /\ UNCHANGED <<sessions, log, requests, passes, faults>>

\* Every gate was passed and, for a delivery, the pull request reported.
MayPass_Branch(run) == run.stage = "working"

MayPass(run) ==
    /\ run.stage = "working"
    /\ run.kind = "delivery" => run.told = "pull_request"

\* The run returns, and removes its directory on the way; where it cannot, it has
\* failed.
Return(i) ==
    /\ runs[i].stage \in {"started", "working"}
    /\ \E removed, passed \in BOOLEAN :
          /\ passed => MayPass(runs[i]) /\ removed
          /\ runs' = [runs EXCEPT ![i] =
                        [@ EXCEPT !.stage = "returned", !.passed = passed,
                                  !.directory = runs[i].directory /\ ~removed]]
    /\ UNCHANGED <<sessions, log, requests, passes, faults>>

\* What the row says after the run with id i.
Outcome(i) ==
    LET run == runs[i]
        row == sessions[run.session]
        evidence == [id |-> i, by |-> row.evidence[run.kind].by,
                     result |-> IF run.passed THEN "passed" ELSE "failed",
                     remote |-> run.told]
    IN  [row EXCEPT !.status = IF run.passed THEN Passed[run.kind] ELSE Failed[run.kind],
                    !.evidence = [@ EXCEPT ![run.kind] = evidence]]

\* The second compare-and-swap.
Record(i) ==
    LET run == runs[i]
        result == IF run.passed THEN "passed" ELSE "failed"
    IN  /\ run.stage = "returned"
        /\ Unchanged(run.session, run.revision)
        /\ Write(run.session, Outcome(i), Ended[run.kind][result],
                 sessions[run.session].evidence[run.kind].by)
        /\ runs' = [runs EXCEPT ![i] = [@ EXCEPT !.stage = "over"]]
        /\ UNCHANGED <<requests, passes, faults>>

\* The outcome is not stored: somebody wrote first, the write failed, or the
\* client went away, whose request carries the context of the write.
Lose(i) ==
    /\ runs[i].stage = "returned"
    /\ runs' = [runs EXCEPT ![i] = [@ EXCEPT !.stage = "over"]]
    /\ UNCHANGED <<sessions, log, requests, passes, faults>>

-----------------------------------------------------------------------------
(* Recover, a pass at a time.                                              *)

\* The sessions in flight that began too long ago.
Stale_Any(kind) ==
    {s \in Sessions : sessions[s].status = InFlight[kind]}

Stale_Executing(kind) ==
    {s \in Sessions : /\ kind = "execution" /\ sessions[s].status = "executing"
                      /\ runs[sessions[s].evidence[kind].id].late}

Stale(kind) ==
    {s \in Sessions : /\ sessions[s].status = InFlight[kind]
                      /\ runs[sessions[s].evidence[kind].id].late}

\* Lists the executions first, and the deliveries after them.
Look(w) ==
    LET kind == IF passes[w].stage = "idle" THEN "execution" ELSE "delivery"
    IN  /\ passes[w].stage \in {"idle", "between"}
        /\ passes' = [passes EXCEPT ![w] =
                        [stage |-> kind,
                         todo |-> {[session |-> s, revision |-> sessions[s].revision] :
                                      s \in Stale(kind)},
                         marked |-> {}]]
        /\ UNCHANGED <<sessions, log, requests, runs, faults>>

Interrupted_Running(row, kind) == [row EXCEPT !.status = Failed[kind]]

Interrupted(row, kind) ==
    [row EXCEPT !.status = Failed[kind],
                !.evidence[kind].result = "interrupted"]

\* The next row of the list is marked, or skipped if somebody wrote it.
Mark(w, entry) ==
    LET s == entry.session
        kind == passes[w].stage
        rest == passes[w].todo \ {entry}
    IN  /\ kind \in Kinds
        /\ entry \in passes[w].todo
        /\ \/ /\ Unchanged(s, entry.revision)
              /\ Write(s, Interrupted(sessions[s], kind), Ended[kind].interrupted, "system")
              /\ passes' = [passes EXCEPT ![w] =
                              [stage |-> kind, todo |-> rest,
                               marked |-> passes[w].marked
                                             \cup {sessions[s].evidence[kind].id}]]
           \/ /\ ~Unchanged(s, entry.revision)
              /\ passes' = [passes EXCEPT ![w] =
                              [stage |-> kind, todo |-> rest,
                               marked |-> passes[w].marked]]
              /\ UNCHANGED <<sessions, log>>
        /\ UNCHANGED <<requests, runs, faults>>

Without(ids) == [i \in Ids |-> IF i \in ids THEN [runs[i] EXCEPT !.directory = FALSE]
                                            ELSE runs[i]]

\* CleanupStale, after the last row.
Clean(w) ==
    /\ passes[w].stage \in Kinds
    /\ passes[w].todo = {}
    /\ runs' = Without(passes[w].marked)
    /\ passes' = [passes EXCEPT ![w] =
                    IF passes[w].stage = "execution"
                    THEN [NoPass EXCEPT !.stage = "between"] ELSE NoPass]
    /\ UNCHANGED <<sessions, log, requests, faults>>

\* A query, a write, or the removal of a directory fails, or the 30 seconds of the
\* pass are over: it ends there, whatever it has marked.
Abort(w) ==
    /\ passes[w].stage # "idle"
    /\ faults < MaxFaults
    /\ \E removed \in SUBSET passes[w].marked :
          /\ removed # {} => passes[w].todo = {}
          /\ runs' = Without(removed)
    /\ passes' = [passes EXCEPT ![w] = NoPass]
    /\ faults' = faults + 1
    /\ UNCHANGED <<sessions, log, requests>>

-----------------------------------------------------------------------------
(* Time and failure.                                                       *)

\* The timeout and the grace period of a run pass.  Of a run whose server is at
\* work this is a fault: its timeout should have ended it before.
Expire(i) ==
    /\ runs[i].stage # "unused"
    /\ ~runs[i].late
    /\ \/ runs[i].stage = "over" /\ UNCHANGED faults
       \/ runs[i].stage # "over" /\ faults < MaxFaults /\ faults' = faults + 1
    /\ runs' = [runs EXCEPT ![i] = [@ EXCEPT !.late = TRUE]]
    /\ UNCHANGED <<sessions, log, requests, passes>>

\* A server exits with all its goroutines and is started again.
Crash(w) ==
    /\ faults < MaxFaults
    /\ faults' = faults + 1
    /\ runs' = [i \in Ids |-> IF runs[i].server = w
                              THEN [runs[i] EXCEPT !.stage = "over"] ELSE runs[i]]
    /\ passes' = [passes EXCEPT ![w] = NoPass]
    /\ UNCHANGED <<sessions, log, requests>>

-----------------------------------------------------------------------------

Next ==
    \/ \E s \in Sessions, actor \in People : Create(s, actor)
    \/ \E operation \in Operations, s \in Sessions, actor \in People :
          Ask(operation, s, actor)
    \/ \E request \in requests : Refuse(request) \/ Submit(request) \/ Decide(request)
    \/ \E request \in requests, w \in Servers :
          Execute(request, w) \/ Deliver(request, w)
    \/ \E i \in Ids : \/ Isolate(i) \/ Publish(i) \/ Return(i)
                      \/ Record(i) \/ Lose(i) \/ Expire(i)
    \/ \E w \in Servers : Look(w) \/ Clean(w) \/ Abort(w) \/ Crash(w)
    \/ \E w \in Servers : \E entry \in passes[w].todo : Mark(w, entry)

Spec == Init /\ [][Next]_vars

\* A run returns, because every call it makes has a deadline, and then writes or
\* is refused; time passes; and every server's ticker runs Recover to its end.
Fairness ==
    /\ \A i \in Ids : /\ WF_vars(Return(i))
                      /\ WF_vars(Record(i) \/ Lose(i))
                      /\ WF_vars(Expire(i))
    /\ \A w \in Servers :
          WF_vars(Look(w) \/ Clean(w) \/ \E entry \in passes[w].todo : Mark(w, entry))

FairSpec == Spec /\ Fairness

-----------------------------------------------------------------------------
(* Properties.                                                             *)

Event == [type: {"created", "proposal_submitted", "approved", "rejected"}
                   \cup {Began[k] : k \in Kinds}
                   \cup {Ended[k][r] : k \in Kinds, r \in {"passed", "failed", "interrupted"}},
          actor: People \cup {"system"}]

\* Every part of the state is of its kind.  The bound of a revision is a claim:
\* no session is ever written more than seven times.
TypeOK ==
    /\ sessions \in [Sessions -> Session]
    /\ \A s \in Sessions : log[s] \in Seq(Event)
    /\ requests \subseteq Request
    /\ runs \in [Ids -> Run]
    /\ passes \in [Servers -> Pass]
    /\ faults \in 0..MaxFaults

\* The events that a row calls for.
Chapter(kind, evidence) ==
    IF evidence.result = "none" THEN <<>>
    ELSE LET began == [type |-> Began[kind], actor |-> evidence.by]
             actor == IF evidence.result = "interrupted" THEN "system" ELSE evidence.by
         IN  IF evidence.result = "running" THEN <<began>>
             ELSE <<began, [type |-> Ended[kind][evidence.result], actor |-> actor]>>

Story(row) ==
    (IF row.status = "absent" THEN <<>>
     ELSE <<[type |-> "created", actor |-> row.createdBy]>>)
    \o (IF row.status \in {"absent", "draft"} THEN <<>>
        ELSE <<[type |-> "proposal_submitted", actor |-> row.createdBy]>>)
    \o (IF row.reviewedBy = None THEN <<>>
        ELSE <<[type |-> IF row.status = "rejected" THEN "rejected" ELSE "approved",
                actor |-> row.reviewedBy]>>)
    \o Chapter("execution", row.evidence["execution"])
    \o Chapter("delivery", row.evidence["delivery"])

\* The audit log of a session is the whole history that its row implies, one event
\* for each revision, in order, in the name of who did it, however requests,
\* late outcomes and the recovery passes of several servers race (the
\* revision of Store.Update).
LogFaithful ==
    \A s \in Sessions :
        /\ log[s] = Story(sessions[s])
        /\ Len(log[s]) = sessions[s].revision

\* The ways of a session, and the status that an event brings it to.
Workflow ==
    {<<"absent", "draft">>, <<"draft", "awaiting_approval">>,
     <<"awaiting_approval", "approved">>, <<"awaiting_approval", "rejected">>,
     <<"approved", "executing">>, <<"executing", "verified">>,
     <<"executing", "execution_failed">>, <<"verified", "delivering">>,
     <<"delivering", "delivered">>, <<"delivering", "delivery_failed">>}

Brings == [created |-> "draft", proposal_submitted |-> "awaiting_approval",
           approved |-> "approved", rejected |-> "rejected",
           execution_started |-> "executing", execution_passed |-> "verified",
           execution_failed |-> "execution_failed",
           execution_recovered |-> "execution_failed",
           delivery_started |-> "delivering", delivery_passed |-> "delivered",
           delivery_failed |-> "delivery_failed",
           delivery_recovered |-> "delivery_failed"]

\* What the revision log keeps of the sessions: each event with the status that the
\* event before it brought and the one that it brings.
Statuses == [s \in Sessions |-> sessions[s].status]
Revisions == [s \in Sessions |-> sessions[s].revision]
Histories ==
    [s \in Sessions |->
        [n \in 1..Len(log[s]) |->
            [sequence |-> n, event |-> log[s][n], to |-> Brings[log[s][n].type],
             from |-> IF n = 1 THEN "absent" ELSE Brings[log[s][n - 1].type]]]]

Audit == INSTANCE RevisionLog
    WITH Rows <- Sessions, Moves <- Workflow,
         status <- Statuses, revision <- Revisions, history <- Histories

\* Sessions and their events are a revision log: no event is ever changed or dropped,
\* and read in order they lead through the workflow to the status of the row, though
\* requests, late outcomes and recovery passes race to write it.
ImplementsRevisionLog == Audit!Spec

\* A change is executed at most once and delivered at most once: every run that
\* began anywhere is the one its session names (Execute and Deliver write
\* before they call the runner and the deliverer).
OneRunEach ==
    \A i \in Ids :
        runs[i].kind # None =>
            sessions[runs[i].session].evidence[runs[i].kind].id = i

\* Nothing is executed that a second person did not approve; nothing reaches the
\* remote that did not pass its execution and was not handed over by somebody
\* other than its author.
SecondHand ==
    \A i \in Ids :
        LET row == sessions[runs[i].session]
        IN  /\ runs[i].kind # None =>
                 /\ row.reviewedBy \notin {None, row.createdBy}
                 /\ row.status # "rejected"
                 /\ row.evidence["execution"].by = row.createdBy
            /\ runs[i].remote # "nothing" =>
                 /\ row.evidence["execution"].result = "passed"
                 /\ row.evidence["delivery"].by \notin {None, row.createdBy}

Reaches(known, real) ==
    \/ known = "nothing"
    \/ known = "branch" /\ real # "nothing"
    \/ known = "pull_request" /\ real = "pull_request"

\* The evidence of a session says what happened: what it calls passed was returned
\* as passed, its directory is gone and a delivery's pull request exists; what it
\* calls interrupted is older than the grace period; and it never claims more of
\* the remote than there is.
Truthful ==
    \A s \in Sessions, k \in Kinds :
        LET evidence == sessions[s].evidence[k]
            run == runs[evidence.id]
        IN  evidence.id # None =>
              /\ evidence.result = "running" <=> sessions[s].status = InFlight[k]
              /\ evidence.result = "passed" =>
                   /\ run.passed /\ run.stage = "over" /\ ~run.directory
                   /\ k = "delivery" => evidence.remote = "pull_request"
              /\ evidence.result = "failed" => ~run.passed /\ run.stage = "over"
              /\ evidence.result = "interrupted" => run.late
              /\ Reaches(evidence.remote, run.remote)

\* No recovery pass pulls the directory from under a run that may still be
\* recorded: one goes away when its run returns, or after the grace period and
\* after the session gave the run up.
OnlyAbandonedCleaned ==
    [][\A i \in Ids :
          runs[i].directory /\ ~runs'[i].directory =>
              \/ runs'[i].stage = "returned" /\ runs[i].stage # "returned"
              \/ /\ runs[i].late
                 /\ sessions[runs[i].session].status # InFlight[runs[i].kind]]_vars

\* No session stays in flight: whatever happens to its run, its server or the
\* recovery passes, it ends as passed or failed.
InFlightEnds ==
    \A s \in Sessions, k \in Kinds :
        sessions[s].status = InFlight[k] ~> sessions[s].status # InFlight[k]
=============================================================================
