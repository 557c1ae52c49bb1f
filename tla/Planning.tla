------------------------------ MODULE Planning ------------------------------
(***************************************************************************)
(* Planning sessions (internal/planning): a requirement is clarified, a    *)
(* plan is built on a snapshot of the knowledge, the standards and the     *)
(* repository, five roles review it at the same time, a second person      *)
(* resolves what they left open, and a second person approves or rejects.  *)
(*                                                                         *)
(* A request copies the row, checks the copy, gathers a snapshot, calls    *)
(* the provider, and then compares and swaps on the revision of the copy;  *)
(* whatever it writes, it writes the whole copy.  A role review also runs  *)
(* as an agent task, which is executed again when the process that held it *)
(* lost its lease, whether or not the first execution is still at work.    *)
(*                                                                         *)
(* Texts are left out.  A snapshot is the moment it was taken at: world    *)
(* counts the changes of what gatherContext reads.  What the provider      *)
(* returns is a nondeterministic choice: it may cite any snapshot and the  *)
(* code refuses what does not cite the one it was given.                   *)
(***************************************************************************)
EXTENDS Naturals, Sequences, FiniteSets

CONSTANTS Sessions,    \* ids of sessions
          People,
          Admins,      \* people with the role knowledge_admin
          Approvers,   \* people with the role project_approver
          Roles,       \* the reviewing roles (five in the code)
          Items,       \* ids of decision items
          Tasks,       \* ids of role-review tasks
          None,
          MaxWorld,    \* bound: changes of knowledge, standards, repository
          MaxRequests, \* bound: requests under way that are not alike
          MaxClaims    \* bound: how often a task is claimed

ASSUME Constants ==
    /\ None \notin People \cup Tasks \cup Sessions \cup Nat
    /\ Admins \subseteq People /\ Approvers \subseteq People
    /\ Roles # {} /\ IsFiniteSet(Roles)
    /\ MaxWorld \in Nat /\ MaxRequests \in Nat /\ MaxClaims \in Nat

VARIABLES sessions,  \* the planning_sessions table
          log,       \* planning_session_events, a sequence per session
          requests,  \* requests under way; of those alike there may be many
          tasks,     \* the role-review rows of agent_tasks
          world      \* how often what gatherContext reads has changed

vars == <<sessions, log, requests, tasks, world>>

-----------------------------------------------------------------------------
(* Rows, events, requests, tasks.                                          *)

Worlds == 0..MaxWorld

Status == {"absent", "awaiting_clarification", "awaiting_role_review",
           "awaiting_resolution", "awaiting_approval", "approved", "rejected"}

\* context is the snapshot the plan was built on, plan the one it cites.
\* reviewed, reviewContext, cites and blocking are what the review cycle says,
\* items what its coordination left to people, resolved what they settled.
Session == [status: Status,
            revision: 0..5,
            createdBy: People \cup {None},
            context: Worlds \cup {None},
            plan: Worlds \cup {None},
            reviewed: SUBSET Roles,
            reviewContext: Worlds \cup {None},
            cites: SUBSET Worlds,
            items: SUBSET Items,
            resolved: SUBSET Items,
            resolvedBy: People \cup {None},
            reviewedBy: People \cup {None}]

NoSession == [status |-> "absent", revision |-> 0, createdBy |-> None,
              context |-> None, plan |-> None, reviewed |-> {},
              reviewContext |-> None, cites |-> {}, items |-> {},
              resolved |-> {}, resolvedBy |-> None, reviewedBy |-> None]

\* The type of the event of a rejection is spelt as the code spells it.
EventTypes == {"created", "clarifications_submitted", "role_reviews_completed",
               "review_decisions_resolved", "approved", "rejectd"}

Event == [sequence: 1..5, type: EventTypes, from: Status, to: Status, actor: People]

Operations == {"clarify", "review", "resolve", "decide"}

\* The status each operation asks for.
Asks == [clarify |-> "awaiting_clarification", review |-> "awaiting_role_review",
         resolve |-> "awaiting_resolution", decide |-> "awaiting_approval"]

\* row is the copy the request works on.  checked: it passed the checks; asking:
\* the provider is at work; ready: only the write is missing; stored and failed:
\* how it went, for the task that asked.
Request == [operation: Operations, session: Sessions, actor: People, row: Session,
            stage: {"checked", "asking", "ready", "stored", "failed"},
            context: Worlds \cup {None}, plan: Worlds \cup {None},
            returned: SUBSET Roles, failed: BOOLEAN,
            cites: SUBSET Worlds, items: SUBSET Items,
            task: Tasks \cup {None}, claim: 0..MaxClaims]

Task == [state: {"absent", "open", "completed", "failed"},
         session: Sessions \cup {None}, revision: 0..5,
         actor: People \cup {None}, claim: 0..MaxClaims]

NoTask == [state |-> "absent", session |-> None, revision |-> 0,
           actor |-> None, claim |-> 0]

Init ==
    /\ sessions = [s \in Sessions |-> NoSession]
    /\ log = [s \in Sessions |-> <<>>]
    /\ requests = {}
    /\ tasks = [t \in Tasks |-> NoTask]
    /\ world = 0

\* Somebody imports knowledge, publishes a standard or moves the repository.
WorldMoves ==
    /\ world < MaxWorld
    /\ world' = world + 1
    /\ UNCHANGED <<sessions, log, requests, tasks>>

-----------------------------------------------------------------------------
(* Asking.                                                                 *)

Governors == Admins \cup Approvers

\* Who may work on a session: its author, or somebody whose role overrides.
Participant(row, actor, override) == actor = row.createdBy \/ actor \in override

\* Who may settle it: somebody with a role for it, who is not the author.
Second(row, actor) == actor \in Governors /\ actor # row.createdBy

\* What a provider may answer: it may cite any snapshot, and may list any items.
Plans == Worlds
Reviews == Worlds
Coordinations == SUBSET Items

\* validatePlan: a plan cites nothing but the snapshot it is stored with.
ValidPlan(plan, context) == plan = context

\* validateRoleReview: a review cites nothing but the snapshot of its cycle.
ValidReview(review, context) == review = context

\* The snapshot is gathered, the questions are asked, and where there are none
\* the plan is built before the row is inserted.
Create(s, actor) ==
    /\ sessions[s].status = "absent"
    /\ \E context \in 0..world, plan \in Plans \cup {None} :
          LET to == IF plan = None THEN "awaiting_clarification"
                                   ELSE "awaiting_role_review"
          IN  /\ plan # None => ValidPlan(plan, context)
              /\ sessions' = [sessions EXCEPT ![s] =
                    [NoSession EXCEPT !.status = to, !.revision = 1,
                                      !.createdBy = actor, !.context = context,
                                      !.plan = plan]]
              /\ log' = [log EXCEPT ![s] =
                    <<[sequence |-> 1, type |-> "created", from |-> "absent",
                       to |-> to, actor |-> actor]>>]
    /\ UNCHANGED <<requests, tasks, world>>

\* What Store.Get returns shares nothing with the row.
Copy(s) == sessions[s]

\* A copy of the row and the checks on it.  The revision the caller names has to
\* be the one of the copy.
Begun(operation, s, actor, task, claim) ==
    [operation |-> operation, session |-> s, actor |-> actor, row |-> Copy(s),
     stage |-> IF operation \in {"clarify", "review"} THEN "checked" ELSE "ready",
     context |-> None, plan |-> None, returned |-> {}, failed |-> FALSE,
     cites |-> {}, items |-> {}, task |-> task, claim |-> claim]

Ask(operation, s, actor) ==
    /\ Cardinality(requests) < MaxRequests
    /\ sessions[s].status = Asks[operation]
    /\ requests' = requests \cup {Begun(operation, s, actor, None, 0)}
    /\ UNCHANGED <<sessions, log, tasks, world>>

\* The four handlers.
AskClarify(s, actor) ==
    Participant(sessions[s], actor, Admins) /\ Ask("clarify", s, actor)

AskReview(s, actor) ==
    Participant(sessions[s], actor, Governors) /\ Ask("review", s, actor)

AskResolve(s, actor) == Second(sessions[s], actor) /\ Ask("resolve", s, actor)

AskDecide(s, actor) == Second(sessions[s], actor) /\ Ask("decide", s, actor)

\* A task is created for the revision that its handler read, perhaps a while ago.
CreateTask(t, s, actor) ==
    /\ tasks[t].state = "absent"
    /\ sessions[s].status # "absent"
    /\ Participant(sessions[s], actor, Governors)
    /\ \E event \in {log[s][i] : i \in DOMAIN log[s]} :
          /\ event.to = "awaiting_role_review"
          /\ tasks' = [tasks EXCEPT ![t] =
                         [state |-> "open", session |-> s, revision |-> event.sequence,
                          actor |-> actor, claim |-> 0]]
    /\ UNCHANGED <<sessions, log, requests, world>>

\* A worker claims the task, or takes it over, and calls SubmitRoleReviews, which
\* copies the row and checks it.
Execute(t) ==
    LET task == tasks[t]
        row == sessions[task.session]
        begun == Begun("review", task.session, task.actor, t, task.claim + 1)
    IN  /\ Cardinality(requests) < MaxRequests
        /\ task.state = "open" /\ task.claim < MaxClaims
        /\ tasks' = [tasks EXCEPT ![t] = [@ EXCEPT !.claim = task.claim + 1]]
        /\ requests' = requests \cup
              {IF row.status = "awaiting_role_review" /\ row.revision = task.revision
               THEN begun ELSE [begun EXCEPT !.stage = "failed"]}
        /\ UNCHANGED <<sessions, log, world>>

-----------------------------------------------------------------------------
(* Working on a copy.                                                      *)

Becomes(q, next) == requests' = (requests \ {q}) \cup {next}

\* gatherContext takes the snapshot the provider is given.
Gather(q) ==
    /\ q.stage = "checked"
    /\ Becomes(q, [q EXCEPT !.context = world, !.stage = "asking"])
    /\ UNCHANGED <<sessions, log, tasks, world>>

BuildPlan(q) ==
    /\ q.operation = "clarify" /\ q.stage = "asking"
    /\ \E plan \in Plans :
          /\ ValidPlan(plan, q.context)
          /\ Becomes(q, [q EXCEPT !.plan = plan, !.stage = "ready"])
    /\ UNCHANGED <<sessions, log, tasks, world>>

\* One of the goroutines of SubmitRoleReviews ends, with a review or an error.
\* The first error cancels the others, which may be past caring.  An invalid
\* review is an error, though one that is found after the wait for all of them.
RoleReturns(q, role) ==
    /\ q.operation = "review" /\ q.stage = "asking"
    /\ role \notin q.returned
    /\ \/ \E review \in Reviews :
             /\ ValidReview(review, q.context)
             /\ Becomes(q, [q EXCEPT !.returned = @ \cup {role},
                                     !.cites = @ \cup {review}])
       \/ Becomes(q, [q EXCEPT !.returned = @ \cup {role}, !.failed = TRUE])
    /\ UNCHANGED <<sessions, log, tasks, world>>

Coordinate_Quorum(q) ==
    /\ q.operation = "review" /\ q.stage = "asking"
    /\ q.returned # {} /\ ~q.failed
    /\ \E items \in Coordinations :
          Becomes(q, [q EXCEPT !.stage = "ready", !.items = items])
    /\ UNCHANGED <<sessions, log, tasks, world>>

\* After the wait for all of them the coordinator lists what people are to decide,
\* as it sees fit.
Coordinate(q) ==
    /\ q.operation = "review" /\ q.stage = "asking"
    /\ q.returned = Roles /\ ~q.failed
    /\ \E items \in Coordinations :
          Becomes(q, [q EXCEPT !.stage = "ready", !.items = items])
    /\ UNCHANGED <<sessions, log, tasks, world>>

\* One of the requests that are alike ends, and it may be the last; an execution
\* of a task is like no other, and its worker has yet to say how it went.
Ended(q, row, outcome) ==
    IF q.task = None THEN requests' \in {requests, requests \ {q}}
                     ELSE Becomes(q, [q EXCEPT !.stage = outcome, !.row = row])

\* The provider fails, its answer is invalid, a role failed, the store fails, or
\* somebody wrote first.
Fail(q) ==
    /\ q.stage \notin {"stored", "failed"}
    /\ IF q.task = None THEN requests' = requests \ {q}
                        ELSE Becomes(q, [q EXCEPT !.stage = "failed"])
    /\ UNCHANGED <<sessions, log, tasks, world>>

\* The process exits.
Crash(q) ==
    /\ requests' = requests \ {q}
    /\ UNCHANGED <<sessions, log, tasks, world>>

-----------------------------------------------------------------------------
(* Writing.                                                                *)

Unchanged_Ignored(q) == TRUE

\* The compare-and-swap of Store.Update.
Unchanged(q) == sessions[q.session].revision = q.row.revision

Write_Twice(q, row, type) ==
    /\ q.stage = "ready"
    /\ Unchanged(q)
    /\ sessions' = [sessions EXCEPT ![q.session] =
                      [row EXCEPT !.revision = q.row.revision + 2]]
    /\ log' = [log EXCEPT ![q.session] =
                 Append(@, [sequence |-> q.row.revision + 1, type |-> type,
                            from |-> q.row.status, to |-> row.status,
                            actor |-> q.actor])]
    /\ \E outcome \in {"stored", "failed"} : Ended(q, row, outcome)
    /\ UNCHANGED <<tasks, world>>

\* The copy becomes the row, and the event tells of the copy.  The caller may be
\* told that it failed all the same.
Write(q, row, type) ==
    /\ q.stage = "ready"
    /\ Unchanged(q)
    /\ sessions' = [sessions EXCEPT ![q.session] =
                      [row EXCEPT !.revision = q.row.revision + 1]]
    /\ log' = [log EXCEPT ![q.session] =
                 Append(@, [sequence |-> q.row.revision + 1, type |-> type,
                            from |-> q.row.status, to |-> row.status,
                            actor |-> q.actor])]
    /\ \E outcome \in {"stored", "failed"} : Ended(q, row, outcome)
    /\ UNCHANGED <<tasks, world>>

SubmitClarifications(q) ==
    /\ q.operation = "clarify"
    /\ Write(q, [q.row EXCEPT !.status = "awaiting_role_review", !.plan = q.plan,
                              !.context = q.context],
             "clarifications_submitted")

SubmitRoleReviews(q) ==
    /\ q.operation = "review"
    /\ Write(q, [q.row EXCEPT !.status = IF q.items = {} THEN "awaiting_approval"
                                                             ELSE "awaiting_resolution",
                              !.reviewed = q.returned, !.reviewContext = q.context,
                              !.cites = q.cites, !.items = q.items],
             "role_reviews_completed")

\* validateResolutions: one for each item that is open, and no other.
Complete(resolutions, row) == resolutions = row.items /\ resolutions # {}

ResolveReviewDecisions(q) ==
    /\ q.operation = "resolve"
    /\ \E resolutions \in SUBSET Items :
          /\ Complete(resolutions, q.row)
          /\ Write(q, [q.row EXCEPT !.status = "awaiting_approval",
                                    !.resolved = resolutions, !.resolvedBy = q.actor],
                   "review_decisions_resolved")

Decide(q) ==
    /\ q.operation = "decide"
    /\ \E decision \in {"approved", "rejected"} :
          Write(q, [q.row EXCEPT !.status = decision, !.reviewedBy = q.actor],
                IF decision = "approved" THEN "approved" ELSE "rejectd")

Report_Optimistic(q) ==
    /\ q.stage \in {"stored", "failed"}
    /\ tasks' = IF tasks[q.task].claim = q.claim /\ tasks[q.task].state = "open"
                THEN [tasks EXCEPT ![q.task] = [@ EXCEPT !.state = "completed"]]
                ELSE tasks
    /\ requests' = requests \ {q}
    /\ UNCHANGED <<sessions, log, world>>

\* agentquality.RoleReview, on the session the executor returned.
Passes(row) ==
    /\ row.status \in {"awaiting_resolution", "awaiting_approval"}
    /\ row.reviewed = Roles /\ row.reviewContext # None

\* The worker settles the task, unless another has claimed it since.
Report(q) ==
    /\ q.stage \in {"stored", "failed"}
    /\ tasks' = IF tasks[q.task].claim = q.claim /\ tasks[q.task].state = "open"
                THEN [tasks EXCEPT ![q.task] = [@ EXCEPT !.state =
                        IF q.stage = "stored" /\ Passes(q.row) THEN "completed"
                                                             ELSE "failed"]]
                ELSE tasks
    /\ requests' = requests \ {q}
    /\ UNCHANGED <<sessions, log, world>>

-----------------------------------------------------------------------------

Next ==
    \/ WorldMoves
    \/ \E s \in Sessions, actor \in People : Create(s, actor)
    \/ \E s \in Sessions, actor \in People :
          \/ AskClarify(s, actor) \/ AskReview(s, actor)
          \/ AskResolve(s, actor) \/ AskDecide(s, actor)
    \/ \E t \in Tasks, s \in Sessions, actor \in People : CreateTask(t, s, actor)
    \/ \E t \in Tasks : Execute(t)
    \/ \E q \in requests, role \in Roles : RoleReturns(q, role)
    \/ \E q \in requests : \/ Gather(q) \/ BuildPlan(q) \/ Coordinate(q) \/ Fail(q) \/ Crash(q)
                           \/ SubmitClarifications(q) \/ SubmitRoleReviews(q)
                           \/ ResolveReviewDecisions(q) \/ Decide(q) \/ Report(q)

Spec == Init /\ [][Next]_vars

-----------------------------------------------------------------------------
(* Properties.                                                             *)

\* Every part of the state is of its kind.  The bound of a revision is a claim:
\* no session is ever written more than five times.
TypeOK ==
    /\ sessions \in [Sessions -> Session]
    /\ log \in [Sessions -> Seq(Event)]
    /\ requests \subseteq Request
    /\ tasks \in [Tasks -> Task]
    /\ world \in Worlds

\* The workflow of planning/MULTI_ROLE_REVIEW_PROTOCOL.md:20 to :28.
Workflow ==
    {<<"absent", "awaiting_clarification">>, <<"absent", "awaiting_role_review">>,
     <<"awaiting_clarification", "awaiting_role_review">>,
     <<"awaiting_role_review", "awaiting_resolution">>,
     <<"awaiting_role_review", "awaiting_approval">>,
     <<"awaiting_resolution", "awaiting_approval">>,
     <<"awaiting_approval", "approved">>, <<"awaiting_approval", "rejected">>}

Audit == INSTANCE RevisionLog
    WITH Rows <- Sessions, Moves <- Workflow,
         status <- [s \in Sessions |-> sessions[s].status],
         revision <- [s \in Sessions |-> sessions[s].revision],
         history <- log

\* Sessions and their events are a revision log: one event for each write, made of
\* the status that was really left, in the order of the workflow, however many
\* requests and executions of tasks work on copies of one row (Store.Update).
ImplementsRevisionLog == Audit!Spec

\* What was stored is never replaced: not the plan, not the review it got, not a
\* resolution, and a decided session not at all, though every writer writes a
\* whole copy it made before it called the provider.
NothingReplaced ==
    [][\A s \in Sessions :
          LET old == sessions[s]
              new == sessions'[s]
          IN  /\ old.plan # None => new.plan = old.plan /\ new.context = old.context
              /\ old.reviewed # {} =>
                   /\ new.reviewed = old.reviewed /\ new.items = old.items
                   /\ new.reviewContext = old.reviewContext
              /\ old.resolvedBy # None => /\ new.resolvedBy = old.resolvedBy
                                         /\ new.resolved = old.resolved
              /\ old.reviewedBy # None => new = old]_vars

\* A session is decided only with a plan that cites the snapshot stored beside it,
\* after every role reviewed it, all of them on one snapshot that is no older
\* than the plan's and citing that one alone, after somebody other than the
\* author resolved every item that was open, and by somebody other than the
\* author (the preconditions of planning/PROJECT_PACKAGE_STANDARD.md:13).
DecidedAsReviewed ==
    \A s \in Sessions :
        LET row == sessions[s]
        IN  row.status \in {"approved", "rejected"} =>
              /\ row.plan = row.context /\ row.reviewed = Roles
              /\ row.reviewContext >= row.context
              /\ row.cites = {row.reviewContext}
              /\ row.resolved = row.items
              /\ row.items # {} => row.resolvedBy \in Governors \ {row.createdBy}
              /\ row.reviewedBy \in Governors \ {row.createdBy}

\* A completed role-review task stands for a review that is in the log, made for
\* the revision it names in the name of its actor: never for one somebody else
\* stored first, though the task may have been executed twice.
TaskTruthful ==
    \A t \in Tasks :
        tasks[t].state = "completed" =>
            LET events == log[tasks[t].session]
                sequence == tasks[t].revision + 1
            IN  /\ Len(events) >= sequence
                /\ events[sequence].type = "role_reviews_completed"
                /\ events[sequence].actor = tasks[t].actor
=============================================================================
