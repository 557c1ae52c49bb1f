--------------------------- MODULE PlanningProofs ---------------------------
(***************************************************************************)
(* What holds of Planning for any number of sessions, people, roles,       *)
(* items, tasks, requests and changes of the knowledge.                    *)
(*                                                                         *)
(* The argument: a request that works on a copy of an old revision cannot  *)
(* write, so whoever writes has a copy of the row as it is (InHand); a row *)
(* holds what its status says it holds (Row); and an execution of a task   *)
(* that says stored knows which event it stored (Told).                    *)
(***************************************************************************)
EXTENDS Planning, TLAPS

Early == {"absent", "awaiting_clarification"}
BeforeReview == Early \cup {"awaiting_role_review"}
BeforeSettled == BeforeReview \cup {"awaiting_resolution"}
Decided == {"approved", "rejected"}

\* How often a row can have been written when it has its status.
Paced(row) ==
    /\ row.status = "absent" => row.revision = 0
    /\ row.status = "awaiting_clarification" => row.revision = 1
    /\ row.status = "awaiting_role_review" => row.revision \in {1, 2}
    /\ row.status = "awaiting_resolution" => row.revision \in {2, 3}
    /\ row.status = "awaiting_approval" => row.revision \in {2, 3, 4}
    /\ row.status \in Decided => row.revision \in {3, 4, 5}

Planned(row) ==
    /\ row.status \in Early => row.plan = None
    /\ row.status \notin Early => row.plan = row.context
    /\ row.status # "absent" => row.context \in Worlds

Reviewed(row) ==
    IF row.status \in BeforeReview
    THEN row.reviewed = {} /\ row.items = {}
    ELSE /\ row.reviewed = Roles /\ row.cites = {row.reviewContext}
         /\ row.reviewContext \in Worlds /\ row.reviewContext >= row.context

Settled(row) ==
    /\ IF row.status \in BeforeSettled
       THEN row.resolvedBy = None /\ row.resolved = {}
       ELSE /\ row.resolved = row.items
            /\ row.items # {} => row.resolvedBy \in Governors \ {row.createdBy}
    /\ IF row.status \in Decided THEN row.reviewedBy \in Governors \ {row.createdBy}
                                 ELSE row.reviewedBy = None

RowOK(row) == Paced(row) /\ Planned(row) /\ Reviewed(row) /\ Settled(row)

\* No snapshot is of a time to come.
Past(context) == context # None => context <= world

Working(q) == q.stage \in {"checked", "asking", "ready"}

\* The copy is of the kind the operation asks for, and as long as nobody else has
\* written it is the row.
InHand(q) ==
    Working(q) =>
        /\ q.row.status = Asks[q.operation]
        /\ q.row.revision <= sessions[q.session].revision
        /\ q.row.revision = sessions[q.session].revision => q.row = sessions[q.session]
        /\ q.operation \in {"resolve", "decide"} => Second(q.row, q.actor)

\* What the provider has returned so far.
Progress(q) ==
    /\ Working(q) => q.row.context \in Worlds /\ q.row.context <= world
    /\ q.stage = "checked" => /\ q.operation \in {"clarify", "review"}
                              /\ q.returned = {} /\ q.cites = {}
    /\ q.stage = "asking" => q.operation \in {"clarify", "review"}
    /\ Working(q) /\ q.stage # "checked" /\ q.operation \in {"clarify", "review"} =>
          /\ q.context \in Worlds /\ q.context <= world
          /\ q.context >= q.row.context
          /\ q.cites \subseteq {q.context}
          /\ ~q.failed /\ q.returned # {} => q.cites = {q.context}
    /\ q.stage = "ready" /\ q.operation = "clarify" => q.plan = q.context
    /\ q.stage = "ready" /\ q.operation = "review" => q.returned = Roles /\ ~q.failed

\* The review of a revision is in the log in the name of who asked for it.
Stands(s, revision, actor) ==
    /\ Len(log[s]) >= revision + 1
    /\ log[s][revision + 1].type = "role_reviews_completed"
    /\ log[s][revision + 1].actor = actor

Told(q) ==
    /\ q.stage \in {"stored", "failed"} => q.task \in Tasks
    /\ q.task \in Tasks =>
          /\ q.operation = "review"
          /\ tasks[q.task].state # "absent"
          /\ tasks[q.task].session = q.session /\ tasks[q.task].actor = q.actor
          /\ Working(q) => q.row.revision = tasks[q.task].revision
          /\ q.stage = "stored" => Stands(q.session, tasks[q.task].revision, q.actor)

RowsOK == \A s \in Sessions : RowOK(sessions[s]) /\ Past(sessions[s].context)
LogsOK == \A s \in Sessions : Len(log[s]) = sessions[s].revision
RequestsOK == \A q \in requests : InHand(q) /\ Progress(q) /\ Told(q)
TasksOK == \A t \in Tasks : tasks[t].state # "absent" =>
              tasks[t].session \in Sessions /\ tasks[t].actor \in People

IInv == TypeOK /\ RowsOK /\ LogsOK /\ RequestsOK /\ TasksOK /\ TaskTruthful

-----------------------------------------------------------------------------

LEMMA NoSessionOK == NoSession \in Session /\ RowOK(NoSession)
  BY Constants DEF NoSession, Session, RowOK, Paced, Planned, Reviewed, Settled,
                   Early, BeforeReview, BeforeSettled, Decided, Status

LEMMA InitInvariant == Init => IInv
  <1> SUFFICES ASSUME Init PROVE IInv
    OBVIOUS
  <1>1. TypeOK
    BY NoSessionOK, Constants DEF Init, TypeOK, NoTask, Task, Worlds
  <1>2. RowsOK /\ LogsOK
    BY NoSessionOK DEF Init, RowsOK, LogsOK, NoSession, Past
  <1>3. RequestsOK /\ TasksOK /\ TaskTruthful
    BY DEF Init, RequestsOK, TasksOK, TaskTruthful, NoTask
  <1> QED
    BY <1>1, <1>2, <1>3 DEF IInv

LEMMA WorldInvariant == IInv /\ WorldMoves => IInv'
  <1> SUFFICES ASSUME IInv, WorldMoves PROVE IInv'
    OBVIOUS
  <1>1. world \in Nat /\ world' = world + 1 /\ world' \in Worlds
    BY Constants DEF WorldMoves, IInv, TypeOK, Worlds
  <1>2. TypeOK'
    BY <1>1 DEF WorldMoves, IInv, TypeOK
  <1>3. RowsOK'
    <2>1. ASSUME NEW s \in Sessions PROVE RowOK(sessions[s]) /\ Past(sessions[s].context)'
      <3>1. sessions[s].context \in Nat \cup {None}
        BY Constants DEF IInv, TypeOK, Session, Worlds
      <3> QED
        BY <1>1, <3>1 DEF WorldMoves, IInv, RowsOK, Past
    <2> QED
      BY <2>1 DEF WorldMoves, RowsOK, RowOK, Paced, Planned, Reviewed, Settled
  <1>4. RequestsOK'
    <2>1. ASSUME NEW q \in requests PROVE (InHand(q) /\ Progress(q) /\ Told(q))'
      <3>1. (InHand(q) /\ Told(q))'
        BY DEF WorldMoves, IInv, RequestsOK, InHand, Told, Stands
      <3>2. Progress(q)'
        BY <1>1 DEF WorldMoves, IInv, RequestsOK, Progress, Worlds, Working
      <3> QED
        BY <3>1, <3>2
    <2> QED
      BY <2>1 DEF WorldMoves, RequestsOK
  <1>5. LogsOK' /\ TasksOK' /\ TaskTruthful'
    BY DEF WorldMoves, IInv, LogsOK, TasksOK, TaskTruthful
  <1> QED
    BY <1>2, <1>3, <1>4, <1>5 DEF IInv

-----------------------------------------------------------------------------
(* Steps that write no row: it is enough that the request they leave, if any, *)
(* is as it should be.                                                     *)

LEMMA RequestStep ==
    ASSUME IInv, UNCHANGED <<sessions, log, tasks, world>>,
           NEW q \in Request, InHand(q), Progress(q), Told(q),
           requests' \subseteq requests \cup {q}
    PROVE  IInv'
  <1>1. TypeOK' /\ LogsOK' /\ TasksOK' /\ TaskTruthful'
    BY DEF IInv, TypeOK, LogsOK, TasksOK, TaskTruthful
  <1>2. RowsOK'
    BY DEF IInv, RowsOK, RowOK, Paced, Planned, Reviewed, Settled, Past
  <1>3. RequestsOK'
    <2>1. ASSUME NEW p \in requests' PROVE (InHand(p) /\ Progress(p) /\ Told(p))'
      <3>1. InHand(p) /\ Progress(p) /\ Told(p)
        BY <2>1 DEF IInv, RequestsOK
      <3> QED
        BY <3>1 DEF InHand, Progress, Told, Stands
    <2> QED
      BY <2>1 DEF RequestsOK
  <1> QED
    BY <1>1, <1>2, <1>3 DEF IInv

\* A request that has just begun has the row in hand.
LEMMA BegunFields ==
    ASSUME NEW operation \in Operations, NEW s \in Sessions, NEW actor \in People,
           NEW task \in Tasks \cup {None}, NEW claim \in 0..MaxClaims
    PROVE  LET q == Begun(operation, s, actor, task, claim)
           IN  /\ q.operation = operation /\ q.session = s /\ q.actor = actor
               /\ q.row = sessions[s] /\ q.task = task
               /\ q.stage \in {"checked", "ready"}
               /\ q.stage = "checked" <=> operation \in {"clarify", "review"}
               /\ q.returned = {} /\ q.cites = {}
  BY DEF Begun, Copy

LEMMA BegunType ==
    ASSUME TypeOK, NEW operation \in Operations, NEW s \in Sessions, NEW actor \in People,
           NEW task \in Tasks \cup {None}, NEW claim \in 0..MaxClaims
    PROVE  Begun(operation, s, actor, task, claim) \in Request
  <1>1. sessions[s] \in Session
    BY DEF TypeOK
  <1> QED
    BY <1>1 DEF Begun, Copy, Request

LEMMA AskInvariant ==
    ASSUME IInv, NEW operation \in Operations, NEW s \in Sessions, NEW actor \in People,
           Ask(operation, s, actor),
           operation \in {"resolve", "decide"} => Second(sessions[s], actor)
    PROVE  IInv'
  <1> DEFINE q == Begun(operation, s, actor, None, 0)
  <1>1. q \in Request
    BY BegunType, Constants DEF IInv
  <1>2. /\ q.operation = operation /\ q.session = s /\ q.actor = actor
        /\ q.row = sessions[s] /\ q.task = None /\ q.stage \in {"checked", "ready"}
        /\ q.stage = "checked" <=> operation \in {"clarify", "review"}
        /\ q.returned = {} /\ q.cites = {}
    BY BegunFields, Constants
  <1>3. requests' = requests \cup {q} /\ sessions[s].status = Asks[operation]
    BY DEF Ask
  <1> HIDE DEF q
  <1>4. InHand(q)
    BY <1>1, <1>2, <1>3 DEF InHand, Request, Session
  <1>5. sessions[s].context \in Worlds /\ sessions[s].context <= world
    BY <1>3, Constants DEF IInv, RowsOK, RowOK, Planned, Past, Asks, Operations, Worlds
  <1>6. Progress(q)
    BY <1>2, <1>5 DEF Progress
  <1>7. Told(q)
    BY <1>2, Constants DEF Told
  <1> QED
    BY <1>1, <1>3, <1>4, <1>6, <1>7, RequestStep DEF Ask

LEMMA GatherInvariant ==
    ASSUME IInv, NEW q \in requests, Gather(q)
    PROVE  IInv'
  <1> DEFINE next == [q EXCEPT !.context = world, !.stage = "asking"]
  <1>1. q \in Request /\ InHand(q) /\ Progress(q) /\ Told(q) /\ world \in Worlds
    BY DEF IInv, TypeOK, RequestsOK
  <1>2. /\ next \in Request /\ next.context = world /\ next.stage = "asking"
        /\ next.operation = q.operation /\ next.session = q.session
        /\ next.actor = q.actor /\ next.row = q.row /\ next.task = q.task
        /\ next.returned = q.returned /\ next.cites = q.cites
    BY <1>1 DEF Request
  <1>3. q.stage = "checked" /\ requests' = (requests \ {q}) \cup {next}
    BY DEF Gather, Becomes
  <1> HIDE DEF next
  <1>4. InHand(next) /\ Told(next)
    BY <1>1, <1>2, <1>3 DEF InHand, Told, Working
  <1>5. Progress(next)
    BY <1>1, <1>2, <1>3, Constants DEF Progress, Working, Worlds
  <1> QED
    BY <1>2, <1>3, <1>4, <1>5, RequestStep DEF Gather

LEMMA BuildPlanInvariant ==
    ASSUME IInv, NEW q \in requests, BuildPlan(q)
    PROVE  IInv'
  <1>1. PICK plan \in Plans :
           /\ plan = q.context
           /\ requests' = (requests \ {q}) \cup {[q EXCEPT !.plan = plan, !.stage = "ready"]}
    BY DEF BuildPlan, Becomes, ValidPlan
  <1> DEFINE next == [q EXCEPT !.plan = plan, !.stage = "ready"]
  <1>2. q \in Request /\ InHand(q) /\ Progress(q) /\ Told(q)
    BY DEF IInv, TypeOK, RequestsOK
  <1>3. /\ next \in Request /\ next.context = q.context /\ next.stage = "ready"
        /\ next.operation = q.operation /\ next.session = q.session
        /\ next.actor = q.actor /\ next.row = q.row /\ next.task = q.task
        /\ next.returned = q.returned /\ next.cites = q.cites /\ next.plan = plan
        /\ next.failed = q.failed
    BY <1>2 DEF Request, Plans
  <1>4. q.stage = "asking" /\ q.operation = "clarify"
    BY DEF BuildPlan
  <1>5. requests' \subseteq requests \cup {next}
    BY <1>1
  <1> HIDE DEF next
  <1>6. InHand(next) /\ Told(next)
    BY <1>2, <1>3, <1>4 DEF InHand, Told, Working
  <1>7. Progress(next)
    BY <1>1, <1>2, <1>3, <1>4 DEF Progress, Working
  <1> QED
    BY <1>3, <1>5, <1>6, <1>7, RequestStep DEF BuildPlan

LEMMA RoleReturnsInvariant ==
    ASSUME IInv, NEW q \in requests, NEW role \in Roles, RoleReturns(q, role)
    PROVE  IInv'
  <1>1. q \in Request /\ InHand(q) /\ Progress(q) /\ Told(q)
    BY DEF IInv, TypeOK, RequestsOK
  <1>2. q.stage = "asking" /\ q.operation = "review" /\ q.context \in Worlds
    BY <1>1 DEF RoleReturns, Progress, Working
  <1> DEFINE good == [q EXCEPT !.returned = q.returned \cup {role},
                               !.cites = q.cites \cup {q.context}]
             bad == [q EXCEPT !.returned = q.returned \cup {role}, !.failed = TRUE]
  <1>3. \/ requests' = (requests \ {q}) \cup {good}
        \/ requests' = (requests \ {q}) \cup {bad}
    BY DEF RoleReturns, Becomes, ValidReview
  <1>4. CASE requests' = (requests \ {q}) \cup {good}
    <2>1. /\ good \in Request /\ good.context = q.context /\ good.stage = q.stage
          /\ good.operation = q.operation /\ good.session = q.session
          /\ good.actor = q.actor /\ good.row = q.row /\ good.task = q.task
          /\ good.cites = q.cites \cup {q.context}
      BY <1>1, <1>2 DEF Request
    <2> HIDE DEF good
    <2>2. InHand(good) /\ Told(good)
      BY <1>1, <1>2, <2>1 DEF InHand, Told, Working
    <2>3. Progress(good)
      BY <1>1, <1>2, <2>1 DEF Progress, Working
    <2> QED
      BY <1>4, <2>1, <2>2, <2>3, RequestStep DEF RoleReturns
  <1>5. CASE requests' = (requests \ {q}) \cup {bad}
    <2>1. /\ bad \in Request /\ bad.context = q.context /\ bad.stage = q.stage
          /\ bad.operation = q.operation /\ bad.session = q.session
          /\ bad.actor = q.actor /\ bad.row = q.row /\ bad.task = q.task
          /\ bad.cites = q.cites /\ bad.failed
      BY <1>1 DEF Request
    <2> HIDE DEF bad
    <2>2. InHand(bad) /\ Told(bad)
      BY <1>1, <1>2, <2>1 DEF InHand, Told, Working
    <2>3. Progress(bad)
      BY <1>1, <1>2, <2>1 DEF Progress, Working
    <2> QED
      BY <1>5, <2>1, <2>2, <2>3, RequestStep DEF RoleReturns
  <1> QED
    BY <1>3, <1>4, <1>5

LEMMA CoordinateInvariant ==
    ASSUME IInv, NEW q \in requests, Coordinate(q)
    PROVE  IInv'
  <1>1. PICK items \in SUBSET Items :
           requests' = (requests \ {q}) \cup {[q EXCEPT !.stage = "ready", !.items = items]}
    BY DEF Coordinate, Becomes, Coordinations
  <1> DEFINE next == [q EXCEPT !.stage = "ready", !.items = items]
  <1>2. q \in Request /\ InHand(q) /\ Progress(q) /\ Told(q)
    BY DEF IInv, TypeOK, RequestsOK
  <1>3. /\ next \in Request /\ next.context = q.context /\ next.stage = "ready"
        /\ next.operation = q.operation /\ next.session = q.session
        /\ next.actor = q.actor /\ next.row = q.row /\ next.task = q.task
        /\ next.returned = q.returned /\ next.cites = q.cites
        /\ next.failed = q.failed
    BY <1>2 DEF Request
  <1>4. /\ q.stage = "asking" /\ q.operation = "review" /\ q.returned = Roles
        /\ ~q.failed
    BY DEF Coordinate
  <1>5. requests' \subseteq requests \cup {next}
    BY <1>1
  <1> HIDE DEF next
  <1>6. InHand(next) /\ Told(next)
    BY <1>2, <1>3, <1>4 DEF InHand, Told, Working
  <1>7. Progress(next)
    BY <1>2, <1>3, <1>4 DEF Progress, Working
  <1> QED
    BY <1>3, <1>5, <1>6, <1>7, RequestStep DEF Coordinate

LEMMA FailInvariant ==
    ASSUME IInv, NEW q \in requests, Fail(q)
    PROVE  IInv'
  <1> DEFINE next == [q EXCEPT !.stage = "failed"]
  <1>1. q \in Request /\ InHand(q) /\ Progress(q) /\ Told(q)
    BY DEF IInv, TypeOK, RequestsOK
  <1>2. CASE q.task = None
    BY <1>1, <1>2, RequestStep DEF Fail
  <1>3. CASE q.task # None
    <2>1. q.task \in Tasks
      BY <1>1, <1>3 DEF Request
    <2>2. /\ next \in Request /\ next.stage = "failed"
          /\ next.operation = q.operation /\ next.session = q.session
          /\ next.actor = q.actor /\ next.task = q.task
      BY <1>1 DEF Request
    <2>3. requests' \subseteq requests \cup {next}
      BY <1>3 DEF Fail, Becomes
    <2> HIDE DEF next
    <2>4. InHand(next) /\ Told(next) /\ Progress(next)
      BY <1>1, <2>1, <2>2 DEF InHand, Told, Progress, Working
    <2> QED
      BY <2>2, <2>3, <2>4, RequestStep DEF Fail
  <1> QED
    BY <1>2, <1>3

LEMMA CrashInvariant ==
    ASSUME IInv, NEW q \in requests, Crash(q)
    PROVE  IInv'
  <1>1. q \in Request /\ InHand(q) /\ Progress(q) /\ Told(q)
    BY DEF IInv, TypeOK, RequestsOK
  <1> QED
    BY <1>1, RequestStep DEF Crash

-----------------------------------------------------------------------------
(* Steps that write tasks.                                                 *)

LEMMA CreateTaskInvariant ==
    ASSUME IInv, NEW t \in Tasks, NEW s \in Sessions, NEW actor \in People,
           CreateTask(t, s, actor)
    PROVE  IInv'
  <1>1. PICK event \in {log[s][i] : i \in DOMAIN log[s]} :
           tasks' = [tasks EXCEPT ![t] =
                       [state |-> "open", session |-> s, revision |-> event.sequence,
                        actor |-> actor, claim |-> 0]]
    BY DEF CreateTask
  <1> DEFINE new == [state |-> "open", session |-> s, revision |-> event.sequence,
                     actor |-> actor, claim |-> 0]
  <1>2. event.sequence \in 0..5
    <2>1. event \in Event
      BY DEF IInv, TypeOK
    <2> QED
      BY <2>1 DEF Event
  <1>3. /\ new \in Task /\ new.state = "open" /\ new.session = s /\ new.actor = actor
        /\ tasks[t].state = "absent"
    BY <1>2, Constants DEF Task, CreateTask
  <1>4. tasks' = [tasks EXCEPT ![t] = new] /\ tasks \in [Tasks -> Task]
    BY <1>1 DEF IInv, TypeOK
  <1> HIDE DEF new
  <1>5. TypeOK'
    BY <1>3, <1>4 DEF CreateTask, IInv, TypeOK
  <1>6. TasksOK' /\ TaskTruthful'
    BY <1>3, <1>4 DEF CreateTask, IInv, TasksOK, TaskTruthful
  <1>7. RequestsOK'
    <2>1. ASSUME NEW q \in requests PROVE (InHand(q) /\ Progress(q) /\ Told(q))'
      <3>1. InHand(q) /\ Progress(q) /\ Told(q)
        BY DEF IInv, RequestsOK
      <3>2. (InHand(q) /\ Progress(q))'
        BY <3>1 DEF CreateTask, InHand, Progress
      <3>3. Told(q)'
        BY <1>3, <1>4, <3>1 DEF CreateTask, Told, Stands
      <3> QED
        BY <3>2, <3>3
    <2> QED
      BY <2>1 DEF CreateTask, RequestsOK
  <1>8. RowsOK' /\ LogsOK'
    BY DEF CreateTask, IInv, RowsOK, LogsOK, RowOK, Paced, Planned, Reviewed, Settled, Past
  <1> QED
    BY <1>5, <1>6, <1>7, <1>8 DEF IInv

\* What is known of a request stays known when a task changes only its claim.
LEMMA ExecuteInvariant ==
    ASSUME IInv, NEW t \in Tasks, Execute(t)
    PROVE  IInv'
  <1> DEFINE task == tasks[t]
             row == sessions[task.session]
             begun == Begun("review", task.session, task.actor, t, task.claim + 1)
             late == [begun EXCEPT !.stage = "failed"]
             claimed == [task EXCEPT !.claim = task.claim + 1]
  <1>1. /\ task \in Task /\ task.state = "open" /\ task.claim + 1 \in 0..MaxClaims
        /\ task.session \in Sessions /\ task.actor \in People
    BY Constants DEF Execute, IInv, TypeOK, Task, TasksOK
  <1>2. /\ claimed \in Task /\ claimed.state = "open" /\ claimed.session = task.session
        /\ claimed.actor = task.actor /\ claimed.revision = task.revision
    BY <1>1 DEF Task
  <1>3. tasks' = [tasks EXCEPT ![t] = claimed]
    BY DEF Execute
  <1>4. PICK new :
           /\ requests' = requests \cup {new}
           /\ \/ new = begun /\ row.status = "awaiting_role_review"
                 /\ row.revision = task.revision
              \/ new = late
    BY DEF Execute
  <1>5. begun \in Request
    BY <1>1, BegunType DEF IInv, Operations
  <1>6. /\ begun.operation = "review" /\ begun.session = task.session
        /\ begun.actor = task.actor /\ begun.row = row /\ begun.task = t
        /\ begun.stage = "checked" /\ begun.returned = {} /\ begun.cites = {}
    BY <1>1, BegunFields DEF Operations
  <1>7. /\ late \in Request /\ late.operation = "review" /\ late.session = task.session
        /\ late.actor = task.actor /\ late.task = t /\ late.stage = "failed"
    BY <1>5, <1>6 DEF Request
  <1> HIDE DEF begun, late, claimed
  <1>8. TypeOK'
    <2>1. requests' \subseteq Request
      BY <1>4, <1>5, <1>7 DEF IInv, TypeOK
    <2>2. tasks' \in [Tasks -> Task]
      BY <1>2, <1>3 DEF IInv, TypeOK
    <2> QED
      BY <2>1, <2>2 DEF Execute, IInv, TypeOK
  <1>9. TasksOK' /\ TaskTruthful'
    BY <1>1, <1>2, <1>3 DEF Execute, IInv, TypeOK, TasksOK, TaskTruthful
  <1>10. RequestsOK'
    <2>1. ASSUME NEW q \in requests PROVE (InHand(q) /\ Progress(q) /\ Told(q))'
      <3>1. InHand(q) /\ Progress(q) /\ Told(q)
        BY DEF IInv, RequestsOK
      <3>2. (InHand(q) /\ Progress(q))'
        BY <3>1 DEF Execute, InHand, Progress
      <3>3. Told(q)'
        BY <1>1, <1>2, <1>3, <3>1 DEF Execute, Told, Stands, IInv, TypeOK
      <3> QED
        BY <3>2, <3>3
    <2>2. CASE new = late
      <3>1. (InHand(new) /\ Progress(new))'
        BY <1>7, <2>2 DEF InHand, Progress, Working
      <3>2. Told(new)'
        BY <1>1, <1>2, <1>3, <1>7, <2>2 DEF Told, Working, IInv, TypeOK
      <3> QED
        BY <1>4, <2>1, <3>1, <3>2 DEF RequestsOK
    <2>3. CASE /\ new = begun /\ row.status = "awaiting_role_review"
               /\ row.revision = task.revision
      <3>1. row \in Session
        BY <1>1 DEF IInv, TypeOK
      <3>2. InHand(new)'
        BY <1>6, <2>3, <3>1 DEF Execute, InHand, Asks, Session
      <3>3. row.context \in Worlds /\ row.context <= world
        BY <1>1, <2>3, Constants DEF IInv, RowsOK, RowOK, Planned, Past, Worlds
      <3>4. Progress(new)'
        BY <1>6, <2>3, <3>3 DEF Execute, Progress
      <3>5. Told(new)'
        BY <1>1, <1>2, <1>3, <1>6, <2>3 DEF Execute, Told, IInv, TypeOK
      <3> QED
        BY <1>4, <2>1, <3>2, <3>4, <3>5 DEF RequestsOK
    <2> QED
      BY <1>4, <2>2, <2>3
  <1>11. RowsOK' /\ LogsOK'
    BY DEF Execute, IInv, RowsOK, LogsOK, RowOK, Paced, Planned, Reviewed, Settled, Past
  <1> QED
    BY <1>8, <1>9, <1>10, <1>11 DEF IInv

\* A task that completes was told which event was stored.
LEMMA ReportInvariant ==
    ASSUME IInv, NEW q \in requests, Report(q)
    PROVE  IInv'
  <1> DEFINE task == tasks[q.task]
             settled == [task EXCEPT !.state =
                IF q.stage = "stored" /\ Passes(q.row) THEN "completed" ELSE "failed"]
  <1>1. q \in Request /\ Told(q) /\ q.task \in Tasks /\ task \in Task
    BY DEF IInv, TypeOK, RequestsOK, Report, Told
  <1>2. /\ settled \in Task /\ settled.session = task.session
        /\ settled.actor = task.actor /\ settled.revision = task.revision
        /\ settled.state \in {"completed", "failed"}
        /\ settled.state = "completed" => q.stage = "stored"
    BY <1>1 DEF Task
  <1>3. \/ tasks' = tasks
        \/ tasks' = [tasks EXCEPT ![q.task] = settled] /\ task.state = "open"
    BY DEF Report
  <1> HIDE DEF settled
  <1>4. requests' \subseteq requests
    BY DEF Report
  <1>5. TypeOK'
    BY <1>1, <1>2, <1>3, <1>4 DEF Report, IInv, TypeOK
  <1>10. \A t \in Tasks : /\ tasks'[t].session = tasks[t].session
                         /\ tasks'[t].actor = tasks[t].actor
                         /\ tasks'[t].revision = tasks[t].revision
                         /\ tasks[t].state # "absent" => tasks'[t].state # "absent"
    BY <1>1, <1>2, <1>3 DEF IInv, TypeOK
  <1>6. TasksOK'
    BY <1>1, <1>2, <1>3 DEF Report, IInv, TypeOK, TasksOK
  <1>7. TaskTruthful'
    <2>1. ASSUME NEW t \in Tasks, tasks'[t].state = "completed"
          PROVE  Stands(tasks'[t].session, tasks'[t].revision, tasks'[t].actor)
      <3>1. CASE tasks'[t] = tasks[t]
        BY <2>1, <3>1 DEF IInv, TaskTruthful, Stands
      <3>2. CASE t = q.task /\ tasks'[t] = settled
        BY <1>1, <1>2, <2>1, <3>2 DEF Told
      <3> QED
        BY <1>3, <3>1, <3>2 DEF IInv, TypeOK
    <2> QED
      BY <2>1 DEF Report, TaskTruthful, Stands
  <1>8. RequestsOK'
    <2>1. ASSUME NEW p \in requests PROVE (InHand(p) /\ Progress(p) /\ Told(p))'
      <3>1. InHand(p) /\ Progress(p) /\ Told(p)
        BY DEF IInv, RequestsOK
      <3>2. (InHand(p) /\ Progress(p))'
        BY <3>1 DEF Report, InHand, Progress
      <3>3. Told(p)'
        BY <1>10, <3>1, SMTT(30) DEF Report, Told, Stands
      <3> QED
        BY <3>2, <3>3
    <2> QED
      BY <1>4, <2>1 DEF RequestsOK
  <1>9. RowsOK' /\ LogsOK'
    BY DEF Report, IInv, RowsOK, LogsOK, RowOK, Paced, Planned, Reviewed, Settled, Past
  <1> QED
    BY <1>5, <1>6, <1>7, <1>8, <1>9 DEF IInv

-----------------------------------------------------------------------------
(* Steps that write a row.                                                 *)

\* What a step may never replace in a row.
KeptRow(old, new) ==
    /\ old.plan # None => new.plan = old.plan /\ new.context = old.context
    /\ old.reviewed # {} => /\ new.reviewed = old.reviewed /\ new.items = old.items
                            /\ new.reviewContext = old.reviewContext
    /\ old.resolvedBy # None => /\ new.resolvedBy = old.resolvedBy
                                /\ new.resolved = old.resolved
    /\ old.reviewedBy # None => new = old

Kept == \A s \in Sessions : KeptRow(sessions[s], sessions'[s])

\* The step is one of the revision log and replaces nothing.
Good == Audit!Next /\ Kept

LEMMA KeptOthers ==
    ASSUME TypeOK, NEW s \in Sessions, NEW row,
           sessions' = [sessions EXCEPT ![s] = row], KeptRow(sessions[s], row)
    PROVE  Kept
  BY DEF TypeOK, Kept, KeptRow

\* One row and one event make a step of the revision log.
LEMMA RecordedRow ==
    ASSUME TypeOK, NEW s \in Sessions, NEW row \in Session, NEW event \in Event,
           sessions' = [sessions EXCEPT ![s] = row],
           log' = [log EXCEPT ![s] = Append(log[s], event)],
           event.from = sessions[s].status, event.to = row.status,
           event.sequence = sessions[s].revision + 1, row.revision = event.sequence,
           <<event.from, event.to>> \in Workflow
    PROVE  Audit!Next
  <1> DEFINE status == [r \in Sessions |-> sessions[r].status]
             revision == [r \in Sessions |-> sessions[r].revision]
             history == log
  <1>1. sessions \in [Sessions -> Session] /\ log[s] \in Seq(Event)
    BY DEF TypeOK
  <1>2. log'[s] = Append(log[s], event)
    BY DEF TypeOK
  <1>3. Len(log'[s]) > 0 /\ log'[s][Len(log'[s])] = event
    BY <1>1, <1>2
  <1>4. status' = [status EXCEPT ![s] = event.to]
    BY <1>1
  <1>5. revision' = [revision EXCEPT ![s] = event.sequence]
    BY <1>1
  <1>6. status[s] = sessions[s].status /\ revision[s] = sessions[s].revision
    OBVIOUS
  <1>7. history' = [history EXCEPT ![s] = Append(history[s], event)]
    OBVIOUS
  <1> HIDE DEF status, revision
  <1>8. \E r \in Sessions :
           LET last == history'[r][Len(history'[r])]
           IN  /\ Len(history'[r]) > 0
               /\ last.from = status[r] /\ last.sequence = revision[r] + 1
               /\ <<last.from, last.to>> \in Workflow
               /\ status' = [status EXCEPT ![r] = last.to]
               /\ revision' = [revision EXCEPT ![r] = last.sequence]
               /\ history' = [history EXCEPT ![r] = Append(history[r], last)]
    BY <1>3, <1>4, <1>5, <1>6, <1>7
  <1> QED
    BY <1>8 DEF Audit!Next, Audit!Record, status, revision

\* A row takes its next revision and its log one more event: what requests hold of
\* it is old from then on, and what tasks were told of it stands.
LEMMA RowStep ==
    ASSUME IInv, UNCHANGED world, NEW s \in Sessions, NEW row \in Session, NEW event \in Event,
           sessions' = [sessions EXCEPT ![s] = row],
           log' = [log EXCEPT ![s] = Append(log[s], event)],
           RowOK(row), Past(row.context),
           row.revision = sessions[s].revision + 1
    PROVE  /\ sessions' \in [Sessions -> Session]
           /\ log' \in [Sessions -> Seq(Event)]
           /\ RowsOK' /\ LogsOK'
           /\ \A r \in Sessions, n \in Nat : \A actor : Stands(r, n, actor) => Stands(r, n, actor)'
           /\ \A q \in requests : InHand(q) => InHand(q)'
  <1>1. /\ sessions \in [Sessions -> Session] /\ log \in [Sessions -> Seq(Event)]
    BY DEF IInv, TypeOK
  <1>2. sessions'[s] = row /\ \A r \in Sessions : r # s => sessions'[r] = sessions[r]
    BY <1>1
  <1>3. \A r \in Sessions : r # s => log'[r] = log[r]
    BY <1>1
  <1>4. log[s] \in Seq(Event) /\ Len(log[s]) = sessions[s].revision
    BY <1>1 DEF IInv, LogsOK
  <1>5. /\ log'[s] \in Seq(Event) /\ Len(log'[s]) = Len(log[s]) + 1
        /\ \A i \in 1..Len(log[s]) : log'[s][i] = log[s][i]
    BY <1>1, <1>4
  <1>6. sessions' \in [Sessions -> Session] /\ log' \in [Sessions -> Seq(Event)]
    BY <1>1, <1>5
  <1>7. RowsOK'
    <2>1. ASSUME NEW r \in Sessions PROVE RowOK(sessions'[r]) /\ Past(sessions'[r].context)
      BY <1>2 DEF IInv, RowsOK
    <2> QED
      BY <2>1 DEF RowsOK, RowOK, Paced, Planned, Reviewed, Settled, Past
  <1>8. LogsOK'
    BY <1>2, <1>3, <1>4, <1>5 DEF IInv, LogsOK
  <1>9. ASSUME NEW r \in Sessions, NEW n \in Nat, NEW actor, Stands(r, n, actor)
        PROVE  Stands(r, n, actor)'
    <2>1. CASE r = s
      <3>1. Len(log[s]) \in Nat /\ n + 1 \in 1..Len(log[s])
        BY <1>4, <1>9, <2>1 DEF Stands
      <3>2. log'[s][n + 1] = log[s][n + 1] /\ Len(log'[s]) >= n + 1
        BY <1>5, <3>1
      <3> QED
        BY <1>9, <2>1, <3>2 DEF Stands
    <2>2. CASE r # s
      BY <1>3, <1>9, <2>2 DEF Stands
    <2> QED
      BY <2>1, <2>2
  <1>10. ASSUME NEW q \in requests, InHand(q) PROVE InHand(q)'
    <2>1. q.session \in Sessions /\ q.row.revision \in 0..5
      BY DEF IInv, TypeOK, Request, Session
    <2>2. CASE q.session = s
      <3>1. sessions[s].revision \in 0..5
        BY <1>1 DEF Session
      <3>2. sessions[s].revision \in Nat /\ sessions'[s].revision = sessions[s].revision + 1
        BY <1>2, <3>1
      <3> QED
        BY <1>10, <2>1, <2>2, <3>2 DEF InHand
    <2>3. CASE q.session # s
      BY <1>2, <1>10, <2>1, <2>3 DEF InHand
    <2> QED
      BY <2>2, <2>3
  <1> QED
    BY <1>6, <1>7, <1>8, <1>9, <1>10

\* What was told stands, as long as the log only grows.
LEMMA ToldStands ==
    ASSUME IInv, UNCHANGED <<tasks, world>>,
           \A r \in Sessions, n \in Nat : \A actor : Stands(r, n, actor) => Stands(r, n, actor)'
    PROVE  /\ TaskTruthful'
           /\ \A q \in requests : Progress(q)' /\ Told(q)'
  <1>1. ASSUME NEW t \in Tasks, tasks[t].state = "completed"
        PROVE  Stands(tasks[t].session, tasks[t].revision, tasks[t].actor)'
    <2>1. tasks[t].session \in Sessions /\ tasks[t].revision \in Nat
      BY <1>1 DEF IInv, TypeOK, TasksOK, Task
    <2>2. Stands(tasks[t].session, tasks[t].revision, tasks[t].actor)
      BY <1>1 DEF IInv, TaskTruthful, Stands
    <2> QED
      BY <2>1, <2>2
  <1>2. TaskTruthful'
    BY <1>1 DEF TaskTruthful, Stands
  <1>3. ASSUME NEW q \in requests PROVE Progress(q)' /\ Told(q)'
    <2>1. Progress(q) /\ Told(q) /\ q.session \in Sessions
      BY DEF IInv, RequestsOK, TypeOK, Request
    <2>2. q.task \in Tasks => tasks[q.task].revision \in Nat
      <3>1. \A t \in Tasks : tasks[t] \in Task
        BY DEF IInv, TypeOK
      <3> QED
        BY <3>1 DEF Task
    <2>3. q.task \in Tasks /\ q.stage = "stored" =>
             Stands(q.session, tasks[q.task].revision, q.actor)'
      BY <2>1, <2>2 DEF Told
    <2>4. Told(q)'
      BY <2>1, <2>3 DEF Told
    <2> QED
      BY <2>1, <2>4 DEF Progress
  <1> QED
    BY <1>2, <1>3

LEMMA CreateInvariant ==
    ASSUME IInv, NEW s \in Sessions, NEW actor \in People, Create(s, actor)
    PROVE  IInv' /\ Good
  <1>1. PICK context \in 0..world, plan \in Worlds \cup {None} :
          LET to == IF plan = None THEN "awaiting_clarification"
                                   ELSE "awaiting_role_review"
          IN  /\ plan # None => plan = context
              /\ sessions' = [sessions EXCEPT ![s] =
                    [NoSession EXCEPT !.status = to, !.revision = 1,
                                      !.createdBy = actor, !.context = context,
                                      !.plan = plan]]
              /\ log' = [log EXCEPT ![s] =
                    <<[sequence |-> 1, type |-> "created", from |-> "absent",
                       to |-> to, actor |-> actor]>>]
    BY DEF Create, Plans, ValidPlan
  <1> DEFINE to == IF plan = None THEN "awaiting_clarification"
                                  ELSE "awaiting_role_review"
             row == [NoSession EXCEPT !.status = to, !.revision = 1,
                                      !.createdBy = actor, !.context = context,
                                      !.plan = plan]
             event == [sequence |-> 1, type |-> "created", from |-> "absent",
                       to |-> to, actor |-> actor]
  <1>2. /\ world \in Worlds /\ context \in Worlds /\ context <= world /\ MaxWorld \in Nat
        /\ world \in Nat
    BY Constants DEF IInv, TypeOK, Worlds
  <1>3. row \in Session /\ event \in Event
    <2>1. to \in Status
      BY DEF Status
    <2>2. context \in Worlds \cup {None} /\ plan \in Worlds \cup {None} /\ 1 \in 0..5
      BY <1>2
    <2>4. row \in Session
      BY <2>1, <2>2 DEF NoSession, Session
    <2>3. event \in Event
      BY <2>1 DEF Event, EventTypes, Status
    <2> QED
      BY <2>3, <2>4
  <1>11. /\ event.from = "absent" /\ event.to = to /\ event.sequence = 1
         /\ <<"absent", to>> \in Workflow
    BY DEF Workflow
  <1>4. /\ row.status = to /\ row.revision = 1 /\ row.context = context
        /\ row.plan = plan /\ row.reviewed = {} /\ row.items = {} /\ row.resolved = {}
        /\ row.resolvedBy = None /\ row.reviewedBy = None
    BY DEF NoSession
  <1>5. RowOK(row) /\ Past(row.context)
    BY <1>1, <1>2, <1>4 DEF RowOK, Paced, Planned, Reviewed, Settled, Past,
       Early, BeforeReview, BeforeSettled, Decided
  <1>6. /\ sessions[s].revision = 0 /\ log[s] = << >> /\ sessions[s].status = "absent"
        /\ KeptRow(sessions[s], row)
    <2>1. /\ sessions[s].revision = 0 /\ Len(log[s]) = 0 /\ sessions[s].status = "absent"
          /\ RowOK(sessions[s])
      BY DEF Create, IInv, RowsOK, RowOK, Paced, LogsOK
    <2>2. KeptRow(sessions[s], row)
      BY <2>1 DEF RowOK, Planned, Reviewed, Settled, KeptRow,
         Early, BeforeReview, BeforeSettled, Decided
    <2> QED
      BY <2>1, <2>2 DEF IInv, TypeOK
  <1>7. sessions' = [sessions EXCEPT ![s] = row] /\ log' = [log EXCEPT ![s] = Append(log[s], event)]
    BY <1>1, <1>6
  <1> HIDE DEF row, event, to
  <1>8. /\ sessions' \in [Sessions -> Session] /\ log' \in [Sessions -> Seq(Event)]
        /\ RowsOK' /\ LogsOK'
        /\ \A r \in Sessions, n \in Nat : \A a : Stands(r, n, a) => Stands(r, n, a)'
        /\ \A q \in requests : InHand(q) => InHand(q)'
    <2>1. row.revision = sessions[s].revision + 1 /\ UNCHANGED world
      BY <1>4, <1>6 DEF Create
    <2> QED
      BY <1>3, <1>5, <1>7, <2>1, RowStep
  <1>9. TypeOK' /\ TasksOK'
    BY <1>8 DEF Create, IInv, TypeOK, TasksOK
  <1>10. TaskTruthful' /\ RequestsOK'
    BY <1>8, ToldStands DEF Create, IInv, RequestsOK
  <1>12. Audit!Next
    <2>1. /\ event.from = sessions[s].status /\ event.to = row.status
          /\ event.sequence = sessions[s].revision + 1 /\ row.revision = event.sequence
          /\ <<event.from, event.to>> \in Workflow
      BY <1>4, <1>6, <1>11
    <2> QED
      BY <1>3, <1>7, <2>1, RecordedRow DEF IInv
  <1>13. Kept
    BY <1>6, <1>7, KeptOthers DEF IInv
  <1> QED
    BY <1>8, <1>9, <1>10, <1>12, <1>13 DEF IInv, Good

\* Whoever writes has the row in hand as it is.
LEMMA WriterHasTheRow ==
    ASSUME IInv, NEW q \in requests, NEW row, NEW type, Write(q, row, type)
    PROVE  /\ q.stage = "ready" /\ q.session \in Sessions /\ q.row = sessions[q.session]
           /\ q.row \in Session /\ RowOK(q.row) /\ q.row.status = Asks[q.operation]
           /\ Past(q.row.context) /\ q \in Request
           /\ Progress(q) /\ Told(q)
           /\ q.operation \in {"resolve", "decide"} => Second(q.row, q.actor)
  <1>1. q \in Request /\ InHand(q) /\ Progress(q) /\ Told(q)
    BY DEF IInv, TypeOK, RequestsOK
  <1>2. q.stage = "ready" /\ q.session \in Sessions /\ q.row \in Session
    BY <1>1 DEF Write, Request
  <1>3. q.row = sessions[q.session]
    BY <1>1, <1>2 DEF Write, Unchanged, InHand, Working
  <1> QED
    BY <1>1, <1>2, <1>3 DEF IInv, RowsOK, InHand, Working

LEMMA WriteInvariant ==
    ASSUME IInv, NEW q \in requests, NEW row \in Session, NEW type \in EventTypes,
           Write(q, row, type),
           NEW final \in Session, final = [row EXCEPT !.revision = q.row.revision + 1],
           final.revision = q.row.revision + 1,
           final.status = row.status, <<q.row.status, row.status>> \in Workflow,
           RowOK(final), Past(final.context), KeptRow(q.row, final),
           q.task \in Tasks => type = "role_reviews_completed"
    PROVE  IInv' /\ Good
  <1> DEFINE s == q.session
             event == [sequence |-> q.row.revision + 1, type |-> type,
                       from |-> q.row.status, to |-> row.status, actor |-> q.actor]
  <1>1. /\ q.stage = "ready" /\ s \in Sessions /\ q.row = sessions[s]
        /\ q.row \in Session /\ Told(q) /\ q \in Request
    BY WriterHasTheRow
  <1>2. q.row.revision \in 0..5 /\ q.row.revision + 1 \in 1..5
    <2>1. q.row.revision \in 0..5 /\ final.revision \in 0..5
      BY <1>1 DEF Session
    <2> QED
      BY <2>1
  <1>3. event \in Event
    BY <1>1, <1>2 DEF Event, Session, Request
  <1>4. /\ sessions' = [sessions EXCEPT ![s] = final]
        /\ log' = [log EXCEPT ![s] = Append(log[s], event)]
        /\ UNCHANGED <<tasks, world>>
    BY DEF Write
  <1>5. /\ event.type = type /\ event.actor = q.actor /\ event.from = q.row.status
        /\ event.to = row.status /\ event.sequence = q.row.revision + 1
    OBVIOUS
  <1> HIDE DEF event
  <1>6. /\ sessions' \in [Sessions -> Session] /\ log' \in [Sessions -> Seq(Event)]
        /\ RowsOK' /\ LogsOK'
        /\ \A r \in Sessions, n \in Nat : \A a : Stands(r, n, a) => Stands(r, n, a)'
        /\ \A p \in requests : InHand(p) => InHand(p)'
    <2>1. final.revision = sessions[s].revision + 1 /\ UNCHANGED world
      BY <1>1, <1>4
    <2> QED
      BY <1>1, <1>3, <1>4, <2>1, RowStep
  <1>7. TaskTruthful' /\ \A p \in requests : (InHand(p) /\ Progress(p) /\ Told(p))'
    BY <1>4, <1>6, ToldStands DEF IInv, RequestsOK
  <1>8. PICK outcome \in {"stored", "failed"} : Ended(q, row, outcome)
    BY DEF Write
  <1>9. ASSUME q.task = None PROVE IInv'
    <2>1. requests' \subseteq requests
      BY <1>8, <1>9 DEF Ended
    <2>2. TypeOK' /\ TasksOK' /\ RequestsOK'
      BY <1>4, <1>6, <1>7, <2>1 DEF IInv, TypeOK, TasksOK, RequestsOK
    <2> QED
      BY <1>6, <1>7, <2>2 DEF IInv
  <1>10. ASSUME q.task # None PROVE IInv'
    <2> DEFINE next == [q EXCEPT !.stage = outcome, !.row = row]
    <2>1. q.task \in Tasks
      BY <1>1, <1>10 DEF Request
    <2>2. /\ next \in Request /\ next.stage = outcome /\ next.task = q.task
          /\ next.operation = q.operation /\ next.session = s /\ next.actor = q.actor
      BY <1>1 DEF Request
    <2>3. requests' = (requests \ {q}) \cup {next}
      BY <1>8, <1>10 DEF Ended, Becomes
    <2> HIDE DEF next
    <2>4. (InHand(next) /\ Progress(next))'
      BY <2>2 DEF InHand, Progress, Working
    <2>5. Stands(s, tasks[q.task].revision, q.actor)'
      <3>1. q.row.revision = tasks[q.task].revision
        BY <1>1, <2>1 DEF Told, Working
      <3>2. log[s] \in Seq(Event) /\ Len(log[s]) = q.row.revision
        BY <1>1 DEF IInv, TypeOK, LogsOK
      <3>3. log'[s] = Append(log[s], event)
        BY <1>1, <1>4 DEF IInv, TypeOK
      <3>4. Len(log'[s]) = q.row.revision + 1 /\ log'[s][q.row.revision + 1] = event
        BY <1>3, <3>2, <3>3
      <3> QED
        BY <1>2, <1>4, <1>5, <2>1, <3>1, <3>4 DEF Stands
    <2>6. Told(next)'
      BY <1>1, <1>4, <2>1, <2>2, <2>5 DEF Told, Working
    <2>7. TypeOK' /\ TasksOK' /\ RequestsOK'
      BY <1>4, <1>6, <1>7, <2>2, <2>3, <2>4, <2>6 DEF IInv, TypeOK, TasksOK, RequestsOK
    <2> QED
      BY <1>6, <1>7, <2>7 DEF IInv
  <1>11. Audit!Next
    <2>1. /\ event.from = sessions[s].status /\ event.to = final.status
          /\ event.sequence = sessions[s].revision + 1 /\ final.revision = event.sequence
          /\ <<event.from, event.to>> \in Workflow
      BY <1>1, <1>5
    <2> QED
      BY <1>1, <1>3, <1>4, <2>1, RecordedRow DEF IInv
  <1>12. Kept
    BY <1>1, <1>4, KeptOthers DEF IInv
  <1> QED
    BY <1>9, <1>10, <1>11, <1>12 DEF Good

-----------------------------------------------------------------------------
(* The four writers.                                                       *)

LEMMA ClarifyInvariant ==
    ASSUME IInv, NEW q \in requests, SubmitClarifications(q)
    PROVE  IInv' /\ Good
  <1> DEFINE row == [q.row EXCEPT !.status = "awaiting_role_review", !.plan = q.plan,
                                  !.context = q.context]
             final == [row EXCEPT !.revision = q.row.revision + 1]
  <1>1. q.operation = "clarify" /\ Write(q, row, "clarifications_submitted")
    BY DEF SubmitClarifications
  <1>2. /\ q.row \in Session /\ RowOK(q.row) /\ q.row.status = "awaiting_clarification"
        /\ q \in Request /\ Progress(q) /\ Told(q) /\ q.stage = "ready"
    BY <1>1, WriterHasTheRow DEF Asks
  <1>3. q.context \in Worlds /\ q.context <= world /\ q.plan = q.context
    BY <1>1, <1>2 DEF Progress, Working
  <1>4. q.row.revision = 1
    BY <1>2 DEF RowOK, Paced
  <1>5. row \in Session /\ final \in Session
    <2>1. row \in Session
      BY <1>2, <1>3 DEF Session, Status
    <2>2. q.row.revision + 1 \in 0..5
      BY <1>4
    <2> HIDE DEF row
    <2> QED
      BY <2>1, <2>2 DEF Session
  <1>6. /\ final.status = "awaiting_role_review" /\ final.plan = q.context
        /\ final.context = q.context /\ final.revision = q.row.revision + 1
        /\ final.reviewed = q.row.reviewed /\ final.items = q.row.items
        /\ final.resolved = q.row.resolved /\ final.resolvedBy = q.row.resolvedBy
        /\ final.reviewedBy = q.row.reviewedBy
    BY <1>2, <1>3 DEF Session
  <1>7. RowOK(final) /\ Past(final.context)
    BY <1>2, <1>3, <1>4, <1>6 DEF RowOK, Paced, Planned, Reviewed, Settled, Past,
       Early, BeforeReview, BeforeSettled, Decided
  <1>8. q.task \notin Tasks
    BY <1>1, <1>2 DEF Told
  <1>9. /\ final = [row EXCEPT !.revision = q.row.revision + 1]
        /\ row.status = "awaiting_role_review"
    BY <1>2 DEF Session
  <1>10. KeptRow(q.row, final)
    BY <1>2, <1>6 DEF KeptRow, RowOK, Planned, Reviewed, Settled,
       Early, BeforeReview, BeforeSettled, Decided
  <1>11. <<q.row.status, row.status>> \in Workflow
    BY <1>2, <1>9 DEF Workflow
  <1> HIDE DEF row, final
  <1> QED
    BY <1>1, <1>5, <1>6, <1>7, <1>8, <1>9, <1>10, <1>11,
       WriteInvariant DEF EventTypes

\* A row that gets a review is a row.
LEMMA ReviewedTyped ==
    ASSUME NEW row \in Session, NEW to \in Status, NEW reviewed \in SUBSET Roles,
           NEW context \in Worlds \cup {None}, NEW cites \in SUBSET Worlds,
           NEW items \in SUBSET Items
    PROVE  [row EXCEPT !.status = to, !.reviewed = reviewed, !.reviewContext = context,
                       !.cites = cites, !.items = items] \in Session
  <1>1. [row EXCEPT !.status = to, !.reviewed = reviewed] \in Session
    BY DEF Session
  <1> QED
    BY <1>1 DEF Session

LEMMA ReviewInvariant ==
    ASSUME IInv, NEW q \in requests, SubmitRoleReviews(q)
    PROVE  IInv' /\ Good
  <1> DEFINE to == IF q.items = {} THEN "awaiting_approval" ELSE "awaiting_resolution"
             row == [q.row EXCEPT !.status = to,
                                  !.reviewed = q.returned, !.reviewContext = q.context,
                                  !.cites = q.cites, !.items = q.items]
             final == [row EXCEPT !.revision = q.row.revision + 1]
  <1>1. q.operation = "review" /\ Write(q, row, "role_reviews_completed")
    BY DEF SubmitRoleReviews
  <1>2. /\ q.row \in Session /\ RowOK(q.row) /\ q.row.status = "awaiting_role_review"
        /\ q \in Request /\ Progress(q) /\ Past(q.row.context) /\ q.stage = "ready"
    BY <1>1, WriterHasTheRow DEF Asks
  <1>3. /\ q.context \in Worlds /\ q.context >= q.row.context
        /\ q.returned = Roles /\ q.cites = {q.context} /\ q.items \in SUBSET Items
    <2>1. q.returned = Roles /\ ~q.failed /\ q.items \in SUBSET Items
      BY <1>1, <1>2 DEF Progress, Request
    <2> QED
      BY <1>1, <1>2, <2>1, Constants DEF Progress, Working
  <1>4. q.row.revision \in {1, 2}
    BY <1>2 DEF RowOK, Paced
  <1>5. to \in Status /\ q.row.revision + 1 \in 0..5 /\ q.cites \in SUBSET Worlds
    BY <1>3, <1>4 DEF Status
  <1>6. row \in Session /\ final \in Session
    <2>1. /\ to \in Status /\ q.returned \in SUBSET Roles /\ q.context \in Worlds \cup {None}
          /\ q.cites \in SUBSET Worlds /\ q.items \in SUBSET Items /\ q.row \in Session
      BY <1>2, <1>3, <1>5
    <2>2. row \in Session
      BY <2>1, ReviewedTyped
    <2> HIDE DEF row
    <2> QED
      BY <1>5, <2>2 DEF Session
  <1>7. /\ final.status = to /\ final.plan = q.row.plan /\ final.createdBy = q.row.createdBy
        /\ final.context = q.row.context /\ final.revision = q.row.revision + 1
        /\ final.reviewed = Roles /\ final.reviewContext = q.context
        /\ final.cites = {q.context} /\ final.items = q.items
        /\ final.resolved = q.row.resolved /\ final.resolvedBy = q.row.resolvedBy
        /\ final.reviewedBy = q.row.reviewedBy
    BY <1>2, <1>3 DEF Session
  <1>10. row.status = to /\ <<q.row.status, row.status>> \in Workflow
    BY <1>2 DEF Workflow, Session
  <1>11. KeptRow(q.row, final)
    BY <1>2, <1>7 DEF KeptRow, RowOK, Planned, Reviewed, Settled,
       Early, BeforeReview, BeforeSettled, Decided
  <1>8. RowOK(final) /\ Past(final.context)
    <2> HIDE DEF final
    <2>1. to \in {"awaiting_approval", "awaiting_resolution"}
          /\ (to = "awaiting_approval" <=> q.items = {})
      OBVIOUS
    <2> HIDE DEF to
    <2>2. Paced(final)
      BY <1>4, <1>7, <2>1 DEF Paced, Decided
    <2>3. Planned(final) /\ Past(final.context)
      BY <1>2, <1>7, <2>1 DEF RowOK, Planned, Past, Early
    <2>4. Reviewed(final)
      BY <1>3, <1>7, <2>1 DEF Reviewed, Early, BeforeReview
    <2>5. Settled(final)
      BY <1>2, <1>7, <2>1 DEF RowOK, Settled, Early, BeforeReview, BeforeSettled, Decided
    <2> QED
      BY <2>2, <2>3, <2>4, <2>5 DEF RowOK
  <1>9. final = [row EXCEPT !.revision = q.row.revision + 1]
    OBVIOUS
  <1> HIDE DEF row, final
  <1> QED
    BY <1>1, <1>6, <1>7, <1>8, <1>9, <1>10, <1>11,
       WriteInvariant DEF EventTypes

LEMMA ResolveInvariant ==
    ASSUME IInv, NEW q \in requests, ResolveReviewDecisions(q)
    PROVE  IInv' /\ Good
  <1>1. PICK resolutions \in SUBSET Items :
           /\ resolutions = q.row.items
           /\ Write(q, [q.row EXCEPT !.status = "awaiting_approval",
                                     !.resolved = resolutions, !.resolvedBy = q.actor],
                    "review_decisions_resolved")
    BY DEF ResolveReviewDecisions, Complete
  <1> DEFINE row == [q.row EXCEPT !.status = "awaiting_approval",
                                  !.resolved = resolutions, !.resolvedBy = q.actor]
             final == [row EXCEPT !.revision = q.row.revision + 1]
  <1>2. q.operation = "resolve"
    BY DEF ResolveReviewDecisions
  <1>3. /\ q.row \in Session /\ RowOK(q.row) /\ q.row.status = "awaiting_resolution"
        /\ q \in Request /\ Told(q) /\ Second(q.row, q.actor) /\ Past(q.row.context)
    BY <1>1, <1>2, WriterHasTheRow DEF Asks
  <1>4. q.row.revision \in {2, 3} /\ q.actor \in People
    BY <1>3 DEF RowOK, Paced, Request
  <1>5. q.row.revision + 1 \in 0..5
    BY <1>4
  <1>6. row \in Session /\ final \in Session
    <2>1. row \in Session
      BY <1>1, <1>3, <1>4 DEF Session, Status
    <2> HIDE DEF row
    <2> QED
      BY <1>5, <2>1 DEF Session
  <1>7. /\ final.status = "awaiting_approval" /\ final.plan = q.row.plan
        /\ final.createdBy = q.row.createdBy
        /\ final.context = q.row.context /\ final.revision = q.row.revision + 1
        /\ final.reviewed = q.row.reviewed /\ final.reviewContext = q.row.reviewContext
        /\ final.cites = q.row.cites /\ final.items = q.row.items
        /\ final.resolved = q.row.items /\ final.resolvedBy = q.actor
        /\ final.reviewedBy = q.row.reviewedBy
    BY <1>1, <1>3 DEF Session
  <1>11. row.status = "awaiting_approval" /\ <<q.row.status, row.status>> \in Workflow
    BY <1>3 DEF Workflow, Session
  <1>12. KeptRow(q.row, final)
    BY <1>3, <1>7 DEF KeptRow, RowOK, Planned, Reviewed, Settled,
       Early, BeforeReview, BeforeSettled, Decided
  <1> HIDE DEF final
  <1>8. RowOK(final) /\ Past(final.context)
    BY <1>3, <1>4, <1>7 DEF RowOK, Paced, Planned, Reviewed, Settled, Past, Second,
       Early, BeforeReview, BeforeSettled, Decided
  <1>9. q.task \notin Tasks
    BY <1>2, <1>3 DEF Told
  <1>10. Write(q, row, "review_decisions_resolved")
         /\ final = [row EXCEPT !.revision = q.row.revision + 1]
    BY <1>1 DEF final
  <1> HIDE DEF row
  <1> QED
    BY <1>6, <1>7, <1>8, <1>9, <1>10, <1>11, <1>12,
       WriteInvariant DEF EventTypes

LEMMA DecideInvariant ==
    ASSUME IInv, NEW q \in requests, Decide(q)
    PROVE  IInv' /\ Good
  <1>1. PICK decision \in {"approved", "rejected"} :
           Write(q, [q.row EXCEPT !.status = decision, !.reviewedBy = q.actor],
                 IF decision = "approved" THEN "approved" ELSE "rejectd")
    BY DEF Decide
  <1> DEFINE row == [q.row EXCEPT !.status = decision, !.reviewedBy = q.actor]
             final == [row EXCEPT !.revision = q.row.revision + 1]
             type == IF decision = "approved" THEN "approved" ELSE "rejectd"
  <1>2. q.operation = "decide"
    BY DEF Decide
  <1>3. /\ q.row \in Session /\ RowOK(q.row) /\ q.row.status = "awaiting_approval"
        /\ q \in Request /\ Told(q) /\ Second(q.row, q.actor) /\ Past(q.row.context)
    BY <1>1, <1>2, WriterHasTheRow DEF Asks
  <1>4. q.row.revision \in {2, 3, 4} /\ q.actor \in People
    BY <1>3 DEF RowOK, Paced, Request
  <1>5. q.row.revision + 1 \in 0..5
    BY <1>4
  <1>6. row \in Session /\ final \in Session
    BY <1>3, <1>4, <1>5, ZenonT(60) DEF Session, Status
  <1>7. /\ final.status = decision /\ final.plan = q.row.plan
        /\ final.createdBy = q.row.createdBy
        /\ final.context = q.row.context /\ final.revision = q.row.revision + 1
        /\ final.reviewed = q.row.reviewed /\ final.reviewContext = q.row.reviewContext
        /\ final.cites = q.row.cites /\ final.items = q.row.items
        /\ final.resolved = q.row.resolved /\ final.resolvedBy = q.row.resolvedBy
        /\ final.reviewedBy = q.actor
    BY <1>3 DEF Session
  <1>11. row.status = decision /\ <<q.row.status, row.status>> \in Workflow
    BY <1>3 DEF Workflow, Session
  <1>12. KeptRow(q.row, final)
    BY <1>3, <1>7 DEF KeptRow, RowOK, Planned, Reviewed, Settled,
       Early, BeforeReview, BeforeSettled, Decided
  <1>8. RowOK(final) /\ Past(final.context)
    BY <1>3, <1>4, <1>7 DEF RowOK, Paced, Planned, Reviewed, Settled, Past, Second,
       Early, BeforeReview, BeforeSettled, Decided
  <1>9. q.task \notin Tasks
    BY <1>2, <1>3 DEF Told
  <1>10. /\ Write(q, row, type) /\ type \in EventTypes
         /\ final = [row EXCEPT !.revision = q.row.revision + 1]
    BY <1>1 DEF EventTypes
  <1> HIDE DEF row, final, type
  <1> QED
    BY <1>6, <1>7, <1>8, <1>9, <1>10, <1>11, <1>12,
       WriteInvariant

-----------------------------------------------------------------------------

\* A step leaves the tables alone, or creates one row, or writes one.
LEMMA Steps ==
    ASSUME Next
    PROVE  \/ UNCHANGED <<sessions, log>>
           \/ \E s \in Sessions, actor \in People : Create(s, actor)
           \/ \E q \in requests : \/ SubmitClarifications(q) \/ SubmitRoleReviews(q)
                                  \/ ResolveReviewDecisions(q) \/ Decide(q)
  BY DEF Next, WorldMoves, AskClarify, AskReview, AskResolve, AskDecide, Ask,
         CreateTask, Execute, RoleReturns, Gather, BuildPlan, Coordinate, Fail,
         Crash, Report

LEMMA NextInvariant == IInv /\ [Next]_vars => IInv'
  <1> SUFFICES ASSUME IInv, [Next]_vars PROVE IInv'
    OBVIOUS
  <1>1. CASE UNCHANGED vars
    <2>1. TypeOK' /\ LogsOK' /\ TasksOK' /\ TaskTruthful'
      BY <1>1 DEF vars, IInv, TypeOK, LogsOK, TasksOK, TaskTruthful
    <2>2. RowsOK'
      BY <1>1 DEF vars, IInv, RowsOK, RowOK, Paced, Planned, Reviewed, Settled, Past
    <2>3. RequestsOK'
      BY <1>1 DEF vars, IInv, RequestsOK, InHand, Progress, Told, Stands
    <2> QED
      BY <2>1, <2>2, <2>3 DEF IInv
  <1>2. ASSUME NEW s \in Sessions, NEW actor \in People,
               \/ AskClarify(s, actor) \/ AskReview(s, actor)
               \/ AskResolve(s, actor) \/ AskDecide(s, actor)
        PROVE  IInv'
    BY <1>2, AskInvariant DEF AskClarify, AskReview, AskResolve, AskDecide, Operations
  <1>3. ASSUME NEW q \in requests,
               \/ Gather(q) \/ BuildPlan(q) \/ Coordinate(q) \/ Fail(q) \/ Crash(q)
               \/ SubmitClarifications(q) \/ SubmitRoleReviews(q)
               \/ ResolveReviewDecisions(q) \/ Decide(q) \/ Report(q)
        PROVE  IInv'
    BY <1>3, GatherInvariant, BuildPlanInvariant, CoordinateInvariant, FailInvariant,
       CrashInvariant, ClarifyInvariant, ReviewInvariant, ResolveInvariant,
       DecideInvariant, ReportInvariant
  <1>4. CASE Next
    BY <1>2, <1>3, <1>4, WorldInvariant, CreateInvariant, CreateTaskInvariant,
       ExecuteInvariant, RoleReturnsInvariant DEF Next
  <1> QED
    BY <1>1, <1>4

LEMMA Invariance == Spec => []IInv
  BY InitInvariant, NextInvariant, PTL DEF Spec

-----------------------------------------------------------------------------
(* The theorems.                                                           *)

\* Every part of the state is of its kind, and no session is written more than
\* five times, however many requests work on copies of it.
THEOREM TypeCorrect == Spec => []TypeOK
  BY Invariance, PTL DEF IInv

\* Nobody decides a session that was not reviewed by every role on one snapshot,
\* resolved in full, and put to somebody other than its author (Service.Decide).
THEOREM DecidedAsReviewedCorrect == Spec => []DecidedAsReviewed
  <1>1. IInv => DecidedAsReviewed
    <2> SUFFICES ASSUME IInv, NEW s \in Sessions, sessions[s].status \in Decided
                 PROVE  LET row == sessions[s]
                        IN  /\ row.plan = row.context /\ row.reviewed = Roles
                            /\ row.reviewContext >= row.context
                            /\ row.cites = {row.reviewContext}
                            /\ row.resolved = row.items
                            /\ row.items # {} => row.resolvedBy \in Governors \ {row.createdBy}
                            /\ row.reviewedBy \in Governors \ {row.createdBy}
      BY DEF DecidedAsReviewed, Decided
    <2>1. RowOK(sessions[s])
      BY DEF IInv, RowsOK
    <2> QED
      BY <2>1 DEF RowOK, Planned, Reviewed, Settled, Early, BeforeReview,
         BeforeSettled, Decided
  <1> QED
    BY <1>1, Invariance, PTL

\* A completed role-review task stands for a review in the log, made for its
\* revision in the name of its actor (agenttask.Complete, Store.Update).
THEOREM TaskTruthfulCorrect == Spec => []TaskTruthful
  BY Invariance, PTL DEF IInv

\* What a step does to the tables.
LEMMA GoodSteps == IInv /\ [Next]_vars => Good \/ UNCHANGED <<sessions, log>>
  <1> SUFFICES ASSUME IInv, [Next]_vars PROVE Good \/ UNCHANGED <<sessions, log>>
    OBVIOUS
  <1>1. CASE UNCHANGED vars
    BY <1>1 DEF vars
  <1>2. CASE Next
    BY <1>2, Steps, CreateInvariant, ClarifyInvariant, ReviewInvariant,
       ResolveInvariant, DecideInvariant
  <1> QED
    BY <1>1, <1>2

\* Sessions and their events are a revision log: one event for each write, made of
\* the status that was really left, in the order of the workflow (Store.Update).
THEOREM RevisionLogImplemented == Spec => ImplementsRevisionLog
  <1> DEFINE status == [s \in Sessions |-> sessions[s].status]
             revision == [s \in Sessions |-> sessions[s].revision]
  <1>1. Init => Audit!Init
    BY DEF Init, Audit!Init, NoSession
  <1>2. IInv /\ [Next]_vars => [Audit!Next]_<<status, revision, log>>
    BY GoodSteps DEF Good
  <1> QED
    BY <1>1, <1>2, Invariance, PTL DEF Spec, ImplementsRevisionLog, Audit!Spec

\* No write replaces a plan, a review, a resolution or a decision that is stored,
\* though each writes a whole copy made before the provider was called.
THEOREM NothingReplacedCorrect == Spec => NothingReplaced
  <1>1. IInv /\ [Next]_vars => [Kept]_vars
    <2> SUFFICES ASSUME IInv, [Next]_vars, UNCHANGED <<sessions, log>> PROVE Kept
      BY GoodSteps DEF Good
    <2> QED
      BY DEF Kept, KeptRow
  <1>2. Kept <=>
        \A s \in Sessions :
          LET old == sessions[s]
              new == sessions'[s]
          IN  /\ old.plan # None => new.plan = old.plan /\ new.context = old.context
              /\ old.reviewed # {} =>
                   /\ new.reviewed = old.reviewed /\ new.items = old.items
                   /\ new.reviewContext = old.reviewContext
              /\ old.resolvedBy # None => /\ new.resolvedBy = old.resolvedBy
                                         /\ new.resolved = old.resolved
              /\ old.reviewedBy # None => new = old
    BY DEF Kept, KeptRow
  <1> QED
    BY <1>1, <1>2, Invariance, PTL DEF Spec, NothingReplaced
=============================================================================
