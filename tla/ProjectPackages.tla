-------------------------- MODULE ProjectPackages --------------------------
(***************************************************************************)
(* Project packages (internal/initiative): from an approved planning       *)
(* session a provider drafts seven artifacts and a trace of every          *)
(* requirement through them, the code checks the draft and stores it as    *)
(* the next version of its name, people review one artifact at a time, and *)
(* development asks, before each of its steps, whether the package is      *)
(* approved (development.requireApprovedPackage).  It writes the step      *)
(* later, and nothing ties the reviews to that write: a review in between  *)
(* is not noticed before the next step.                                    *)
(*                                                                         *)
(* A package is also made by an agent task, which is executed again when   *)
(* the process that held it lost its lease.  Each execution stores a       *)
(* version of its own: versions are never replaced, so nothing is lost,    *)
(* but one task may leave two.                                             *)
(*                                                                         *)
(* Texts are left out: a content is a model value, with what its trace     *)
(* says.  The definition hash is the definition.  The planning session is  *)
(* approved when the handlers ask, and that is final (Planning).           *)
(***************************************************************************)
EXTENDS Naturals, Sequences, FiniteSets

CONSTANTS Sources,      \* planning sessions that were approved
          Names,        \* names of packages of a project
          Artifacts,    \* types of artifacts, numbered as a list sorts them
          Documents,    \* what a requirement is traced to
          Api,          \* the one of them that may not apply
          Requirements, \* items of the PRD
          Texts,        \* contents that differ
          Tasks,        \* ids of project-package tasks
          Works,        \* development sessions
          None,
          Window,       \* how many reviews are listed at most (200)
          Steps,        \* create, execute, deliver: how often development asks (3)
          MaxVersion,   \* bound: versions of a name
          MaxReviews,   \* bound: reviews
          MaxCalls,     \* bound: creations under way
          MaxGrants,    \* bound: requests to development under way that differ
          MaxClaims     \* bound: how often a task is claimed

ASSUME PackageConstants ==
    /\ Artifacts \subseteq Nat /\ Artifacts # {}
    /\ IsFiniteSet(Requirements)
    /\ Api \in Documents
    /\ None \notin Tasks \cup Works
    /\ Window \in Nat /\ Steps \in Nat \ {0} /\ MaxVersion \in Nat /\ MaxReviews \in Nat
    /\ MaxCalls \in Nat /\ MaxGrants \in Nat /\ MaxClaims \in Nat

VARIABLES packages,  \* the project_packages table
          reviews,   \* the project_package_artifact_reviews table
          calls,     \* creations under way
          tasks,     \* the project-package rows of agent_tasks
          grants,    \* requests to development whose package was found approved
                     \* and which have not written; equal ones are one element
          works      \* the packages of development sessions

vars == <<packages, reviews, calls, tasks, grants, works>>

-----------------------------------------------------------------------------
(* What the provider may draft, and what the code makes of it.             *)

\* The sections of a document a requirement is traced to: none, sections that
\* are there, or one that is not.
Links == {"none", "known", "unknown"}

TraceRecord == [requirement: Requirements, links: [Documents -> Links],
                applicable: BOOLEAN, reason: BOOLEAN]

Traces == UNION {[1..n -> TraceRecord] : n \in 0..Cardinality(Requirements)}

\* foreign: it cites what the session does not list.
Draft == [artifacts: SUBSET Artifacts, foreign: BOOLEAN,
          prd: SUBSET Requirements \ {{}}, records: Traces]

\* validateAndOrderArtifacts
ValidArtifacts(draft) == draft.artifacts = Artifacts /\ ~draft.foreign

ValidLinks(record) ==
    /\ \A d \in Documents : record.links[d] # "unknown"
    /\ IF record.applicable THEN ~record.reason
                            ELSE record.links[Api] = "none" /\ record.reason

ValidTrace_Repeated(draft) ==
    /\ Len(draft.records) = Cardinality(draft.prd)
    /\ \A i \in DOMAIN draft.records : /\ draft.records[i].requirement \in draft.prd
                                       /\ ValidLinks(draft.records[i])

\* validateTraceability: as many records as requirements, none of them twice.
ValidTrace(draft) ==
    /\ ValidTrace_Repeated(draft)
    /\ \A i, j \in DOMAIN draft.records :
          draft.records[i].requirement = draft.records[j].requirement => i = j

\* traceGaps
Gaps(record) ==
    {d \in Documents : record.links[d] = "none" /\ (d = Api => record.applicable)}

\* A reader of the draft finds every requirement in every document, or the reason
\* why it has no API.  The code never asks this.
Whole(draft) ==
    \A requirement \in draft.prd : \E i \in DOMAIN draft.records :
        LET record == draft.records[i]
        IN  /\ record.requirement = requirement
            /\ \A d \in Documents : \/ record.links[d] = "known"
                                    \/ d = Api /\ record.reason

\* A draft that passed, as it is stored: covered is what the records say.
Stored(draft, text) ==
    [text |-> text, whole |-> Whole(draft),
     covered |-> \A i \in DOMAIN draft.records : Gaps(draft.records[i]) = {}]

Contents ==
    {Stored(draft, text) : draft \in {d \in Draft : ValidArtifacts(d) /\ ValidTrace(d)},
                           text \in Texts}

-----------------------------------------------------------------------------
(* Rows.                                                                   *)

Versions == 1..MaxVersion

Package == [name: Names, version: Versions, source: Sources, content: Contents]

Id(p) == <<p.name, p.version>>
Ids == Names \X Versions

\* What the hash is taken of: not the id, not the version.
Definition(p) == [name |-> p.name, source |-> p.source, content |-> p.content]
Definitions == [name: Names, source: Sources, content: Contents]

Decisions == {"approve", "request_changes"}

ArtifactReview == [package: Ids, artifact: Artifacts, sequence: 1..MaxReviews,
                   hash: Definitions, decision: Decisions]

\* A creation: checked, drafted, and, for the task that asked, how it went.
Call == [name: Names, source: Sources, stage: {"asking", "ready", "stored", "failed"},
         content: Contents \cup {None}, package: Ids \cup {None},
         task: Tasks \cup {None}, claim: 0..MaxClaims]

Task == [state: {"absent", "open", "completed", "failed"},
         name: Names \cup {None}, source: Sources \cup {None},
         claim: 0..MaxClaims, package: Ids \cup {None}]

NoTask == [state |-> "absent", name |-> None, source |-> None,
           claim |-> 0, package |-> None]

\* A development session: its package, and how many of its steps began.
Work == [package: Ids \cup {None}, steps: 0..Steps]

\* A request to development: its session, unless it is to create one, with the
\* steps that had begun when the session was read.
Grant == [work: Works \cup {None}, steps: 0..Steps - 1, package: Ids]

Init ==
    /\ packages = {}
    /\ reviews = {}
    /\ calls = {}
    /\ tasks = [t \in Tasks |-> NoTask]
    /\ grants = {}
    /\ works = [w \in Works |-> [package |-> None, steps |-> 0]]

-----------------------------------------------------------------------------
(* Creating.                                                               *)

Begun(name, source, task, claim) ==
    [name |-> name, source |-> source, stage |-> "asking", content |-> None,
     package |-> None, task |-> task, claim |-> claim]

\* A request, which waits for the answer.
Ask(name, source) ==
    /\ Cardinality(calls) < MaxCalls
    /\ calls' = calls \cup {Begun(name, source, None, 0)}
    /\ UNCHANGED <<packages, reviews, tasks, grants, works>>

CreateTask(t, name, source) ==
    /\ tasks[t].state = "absent"
    /\ tasks' = [tasks EXCEPT ![t] = [NoTask EXCEPT !.state = "open", !.name = name,
                                                    !.source = source]]
    /\ UNCHANGED <<packages, reviews, calls, grants, works>>

\* A worker claims the task, or takes it over, and calls Create.
Execute(t) ==
    LET task == tasks[t]
    IN  /\ Cardinality(calls) < MaxCalls
        /\ task.state = "open" /\ task.claim < MaxClaims
        /\ tasks' = [tasks EXCEPT ![t] = [task EXCEPT !.claim = task.claim + 1]]
        /\ calls' = calls \cup {Begun(task.name, task.source, t, task.claim + 1)}
        /\ UNCHANGED <<packages, reviews, grants, works>>

Becomes(c, next) == calls' = (calls \ {c}) \cup {next}

\* The provider answers with a draft that passes.
Build(c) ==
    /\ c.stage = "asking"
    /\ \E content \in Contents :
          Becomes(c, [c EXCEPT !.content = content, !.stage = "ready"])
    /\ UNCHANGED <<packages, reviews, tasks, grants, works>>

NextVersion_First(v, name) == v = 1

\* The version after the highest, which nobody else can take: the lock is held
\* until the row is there.
NextVersion(v, name) ==
    /\ \A p \in packages : p.name = name => p.version < v
    /\ v = 1 \/ \E p \in packages : p.name = name /\ p.version = v - 1

\* Whoever asked may be told of a failure all the same.
Create(c) ==
    /\ c.stage = "ready"
    /\ \E v \in Versions :
          LET created == [name |-> c.name, version |-> v,
                          source |-> c.source, content |-> c.content]
          IN  /\ NextVersion(v, c.name)
              /\ packages' = packages \cup {created}
              /\ IF c.task = None THEN calls' = calls \ {c}
                 ELSE \/ Becomes(c, [c EXCEPT !.stage = "stored", !.package = Id(created)])
                      \/ Becomes(c, [c EXCEPT !.stage = "failed"])
    /\ UNCHANGED <<reviews, tasks, grants, works>>

\* The provider or the store fails, or the draft does not pass.
Fail(c) ==
    /\ c.stage \in {"asking", "ready"}
    /\ IF c.task = None THEN calls' = calls \ {c}
                        ELSE Becomes(c, [c EXCEPT !.stage = "failed"])
    /\ UNCHANGED <<packages, reviews, tasks, grants, works>>

\* The process exits.
Crash(c) ==
    /\ calls' = calls \ {c}
    /\ UNCHANGED <<packages, reviews, tasks, grants, works>>

Passes_Any(c) == c.stage = "stored"

\* agentquality.ProjectPackage, on the package the executor returned.
Passes(c) == c.stage = "stored" /\ c.content.covered

Holds_Open(c) == tasks[c.task].state = "open"

\* The claim of the worker is the last one, and the task is open.
Holds(c) == tasks[c.task].state = "open" /\ tasks[c.task].claim = c.claim

\* The worker settles the task, unless another has claimed it since.  A package
\* that does not pass is named all the same.
Report(c) ==
    /\ c.stage \in {"stored", "failed"}
    /\ tasks' = IF Holds(c)
                THEN [tasks EXCEPT ![c.task] =
                        [@ EXCEPT !.state = IF Passes(c) THEN "completed" ELSE "failed",
                                  !.package = c.package]]
                ELSE tasks
    /\ calls' = calls \ {c}
    /\ UNCHANGED <<packages, reviews, grants, works>>

-----------------------------------------------------------------------------
(* Reviewing.                                                              *)

ReviewsOf(p) == {r \in reviews : r.package = Id(p)}

NextSequence_Shared(n, p, artifact) == n = 1

\* The sequence after the highest of the artifact, under a lock like the version.
NextSequence(n, p, artifact) ==
    /\ \A r \in ReviewsOf(p) : r.artifact = artifact => r.sequence < n
    /\ n = 1 \/ \E r \in ReviewsOf(p) : r.artifact = artifact /\ r.sequence = n - 1

\* The reviewer names the hash of the package in hand.
SameHash(p, seen) == Definition(seen) = Definition(p)

Review(p, seen, artifact, decision) ==
    /\ Cardinality(reviews) < MaxReviews
    /\ SameHash(p, seen)
    /\ \E n \in 1..MaxReviews :
          /\ NextSequence(n, p, artifact)
          /\ reviews' = reviews \cup
                {[package |-> Id(p), artifact |-> artifact, hash |-> Definition(seen),
                  sequence |-> n, decision |-> decision]}
    /\ UNCHANGED <<packages, calls, tasks, grants, works>>

Ahead_Oldest(q, r) ==
    \/ q.artifact < r.artifact
    \/ q.artifact = r.artifact /\ q.sequence < r.sequence

\* By artifact, and the last review of an artifact first.
Ahead(q, r) ==
    \/ q.artifact < r.artifact
    \/ q.artifact = r.artifact /\ q.sequence > r.sequence

\* The list ends at the limit, whatever artifacts are still to come.
Listed(p) ==
    {r \in ReviewsOf(p) : Cardinality({q \in ReviewsOf(p) : Ahead(q, r)}) < Window}

\* The first that is listed of its artifact.
First(p, r) ==
    /\ r \in Listed(p)
    /\ \A q \in Listed(p) : q.artifact = r.artifact => ~Ahead(q, r)

\* requireApprovedPackage
Granted(p) ==
    /\ \A artifact \in Artifacts : \E r \in Listed(p) :
          /\ First(p, r) /\ r.artifact = artifact
          /\ r.decision = "approve" /\ r.hash = Definition(p)
    /\ p.content.covered

-----------------------------------------------------------------------------
(* The steps of development.                                               *)

\* What a request asks that is to take a session one step further; a session that
\* is to be created has no id yet.
Request(w, p) == [work |-> IF works[w].steps = 0 THEN None ELSE w,
                  steps |-> works[w].steps, package |-> Id(p)]

\* Create, Execute and Deliver find the package approved.  A session that was read
\* before and has changed since is refused at the write, so it is read here.
Admit(w, p) ==
    /\ works[w].steps < Steps
    /\ works[w].steps = 0 \/ works[w].package = Id(p)
    /\ Granted(p)
    /\ Cardinality(grants \cup {Request(w, p)}) <= MaxGrants
    /\ grants' = grants \cup {Request(w, p)}
    /\ UNCHANGED <<packages, reviews, calls, tasks, works>>

\* A request is done; others like it may be left.
Spent(g) == grants' = grants \/ grants' = grants \ {g}

\* A later check fails, the client goes away, the process exits.
Withdraw(g) ==
    /\ grants' = grants \ {g}
    /\ UNCHANGED <<packages, reviews, calls, tasks, works>>

\* A new session takes the package up.
Begin(g) ==
    /\ g.work = None
    /\ \E w \in Works :
          /\ works[w].steps = 0
          /\ works' = [works EXCEPT ![w] = [package |-> g.package, steps |-> 1]]
    /\ Spent(g)
    /\ UNCHANGED <<packages, reviews, calls, tasks>>

Unchanged_Ignored(g) == TRUE

\* The expected revision: the session is as it was read.
Unchanged(g) == works[g.work].steps = g.steps

\* It begins to execute or to deliver, which writes the copy that was read.
Proceed(g) ==
    /\ g.work # None
    /\ Unchanged(g)
    /\ works' = [works EXCEPT ![g.work] = [package |-> g.package, steps |-> g.steps + 1]]
    /\ Spent(g)
    /\ UNCHANGED <<packages, reviews, calls, tasks>>

-----------------------------------------------------------------------------

Next ==
    \/ \E name \in Names, source \in Sources :
          Ask(name, source) \/ \E t \in Tasks : CreateTask(t, name, source)
    \/ \E t \in Tasks : Execute(t)
    \/ \E c \in calls : Build(c) \/ Create(c) \/ Fail(c) \/ Crash(c) \/ Report(c)
    \/ \E p \in packages :
          \/ \E seen \in packages, artifact \in Artifacts, decision \in Decisions :
                Review(p, seen, artifact, decision)
          \/ \E w \in Works : Admit(w, p)
    \/ \E g \in grants : Withdraw(g) \/ Begin(g) \/ Proceed(g)

Spec == Init /\ [][Next]_vars

-----------------------------------------------------------------------------
(* Properties.                                                             *)

\* Every part of the state is of its kind, and a version names one row.
TypeOK ==
    /\ packages \subseteq Package
    /\ \A p, q \in packages : Id(p) = Id(q) => p = q
    /\ reviews \subseteq ArtifactReview
    /\ calls \subseteq Call
    /\ tasks \in [Tasks -> Task]
    /\ grants \subseteq Grant
    /\ works \in [Works -> Work]

\* The last review of the artifact, and the only one with its sequence, approves
\* this very definition.
Approved(p) ==
    \A artifact \in Artifacts : \E r \in ReviewsOf(p) :
        /\ r.artifact = artifact
        /\ r.decision = "approve" /\ r.hash = Definition(p)
        /\ \A q \in ReviewsOf(p) \ {r} :
              q.artifact = artifact => q.sequence < r.sequence

\* Development lets nothing pass but a package whose every artifact was at that
\* moment last approved for what it says, and which leads each requirement of its
\* PRD to a section of every document, though the reviews are read through a list
\* that ends early and the trace is judged by the gaps of its records
\* (requireApprovedPackage, validateTraceability).  And each step of a session was
\* let pass for itself, since the step before: a review that comes between the check
\* and the write is missed by that step and by none after it (the expected revision
\* of Store.Update).
StandsOnReview ==
    [][/\ \A g \in grants' \ grants :
             \E p \in packages : /\ Id(p) = g.package
                                 /\ Approved(p) /\ p.content.whole
       /\ \A w \in Works : works'[w] # works[w] =>
             \E g \in grants :
                /\ g.work = IF works[w].steps = 0 THEN None ELSE w
                /\ g.steps = works[w].steps /\ g.package = works'[w].package]_vars

\* A completed task names a package of its name, from its session, without a gap,
\* though it may have been executed twice and have left two versions, of which
\* only one may be whole.  The verdict is that of the last claim: while its execution
\* is under way, nobody who lost the task settles it (agenttask.Complete).
TaskTruthful ==
    \A t \in Tasks :
        /\ tasks[t].state = "completed" =>
              \E p \in packages : /\ Id(p) = tasks[t].package /\ p.content.whole
                                  /\ p.name = tasks[t].name /\ p.source = tasks[t].source
        /\ tasks[t].state # "open" =>
              \A c \in calls : c.task = t => c.claim < tasks[t].claim
=============================================================================
