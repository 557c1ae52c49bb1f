----------------------- MODULE ProjectPackagesProofs -----------------------
(***************************************************************************)
(* What holds of ProjectPackages for any number of sessions, names,        *)
(* artifacts, documents, requirements, reviews, and any length of the list *)
(* of reviews.  The invariant IInv adds to the types that the reviews are  *)
(* finitely many and numbered without repetition, what an execution knows  *)
(* of its task and of the row it stored, that no two have one claim, and   *)
(* that a request to development names its session if there is one.        *)
(***************************************************************************)
EXTENDS ProjectPackages, TLAPS, FiniteSetTheorems, SequenceTheorems

\* No two reviews of an artifact of a package have one number.
Numbered ==
    /\ IsFiniteSet(reviews)
    /\ \A q, r \in reviews :
          q.package = r.package /\ q.artifact = r.artifact /\ q.sequence = r.sequence
              => q = r

\* A draft that passed is at hand from the answer of the provider on; only
\* executions of tasks wait to be reported, for the task they were begun for, and
\* one that stored a row knows which.
CallKnows(c) ==
    /\ c.stage \in {"ready", "stored"} => c.content \in Contents
    /\ c.stage \in {"stored", "failed"} => c.task \in Tasks
    /\ c.task \in Tasks => /\ tasks[c.task].state # "absent"
                           /\ c.name = tasks[c.task].name
                           /\ c.source = tasks[c.task].source
                           /\ c.claim <= tasks[c.task].claim
    /\ c.stage = "stored" =>
          \E p \in packages : /\ Id(p) = c.package /\ p.content = c.content
                              /\ p.name = c.name /\ p.source = c.source

\* A task names what it is for from the start.
TaskOpen ==
    \A t \in Tasks : tasks[t].state # "absent" =>
        tasks[t].name \in Names /\ tasks[t].source \in Sources

\* A claim is that of one execution.
OneEach ==
    \A c, d \in calls :
        c.task \in Tasks /\ d.task = c.task /\ d.claim = c.claim => d = c

\* A request to create a session has none, and every other one does.
GrantsKnown == \A g \in grants : g.work = None <=> g.steps = 0

IInv ==
    /\ TypeOK /\ Numbered /\ TaskOpen /\ TaskTruthful /\ OneEach /\ GrantsKnown
    /\ \A c \in calls : CallKnows(c)

-----------------------------------------------------------------------------
(* The trace of a draft that passed.                                       *)

\* A draft with as many records as requirements, none of which repeats, has a
\* record for each.
LEMMA EveryRequirementTraced ==
    ASSUME NEW draft \in Draft, ValidTrace(draft), NEW requirement \in draft.prd
    PROVE  \E i \in DOMAIN draft.records : draft.records[i].requirement = requirement
  <1> DEFINE n == Cardinality(draft.prd)
             f == [i \in 1..n |-> draft.records[i].requirement]
  <1>1. draft.prd \subseteq Requirements /\ IsFiniteSet(draft.prd)
    BY PackageConstants, FS_Subset DEF Draft
  <1>2. n \in Nat
    BY <1>1, FS_CardinalityType
  <1>3. PICK m \in 0..Cardinality(Requirements) : draft.records \in [1..m -> TraceRecord]
    BY DEF Draft, Traces
  <1>4. m \in Nat
    BY <1>3, PackageConstants, FS_CardinalityType
  <1>5. DOMAIN draft.records = 1..n
    <2>1. draft.records \in Seq(TraceRecord)
      BY <1>3, <1>4, SeqDef
    <2>2. Len(draft.records) = n
      BY DEF ValidTrace, ValidTrace_Repeated
    <2> QED
      BY <2>1, <2>2, LenProperties
  <1>6. f \in Injection(1..n, draft.prd)
    BY <1>5 DEF ValidTrace, ValidTrace_Repeated, Injection, IsInjective
  <1>7. Cardinality(1..n) = Cardinality(draft.prd)
    BY <1>2, FS_Interval
  <1>8. f \in Surjection(1..n, draft.prd)
    BY <1>1, <1>6, <1>7, FS_Injection
  <1> QED
    BY <1>5, <1>8 DEF Surjection

\* What is stored as covered is whole (validateTraceability).
LEMMA CoveredIsWhole ==
    ASSUME NEW content \in Contents, content.covered
    PROVE  content.whole
  <1>1. PICK draft \in Draft, text \in Texts :
           ValidTrace(draft) /\ content = Stored(draft, text)
    BY DEF Contents
  <1>2. \A i \in DOMAIN draft.records : Gaps(draft.records[i]) = {}
    BY <1>1 DEF Stored
  <1>3. ASSUME NEW requirement \in draft.prd
        PROVE  \E i \in DOMAIN draft.records :
                  LET record == draft.records[i]
                  IN  /\ record.requirement = requirement
                      /\ \A d \in Documents : \/ record.links[d] = "known"
                                              \/ d = Api /\ record.reason
    <2>1. PICK i \in DOMAIN draft.records : draft.records[i].requirement = requirement
      BY <1>1, EveryRequirementTraced
    <2>2. draft.records[i] \in TraceRecord
      BY DEF Draft, Traces
    <2>3. ValidLinks(draft.records[i])
      BY <1>1 DEF ValidTrace, ValidTrace_Repeated
    <2>4. Gaps(draft.records[i]) = {}
      BY <1>2
    <2>5. ASSUME NEW d \in Documents
          PROVE  \/ draft.records[i].links[d] = "known"
                 \/ d = Api /\ draft.records[i].reason
      BY <2>2, <2>3, <2>4 DEF ValidLinks, Gaps, TraceRecord, Links
    <2> QED
      BY <2>1, <2>5
  <1>4. Whole(draft)
    BY <1>3 DEF Whole
  <1> QED
    BY <1>1, <1>4 DEF Stored

-----------------------------------------------------------------------------
(* The list of reviews.                                                    *)

LEMMA AheadTransitive ==
    ASSUME TypeOK, NEW q \in reviews, NEW r \in reviews, NEW s \in reviews,
           Ahead(q, r), Ahead(r, s)
    PROVE  Ahead(q, s)
  <1>1. ASSUME NEW x \in reviews
        PROVE  x.artifact \in Nat /\ x.sequence \in Nat
    <2>1. x \in ArtifactReview
      BY DEF TypeOK
    <2>2. x.artifact \in Artifacts
      BY <2>1 DEF ArtifactReview
    <2>3. x.sequence \in 1..MaxReviews
      BY <2>1 DEF ArtifactReview
    <2>4. x.artifact \in Nat
      BY <2>2, PackageConstants
    <2>5. x.sequence \in Nat
      BY <2>3, PackageConstants
    <2> QED
      BY <2>4, <2>5
  <1>2. /\ q.artifact \in Nat /\ r.artifact \in Nat /\ s.artifact \in Nat
        /\ q.sequence \in Nat /\ r.sequence \in Nat /\ s.sequence \in Nat
    BY <1>1
  <1> QED
    BY <1>2 DEF Ahead

\* What is ahead of a review that is listed is listed: a list that ends early
\* keeps the last review of every artifact it names at all.
LEMMA ListedFromTheFront ==
    ASSUME TypeOK, IsFiniteSet(reviews), NEW p, NEW q \in ReviewsOf(p),
           NEW r \in Listed(p), Ahead(q, r)
    PROVE  q \in Listed(p)
  <1> DEFINE Before(x) == {y \in ReviewsOf(p) : Ahead(y, x)}
  <1>1. r \in ReviewsOf(p) /\ Cardinality(Before(r)) < Window
    BY DEF Listed
  <1>2. ReviewsOf(p) \subseteq reviews
    BY DEF ReviewsOf
  <1>3. Before(q) \subseteq Before(r)
    BY <1>1, <1>2, AheadTransitive
  <1>4. IsFiniteSet(Before(r))
    BY <1>2, FS_Subset
  <1>5. /\ Cardinality(Before(q)) <= Cardinality(Before(r))
        /\ Cardinality(Before(q)) \in Nat /\ Cardinality(Before(r)) \in Nat
    BY <1>3, <1>4, FS_Subset, FS_CardinalityType
  <1>6. Cardinality(Before(q)) < Window
    BY <1>1, <1>5, PackageConstants
  <1> QED
    BY <1>6 DEF Listed

\* requireApprovedPackage grants nothing but what is approved.
LEMMA GrantedIsApproved ==
    ASSUME TypeOK, Numbered, NEW p \in packages, Granted(p)
    PROVE  Approved(p) /\ p.content.whole
  <1>1. ASSUME NEW artifact \in Artifacts
        PROVE  \E r \in ReviewsOf(p) :
                  /\ r.artifact = artifact
                  /\ r.decision = "approve" /\ r.hash = Definition(p)
                  /\ \A q \in ReviewsOf(p) \ {r} :
                        q.artifact = artifact => q.sequence < r.sequence
    <2>1. PICK r \in Listed(p) : /\ First(p, r) /\ r.artifact = artifact
                                 /\ r.decision = "approve" /\ r.hash = Definition(p)
      BY DEF Granted
    <2>2. r \in ReviewsOf(p)
      BY DEF Listed
    <2>3. ASSUME NEW q \in ReviewsOf(p) \ {r}, q.artifact = artifact
          PROVE  q.sequence < r.sequence
      <3>1. q \in reviews /\ r \in reviews /\ q.package = r.package
        BY <2>2 DEF ReviewsOf
      <3>2. q.sequence \in Nat /\ r.sequence \in Nat
        BY <3>1, PackageConstants DEF TypeOK, ArtifactReview
      <3>3. q.sequence # r.sequence
        BY <2>1, <2>3, <3>1 DEF Numbered
      <3>4. ~Ahead(q, r)
        <4>1. SUFFICES ASSUME Ahead(q, r) PROVE FALSE
          OBVIOUS
        <4>2. q \in Listed(p)
          BY <4>1, ListedFromTheFront DEF Numbered
        <4> QED
          BY <2>1, <2>3, <4>1, <4>2 DEF First
      <3> QED
        BY <2>1, <2>3, <3>2, <3>3, <3>4 DEF Ahead
    <2> QED
      BY <2>1, <2>2, <2>3
  <1>2. p.content \in Contents /\ p.content.covered
    BY DEF TypeOK, Package, Granted
  <1> QED
    BY <1>1, <1>2, CoveredIsWhole DEF Approved

-----------------------------------------------------------------------------
(* The invariant.                                                          *)

LEMMA NoTaskType == NoTask \in Task
  BY PackageConstants DEF NoTask, Task

LEMMA InitInvariant == Init => IInv
  <1> SUFFICES ASSUME Init PROVE IInv
    OBVIOUS
  <1>1. TypeOK
    <2>1. NoTask \in Task
      BY NoTaskType
    <2>2. [package |-> None, steps |-> 0] \in Work
      BY PackageConstants DEF Work
    <2> QED
      BY <2>1, <2>2 DEF Init, TypeOK
  <1>2. Numbered
    BY FS_EmptySet DEF Init, Numbered
  <1>3. (\A c \in calls : CallKnows(c)) /\ TaskTruthful /\ TaskOpen /\ OneEach /\ GrantsKnown
    BY DEF Init, TaskTruthful, TaskOpen, NoTask, OneEach, GrantsKnown
  <1> QED
    BY <1>1, <1>2, <1>3 DEF IInv

\* A call that ends, or that goes on under the claim it has, settles nothing.
LEMMA CallGoesOn ==
    ASSUME IInv, NEW c \in calls, NEW next, next.task = c.task, next.claim = c.claim,
           calls' = calls \ {c} \/ calls' = (calls \ {c}) \cup {next},
           tasks' = tasks, packages \subseteq packages'
    PROVE  TaskTruthful' /\ OneEach'
  <1>1. TaskTruthful'
    <2>1. ASSUME NEW t \in Tasks, tasks[t].state # "open", NEW d \in calls', d.task = t
          PROVE  d.claim < tasks[t].claim
      BY <2>1 DEF IInv, TaskTruthful
    <2> QED
      BY <2>1 DEF IInv, TaskTruthful
  <1>2. OneEach'
    BY DEF IInv, OneEach
  <1> QED
    BY <1>1, <1>2

\* Ask and Execute add a call that has not been answered.
LEMMA BegunType ==
    ASSUME NEW name \in Names, NEW source \in Sources,
           NEW task \in Tasks \cup {None}, NEW claim \in 0..MaxClaims
    PROVE  /\ Begun(name, source, task, claim) \in Call
           /\ Begun(name, source, task, claim).stage = "asking"
           /\ Begun(name, source, task, claim).task = task
           /\ Begun(name, source, task, claim).name = name
           /\ Begun(name, source, task, claim).source = source
           /\ Begun(name, source, task, claim).claim = claim
  BY DEF Begun, Call

LEMMA AskInvariant ==
    ASSUME IInv, NEW name \in Names, NEW source \in Sources, Ask(name, source)
    PROVE  IInv'
  <1> DEFINE new == Begun(name, source, None, 0)
  <1>1. new \in Call /\ new.stage = "asking" /\ new.task = None
    BY PackageConstants, BegunType
  <1>2. TypeOK'
    BY <1>1 DEF Ask, IInv, TypeOK
  <1>3. (\A c \in calls : CallKnows(c))'
    BY <1>1, PackageConstants DEF Ask, IInv, CallKnows
  <1>4. TaskTruthful' /\ OneEach'
    BY <1>1, PackageConstants DEF Ask, IInv, TaskTruthful, OneEach
  <1>5. Numbered' /\ TaskOpen' /\ GrantsKnown'
    BY DEF Ask, IInv, Numbered, TaskOpen, GrantsKnown
  <1> QED
    BY <1>2, <1>3, <1>4, <1>5 DEF IInv

LEMMA CreateTaskInvariant ==
    ASSUME IInv, NEW t \in Tasks, NEW name \in Names, NEW source \in Sources,
           CreateTask(t, name, source)
    PROVE  IInv'
  <1> DEFINE new == [NoTask EXCEPT !.state = "open", !.name = name, !.source = source]
  <1>1. /\ tasks' = [tasks EXCEPT ![t] = new] /\ new \in Task /\ new.state = "open"
        /\ new.name = name /\ new.source = source
    <2>1. /\ new \in Task /\ new.state = "open"
          /\ new.name = name /\ new.source = source
      BY NoTaskType DEF NoTask, Task
    <2> QED
      BY <2>1 DEF CreateTask
  <1>2. TypeOK'
    BY <1>1 DEF CreateTask, IInv, TypeOK
  <1>3. (\A c \in calls : CallKnows(c))'
    <2>1. ASSUME NEW c \in calls PROVE CallKnows(c)'
      <3>1. c.task # t
        BY DEF CreateTask, IInv, CallKnows
      <3> QED
        BY <1>1, <3>1 DEF CreateTask, IInv, CallKnows, TypeOK
    <2> QED
      BY <2>1 DEF CreateTask
  <1>4. TaskTruthful' /\ TaskOpen'
    BY <1>1 DEF CreateTask, IInv, TaskTruthful, TaskOpen, TypeOK
  <1>5. Numbered' /\ OneEach' /\ GrantsKnown'
    BY DEF CreateTask, IInv, Numbered, OneEach, GrantsKnown
  <1> QED
    BY <1>2, <1>3, <1>4, <1>5 DEF IInv

LEMMA ExecuteInvariant ==
    ASSUME IInv, NEW t \in Tasks, Execute(t)
    PROVE  IInv'
  <1> DEFINE task == tasks[t]
             new == Begun(task.name, task.source, t, task.claim + 1)
             next == [task EXCEPT !.claim = task.claim + 1]
  <1>1. task \in Task /\ task.state = "open" /\ task.claim + 1 \in 0..MaxClaims
    BY PackageConstants DEF Execute, IInv, TypeOK, Task
  <1>2. /\ next \in Task /\ next.state = task.state /\ next.name = task.name
        /\ next.source = task.source /\ next.package = task.package
        /\ next.claim = task.claim + 1 /\ task.claim \in Nat
    BY <1>1 DEF Task
  <1>3. tasks' = [tasks EXCEPT ![t] = next] /\ calls' = calls \cup {new}
    BY DEF Execute
  <1>4. task.name \in Names /\ task.source \in Sources
    BY <1>1 DEF IInv, TaskOpen
  <1>5. /\ new \in Call /\ new.stage = "asking" /\ new.task = t
        /\ new.name = task.name /\ new.source = task.source
        /\ new.claim = task.claim + 1
    BY <1>1, <1>4, BegunType
  <1>6. TypeOK'
    BY <1>2, <1>3, <1>5 DEF Execute, IInv, TypeOK
  <1>7. (\A c \in calls : CallKnows(c))'
    <2>1. ASSUME NEW c \in calls PROVE CallKnows(c)'
      <3>1. CallKnows(c) /\ c.claim \in Nat
        BY DEF IInv, TypeOK, Call
      <3>2. ASSUME c.task \in Tasks PROVE /\ tasks'[c.task].state = tasks[c.task].state
                                          /\ tasks'[c.task].name = tasks[c.task].name
                                          /\ tasks'[c.task].source = tasks[c.task].source
                                          /\ c.claim <= tasks'[c.task].claim
        <4>1. CASE c.task # t
          BY <1>3, <3>1, <3>2, <4>1 DEF IInv, TypeOK, CallKnows
        <4>2. CASE c.task = t
          <5>1. tasks'[t] = next
            BY <1>3 DEF IInv, TypeOK
          <5>2. c.claim <= task.claim
            BY <3>1, <4>2 DEF CallKnows
          <5> QED
            BY <1>2, <3>1, <4>2, <5>1, <5>2
        <4> QED
          BY <4>1, <4>2
      <3>3. packages' = packages
        BY DEF Execute
      <3> QED
        BY <3>1, <3>2, <3>3 DEF CallKnows
    <2>2. ASSUME NEW c \in calls', c \notin calls PROVE CallKnows(c)'
      <3>1. c = new /\ tasks'[t] = next
        BY <1>3, <2>2 DEF IInv, TypeOK
      <3>2. /\ tasks'[t].state # "absent" /\ tasks'[t].name = task.name
            /\ tasks'[t].source = task.source /\ tasks'[t].claim = task.claim + 1
        BY <1>1, <1>2, <3>1
      <3>3. /\ c.task = t /\ c.stage = "asking" /\ c.name = task.name
            /\ c.source = task.source /\ c.claim = task.claim + 1
        BY <1>5, <3>1
      <3>4. c.claim <= tasks'[c.task].claim
        BY <1>2, <3>2, <3>3
      <3> QED
        BY <3>2, <3>3, <3>4 DEF CallKnows
    <2> QED
      BY <2>1, <2>2
  <1>8. TaskTruthful' /\ TaskOpen'
    BY <1>1, <1>2, <1>3, <1>5 DEF Execute, IInv, TaskTruthful, TypeOK, TaskOpen
  <1>9. OneEach'
    <2>1. ASSUME NEW c \in calls, c.task = t PROVE c.claim # new.claim
      <3>1. c.claim <= task.claim /\ c.claim \in Nat
        BY <2>1 DEF IInv, CallKnows, TypeOK, Call
      <3> QED
        BY <1>2, <1>5, <3>1
    <2> QED
      BY <1>3, <1>5, <2>1 DEF IInv, OneEach
  <1>10. Numbered' /\ GrantsKnown'
    BY DEF Execute, IInv, Numbered, GrantsKnown
  <1> QED
    BY <1>6, <1>7, <1>8, <1>9, <1>10 DEF IInv

\* Build and Fail replace a call by one that knows no more of rows.
LEMMA BuildInvariant ==
    ASSUME IInv, NEW c \in calls, Build(c)
    PROVE  IInv'
  <1>1. PICK content \in Contents :
           calls' = (calls \ {c}) \cup {[c EXCEPT !.content = content, !.stage = "ready"]}
    BY DEF Build, Becomes
  <1> DEFINE next == [c EXCEPT !.content = content, !.stage = "ready"]
  <1>2. c \in Call /\ CallKnows(c) /\ c.stage = "asking"
    BY DEF IInv, TypeOK, Build
  <1>3. /\ next \in Call /\ next.stage = "ready" /\ next.content \in Contents
        /\ next.task = c.task /\ next.name = c.name /\ next.source = c.source
        /\ next.claim = c.claim
    BY <1>2 DEF Call
  <1>4. TypeOK'
    BY <1>1, <1>3 DEF Build, IInv, TypeOK
  <1>5. (\A d \in calls : CallKnows(d))'
    <2>1. ASSUME NEW d \in calls PROVE CallKnows(d)'
      BY DEF Build, IInv, CallKnows
    <2>2. CallKnows(next)'
      BY <1>2, <1>3 DEF Build, CallKnows
    <2> QED
      BY <1>1, <2>1, <2>2
  <1>6. TaskTruthful' /\ OneEach'
    BY <1>1, <1>3, CallGoesOn DEF Build
  <1>7. Numbered' /\ TaskOpen' /\ GrantsKnown'
    BY DEF Build, IInv, Numbered, TaskOpen, GrantsKnown
  <1> QED
    BY <1>4, <1>5, <1>6, <1>7 DEF IInv

LEMMA FailInvariant ==
    ASSUME IInv, NEW c \in calls, Fail(c)
    PROVE  IInv'
  <1> DEFINE next == [c EXCEPT !.stage = "failed"]
  <1>1. c \in Call /\ CallKnows(c)
    BY DEF IInv, TypeOK
  <1>2. \/ calls' = calls \ {c}
        \/ c.task \in Tasks /\ calls' = (calls \ {c}) \cup {next}
    BY <1>1 DEF Fail, Becomes, Call
  <1>3. /\ next \in Call /\ next.stage = "failed" /\ next.claim = c.claim
        /\ next.task = c.task /\ next.name = c.name /\ next.source = c.source
    BY <1>1 DEF Call
  <1>4. TypeOK'
    BY <1>2, <1>3 DEF Fail, IInv, TypeOK
  <1>5. (\A d \in calls : CallKnows(d))'
    <2>1. ASSUME NEW d \in calls PROVE CallKnows(d)'
      BY DEF Fail, IInv, CallKnows
    <2>2. c.task \in Tasks /\ next \in calls' => CallKnows(next)'
      BY <1>1, <1>3 DEF Fail, CallKnows
    <2>3. ASSUME NEW d \in calls' PROVE CallKnows(d)'
      <3>1. CASE d \in calls
        BY <2>1, <3>1
      <3>2. CASE d \notin calls
        <4>1. d = next /\ c.task \in Tasks
          BY <1>2, <3>2
        <4> QED
          BY <2>2, <4>1
      <3> QED
        BY <3>1, <3>2
    <2> QED
      BY <2>3
  <1>6. TaskTruthful' /\ OneEach'
    BY <1>2, <1>3, CallGoesOn DEF Fail
  <1>7. Numbered' /\ TaskOpen' /\ GrantsKnown'
    BY DEF Fail, IInv, Numbered, TaskOpen, GrantsKnown
  <1> QED
    BY <1>4, <1>5, <1>6, <1>7 DEF IInv

\* The new row has a version that no row of its name has, and the call, if one is
\* left, knows the row.
LEMMA CreateInvariant ==
    ASSUME IInv, NEW c \in calls, Create(c)
    PROVE  IInv'
  <1>1. PICK v \in Versions :
           LET created == [name |-> c.name, version |-> v,
                           source |-> c.source, content |-> c.content]
           IN  /\ NextVersion(v, c.name)
               /\ packages' = packages \cup {created}
               /\ IF c.task = None THEN calls' = calls \ {c}
                  ELSE \/ Becomes(c, [c EXCEPT !.stage = "stored", !.package = Id(created)])
                       \/ Becomes(c, [c EXCEPT !.stage = "failed"])
    BY DEF Create
  <1> DEFINE created == [name |-> c.name, version |-> v,
                         source |-> c.source, content |-> c.content]
             stored == [c EXCEPT !.stage = "stored", !.package = Id(created)]
             failed == [c EXCEPT !.stage = "failed"]
  <1>2. c \in Call /\ CallKnows(c) /\ c.stage = "ready"
    BY DEF IInv, TypeOK, Create
  <1>3. /\ created \in Package /\ created.name = c.name /\ created.version = v
        /\ created.source = c.source /\ created.content = c.content
        /\ Id(created) \in Ids
    BY <1>2 DEF Call, CallKnows, Package, Id, Ids
  <1>4. /\ stored \in Call /\ stored.stage = "stored" /\ stored.package = Id(created)
        /\ stored.task = c.task /\ stored.name = c.name /\ stored.source = c.source
        /\ stored.content = c.content /\ stored.claim = c.claim
    BY <1>2, <1>3 DEF Call
  <1>5. /\ failed \in Call /\ failed.stage = "failed" /\ failed.task = c.task
        /\ failed.name = c.name /\ failed.source = c.source /\ failed.claim = c.claim
    BY <1>2 DEF Call
  <1>6. /\ packages' = packages \cup {created}
        /\ \/ calls' = calls \ {c}
           \/ c.task \in Tasks /\ calls' = (calls \ {c}) \cup {stored}
           \/ c.task \in Tasks /\ calls' = (calls \ {c}) \cup {failed}
    BY <1>1, <1>2 DEF Becomes, Call
  <1>7. \A p, q \in packages' : Id(p) = Id(q) => p = q
    <2>1. \A p \in packages : Id(p) # Id(created)
      <3>1. SUFFICES ASSUME NEW p \in packages, Id(p) = Id(created) PROVE FALSE
        OBVIOUS
      <3>2. p.name = c.name /\ p.version = v
        BY <1>3, <3>1 DEF Id
      <3>3. v \in Nat /\ p.version < v
        BY <1>1, <3>2 DEF NextVersion, Versions
      <3> QED
        BY <3>2, <3>3
    <2> QED
      BY <1>6, <2>1 DEF IInv, TypeOK
  <1>8. TypeOK'
    BY <1>3, <1>4, <1>5, <1>6, <1>7 DEF Create, IInv, TypeOK
  <1>9. (\A d \in calls : CallKnows(d))'
    <2>1. ASSUME NEW d \in calls PROVE CallKnows(d)'
      BY <1>6 DEF Create, IInv, CallKnows
    <2>2. c.task \in Tasks /\ stored \in calls' => CallKnows(stored)'
      BY <1>2, <1>3, <1>4, <1>6 DEF Create, CallKnows
    <2>3. c.task \in Tasks /\ failed \in calls' => CallKnows(failed)'
      BY <1>2, <1>5 DEF Create, CallKnows
    <2> QED
      BY <1>6, <2>1, <2>2, <2>3
  <1>10. TaskTruthful' /\ OneEach'
    BY <1>4, <1>5, <1>6, CallGoesOn DEF Create
  <1>11. Numbered' /\ TaskOpen' /\ GrantsKnown'
    BY <1>6 DEF Create, IInv, Numbered, TaskOpen, GrantsKnown
  <1> QED
    BY <1>8, <1>9, <1>10, <1>11 DEF IInv

LEMMA CrashInvariant ==
    ASSUME IInv, NEW c \in calls, Crash(c)
    PROVE  IInv'
  <1>1. TypeOK' /\ (\A d \in calls : CallKnows(d))'
    BY DEF Crash, IInv, TypeOK, CallKnows
  <1>2. Numbered' /\ TaskTruthful' /\ TaskOpen' /\ OneEach' /\ GrantsKnown'
    BY DEF Crash, IInv, Numbered, TaskTruthful, TaskOpen, OneEach, GrantsKnown
  <1> QED
    BY <1>1, <1>2 DEF IInv

\* A task that completes names the row of the execution that reports, which passed
\* and so is whole.
LEMMA ReportInvariant ==
    ASSUME IInv, NEW c \in calls, Report(c)
    PROVE  IInv'
  <1> DEFINE next == [tasks[c.task] EXCEPT
                        !.state = IF Passes(c) THEN "completed" ELSE "failed",
                        !.package = c.package]
  <1>1. c \in Call /\ CallKnows(c) /\ c.task \in Tasks
    BY DEF IInv, TypeOK, Report, CallKnows
  <1>2. CASE ~Holds(c)
    <2>1. TypeOK' /\ (\A d \in calls : CallKnows(d))'
      BY <1>2 DEF Report, IInv, TypeOK, CallKnows
    <2>2. Numbered' /\ TaskTruthful' /\ TaskOpen' /\ OneEach' /\ GrantsKnown'
      BY <1>2 DEF Report, IInv, Numbered, TaskTruthful, TaskOpen, OneEach, GrantsKnown
    <2> QED
      BY <2>1, <2>2 DEF IInv
  <1>3. CASE Holds(c)
    <2>1. tasks' = [tasks EXCEPT ![c.task] = next] /\ calls' = calls \ {c}
      BY <1>3 DEF Report
    <2>2. tasks[c.task] \in Task /\ c.package \in Ids \cup {None}
      BY <1>1 DEF IInv, TypeOK, Call
    <2>3. /\ next \in Task /\ next.state \in {"completed", "failed"}
          /\ next.name = tasks[c.task].name /\ next.source = tasks[c.task].source
          /\ next.package = c.package /\ (next.state = "completed" <=> Passes(c))
          /\ next.claim = tasks[c.task].claim
      BY <2>2 DEF Task
    <2>4. TypeOK'
      BY <1>1, <2>1, <2>3 DEF Report, IInv, TypeOK
    <2>5. (\A d \in calls : CallKnows(d))'
      BY <1>1, <2>1, <2>3 DEF Report, IInv, CallKnows, TypeOK
    <2>6. TaskOpen'
      BY <1>1, <1>3, <2>1, <2>3 DEF Report, IInv, TaskOpen, TypeOK, Holds
    <2>7. TaskTruthful'
      <3>1. Passes(c) =>
               \E p \in packages : /\ Id(p) = next.package /\ p.content.whole
                                   /\ p.name = next.name /\ p.source = next.source
        BY <1>1, <2>3, CoveredIsWhole DEF Passes, CallKnows
      <3>2. ASSUME NEW d \in calls \ {c}, d.task = c.task PROVE d.claim < next.claim
        <4>1. d.claim \in Nat /\ c.claim \in Nat /\ d.claim <= tasks[c.task].claim
          BY <1>1, <3>2 DEF IInv, CallKnows, TypeOK, Call
        <4>2. d.claim # c.claim /\ c.claim = tasks[c.task].claim
          BY <1>1, <1>3, <3>2 DEF IInv, OneEach, Holds
        <4> QED
          BY <2>3, <4>1, <4>2
      <3>3. ASSUME NEW t \in Tasks, t # c.task PROVE tasks'[t] = tasks[t]
        BY <2>1, <3>3 DEF IInv, TypeOK
      <3>4. tasks'[c.task] = next
        BY <1>1, <2>1 DEF IInv, TypeOK
      <3> QED
        BY <1>1, <2>1, <2>3, <3>1, <3>2, <3>3, <3>4 DEF Report, IInv, TaskTruthful
    <2>8. Numbered' /\ OneEach' /\ GrantsKnown'
      BY <2>1 DEF Report, IInv, Numbered, OneEach, GrantsKnown
    <2> QED
      BY <2>4, <2>5, <2>6, <2>7, <2>8 DEF IInv
  <1> QED
    BY <1>2, <1>3

\* The new review has a number that no review of its artifact has.
LEMMA ReviewInvariant ==
    ASSUME IInv, NEW p \in packages, NEW seen \in packages,
           NEW artifact \in Artifacts, NEW decision \in Decisions,
           Review(p, seen, artifact, decision)
    PROVE  IInv'
  <1>1. PICK n \in 1..MaxReviews :
           /\ NextSequence(n, p, artifact)
           /\ reviews' = reviews \cup
                {[package |-> Id(p), artifact |-> artifact, hash |-> Definition(seen),
                  sequence |-> n, decision |-> decision]}
    BY DEF Review
  <1> DEFINE new == [package |-> Id(p), artifact |-> artifact, hash |-> Definition(seen),
                     sequence |-> n, decision |-> decision]
  <1>2. p \in Package /\ seen \in Package
    BY DEF IInv, TypeOK
  <1>3. Id(p) \in Ids /\ Definition(seen) \in Definitions
    BY <1>2 DEF Package, Id, Ids, Definition, Definitions
  <1>4. new \in ArtifactReview
    BY <1>3 DEF ArtifactReview
  <1>5. TypeOK'
    BY <1>1, <1>4 DEF Review, IInv, TypeOK
  <1>6. Numbered'
    <2>1. IsFiniteSet(reviews')
      BY <1>1, FS_AddElement DEF IInv, Numbered
    <2>2. \A r \in reviews : ~(/\ r.package = new.package /\ r.artifact = new.artifact
                               /\ r.sequence = new.sequence)
      <3>1. SUFFICES ASSUME NEW r \in reviews, r.package = Id(p), r.artifact = artifact,
                            r.sequence = n
                     PROVE  FALSE
        OBVIOUS
      <3>2. n \in Nat /\ r.sequence < n
        BY <1>1, <3>1, PackageConstants DEF NextSequence, ReviewsOf
      <3> QED
        BY <3>1, <3>2
    <2> QED
      BY <1>1, <2>1, <2>2 DEF IInv, Numbered
  <1>7. (\A c \in calls : CallKnows(c))' /\ TaskTruthful' /\ TaskOpen'
    BY DEF Review, IInv, CallKnows, TaskTruthful, TaskOpen
  <1>8. OneEach' /\ GrantsKnown'
    BY DEF Review, IInv, OneEach, GrantsKnown
  <1> QED
    BY <1>5, <1>6, <1>7, <1>8 DEF IInv

\* A request that is let pass names the session, if there is one.
LEMMA AdmitInvariant ==
    ASSUME IInv, NEW w \in Works, NEW p \in packages, Admit(w, p)
    PROVE  IInv'
  <1> DEFINE new == Request(w, p)
  <1>1. grants' = grants \cup {new}
    BY DEF Admit
  <1>2. p \in Package /\ works[w] \in Work /\ works[w].steps < Steps
    BY DEF IInv, TypeOK, Admit
  <1>3. new \in Grant /\ (new.work = None <=> new.steps = 0)
    <2>1. Id(p) \in Ids
      BY <1>2 DEF Package, Id, Ids
    <2>2. works[w].steps \in 0..Steps - 1
      BY <1>2, PackageConstants DEF Work
    <2>3. w # None
      BY PackageConstants
    <2> QED
      BY <2>1, <2>2, <2>3 DEF Request, Grant
  <1>4. TypeOK' /\ GrantsKnown'
    BY <1>1, <1>3 DEF Admit, IInv, TypeOK, GrantsKnown
  <1>5. (\A c \in calls : CallKnows(c))' /\ Numbered'
    BY DEF Admit, IInv, CallKnows, Numbered
  <1>6. TaskTruthful' /\ TaskOpen' /\ OneEach'
    BY DEF Admit, IInv, TaskTruthful, TaskOpen, OneEach
  <1> QED
    BY <1>4, <1>5, <1>6 DEF IInv

\* What a step of development writes is a session.
LEMMA WorkInvariant ==
    ASSUME IInv, NEW g \in grants, Withdraw(g) \/ Begin(g) \/ Proceed(g)
    PROVE  IInv'
  <1>1. g \in Grant /\ grants' \subseteq grants
    BY DEF IInv, TypeOK, Withdraw, Begin, Proceed, Spent
  <1>2. /\ [package |-> g.package, steps |-> 1] \in Work
        /\ [package |-> g.package, steps |-> g.steps + 1] \in Work
    BY <1>1, PackageConstants DEF Work, Grant
  <1>3. works' \in [Works -> Work]
    <2>1. CASE Begin(g)
      BY <1>2, <2>1 DEF Begin, IInv, TypeOK
    <2>2. CASE Proceed(g)
      BY <1>2, <2>2 DEF Proceed, IInv, TypeOK
    <2>3. CASE Withdraw(g)
      BY <2>3 DEF Withdraw, IInv, TypeOK
    <2> QED
      BY <2>1, <2>2, <2>3
  <1>4. UNCHANGED <<packages, reviews, calls, tasks>>
    BY DEF Withdraw, Begin, Proceed
  <1>5. TypeOK' /\ GrantsKnown'
    BY <1>1, <1>3, <1>4 DEF IInv, TypeOK, GrantsKnown
  <1>6. (\A c \in calls : CallKnows(c))' /\ Numbered'
    BY <1>4 DEF IInv, CallKnows, Numbered
  <1>7. TaskTruthful' /\ TaskOpen' /\ OneEach'
    BY <1>4 DEF IInv, TaskTruthful, TaskOpen, OneEach
  <1> QED
    BY <1>5, <1>6, <1>7 DEF IInv

LEMMA NextInvariant == IInv /\ [Next]_vars => IInv'
  <1> SUFFICES ASSUME IInv, [Next]_vars PROVE IInv'
    OBVIOUS
  <1>1. CASE UNCHANGED vars
    <2>1. TypeOK' /\ (\A c \in calls : CallKnows(c))'
      BY <1>1 DEF vars, IInv, TypeOK, CallKnows
    <2>2. Numbered' /\ TaskTruthful' /\ TaskOpen' /\ OneEach' /\ GrantsKnown'
      BY <1>1 DEF vars, IInv, Numbered, TaskTruthful, TaskOpen, OneEach, GrantsKnown
    <2> QED
      BY <2>1, <2>2 DEF IInv
  <1>2. CASE Next
    BY <1>2, AskInvariant, CreateTaskInvariant, ExecuteInvariant, BuildInvariant,
       CreateInvariant, FailInvariant, CrashInvariant, ReportInvariant,
       ReviewInvariant, AdmitInvariant, WorkInvariant DEF Next
  <1> QED
    BY <1>1, <1>2

LEMMA Invariance == Spec => []IInv
  BY InitInvariant, NextInvariant, PTL DEF Spec

-----------------------------------------------------------------------------
(* The theorems.                                                           *)

\* Every part of the state is of its kind, and a version names one row, however
\* many creations are under way for one name (Store.Create).
THEOREM TypeCorrect == Spec => []TypeOK
  BY Invariance, PTL DEF IInv

\* A completed task names a whole package of its name and its session, however
\* often it was executed, and the execution of the last claim alone settles it
\* (agentquality.ProjectPackage, agenttask.Complete).
THEOREM TaskTruthfulCorrect == Spec => []TaskTruthful
  BY Invariance, PTL DEF IInv

\* Development lets nothing pass but a package that is at that moment approved and
\* whole, for any number of reviews and any length of the list; and each step of a
\* session was let pass for itself, since the step before (requireApprovedPackage,
\* Store.Update).
THEOREM StandsOnReviewCorrect == Spec => StandsOnReview
  <1> DEFINE Stands ==
        /\ \A g \in grants' \ grants :
              \E p \in packages : /\ Id(p) = g.package
                                  /\ Approved(p) /\ p.content.whole
        /\ \A w \in Works : works'[w] # works[w] =>
              \E g \in grants :
                 /\ g.work = IF works[w].steps = 0 THEN None ELSE w
                 /\ g.steps = works[w].steps /\ g.package = works'[w].package
  <1>1. IInv /\ [Next]_vars => [Stands]_vars
    <2> SUFFICES ASSUME IInv, Next PROVE Stands
      OBVIOUS
    <2>1. \A g \in grants' \ grants :
             \E p \in packages : /\ Id(p) = g.package
                                 /\ Approved(p) /\ p.content.whole
      <3> SUFFICES ASSUME NEW g \in grants', g \notin grants
                   PROVE  \E p \in packages : /\ Id(p) = g.package
                                              /\ Approved(p) /\ p.content.whole
        OBVIOUS
      <3>1. PICK p \in packages, w \in Works : Admit(w, p)
        BY DEF Next, Ask, CreateTask, Execute, Build, Create, Fail, Crash, Report, Review,
               Withdraw, Begin, Proceed, Spent
      <3>2. Granted(p) /\ g.package = Id(p)
        BY <3>1 DEF Admit, Request
      <3> QED
        BY <3>2, GrantedIsApproved DEF IInv
    <2>2. \A w \in Works : works'[w] # works[w] =>
             \E g \in grants :
                /\ g.work = IF works[w].steps = 0 THEN None ELSE w
                /\ g.steps = works[w].steps /\ g.package = works'[w].package
      <3> SUFFICES ASSUME NEW w \in Works, works'[w] # works[w]
                   PROVE  \E g \in grants :
                            /\ g.work = IF works[w].steps = 0 THEN None ELSE w
                            /\ g.steps = works[w].steps /\ g.package = works'[w].package
        OBVIOUS
      <3>1. PICK g \in grants : Begin(g) \/ Proceed(g)
        BY DEF Next, Ask, CreateTask, Execute, Build, Create, Fail, Crash, Report, Review,
               Admit, Withdraw
      <3>2. g.work = None <=> g.steps = 0
        BY DEF IInv, GrantsKnown
      <3>3. CASE Begin(g)
        BY <3>2, <3>3 DEF Begin, IInv, TypeOK
      <3>4. CASE Proceed(g)
        BY <3>2, <3>4 DEF Proceed, Unchanged, IInv, TypeOK
      <3> QED
        BY <3>1, <3>3, <3>4
    <2> QED
      BY <2>1, <2>2
  <1> QED
    BY <1>1, Invariance, PTL DEF Spec, StandsOnReview
=============================================================================
