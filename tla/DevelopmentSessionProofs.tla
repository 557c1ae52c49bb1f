----------------------- MODULE DevelopmentSessionProofs -----------------------
(***************************************************************************)
(* Proofs about DevelopmentSession for any number of sessions, people,     *)
(* servers, ids, requests and faults.                                      *)
(*                                                                         *)
(* Three facts carry the argument.  The status of a row fixes its revision *)
(* and what its other columns may say (RowSound), so that the log can be   *)
(* computed from the row.  Whoever holds a revision, a request, a run or a *)
(* recovery pass, knows the status of the row as long as the revision is   *)
(* the same.  And a session names a run before the run exists, so that the *)
(* two name each other (RunsSound, EvidencesSound).                        *)
(***************************************************************************)
EXTENDS DevelopmentSession, SequenceTheorems, TLAPS

USE Constants DEF Constants

-----------------------------------------------------------------------------
(* The inductive invariant.                                                *)

\* How often a row was written that has come to this status.
Rank == [absent |-> 0, draft |-> 1, awaiting_approval |-> 2, approved |-> 3,
         rejected |-> 3, executing |-> 4, verified |-> 5, execution_failed |-> 5,
         delivering |-> 6, delivered |-> 7, delivery_failed |-> 7]

Unreviewed == {"absent", "draft", "awaiting_approval"}
Unexecuted == Unreviewed \cup {"approved", "rejected"}
Verified == {"verified", "delivering", "delivered", "delivery_failed"}
HandedOver == {"delivering", "delivered", "delivery_failed"}

EvidenceShape(evidence) ==
    /\ evidence.result = "none" => evidence = NoEvidence
    /\ evidence.result # "none" => evidence.id \in Ids /\ evidence.by \in People
    /\ evidence.result \in {"running", "interrupted"} => evidence.remote = "nothing"

ExecutionShape(status, evidence, author) ==
    /\ EvidenceShape(evidence)
    /\ evidence.result = "none" <=> status \in Unexecuted
    /\ evidence.result = "running" <=> status = "executing"
    /\ evidence.result = "passed" <=> status \in Verified
    /\ evidence.result # "none" => evidence.by = author

DeliveryShape(status, evidence, author) ==
    /\ EvidenceShape(evidence)
    /\ evidence.result = "none" <=> status \notin HandedOver
    /\ evidence.result = "running" <=> status = "delivering"
    /\ evidence.result = "passed" <=> status = "delivered"
    /\ evidence.result # "none" => evidence.by # author

RowSound(row) ==
    /\ row.revision = Rank[row.status]
    /\ row.createdBy = None <=> row.status = "absent"
    /\ row.reviewedBy = None <=> row.status \in Unreviewed
    /\ row.reviewedBy # None => row.reviewedBy # row.createdBy
    /\ ExecutionShape(row.status, row.evidence["execution"], row.createdBy)
    /\ DeliveryShape(row.status, row.evidence["delivery"], row.createdBy)

\* What a request knows of its session.
RequestSound(request) ==
    /\ request.revision <= sessions[request.session].revision
    /\ Unchanged(request.session, request.revision) =>
         /\ sessions[request.session].status = Asks[request.operation]
         /\ Permitted(sessions[request.session], request.operation, request.actor)

RunShape(run) ==
    /\ run.kind = None <=> run.stage = "unused"
    /\ run.kind = None => run.server = None /\ ~run.directory /\ ~run.late
    /\ run.kind # None =>
         /\ run.kind \in Kinds /\ run.session \in Sessions
         /\ run.revision = Rank[InFlight[run.kind]]
    /\ run.passed =>
         /\ run.stage \in {"returned", "over"} /\ ~run.directory
         /\ run.kind = "delivery" => run.told = "pull_request"
    /\ Reaches(run.told, run.remote)
    /\ run.remote # "nothing" => run.kind = "delivery"

\* A run is the one its session names.
Named(i) == runs[i].kind # None => sessions[runs[i].session].evidence[runs[i].kind].id = i

\* What the evidence k of session s may say of its run.
Tells(evidence, k, s, run) ==
    /\ run.kind = k /\ run.session = s
    /\ evidence.result = "passed" =>
         /\ run.passed /\ run.stage = "over" /\ ~run.directory
         /\ k = "delivery" => evidence.remote = "pull_request"
    /\ evidence.result = "failed" => ~run.passed /\ run.stage = "over"
    /\ evidence.result = "interrupted" => run.late
    /\ Reaches(evidence.remote, run.remote)

EvidenceSound(s, k) ==
    sessions[s].evidence[k].id # None =>
        Tells(sessions[s].evidence[k], k, s, runs[sessions[s].evidence[k].id])

\* What a recovery pass knows of the rows on its list.
EntrySound(entry, kind) ==
    LET row == sessions[entry.session]
    IN  /\ entry.revision <= row.revision
        /\ Unchanged(entry.session, entry.revision) =>
             /\ row.status = InFlight[kind]
             /\ runs[row.evidence[kind].id].late

\* A run that is late and that its session has given up.
GivenUp(i) ==
    LET run == runs[i]
    IN  /\ run.kind # None /\ run.late
        /\ sessions[run.session].evidence[run.kind].result # "running"

PassSound(pass) ==
    /\ pass.stage \notin Kinds => pass.todo = {} /\ pass.marked = {}
    /\ \A entry \in pass.todo : EntrySound(entry, pass.stage)
    /\ \A i \in pass.marked : GivenUp(i)

RowsSound == \A s \in Sessions : RowSound(sessions[s])
LogTells == log \in [Sessions -> Seq(Event)] /\ \A s \in Sessions : log[s] = Story(sessions[s])
EvidencesSound == \A s \in Sessions, k \in Kinds : EvidenceSound(s, k)
RequestsSound == \A request \in requests : RequestSound(request)
RunsSound == \A i \in Ids : RunShape(runs[i]) /\ Named(i)
PassesSound == \A w \in Servers : PassSound(passes[w])

IInv ==
    /\ TypeOK
    /\ RowsSound
    /\ LogTells
    /\ EvidencesSound
    /\ RequestsSound
    /\ RunsSound
    /\ PassesSound

-----------------------------------------------------------------------------
(* What a write may make of a row.                                         *)

\* The status in which a run of either kind may begin.
Before == [execution |-> "approved", delivery |-> "verified"]

With(row, k, status, evidence) ==
    [row EXCEPT !.status = status, !.evidence = [@ EXCEPT ![k] = evidence]]

Opened(row, new, type, actor) ==
    /\ row.status = "absent" /\ actor \in People
    /\ new = [NoSession EXCEPT !.status = "draft", !.createdBy = actor]
    /\ type = "created"

Proposed(row, new, type, actor) ==
    /\ row.status = "draft" /\ actor = row.createdBy
    /\ new = [row EXCEPT !.status = "awaiting_approval"]
    /\ type = "proposal_submitted"

Decided(row, new, type, actor) ==
    /\ row.status = "awaiting_approval"
    /\ actor \in People /\ actor # row.createdBy
    /\ type \in {"approved", "rejected"}
    /\ new = [row EXCEPT !.status = type, !.reviewedBy = actor]

Begun(row, new, type, actor, k, i) ==
    /\ row.status = Before[k] /\ actor \in People
    /\ k = "execution" <=> actor = row.createdBy
    /\ new = With(row, k, InFlight[k], [id |-> i, by |-> actor, result |-> "running",
                                        remote |-> "nothing"])
    /\ type = Began[k]

Recorded(row, new, type, actor, k, result, remote) ==
    /\ row.status = InFlight[k]
    /\ actor = row.evidence[k].by
    /\ new = With(row, k, IF result = "passed" THEN Passed[k] ELSE Failed[k],
                  [id |-> row.evidence[k].id, by |-> actor, result |-> result,
                   remote |-> remote])
    /\ type = Ended[k][result]

Marked(row, new, type, actor, k) ==
    /\ row.status = InFlight[k]
    /\ actor = "system"
    /\ new = Interrupted(row, k)
    /\ type = Ended[k].interrupted

RowStep(row, new, type, actor) ==
    \/ Opened(row, new, type, actor)
    \/ Proposed(row, new, type, actor)
    \/ Decided(row, new, type, actor)
    \/ \E k \in Kinds, i \in Ids : Begun(row, new, type, actor, k, i)
    \/ \E k \in Kinds, result \in {"passed", "failed"}, remote \in Remote :
          Recorded(row, new, type, actor, k, result, remote)
    \/ \E k \in Kinds : Marked(row, new, type, actor, k)

Bumped(row) == [row EXCEPT !.revision = row.revision + 1]

\* What a row says of a run that began, it goes on saying; what it says of one that
\* ended does not change.
Carries(row, new) ==
    \A k \in Kinds :
        /\ row.evidence[k].id # None => new.evidence[k].id = row.evidence[k].id
        /\ row.evidence[k].result \notin {"none", "running"} =>
             new.evidence[k] = row.evidence[k]

\* What becomes of a row in one write.
GoodStep(row, new, event) ==
    /\ Bumped(new) \in Session
    /\ RowSound(Bumped(new))
    /\ Bumped(new).revision = row.revision + 1
    /\ Carries(row, Bumped(new))
    /\ event \in Event
    /\ Story(Bumped(new)) = Append(Story(row), event)

-----------------------------------------------------------------------------
(* The story of a row.                                                     *)

\* What appending does to a sequence that a row's story is put together from.
LEMMA CatEnd ==
    ASSUME NEW S, NEW x \in Seq(S), NEW a \in S, NEW b \in S
    PROVE  /\ x \o <<>> = x /\ <<>> \o x = x
           /\ x \o <<a>> = Append(x, a)
           /\ x \o <<a, b>> = Append(x \o <<a>>, b)
           /\ x \o <<a>> \in Seq(S) /\ x \o <<a, b>> \in Seq(S)
<1>1. <<a>> \in Seq(S) /\ <<b>> \in Seq(S) /\ <<a, b>> \in Seq(S)
  OBVIOUS
<1>2. x \o <<>> = x /\ <<>> \o x = x
  BY ConcatEmptySeq
<1>3. \A y \in Seq(S), c \in S : y \o <<c>> = Append(y, c)
  BY AppendIsConcat
<1>4. <<a>> \o <<b>> = <<a, b>>
  <2> DEFINE y == Append(<<a>>, b)
             z == <<a, b>>
  <2>1. y = <<a>> \o <<b>>
    BY <1>1, <1>3
  <2>2. y \in Seq(S) /\ Len(y) = 2 /\ y[1] = a /\ y[2] = b
    <3>1. <<a>> \in Seq(S) /\ Len(<<a>>) = 1 /\ <<a>>[1] = a
      OBVIOUS
    <3> QED BY <3>1, AppendProperties
  <2>3. z \in Seq(S) /\ Len(z) = 2 /\ z[1] = a /\ z[2] = b
    OBVIOUS
  <2> HIDE DEF y, z
  <2>4. y = z
    BY <2>2, <2>3, SeqEqual
  <2> QED BY <2>1, <2>4 DEF z
<1>5. x \o <<a, b>> = (x \o <<a>>) \o <<b>>
  <2> DEFINE u == <<a>>
             v == <<b>>
  <2>1. u \o v = <<a, b>>
    BY <1>4, Zenon
  <2>3. u \in Seq(S) /\ v \in Seq(S)
    BY <1>1
  <2> HIDE DEF u, v
  <2>2. (x \o u) \o v = x \o (u \o v)
    BY <2>3, ConcatAssociative
  <2> QED BY <2>1, <2>2 DEF u, v
<1>6. x \o <<a>> \in Seq(S) /\ x \o <<a, b>> \in Seq(S)
  BY <1>1, ConcatProperties
<1> QED BY <1>2, <1>3, <1>5, <1>6

\* The part of a story that comes before the runs.
Preface(row) ==
    (IF row.status = "absent" THEN <<>>
     ELSE <<[type |-> "created", actor |-> row.createdBy]>>)
    \o (IF row.status \in {"absent", "draft"} THEN <<>>
        ELSE <<[type |-> "proposal_submitted", actor |-> row.createdBy]>>)
    \o (IF row.reviewedBy = None THEN <<>>
        ELSE <<[type |-> IF row.status = "rejected" THEN "rejected" ELSE "approved",
                actor |-> row.reviewedBy]>>)

LEMMA StoryParts ==
    ASSUME NEW row
    PROVE  Story(row) = Preface(row) \o Chapter("execution", row.evidence["execution"])
                                     \o Chapter("delivery", row.evidence["delivery"])
BY DEF Story, Preface

LEMMA EventsTyped ==
    /\ \A actor \in People :
         /\ [type |-> "created", actor |-> actor] \in Event
         /\ [type |-> "proposal_submitted", actor |-> actor] \in Event
         /\ [type |-> "approved", actor |-> actor] \in Event
         /\ [type |-> "rejected", actor |-> actor] \in Event
    /\ \A k \in Kinds, actor \in People \cup {"system"} :
         /\ [type |-> Began[k], actor |-> actor] \in Event
         /\ \A result \in {"passed", "failed", "interrupted"} :
              [type |-> Ended[k][result], actor |-> actor] \in Event
BY DEF Event

\* The prefaces, status by status.
LEMMA Prefaces ==
    ASSUME NEW row \in Session, RowSound(row)
    PROVE  /\ Preface(row) \in Seq(Event)
           /\ row.status = "absent" => Preface(row) = <<>>
           /\ row.status = "draft" =>
                Preface(row) = <<[type |-> "created", actor |-> row.createdBy]>>
           /\ row.status = "awaiting_approval" =>
                Preface(row) =
                  Append(<<[type |-> "created", actor |-> row.createdBy]>>,
                         [type |-> "proposal_submitted", actor |-> row.createdBy])
           /\ row.status \notin Unreviewed =>
                Preface(row) =
                  Append(Append(<<[type |-> "created", actor |-> row.createdBy]>>,
                                [type |-> "proposal_submitted", actor |-> row.createdBy]),
                         [type |-> IF row.status = "rejected" THEN "rejected" ELSE "approved",
                          actor |-> row.reviewedBy])
<1> DEFINE c == [type |-> "created", actor |-> row.createdBy]
           p == [type |-> "proposal_submitted", actor |-> row.createdBy]
           d == [type |-> IF row.status = "rejected" THEN "rejected" ELSE "approved",
                 actor |-> row.reviewedBy]
<1>0. <<>> \in Seq(Event) /\ <<>> \o <<>> = <<>>
  BY EmptySeq, ConcatEmptySeq
<1>1. CASE row.status = "absent"
  <2>1. row.reviewedBy = None
    BY <1>1 DEF RowSound, Unreviewed
  <2> QED BY <1>0, <1>1, <2>1 DEF Preface, Unreviewed
<1>2. CASE row.status = "draft"
  <2>1. row.reviewedBy = None /\ row.createdBy \in People
    BY <1>2 DEF RowSound, Unreviewed, Session
  <2>2. c \in Event
    BY <2>1, EventsTyped
  <2>3. <<c>> \in Seq(Event) /\ <<c>> \o <<>> = <<c>>
    <3> HIDE DEF c
    <3> QED BY <2>2, CatEnd
  <2>4. Preface(row) = (<<c>> \o <<>>) \o <<>>
    BY <1>2, <2>1 DEF Preface
  <2> HIDE DEF c
  <2>5. Preface(row) = <<c>>
    BY <2>3, <2>4
  <2> QED BY <1>2, <2>3, <2>5 DEF c, Unreviewed
<1>3. CASE row.status = "awaiting_approval"
  <2>1. row.reviewedBy = None /\ row.createdBy \in People
    BY <1>3 DEF RowSound, Unreviewed, Session
  <2>2. c \in Event /\ p \in Event
    BY <2>1, EventsTyped
  <2>3. Preface(row) = (<<c>> \o <<p>>) \o <<>>
    BY <1>3, <2>1 DEF Preface
  <2> HIDE DEF c, p
  <2>4. <<c>> \in Seq(Event)
    BY <2>2
  <2>5. <<c>> \o <<p>> = Append(<<c>>, p) /\ <<c>> \o <<p>> \in Seq(Event)
    BY <2>2, <2>4, CatEnd
  <2>6. Preface(row) = Append(<<c>>, p) /\ Preface(row) \in Seq(Event)
    BY <2>3, <2>5, ConcatEmptySeq
  <2> QED BY <1>3, <2>6 DEF c, p, Unreviewed
<1>4. CASE row.status \notin Unreviewed
  <2>1. row.reviewedBy \in People /\ row.createdBy \in People /\ row.reviewedBy # None
    BY <1>4 DEF RowSound, Unreviewed, Session
  <2>2. c \in Event /\ p \in Event /\ d \in Event
    BY <2>1, EventsTyped
  <2>3. Preface(row) = (<<c>> \o <<p>>) \o <<d>>
    BY <1>4, <2>1 DEF Preface, Unreviewed
  <2> HIDE DEF c, p, d
  <2>4. <<c>> \in Seq(Event)
    BY <2>2
  <2>5. <<c>> \o <<p>> = Append(<<c>>, p) /\ <<c>> \o <<p>> \in Seq(Event)
    BY <2>2, <2>4, CatEnd
  <2>6. (<<c>> \o <<p>>) \o <<d>> = Append(<<c>> \o <<p>>, d)
    BY <2>2, <2>5, CatEnd
  <2>7. Append(Append(<<c>>, p), d) \in Seq(Event)
    BY <2>2, <2>4, AppendProperties
  <2>8. Preface(row) = Append(Append(<<c>>, p), d)
    BY <2>3, <2>5, <2>6
  <2> QED BY <1>4, <2>7, <2>8 DEF c, p, d, Unreviewed
<1> QED BY <1>1, <1>2, <1>3, <1>4 DEF Unreviewed

LEMMA Chapters ==
    ASSUME NEW k \in Kinds, NEW evidence \in Evidence, EvidenceShape(evidence)
    PROVE  /\ Chapter(k, evidence) \in Seq(Event)
           /\ evidence.result = "none" => Chapter(k, evidence) = <<>>
           /\ evidence.result = "running" =>
                Chapter(k, evidence) = <<[type |-> Began[k], actor |-> evidence.by]>>
           /\ evidence.result \in {"passed", "failed"} =>
                Chapter(k, evidence) =
                  <<[type |-> Began[k], actor |-> evidence.by],
                    [type |-> Ended[k][evidence.result], actor |-> evidence.by]>>
           /\ evidence.result = "interrupted" =>
                Chapter(k, evidence) =
                  <<[type |-> Began[k], actor |-> evidence.by],
                    [type |-> Ended[k]["interrupted"], actor |-> "system"]>>
<1> DEFINE b == [type |-> Began[k], actor |-> evidence.by]
           e == [type |-> Ended[k][evidence.result], actor |-> evidence.by]
           f == [type |-> Ended[k]["interrupted"], actor |-> "system"]
<1>1. CASE evidence.result = "none"
  BY <1>1, EmptySeq DEF Chapter
<1>2. CASE evidence.result = "running"
  <2>1. b \in Event
    BY <1>2, EventsTyped DEF EvidenceShape
  <2>2. Chapter(k, evidence) = <<b>>
    BY <1>2 DEF Chapter
  <2> HIDE DEF b
  <2>3. <<b>> \in Seq(Event)
    BY <2>1
  <2> QED BY <1>2, <2>2, <2>3 DEF b
<1>3. CASE evidence.result \in {"passed", "failed"}
  <2>1. b \in Event /\ e \in Event
    BY <1>3, EventsTyped DEF EvidenceShape
  <2>2. Chapter(k, evidence) = <<b, e>>
    BY <1>3 DEF Chapter
  <2> HIDE DEF b, e
  <2>3. <<b, e>> \in Seq(Event)
    BY <2>1
  <2> QED BY <1>3, <2>2, <2>3 DEF b, e
<1>4. CASE evidence.result = "interrupted"
  <2>1. b \in Event /\ f \in Event
    BY <1>4, EventsTyped DEF EvidenceShape
  <2>2. Chapter(k, evidence) = <<b, f>>
    BY <1>4 DEF Chapter
  <2> HIDE DEF b, f
  <2>3. <<b, f>> \in Seq(Event)
    BY <2>1
  <2> QED BY <1>4, <2>2, <2>3 DEF b, f
<1> QED BY <1>1, <1>2, <1>3, <1>4 DEF Evidence, Results

-----------------------------------------------------------------------------
(* Each kind of write makes a sound row and one event of its story.        *)

\* Two rows whose statuses and people call for the same preface.
LEMMA SamePreface ==
    ASSUME NEW row \in Session, RowSound(row), NEW next \in Session, RowSound(next),
           row.status \notin Unreviewed, next.status \notin Unreviewed,
           row.status = "rejected" <=> next.status = "rejected",
           next.createdBy = row.createdBy, next.reviewedBy = row.reviewedBy
    PROVE  Preface(next) = Preface(row)
BY DEF Preface, Unreviewed

LEMMA BumpedWith ==
    ASSUME NEW row \in Session, NEW k \in Kinds, NEW status \in Status,
           NEW evidence \in Evidence, row.revision < 7
    PROVE  LET next == Bumped(With(row, k, status, evidence))
           IN  /\ next \in Session
               /\ next.status = status /\ next.revision = row.revision + 1
               /\ next.createdBy = row.createdBy /\ next.reviewedBy = row.reviewedBy
               /\ next.evidence[k] = evidence
               /\ \A j \in Kinds : j # k => next.evidence[j] = row.evidence[j]
<1>1. PICK new : new = With(row, k, status, evidence)
  OBVIOUS
<1>2. row.evidence \in [Kinds -> Evidence]
  BY DEF Session
<1>3. PICK both : both = [row.evidence EXCEPT ![k] = evidence]
  OBVIOUS
<1>4. /\ both \in [Kinds -> Evidence] /\ both[k] = evidence
      /\ \A j \in Kinds : j # k => both[j] = row.evidence[j]
  BY <1>2, <1>3
<1>5. new = [row EXCEPT !.status = status, !.evidence = both]
  BY <1>1, <1>3 DEF With
<1>6. /\ new \in Session /\ new.status = status /\ new.revision = row.revision
      /\ new.createdBy = row.createdBy /\ new.reviewedBy = row.reviewedBy
      /\ new.evidence = both
  BY <1>4, <1>5 DEF Session
<1>7. PICK next : next = Bumped(new)
  OBVIOUS
<1>8. /\ next \in Session /\ next.status = status /\ next.revision = row.revision + 1
      /\ next.createdBy = row.createdBy /\ next.reviewedBy = row.reviewedBy
      /\ next.evidence = both
  <2>1. row.revision + 1 \in 0..7
    BY DEF Session
  <2> QED BY <1>6, <1>7, <2>1 DEF Session, Bumped
<1> QED BY <1>1, <1>4, <1>7, <1>8

LEMMA OpenedGood ==
    ASSUME NEW row \in Session, RowSound(row), NEW new, NEW type, NEW actor,
           Opened(row, new, type, actor)
    PROVE  GoodStep(row, new, [type |-> type, actor |-> actor])
<1> DEFINE next == [status |-> "draft", revision |-> 1, createdBy |-> actor,
                    reviewedBy |-> None, evidence |-> [k \in Kinds |-> NoEvidence]]
           event == [type |-> "created", actor |-> actor]
<1>2. next \in Session
  BY DEF Opened, Session, Evidence, NoEvidence, Remote, Results, Status
<1>1. Bumped(new) = next
  <2> DEFINE none == [k \in Kinds |-> NoEvidence]
  <2>1. none \in [Kinds -> Evidence]
    BY DEF Evidence, NoEvidence, Remote, Results
  <2>2. new = [status |-> "draft", revision |-> 0, createdBy |-> actor,
               reviewedBy |-> None, evidence |-> none]
    <3> HIDE DEF none
    <3>1. NoSession = [status |-> "absent", revision |-> 0, createdBy |-> None,
                       reviewedBy |-> None, evidence |-> none]
      BY DEF NoSession, none
    <3> QED BY <3>1 DEF Opened
  <2> HIDE DEF none
  <2>3. Bumped(new) = [status |-> "draft", revision |-> 1, createdBy |-> actor,
                       reviewedBy |-> None, evidence |-> none]
    BY <2>2 DEF Bumped
  <2> QED BY <2>3 DEF none
<1>3. RowSound(next)
  BY DEF RowSound, Opened, Rank, Unreviewed, Unexecuted, HandedOver, Verified, Kinds,
         ExecutionShape, DeliveryShape, EvidenceShape, NoEvidence
<1>4. row.status = "absent" /\ row.revision = 0
  BY DEF Opened, RowSound, Rank
<1>5. row.evidence["execution"] = NoEvidence /\ row.evidence["delivery"] = NoEvidence
  BY <1>4 DEF RowSound, ExecutionShape, DeliveryShape, EvidenceShape, Unexecuted,
              Unreviewed, HandedOver
<1>6. next.revision = row.revision + 1 /\ Carries(row, next)
  BY <1>4, <1>5 DEF Carries, Kinds, NoEvidence
<1>7. type = "created" /\ event \in Event
  BY EventsTyped DEF Opened
<1>8. Story(next) = Append(Story(row), event)
  <2>1. Preface(row) = <<>> /\ Preface(next) = <<event>>
    BY <1>2, <1>3, <1>4, Prefaces
  <2>2. \A k \in Kinds : Chapter(k, NoEvidence) = <<>>
    BY DEF Chapter, NoEvidence
  <2>3. Story(row) = (<<>> \o <<>>) \o <<>>
    BY <1>5, <2>1, <2>2, StoryParts DEF Kinds
  <2>4. next.evidence["execution"] = NoEvidence /\ next.evidence["delivery"] = NoEvidence
    BY DEF Kinds
  <2> HIDE DEF next
  <2>5. Story(next) = (<<event>> \o <<>>) \o <<>>
    BY <2>1, <2>2, <2>4, StoryParts DEF Kinds
  <2> HIDE DEF event
  <2>6. <<event>> \in Seq(Event) /\ <<>> \in Seq(Event)
    BY <1>7, EmptySeq
  <2>7. <<>> \o <<event>> = Append(<<>>, event) /\ <<>> \o <<event>> = <<event>>
    BY <1>7, <2>6, CatEnd, ConcatEmptySeq
  <2>8. (<<>> \o <<>>) \o <<>> = <<>> /\ (<<event>> \o <<>>) \o <<>> = <<event>>
    BY <2>6, ConcatEmptySeq
  <2> QED BY <2>3, <2>5, <2>7, <2>8
<1> HIDE DEF next
<1> QED BY <1>1, <1>2, <1>3, <1>6, <1>7, <1>8 DEF GoodStep

LEMMA EarlyRow ==
    ASSUME NEW row \in Session, RowSound(row), row.status \in Unexecuted
    PROVE  /\ row.evidence["execution"] = NoEvidence /\ row.evidence["delivery"] = NoEvidence
           /\ Story(row) = Preface(row)
<1>1. row.evidence["execution"] = NoEvidence /\ row.evidence["delivery"] = NoEvidence
  BY DEF RowSound, ExecutionShape, DeliveryShape, EvidenceShape, Unexecuted,
         Unreviewed, HandedOver
<1>2. \A k \in Kinds : Chapter(k, NoEvidence) = <<>>
  BY DEF Chapter, NoEvidence
<1>3. Story(row) = (Preface(row) \o <<>>) \o <<>>
  BY <1>1, <1>2, StoryParts DEF Kinds
<1>4. Preface(row) \in Seq(Event)
  BY Prefaces
<1> QED BY <1>1, <1>3, <1>4, ConcatEmptySeq

LEMMA ProposedGood ==
    ASSUME NEW row \in Session, RowSound(row), NEW new, NEW type, NEW actor,
           Proposed(row, new, type, actor)
    PROVE  GoodStep(row, new, [type |-> type, actor |-> actor])
<1> DEFINE event == [type |-> "proposal_submitted", actor |-> actor]
<1>1. PICK next : next = Bumped(new)
  OBVIOUS
<1>2. row.revision = 1 /\ row.status = "draft"
  BY DEF Proposed, RowSound, Rank
<1>3. /\ next.status = "awaiting_approval" /\ next.revision = 2
      /\ next.createdBy = row.createdBy /\ next.reviewedBy = row.reviewedBy
      /\ next.evidence = row.evidence /\ next \in Session
  <2>1. /\ new.status = "awaiting_approval" /\ new.revision = row.revision
        /\ new.createdBy = row.createdBy /\ new.reviewedBy = row.reviewedBy
        /\ new.evidence = row.evidence /\ new \in Session
    BY <1>2 DEF Proposed, Session, Status
  <2>2. next = [new EXCEPT !.revision = 2]
    BY <1>1, <1>2, <2>1 DEF Bumped
  <2> QED BY <2>1, <2>2 DEF Session
<1>4. RowSound(next)
  BY <1>2, <1>3 DEF RowSound, Rank, Unreviewed, Unexecuted, HandedOver, Verified,
                    ExecutionShape, DeliveryShape
<1>5. actor \in People /\ type = "proposal_submitted" /\ event \in Event
  <2>1. actor \in People
    BY <1>2 DEF Proposed, RowSound, Session
  <2> QED BY <2>1, EventsTyped DEF Proposed
<1>6. Story(next) = Append(Story(row), event)
  <2>1. Story(next) = Preface(next) /\ Story(row) = Preface(row)
    BY <1>2, <1>3, <1>4, EarlyRow DEF Unexecuted, Unreviewed
  <2>2. row.createdBy = actor
    BY DEF Proposed
  <2> QED BY <1>2, <1>3, <1>4, <2>1, <2>2, Prefaces
<1>7. Carries(row, next)
  BY <1>3 DEF Carries
<1> QED BY <1>1, <1>2, <1>3, <1>4, <1>5, <1>6, <1>7 DEF GoodStep

LEMMA DecidedGood ==
    ASSUME NEW row \in Session, RowSound(row), NEW new, NEW type, NEW actor,
           Decided(row, new, type, actor)
    PROVE  GoodStep(row, new, [type |-> type, actor |-> actor])
<1> DEFINE event == [type |-> type, actor |-> actor]
<1>1. PICK next : next = Bumped(new)
  OBVIOUS
<1>2. row.revision = 2 /\ row.status = "awaiting_approval"
  BY DEF Decided, RowSound, Rank
<1>3. /\ next.status = type /\ next.revision = 3
      /\ next.createdBy = row.createdBy /\ next.reviewedBy = actor
      /\ next.evidence = row.evidence /\ next \in Session
  <2>1. /\ new.status = type /\ new.revision = row.revision
        /\ new.createdBy = row.createdBy /\ new.reviewedBy = actor
        /\ new.evidence = row.evidence /\ new \in Session
    BY <1>2 DEF Decided, Session, Status
  <2>2. next = [new EXCEPT !.revision = 3]
    BY <1>1, <1>2, <2>1 DEF Bumped
  <2> QED BY <2>1, <2>2 DEF Session
<1>4. RowSound(next)
  BY <1>2, <1>3 DEF Decided, RowSound, Rank, Unreviewed, Unexecuted, HandedOver, Verified,
                    ExecutionShape, DeliveryShape
<1>5. event \in Event
  BY EventsTyped DEF Decided
<1>6. Story(next) = Append(Story(row), event)
  <2>1. Story(next) = Preface(next) /\ Story(row) = Preface(row)
    BY <1>2, <1>3, <1>4, EarlyRow DEF Decided, Unexecuted, Unreviewed
  <2>2. next.status \notin Unreviewed /\ type = IF next.status = "rejected" THEN "rejected"
                                                                           ELSE "approved"
    BY <1>3 DEF Decided, Unreviewed
  <2> QED BY <1>2, <1>3, <1>4, <2>1, <2>2, Prefaces
<1>7. Carries(row, next)
  BY <1>3 DEF Carries
<1> QED BY <1>1, <1>2, <1>3, <1>4, <1>5, <1>6, <1>7 DEF GoodStep

\* A chapter that grows makes the story grow, if it is the last there is.
LEMMA StoryGrows ==
    ASSUME NEW row \in Session, RowSound(row), NEW next \in Session, RowSound(next),
           NEW k \in Kinds, NEW b \in Event, NEW event \in Event,
           Preface(next) = Preface(row),
           \A j \in Kinds : j # k => next.evidence[j] = row.evidence[j],
           k = "execution" => row.evidence["delivery"].result = "none",
           \/ /\ Chapter(k, row.evidence[k]) = <<>>
              /\ Chapter(k, next.evidence[k]) = <<event>>
           \/ /\ Chapter(k, row.evidence[k]) = <<b>>
              /\ Chapter(k, next.evidence[k]) = <<b, event>>
    PROVE  Story(next) = Append(Story(row), event)
<1>1. PICK p, x, d, y, e : /\ p = Preface(row)
                           /\ x = Chapter("execution", row.evidence["execution"])
                           /\ d = Chapter("delivery", row.evidence["delivery"])
                           /\ y = Chapter("execution", next.evidence["execution"])
                           /\ e = Chapter("delivery", next.evidence["delivery"])
  OBVIOUS
<1>2. Story(row) = (p \o x) \o d /\ Story(next) = (p \o y) \o e
  BY <1>1, StoryParts
<1>3. p \in Seq(Event) /\ x \in Seq(Event) /\ d \in Seq(Event)
  <2>1. p \in Seq(Event)
    BY <1>1, Prefaces
  <2>2. \A j \in Kinds : row.evidence[j] \in Evidence
    BY DEF Session
  <2>3. EvidenceShape(row.evidence["execution"]) /\ EvidenceShape(row.evidence["delivery"])
    BY DEF RowSound, ExecutionShape, DeliveryShape
  <2>4. x \in Seq(Event) /\ d \in Seq(Event)
    BY <1>1, <2>2, <2>3, Chapters DEF Kinds
  <2> QED BY <2>1, <2>4
<1>4. CASE k = "execution"
  <2>1. d = <<>> /\ e = <<>>
    <3>1. row.evidence["delivery"].result = "none" /\ next.evidence["delivery"].result = "none"
      BY <1>4 DEF Kinds
    <3> QED BY <1>1, <3>1 DEF Chapter
  <2>2. p \o x \in Seq(Event) /\ p \o y \in Seq(Event) /\ p \o y = Append(p \o x, event)
    <3>1. \/ x = <<>> /\ y = <<event>>
          \/ x = <<b>> /\ y = <<b, event>>
      BY <1>1, <1>4, Zenon
    <3>2. CASE x = <<>> /\ y = <<event>>
      BY <1>3, <3>2, CatEnd
    <3>3. CASE x = <<b>> /\ y = <<b, event>>
      BY <1>3, <3>3, CatEnd
    <3> QED BY <3>1, <3>2, <3>3
  <2> QED BY <1>2, <2>1, <2>2, ConcatEmptySeq
<1>5. CASE k = "delivery"
  <2>1. y = x
    BY <1>1, <1>5 DEF Kinds
  <2>2. PICK q : q = p \o x
    OBVIOUS
  <2>3. q \in Seq(Event)
    BY <1>3, <2>2, ConcatProperties
  <2>4. \/ d = <<>> /\ e = <<event>>
        \/ d = <<b>> /\ e = <<b, event>>
    BY <1>1, <1>5, Zenon
  <2>5. q \o e = Append(q \o d, event)
    <3>1. CASE d = <<>> /\ e = <<event>>
      BY <2>3, <3>1, CatEnd
    <3>2. CASE d = <<b>> /\ e = <<b, event>>
      BY <2>3, <3>2, CatEnd
    <3> QED BY <2>4, <3>1, <3>2
  <2> QED BY <1>2, <2>1, <2>2, <2>5
<1> QED BY <1>4, <1>5 DEF Kinds

LEMMA BegunGood ==
    ASSUME NEW row \in Session, RowSound(row), NEW new, NEW type, NEW actor,
           NEW k \in Kinds, NEW i \in Ids, Begun(row, new, type, actor, k, i)
    PROVE  GoodStep(row, new, [type |-> type, actor |-> actor])
<1> DEFINE event == [type |-> Began[k], actor |-> actor]
           began == [id |-> i, by |-> actor, result |-> "running", remote |-> "nothing"]
<1>1. PICK next : next = Bumped(new)
  OBVIOUS
<1>2. actor \in People /\ type = Began[k] /\ event \in Event /\ began \in Evidence
  BY EventsTyped DEF Begun, Evidence, Results, Remote
<1>3. row.status = Before[k] /\ row.revision < 7 /\ InFlight[k] \in Status
  BY DEF Begun, RowSound, Rank, Before, Kinds, InFlight, Status
<1>4. /\ next \in Session
      /\ next.status = InFlight[k] /\ next.revision = row.revision + 1
      /\ next.createdBy = row.createdBy /\ next.reviewedBy = row.reviewedBy
      /\ next.evidence[k] = began
      /\ \A j \in Kinds : j # k => next.evidence[j] = row.evidence[j]
  <2>1. new = With(row, k, InFlight[k], began)
    BY DEF Begun
  <2> HIDE DEF began
  <2> QED BY <1>1, <1>2, <1>3, <2>1, BumpedWith
<1>5. /\ row.evidence[k].result = "none" /\ row.evidence[k] = NoEvidence
      /\ k = "execution" => row.evidence["delivery"].result = "none"
  BY <1>3 DEF RowSound, ExecutionShape, DeliveryShape, EvidenceShape, Kinds, Before,
              Unexecuted, Unreviewed, HandedOver
<1>6. RowSound(next)
  <2>1. CASE k = "execution"
    BY <1>2, <1>3, <1>4, <2>1
       DEF Begun, RowSound, ExecutionShape, DeliveryShape, EvidenceShape, Kinds, Before, InFlight, Rank,
           Unexecuted, Unreviewed, HandedOver, Verified
  <2>2. CASE k = "delivery"
    BY <1>2, <1>3, <1>4, <2>2
       DEF Begun, RowSound, ExecutionShape, DeliveryShape, EvidenceShape, Kinds, Before, InFlight, Rank,
           Unexecuted, Unreviewed, HandedOver, Verified
  <2> QED BY <2>1, <2>2 DEF Kinds
<1>7. Carries(row, next)
  BY <1>4, <1>5 DEF Carries, NoEvidence
<1>8. Story(next) = Append(Story(row), event)
  <2>1. Preface(next) = Preface(row)
    BY <1>3, <1>4, <1>6, SamePreface DEF Kinds, Before, InFlight, Unreviewed
  <2>2. EvidenceShape(next.evidence[k]) /\ next.evidence[k] \in Evidence
    BY <1>2, <1>4 DEF EvidenceShape
  <2>3. Chapter(k, next.evidence[k]) = <<event>>
    BY <1>4, <2>2, Chapters
  <2>4. Chapter(k, row.evidence[k]) = <<>>
    BY <1>5 DEF Chapter
  <2> HIDE DEF event
  <2> QED BY <1>2, <1>4, <1>5, <1>6, <2>1, <2>3, <2>4, StoryGrows
<1> QED BY <1>1, <1>2, <1>4, <1>6, <1>7, <1>8 DEF GoodStep

\* The end of a run, however it is told.
LEMMA EndedGood ==
    ASSUME NEW row \in Session, RowSound(row), NEW new, NEW type, NEW actor,
           NEW k \in Kinds, NEW ended \in Evidence,
           row.status = InFlight[k],
           ended.id = row.evidence[k].id, ended.by = row.evidence[k].by,
           ended.result \in {"passed", "failed", "interrupted"},
           ended.result = "interrupted" => ended.remote = "nothing",
           actor = IF ended.result = "interrupted" THEN "system" ELSE ended.by,
           new = With(row, k, IF ended.result = "passed" THEN Passed[k] ELSE Failed[k], ended),
           type = Ended[k][ended.result]
    PROVE  GoodStep(row, new, [type |-> type, actor |-> actor])
<1> DEFINE event == [type |-> Ended[k][ended.result], actor |-> actor]
           began == [type |-> Began[k], actor |-> row.evidence[k].by]
           status == IF ended.result = "passed" THEN Passed[k] ELSE Failed[k]
<1>1. PICK next : next = Bumped(new)
  OBVIOUS
<1>2. row.revision < 7 /\ status \in Status
  BY DEF RowSound, Rank, Kinds, InFlight, Status, Passed, Failed
<1>3. /\ next \in Session
      /\ next.status = status /\ next.revision = row.revision + 1
      /\ next.createdBy = row.createdBy /\ next.reviewedBy = row.reviewedBy
      /\ next.evidence[k] = ended
      /\ \A j \in Kinds : j # k => next.evidence[j] = row.evidence[j]
  <2> HIDE DEF status
  <2>1. new = With(row, k, status, ended)
    BY DEF status
  <2> QED BY <1>1, <1>2, <2>1, BumpedWith
<1>4. /\ row.evidence[k].result = "running" /\ row.evidence[k] \in Evidence
      /\ EvidenceShape(row.evidence[k])
      /\ row.evidence[k].id \in Ids /\ row.evidence[k].by \in People
      /\ k = "execution" => row.evidence["delivery"].result = "none"
  <2>1. row.evidence[k] \in Evidence
    BY DEF Session
  <2>2. CASE k = "execution"
    BY <2>1, <2>2 DEF RowSound, ExecutionShape, DeliveryShape, EvidenceShape, InFlight, HandedOver
  <2>3. CASE k = "delivery"
    BY <2>1, <2>3 DEF RowSound, ExecutionShape, DeliveryShape, EvidenceShape, InFlight, HandedOver
  <2> QED BY <2>2, <2>3 DEF Kinds
<1>5. RowSound(next)
  <2>1. CASE k = "execution"
    BY <1>3, <1>4, <2>1
       DEF RowSound, ExecutionShape, DeliveryShape, EvidenceShape, Kinds, InFlight, Rank,
           Passed, Failed, Unexecuted, Unreviewed, HandedOver, Verified
  <2>2. CASE k = "delivery"
    BY <1>3, <1>4, <2>2
       DEF RowSound, ExecutionShape, DeliveryShape, EvidenceShape, Kinds, InFlight, Rank,
           Passed, Failed, Unexecuted, Unreviewed, HandedOver, Verified
  <2> QED BY <2>1, <2>2 DEF Kinds
<1>6. Carries(row, next)
  BY <1>3, <1>4 DEF Carries
<1>7. event \in Event /\ began \in Event
  BY <1>4, EventsTyped
<1>8. Story(next) = Append(Story(row), event)
  <2>1. Preface(next) = Preface(row)
    BY <1>3, <1>5, SamePreface DEF Kinds, InFlight, Unreviewed, Passed, Failed
  <2>2. Chapter(k, row.evidence[k]) = <<began>>
    BY <1>4, Chapters
  <2>3. EvidenceShape(ended)
    BY <1>4 DEF EvidenceShape
  <2>4. Chapter(k, ended) = <<began, event>>
    <3>1. CASE ended.result \in {"passed", "failed"}
      BY <2>3, <3>1, Chapters
    <3>2. CASE ended.result = "interrupted"
      BY <2>3, <3>2, Chapters
    <3> QED BY <3>1, <3>2
  <2> HIDE DEF event, began
  <2> QED BY <1>3, <1>4, <1>5, <1>7, <2>1, <2>2, <2>4, StoryGrows
<1> QED BY <1>1, <1>3, <1>5, <1>6, <1>7, <1>8 DEF GoodStep

LEMMA RecordedGood ==
    ASSUME NEW row \in Session, RowSound(row), NEW new, NEW type, NEW actor,
           NEW k \in Kinds, NEW result \in {"passed", "failed"}, NEW remote \in Remote,
           Recorded(row, new, type, actor, k, result, remote)
    PROVE  GoodStep(row, new, [type |-> type, actor |-> actor])
<1>1. PICK ended : ended = [id |-> row.evidence[k].id, by |-> actor, result |-> result,
                            remote |-> remote]
  OBVIOUS
<1>2. actor = row.evidence[k].by /\ row.evidence[k] \in Evidence
  BY DEF Recorded, Session
<1>3. /\ ended \in Evidence /\ ended.id = row.evidence[k].id
      /\ ended.by = row.evidence[k].by /\ ended.result = result
  BY <1>1, <1>2 DEF Evidence, Results
<1>4. /\ row.status = InFlight[k]
      /\ new = With(row, k, IF ended.result = "passed" THEN Passed[k] ELSE Failed[k], ended)
      /\ type = Ended[k][ended.result]
  BY <1>1, <1>3 DEF Recorded
<1> QED BY <1>2, <1>3, <1>4, EndedGood

LEMMA MarkedGood ==
    ASSUME NEW row \in Session, RowSound(row), NEW new, NEW type, NEW actor,
           NEW k \in Kinds, Marked(row, new, type, actor, k)
    PROVE  GoodStep(row, new, [type |-> type, actor |-> actor])
<1>1. PICK ended : ended = [row.evidence[k] EXCEPT !.result = "interrupted"]
  OBVIOUS
<1>2. row.evidence[k] \in Evidence /\ row.evidence \in [Kinds -> Evidence]
  BY DEF Session
<1>3. row.evidence[k].result = "running" /\ row.evidence[k].remote = "nothing"
  <2>1. CASE k = "execution"
    BY <2>1 DEF Marked, RowSound, ExecutionShape, EvidenceShape, InFlight
  <2>2. CASE k = "delivery"
    BY <2>2 DEF Marked, RowSound, DeliveryShape, EvidenceShape, InFlight
  <2> QED BY <2>1, <2>2 DEF Kinds
<1>4. /\ ended \in Evidence /\ ended.id = row.evidence[k].id
      /\ ended.by = row.evidence[k].by /\ ended.result = "interrupted"
      /\ ended.remote = "nothing"
  BY <1>1, <1>2, <1>3 DEF Evidence, Results
<1>5. new = With(row, k, Failed[k], ended)
  <2>1. [row.evidence EXCEPT ![k].result = "interrupted"] = [row.evidence EXCEPT ![k] = ended]
    BY <1>1
  <2> QED BY <2>1 DEF Marked, Interrupted, With
<1>6. row.status = InFlight[k] /\ actor = "system" /\ type = Ended[k][ended.result]
  BY <1>4 DEF Marked, Ended
<1> QED BY <1>4, <1>5, <1>6, EndedGood

LEMMA RowStepGood ==
    ASSUME NEW row \in Session, RowSound(row), NEW new, NEW type, NEW actor,
           RowStep(row, new, type, actor)
    PROVE  GoodStep(row, new, [type |-> type, actor |-> actor])
BY OpenedGood, ProposedGood, DecidedGood, BegunGood, RecordedGood, MarkedGood DEF RowStep

-----------------------------------------------------------------------------
(* What a step may do to the tables of sessions and of runs.               *)

Changed(row, new) == new.revision = row.revision + 1 /\ Carries(row, new)

TableStep ==
    /\ sessions' \in [Sessions -> Session]
    /\ \A s \in Sessions :
          sessions'[s] = sessions[s] \/ Changed(sessions[s], sessions'[s])

LEMMA WriteStep ==
    ASSUME IInv, NEW s \in Sessions, NEW new, NEW type, NEW actor,
           RowStep(sessions[s], new, type, actor), Write(s, new, type, actor)
    PROVE  /\ TableStep
           /\ \A x \in Sessions : log'[x] \in Seq(Event)
           /\ RowsSound' /\ LogTells'
           /\ sessions' = [sessions EXCEPT ![s] = Bumped(new)]
<1> DEFINE event == [type |-> type, actor |-> actor]
<1>0. /\ sessions \in [Sessions -> Session] /\ RowsSound /\ LogTells
      /\ sessions[s] \in Session /\ RowSound(sessions[s])
  BY DEF IInv, TypeOK, RowsSound
<1>1. GoodStep(sessions[s], new, event)
  BY <1>0, RowStepGood
<1> HIDE DEF event
<1>2. /\ Bumped(new) \in Session /\ RowSound(Bumped(new))
      /\ Changed(sessions[s], Bumped(new)) /\ event \in Event
      /\ Story(Bumped(new)) = Append(Story(sessions[s]), event)
  BY <1>1 DEF GoodStep, Changed
<1>3. /\ sessions' = [sessions EXCEPT ![s] = Bumped(new)]
      /\ log' = [log EXCEPT ![s] = Append(log[s], event)]
  BY DEF Write, Bumped, event
<1>4. /\ sessions'[s] = Bumped(new)
      /\ \A x \in Sessions : x # s => sessions'[x] = sessions[x]
      /\ sessions' \in [Sessions -> Session]
  BY <1>0, <1>2, <1>3
<1>5. /\ log \in [Sessions -> Seq(Event)] /\ \A x \in Sessions : log[x] = Story(sessions[x])
  BY <1>0 DEF LogTells
<1>6. PICK longer : longer = Append(log[s], event)
  OBVIOUS
<1>7. longer \in Seq(Event) /\ longer = Story(Bumped(new))
  <2>1. log[s] \in Seq(Event)
    BY <1>5
  <2>2. longer \in Seq(Event)
    BY <1>2, <1>6, <2>1, AppendProperties
  <2> QED BY <1>2, <1>5, <1>6, <2>2
<1>8. /\ log'[s] = longer /\ \A x \in Sessions : x # s => log'[x] = log[x]
      /\ log' \in [Sessions -> Seq(Event)]
  BY <1>3, <1>5, <1>6, <1>7
<1>9. TableStep
  BY <1>2, <1>4 DEF TableStep
<1>10. RowsSound'
  <2> SUFFICES ASSUME NEW x \in Sessions PROVE RowSound(sessions'[x])
    BY DEF RowsSound
  <2> QED BY <1>0, <1>2, <1>4 DEF RowsSound
<1>11. LogTells'
  <2> SUFFICES ASSUME NEW x \in Sessions PROVE log'[x] = Story(sessions'[x])
    BY <1>8 DEF LogTells
  <2>1. CASE x = s
    BY <1>4, <1>7, <1>8, <2>1
  <2>2. CASE x # s
    BY <1>4, <1>5, <1>8, <2>2
  <2> QED BY <2>1, <2>2
<1> QED BY <1>3, <1>8, <1>9, <1>10, <1>11

\* What a run that began goes on being.
Onward(run, new) ==
    /\ run.kind # None =>
         new.kind = run.kind /\ new.session = run.session /\ new.revision = run.revision
    /\ run.late => new.late
    /\ \A known \in Remote : Reaches(known, run.remote) => Reaches(known, new.remote)
    /\ run.stage = "over" =>
         /\ new.stage = "over" /\ new.passed = run.passed
         /\ new.directory => run.directory

RunsStep ==
    /\ runs' \in [Ids -> Run]
    /\ \A i \in Ids : Onward(runs[i], runs'[i])

LEMMA OnwardSame == ASSUME NEW run PROVE Onward(run, run)
BY DEF Onward

LEMMA EvidenceKept ==
    ASSUME IInv, RunsStep, NEW s \in Sessions, NEW k \in Kinds,
           sessions'[s].evidence[k] = sessions[s].evidence[k]
    PROVE  EvidenceSound(s, k)'
<1>1. PICK evidence : evidence = sessions[s].evidence[k]
  OBVIOUS
<1>2. SUFFICES ASSUME evidence.id # None PROVE Tells(evidence, k, s, runs'[evidence.id])
  BY <1>1 DEF EvidenceSound
<1>3. evidence \in Evidence /\ evidence.id \in Ids
  <2>1. sessions[s] \in Session
    BY DEF IInv, TypeOK
  <2> QED BY <1>1, <1>2, <2>1 DEF Session, Evidence
<1>4. PICK run, next : run = runs[evidence.id] /\ next = runs'[evidence.id]
  OBVIOUS
<1>5. Onward(run, next)
  BY <1>3, <1>4 DEF RunsStep
<1>6. Tells(evidence, k, s, run)
  BY <1>1, <1>2, <1>4 DEF IInv, EvidencesSound, EvidenceSound
<1>7. Tells(evidence, k, s, next)
  <2>1. k # None /\ evidence.remote \in Remote
    BY <1>3 DEF Kinds, Evidence
  <2>2. /\ next.kind = k /\ next.session = s /\ (run.late => next.late)
        /\ Reaches(evidence.remote, next.remote)
    BY <1>5, <1>6, <2>1 DEF Onward, Tells
  <2>3. run.stage = "over" => /\ next.stage = "over" /\ next.passed = run.passed
                              /\ next.directory => run.directory
    BY <1>5 DEF Onward
  <2>4. evidence.result = "passed" =>
          /\ next.passed /\ next.stage = "over" /\ ~next.directory
          /\ k = "delivery" => evidence.remote = "pull_request"
    BY <1>6, <2>3, Zenon DEF Tells
  <2>5. evidence.result = "failed" => ~next.passed /\ next.stage = "over"
    BY <1>6, <2>3, Zenon DEF Tells
  <2>6. evidence.result = "interrupted" => next.late
    <3>1. evidence.result = "interrupted" => run.late
      BY <1>6, Zenon DEF Tells
    <3> QED BY <2>2, <3>1, Zenon
  <2>7. next.kind = k /\ next.session = s /\ Reaches(evidence.remote, next.remote)
    BY <2>2, Zenon
  <2> QED BY <2>4, <2>5, <2>6, <2>7, Zenon DEF Tells
<1> QED BY <1>4, <1>7

LEMMA NamedKept ==
    ASSUME IInv, TableStep, RunsStep, NEW i \in Ids, runs[i].kind # None
    PROVE  Named(i)'
<1>1. PICK run, next : run = runs[i] /\ next = runs'[i]
  OBVIOUS
<1>2. Onward(run, next) /\ run.kind # None
  BY <1>1 DEF RunsStep
<1>3. /\ next.kind = run.kind /\ next.session = run.session
      /\ run.kind \in Kinds /\ run.session \in Sessions
  <2>1. RunShape(run)
    BY <1>1 DEF IInv, RunsSound
  <2> QED BY <1>2, <2>1 DEF Onward, RunShape
<1>4. PICK row, new : row = sessions[run.session] /\ new = sessions'[run.session]
  OBVIOUS
<1>5. row.evidence[run.kind].id = i
  BY <1>1, <1>2, <1>4 DEF IInv, RunsSound, Named
<1>6. new = row \/ Changed(row, new)
  BY <1>3, <1>4 DEF TableStep
<1>7. new.evidence[run.kind].id = i
  BY <1>3, <1>5, <1>6 DEF Changed, Carries
<1> QED BY <1>1, <1>3, <1>4, <1>7 DEF Named

LEMMA RequestKept ==
    ASSUME IInv, TableStep, NEW request \in requests
    PROVE  RequestSound(request)'
<1>1. request \in Request /\ RequestSound(request)
  BY DEF IInv, TypeOK, RequestsSound
<1>2. request.session \in Sessions /\ request.revision \in Nat
  BY <1>1 DEF Request
<1>3. PICK row, new : row = sessions[request.session] /\ new = sessions'[request.session]
  OBVIOUS
<1>4. new = row \/ Changed(row, new)
  BY <1>2, <1>3 DEF TableStep
<1>5. row \in Session /\ row.revision \in Nat
  <2>1. row \in Session
    BY <1>2, <1>3 DEF IInv, TypeOK
  <2> QED BY <2>1 DEF Session
<1>6. CASE new = row
  BY <1>1, <1>3, <1>6 DEF RequestSound, Unchanged
<1>7. CASE Changed(row, new)
  <2>1. request.revision <= row.revision
    BY <1>1, <1>3 DEF RequestSound
  <2>2. request.revision < new.revision
    BY <1>2, <1>5, <1>7, <2>1 DEF Changed
  <2>3. request.revision <= new.revision /\ new.revision # request.revision
    BY <1>2, <1>5, <1>7, <2>2 DEF Changed
  <2> QED BY <1>3, <2>3 DEF RequestSound, Unchanged
<1> QED BY <1>4, <1>6, <1>7

LEMMA EntryKept ==
    ASSUME IInv, TableStep, RunsStep, NEW k \in Kinds,
           NEW entry \in [session: Sessions, revision: 1..7], EntrySound(entry, k)
    PROVE  EntrySound(entry, k)'
<1>2. entry.session \in Sessions /\ entry.revision \in Nat
  OBVIOUS
<1>3. PICK row, new : row = sessions[entry.session] /\ new = sessions'[entry.session]
  OBVIOUS
<1>4. new = row \/ Changed(row, new)
  BY <1>2, <1>3 DEF TableStep
<1>5. row \in Session /\ row.revision \in Nat /\ RowSound(row)
  <2>1. row \in Session /\ RowSound(row)
    BY <1>2, <1>3 DEF IInv, TypeOK, RowsSound
  <2> QED BY <2>1 DEF Session
<1>6. CASE new = row
  <2>1. row.status = InFlight[k] => row.evidence[k].id \in Ids
    BY <1>5 DEF RowSound, ExecutionShape, DeliveryShape, EvidenceShape, Kinds, InFlight
  <2>2. \A i \in Ids : runs[i].late => runs'[i].late
    BY DEF RunsStep, Onward
  <2> QED BY <1>3, <1>6, <2>1, <2>2 DEF EntrySound, Unchanged
<1>7. CASE Changed(row, new)
  <2>1. entry.revision <= row.revision
    BY <1>3 DEF EntrySound
  <2>2. entry.revision <= new.revision /\ new.revision # entry.revision
    BY <1>2, <1>5, <1>7, <2>1 DEF Changed
  <2> QED BY <1>3, <2>2 DEF EntrySound, Unchanged
<1> QED BY <1>4, <1>6, <1>7

LEMMA GivenUpKept ==
    ASSUME IInv, TableStep, RunsStep, NEW i \in Ids, GivenUp(i)
    PROVE  GivenUp(i)'
<1>1. PICK run, next : run = runs[i] /\ next = runs'[i]
  OBVIOUS
<1>2. run.kind # None /\ run.late /\ Onward(run, next) /\ RunShape(run) /\ Named(i)
  BY <1>1 DEF RunsStep, GivenUp, IInv, RunsSound
<1>3. /\ next.kind = run.kind /\ next.session = run.session /\ next.late
      /\ run.kind \in Kinds /\ run.session \in Sessions
  BY <1>2 DEF Onward, RunShape
<1>4. PICK row, new : row = sessions[run.session] /\ new = sessions'[run.session]
  OBVIOUS
<1>5. row.evidence[run.kind].id = i /\ row.evidence[run.kind].result # "running"
  BY <1>1, <1>2, <1>4 DEF Named, GivenUp
<1>6. row.evidence[run.kind].result # "none"
  <2>1. EvidenceShape(row.evidence[run.kind])
    <3>1. RowSound(row)
      BY <1>3, <1>4 DEF IInv, RowsSound
    <3> QED BY <1>3, <3>1 DEF RowSound, ExecutionShape, DeliveryShape, Kinds
  <2> QED BY <1>5, <2>1 DEF EvidenceShape, NoEvidence
<1>7. new = row \/ Changed(row, new)
  BY <1>3, <1>4 DEF TableStep
<1>8. new.evidence[run.kind] = row.evidence[run.kind]
  BY <1>3, <1>5, <1>6, <1>7 DEF Changed, Carries
<1> QED BY <1>1, <1>2, <1>3, <1>4, <1>5, <1>8 DEF GivenUp

LEMMA PassKept ==
    ASSUME IInv, TableStep, RunsStep, NEW pass \in Pass, PassSound(pass)
    PROVE  PassSound(pass)'
<1>1. pass.todo \subseteq [session: Sessions, revision: 1..7] /\ pass.marked \subseteq Ids
  BY DEF Pass
<1>2. \A entry \in pass.todo : EntrySound(entry, pass.stage)'
  <2> SUFFICES ASSUME NEW entry \in pass.todo PROVE EntrySound(entry, pass.stage)'
    OBVIOUS
  <2>1. pass.stage \in Kinds /\ EntrySound(entry, pass.stage)
    BY DEF PassSound
  <2>2. PICK k \in Kinds : k = pass.stage
    BY <2>1
  <2>3. EntrySound(entry, k)'
    BY <1>1, <2>1, <2>2, EntryKept
  <2> QED BY <2>2, <2>3
<1>3. \A i \in pass.marked : GivenUp(i)'
  BY <1>1, GivenUpKept DEF PassSound
<1> QED BY <1>2, <1>3 DEF PassSound

LEMMA NoPassSound == NoPass \in Pass /\ PassSound(NoPass) /\ PassSound(NoPass)'
BY DEF NoPass, Pass, PassSound, Kinds

LEMMA PassesKept ==
    ASSUME IInv, TableStep, RunsStep, passes' \in [Servers -> Pass],
           \A w \in Servers : passes'[w] \in {passes[w], NoPass}
    PROVE  PassesSound'
<1> SUFFICES ASSUME NEW w \in Servers PROVE PassSound(passes[w])'
  BY DEF PassesSound
<1>1. PICK pass : pass = passes'[w]
  OBVIOUS
<1>2. pass \in Pass /\ PassSound(pass)
  BY <1>1, NoPassSound DEF IInv, PassesSound
<1>3. PassSound(pass)'
  BY <1>2, PassKept
<1> QED BY <1>1, <1>3 DEF PassSound

-----------------------------------------------------------------------------
(* Steps that write no row.                                                *)

LEMMA TableSame ==
    ASSUME IInv, UNCHANGED <<sessions, log>>
    PROVE  /\ TableStep /\ RowsSound' /\ LogTells'
           /\ sessions' \in [Sessions -> Session]
           /\ \A s \in Sessions : log'[s] \in Seq(Event)
<1>1. sessions' = sessions /\ log' = log
  OBVIOUS
<1>2. TableStep
  BY <1>1 DEF IInv, TypeOK, TableStep
<1>3. RowsSound'
  BY <1>1 DEF IInv, RowsSound
<1>4. LogTells'
  BY <1>1 DEF IInv, LogTells
<1> QED BY <1>1, <1>2, <1>3, <1>4 DEF IInv, TypeOK

\* A step of runs and passes alone, which begins no run.
LEMMA RunsOnly ==
    ASSUME IInv, RunsStep, UNCHANGED <<sessions, log, requests>>,
           passes' \in [Servers -> Pass], faults' \in 0..MaxFaults, PassesSound',
           \A i \in Ids : /\ RunShape(runs'[i])
                          /\ runs[i].kind = None => runs'[i].kind = None
    PROVE  IInv'
<1>1. /\ TableStep /\ RowsSound' /\ LogTells'
      /\ sessions' \in [Sessions -> Session]
      /\ \A s \in Sessions : log'[s] \in Seq(Event)
  BY TableSame
<1>2. runs' \in [Ids -> Run] /\ requests' = requests /\ sessions' = sessions
  BY DEF RunsStep
<1>3. TypeOK'
  BY <1>1, <1>2 DEF IInv, TypeOK
<1>4. EvidencesSound'
  <2> SUFFICES ASSUME NEW s \in Sessions, NEW k \in Kinds PROVE EvidenceSound(s, k)'
    BY DEF EvidencesSound
  <2> QED BY <1>2, EvidenceKept
<1>5. RequestsSound'
  <2> SUFFICES ASSUME NEW request \in requests PROVE RequestSound(request)'
    BY <1>2 DEF RequestsSound
  <2> QED BY <1>1, RequestKept
<1>6. RunsSound'
  <2> SUFFICES ASSUME NEW i \in Ids PROVE Named(i)'
    BY DEF RunsSound
  <2>1. CASE runs[i].kind = None
    BY <2>1 DEF Named
  <2>2. CASE runs[i].kind # None
    BY <1>1, <2>2, NamedKept
  <2> QED BY <2>1, <2>2
<1> QED BY <1>1, <1>3, <1>4, <1>5, <1>6 DEF IInv

LEMMA RunUpdated ==
    ASSUME IInv, NEW i \in Ids, NEW new \in Run, Onward(runs[i], new),
           runs' = [runs EXCEPT ![i] = new]
    PROVE  /\ RunsStep /\ runs'[i] = new
           /\ \A j \in Ids : j # i => runs'[j] = runs[j]
<1>1. runs \in [Ids -> Run]
  BY DEF IInv, TypeOK
<1>2. /\ runs' \in [Ids -> Run] /\ runs'[i] = new
      /\ \A j \in Ids : j # i => runs'[j] = runs[j]
  BY <1>1
<1>3. \A j \in Ids : Onward(runs[j], runs'[j])
  BY <1>2, OnwardSame
<1> QED BY <1>2, <1>3 DEF RunsStep

\* A step of one run that began.
LEMMA RunInv ==
    ASSUME IInv, NEW i \in Ids, NEW new \in Run, Onward(runs[i], new), RunShape(new),
           runs[i].kind # None, runs' = [runs EXCEPT ![i] = new],
           UNCHANGED <<sessions, log, requests, passes>>, faults' \in 0..MaxFaults
    PROVE  IInv'
<1>1. /\ RunsStep /\ runs'[i] = new
      /\ \A j \in Ids : j # i => runs'[j] = runs[j]
  BY RunUpdated
<1>2. passes' = passes /\ passes' \in [Servers -> Pass]
  BY DEF IInv, TypeOK
<1>3. PassesSound'
  BY <1>1, <1>2, TableSame, PassesKept
<1>4. \A j \in Ids : /\ RunShape(runs'[j])
                     /\ runs[j].kind = None => runs'[j].kind = None
  BY <1>1 DEF IInv, RunsSound
<1> QED BY <1>1, <1>2, <1>3, <1>4, RunsOnly

LEMMA RunTyped ==
    ASSUME IInv, NEW i \in Ids
    PROVE  /\ runs[i] \in Run /\ RunShape(runs[i])
           /\ runs[i].stage # "unused" => runs[i].kind # None
           /\ faults \in 0..MaxFaults
BY DEF IInv, TypeOK, RunsSound, RunShape

LEMMA IsolateInv == ASSUME IInv, NEW i \in Ids, Isolate(i) PROVE IInv'
<1>1. PICK run, new : /\ run = runs[i]
                      /\ new = [run EXCEPT !.stage = "working", !.directory = TRUE]
  OBVIOUS
<1>2. run \in Run /\ RunShape(run) /\ run.stage = "started" /\ run.kind # None
  BY <1>1, RunTyped DEF Isolate
<1>3. new \in Run /\ new.stage = "working" /\ new.directory = TRUE /\ new.kind = run.kind
      /\ new.session = run.session /\ new.revision = run.revision /\ new.server = run.server
      /\ new.remote = run.remote /\ new.told = run.told /\ new.late = run.late
      /\ new.passed = run.passed
  BY <1>1, <1>2 DEF Run
<1>4. Onward(run, new) /\ RunShape(new)
  BY <1>2, <1>3 DEF Onward, RunShape
<1>5. runs' = [runs EXCEPT ![i] = new] /\ UNCHANGED <<sessions, log, requests, passes>>
      /\ faults' \in 0..MaxFaults
  BY <1>1, RunTyped DEF Isolate
<1> QED BY <1>1, <1>2, <1>3, <1>4, <1>5, RunInv

LEMMA PublishInv == ASSUME IInv, NEW i \in Ids, Publish(i) PROVE IInv'
<1>1. PICK next \in {"branch", "pull_request"}, told \in BOOLEAN :
          /\ next = "branch" <=> runs[i].remote = "nothing"
          /\ runs[i].remote # "pull_request"
          /\ runs' = [runs EXCEPT ![i] =
                        [@ EXCEPT !.remote = next,
                                  !.told = IF told THEN next ELSE runs[i].told]]
  BY DEF Publish
<1>2. PICK run, known, new : /\ run = runs[i]
                             /\ known = IF told THEN next ELSE run.told
                             /\ new = [run EXCEPT !.remote = next, !.told = known]
  OBVIOUS
<1>3. /\ run \in Run /\ RunShape(run) /\ run.stage = "working" /\ run.kind = "delivery"
      /\ run.kind # None /\ run.told = run.remote
  BY <1>2, RunTyped DEF Publish
<1>4. known \in Remote /\ next \in Remote
  BY <1>2, <1>3 DEF Run, Remote
<1>5. /\ new \in Run /\ new.stage = run.stage /\ new.directory = run.directory
      /\ new.kind = run.kind /\ new.session = run.session /\ new.revision = run.revision
      /\ new.server = run.server /\ new.remote = next /\ new.told = known
      /\ new.late = run.late /\ new.passed = run.passed
  BY <1>2, <1>3, <1>4 DEF Run
<1>6. next = "branch" <=> run.remote = "nothing"
  BY <1>1, <1>2
<1>7. run.remote # "pull_request" /\ run.remote \in Remote
  BY <1>1, <1>2, <1>3 DEF Run
<1>8. Onward(run, new)
  <2>1. \A x \in Remote : Reaches(x, run.remote) => Reaches(x, new.remote)
    BY <1>5, <1>6, <1>7 DEF Reaches, Remote
  <2> QED BY <1>3, <1>5, <2>1 DEF Onward
<1>9. RunShape(new)
  <2>1. Reaches(known, next)
    BY <1>2, <1>3, <1>6, <1>7 DEF Reaches, Remote
  <2>2. ~run.passed
    BY <1>3 DEF RunShape
  <2> QED BY <1>3, <1>5, <2>1, <2>2 DEF RunShape
<1>10. runs' = [runs EXCEPT ![i] = new] /\ UNCHANGED <<sessions, log, requests, passes>>
       /\ faults' \in 0..MaxFaults
  BY <1>1, <1>2, RunTyped DEF Publish
<1> QED BY <1>2, <1>3, <1>5, <1>8, <1>9, <1>10, RunInv

LEMMA ReturnInv == ASSUME IInv, NEW i \in Ids, Return(i) PROVE IInv'
<1>1. PICK removed \in BOOLEAN, passed \in BOOLEAN :
          /\ passed => MayPass(runs[i]) /\ removed
          /\ runs' = [runs EXCEPT ![i] =
                        [@ EXCEPT !.stage = "returned", !.passed = passed,
                                  !.directory = runs[i].directory /\ ~removed]]
  BY DEF Return
<1>2. PICK run, left, new : /\ run = runs[i] /\ left = (run.directory /\ ~removed)
                            /\ new = [run EXCEPT !.stage = "returned", !.passed = passed,
                                                 !.directory = left]
  OBVIOUS
<1>3. run \in Run /\ RunShape(run) /\ run.stage \in {"started", "working"} /\ run.kind # None
  BY <1>2, RunTyped DEF Return
<1>4. left \in BOOLEAN
  BY <1>2
<1>5. /\ new \in Run /\ new.stage = "returned" /\ new.directory = left
      /\ new.kind = run.kind /\ new.session = run.session /\ new.revision = run.revision
      /\ new.server = run.server /\ new.remote = run.remote /\ new.told = run.told
      /\ new.late = run.late /\ new.passed = passed
  BY <1>2, <1>3, <1>4 DEF Run
<1>6. Onward(run, new)
  BY <1>3, <1>5 DEF Onward
<1>7. RunShape(new)
  <2>1. passed => ~left /\ (run.kind = "delivery" => run.told = "pull_request")
    BY <1>1, <1>2 DEF MayPass
  <2> QED BY <1>3, <1>5, <2>1 DEF RunShape
<1>8. runs' = [runs EXCEPT ![i] = new] /\ UNCHANGED <<sessions, log, requests, passes>>
      /\ faults' \in 0..MaxFaults
  BY <1>1, <1>2, RunTyped DEF Return
<1> QED BY <1>2, <1>3, <1>5, <1>6, <1>7, <1>8, RunInv

LEMMA RunOver ==
    ASSUME NEW run \in Run, RunShape(run), run.kind # None, NEW new,
           new = [run EXCEPT !.stage = "over"],
           run.passed => run.stage \in {"returned", "over"}
    PROVE  /\ new \in Run /\ RunShape(new) /\ Onward(run, new)
           /\ new.stage = "over" /\ new.passed = run.passed /\ new.kind = run.kind
           /\ new.session = run.session /\ new.directory = run.directory
           /\ new.remote = run.remote /\ new.late = run.late
<1>1. /\ new \in Run /\ new.stage = "over" /\ new.directory = run.directory
      /\ new.kind = run.kind /\ new.session = run.session /\ new.revision = run.revision
      /\ new.server = run.server /\ new.remote = run.remote /\ new.told = run.told
      /\ new.late = run.late /\ new.passed = run.passed
  BY DEF Run
<1>2. Onward(run, new) /\ RunShape(new)
  BY <1>1 DEF Onward, RunShape
<1> QED BY <1>1, <1>2

LEMMA LoseInv == ASSUME IInv, NEW i \in Ids, Lose(i) PROVE IInv'
<1>1. PICK run, new : run = runs[i] /\ new = [run EXCEPT !.stage = "over"]
  OBVIOUS
<1>2. run \in Run /\ RunShape(run) /\ run.stage = "returned" /\ run.kind # None
  BY <1>1, RunTyped DEF Lose
<1>3. new \in Run /\ Onward(run, new) /\ RunShape(new)
  BY <1>1, <1>2, RunOver
<1>4. runs' = [runs EXCEPT ![i] = new] /\ UNCHANGED <<sessions, log, requests, passes>>
      /\ faults' \in 0..MaxFaults
  BY <1>1, RunTyped DEF Lose
<1> QED BY <1>1, <1>2, <1>3, <1>4, RunInv

LEMMA ExpireInv == ASSUME IInv, NEW i \in Ids, Expire(i) PROVE IInv'
<1>1. PICK run, new : run = runs[i] /\ new = [run EXCEPT !.late = TRUE]
  OBVIOUS
<1>2. run \in Run /\ RunShape(run) /\ run.stage # "unused" /\ run.kind # None
  BY <1>1, RunTyped DEF Expire
<1>3. /\ new \in Run /\ new.stage = run.stage /\ new.directory = run.directory
      /\ new.kind = run.kind /\ new.session = run.session /\ new.revision = run.revision
      /\ new.server = run.server /\ new.remote = run.remote /\ new.told = run.told
      /\ new.late = TRUE /\ new.passed = run.passed
  BY <1>1, <1>2 DEF Run
<1>4. Onward(run, new) /\ RunShape(new)
  BY <1>2, <1>3 DEF Onward, RunShape
<1>5. runs' = [runs EXCEPT ![i] = new] /\ UNCHANGED <<sessions, log, requests, passes>>
  BY <1>1 DEF Expire
<1>6. faults' \in 0..MaxFaults
  BY RunTyped DEF Expire
<1> QED BY <1>1, <1>2, <1>3, <1>4, <1>5, <1>6, RunInv

LEMMA CrashInv == ASSUME IInv, NEW w \in Servers, Crash(w) PROVE IInv'
<1>1. \A i \in Ids :
         \/ runs'[i] = runs[i]
         \/ runs[i].kind # None /\ runs'[i] = [runs[i] EXCEPT !.stage = "over"]
  <2> SUFFICES ASSUME NEW i \in Ids, runs[i].server = w PROVE runs[i].kind # None
    BY DEF Crash
  <2> QED BY RunTyped DEF RunShape
<1>2. \A i \in Ids : /\ runs'[i] \in Run /\ RunShape(runs'[i]) /\ Onward(runs[i], runs'[i])
                     /\ runs[i].kind = None => runs'[i].kind = None
  <2> SUFFICES ASSUME NEW i \in Ids
               PROVE /\ runs'[i] \in Run /\ RunShape(runs'[i]) /\ Onward(runs[i], runs'[i])
                     /\ runs[i].kind = None => runs'[i].kind = None
    OBVIOUS
  <2>1. PICK run, new : run = runs[i] /\ new = runs'[i]
    OBVIOUS
  <2>2. run \in Run /\ RunShape(run)
    BY <2>1, RunTyped
  <2>3. CASE new = run
    BY <2>1, <2>2, <2>3, OnwardSame
  <2>4. CASE run.kind # None /\ new = [run EXCEPT !.stage = "over"]
    <3>1. run.passed => run.stage \in {"returned", "over"}
      BY <2>2 DEF RunShape
    <3>2. new \in Run /\ RunShape(new) /\ Onward(run, new)
      BY <2>2, <2>4, <3>1, RunOver
    <3> QED BY <2>1, <2>4, <3>2
  <2> QED BY <1>1, <2>1, <2>3, <2>4
<1>3. RunsStep
  <2>1. runs' \in [Ids -> Run]
    BY <1>2 DEF Crash
  <2> QED BY <1>2, <2>1 DEF RunsStep
<1>4. passes' \in [Servers -> Pass] /\ \A v \in Servers : passes'[v] \in {passes[v], NoPass}
  <2>1. passes \in [Servers -> Pass] /\ NoPass \in Pass
    BY NoPassSound DEF IInv, TypeOK
  <2> QED BY <2>1 DEF Crash
<1>5. PassesSound' /\ UNCHANGED <<sessions, log, requests>>
  BY <1>3, <1>4, TableSame, PassesKept DEF Crash
<1>6. faults' \in 0..MaxFaults
  BY DEF IInv, TypeOK, Crash
<1> QED BY <1>2, <1>3, <1>4, <1>5, <1>6, RunsOnly

LEMMA RunsSame == ASSUME IInv, runs' = runs PROVE RunsStep
BY OnwardSame DEF IInv, TypeOK, RunsStep

\* A pass that begins, ends or goes on, the others being as they were.
LEMMA PassesMove ==
    ASSUME IInv, TableStep, RunsStep, NEW w \in Servers, NEW pass \in Pass,
           PassSound(pass)', passes' = [passes EXCEPT ![w] = pass]
    PROVE  passes' \in [Servers -> Pass] /\ PassesSound'
<1>1. passes \in [Servers -> Pass]
  BY DEF IInv, TypeOK
<1>2. /\ passes' \in [Servers -> Pass] /\ passes'[w] = pass
      /\ \A v \in Servers : v # w => passes'[v] = passes[v]
  BY <1>1
<1> SUFFICES ASSUME NEW v \in Servers PROVE PassSound(passes[v])'
  BY <1>2 DEF PassesSound
<1>3. PICK next : next = passes'[v]
  OBVIOUS
<1>4. PassSound(next)'
  <2>1. CASE v = w
    BY <1>2, <1>3, <2>1
  <2>2. CASE v # w
    <3>1. next = passes[v] /\ next \in Pass /\ PassSound(next)
      BY <1>1, <1>2, <1>3, <2>2 DEF IInv, PassesSound
    <3> QED BY <3>1, PassKept
  <2> QED BY <2>1, <2>2
<1> QED BY <1>3, <1>4 DEF PassSound

LEMMA LookInv == ASSUME IInv, NEW w \in Servers, Look(w) PROVE IInv'
<1>1. PICK k : k = IF passes[w].stage = "idle" THEN "execution" ELSE "delivery"
  OBVIOUS
<1>2. k \in Kinds
  BY <1>1 DEF Kinds
<1>3. PICK todo : todo = {[session |-> s, revision |-> sessions[s].revision] : s \in Stale(k)}
  OBVIOUS
<1>4. PICK pass : pass = [stage |-> k, todo |-> todo, marked |-> {}]
  OBVIOUS
<1>5. UNCHANGED <<sessions, log, requests, runs, faults>>
      /\ passes' = [passes EXCEPT ![w] = pass]
  BY <1>1, <1>3, <1>4 DEF Look
<1>6. \A entry \in todo : /\ entry \in [session: Sessions, revision: 1..7]
                          /\ EntrySound(entry, k)'
  <2> SUFFICES ASSUME NEW s \in Stale(k), NEW entry,
                      entry = [session |-> s, revision |-> sessions[s].revision]
               PROVE  /\ entry \in [session: Sessions, revision: 1..7]
                      /\ EntrySound(entry, k)'
    BY <1>3
  <2>1. PICK row : row = sessions[s]
    OBVIOUS
  <2>2. s \in Sessions /\ row.status = InFlight[k] /\ runs[row.evidence[k].id].late
    BY <2>1 DEF Stale
  <2>3. row \in Session /\ RowSound(row)
    BY <2>1, <2>2 DEF IInv, TypeOK, RowsSound
  <2>4. row.revision \in 1..7
    BY <1>2, <2>2, <2>3 DEF RowSound, Rank, InFlight, Kinds
  <2>5. entry.session = s /\ entry.revision = row.revision
    BY <2>1
  <2>6. sessions'[s] = row /\ runs'[row.evidence[k].id].late
    BY <1>5, <2>1, <2>2
  <2>7. EntrySound(entry, k)'
    BY <2>2, <2>4, <2>5, <2>6 DEF EntrySound
  <2> QED BY <2>1, <2>2, <2>4, <2>7
<1>7. pass \in Pass
  BY <1>2, <1>4, <1>6 DEF Pass
<1>8. pass.stage = k /\ pass.todo = todo /\ pass.marked = {}
  BY <1>4
<1>9. PassSound(pass)'
  BY <1>2, <1>6, <1>8 DEF PassSound
<1>10. RunsStep /\ TableStep
  BY <1>5, RunsSame, TableSame
<1>11. passes' \in [Servers -> Pass] /\ PassesSound'
  BY <1>5, <1>7, <1>9, <1>10, PassesMove
<1>12. \A i \in Ids : /\ RunShape(runs'[i]) /\ (runs[i].kind = None => runs'[i].kind = None)
  BY <1>5 DEF IInv, RunsSound
<1>13. faults' \in 0..MaxFaults
  BY <1>5 DEF IInv, TypeOK
<1> QED BY <1>5, <1>10, <1>11, <1>12, <1>13, RunsOnly

\* The removal of directories of runs that were given up.
LEMMA WithoutStep ==
    ASSUME IInv, NEW ids \in SUBSET Ids, \A i \in ids : GivenUp(i), runs' = Without(ids)
    PROVE  /\ RunsStep
           /\ \A i \in Ids : RunShape(runs'[i]) /\ (runs[i].kind = None => runs'[i].kind = None)
<1>1. \A i \in Ids : /\ runs'[i] \in Run /\ RunShape(runs'[i]) /\ Onward(runs[i], runs'[i])
                     /\ runs[i].kind = None => runs'[i].kind = None
  <2> SUFFICES ASSUME NEW i \in Ids
               PROVE /\ runs'[i] \in Run /\ RunShape(runs'[i]) /\ Onward(runs[i], runs'[i])
                     /\ runs[i].kind = None => runs'[i].kind = None
    OBVIOUS
  <2>1. PICK run, new : run = runs[i] /\ new = runs'[i]
    OBVIOUS
  <2>2. run \in Run /\ RunShape(run)
    BY <2>1, RunTyped
  <2>3. CASE i \notin ids
    <3>1. new = run
      BY <2>1, <2>3 DEF Without
    <3> QED BY <2>1, <2>2, <3>1, OnwardSame
  <2>4. CASE i \in ids
    <3>1. new = [run EXCEPT !.directory = FALSE] /\ run.kind # None
      BY <2>1, <2>4 DEF Without, GivenUp
    <3>2. /\ new \in Run /\ new.stage = run.stage /\ new.directory = FALSE
          /\ new.kind = run.kind /\ new.session = run.session /\ new.revision = run.revision
          /\ new.server = run.server /\ new.remote = run.remote /\ new.told = run.told
          /\ new.late = run.late /\ new.passed = run.passed
      BY <2>2, <3>1 DEF Run
    <3>3. Onward(run, new) /\ RunShape(new)
      BY <2>2, <3>1, <3>2 DEF Onward, RunShape
    <3> QED BY <2>1, <3>1, <3>2, <3>3
  <2> QED BY <2>3, <2>4
<1>2. runs' \in [Ids -> Run]
  BY <1>1 DEF Without
<1> QED BY <1>1, <1>2 DEF RunsStep

LEMMA PassTyped ==
    ASSUME IInv, NEW w \in Servers
    PROVE  passes[w] \in Pass /\ PassSound(passes[w]) /\ passes[w].marked \subseteq Ids
           /\ \A i \in passes[w].marked : GivenUp(i)
<1>1. passes[w] \in Pass /\ PassSound(passes[w])
  BY DEF IInv, TypeOK, PassesSound
<1> QED BY <1>1 DEF PassSound, Pass

LEMMA CleanInv == ASSUME IInv, NEW w \in Servers, Clean(w) PROVE IInv'
<1>1. /\ RunsStep
      /\ \A i \in Ids : RunShape(runs'[i]) /\ (runs[i].kind = None => runs'[i].kind = None)
  BY PassTyped, WithoutStep DEF Clean
<1>2. UNCHANGED <<sessions, log, requests>> /\ faults' \in 0..MaxFaults
  BY DEF Clean, IInv, TypeOK
<1>3. PICK pass : pass = IF passes[w].stage = "execution"
                         THEN [NoPass EXCEPT !.stage = "between"] ELSE NoPass
  OBVIOUS
<1>4. passes' = [passes EXCEPT ![w] = pass]
  BY <1>3 DEF Clean
<1>5. pass \in Pass /\ PassSound(pass)'
  <2>1. pass.stage \in {"idle", "between"} /\ pass.todo = {} /\ pass.marked = {} /\ pass \in Pass
    BY <1>3 DEF NoPass, Pass
  <2> QED BY <2>1 DEF PassSound, Kinds
<1>6. TableStep
  BY <1>2, TableSame
<1>7. passes' \in [Servers -> Pass] /\ PassesSound'
  BY <1>1, <1>4, <1>5, <1>6, PassesMove
<1> QED BY <1>1, <1>2, <1>7, RunsOnly

LEMMA AbortInv == ASSUME IInv, NEW w \in Servers, Abort(w) PROVE IInv'
<1>1. PICK removed \in SUBSET passes[w].marked : runs' = Without(removed)
  BY DEF Abort
<1>2. /\ RunsStep
      /\ \A i \in Ids : RunShape(runs'[i]) /\ (runs[i].kind = None => runs'[i].kind = None)
  BY <1>1, PassTyped, WithoutStep
<1>3. UNCHANGED <<sessions, log, requests>> /\ faults' \in 0..MaxFaults
  BY DEF Abort, IInv, TypeOK
<1>4. passes' \in [Servers -> Pass] /\ \A v \in Servers : passes'[v] \in {passes[v], NoPass}
  <2>1. passes \in [Servers -> Pass] /\ NoPass \in Pass
    BY NoPassSound DEF IInv, TypeOK
  <2> QED BY <2>1 DEF Abort
<1>5. PassesSound'
  BY <1>2, <1>3, <1>4, TableSame, PassesKept
<1> QED BY <1>2, <1>3, <1>4, <1>5, RunsOnly

-----------------------------------------------------------------------------
(* Steps of requests alone.                                                *)

LEMMA RequestsOnly ==
    ASSUME IInv, UNCHANGED <<sessions, log, runs, passes, faults>>,
           requests' \subseteq Request, \A request \in requests' : RequestSound(request)
    PROVE  IInv'
<1>1. TypeOK'
  BY DEF IInv, TypeOK
<1>2. RowsSound' /\ LogTells'
  BY TableSame
<1>3. EvidencesSound' /\ RunsSound'
  BY DEF IInv, EvidencesSound, EvidenceSound, RunsSound, Named
<1>4. RequestsSound'
  BY DEF RequestsSound, RequestSound, Unchanged
<1>5. PassesSound'
  BY RunsSame, TableSame, PassesKept DEF IInv, TypeOK
<1> QED BY <1>1, <1>2, <1>3, <1>4, <1>5 DEF IInv

LEMMA AskInv ==
    ASSUME IInv, NEW operation \in Operations, NEW s \in Sessions, NEW actor \in People,
           Ask(operation, s, actor)
    PROVE  IInv'
<1>1. PICK request : request = [operation |-> operation, session |-> s, actor |-> actor,
                                revision |-> sessions[s].revision]
  OBVIOUS
<1>2. PICK row : row = sessions[s]
  OBVIOUS
<1>3. row \in Session /\ RowSound(row)
  BY <1>2 DEF IInv, TypeOK, RowsSound
<1>4. row.status = Asks[operation] /\ Permitted(row, operation, actor)
  BY <1>2 DEF Ask
<1>5. row.revision \in 1..7
  BY <1>3, <1>4 DEF RowSound, Rank, Asks, Operations
<1>6. request \in Request
  BY <1>1, <1>2, <1>5 DEF Request
<1>7. /\ request.operation = operation /\ request.session = s /\ request.actor = actor
      /\ request.revision = row.revision
  BY <1>1, <1>2
<1>8. RequestSound(request)
  BY <1>2, <1>4, <1>5, <1>7 DEF RequestSound
<1>9. requests' = requests \cup {request} /\ UNCHANGED <<sessions, log, runs, passes, faults>>
  BY <1>1 DEF Ask
<1>10. requests' \subseteq Request /\ \A r \in requests' : RequestSound(r)
  BY <1>6, <1>8, <1>9 DEF IInv, TypeOK, RequestsSound
<1> QED BY <1>9, <1>10, RequestsOnly

LEMMA RefuseInv == ASSUME IInv, NEW request \in requests, Refuse(request) PROVE IInv'
<1>1. requests' \subseteq requests /\ UNCHANGED <<sessions, log, runs, passes, faults>>
  BY DEF Refuse
<1>2. requests' \subseteq Request /\ \A r \in requests' : RequestSound(r)
  BY <1>1 DEF IInv, TypeOK, RequestsSound
<1> QED BY <1>1, <1>2, RequestsOnly

-----------------------------------------------------------------------------
(* Steps that write a row.                                                 *)

\* A row was written, with its event.
Logged ==
    \E s \in Sessions : \E new, type, actor :
        RowStep(sessions[s], new, type, actor) /\ Write(s, new, type, actor)

\* What is left to show of a write: the runs, the passes, and what the row that was
\* written says of its runs.
LEMMA Written ==
    ASSUME IInv, NEW s \in Sessions, NEW new, NEW type, NEW actor,
           RowStep(sessions[s], new, type, actor), Write(s, new, type, actor),
           RunsStep, requests' \subseteq requests, faults' \in 0..MaxFaults,
           passes' \in [Servers -> Pass], PassesSound',
           \A k \in Kinds : EvidenceSound(s, k)',
           \A i \in Ids : RunShape(runs'[i]) /\ (runs[i].kind = None => Named(i)')
    PROVE  IInv' /\ Logged
<1>1. /\ TableStep /\ RowsSound' /\ LogTells'
      /\ \A x \in Sessions : log'[x] \in Seq(Event)
      /\ sessions' = [sessions EXCEPT ![s] = Bumped(new)]
  BY WriteStep
<1>2. TypeOK'
  BY <1>1 DEF IInv, TypeOK, TableStep, RunsStep
<1>3. EvidencesSound'
  <2> SUFFICES ASSUME NEW x \in Sessions, NEW k \in Kinds PROVE EvidenceSound(x, k)'
    BY DEF EvidencesSound
  <2>1. CASE x = s
    BY <2>1
  <2>2. CASE x # s
    <3>1. sessions'[x] = sessions[x]
      BY <1>1, <2>2 DEF IInv, TypeOK
    <3> QED BY <3>1, EvidenceKept
  <2> QED BY <2>1, <2>2
<1>4. RequestsSound'
  <2> SUFFICES ASSUME NEW request \in requests PROVE RequestSound(request)'
    BY DEF RequestsSound
  <2> QED BY <1>1, RequestKept
<1>5. RunsSound'
  <2> SUFFICES ASSUME NEW i \in Ids, runs[i].kind # None PROVE Named(i)'
    BY DEF RunsSound
  <2> QED BY <1>1, NamedKept
<1>6. Logged
  BY DEF Logged
<1> QED BY <1>1, <1>2, <1>3, <1>4, <1>5, <1>6 DEF IInv

\* A write that no run takes part in.
LEMMA WrittenAlone ==
    ASSUME IInv, NEW s \in Sessions, NEW new, NEW type, NEW actor,
           RowStep(sessions[s], new, type, actor), Write(s, new, type, actor),
           requests' \subseteq requests, UNCHANGED <<runs, passes, faults>>,
           \A k \in Kinds : sessions'[s].evidence[k] = sessions[s].evidence[k]
    PROVE  IInv' /\ Logged
<1>1. TableStep
  BY WriteStep
<1>2. RunsStep
  BY RunsSame
<1>3. passes' \in [Servers -> Pass] /\ PassesSound' /\ faults' \in 0..MaxFaults
  BY <1>1, <1>2, PassesKept DEF IInv, TypeOK
<1>4. \A k \in Kinds : EvidenceSound(s, k)'
  BY <1>2, EvidenceKept
<1>5. \A i \in Ids : RunShape(runs'[i]) /\ (runs[i].kind = None => Named(i)')
  BY DEF IInv, RunsSound, Named
<1> QED BY <1>2, <1>3, <1>4, <1>5, Written

\* The row after a write, column by column.
LEMMA WrittenRow ==
    ASSUME IInv, NEW s \in Sessions, NEW new, NEW type, NEW actor,
           RowStep(sessions[s], new, type, actor), Write(s, new, type, actor)
    PROVE  sessions'[s] = Bumped(new) /\ sessions'[s] \in Session /\ RowSound(sessions'[s])
<1>1. RowsSound' /\ TableStep /\ sessions' = [sessions EXCEPT ![s] = Bumped(new)]
  BY WriteStep
<1>2. sessions'[s] = Bumped(new)
  BY <1>1 DEF IInv, TypeOK
<1>3. sessions'[s] \in Session /\ RowSound(sessions'[s])
  BY <1>1 DEF TableStep, RowsSound
<1> QED BY <1>2, <1>3

LEMMA CreateInv ==
    ASSUME IInv, NEW s \in Sessions, NEW actor \in People, Create(s, actor)
    PROVE  IInv' /\ Logged
<1>1. PICK new : new = [NoSession EXCEPT !.status = "draft", !.createdBy = actor]
  OBVIOUS
<1>2. /\ Write(s, new, "created", actor) /\ sessions[s].status = "absent"
      /\ UNCHANGED <<requests, runs, passes, faults>>
  BY <1>1 DEF Create
<1>3. RowStep(sessions[s], new, "created", actor)
  BY <1>1, <1>2 DEF RowStep, Opened
<1>4. PICK next : next = sessions'[s]
  OBVIOUS
<1>5. next \in Session /\ RowSound(next) /\ next = Bumped(new)
  BY <1>2, <1>3, <1>4, WrittenRow
<1>6. \A k \in Kinds : next.evidence[k] = NoEvidence
  <2>1. PICK none : none = [k \in Kinds |-> NoEvidence]
    OBVIOUS
  <2>2. NoSession = [status |-> "absent", revision |-> 0, createdBy |-> None,
                     reviewedBy |-> None, evidence |-> none]
    BY <2>1 DEF NoSession
  <2>3. new = [status |-> "draft", revision |-> 0, createdBy |-> actor,
               reviewedBy |-> None, evidence |-> none]
    BY <1>1, <2>2
  <2>4. next.evidence = none
    BY <1>5, <2>3 DEF Bumped
  <2> QED BY <2>1, <2>4
<1>7. \A k \in Kinds : sessions[s].evidence[k] = NoEvidence
  <2>1. sessions[s] \in Session /\ RowSound(sessions[s])
    BY DEF IInv, TypeOK, RowsSound
  <2> QED BY <1>2, <2>1, EarlyRow DEF Unexecuted, Unreviewed, Kinds
<1> QED BY <1>2, <1>3, <1>4, <1>6, <1>7, WrittenAlone

\* What the taker of a request knows.
LEMMA RequestRow ==
    ASSUME IInv, NEW request \in requests,
           Unchanged(request.session, request.revision)
    PROVE  /\ request.session \in Sessions /\ request.actor \in People
           /\ sessions[request.session] \in Session /\ RowSound(sessions[request.session])
           /\ sessions[request.session].status = Asks[request.operation]
           /\ Permitted(sessions[request.session], request.operation, request.actor)
<1>1. request \in Request /\ RequestSound(request)
  BY DEF IInv, TypeOK, RequestsSound
<1>2. request.session \in Sessions /\ request.actor \in People
  BY <1>1 DEF Request
<1> QED BY <1>1, <1>2 DEF RequestSound, IInv, TypeOK, RowsSound

LEMMA SubmitInv ==
    ASSUME IInv, NEW request \in requests, Submit(request)
    PROVE  IInv' /\ Logged
<1>1. PICK s, row, actor, new : /\ s = request.session /\ row = sessions[s]
                                /\ actor = request.actor
                                /\ new = [row EXCEPT !.status = "awaiting_approval"]
  OBVIOUS
<1>2. /\ Write(s, new, "proposal_submitted", actor) /\ requests' \subseteq requests
      /\ UNCHANGED <<runs, passes, faults>> /\ request.operation = "submit"
      /\ Unchanged(request.session, request.revision)
  BY <1>1 DEF Submit, Taken
<1>3. /\ s \in Sessions /\ actor \in People /\ row \in Session /\ row.status = "draft"
      /\ actor = row.createdBy
  BY <1>1, <1>2, RequestRow DEF Asks, Permitted
<1>4. RowStep(row, new, "proposal_submitted", actor)
  BY <1>1, <1>3 DEF RowStep, Proposed
<1>5. sessions'[s] = Bumped(new)
  BY <1>1, <1>2, <1>3, <1>4, WrittenRow
<1>6. Bumped(new).evidence = row.evidence
  BY <1>1, <1>3 DEF Bumped, Session
<1> QED BY <1>1, <1>2, <1>3, <1>4, <1>5, <1>6, WrittenAlone

LEMMA DecideInv ==
    ASSUME IInv, NEW request \in requests, Decide(request)
    PROVE  IInv' /\ Logged
<1>1. PICK decision \in {"approved", "rejected"} :
         Write(request.session,
               [sessions[request.session] EXCEPT !.status = decision,
                                                 !.reviewedBy = request.actor],
               decision, request.actor)
  BY DEF Decide
<1>2. PICK s, row, actor, new :
         /\ s = request.session /\ row = sessions[s] /\ actor = request.actor
         /\ new = [row EXCEPT !.status = decision, !.reviewedBy = actor]
  OBVIOUS
<1>3. /\ Write(s, new, decision, actor) /\ requests' \subseteq requests
      /\ UNCHANGED <<runs, passes, faults>> /\ request.operation = "decide"
      /\ Unchanged(request.session, request.revision)
  BY <1>1, <1>2 DEF Decide, Taken
<1>4. /\ s \in Sessions /\ actor \in People /\ row \in Session
      /\ row.status = "awaiting_approval" /\ actor # row.createdBy
  BY <1>2, <1>3, RequestRow DEF Asks, Permitted
<1>5. RowStep(row, new, decision, actor)
  BY <1>2, <1>4 DEF RowStep, Decided
<1>6. sessions'[s] = Bumped(new)
  BY <1>2, <1>3, <1>4, <1>5, WrittenRow
<1>7. Bumped(new).evidence = row.evidence
  BY <1>2, <1>4 DEF Bumped, Session
<1> QED BY <1>2, <1>3, <1>4, <1>5, <1>6, <1>7, WrittenAlone

LEMMA BeginInv ==
    ASSUME IInv, NEW k \in Kinds, NEW request \in requests, NEW w \in Servers,
           request.operation = IF k = "execution" THEN "execute" ELSE "deliver",
           Begin(k, request, w)
    PROVE  IInv' /\ Logged
<1>1. PICK s, row, actor, i : /\ s = request.session /\ row = sessions[s]
                              /\ actor = request.actor /\ i = NextId
  OBVIOUS
<1>2. i \in Ids /\ runs[i].stage = "unused"
  BY <1>1 DEF Begin, NextId
<1>3. PICK began, new, run :
         /\ began = [id |-> i, by |-> actor, result |-> "running", remote |-> "nothing"]
         /\ new = With(row, k, InFlight[k], began)
         /\ run = [NoRun EXCEPT !.kind = k, !.session = s, !.server = w,
                                !.revision = row.revision + 1, !.stage = "started"]
  OBVIOUS
<1>4. /\ Write(s, new, Began[k], actor) /\ requests' \subseteq requests
      /\ runs' = [runs EXCEPT ![i] = run] /\ UNCHANGED <<passes, faults>>
      /\ Unchanged(request.session, request.revision)
  BY <1>1, <1>3 DEF Begin, Taken, With
<1>5. /\ s \in Sessions /\ actor \in People /\ row \in Session /\ RowSound(row)
      /\ row.status = Before[k] /\ (k = "execution" <=> actor = row.createdBy)
  BY <1>1, <1>4, RequestRow DEF Asks, Permitted, Before, Kinds
<1>6. RowStep(row, new, Began[k], actor)
  BY <1>2, <1>3, <1>5 DEF RowStep, Begun
<1>7. began \in Evidence /\ began.id = i /\ began.result = "running" /\ began.remote = "nothing"
  BY <1>2, <1>3, <1>5 DEF Evidence, Results, Remote
<1>8. row.revision < 7 /\ row.revision + 1 = Rank[InFlight[k]] /\ InFlight[k] \in Status
  BY <1>5 DEF RowSound, Rank, Before, InFlight, Kinds, Status
<1>9. PICK next : next = sessions'[s]
  OBVIOUS
<1>10. next.evidence[k] = began /\ \A j \in Kinds : j # k => next.evidence[j] = row.evidence[j]
  <2>1. next = Bumped(new)
    BY <1>1, <1>4, <1>5, <1>6, <1>9, WrittenRow
  <2> QED BY <1>3, <1>5, <1>7, <1>8, <2>1, BumpedWith
<1>11. /\ run \in Run /\ run.kind = k /\ run.session = s /\ run.revision = Rank[InFlight[k]]
       /\ run.stage = "started" /\ run.remote = "nothing" /\ run.told = "nothing"
       /\ run.late = FALSE /\ run.passed = FALSE /\ run.directory = FALSE
  <2>1. row.revision + 1 \in 0..7
    BY <1>5, <1>8 DEF Session
  <2> QED BY <1>3, <1>5, <1>8, <2>1 DEF Run, NoRun, Remote
<1>12. RunShape(run)
  BY <1>5, <1>11 DEF RunShape, Reaches, Kinds
<1>13. Onward(runs[i], run)
  <2>1. PICK old : old = runs[i]
    OBVIOUS
  <2>2. old \in Run /\ RunShape(old) /\ old.kind = None /\ old.stage = "unused"
    BY <1>2, <2>1, RunTyped DEF RunShape
  <2>3. old.remote = "nothing" /\ ~old.late
    BY <2>2 DEF RunShape
  <2>4. Onward(old, run)
    BY <1>11, <2>2, <2>3 DEF Onward
  <2> QED BY <2>1, <2>4
<1>14. RunsStep /\ runs'[i] = run /\ \A j \in Ids : j # i => runs'[j] = runs[j]
  BY <1>2, <1>4, <1>11, <1>13, RunUpdated
<1>15. passes' \in [Servers -> Pass] /\ PassesSound' /\ faults' \in 0..MaxFaults
  <2>1. TableStep
    BY <1>1, <1>4, <1>5, <1>6, WriteStep
  <2> QED BY <1>4, <1>14, <2>1, PassesKept DEF IInv, TypeOK
<1>16. \A j \in Kinds : EvidenceSound(s, j)'
  <2> SUFFICES ASSUME NEW j \in Kinds PROVE EvidenceSound(s, j)'
    OBVIOUS
  <2>1. CASE j = k
    <3>1. Tells(began, k, s, run)
      BY <1>7, <1>11 DEF Tells, Reaches
    <3>2. sessions'[s].evidence[k] = began /\ runs'[began.id] = run
      BY <1>7, <1>9, <1>10, <1>14
    <3> QED BY <2>1, <3>1, <3>2 DEF EvidenceSound
  <2>2. CASE j # k
    BY <1>1, <1>5, <1>9, <1>10, <1>14, <2>2, EvidenceKept
  <2> QED BY <2>1, <2>2
<1>17. \A j \in Ids : RunShape(runs'[j]) /\ (runs[j].kind = None => Named(j)')
  <2> SUFFICES ASSUME NEW j \in Ids
               PROVE RunShape(runs'[j]) /\ (runs[j].kind = None => Named(j)')
    OBVIOUS
  <2>1. CASE j = i
    <3>1. sessions'[s].evidence[k].id = i
      BY <1>7, <1>9, <1>10
    <3> QED BY <1>11, <1>12, <1>14, <2>1, <3>1 DEF Named
  <2>2. CASE j # i
    BY <1>14, <2>2 DEF IInv, RunsSound, Named
  <2> QED BY <2>1, <2>2
<1> QED BY <1>1, <1>4, <1>5, <1>6, <1>14, <1>15, <1>16, <1>17, Written

LEMMA RecordInv == ASSUME IInv, NEW i \in Ids, Record(i) PROVE IInv' /\ Logged
<1>1. PICK run, s, k : run = runs[i] /\ s = run.session /\ k = run.kind
  OBVIOUS
<1>2. run \in Run /\ RunShape(run) /\ run.kind # None /\ run.stage = "returned" /\ Named(i)
  BY <1>1, RunTyped DEF Record, IInv, RunsSound
<1>3. k \in Kinds /\ s \in Sessions /\ run.revision = Rank[InFlight[k]]
  BY <1>1, <1>2 DEF RunShape
<1>4. PICK row : row = sessions[s]
  OBVIOUS
<1>5. row \in Session /\ RowSound(row) /\ row.revision = run.revision
  BY <1>1, <1>3, <1>4 DEF Record, Unchanged, IInv, TypeOK, RowsSound
<1>6. row.status = InFlight[k]
  BY <1>3, <1>5 DEF RowSound, Rank, InFlight, Kinds, Session, Status
<1>7. row.evidence[k].id = i
  BY <1>1, <1>2, <1>4 DEF Named
<1>8. PICK result, actor, ended, new :
         /\ result = IF run.passed THEN "passed" ELSE "failed"
         /\ actor = row.evidence[k].by
         /\ ended = [id |-> row.evidence[k].id, by |-> actor, result |-> result,
                     remote |-> run.told]
         /\ new = With(row, k, IF result = "passed" THEN Passed[k] ELSE Failed[k], ended)
  OBVIOUS
<1>9. result \in {"passed", "failed"} /\ (result = "passed" <=> run.passed)
  BY <1>8
<1>10. Outcome(i) = new
  <2>1. (IF result = "passed" THEN Passed[k] ELSE Failed[k])
           = IF run.passed THEN Passed[k] ELSE Failed[k]
    BY <1>9
  <2> QED BY <1>1, <1>4, <1>7, <1>8, <2>1 DEF Outcome, With
<1>11. /\ Write(s, new, Ended[k][result], actor) /\ requests' = requests
       /\ runs' = [runs EXCEPT ![i] = [run EXCEPT !.stage = "over"]]
       /\ UNCHANGED <<passes, faults>>
  BY <1>1, <1>4, <1>8, <1>10 DEF Record
<1>12. RowStep(row, new, Ended[k][result], actor)
  <2>1. run.told \in Remote
    BY <1>2 DEF Run
  <2>2. Recorded(row, new, Ended[k][result], actor, k, result, run.told)
    BY <1>6, <1>8 DEF Recorded
  <2> QED BY <1>3, <1>9, <2>1, <2>2 DEF RowStep
<1>13. /\ ended \in Evidence /\ ended.id = i /\ ended.result = result /\ ended.remote = run.told
  <2>1. row.evidence[k] \in Evidence /\ run.told \in Remote
    BY <1>2, <1>3, <1>5 DEF Session, Run
  <2> QED BY <1>7, <1>8, <1>9, <2>1 DEF Evidence, Results
<1>14. PICK over : over = [run EXCEPT !.stage = "over"]
  OBVIOUS
<1>15. /\ over \in Run /\ RunShape(over) /\ Onward(run, over)
       /\ over.stage = "over" /\ over.passed = run.passed /\ over.kind = k
       /\ over.session = s /\ over.directory = run.directory /\ over.remote = run.remote
  BY <1>1, <1>2, <1>14, RunOver
<1>16. RunsStep /\ runs'[i] = over /\ \A j \in Ids : j # i => runs'[j] = runs[j]
  BY <1>1, <1>11, <1>14, <1>15, RunUpdated
<1>17. TableStep
  BY <1>3, <1>4, <1>11, <1>12, WriteStep
<1>18. PICK next : next = sessions'[s]
  OBVIOUS
<1>19. next.evidence[k] = ended /\ \A j \in Kinds : j # k => next.evidence[j] = row.evidence[j]
  <2>1. next = Bumped(new)
    BY <1>3, <1>4, <1>11, <1>12, <1>18, WrittenRow
  <2>2. row.revision < 7
    BY <1>3, <1>5 DEF Rank, InFlight, Kinds
  <2>3. PICK status : status = IF result = "passed" THEN Passed[k] ELSE Failed[k]
    OBVIOUS
  <2>4. status \in Status
    BY <1>3, <2>3 DEF Passed, Failed, Kinds, Status
  <2>5. next = Bumped(With(row, k, status, ended))
    BY <1>8, <2>1, <2>3
  <2> QED BY <1>3, <1>5, <1>13, <2>2, <2>4, <2>5, BumpedWith
<1>20. passes' \in [Servers -> Pass] /\ PassesSound' /\ faults' \in 0..MaxFaults
  BY <1>11, <1>16, <1>17, PassesKept DEF IInv, TypeOK
<1>21. \A j \in Kinds : EvidenceSound(s, j)'
  <2> SUFFICES ASSUME NEW j \in Kinds PROVE EvidenceSound(s, j)'
    OBVIOUS
  <2>1. CASE j = k
    <3>1. run.passed => ~run.directory /\ (k = "delivery" => run.told = "pull_request")
      BY <1>1, <1>2 DEF RunShape
    <3>2. Reaches(run.told, run.remote)
      BY <1>2 DEF RunShape
    <3>3. ended.result = "passed" => /\ over.passed /\ over.stage = "over" /\ ~over.directory
                                     /\ k = "delivery" => ended.remote = "pull_request"
      BY <1>9, <1>13, <1>15, <3>1
    <3>4. ended.result = "failed" => ~over.passed /\ over.stage = "over"
      BY <1>9, <1>13, <1>15
    <3>5. ended.result # "interrupted" /\ Reaches(ended.remote, over.remote)
      BY <1>9, <1>13, <1>15, <3>2
    <3>6. Tells(ended, k, s, over)
      BY <1>15, <3>3, <3>4, <3>5 DEF Tells
    <3>7. sessions'[s].evidence[k] = ended /\ runs'[ended.id] = over
      BY <1>13, <1>16, <1>18, <1>19
    <3> QED BY <2>1, <3>6, <3>7 DEF EvidenceSound
  <2>2. CASE j # k
    BY <1>3, <1>4, <1>16, <1>18, <1>19, <2>2, EvidenceKept
  <2> QED BY <2>1, <2>2
<1>22. \A j \in Ids : RunShape(runs'[j]) /\ (runs[j].kind = None => Named(j)')
  <2> SUFFICES ASSUME NEW j \in Ids
               PROVE RunShape(runs'[j]) /\ (runs[j].kind = None => Named(j)')
    OBVIOUS
  <2>1. CASE j = i
    BY <1>1, <1>2, <1>15, <1>16, <2>1
  <2>2. CASE j # i
    BY <1>16, <2>2 DEF IInv, RunsSound, Named
  <2> QED BY <2>1, <2>2
<1> QED BY <1>3, <1>4, <1>11, <1>12, <1>16, <1>20, <1>21, <1>22, Written

\* Half of Mark: the row is marked.
LEMMA MarkRowInv ==
    ASSUME IInv, NEW w \in Servers, NEW entry \in passes[w].todo,
           passes[w].stage \in Kinds, Unchanged(entry.session, entry.revision),
           Write(entry.session, Interrupted(sessions[entry.session], passes[w].stage),
                 Ended[passes[w].stage].interrupted, "system"),
           passes' = [passes EXCEPT ![w] =
                        [stage |-> passes[w].stage, todo |-> passes[w].todo \ {entry},
                         marked |-> passes[w].marked
                           \cup {sessions[entry.session].evidence[passes[w].stage].id}]],
           UNCHANGED <<requests, runs, faults>>
    PROVE  IInv' /\ Logged
<1>1. PICK s, pass, k, row : /\ s = entry.session /\ pass = passes[w] /\ k = pass.stage
                             /\ row = sessions[s]
  OBVIOUS
<1>2. pass \in Pass /\ PassSound(pass) /\ k \in Kinds /\ entry \in pass.todo
  BY <1>1, PassTyped
<1>3. entry \in [session: Sessions, revision: 1..7] /\ EntrySound(entry, k)
  BY <1>1, <1>2 DEF Pass, PassSound
<1>4. s \in Sessions /\ row \in Session /\ RowSound(row)
  BY <1>1, <1>3 DEF IInv, TypeOK, RowsSound
<1>5. row.status = InFlight[k] /\ runs[row.evidence[k].id].late
  BY <1>1, <1>3 DEF EntrySound
<1>6. PICK i, old, run : i = row.evidence[k].id /\ old = row.evidence[k] /\ run = runs[i]
  OBVIOUS
<1>7. old \in Evidence /\ old.result = "running" /\ old.remote = "nothing" /\ i \in Ids
  <2>1. old \in Evidence
    BY <1>2, <1>4, <1>6 DEF Session
  <2>2. CASE k = "execution"
    BY <1>4, <1>5, <1>6, <2>1, <2>2 DEF RowSound, ExecutionShape, EvidenceShape, InFlight
  <2>3. CASE k = "delivery"
    BY <1>4, <1>5, <1>6, <2>1, <2>3 DEF RowSound, DeliveryShape, EvidenceShape, InFlight
  <2> QED BY <1>2, <2>2, <2>3 DEF Kinds
<1>8. Tells(old, k, s, run) /\ i # None
  <2>1. EvidenceSound(s, k)
    BY <1>2, <1>4 DEF IInv, EvidencesSound
  <2> QED BY <1>1, <1>6, <1>7, <2>1 DEF EvidenceSound
<1>9. PICK new, ended : /\ new = Interrupted(row, k)
                        /\ ended = [old EXCEPT !.result = "interrupted"]
  OBVIOUS
<1>10. /\ Write(s, new, Ended[k].interrupted, "system") /\ requests' = requests
       /\ UNCHANGED <<runs, faults>>
  BY <1>1, <1>9
<1>11. RowStep(row, new, Ended[k].interrupted, "system")
  BY <1>2, <1>5, <1>9 DEF RowStep, Marked
<1>12. ended \in Evidence /\ ended.id = i /\ ended.result = "interrupted" /\ ended.remote = "nothing"
  BY <1>6, <1>7, <1>9 DEF Evidence, Results
<1>13. TableStep /\ RunsStep
  BY <1>1, <1>4, <1>10, <1>11, WriteStep, RunsSame
<1>14. PICK next : next = sessions'[s]
  OBVIOUS
<1>15. next.evidence[k] = ended /\ \A j \in Kinds : j # k => next.evidence[j] = row.evidence[j]
  <2>1. next = Bumped(new)
    BY <1>1, <1>4, <1>10, <1>11, <1>14, WrittenRow
  <2>2. row.revision < 7 /\ Failed[k] \in Status
    BY <1>2, <1>4, <1>5 DEF RowSound, Rank, InFlight, Kinds, Failed, Status
  <2>3. new = With(row, k, Failed[k], ended)
    <3>1. [row.evidence EXCEPT ![k].result = "interrupted"] = [row.evidence EXCEPT ![k] = ended]
      BY <1>6, <1>9
    <3> QED BY <1>9, <3>1 DEF Interrupted, With
  <2> QED BY <1>2, <1>4, <1>12, <2>1, <2>2, <2>3, BumpedWith
<1>16. run.kind = k /\ run.session = s /\ run.late
  BY <1>5, <1>6, <1>8 DEF Tells
<1>17. \A j \in Kinds : EvidenceSound(s, j)'
  <2> SUFFICES ASSUME NEW j \in Kinds PROVE EvidenceSound(s, j)'
    OBVIOUS
  <2>1. CASE j = k
    <3>1. Tells(ended, k, s, run)
      BY <1>12, <1>16 DEF Tells, Reaches
    <3>2. sessions'[s].evidence[k] = ended /\ runs'[ended.id] = run
      BY <1>6, <1>10, <1>12, <1>14, <1>15
    <3> QED BY <2>1, <3>1, <3>2 DEF EvidenceSound
  <2>2. CASE j # k
    BY <1>1, <1>4, <1>13, <1>14, <1>15, <2>2, EvidenceKept
  <2> QED BY <2>1, <2>2
<1>18. PICK rest, ids, going : /\ rest = pass.todo \ {entry} /\ ids = pass.marked \cup {i}
                               /\ going = [stage |-> k, todo |-> rest, marked |-> ids]
  OBVIOUS
<1>19. /\ passes' = [passes EXCEPT ![w] = going] /\ going \in Pass
       /\ going.stage = k /\ going.todo = rest /\ going.marked = ids
  BY <1>1, <1>2, <1>6, <1>7, <1>18 DEF Pass
<1>20. PassSound(going)'
  <2>1. PassSound(pass)'
    BY <1>2, <1>13, PassKept
  <2>2. \A e \in rest : EntrySound(e, k)'
    BY <1>1, <1>18, <2>1 DEF PassSound
  <2>3. GivenUp(i)'
    <3>1. runs'[i] = run /\ sessions'[s] = next
      BY <1>6, <1>10, <1>14
    <3>2. k # None
      BY <1>2 DEF Kinds
    <3> QED BY <1>12, <1>15, <1>16, <3>1, <3>2 DEF GivenUp
  <2>4. \A j \in ids : GivenUp(j)'
    BY <1>18, <2>1, <2>3 DEF PassSound
  <2> QED BY <1>2, <1>19, <2>2, <2>4 DEF PassSound
<1>21. passes' \in [Servers -> Pass] /\ PassesSound' /\ faults' \in 0..MaxFaults
  BY <1>13, <1>19, <1>20, PassesMove DEF IInv, TypeOK
<1>22. \A j \in Ids : RunShape(runs'[j]) /\ (runs[j].kind = None => Named(j)')
  BY <1>10 DEF IInv, RunsSound, Named
<1> QED BY <1>1, <1>4, <1>10, <1>11, <1>13, <1>17, <1>21, <1>22, Written

LEMMA MarkInv ==
    ASSUME IInv, NEW w \in Servers, NEW entry \in passes[w].todo, Mark(w, entry)
    PROVE  IInv' /\ (Logged \/ UNCHANGED <<sessions, log>>)
<1>1. CASE Unchanged(entry.session, entry.revision)
  BY <1>1, MarkRowInv DEF Mark
<1>2. CASE ~Unchanged(entry.session, entry.revision)
  <2>1. PICK pass, rest, going :
           /\ pass = passes[w] /\ rest = pass.todo \ {entry}
           /\ going = [stage |-> pass.stage, todo |-> rest, marked |-> pass.marked]
    OBVIOUS
  <2>2. /\ UNCHANGED <<sessions, log, requests, runs, faults>>
        /\ passes' = [passes EXCEPT ![w] = going] /\ pass.stage \in Kinds
    BY <1>2, <2>1 DEF Mark
  <2>3. pass \in Pass /\ PassSound(pass)
    BY <2>1, PassTyped
  <2>4. going \in Pass /\ going.stage = pass.stage /\ going.todo = rest
        /\ going.marked = pass.marked
    BY <2>1, <2>3 DEF Pass
  <2>5. RunsStep /\ TableStep
    BY <2>2, RunsSame, TableSame
  <2>6. PassSound(going)'
    <3>1. PassSound(pass)'
      BY <2>3, <2>5, PassKept
    <3> QED BY <2>1, <2>2, <2>4, <3>1 DEF PassSound
  <2>7. passes' \in [Servers -> Pass] /\ PassesSound'
    BY <2>2, <2>4, <2>5, <2>6, PassesMove
  <2>8. \A i \in Ids : /\ RunShape(runs'[i]) /\ (runs[i].kind = None => runs'[i].kind = None)
    BY <2>2 DEF IInv, RunsSound
  <2>9. faults' \in 0..MaxFaults
    BY <2>2 DEF IInv, TypeOK
  <2> QED BY <2>2, <2>5, <2>7, <2>8, <2>9, RunsOnly
<1> QED BY <1>1, <1>2

-----------------------------------------------------------------------------
(* The invariant.                                                          *)

LEMMA InitInv == ASSUME Init PROVE IInv
<1>1. NoSession \in Session /\ RowSound(NoSession)
  BY DEF NoSession, NoEvidence, Session, Evidence, Results, Remote, Status, RowSound, Rank,
         Unreviewed, Unexecuted, Verified, HandedOver, ExecutionShape, DeliveryShape,
         EvidenceShape, Kinds
<1>2. NoRun \in Run /\ RunShape(NoRun) /\ NoRun.kind = None
  BY DEF NoRun, Run, RunShape, Remote, Reaches, Kinds
<1>3. TypeOK
  <2>1. sessions \in [Sessions -> Session] /\ runs \in [Ids -> Run]
    BY <1>1, <1>2 DEF Init
  <2>2. passes \in [Servers -> Pass]
    BY NoPassSound DEF Init
  <2>3. \A s \in Sessions : log[s] \in Seq(Event)
    BY EmptySeq DEF Init
  <2> QED BY <2>1, <2>2, <2>3 DEF Init, TypeOK
<1>4. RowsSound
  BY <1>1 DEF Init, RowsSound
<1>5. LogTells
  <2>1. \A s \in Sessions : log[s] = Story(sessions[s])
    <3>1. Story(NoSession) = Preface(NoSession) /\ Preface(NoSession) = <<>>
      <4>1. NoSession.status = "absent"
        BY DEF NoSession
      <4> QED BY <1>1, <4>1, EarlyRow, Prefaces DEF Unexecuted, Unreviewed
    <3> QED BY <3>1 DEF Init
  <2>2. log \in [Sessions -> Seq(Event)]
    BY EmptySeq DEF Init
  <2> QED BY <2>1, <2>2 DEF LogTells
<1>6. EvidencesSound
  BY DEF Init, EvidencesSound, EvidenceSound, NoSession, NoEvidence
<1>7. RequestsSound /\ RunsSound
  BY <1>2 DEF Init, RequestsSound, RunsSound, Named
<1>8. PassesSound
  BY NoPassSound DEF Init, PassesSound
<1> QED BY <1>3, <1>4, <1>5, <1>6, <1>7, <1>8 DEF IInv

\* A step keeps the invariant, and writes one row or none.
Goes == IInv' /\ (Logged \/ UNCHANGED <<sessions, log>>)

LEMMA StepInv == ASSUME IInv, [Next]_vars PROVE Goes
<1>1. ASSUME NEW s \in Sessions, NEW actor \in People, Create(s, actor) PROVE Goes
  BY <1>1, CreateInv DEF Goes
<1>2. ASSUME NEW operation \in Operations, NEW s \in Sessions, NEW actor \in People,
             Ask(operation, s, actor)
      PROVE  Goes
  BY <1>2, AskInv DEF Goes, Ask
<1>3. ASSUME NEW request \in requests, Refuse(request) \/ Submit(request) \/ Decide(request)
      PROVE  Goes
  BY <1>3, RefuseInv, SubmitInv, DecideInv DEF Goes, Refuse
<1>4. ASSUME NEW request \in requests, NEW w \in Servers,
             Execute(request, w) \/ Deliver(request, w)
      PROVE  Goes
  <2>1. CASE Execute(request, w)
    BY <2>1, BeginInv DEF Goes, Execute, Kinds
  <2>2. CASE Deliver(request, w)
    BY <2>2, BeginInv DEF Goes, Deliver, Kinds
  <2> QED BY <1>4, <2>1, <2>2
<1>5. ASSUME NEW i \in Ids, \/ Isolate(i) \/ Publish(i) \/ Return(i)
                            \/ Record(i) \/ Lose(i) \/ Expire(i)
      PROVE  Goes
  BY <1>5, IsolateInv, PublishInv, ReturnInv, RecordInv, LoseInv, ExpireInv
     DEF Goes, Isolate, Publish, Return, Lose, Expire
<1>6. ASSUME NEW w \in Servers, Look(w) \/ Clean(w) \/ Abort(w) \/ Crash(w)
      PROVE  Goes
  BY <1>6, LookInv, CleanInv, AbortInv, CrashInv DEF Goes, Look, Clean, Abort, Crash
<1>7. ASSUME NEW w \in Servers, NEW entry \in passes[w].todo, Mark(w, entry)
      PROVE  Goes
  BY <1>7, MarkInv DEF Goes
<1>8. CASE UNCHANGED vars
  BY <1>8, RequestsOnly DEF Goes, vars, IInv, TypeOK, RequestsSound
<1> QED BY <1>1, <1>2, <1>3, <1>4, <1>5, <1>6, <1>7, <1>8 DEF Next

LEMMA Invariant == Spec => []IInv
<1>1. IInv /\ [Next]_vars => IInv'
  BY StepInv DEF Goes
<1> QED BY InitInv, <1>1, PTL DEF Spec

\* Every part of the state is of its kind, and no session is written more than seven
\* times (Store.Update), for any number of sessions, people, servers and runs.
THEOREM TypeCorrect == Spec => []TypeOK
<1>1. IInv => TypeOK
  BY DEF IInv
<1> QED BY <1>1, Invariant, PTL

\* The log of every session is the story of its row, one event for each revision
\* (Store.Update), whatever requests, late outcomes and recovery passes race.
THEOREM LogFaithfulCorrect == Spec => []LogFaithful
<1>1. ASSUME NEW row \in Session, RowSound(row) PROVE Len(Story(row)) = row.revision
  <2>1. PICK p, x, d : /\ p = Preface(row)
                       /\ x = Chapter("execution", row.evidence["execution"])
                       /\ d = Chapter("delivery", row.evidence["delivery"])
    OBVIOUS
  <2>2. Story(row) = (p \o x) \o d
    BY <2>1, StoryParts
  <2>3. /\ row.evidence["execution"] \in Evidence /\ row.evidence["delivery"] \in Evidence
        /\ EvidenceShape(row.evidence["execution"]) /\ EvidenceShape(row.evidence["delivery"])
    BY <1>1 DEF Session, Kinds, RowSound, ExecutionShape, DeliveryShape
  <2>4. p \in Seq(Event) /\ x \in Seq(Event) /\ d \in Seq(Event)
    BY <1>1, <2>1, <2>3, Prefaces, Chapters DEF Kinds
  <2>5. Len(Story(row)) = Len(p) + Len(x) + Len(d)
    <3>1. p \o x \in Seq(Event) /\ Len(p \o x) = Len(p) + Len(x)
      BY <2>4, ConcatProperties
    <3>2. Len((p \o x) \o d) = Len(p \o x) + Len(d)
      BY <2>4, <3>1, ConcatProperties
    <3> QED BY <2>2, <3>1, <3>2
  <2>6. ASSUME NEW k \in Kinds, NEW evidence \in Evidence, EvidenceShape(evidence)
        PROVE  Len(Chapter(k, evidence)) =
                 IF evidence.result = "none" THEN 0
                 ELSE IF evidence.result = "running" THEN 1 ELSE 2
    BY <2>6, Chapters DEF Evidence, Results
  <2>7. Len(p) = IF row.status = "absent" THEN 0
                 ELSE IF row.status = "draft" THEN 1
                 ELSE IF row.status = "awaiting_approval" THEN 2 ELSE 3
    <3>1. PICK c, q, a : /\ c = [type |-> "created", actor |-> row.createdBy]
                         /\ q = [type |-> "proposal_submitted", actor |-> row.createdBy]
                         /\ a = [type |-> IF row.status = "rejected" THEN "rejected"
                                                                    ELSE "approved",
                                 actor |-> row.reviewedBy]
      OBVIOUS
    <3>2. /\ row.status = "absent" => p = <<>>
          /\ row.status = "draft" => p = <<c>>
          /\ row.status = "awaiting_approval" => p = Append(<<c>>, q)
          /\ row.status \notin Unreviewed => p = Append(Append(<<c>>, q), a)
      BY <1>1, <2>1, <3>1, Prefaces
    <3>3. Len(<<>>) = 0 /\ Len(<<c>>) = 1 /\ Len(Append(<<c>>, q)) = 2
          /\ Len(Append(Append(<<c>>, q), a)) = 3
      <4> DEFINE E == {c, q, a}
      <4>1. <<c>> \in Seq(E) /\ Len(<<c>>) = 1 /\ c \in E /\ q \in E /\ a \in E
        OBVIOUS
      <4> HIDE DEF E
      <4>2. Append(<<c>>, q) \in Seq(E) /\ Len(Append(<<c>>, q)) = 2
        BY <4>1, AppendProperties
      <4>3. Len(Append(Append(<<c>>, q), a)) = 3
        BY <4>1, <4>2, AppendProperties
      <4> QED BY <4>1, <4>2, <4>3
    <3> QED BY <3>2, <3>3 DEF Unreviewed
  <2>8. Len(x) = IF row.status \in Unexecuted THEN 0
                 ELSE IF row.status = "executing" THEN 1 ELSE 2
    BY <1>1, <2>1, <2>3, <2>6 DEF Kinds, RowSound, ExecutionShape
  <2>9. Len(d) = IF row.status \notin HandedOver THEN 0
                 ELSE IF row.status = "delivering" THEN 1 ELSE 2
    BY <1>1, <2>1, <2>3, <2>6 DEF Kinds, RowSound, DeliveryShape
  <2>10. row.revision = Rank[row.status] /\ row.status \in Status
    BY <1>1 DEF RowSound, Session
  <2> QED BY <2>5, <2>7, <2>8, <2>9, <2>10
          DEF Rank, Status, Unexecuted, Unreviewed, HandedOver
<1>2. IInv => LogFaithful
  BY <1>1 DEF IInv, TypeOK, RowsSound, LogTells, LogFaithful
<1> QED BY <1>2, Invariant, PTL

-----------------------------------------------------------------------------
(* The log as a revision log.                                              *)

\* Read to its end, a log leads to the row as it is.
Led ==
    \A s \in Sessions :
        /\ Len(log[s]) = sessions[s].revision
        /\ sessions[s].status = IF Len(log[s]) = 0 THEN "absent"
                                ELSE Brings[log[s][Len(log[s])].type]

\* Every write goes one way of the workflow, and its event says which.
LEMMA RowStepMoves ==
    ASSUME NEW row \in Session, NEW new, NEW type, NEW actor, RowStep(row, new, type, actor)
    PROVE  /\ Bumped(new).status = Brings[type]
           /\ <<row.status, Brings[type]>> \in Workflow
<1> DEFINE Goal == /\ Bumped(new).status = Brings[type]
                   /\ <<row.status, Brings[type]>> \in Workflow
<1>1. CASE Opened(row, new, type, actor)
  <2>1. Bumped(new).status = "draft"
    BY <1>1 DEF Opened, Bumped, NoSession
  <2> QED BY <1>1, <2>1 DEF Opened, Brings, Workflow
<1>2. CASE Proposed(row, new, type, actor)
  <2>1. Bumped(new).status = "awaiting_approval"
    BY <1>2 DEF Proposed, Bumped, Session
  <2> QED BY <1>2, <2>1 DEF Proposed, Brings, Workflow
<1>3. CASE Decided(row, new, type, actor)
  <2>1. Bumped(new).status = type
    BY <1>3 DEF Decided, Bumped, Session
  <2> QED BY <1>3, <2>1 DEF Decided, Brings, Workflow
<1>4. ASSUME NEW k \in Kinds, NEW status, NEW evidence, new = With(row, k, status, evidence)
      PROVE  Bumped(new).status = status
  BY <1>4 DEF With, Bumped, Session
<1>5. ASSUME NEW k \in Kinds, NEW i \in Ids, Begun(row, new, type, actor, k, i)
      PROVE  Goal
  <2>1. Bumped(new).status = InFlight[k]
    BY <1>4, <1>5 DEF Begun
  <2>2. row.status = Before[k] /\ type = Began[k]
    BY <1>5 DEF Begun
  <2> QED BY <2>1, <2>2 DEF Kinds, InFlight, Before, Began, Brings, Workflow
<1>6. ASSUME NEW k \in Kinds, NEW result \in {"passed", "failed"}, NEW remote \in Remote,
             Recorded(row, new, type, actor, k, result, remote)
      PROVE  Goal
  <2>1. Bumped(new).status = IF result = "passed" THEN Passed[k] ELSE Failed[k]
    BY <1>4, <1>6 DEF Recorded
  <2>2. row.status = InFlight[k] /\ type = Ended[k][result]
    BY <1>6 DEF Recorded
  <2> QED BY <2>1, <2>2 DEF Kinds, InFlight, Passed, Failed, Ended, Brings, Workflow
<1>7. ASSUME NEW k \in Kinds, Marked(row, new, type, actor, k) PROVE Goal
  <2>1. Bumped(new).status = Failed[k]
    BY <1>7 DEF Marked, Interrupted, Bumped, Session
  <2>2. row.status = InFlight[k] /\ type = Ended[k].interrupted
    BY <1>7 DEF Marked
  <2> QED BY <2>1, <2>2 DEF Kinds, InFlight, Failed, Ended, Brings, Workflow
<1> QED BY <1>1, <1>2, <1>3, <1>5, <1>6, <1>7 DEF RowStep

\* A sequence that is written as a function, with one element more.
LEMMA AppendFunction ==
    ASSUME NEW n \in Nat, NEW f, f = [i \in 1..n |-> f[i]], NEW x
    PROVE  /\ Len(f) = n
           /\ Append(f, x) = [i \in 1..(n + 1) |-> IF i = n + 1 THEN x ELSE f[i]]
<1>1. PICK T : T = {f[i] : i \in 1..n} \cup {x}
  OBVIOUS
<1>2. f \in [1..n -> T] /\ x \in T
  BY <1>1
<1>3. f \in Seq(T)
  BY <1>2
<1>4. Len(f) = n
  BY <1>2, <1>3
<1>5. /\ Append(f, x) \in Seq(T) /\ Len(Append(f, x)) = n + 1
      /\ \A i \in 1..n : Append(f, x)[i] = f[i]
      /\ Append(f, x)[n + 1] = x
  BY <1>2, <1>3, <1>4, AppendProperties
<1>6. Append(f, x) = [i \in 1..(n + 1) |-> Append(f, x)[i]]
  BY <1>5
<1>7. \A i \in 1..(n + 1) : Append(f, x)[i] = IF i = n + 1 THEN x ELSE f[i]
  BY <1>5
<1> QED BY <1>4, <1>6, <1>7

\* A write is one step of the revision log.
LEMMA LogGrows ==
    ASSUME IInv, Led, Logged
    PROVE  Led' /\ Audit!Next
<1>1. PICK s \in Sessions : \E new, type, actor :
         RowStep(sessions[s], new, type, actor) /\ Write(s, new, type, actor)
  BY DEF Logged
<1>2. PICK new, type, actor :
         RowStep(sessions[s], new, type, actor) /\ Write(s, new, type, actor)
  BY <1>1
<1>3. PICK row, next, n, event : /\ row = sessions[s] /\ next = Bumped(new)
                                 /\ n = Len(log[s])
                                 /\ event = [type |-> type, actor |-> actor]
  OBVIOUS
<1>4. /\ sessions \in [Sessions -> Session] /\ log \in [Sessions -> Seq(Event)]
      /\ row \in Session /\ RowSound(row) /\ n \in Nat
  BY <1>3 DEF IInv, TypeOK, RowsSound, LogTells
<1>5. /\ sessions' = [sessions EXCEPT ![s] = next]
      /\ log' = [log EXCEPT ![s] = Append(log[s], event)]
  BY <1>2, <1>3, WriteStep DEF Write
<1>6. event \in Event /\ next.revision = row.revision + 1
  BY <1>2, <1>3, <1>4, RowStepGood DEF GoodStep
<1>7. next.status = Brings[type] /\ <<row.status, next.status>> \in Workflow
  BY <1>2, <1>3, <1>4, RowStepMoves
<1>8. /\ Len(log'[s]) = n + 1 /\ log'[s][n + 1] = event
      /\ \A i \in 1..n : log'[s][i] = log[s][i]
  <2>1. log'[s] = Append(log[s], event) /\ log[s] \in Seq(Event)
    BY <1>4, <1>5
  <2> QED BY <1>3, <1>6, <2>1, AppendProperties
<1>9. \A x \in Sessions : x # s => log'[x] = log[x] /\ sessions'[x] = sessions[x]
  BY <1>4, <1>5
<1>10. /\ n = row.revision
       /\ row.status = IF n = 0 THEN "absent" ELSE Brings[log[s][n].type]
  BY <1>3 DEF Led
<1>11. Brings[log'[s][n + 1].type] = next.status
  BY <1>3, <1>7, <1>8
<1>12. sessions'[s] = next
  BY <1>4, <1>5
<1>13. Led'
  <2> SUFFICES ASSUME NEW x \in Sessions
               PROVE  /\ Len(log'[x]) = sessions'[x].revision
                      /\ sessions'[x].status = IF Len(log'[x]) = 0 THEN "absent"
                                               ELSE Brings[log'[x][Len(log'[x])].type]
    BY DEF Led
  <2>1. CASE x = s
    <3>1. n + 1 # 0
      BY <1>4
    <3> QED BY <1>6, <1>8, <1>10, <1>11, <1>12, <2>1, <3>1
  <2>2. CASE x # s
    BY <1>9, <2>2 DEF Led
  <2> QED BY <2>1, <2>2
<1>14. PICK old, later, entry :
         /\ old = Histories[s] /\ later = Histories'[s]
         /\ entry = [sequence |-> n + 1, from |-> row.status, to |-> next.status,
                     event |-> event]
  OBVIOUS
<1>15. later = Append(old, entry) /\ Len(later) = n + 1 /\ later[n + 1] = entry
  <2>1. old = [i \in 1..n |->
                 [sequence |-> i, event |-> log[s][i], to |-> Brings[log[s][i].type],
                  from |-> IF i = 1 THEN "absent" ELSE Brings[log[s][i - 1].type]]]
    BY <1>3, <1>14 DEF Histories
  <2>2. later = [i \in 1..(n + 1) |->
                   [sequence |-> i, event |-> log'[s][i], to |-> Brings[log'[s][i].type],
                    from |-> IF i = 1 THEN "absent" ELSE Brings[log'[s][i - 1].type]]]
    BY <1>8, <1>14 DEF Histories
  <2>3. ASSUME NEW i \in 1..n PROVE later[i] = old[i]
    <3>1. i \in 1..(n + 1) /\ (i # 1 => i - 1 \in 1..n)
      BY <1>4
    <3>2. log'[s][i] = log[s][i] /\ (i # 1 => log'[s][i - 1] = log[s][i - 1])
      BY <1>8, <3>1
    <3> QED BY <2>1, <2>2, <3>1, <3>2
  <2>4. later[n + 1] = entry
    <3>1. n + 1 \in 1..(n + 1) /\ (n + 1) - 1 = n /\ (n + 1 = 1 <=> n = 0)
      BY <1>4
    <3>2. row.status = IF n = 0 THEN "absent" ELSE Brings[log'[s][n].type]
      <4>1. n = 0 \/ n \in 1..n
        BY <1>4
      <4> QED BY <1>8, <1>10, <4>1
    <3>3. later[n + 1] =
            [sequence |-> n + 1, event |-> log'[s][n + 1], to |-> Brings[log'[s][n + 1].type],
             from |-> IF n + 1 = 1 THEN "absent" ELSE Brings[log'[s][(n + 1) - 1].type]]
      BY <2>2, <3>1
    <3> QED BY <1>8, <1>11, <1>14, <3>1, <3>2, <3>3
  <2>5. later = [i \in 1..(n + 1) |-> IF i = n + 1 THEN entry ELSE old[i]]
    <3>1. ASSUME NEW i \in 1..(n + 1) PROVE later[i] = IF i = n + 1 THEN entry ELSE old[i]
      BY <1>4, <2>3, <2>4
    <3> QED BY <2>2, <3>1
  <2>6. old = [i \in 1..n |-> old[i]]
    BY <2>1
  <2>7. Append(old, entry) = [i \in 1..(n + 1) |-> IF i = n + 1 THEN entry ELSE old[i]]
    BY <1>4, <2>6, AppendFunction
  <2>8. Len(later) = n + 1
    BY <1>4, <2>5
  <2> QED BY <2>4, <2>5, <2>7, <2>8
<1>16. Audit!Record(s, entry)
  <2>1. /\ entry.from = Statuses[s] /\ entry.sequence = Revisions[s] + 1
        /\ <<entry.from, entry.to>> \in Workflow
    BY <1>3, <1>7, <1>10, <1>14 DEF Statuses, Revisions
  <2>2. Statuses' = [Statuses EXCEPT ![s] = entry.to]
    BY <1>4, <1>5, <1>14 DEF Statuses
  <2>3. Revisions' = [Revisions EXCEPT ![s] = entry.sequence]
    BY <1>4, <1>5, <1>6, <1>10, <1>14 DEF Revisions
  <2>4. Histories' = [Histories EXCEPT ![s] = Append(old, entry)]
    <3>1. \A x \in Sessions : x # s => Histories'[x] = Histories[x]
      BY <1>9 DEF Histories
    <3>2. Histories'[s] = Append(old, entry)
      BY <1>14, <1>15
    <3>3. /\ Histories' = [x \in Sessions |-> Histories'[x]]
          /\ Histories = [x \in Sessions |-> Histories[x]]
      BY DEF Histories
    <3> QED BY <3>1, <3>2, <3>3
  <2> QED BY <1>14, <2>1, <2>2, <2>3, <2>4 DEF Audit!Record
<1>17. Audit!Next
  <2>1. Histories'[s] = later /\ Len(later) > 0 /\ later[Len(later)] = entry
    BY <1>4, <1>14, <1>15
  <2>2. Audit!Record(s, Histories'[s][Len(Histories'[s])])
    BY <1>16, <2>1 DEF Audit!Record
  <2> QED BY <2>1, <2>2 DEF Audit!Next
<1> QED BY <1>13, <1>17

\* Sessions and their events are a revision log: no event is changed or dropped, and
\* the log leads through the workflow to the row (Store.Update).
THEOREM RevisionLogImplemented == Spec => ImplementsRevisionLog
<1>1. Init => Led /\ Audit!Init
  BY DEF Init, Led, NoSession, Audit!Init, Statuses, Revisions, Histories
<1>2. IInv /\ Led /\ [Next]_vars => Led' /\ [Audit!Next]_<<Statuses, Revisions, Histories>>
  <2> SUFFICES ASSUME IInv, Led, [Next]_vars
               PROVE  Led' /\ [Audit!Next]_<<Statuses, Revisions, Histories>>
    OBVIOUS
  <2>1. CASE Logged
    BY <2>1, LogGrows
  <2>2. CASE UNCHANGED <<sessions, log>>
    BY <2>2 DEF Led, Statuses, Revisions, Histories
  <2> QED BY <2>1, <2>2, StepInv DEF Goes
<1> QED BY <1>1, <1>2, Invariant, PTL DEF Spec, ImplementsRevisionLog, Audit!Spec

\* Every run that began anywhere is the one its session names: no change is executed
\* or delivered twice (Execute and Deliver, which write before they act).
THEOREM OneRunEachCorrect == Spec => []OneRunEach
<1>1. IInv => OneRunEach
  BY DEF IInv, RunsSound, Named, OneRunEach
<1> QED BY <1>1, Invariant, PTL

\* Nothing runs that a second person did not approve, and nothing reaches the remote
\* that did not pass its execution or that its author handed over.
THEOREM SecondHandCorrect == Spec => []SecondHand
<1>1. ASSUME IInv PROVE SecondHand
  <2> SUFFICES ASSUME NEW i \in Ids, runs[i].kind # None
               PROVE  LET row == sessions[runs[i].session]
                      IN  /\ row.reviewedBy \notin {None, row.createdBy}
                          /\ row.status # "rejected"
                          /\ row.evidence["execution"].by = row.createdBy
                          /\ runs[i].kind = "delivery" =>
                               /\ row.evidence["execution"].result = "passed"
                               /\ row.evidence["delivery"].by \notin {None, row.createdBy}
    BY <1>1 DEF IInv, RunsSound, RunShape, SecondHand
  <2>1. PICK k, row : k = runs[i].kind /\ row = sessions[runs[i].session]
    OBVIOUS
  <2>2. k \in Kinds /\ row \in Session /\ RowSound(row) /\ row.evidence[k].id = i
    BY <1>1, <2>1 DEF IInv, TypeOK, RowsSound, RunsSound, RunShape, Named
  <2>3. row.evidence[k].result # "none"
    BY <2>2 DEF RowSound, ExecutionShape, DeliveryShape, EvidenceShape, NoEvidence, Kinds
  <2>4. row.status \notin Unexecuted
    <3>1. CASE k = "execution"
      BY <2>2, <2>3, <3>1 DEF RowSound, ExecutionShape
    <3>2. CASE k = "delivery"
      BY <2>2, <2>3, <3>2 DEF RowSound, DeliveryShape, HandedOver, Unexecuted, Unreviewed
    <3> QED BY <2>2, <3>1, <3>2 DEF Kinds
  <2>5. row.reviewedBy \notin {None, row.createdBy} /\ row.status # "rejected"
    BY <2>2, <2>4 DEF RowSound, Unexecuted
  <2>6. row.evidence["execution"].by = row.createdBy
    BY <2>2, <2>4 DEF RowSound, ExecutionShape
  <2>7. CASE k = "delivery"
    <3>1. row.status \in HandedOver
      BY <2>2, <2>3, <2>7 DEF RowSound, DeliveryShape
    <3>2. row.evidence["execution"].result = "passed"
      BY <2>2, <3>1 DEF RowSound, ExecutionShape, HandedOver, Verified
    <3>3. row.evidence["delivery"].by \in People /\ row.evidence["delivery"].by # row.createdBy
      BY <2>2, <2>3, <2>7 DEF RowSound, DeliveryShape, EvidenceShape
    <3> QED BY <2>1, <2>5, <2>6, <3>2, <3>3
  <2> QED BY <2>1, <2>5, <2>6, <2>7
<1> QED BY <1>1, Invariant, PTL

\* What the evidence of a session says of its runs is what happened: no outcome is
\* claimed that was not returned, and no more of the remote than there is.
THEOREM TruthfulCorrect == Spec => []Truthful
<1>1. ASSUME IInv PROVE Truthful
  <2> SUFFICES ASSUME NEW s \in Sessions, NEW k \in Kinds,
                      sessions[s].evidence[k].id # None
               PROVE  LET evidence == sessions[s].evidence[k]
                          run == runs[evidence.id]
                      IN  /\ evidence.result = "running" <=> sessions[s].status = InFlight[k]
                          /\ evidence.result = "passed" =>
                               /\ run.passed /\ run.stage = "over" /\ ~run.directory
                               /\ k = "delivery" => evidence.remote = "pull_request"
                          /\ evidence.result = "failed" => ~run.passed /\ run.stage = "over"
                          /\ evidence.result = "interrupted" => run.late
                          /\ Reaches(evidence.remote, run.remote)
    BY DEF Truthful
  <2>1. RowSound(sessions[s]) /\ EvidenceSound(s, k)
    BY <1>1 DEF IInv, RowsSound, EvidencesSound
  <2>2. sessions[s].evidence[k].result = "running" <=> sessions[s].status = InFlight[k]
    BY <2>1 DEF RowSound, ExecutionShape, DeliveryShape, InFlight, Kinds
  <2>3. Tells(sessions[s].evidence[k], k, s, runs[sessions[s].evidence[k].id])
    BY <2>1 DEF EvidenceSound
  <2> QED BY <2>2, <2>3, Zenon DEF Tells
<1> QED BY <1>1, Invariant, PTL

-----------------------------------------------------------------------------
(* Directories.                                                            *)

Cleaned(i) ==
    runs[i].directory /\ ~runs'[i].directory =>
        \/ runs'[i].stage = "returned" /\ runs[i].stage # "returned"
        \/ /\ runs[i].late
           /\ sessions[runs[i].session].status # InFlight[runs[i].kind]

\* What CleanupStale removes belongs to runs that were given up.
LEMMA GivenUpCleaned ==
    ASSUME IInv, NEW i \in Ids, GivenUp(i)
    PROVE  runs[i].late /\ sessions[runs[i].session].status # InFlight[runs[i].kind]
<1>1. PICK k, row : k = runs[i].kind /\ row = sessions[runs[i].session]
  OBVIOUS
<1>2. k \in Kinds /\ RowSound(row) /\ row.evidence[k].result # "running"
  BY <1>1 DEF IInv, RowsSound, RunsSound, RunShape, GivenUp
<1>3. row.status # InFlight[k]
  BY <1>2 DEF RowSound, ExecutionShape, DeliveryShape, InFlight, Kinds
<1> QED BY <1>1, <1>3 DEF GivenUp

LEMMA WithoutCleaned ==
    ASSUME IInv, NEW ids \in SUBSET Ids, \A i \in ids : GivenUp(i), runs' = Without(ids),
           NEW i \in Ids
    PROVE  Cleaned(i)
<1>1. CASE i \in ids
  BY <1>1, GivenUpCleaned DEF Cleaned
<1>2. CASE i \notin ids
  BY <1>2 DEF Without, Cleaned
<1> QED BY <1>1, <1>2

\* A step of one run that leaves its directory alone, or returns.
LEMMA RunCleaned ==
    ASSUME IInv, NEW i \in Ids, NEW new, runs' = [runs EXCEPT ![i] = new],
           \/ ~runs[i].directory
           \/ new.directory = runs[i].directory
           \/ new.stage = "returned" /\ runs[i].stage # "returned",
           NEW j \in Ids
    PROVE  Cleaned(j)
<1>1. runs'[i] = new /\ \A x \in Ids : x # i => runs'[x] = runs[x]
  BY DEF IInv, TypeOK
<1>2. CASE j = i
  BY <1>1, <1>2 DEF Cleaned
<1>3. CASE j # i
  BY <1>1, <1>3 DEF Cleaned
<1> QED BY <1>2, <1>3

LEMMA StepCleaned == ASSUME IInv, [Next]_vars, NEW j \in Ids PROVE Cleaned(j)
<1>1. CASE UNCHANGED runs
  BY <1>1 DEF Cleaned
<1>2. ASSUME NEW request \in requests, NEW w \in Servers,
             Execute(request, w) \/ Deliver(request, w)
      PROVE  Cleaned(j)
  <2>1. PICK k : Begin(k, request, w)
    BY <1>2 DEF Execute, Deliver
  <2>2. PICK i, run : /\ i = NextId /\ runs' = [runs EXCEPT ![i] = run]
    BY <2>1 DEF Begin
  <2>3. i \in Ids /\ runs[i].stage = "unused"
    BY <2>1, <2>2 DEF Begin, NextId
  <2>4. ~runs[i].directory
    BY <2>3, RunTyped DEF RunShape
  <2> QED BY <2>2, <2>3, <2>4, RunCleaned
<1>3. ASSUME NEW i \in Ids, Isolate(i) PROVE Cleaned(j)
  <2>1. PICK run, new : /\ run = runs[i] /\ new = [run EXCEPT !.stage = "working", !.directory = TRUE]
    OBVIOUS
  <2>2. run \in Run /\ runs' = [runs EXCEPT ![i] = new]
    BY <1>3, <2>1, RunTyped DEF Isolate
  <2>3. new.directory = TRUE
    BY <2>1, <2>2 DEF Run
  <2>4. CASE run.directory
    BY <2>1, <2>2, <2>3, <2>4, RunCleaned DEF Run
  <2>5. CASE ~run.directory
    BY <2>1, <2>2, <2>5, RunCleaned
  <2> QED BY <2>4, <2>5
<1>4. ASSUME NEW i \in Ids, Publish(i) PROVE Cleaned(j)
  <2>1. PICK next, known : runs' = [runs EXCEPT ![i] = [runs[i] EXCEPT !.remote = next,
                                                                      !.told = known]]
    BY <1>4 DEF Publish
  <2>2. PICK run, new : run = runs[i] /\ new = [run EXCEPT !.remote = next, !.told = known]
    OBVIOUS
  <2>3. run \in Run /\ runs' = [runs EXCEPT ![i] = new]
    BY <2>1, <2>2, RunTyped
  <2>4. new.directory = run.directory
    BY <2>2, <2>3 DEF Run
  <2> QED BY <2>2, <2>3, <2>4, RunCleaned
<1>5. ASSUME NEW i \in Ids, Return(i) PROVE Cleaned(j)
  <2>1. PICK passed, left : runs' = [runs EXCEPT ![i] = [runs[i] EXCEPT !.stage = "returned",
                                                !.passed = passed, !.directory = left]]
    BY <1>5 DEF Return
  <2>2. PICK run, new : run = runs[i] /\ new = [run EXCEPT !.stage = "returned",
                                                  !.passed = passed, !.directory = left]
    OBVIOUS
  <2>3. run \in Run /\ runs' = [runs EXCEPT ![i] = new] /\ run.stage # "returned"
    BY <1>5, <2>1, <2>2, RunTyped DEF Return
  <2>4. new.stage = "returned"
    BY <2>2, <2>3 DEF Run
  <2> QED BY <2>2, <2>3, <2>4, RunCleaned
<1>6. ASSUME NEW i \in Ids, Record(i) \/ Lose(i) \/ Expire(i) PROVE Cleaned(j)
  <2>1. PICK run, new : /\ run = runs[i] /\ runs' = [runs EXCEPT ![i] = new]
                        /\ \/ new = [run EXCEPT !.stage = "over"]
                           \/ new = [run EXCEPT !.late = TRUE]
    BY <1>6 DEF Record, Lose, Expire
  <2>2. run \in Run
    BY <2>1, RunTyped
  <2>3. new.directory = run.directory
    BY <2>1, <2>2 DEF Run
  <2> QED BY <2>1, <2>3, RunCleaned
<1>7. ASSUME NEW w \in Servers, Clean(w) PROVE Cleaned(j)
  BY <1>7, PassTyped, WithoutCleaned DEF Clean
<1>8. ASSUME NEW w \in Servers, Abort(w) PROVE Cleaned(j)
  <2>1. PICK removed \in SUBSET passes[w].marked : runs' = Without(removed)
    BY <1>8 DEF Abort
  <2> QED BY <2>1, PassTyped, WithoutCleaned
<1>9. ASSUME NEW w \in Servers, Crash(w) PROVE Cleaned(j)
  <2>1. PICK run, new : run = runs[j] /\ new = runs'[j]
    OBVIOUS
  <2>2. run \in Run /\ (new = run \/ new = [run EXCEPT !.stage = "over"])
    BY <1>9, <2>1, RunTyped DEF Crash
  <2>3. new.directory = run.directory
    BY <2>2 DEF Run
  <2> QED BY <2>1, <2>3 DEF Cleaned
<1>10. ASSUME NEW s \in Sessions, NEW actor \in People, Create(s, actor)
       PROVE  UNCHANGED runs
  BY <1>10 DEF Create
<1>11. ASSUME NEW operation \in Operations, NEW s \in Sessions, NEW actor \in People,
              Ask(operation, s, actor)
       PROVE  UNCHANGED runs
  BY <1>11 DEF Ask
<1>12. ASSUME NEW request \in requests, Refuse(request) \/ Submit(request) \/ Decide(request)
       PROVE  UNCHANGED runs
  BY <1>12 DEF Refuse, Submit, Decide
<1>13. ASSUME NEW w \in Servers, Look(w) PROVE UNCHANGED runs
  BY <1>13 DEF Look
<1>14. ASSUME NEW w \in Servers, NEW entry \in passes[w].todo, Mark(w, entry)
       PROVE  UNCHANGED runs
  BY <1>14 DEF Mark
<1>15. CASE UNCHANGED vars
  BY <1>1, <1>15 DEF vars
<1> QED BY <1>1, <1>2, <1>3, <1>4, <1>5, <1>6, <1>7, <1>8, <1>9, <1>10, <1>11, <1>12,
           <1>13, <1>14, <1>15 DEF Next

\* No step takes the directory of a run that may still be recorded (Recover and
\* CleanupStale): only its own return does, or the recovery of a run that is late
\* and that its session has given up.
THEOREM OnlyAbandonedCleanedCorrect == Spec => OnlyAbandonedCleaned
<1> DEFINE Body == \A i \in Ids : Cleaned(i)
<1>1. IInv /\ [Next]_vars => [Body]_vars
  BY StepCleaned
<1>2. [][Body]_vars => OnlyAbandonedCleaned
  <2>1. [Body]_vars => [\A i \in Ids :
          runs[i].directory /\ ~runs'[i].directory =>
              \/ runs'[i].stage = "returned" /\ runs[i].stage # "returned"
              \/ /\ runs[i].late
                 /\ sessions[runs[i].session].status # InFlight[runs[i].kind]]_vars
    BY DEF Cleaned
  <2> QED BY <2>1, PTL DEF OnlyAbandonedCleaned
<1> HIDE DEF Body
<1>3. Spec => [][Body]_vars
  BY <1>1, Invariant, PTL DEF Spec
<1> QED BY <1>2, <1>3, PTL

====
