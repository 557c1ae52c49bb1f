------------------------------ MODULE ImportProofs ------------------------------
(*************************************************************************)
(* Proofs about what imports documents: imports of a directory, and      *)
(* synchronisations of a repository, for any number of callers, files,   *)
(* documents and commits.                                                *)
(*                                                                       *)
(* What holds of the documents by the version key is KInv, of            *)
(* KnowledgeProofs, and is common to both.                               *)
(*                                                                       *)
(* Imports of a directory run side by side.  JobOK adds what a job knows *)
(* while it goes along: the files it has come to (Walked), and, as long  *)
(* as nobody else writes, what has become of those it saw (Stored) and   *)
(* which documents it has yet to mark (Marked).                          *)
(*                                                                       *)
(* Synchronisations exclude each other (AtMostOne), so whatever is true  *)
(* of the documents for the busy one stays true until it writes itself.  *)
(* From ReadsOne, what is read is one commit, follows Committed; from    *)
(* Imports and OneEach, a source has one document, follows that the      *)
(* documents are that commit when the report is stored (LastDescribed).  *)
(* StartsFrom ties the start of a difference to the reports, while the   *)
(* busy synchronisation holds it and once it is stored.                  *)
(*************************************************************************)
EXTENDS DirectoryImport, RepositorySync, KnowledgeProofs

Faithful(call) == \A s \in Sources \ call.todo : s \in call.seen <=> disk[s] # None

\* What a call that is under way or over knows, whatever its job.
Claims(call, quiet) ==
    /\ UnderWay(call) => Walked(call)
    /\ UnderWay(call) /\ ~call.errors =>
          /\ quiet => Faithful(call)
          /\ call.alone => Stored(call) /\ (call.step = "mark" => Marked(call))

\* The same of a job with this call and this status, since whose start no file has
\* changed (quiet).
JobSays(call, job, quiet) ==
    /\ Claims(call, quiet)
    /\ job = "completed" =>
          /\ call.step = "ended"
          /\ call.alone =>
                /\ Done(call)
                /\ quiet => \A s \in Sources : s \in call.seen <=> disk[s] # None

JobOK(j) == JobSays(calls[j], jobs[j], j \in still)

IInv == TypeOK /\ KInv /\ \A j \in Jobs : JobOK(j)

\* A step that keeps the invariant and is one of the log of versions or none.
Good == IInv' /\ LogStep

-----------------------------------------------------------------------------
(* Imports of a directory: frames.                                       *)

LEMMA OverSays == \A job, quiet : JobSays(Over, job, quiet)
  BY NoCallType DEF JobSays, Claims, UnderWay

\* What a job says needs less when files have changed.
LEMMA LessQuiet ==
    ASSUME NEW call, NEW job, NEW quiet, NEW less, JobSays(call, job, quiet), less => quiet
    PROVE  JobSays(call, job, less)
  BY DEF JobSays, Claims

LEMMA StillSays ==
    ASSUME NEW call, NEW job, NEW quiet, JobSays(call, job, quiet),
           UNCHANGED rows, quiet => UNCHANGED disk
    PROVE  JobSays(call, job, quiet)'
  BY DEF JobSays, Claims, UnderWay, Walked, Faithful, Stored, Marked, Done, Saved,
         Unseen, Active, Existing

\* A job whose call, status and files are left alone, while no document is written.
LEMMA Untouched ==
    ASSUME NEW j \in Jobs, JobOK(j), UNCHANGED rows, calls'[j] = calls[j], jobs'[j] = jobs[j],
           j \in still' => j \in still /\ UNCHANGED disk
    PROVE  JobOK(j)'
  <1>1. PICK call, job, less : call = calls[j] /\ job = jobs[j] /\ less = (j \in still')
    OBVIOUS
  <1>2. JobSays(call, job, less)
    BY <1>1, LessQuiet DEF JobOK
  <1>3. JobSays(call, job, less)'
    BY <1>1, <1>2, StillSays
  <1> QED
    BY <1>1, <1>3 DEF JobOK

\* A job whose caller goes on and writes nothing.
LEMMA GoesOn ==
    ASSUME TypeOK, NEW j \in Jobs, NEW call, Become(j, call), UNCHANGED disk,
           JobSays(call, jobs'[j], j \in still')
    PROVE  JobOK(j)'
  <1>1. calls'[j] = call /\ UNCHANGED rows
    BY ImportConstants DEF TypeOK, KnowledgeTypeOK, Become
  <1>2. PICK job, quiet : job = jobs'[j] /\ quiet = (j \in still')
    OBVIOUS
  <1>3. JobSays(call, job, quiet)'
    BY <1>1, <1>2, StillSays
  <1> QED
    BY <1>1, <1>2, <1>3 DEF JobOK

\* A job that learns that somebody else has written.
LEMMA JoinedSays ==
    ASSUME TypeOK, NEW j \in Jobs, JobOK(j), calls'[j] = Joined(calls[j]),
           UNCHANGED <<disk, jobs, still>>
    PROVE  JobOK(j)'
  <1> DEFINE call == calls[j]
  <1>1. call \in Call
    BY ImportConstants DEF TypeOK, KnowledgeTypeOK
  <1>2. CASE call.step = "idle"
    <2>1. calls'[j] = call /\ jobs[j] # "completed"
      BY <1>2 DEF Joined, JobOK, JobSays
    <2> QED
      BY <1>2, <2>1 DEF JobOK, JobSays, Claims, UnderWay
  <1>3. CASE call.step = "ended"
    <2>1. calls'[j] = Over
      BY <1>3 DEF Joined
    <2> QED
      BY <2>1, NoCallType DEF JobOK, JobSays, Claims, UnderWay
  <1>4. CASE call.step \notin {"idle", "ended"}
    <2>1. calls'[j] = [call EXCEPT !.alone = FALSE]
      BY <1>4 DEF Joined
    <2>2. PICK next : next = calls'[j]
      OBVIOUS
    <2>3. /\ next.step = call.step /\ next.seen = call.seen /\ next.todo = call.todo
          /\ next.source = call.source /\ next.errors = call.errors /\ next.alone = FALSE
      BY <1>1, <2>1, <2>2 DEF Call
    <2>4. PICK quiet : quiet = (j \in still)
      OBVIOUS
    <2>5. Claims(next, quiet)'
      BY <2>3, <2>4 DEF JobOK, JobSays, Claims, UnderWay, Walked, Faithful
    <2>6. jobs[j] # "completed"
      BY <1>4 DEF JobOK, JobSays
    <2> QED
      BY <2>2, <2>4, <2>5, <2>6 DEF JobOK, JobSays
  <1> QED
    BY <1>1, <1>2, <1>3, <1>4 DEF Call

\* One job goes on, with its row or without.
LEMMA JobStep ==
    ASSUME IInv, NEW j \in Jobs, NEW call, Become(j, call), KInv', LogStep, UNCHANGED files,
           jobs' \in [Jobs -> JobStatus], \A x \in Jobs : x # j => jobs'[x] = jobs[x],
           still' \subseteq Jobs, still' \subseteq still \cup {j},
           JobSays(call, jobs'[j], j \in still')
    PROVE  Good
  <1>1. TypeOK'
    BY DEF IInv, TypeOK, KInv, files
  <1>2. JobOK(j)'
    BY GoesOn DEF IInv, files
  <1>3. ASSUME NEW x \in Jobs, x # j PROVE JobOK(x)'
    <2>1. calls'[x] = calls[x] /\ UNCHANGED rows
      BY <1>3, ImportConstants DEF IInv, TypeOK, KnowledgeTypeOK, Become
    <2> QED
      BY <1>3, <2>1, Untouched DEF IInv, files
  <1> QED
    BY <1>1, <1>2, <1>3 DEF IInv, Good

\* One caller writes.
LEMMA WriteFrame ==
    ASSUME IInv, NEW c \in Callers, NEW call, KInv', LogStep, UNCHANGED <<files, jobs, still>>,
           calls' = [x \in Callers |-> IF x = c THEN call ELSE Joined(calls[x])],
           c \in Jobs => JobOK(c)'
    PROVE  Good
  <1>1. TypeOK'
    BY DEF IInv, TypeOK, KInv, files
  <1>2. ASSUME NEW x \in Jobs, x # c PROVE JobOK(x)'
    <2>1. calls'[x] = Joined(calls[x])
      BY <1>2, ImportConstants
    <2> QED
      BY <2>1, JoinedSays DEF IInv, files
  <1> QED
    BY <1>1, <1>2 DEF IInv, Good

-----------------------------------------------------------------------------
(* Imports of a directory: writing.                                      *)

LEMMA StoreSays ==
    ASSUME IInv, NEW j \in Jobs, Save(j) \/ Update(j), UNCHANGED <<files, jobs, still>>
    PROVE  JobOK(j)'
  <1>1. PICK old, next, quiet : old = calls[j] /\ next = calls'[j] /\ quiet = (j \in still)
    OBVIOUS
  <1>2. KInv /\ j \in Callers /\ j \notin People
    BY ImportConstants DEF IInv
  <1>3. /\ old.step = "store" /\ next.step = "walk" /\ Keeps(old, next)
        /\ next.errors = old.errors
    BY <1>1, <1>2, StoreEffect
  <1>4. JobSays(old, jobs[j], quiet)
    BY <1>1 DEF IInv, JobOK
  <1>5. Stored(old) => Stored(next)'
    BY <1>1, <1>2, StoreKeeps DEF Stored
  <1>6. Claims(next, quiet)'
    BY <1>3, <1>4, <1>5 DEF JobSays, Claims, UnderWay, Walked, Faithful, Keeps, files
  <1>7. jobs[j] # "completed"
    BY <1>3, <1>4 DEF JobSays
  <1> QED
    BY <1>1, <1>6, <1>7 DEF JobOK, JobSays

LEMMA MarkSays ==
    ASSUME IInv, NEW j \in Jobs, MarkMissing(j), UNCHANGED <<files, jobs, still>>
    PROVE  JobOK(j)'
  <1>1. PICK old, next, quiet : old = calls[j] /\ next = calls'[j] /\ quiet = (j \in still)
    OBVIOUS
  <1>2. KInv /\ j \in Callers
    BY ImportConstants DEF IInv
  <1>3. /\ old.step = "mark" /\ next.step = "mark" /\ Keeps(old, next)
        /\ next.errors = old.errors
    BY <1>1, <1>2, MarkEffect
  <1>4. JobSays(old, jobs[j], quiet)
    BY <1>1 DEF IInv, JobOK
  <1>5. Stored(old) /\ Marked(old) => Stored(next)' /\ Marked(next)'
    BY <1>1, <1>2, MarkKeeps DEF Stored, Marked
  <1>6. Claims(next, quiet)'
    BY <1>3, <1>4, <1>5 DEF JobSays, Claims, UnderWay, Walked, Faithful, Keeps, files
  <1>7. jobs[j] # "completed"
    BY <1>3, <1>4 DEF JobSays
  <1> QED
    BY <1>1, <1>6, <1>7 DEF JobOK, JobSays

LEMMA FailsSays ==
    ASSUME IInv, NEW j \in Jobs, StoreFails(j), UNCHANGED <<files, jobs, still>>
    PROVE  JobOK(j)'
  <1>1. PICK old, quiet : old = calls[j] /\ quiet = (j \in still)
    OBVIOUS
  <1> DEFINE walking == [old EXCEPT !.step = "walk", !.source = None, !.copy = None]
             next == [walking EXCEPT !.errors = TRUE]
  <1>2. old \in Call /\ j \notin People /\ old.step = "store" /\ Become(j, next)
    BY <1>1, ImportConstants DEF IInv, TypeOK, KnowledgeTypeOK, StoreFails, Imported
  <1>3. /\ next.step = "walk" /\ next.seen = old.seen /\ next.todo = old.todo
        /\ next.errors = TRUE
    BY <1>2 DEF Call
  <1>4. JobSays(old, jobs[j], quiet)
    BY <1>1 DEF IInv, JobOK
  <1> HIDE DEF next
  <1>5. Claims(next, quiet) /\ jobs[j] # "completed"
    BY <1>2, <1>3, <1>4 DEF JobSays, Claims, UnderWay, Walked
  <1>6. JobSays(next, jobs'[j], j \in still')
    BY <1>1, <1>5 DEF JobSays
  <1> QED
    BY <1>2, <1>6, GoesOn DEF IInv, files

\* A document is saved or marked, or could not be saved.
LEMMA ChangeGood ==
    ASSUME IInv, NEW c \in Callers, Change(c)
    PROVE  Good
  <1>1. KInv' /\ LogStep /\ UNCHANGED <<files, jobs, still>>
    BY StoringStep, MarkMissingStep DEF IInv, Change
  <1>2. c \in Jobs => JobOK(c)'
    BY <1>1, StoreSays, MarkSays, FailsSays DEF Change, Storing
  <1>3. CASE StoreFails(c)
    <2>1. PICK next : next = calls'[c] /\ Become(c, next)
      BY <1>3 DEF StoreFails, Become, IInv, TypeOK, KnowledgeTypeOK
    <2>2. ASSUME NEW x \in Jobs, x # c PROVE JobOK(x)'
      <3>1. calls'[x] = calls[x] /\ UNCHANGED rows
        BY <2>1, <2>2, ImportConstants DEF IInv, TypeOK, KnowledgeTypeOK, Become
      <3> QED
        BY <1>1, <3>1, Untouched DEF IInv, files
    <2> QED
      BY <1>1, <1>2, <2>2 DEF IInv, Good, TypeOK, KInv, files
  <1>4. ASSUME NEW d, NEW row, NEW call, Write(c, d, row, call) PROVE Good
    BY <1>1, <1>2, <1>4, WriteFrame DEF Write
  <1> QED
    BY <1>3, <1>4 DEF Change, Storing, Save, Update, MarkMissing

-----------------------------------------------------------------------------
(* Imports of a directory: the walk.                                     *)

LEMMA StartGood ==
    ASSUME IInv, NEW j \in Jobs, Start(j)
    PROVE  Good
  <1> DEFINE next == [NoCall EXCEPT !.step = "walk", !.todo = Sources]
  <1>1. /\ next \in Call /\ next.step = "walk" /\ next.todo = Sources /\ next.seen = {}
        /\ next.marks = {} /\ next.copy = None /\ j \in Callers
    BY NoCallType, ImportConstants DEF NoCall, Call
  <1>2. jobs \in [Jobs -> JobStatus] /\ still \subseteq Jobs /\ UNCHANGED files
    BY DEF IInv, TypeOK, Start
  <1> HIDE DEF next
  <1>3. CASE /\ jobs' = [jobs EXCEPT ![j] = "running"] /\ Become(j, next)
             /\ still' = still \cup {j}
    <2>1. KInv' /\ LogStep
      BY <1>1, <1>3, BecomeStep DEF IInv, CallOK
    <2>2. JobSays(next, jobs'[j], j \in still')
      BY <1>1, <1>2, <1>3 DEF JobSays, Claims, UnderWay, Walked, Faithful, Stored
    <2>3. jobs' \in [Jobs -> JobStatus] /\ \A x \in Jobs : x # j => jobs'[x] = jobs[x]
      BY <1>2, <1>3 DEF JobStatus
    <2> QED
      BY <1>2, <1>3, <2>1, <2>2, <2>3, JobStep
  <1>4. CASE /\ jobs' = [jobs EXCEPT ![j] = "pending"] /\ Become(j, Over)
             /\ UNCHANGED still
    <2>1. KInv' /\ LogStep
      BY <1>1, <1>4, NoCallType, NoCallOK, BecomeStep DEF IInv
    <2>2. jobs' \in [Jobs -> JobStatus] /\ \A x \in Jobs : x # j => jobs'[x] = jobs[x]
      BY <1>2, <1>4 DEF JobStatus
    <2> QED
      BY <1>2, <1>4, <2>1, <2>2, OverSays, JobStep
  <1> QED
    BY <1>3, <1>4 DEF Start, next

\* The job goes on within its walk.
LEMMA WalkGood ==
    ASSUME IInv, NEW j \in Jobs, NEW call, Become(j, call), KInv', LogStep,
           UNCHANGED <<files, jobs, still>>,
           Claims(call, j \in still), jobs[j] # "completed"
    PROVE  Good
  <1>1. JobSays(call, jobs'[j], j \in still')
    BY DEF JobSays
  <1>2. jobs' \in [Jobs -> JobStatus] /\ still' \subseteq still /\ still' \subseteq Jobs
    BY DEF IInv, TypeOK
  <1> QED
    BY <1>1, <1>2, JobStep

\* What is known of a call in its walk.
LEMMA Walking ==
    ASSUME IInv, NEW j \in Jobs, calls[j].step = "walk"
    PROVE  /\ calls[j] \in Call /\ j \in Callers /\ j \notin People
           /\ calls[j].marks = {} /\ calls[j].copy = None
           /\ Claims(calls[j], j \in still) /\ jobs[j] # "completed"
  BY ImportConstants DEF IInv, TypeOK, KnowledgeTypeOK, KInv, CallOK, JobOK, JobSays

LEMMA VisitUnlistedGood ==
    ASSUME IInv, NEW j \in Jobs, VisitUnlisted(j)
    PROVE  Good
  <1>1. PICK old, quiet : old = calls[j] /\ quiet = (j \in still)
    OBVIOUS
  <1>2. PICK below \in SUBSET old.todo : Become(j, Unlisted(old, below))
    BY <1>1 DEF VisitUnlisted
  <1> DEFINE next == [old EXCEPT !.todo = old.todo \ below, !.errors = TRUE]
  <1>3. /\ old \in Call /\ j \in Callers /\ old.step = "walk" /\ old.marks = {}
        /\ old.copy = None /\ Claims(old, quiet) /\ jobs[j] # "completed"
    BY <1>1, Walking DEF VisitUnlisted
  <1>4. /\ next \in Call /\ next.step = "walk" /\ next.marks = {} /\ next.copy = None
        /\ next.errors = TRUE /\ next.seen = old.seen /\ next.todo = old.todo \ below
    BY <1>3 DEF Call
  <1>5. Become(j, next)
    BY <1>2 DEF Unlisted
  <1> HIDE DEF next
  <1>6. KInv' /\ LogStep
    BY <1>3, <1>4, <1>5, BecomeStep DEF IInv, CallOK
  <1>7. Claims(next, quiet)
    BY <1>3, <1>4 DEF Claims, UnderWay, Walked
  <1> QED
    BY <1>1, <1>3, <1>5, <1>6, <1>7, WalkGood DEF VisitUnlisted

\* The file is there: seen is the call that has come to it.
LEMMA FindClaims ==
    ASSUME IInv, NEW j \in Jobs, NEW s \in Sources, NEW seen \in Call, NEW quiet,
           j \notin People, Find(j, seen, s), seen.step = "walk", Walked(seen),
           s \in seen.seen,
           ~seen.errors => /\ quiet => Faithful(seen)
                           /\ seen.alone => \A x \in seen.seen : x = s \/ Saved(seen, x)
    PROVE  \E next : Become(j, next) /\ Claims(next, quiet)
  <1> DEFINE storing == [seen EXCEPT !.step = "store", !.source = s]
             new == [storing EXCEPT !.copy = None]
  <1>1. ASSUME NEW copy PROVE Claims([storing EXCEPT !.copy = copy], quiet)
    <2> DEFINE next == [storing EXCEPT !.copy = copy]
    <2>1. /\ next.step = "store" /\ next.source = s /\ next.seen = seen.seen
          /\ next.todo = seen.todo /\ next.errors = seen.errors
          /\ next.alone = seen.alone /\ next.files = seen.files
      BY DEF Call
    <2> HIDE DEF next
    <2>2. Claims(next, quiet)
      BY <2>1 DEF Claims, UnderWay, Walked, Faithful, Stored, Saved
    <2> QED
      BY <2>2 DEF next
  <1>2. CASE FindBySource(s) = {} /\ Become(j, new)
    BY <1>1, <1>2
  <1>3. ASSUME NEW d \in FindBySource(s), Current(rows[d], seen.files[s]),
               Become(j, Imported(j, seen))
        PROVE  \E next : Become(j, next) /\ Claims(next, quiet)
    <2> DEFINE next == [seen EXCEPT !.step = "walk", !.source = None, !.copy = None]
    <2>1. Become(j, next)
      BY <1>3 DEF Imported
    <2>2. /\ next.step = "walk" /\ next.seen = seen.seen
          /\ next.todo = seen.todo /\ next.errors = seen.errors
          /\ next.alone = seen.alone /\ next.files = seen.files
      BY DEF Call
    <2>3. Saved(seen, s)
      <3>1. rows[d] \in Row /\ rows[d].source = s /\ d \in Existing
        BY DEF FindBySource, Existing, IInv, KInv, KnowledgeTypeOK
      <3>2. rows[d].status = "active" /\ rows[d].content = seen.files[s]
        BY <1>3, <3>1 DEF Current, Row
      <3> QED
        BY <3>1, <3>2 DEF Saved, Active
    <2> HIDE DEF next
    <2>4. Claims(next, quiet)
      BY <2>2, <2>3 DEF Claims, UnderWay, Walked, Faithful, Stored, Saved
    <2> QED
      BY <2>1, <2>4
  <1>4. ASSUME NEW d \in FindBySource(s),
               Become(j, [storing EXCEPT !.copy = [document |-> d, row |-> rows[d]]])
        PROVE  \E next : Become(j, next) /\ Claims(next, quiet)
    <2>1. PICK copy : copy = [document |-> d, row |-> rows[d]]
      OBVIOUS
    <2> QED
      BY <1>1, <1>4, <2>1
  <1> QED
    BY <1>2, <1>3, <1>4 DEF Find

LEMMA VisitGood ==
    ASSUME IInv, NEW j \in Jobs, NEW s \in Sources, Visit(j, s)
    PROVE  Good
  <1>1. PICK old, quiet : old = calls[j] /\ quiet = (j \in still)
    OBVIOUS
  <1> DEFINE left == [old EXCEPT !.todo = old.todo \ {s}]
             failed == [Seen(left, s) EXCEPT !.errors = TRUE]
             found == [Seen(left, s) EXCEPT !.files[s] = disk[s]]
  <1>2. /\ old \in Call /\ j \in Callers /\ j \notin People /\ old.step = "walk"
        /\ old.marks = {} /\ old.copy = None /\ Claims(old, quiet)
        /\ jobs[j] # "completed" /\ s \in old.todo
    BY <1>1, Walking DEF Visit
  <1>3. Walked(old) /\ s \notin old.seen
    BY <1>2 DEF Claims, UnderWay, Walked
  <1>4. disk[s] \in Contents \cup {None} /\ UNCHANGED <<files, jobs, still>>
    BY DEF IInv, TypeOK, Visit
  <1>5. /\ left \in Call /\ left.step = "walk" /\ left.seen = old.seen
        /\ left.todo = old.todo \ {s} /\ left.errors = old.errors
        /\ left.alone = old.alone /\ left.files = old.files
        /\ left.marks = {} /\ left.copy = None
    BY <1>2 DEF Call
  <1> HIDE DEF left
  <1>6. CASE disk[s] = None /\ Become(j, left)
    <2>1. KInv' /\ LogStep
      BY <1>2, <1>5, <1>6, BecomeStep DEF IInv, CallOK
    <2>2. Claims(left, quiet)
      BY <1>2, <1>3, <1>5, <1>6 DEF Claims, UnderWay, Walked, Faithful, Stored, Saved
    <2> QED
      BY <1>1, <1>2, <1>4, <1>6, <2>1, <2>2, WalkGood
  <1>7. CASE disk[s] # None /\ Become(j, failed)
    <2>1. /\ failed \in Call /\ failed.step = "walk" /\ failed.seen = old.seen \cup {s}
          /\ failed.todo = old.todo \ {s} /\ failed.errors = TRUE
          /\ failed.marks = {} /\ failed.copy = None
      BY <1>5 DEF Seen, Call
    <2> HIDE DEF failed
    <2>2. KInv' /\ LogStep
      BY <1>2, <1>7, <2>1, BecomeStep DEF IInv, CallOK
    <2>3. Claims(failed, quiet)
      BY <1>3, <2>1 DEF Claims, UnderWay, Walked
    <2> QED
      BY <1>1, <1>2, <1>4, <1>7, <2>2, <2>3, WalkGood
  <1>8. CASE disk[s] # None /\ Find(j, found, s)
    <2>1. PICK content : content = disk[s]
      OBVIOUS
    <2> DEFINE call == [Seen(left, s) EXCEPT !.files[s] = content]
    <2>2. content \in Contents
      BY <1>4, <1>8, <2>1
    <2>3. /\ call \in Call /\ call.step = "walk" /\ call.seen = old.seen \cup {s}
          /\ call.todo = old.todo \ {s} /\ call.errors = old.errors
          /\ call.alone = old.alone /\ call.files = [old.files EXCEPT ![s] = content]
          /\ call.marks = {} /\ call.copy = None
      BY <1>5, <2>2 DEF Seen, Call
    <2>4. Find(j, call, s)
      BY <1>8, <2>1
    <2> HIDE DEF call
    <2>5. call.files[s] = content /\ \A x \in Sources : x # s => call.files[x] = old.files[x]
      BY <1>2, <2>3 DEF Call
    <2>6. KInv' /\ LogStep
      BY <1>2, <2>2, <2>3, <2>4, <2>5, FindStep DEF IInv
    <2>7. Walked(call) /\ s \in call.seen
      BY <1>3, <2>3 DEF Walked
    <2>8. ASSUME ~call.errors
          PROVE  /\ quiet => Faithful(call)
                 /\ call.alone => \A x \in call.seen : x = s \/ Saved(call, x)
      <3>1. quiet => Faithful(old)
        BY <1>2, <2>3, <2>8 DEF Claims, UnderWay
      <3>2. old.alone => Stored(old)
        BY <1>2, <2>3, <2>8 DEF Claims, UnderWay
      <3>3. old.seen \subseteq Sources
        BY <1>2 DEF Call
      <3>4. quiet => Faithful(call)
        BY <1>8, <2>3, <3>1 DEF Faithful
      <3> QED
        BY <1>2, <2>3, <2>5, <3>2, <3>3, <3>4 DEF Stored, Saved
    <2>9. PICK next : Become(j, next) /\ Claims(next, quiet)
      BY <1>2, <2>3, <2>4, <2>7, <2>8, FindClaims
    <2> QED
      BY <1>1, <1>2, <1>4, <2>6, <2>9, WalkGood
  <1> QED
    BY <1>1, <1>6, <1>7, <1>8 DEF Visit, left

\* The walk is over, and the documents to mark are listed.
LEMMA ListGood ==
    ASSUME IInv, NEW j \in Jobs, List(j)
    PROVE  Good
  <1>1. PICK old, quiet : old = calls[j] /\ quiet = (j \in still)
    OBVIOUS
  <1>2. PICK listed : listed = {[document |-> d, row |-> rows[d]] : d \in Unseen(old.seen)}
    OBVIOUS
  <1> DEFINE next == [old EXCEPT !.step = "mark", !.marks = listed]
  <1>3. /\ old \in Call /\ j \in Callers /\ old.step = "walk" /\ old.todo = {}
        /\ Claims(old, quiet) /\ jobs[j] # "completed" /\ Become(j, next)
    BY <1>1, <1>2, Walking DEF List, ListActive
  <1>4. /\ next.step = "mark" /\ next.marks = listed /\ next.seen = old.seen
        /\ next.todo = {} /\ next.errors = old.errors /\ next.alone = old.alone
        /\ next.files = old.files
    BY <1>3 DEF Call
  <1> HIDE DEF next
  <1>5. Marked(next)
    <2>1. ASSUME NEW m \in listed PROVE m.row.source \notin next.seen
      <3>1. PICK d \in Unseen(old.seen) : m = [document |-> d, row |-> rows[d]]
        BY <1>2
      <3> QED
        BY <1>4, <3>1 DEF Unseen
    <2>2. ASSUME NEW d \in Unseen(next.seen) PROVE \E m \in listed : m.document = d
      <3>1. [document |-> d, row |-> rows[d]] \in listed
        BY <1>2, <1>4
      <3> QED
        BY <3>1
    <2> QED
      BY <1>4, <2>1, <2>2 DEF Marked
  <1>6. Claims(next, quiet)
    BY <1>3, <1>4, <1>5 DEF Claims, UnderWay, Walked, Faithful, Stored, Saved
  <1>7. KInv' /\ LogStep
    BY <1>3, ListActiveStep DEF IInv, List
  <1> QED
    BY <1>1, <1>3, <1>6, <1>7, WalkGood DEF List

\* Every way a job may end without a claim.
LEMMA GoesOver ==
    ASSUME IInv, NEW j \in Jobs, Become(j, Over), UNCHANGED files,
           jobs' \in [Jobs -> JobStatus], \A x \in Jobs : x # j => jobs'[x] = jobs[x],
           still' \subseteq still
    PROVE  Good
  <1>1. KInv' /\ LogStep
    BY NoCallType, NoCallOK, BecomeStep, ImportConstants DEF IInv
  <1>2. still' \subseteq Jobs
    BY DEF IInv, TypeOK
  <1> QED
    BY <1>1, <1>2, OverSays, JobStep

LEMMA AbortGood ==
    ASSUME IInv, NEW j \in Jobs, Abort(j)
    PROVE  Good
  <1>1. jobs' \in [Jobs -> JobStatus] /\ \A x \in Jobs : x # j => jobs'[x] = jobs[x]
    BY DEF IInv, TypeOK, Abort, JobStatus
  <1> QED
    BY <1>1, GoesOver DEF Abort

LEMMA FinishGood ==
    ASSUME IInv, NEW j \in Jobs, Finish(j)
    PROVE  Good
  <1>1. PICK old, quiet : old = calls[j] /\ quiet = (j \in still)
    OBVIOUS
  <1>2. /\ old \in Call /\ j \in Callers /\ old.step = "mark" /\ old.marks = {}
        /\ Claims(old, quiet) /\ UNCHANGED <<files, still>>
    BY <1>1, ImportConstants
       DEF Finish, IInv, TypeOK, KnowledgeTypeOK, JobOK, JobSays
  <1>3. CASE UNCHANGED jobs /\ Become(j, Over)
    BY <1>2, <1>3, GoesOver DEF IInv, TypeOK
  <1>4. CASE jobs' = [jobs EXCEPT ![j] = Verdict(old)] /\ Become(j, Ended(old))
    <2>1. /\ jobs' \in [Jobs -> JobStatus] /\ \A x \in Jobs : x # j => jobs'[x] = jobs[x]
          /\ jobs'[j] = Verdict(old)
      BY <1>4 DEF IInv, TypeOK, JobStatus, Verdict
    <2>2. CASE ~old.alone
      BY <1>2, <1>4, <2>1, <2>2, GoesOver DEF Ended
    <2>3. CASE old.alone
      <3> DEFINE next == [Over EXCEPT !.files = old.files, !.seen = old.seen, !.alone = TRUE]
      <3>1. Become(j, next)
        BY <1>4, <2>3 DEF Ended
      <3>2. /\ next \in Call /\ next.step = "ended" /\ next.seen = old.seen
            /\ next.files = old.files /\ next.marks = {} /\ next.copy = None
        BY <1>2, NoCallType DEF Call
      <3> HIDE DEF next
      <3>3. KInv' /\ LogStep
        BY <1>2, <3>1, <3>2, BecomeStep DEF IInv, CallOK
      <3>4. ASSUME ~old.errors
            PROVE  /\ Done(next)
                   /\ quiet => \A s \in Sources : s \in next.seen <=> disk[s] # None
        <4>1. Stored(old) /\ Marked(old) /\ old.todo = {} /\ (quiet => Faithful(old))
          BY <1>2, <2>3, <3>4 DEF Claims, UnderWay, Walked
        <4>2. \A s \in next.seen : Saved(next, s)
          BY <1>2, <3>2, <4>1 DEF Stored, Saved
        <4>3. \A d \in Active : rows[d].source \in next.seen
          BY <1>2, <3>2, <4>1 DEF Marked, Unseen
        <4> QED
          BY <3>2, <4>1, <4>2, <4>3 DEF Done, Faithful
      <3>5. jobs'[j] = "completed" => ~old.errors
        BY <2>1 DEF Verdict
      <3>6. JobSays(next, jobs'[j], j \in still')
        BY <1>1, <1>2, <3>2, <3>4, <3>5 DEF JobSays, Claims, UnderWay
      <3>7. still' \subseteq Jobs
        BY <1>2 DEF IInv, TypeOK
      <3> QED
        BY <1>2, <2>1, <3>1, <3>3, <3>6, <3>7, JobStep
    <2> QED
      BY <2>2, <2>3
  <1> QED
    BY <1>1, <1>3, <1>4 DEF Finish

-----------------------------------------------------------------------------
(* Imports of a directory: everybody else.                               *)

LEMMA CreateGood ==
    ASSUME IInv, NEW p \in People, NEW s \in Sources, NEW content \in Contents,
           Create(p, s, content), UNCHANGED <<files, jobs, still>>
    PROVE  Good
  <1>1. p \in Callers /\ \A x \in Jobs : x # p
    BY KnowledgeConstants, ImportConstants
  <1>2. KInv' /\ LogStep
    BY <1>1, CreateStep DEF IInv
  <1>3. ASSUME NEW x \in Jobs PROVE JobOK(x)'
    <2>1. calls'[x] = calls[x] /\ UNCHANGED rows
      BY <1>1, ImportConstants DEF IInv, TypeOK, KnowledgeTypeOK, Create, Become
    <2> QED
      BY <2>1, Untouched DEF IInv, files
  <1> QED
    BY <1>2, <1>3 DEF IInv, Good, TypeOK, KInv, files

LEMMA CrashGood ==
    ASSUME IInv, Crash
    PROVE  Good
  <1>1. /\ calls' = [c \in Callers |-> IF calls[c].step \in {"idle", "ended"} THEN calls[c]
                                       ELSE Over]
        /\ UNCHANGED <<rows, versions>> /\ UNCHANGED <<files, jobs, still>>
    BY DEF Crash, documents
  <1>2. calls' \in [Callers -> Call] /\ \A c \in Callers : CallOK(calls'[c])
    BY <1>1, NoCallType, NoCallOK DEF IInv, KInv, KnowledgeTypeOK
  <1>3. KInv' /\ LogStep
    BY <1>1, <1>2, CallersMove DEF IInv
  <1>4. ASSUME NEW x \in Jobs PROVE JobOK(x)'
    <2>1. x \in Callers
      BY ImportConstants
    <2>2. CASE calls'[x] = calls[x]
      BY <1>1, <2>2, Untouched DEF IInv, files
    <2>3. CASE calls'[x] = Over
      BY <1>1, <2>3, NoCallType DEF JobOK, JobSays, Claims, UnderWay
    <2> QED
      BY <1>1, <2>1, <2>2, <2>3
  <1> QED
    BY <1>1, <1>3, <1>4 DEF IInv, Good, TypeOK, KInv, files

LEMMA FileChangesGood ==
    ASSUME IInv, FileChanges
    PROVE  Good
  <1>1. /\ UNCHANGED <<rows, versions>> /\ UNCHANGED <<calls, jobs>> /\ still' = {}
    BY DEF FileChanges, documents
  <1>2. KInv' /\ LogStep
    BY <1>1, CallersMove DEF IInv, KInv, KnowledgeTypeOK
  <1>3. ASSUME NEW x \in Jobs PROVE JobOK(x)'
    BY <1>1, Untouched DEF IInv
  <1>4. disk' \in [Sources -> Contents \cup {None}] /\ changes' \in 0..MaxChanges
    BY ImportConstants DEF IInv, TypeOK, FileChanges
  <1> QED
    BY <1>1, <1>2, <1>3, <1>4 DEF IInv, Good, TypeOK, KInv

LEMMA Initially == Init => IInv
  <1> SUFFICES ASSUME Init PROVE IInv
    OBVIOUS
  <1>1. TypeOK /\ KInv
    BY KInit, ImportConstants DEF Init, TypeOK, KInv, JobStatus
  <1>2. ASSUME NEW j \in Jobs PROVE JobOK(j)
    BY NoCallType, ImportConstants
       DEF Init, KnowledgeInit, JobOK, JobSays, Claims, UnderWay
  <1> QED
    BY <1>1, <1>2 DEF IInv

LEMMA Inductive == IInv /\ [Next]_vars => Good
  <1> SUFFICES ASSUME IInv, [Next]_vars PROVE Good
    OBVIOUS
  <1>1. CASE FileChanges
    BY <1>1, FileChangesGood
  <1>2. CASE Crash
    BY <1>2, CrashGood
  <1>3. ASSUME NEW p \in People, NEW s \in Sources, NEW content \in Contents,
               Create(p, s, content), UNCHANGED <<files, jobs, still>>
        PROVE  Good
    BY <1>3, CreateGood
  <1>4. ASSUME NEW c \in Callers, Change(c) PROVE Good
    BY <1>4, ChangeGood
  <1>5. ASSUME NEW j \in Jobs, Start(j) PROVE Good
    BY <1>5, StartGood
  <1>6. ASSUME NEW j \in Jobs, VisitUnlisted(j) PROVE Good
    BY <1>6, VisitUnlistedGood
  <1>7. ASSUME NEW j \in Jobs, List(j) PROVE Good
    BY <1>7, ListGood
  <1>8. ASSUME NEW j \in Jobs, Finish(j) PROVE Good
    BY <1>8, FinishGood
  <1>9. ASSUME NEW j \in Jobs, Abort(j) PROVE Good
    BY <1>9, AbortGood
  <1>10. ASSUME NEW j \in Jobs, NEW s \in Sources, Visit(j, s) PROVE Good
    BY <1>10, VisitGood
  <1>11. CASE UNCHANGED vars
    <2>1. KInv' /\ LogStep
      BY <1>11, CallersMove DEF IInv, KInv, KnowledgeTypeOK, vars
    <2>2. ASSUME NEW x \in Jobs PROVE JobOK(x)'
      BY <1>11, Untouched DEF IInv, vars
    <2> QED
      BY <1>11, <2>1, <2>2 DEF IInv, Good, TypeOK, KInv, vars
  <1> QED
    BY <1>1, <1>2, <1>3, <1>4, <1>5, <1>6, <1>7, <1>8, <1>9, <1>10, <1>11 DEF Next

-----------------------------------------------------------------------------
(* Imports of a directory: theorems.                                     *)

LEMMA Invariant == Spec => []IInv
  <1>1. IInv /\ [Next]_vars => IInv'
    BY Inductive DEF Good
  <1> QED
    BY Initially, <1>1, PTL DEF Spec

\* Documents, versions, calls, files and jobs keep their types: above all, no
\* document has a version that was not written, or one out of range.
THEOREM TypeCorrect == Spec => []TypeOK
  <1>1. IInv => TypeOK
    BY DEF IInv
  <1> QED
    BY Invariant, <1>1, PTL

\* A job that says completed, with nobody else writing, has left the documents as
\* it found the files (Service.execute).
THEOREM CompletedTruthfulCorrect == Spec => []CompletedTruthful
  <1>1. IInv => CompletedTruthful
    <2> SUFFICES ASSUME IInv, NEW j \in Jobs, jobs[j] = "completed", calls[j].alone
                 PROVE  /\ \A s \in Sources :
                              LET stored == {rows[d].content :
                                             d \in {x \in Active : rows[x].source = s}}
                              IN  IF s \in calls[j].seen THEN calls[j].files[s] \in stored
                                  ELSE stored = {}
                        /\ j \in still => calls[j].seen = {s \in Sources : disk[s] # None}
      BY DEF CompletedTruthful
    <2>1. /\ Done(calls[j])
          /\ j \in still => \A s \in Sources : s \in calls[j].seen <=> disk[s] # None
      BY DEF IInv, JobOK, JobSays
    <2>2. calls[j].seen \subseteq Sources
      BY ImportConstants DEF IInv, TypeOK, KnowledgeTypeOK, Call
    <2>3. ASSUME NEW s \in Sources
          PROVE  LET stored == {rows[d].content : d \in {x \in Active : rows[x].source = s}}
                 IN  IF s \in calls[j].seen THEN calls[j].files[s] \in stored
                     ELSE stored = {}
      <3>1. s \in calls[j].seen => \E d \in Active : /\ rows[d].source = s
                                                    /\ rows[d].content = calls[j].files[s]
        BY <2>1 DEF Done, Saved
      <3>2. s \notin calls[j].seen => {x \in Active : rows[x].source = s} = {}
        BY <2>1 DEF Done
      <3> QED
        BY <3>1, <3>2
    <2> QED
      BY <2>1, <2>2, <2>3
  <1> QED
    BY Invariant, <1>1, PTL

\* Documents and their versions implement the revision log, whatever callers
\* overlap and however old their copies are (PostgresRepository.Update).
THEOREM VersionsKeptCorrect == Spec => VersionsKept
  <1>1. Init => Versioned!Init
    BY LogInit DEF Init
  <1>2. IInv /\ [Next]_vars => [Versioned!Next]_<<Statuses, Revisions, Logs>>
    BY Inductive DEF Good, LogStep, LogUnchanged
  <1> QED
    BY Invariant, <1>1, <1>2, PTL DEF Spec, VersionsKept, Versioned!Spec

-----------------------------------------------------------------------------
(* Synchronisations: the invariant.                                        *)

Busy(call) == call.step \in {"read", "walk", "store", "mark"}

\* What has been read is the commit of the first look at HEAD, provided HEAD is
\* still there and nothing was taken back: at once while the work tree is clean,
\* for good when the status has said so.
ReadsOne(call, sync) ==
    call.step = "read" =>
        /\ call.seen = {}
        /\ sync.looked => sync.unread = {}
        /\ ~sync.undone /\ sync.head = head =>
              /\ ~Dirty => \A s \in Sources \ sync.unread : call.files[s] = work[s]
              /\ sync.looked /\ ~sync.dirty => call.files = trees[head]

Committed(call, sync) == UnderWay(call) /\ ~sync.undone => call.files = trees[sync.head]

\* Every file that was read has been seen or is to come; what was seen is stored,
\* if all went well; what is stored as new has no document yet.
Imports(call) ==
    UnderWay(call) =>
        /\ Walked(call)
        /\ call.seen \cup call.todo = {s \in Sources : call.files[s] # None}
        /\ call.step = "store" /\ call.copy = None => FindBySource(call.source) = {}
        /\ ~call.errors => Stored(call) /\ (call.step = "mark" => Marked(call))

\* The last report without errors among the first n is of this commit.
StartsFrom(commit, n) ==
    commit # 0 =>
        \E j \in 1..n :
            /\ reports[j].status = "completed" /\ reports[j].head = commit
            /\ \A k \in (j + 1)..n : reports[k].status # "completed"

SyncSays(call, sync) ==
    Busy(call) =>
        /\ sync.head \in 1..Len(trees)
        /\ ReadsOne(call, sync) /\ Committed(call, sync) /\ Imports(call)
        /\ UnderWay(call) => StartsFrom(sync.previous, Len(reports))

SyncOK(c) == SyncSays(calls[c], syncs[c]) /\ (Busy(calls[c]) => c \in running)

AtMostOne == \A c, e \in running : c = e

\* No two documents share a source.
OneEach == \A d, e \in Existing : rows[d].source = rows[e].source => d = e

Described(tree) ==
    /\ \A d \in Active : rows[d].content = tree[rows[d].source]
    /\ \A s \in Sources : tree[s] # None => \E d \in Active : rows[d].source = s

\* Latest has a greatest element, so that Previous is well defined.
ReportsOK ==
    /\ \A i \in 1..Len(reports) :
          reports[i].head <= Len(trees) /\ StartsFrom(reports[i].previous, i - 1)
    /\ Latest # {} => \E i \in Latest : \A k \in Latest : k <= i

LastDescribed ==
    LET last == reports[Len(reports)]
    IN  Len(reports) > 0 /\ ~touched /\ last.status = "completed" /\ ~last.undone =>
            Described(trees[last.head])

SyncInv ==
    /\ SyncTypeOK /\ KInv /\ AtMostOne /\ OneEach /\ ReportsOK /\ LastDescribed
    /\ \A c \in Syncs : SyncOK(c)

SyncGood == SyncInv' /\ LogStep

-----------------------------------------------------------------------------
(* Synchronisations: frames.                                               *)

LEMMA NotBusy == \A sync : SyncSays(Over, sync) /\ ~Busy(Over)
  BY NoCallType DEF SyncSays, Busy

LEMMA NoSyncType == NoSync \in Sync
  BY SyncConstants DEF NoSync, Sync

\* What is known of a synchronisation.
LEMMA SyncKnown ==
    ASSUME SyncInv, NEW c \in Syncs
    PROVE  /\ c \in Callers /\ c \notin People /\ calls[c] \in Call /\ syncs[c] \in Sync
           /\ CallOK(calls[c]) /\ SyncSays(calls[c], syncs[c])
           /\ Busy(calls[c]) => c \in running
  BY DEF SyncInv, SyncTypeOK, KInv, KnowledgeTypeOK, SyncOK, Syncs

\* While one synchronisation is busy no other is.
LEMMA OthersIdle ==
    ASSUME SyncInv, NEW c \in Syncs, Busy(calls[c]), NEW x \in Syncs, x # c
    PROVE  ~Busy(calls[x])
  BY DEF SyncInv, AtMostOne, SyncOK

LEMMA SaysKept ==
    ASSUME NEW call, NEW sync, SyncSays(call, sync),
           UNCHANGED <<rows, trees, head, work, reports>>
    PROVE  SyncSays(call, sync)'
  BY DEF SyncSays, ReadsOne, Committed, Imports, StartsFrom, Dirty, Busy, UnderWay, Walked,
         Stored, Marked, Saved, FindBySource, Unseen, Active, Existing

LEMMA ReportsKept ==
    ASSUME ReportsOK, UNCHANGED <<reports, trees>>
    PROVE  ReportsOK'
  BY DEF ReportsOK, StartsFrom, Latest

LEMMA DescribedKept ==
    ASSUME NEW tree, Described(tree), UNCHANGED rows
    PROVE  Described(tree)'
  BY DEF Described, Active, Existing

LEMMA LastKept ==
    ASSUME LastDescribed, UNCHANGED <<rows, reports, touched, trees>>
    PROVE  LastDescribed'
  BY DEF LastDescribed, Described, Active, Existing

LEMMA OneEachKept ==
    ASSUME OneEach, UNCHANGED rows
    PROVE  OneEach'
  BY DEF OneEach, Existing

\* One synchronisation goes on and writes no document and no report.
LEMMA SyncStep ==
    ASSUME SyncInv, NEW c \in Syncs, NEW call, NEW sync \in Sync,
           Become(c, call), Hold(c, sync), KInv', LogStep,
           UNCHANGED <<repository, reports, touched>>,
           running' \subseteq Syncs, AtMostOne', \A x \in running : x # c => x \in running',
           Busy(call) => c \in running', SyncSays(call, sync)
    PROVE  SyncGood
  <1>1. /\ UNCHANGED <<rows, trees, head, work, edits, reports, touched>>
        /\ calls'[c] = call /\ syncs'[c] = sync
        /\ \A x \in Syncs : x # c => calls'[x] = calls[x] /\ syncs'[x] = syncs[x]
    BY SyncKnown DEF SyncInv, SyncTypeOK, KnowledgeTypeOK, Become, Hold, repository, Syncs
  <1>2. SyncTypeOK'
    <2>1. syncs' \in [Syncs -> Sync]
      BY DEF SyncInv, SyncTypeOK, Hold
    <2> QED
      BY <1>1, <2>1 DEF SyncInv, SyncTypeOK, KInv
  <1>3. OneEach' /\ ReportsOK' /\ LastDescribed'
    BY <1>1, OneEachKept, ReportsKept, LastKept DEF SyncInv
  <1>4. ASSUME NEW x \in Syncs PROVE SyncOK(x)'
    <2>1. PICK now, held : now = calls'[x] /\ held = syncs'[x]
      OBVIOUS
    <2>2. SyncSays(now, held) /\ (Busy(now) => x \in running')
      BY <1>1, <2>1, SyncKnown
    <2>3. SyncSays(now, held)'
      BY <1>1, <2>2, SaysKept
    <2> QED
      BY <2>1, <2>2, <2>3 DEF SyncOK, Busy
  <1> QED
    BY <1>2, <1>3, <1>4 DEF SyncInv, SyncGood

\* A synchronisation ends without a report.
LEMMA EndGood ==
    ASSUME SyncInv, NEW c \in Syncs, End(c), UNCHANGED <<repository, reports, touched>>
    PROVE  SyncGood
  <1>1. KInv' /\ LogStep
    BY SyncKnown, NoCallType, NoCallOK, BecomeStep DEF SyncInv, End
  <1>2. running' \subseteq Syncs /\ AtMostOne' /\ \A x \in running : x # c => x \in running'
    BY DEF SyncInv, SyncTypeOK, AtMostOne, End
  <1> QED
    BY <1>1, <1>2, NotBusy, NoSyncType, SyncStep DEF End

-----------------------------------------------------------------------------
(* Synchronisations: the repository.                                       *)

\* People work on the repository: commits stay, and what readers know is to be
\* shown.
LEMMA RepositoryStep ==
    ASSUME SyncInv, UNCHANGED <<documents, calls, running, reports, touched>>,
           trees' \in Seq(Tree), Len(trees') \in Commits, Len(trees) <= Len(trees'),
           \A i \in 1..Len(trees) : trees'[i] = trees[i],
           head' \in 1..Len(trees'), work' \in Tree, edits' \in 0..MaxEdits,
           syncs' \in [Syncs -> Sync],
           \A c \in Syncs : /\ syncs'[c].head = syncs[c].head
                            /\ calls[c].step # "read" => syncs'[c] = syncs[c]
                            /\ SyncSays(calls[c], syncs[c]) => ReadsOne(calls[c], syncs[c])'
    PROVE  SyncGood
  <1>1. UNCHANGED <<rows, versions, calls, running, reports, touched>>
    BY DEF documents
  <1>2. KInv' /\ LogStep
    BY <1>1, CallersMove DEF SyncInv, KInv, KnowledgeTypeOK
  <1>3. SyncTypeOK' /\ AtMostOne' /\ OneEach'
    BY <1>1, <1>2, OneEachKept DEF SyncInv, SyncTypeOK, KInv, AtMostOne
  <1>4. Len(trees) \in Nat /\ Len(trees') \in Nat
    BY DEF SyncInv, SyncTypeOK
  <1>5. ASSUME NEW i \in 1..Len(reports) PROVE reports[i].head \in 1..Len(trees)
    <2>1. reports[i] \in Report
      BY ElementOfSeq DEF SyncInv, SyncTypeOK
    <2>2. reports[i].head \in 1..MaxCommits
      BY <2>1 DEF Report, Commits
    <2>3. reports[i].head <= Len(trees)
      BY DEF SyncInv, ReportsOK
    <2> QED
      BY <1>4, <2>2, <2>3, SyncConstants
  <1>6. ReportsOK'
    <2>1. \A i \in 1..Len(reports) : reports[i].head <= Len(trees')
      BY <1>4, <1>5
    <2> QED
      BY <1>1, <2>1 DEF SyncInv, ReportsOK, StartsFrom, Latest
  <1>7. LastDescribed'
    <2>1. SUFFICES ASSUME Len(reports) > 0, ~touched,
                          reports[Len(reports)].status = "completed",
                          ~reports[Len(reports)].undone
                   PROVE  Described(trees[reports[Len(reports)].head])'
      BY <1>1 DEF LastDescribed
    <2>2. PICK tree : tree = trees[reports[Len(reports)].head]
      OBVIOUS
    <2>3. Len(reports) \in 1..Len(reports)
      BY <2>1 DEF SyncInv, SyncTypeOK
    <2>4. trees'[reports[Len(reports)].head] = tree
      BY <1>5, <2>2, <2>3
    <2>5. Described(tree)'
      BY <1>1, <2>1, <2>2, DescribedKept DEF SyncInv, LastDescribed
    <2> QED
      BY <1>1, <2>4, <2>5 DEF Described
  <1>8. ASSUME NEW c \in Syncs PROVE SyncOK(c)'
    <2>1. PICK call, old, sync : call = calls[c] /\ old = syncs[c] /\ sync = syncs'[c]
      OBVIOUS
    <2>2. SyncSays(call, old) /\ (Busy(call) => c \in running)
      BY <2>1, SyncKnown
    <2>3. sync.head = old.head /\ (call.step # "read" => sync = old) /\ ReadsOne(call, sync)'
      BY <1>1, <2>1, <2>2 DEF ReadsOne, Dirty
    <2>4. ASSUME Busy(call)
          PROVE  sync.head \in 1..Len(trees') /\ trees'[sync.head] = trees[old.head]
      BY <1>4, <2>2, <2>3, <2>4 DEF SyncSays
    <2>5. UnderWay(call) => call.step # "read" /\ Busy(call)
      BY DEF UnderWay, Busy
    <2>6. Imports(call)'
      <3>1. Busy(call) => Imports(call)
        BY <2>2 DEF SyncSays
      <3> QED
        BY <1>1, <2>5, <3>1 DEF Imports, UnderWay, Walked, Stored, Marked, Saved,
              FindBySource, Unseen, Active, Existing
    <2>7. Committed(call, sync)'
      BY <2>2, <2>3, <2>4, <2>5 DEF SyncSays, Committed, UnderWay
    <2>8. UnderWay(call) => StartsFrom(sync.previous, Len(reports))
      BY <2>2, <2>3, <2>5 DEF SyncSays
    <2>9. SyncSays(call, sync)'
      BY <1>1, <2>3, <2>4, <2>6, <2>7, <2>8 DEF SyncSays, Busy, UnderWay, StartsFrom
    <2> QED
      BY <1>1, <2>1, <2>2, <2>9 DEF SyncOK, Busy
  <1> QED
    BY <1>2, <1>3, <1>6, <1>7, <1>8 DEF SyncInv, SyncGood

\* A change of the work tree or of HEAD that is taken back: the readers are told.
LEMMA UndoneReads ==
    ASSUME SyncInv, Undone, UNCHANGED calls
    PROVE  /\ syncs' \in [Syncs -> Sync]
           /\ \A c \in Syncs :
                 /\ syncs'[c].head = syncs[c].head
                 /\ calls[c].step # "read" => syncs'[c] = syncs[c]
                 /\ SyncSays(calls[c], syncs[c]) => ReadsOne(calls[c], syncs[c])'
  <1>1. ASSUME NEW c \in Syncs
        PROVE  /\ syncs'[c] \in Sync /\ syncs'[c].head = syncs[c].head
               /\ syncs'[c].looked = syncs[c].looked /\ syncs'[c].unread = syncs[c].unread
               /\ calls[c].step # "read" => syncs'[c] = syncs[c]
               /\ calls[c].step = "read" => syncs'[c].undone = TRUE
    <2>1. PICK old, undone : old = syncs[c] /\ undone = (old.undone \/ calls[c].step = "read")
      OBVIOUS
    <2>2. old \in Sync /\ undone \in BOOLEAN
      BY <2>1, SyncKnown DEF Sync
    <2>3. syncs'[c] = [old EXCEPT !.undone = undone]
      BY <2>1 DEF Undone
    <2>4. /\ calls[c].step # "read" => undone = old.undone
          /\ calls[c].step = "read" => undone = TRUE
      BY <2>1, <2>2 DEF Sync
    <2>5. PICK sync : sync = [old EXCEPT !.undone = undone]
      OBVIOUS
    <2>6. /\ sync \in Sync /\ sync.head = old.head /\ sync.looked = old.looked
          /\ sync.unread = old.unread /\ sync.undone = undone
      BY <2>2, <2>5 DEF Sync
    <2>7. undone = old.undone => sync = old
      BY <2>2, <2>5 DEF Sync
    <2>8. syncs'[c] = sync
      BY <2>3, <2>5
    <2> QED
      BY <2>1, <2>4, <2>6, <2>7, <2>8
  <1>2. syncs' \in [Syncs -> Sync]
    <2>1. PICK F : F = [c \in Syncs |->
                          [syncs[c] EXCEPT !.undone = @ \/ calls[c].step = "read"]]
      OBVIOUS
    <2>2. syncs' = F
      BY <2>1 DEF Undone
    <2>3. syncs' = [c \in Syncs |-> syncs'[c]]
      BY <2>1, <2>2
    <2> QED
      BY <1>1, <2>3
  <1>3. ASSUME NEW c \in Syncs, SyncSays(calls[c], syncs[c])
        PROVE  ReadsOne(calls[c], syncs[c])'
    BY <1>1, <1>3 DEF SyncSays, ReadsOne, Busy
  <1> QED
    BY <1>1, <1>2, <1>3

LEMMA EditGood ==
    ASSUME SyncInv, Edit
    PROVE  SyncGood
  <1>1. UNCHANGED <<documents, calls, running, reports, touched>> /\ UNCHANGED <<trees, head>>
    BY DEF Edit
  <1>2. /\ trees \in Seq(Tree) /\ Len(trees) \in Commits /\ Len(trees) \in Nat
        /\ head \in 1..Len(trees) /\ syncs \in [Syncs -> Sync]
    BY DEF SyncInv, SyncTypeOK
  <1>3. work' \in Tree /\ edits' \in 0..MaxEdits
    BY SyncConstants DEF SyncInv, SyncTypeOK, Edit, Tree
  <1>4. CASE Undone
    BY <1>1, <1>2, <1>3, <1>4, UndoneReads, RepositoryStep
  <1>5. CASE work' # trees[head] /\ UNCHANGED syncs
    <2>1. ASSUME NEW c \in Syncs, SyncSays(calls[c], syncs[c])
          PROVE  ReadsOne(calls[c], syncs[c])'
      <3>1. ReadsOne(calls[c], syncs[c]) \/ calls[c].step # "read"
        BY <2>1 DEF SyncSays, Busy
      <3> QED
        BY <1>1, <1>5, <3>1 DEF ReadsOne, Dirty
    <2> QED
      BY <1>1, <1>2, <1>3, <1>5, <2>1, RepositoryStep
  <1> QED
    BY <1>4, <1>5 DEF Edit

LEMMA CommitGood ==
    ASSUME SyncInv, Commit
    PROVE  SyncGood
  <1>1. /\ UNCHANGED <<documents, calls, running, reports, touched>>
        /\ UNCHANGED <<work, edits, syncs>>
    BY DEF Commit
  <1>2. PICK n : n = Len(trees)
    OBVIOUS
  <1>3. /\ trees \in Seq(Tree) /\ n \in Nat /\ work \in Tree /\ edits \in 0..MaxEdits
        /\ syncs \in [Syncs -> Sync] /\ n < MaxCommits
    BY <1>2 DEF SyncInv, SyncTypeOK, Commit
  <1>4. /\ trees' \in Seq(Tree) /\ Len(trees') = n + 1 /\ head' = n + 1
        /\ \A i \in 1..n : trees'[i] = trees[i]
    BY <1>2, <1>3, AppendProperties DEF Commit
  <1>5. n + 1 \in Commits /\ n <= n + 1 /\ n + 1 \in 1..(n + 1)
    BY <1>3, SyncConstants DEF Commits
  <1>6. ASSUME NEW c \in Syncs, SyncSays(calls[c], syncs[c])
        PROVE  ReadsOne(calls[c], syncs[c])'
    <2>1. calls[c].step = "read" =>
             /\ ReadsOne(calls[c], syncs[c]) /\ syncs[c].head \in 1..n
      BY <1>2, <1>6 DEF SyncSays, Busy
    <2>2. calls[c].step = "read" => syncs[c].head # head'
      BY <1>3, <1>4, <2>1
    <2> QED
      BY <1>1, <2>1, <2>2 DEF ReadsOne
  <1> QED
    BY <1>1, <1>2, <1>3, <1>4, <1>5, <1>6, RepositoryStep

LEMMA CheckoutGood ==
    ASSUME SyncInv, Checkout
    PROVE  SyncGood
  <1>1. UNCHANGED <<documents, calls, running, reports, touched>> /\ UNCHANGED trees /\ Undone
    BY DEF Checkout
  <1>2. trees \in Seq(Tree) /\ Len(trees) \in Commits /\ Len(trees) \in Nat
    BY DEF SyncInv, SyncTypeOK
  <1>3. head' \in 1..Len(trees) /\ work' \in Tree
    BY <1>2, ElementOfSeq DEF Checkout
  <1>4. edits' \in 0..MaxEdits
    BY SyncConstants DEF SyncInv, SyncTypeOK, Checkout
  <1> QED
    BY <1>1, <1>2, <1>3, <1>4, UndoneReads, RepositoryStep

-----------------------------------------------------------------------------
(* Synchronisations: reading.                                              *)

LEMMA BeginGood ==
    ASSUME SyncInv, NEW c \in Syncs, Begin(c)
    PROVE  SyncGood
  <1> DEFINE next == [NoCall EXCEPT !.step = "read"]
             sync == [NoSync EXCEPT !.head = head, !.unread = Sources]
  <1>1. /\ next \in Call /\ next.step = "read" /\ next.marks = {} /\ next.copy = None
        /\ next.seen = {}
    BY DEF NoCall, Call
  <1>2. head \in 1..Len(trees) /\ head \in 0..MaxCommits
    BY SyncConstants DEF SyncInv, SyncTypeOK, Commits
  <1>3. /\ sync \in Sync /\ sync.head = head /\ sync.unread = Sources
        /\ sync.looked = FALSE
    <2>1. NoSync \in Sync /\ NoSync.looked = FALSE
      BY NoSyncType DEF NoSync
    <2> QED
      BY <1>2, <2>1 DEF Sync
  <1>4. /\ Become(c, next) /\ Hold(c, sync) /\ running = {} /\ running' = {c}
        /\ UNCHANGED <<repository, reports, touched>>
    BY DEF Begin, Free
  <1> HIDE DEF next, sync
  <1>5. KInv' /\ LogStep
    BY <1>1, <1>4, SyncKnown, BecomeStep DEF SyncInv, CallOK
  <1>6. SyncSays(next, sync)
    BY <1>1, <1>2, <1>3 DEF SyncSays, ReadsOne, Committed, Imports, UnderWay
  <1>7. running' \subseteq Syncs /\ AtMostOne' /\ \A x \in running : x # c => x \in running'
    BY <1>4 DEF AtMostOne
  <1> QED
    BY <1>3, <1>4, <1>5, <1>6, <1>7, SyncStep

\* One synchronisation goes on, and stays in the map.
LEMMA GoesOnSyncing ==
    ASSUME SyncInv, NEW c \in Syncs, Busy(calls[c]), NEW call, NEW sync \in Sync,
           Become(c, call), Hold(c, sync), KInv', LogStep,
           UNCHANGED <<repository, running, reports, touched>>, SyncSays(call, sync)
    PROVE  SyncGood
  <1>1. c \in running /\ running \subseteq Syncs /\ AtMostOne
    BY SyncKnown DEF SyncInv, SyncTypeOK
  <1>2. running' = running /\ AtMostOne'
    BY <1>1 DEF AtMostOne
  <1> QED
    BY <1>1, <1>2, SyncStep

\* What it holds besides its call stays the same.
LEMMA HoldsOn ==
    ASSUME SyncInv, NEW c \in Syncs, UNCHANGED syncs
    PROVE  Hold(c, syncs[c])
  BY DEF SyncInv, SyncTypeOK, Hold

LEMMA ReadFileGood ==
    ASSUME SyncInv, NEW c \in Syncs, NEW s \in Sources, ReadFile(c, s)
    PROVE  SyncGood
  <1>1. PICK old, held, content : old = calls[c] /\ held = syncs[c] /\ content = work[s]
    OBVIOUS
  <1> DEFINE next == [old EXCEPT !.files[s] = content]
             sync == [held EXCEPT !.unread = held.unread \ {s}]
  <1>2. /\ old \in Call /\ held \in Sync /\ CallOK(old) /\ SyncSays(old, held)
        /\ old.step = "read" /\ s \in held.unread
        /\ content \in Contents \cup {None}
    BY <1>1, SyncKnown DEF ReadFile, SyncInv, SyncTypeOK, Tree
  <1>3. /\ next \in Call /\ next.step = "read" /\ next.copy = old.copy
        /\ next.marks = old.marks /\ next.seen = old.seen
        /\ next.files[s] = content /\ \A x \in Sources : x # s => next.files[x] = old.files[x]
    BY <1>2 DEF Call
  <1>4. /\ sync \in Sync /\ sync.head = held.head /\ sync.unread = held.unread \ {s}
        /\ sync.looked = held.looked /\ sync.undone = held.undone
    BY <1>2 DEF Sync
  <1>5. /\ Become(c, next) /\ Hold(c, sync)
        /\ UNCHANGED <<repository, running, reports, touched>>
    BY <1>1 DEF ReadFile
  <1> HIDE DEF next, sync
  <1>6. KInv' /\ LogStep
    <2>1. CallOK(next)
      BY <1>2, <1>3 DEF CallOK
    <2> QED
      BY <1>3, <1>5, <2>1, SyncKnown, BecomeStep DEF SyncInv
  <1>7. Busy(old) /\ ReadsOne(old, held) /\ held.head \in 1..Len(trees)
    BY <1>2 DEF SyncSays, Busy
  <1>8. ReadsOne(next, sync)
    BY <1>1, <1>2, <1>3, <1>4, <1>7 DEF ReadsOne
  <1>9. SyncSays(next, sync)
    BY <1>3, <1>4, <1>7, <1>8 DEF SyncSays, Committed, Imports, UnderWay
  <1> QED
    BY <1>1, <1>4, <1>5, <1>6, <1>7, <1>9, GoesOnSyncing

LEMMA StatusGood ==
    ASSUME SyncInv, NEW c \in Syncs, Status(c)
    PROVE  SyncGood
  <1>1. PICK old, held, dirty : old = calls[c] /\ held = syncs[c] /\ dirty = Dirty
    OBVIOUS
  <1> DEFINE sync == [held EXCEPT !.looked = TRUE, !.dirty = dirty]
  <1>2. /\ old \in Call /\ held \in Sync /\ CallOK(old) /\ SyncSays(old, held)
        /\ old.step = "read" /\ held.unread = {} /\ dirty \in BOOLEAN
    BY <1>1, SyncKnown DEF Status, Dirty
  <1>3. /\ sync \in Sync /\ sync.head = held.head /\ sync.unread = {}
        /\ sync.dirty = dirty /\ sync.undone = held.undone
    BY <1>2 DEF Sync
  <1>4. /\ UNCHANGED <<documents, calls>> /\ Hold(c, sync)
        /\ UNCHANGED <<repository, running, reports, touched>>
    BY <1>1 DEF Status
  <1>5. Become(c, old)
    BY <1>1, <1>4, SyncKnown DEF Become, documents, SyncInv, SyncTypeOK, KnowledgeTypeOK
  <1> HIDE DEF sync
  <1>6. KInv' /\ LogStep
    BY <1>2, <1>5, SyncKnown, BecomeStep DEF SyncInv
  <1>7. Busy(old) /\ ReadsOne(old, held) /\ held.head \in 1..Len(trees)
    BY <1>2 DEF SyncSays, Busy
  <1>8. ReadsOne(old, sync)
    <2>1. ASSUME ~sync.undone, sync.head = head, ~Dirty PROVE old.files = trees[head]
      <3>1. \A s \in Sources : old.files[s] = work[s]
        BY <1>2, <1>3, <1>7, <2>1 DEF ReadsOne
      <3>2. old.files \in [Sources -> Contents \cup {None}] /\ work \in Tree
        BY <1>2 DEF Call, SyncInv, SyncTypeOK
      <3>3. old.files = work
        BY <3>1, <3>2 DEF Tree
      <3> QED
        BY <2>1, <3>3 DEF Dirty
    <2> QED
      BY <1>1, <1>2, <1>3, <1>7, <2>1 DEF ReadsOne
  <1>9. SyncSays(old, sync)
    BY <1>2, <1>3, <1>7, <1>8 DEF SyncSays, Committed, Imports, UnderWay
  <1> QED
    BY <1>1, <1>3, <1>4, <1>5, <1>6, <1>7, <1>9, GoesOnSyncing

\* The report to start from is the last one without errors.
LEMMA PreviousFits ==
    ASSUME SyncInv, NEW full
    PROVE  Previous(full) \in 0..MaxCommits /\ StartsFrom(Previous(full), Len(reports))
  <1>1. CASE full \/ Latest = {}
    BY <1>1, SyncConstants DEF Previous, StartsFrom
  <1>2. CASE ~(full \/ Latest = {})
    <2>1. PICK i : i = CHOOSE j \in Latest : \A k \in Latest : k <= j
      OBVIOUS
    <2>2. i \in Latest /\ \A k \in Latest : k <= i
      BY <1>2, <2>1 DEF SyncInv, ReportsOK
    <2>3. Previous(full) = reports[i].head
      BY <1>2, <2>1 DEF Previous
    <2>4. i \in 1..Len(reports) /\ reports[i].status = "completed" /\ Len(reports) \in Nat
      BY <2>2 DEF Latest, SyncInv, SyncTypeOK
    <2>5. reports[i] \in Report
      BY <2>4, ElementOfSeq DEF SyncInv, SyncTypeOK
    <2>6. reports[i].head \in 0..MaxCommits
      BY <2>5, SyncConstants DEF Report, Commits
    <2>7. ASSUME NEW k \in (i + 1)..Len(reports) PROVE reports[k].status # "completed"
      <3>1. k \in 1..Len(reports) /\ ~(k <= i)
        BY <2>4
      <3> QED
        BY <2>2, <3>1 DEF Latest
    <2> QED
      BY <2>3, <2>4, <2>6, <2>7 DEF StartsFrom
  <1> QED
    BY <1>1, <1>2

LEMMA AcceptGood ==
    ASSUME SyncInv, NEW c \in Syncs, Accept(c)
    PROVE  SyncGood
  <1>1. PICK old, held : old = calls[c] /\ held = syncs[c]
    OBVIOUS
  <1>2. PICK full \in BOOLEAN :
           Hold(c, [held EXCEPT !.previous = Previous(full), !.looked = FALSE])
    BY <1>1 DEF Accept
  <1>3. PICK previous, there : /\ previous = Previous(full)
                               /\ there = {s \in Sources : old.files[s] # None}
    OBVIOUS
  <1> DEFINE next == [old EXCEPT !.step = "walk", !.todo = there]
             sync == [held EXCEPT !.previous = previous, !.looked = FALSE]
  <1>4. /\ old \in Call /\ held \in Sync /\ CallOK(old) /\ SyncSays(old, held)
        /\ old.step = "read" /\ held.looked /\ held.head = head /\ ~held.dirty
    BY <1>1, SyncKnown DEF Accept, SameHead
  <1>5. previous \in 0..MaxCommits /\ StartsFrom(previous, Len(reports))
    BY <1>3, PreviousFits
  <1>6. /\ next \in Call /\ next.step = "walk" /\ next.todo = there /\ next.seen = old.seen
        /\ next.files = old.files /\ next.copy = old.copy /\ next.marks = old.marks
    BY <1>3, <1>4 DEF Call
  <1>7. /\ sync \in Sync /\ sync.head = held.head /\ sync.previous = previous
        /\ sync.undone = held.undone
    BY <1>4, <1>5 DEF Sync
  <1>8. /\ Become(c, next) /\ Hold(c, sync)
        /\ UNCHANGED <<repository, running, reports, touched>>
    BY <1>1, <1>2, <1>3 DEF Accept
  <1> HIDE DEF next, sync
  <1>9. KInv' /\ LogStep
    <2>1. CallOK(next)
      BY <1>4, <1>6 DEF CallOK
    <2> QED
      BY <1>6, <1>8, <2>1, SyncKnown, BecomeStep DEF SyncInv
  <1>10. Busy(old) /\ ReadsOne(old, held) /\ held.head \in 1..Len(trees)
    BY <1>4 DEF SyncSays, Busy
  <1>11. next.seen = {} /\ (~sync.undone => next.files = trees[sync.head])
    BY <1>4, <1>6, <1>7, <1>10 DEF ReadsOne
  <1>12. Imports(next)
    BY <1>3, <1>6, <1>11 DEF Imports, Walked, Stored
  <1>13. SyncSays(next, sync)
    BY <1>5, <1>6, <1>7, <1>10, <1>11, <1>12 DEF SyncSays, ReadsOne, Committed
  <1> QED
    BY <1>1, <1>7, <1>8, <1>9, <1>10, <1>13, GoesOnSyncing

-----------------------------------------------------------------------------
(* Synchronisations: importing.                                            *)

\* The synchronisation goes on among its files: what it read and holds stays.
LEMMA ImportsOn ==
    ASSUME SyncInv, NEW c \in Syncs, UnderWay(calls[c]), NEW call, Become(c, call),
           KInv', LogStep, UNCHANGED <<repository, running, syncs, reports, touched>>,
           UnderWay(call), call.files = calls[c].files, Imports(call)
    PROVE  SyncGood
  <1>1. PICK old, held : old = calls[c] /\ held = syncs[c]
    OBVIOUS
  <1>2. /\ Busy(old) /\ UnderWay(old) /\ SyncSays(old, held) /\ held \in Sync
        /\ Hold(c, held)
    BY <1>1, SyncKnown, HoldsOn DEF UnderWay, Busy
  <1>3. SyncSays(call, held)
    BY <1>1, <1>2 DEF SyncSays, ReadsOne, Committed, UnderWay
  <1> QED
    BY <1>1, <1>2, <1>3, GoesOnSyncing

\* A file is there and its document is looked for.
LEMMA FindImports ==
    ASSUME SyncInv, NEW c \in Syncs, NEW s \in Sources, NEW call \in Call,
           Find(c, call, s), call.step = "walk", Walked(call), s \in call.seen,
           call.seen \cup call.todo = {x \in Sources : call.files[x] # None},
           ~call.errors => \A x \in call.seen : x = s \/ Saved(call, x)
    PROVE  \E next : /\ Become(c, next) /\ UnderWay(next) /\ next.files = call.files
                     /\ Imports(next)
  <1> DEFINE storing == [call EXCEPT !.step = "store", !.source = s]
             new == [storing EXCEPT !.copy = None]
  <1>1. ASSUME NEW copy, copy = None => FindBySource(s) = {}
        PROVE  LET next == [storing EXCEPT !.copy = copy]
               IN  UnderWay(next) /\ next.files = call.files /\ Imports(next)
    <2> DEFINE next == [storing EXCEPT !.copy = copy]
    <2>1. /\ next.step = "store" /\ next.source = s /\ next.seen = call.seen
          /\ next.todo = call.todo /\ next.errors = call.errors /\ next.copy = copy
          /\ next.files = call.files
      BY DEF Call
    <2> HIDE DEF next
    <2>2. UnderWay(next) /\ Imports(next)
      BY <1>1, <2>1 DEF Imports, UnderWay, Walked, Stored, Saved
    <2> QED
      BY <2>1, <2>2 DEF next
  <1>2. CASE FindBySource(s) = {} /\ Become(c, new)
    BY <1>1, <1>2
  <1>3. ASSUME NEW d \in FindBySource(s), Current(rows[d], call.files[s]),
               Become(c, Imported(c, call))
        PROVE  \E next : /\ Become(c, next) /\ UnderWay(next) /\ next.files = call.files
                         /\ Imports(next)
    <2> DEFINE next == [call EXCEPT !.step = "walk", !.source = None, !.copy = None]
    <2>1. Become(c, next)
      BY <1>3, SyncKnown DEF Imported
    <2>2. /\ next.step = "walk" /\ next.seen = call.seen /\ next.todo = call.todo
          /\ next.errors = call.errors /\ next.files = call.files
      BY DEF Call
    <2>3. Saved(call, s)
      <3>1. rows[d] \in Row /\ rows[d].source = s /\ d \in Existing
        BY DEF FindBySource, Existing, SyncInv, KInv, KnowledgeTypeOK
      <3>2. rows[d].status = "active" /\ rows[d].content = call.files[s]
        BY <1>3, <3>1 DEF Current, Row
      <3> QED
        BY <3>1, <3>2 DEF Saved, Active
    <2> HIDE DEF next
    <2>4. UnderWay(next) /\ Imports(next)
      BY <2>2, <2>3 DEF Imports, UnderWay, Walked, Stored, Saved
    <2> QED
      BY <2>1, <2>2, <2>4
  <1>4. ASSUME NEW d \in FindBySource(s),
               Become(c, [storing EXCEPT !.copy = [document |-> d, row |-> rows[d]]])
        PROVE  \E next : /\ Become(c, next) /\ UnderWay(next) /\ next.files = call.files
                         /\ Imports(next)
    <2>1. PICK copy : copy = [document |-> d, row |-> rows[d]]
      OBVIOUS
    <2>2. rows[d] \in Row /\ d \in Documents
      BY DEF FindBySource, Existing, SyncInv, KInv, KnowledgeTypeOK
    <2>3. copy # None
      BY <2>1, <2>2, NoneIsNoRow DEF Copy
    <2> QED
      BY <1>1, <1>4, <2>1, <2>3
  <1> QED
    BY <1>2, <1>3, <1>4 DEF Find

LEMMA ImportGood ==
    ASSUME SyncInv, NEW c \in Syncs, NEW s \in Sources, Import(c, s)
    PROVE  SyncGood
  <1>1. PICK old : old = calls[c]
    OBVIOUS
  <1> DEFINE call == [old EXCEPT !.todo = old.todo \ {s}, !.seen = old.seen \cup {s}]
  <1>2. /\ c \in Callers /\ old \in Call /\ old.step = "walk" /\ s \in old.todo
        /\ UnderWay(old) /\ Imports(old) /\ old.marks = {}
    BY <1>1, SyncKnown DEF Import, SyncSays, Busy, UnderWay, CallOK
  <1>3. /\ call \in Call /\ call.step = "walk" /\ call.seen = old.seen \cup {s}
        /\ call.todo = old.todo \ {s} /\ call.errors = old.errors
        /\ call.files = old.files /\ call.marks = {}
    BY <1>2 DEF Call
  <1>4. Find(c, call, s) /\ UNCHANGED <<repository, running, syncs, reports, touched>>
    BY <1>1 DEF Import
  <1> HIDE DEF call
  <1>5. /\ Walked(old) /\ old.seen \cup old.todo = {x \in Sources : old.files[x] # None}
        /\ ~old.errors => Stored(old)
    BY <1>2 DEF Imports
  <1>6. call.files[s] \in Contents
    BY <1>2, <1>3, <1>5 DEF Call
  <1>7. KInv' /\ LogStep
    BY <1>2, <1>3, <1>4, <1>6, FindStep DEF SyncInv
  <1>8. /\ Walked(call) /\ s \in call.seen
        /\ call.seen \cup call.todo = {x \in Sources : call.files[x] # None}
    BY <1>2, <1>3, <1>5 DEF Walked
  <1>9. ~call.errors => \A x \in call.seen : x = s \/ Saved(call, x)
    BY <1>2, <1>3, <1>5 DEF Stored, Saved
  <1>10. PICK next : /\ Become(c, next) /\ UnderWay(next) /\ next.files = call.files
                     /\ Imports(next)
    BY <1>3, <1>4, <1>8, <1>9, FindImports
  <1> QED
    BY <1>1, <1>2, <1>3, <1>4, <1>7, <1>10, ImportsOn

LEMMA ListUnseenGood ==
    ASSUME SyncInv, NEW c \in Syncs, ListUnseen(c)
    PROVE  SyncGood
  <1>1. PICK old, listed : /\ old = calls[c]
                           /\ listed = {[document |-> d, row |-> rows[d]]
                                        : d \in Unseen(old.seen)}
    OBVIOUS
  <1> DEFINE next == [old EXCEPT !.step = "mark", !.marks = listed]
  <1>2. /\ c \in Callers /\ old \in Call /\ old.step = "walk" /\ old.todo = {}
        /\ UnderWay(old) /\ Imports(old) /\ Become(c, next)
        /\ UNCHANGED <<repository, running, syncs, reports, touched>>
    BY <1>1, SyncKnown DEF ListUnseen, ListActive, SyncSays, Busy, UnderWay
  <1>3. /\ next.step = "mark" /\ next.marks = listed /\ next.seen = old.seen
        /\ next.todo = {} /\ next.errors = old.errors /\ next.files = old.files
    BY <1>2 DEF Call
  <1> HIDE DEF next
  <1>4. Marked(next)
    <2>1. ASSUME NEW m \in listed PROVE m.row.source \notin next.seen
      <3>1. PICK d \in Unseen(old.seen) : m = [document |-> d, row |-> rows[d]]
        BY <1>1
      <3> QED
        BY <1>3, <3>1 DEF Unseen
    <2>2. ASSUME NEW d \in Unseen(next.seen) PROVE \E m \in listed : m.document = d
      <3>1. [document |-> d, row |-> rows[d]] \in listed
        BY <1>1, <1>3
      <3> QED
        BY <3>1
    <2> QED
      BY <1>3, <2>1, <2>2 DEF Marked
  <1>5. Imports(next) /\ UnderWay(next)
    BY <1>2, <1>3, <1>4 DEF Imports, UnderWay, Walked, Stored, Saved
  <1>6. KInv' /\ LogStep
    BY <1>2, ListActiveStep DEF SyncInv, ListUnseen
  <1> QED
    BY <1>1, <1>2, <1>3, <1>5, <1>6, ImportsOn

LEMMA StoreFailsGood ==
    ASSUME SyncInv, NEW c \in Syncs, StoreFails(c), touched' = (touched \/ rows' # rows),
           UNCHANGED <<repository, running, syncs, reports>>
    PROVE  SyncGood
  <1>1. PICK old : old = calls[c]
    OBVIOUS
  <1> DEFINE walking == [old EXCEPT !.step = "walk", !.source = None, !.copy = None]
             next == [walking EXCEPT !.errors = TRUE]
  <1>2. /\ c \in Callers /\ old \in Call /\ old.step = "store" /\ Become(c, next)
        /\ UnderWay(old) /\ Imports(old)
    BY <1>1, SyncKnown DEF StoreFails, Imported, SyncSays, Busy, UnderWay
  <1>3. /\ next.step = "walk" /\ next.seen = old.seen /\ next.todo = old.todo
        /\ next.errors = TRUE /\ next.files = old.files
    BY <1>2 DEF Call
  <1> HIDE DEF next
  <1>4. Imports(next) /\ UnderWay(next)
    BY <1>2, <1>3 DEF Imports, UnderWay, Walked
  <1>5. KInv' /\ LogStep
    BY <1>2, StoreFailsStep DEF SyncInv
  <1>6. touched' = touched
    BY <1>2 DEF Become, SyncInv, SyncTypeOK
  <1> QED
    BY <1>1, <1>2, <1>3, <1>4, <1>5, <1>6, ImportsOn

\* One synchronisation writes: nobody else is under way, and the last report is no
\* longer said to describe the documents, if they are others now.
LEMMA SyncWrites ==
    ASSUME SyncInv, NEW c \in Syncs, UnderWay(calls[c]), NEW d, NEW row, NEW call,
           Write(c, d, row, call), KInv', LogStep,
           touched' = (touched \/ rows' # rows),
           UNCHANGED <<repository, running, syncs, reports>>,
           UnderWay(calls'[c]), calls'[c].files = calls[c].files,
           Imports(calls[c])', OneEach'
    PROVE  SyncGood
  <1>1. UNCHANGED <<trees, head, work, edits>>
    BY DEF repository
  <1>2. SyncTypeOK' /\ AtMostOne'
    BY <1>1 DEF SyncInv, SyncTypeOK, KInv, AtMostOne
  <1>3. ReportsOK'
    BY <1>1, ReportsKept DEF SyncInv
  <1>4. LastDescribed'
    <2>1. CASE rows' = rows
      <3>1. touched' = touched
        BY <2>1 DEF SyncInv, SyncTypeOK
      <3> QED
        BY <1>1, <2>1, <3>1, LastKept DEF SyncInv
    <2>2. CASE rows' # rows
      BY <2>2 DEF LastDescribed
    <2> QED
      BY <2>1, <2>2
  <1>5. SyncOK(c)'
    <2>1. PICK old, next, held : old = calls[c] /\ next = calls'[c] /\ held = syncs[c]
      OBVIOUS
    <2>2. /\ SyncSays(old, held) /\ UnderWay(old) /\ Busy(old) /\ c \in running
          /\ UnderWay(next) /\ next.files = old.files /\ Imports(next)'
      BY <2>1, SyncKnown DEF UnderWay, Busy, Imports
    <2>3. SyncSays(next, held)'
      BY <1>1, <2>2 DEF SyncSays, ReadsOne, Committed, StartsFrom, Busy, UnderWay
    <2> QED
      BY <2>1, <2>2, <2>3 DEF SyncOK
  <1>6. ASSUME NEW x \in Syncs, x # c PROVE SyncOK(x)'
    <2>1. PICK old, next : old = calls[x] /\ next = calls'[x]
      OBVIOUS
    <2>2. next = Joined(old) /\ old \in Call /\ ~Busy(old)
      BY <1>6, <2>1, SyncKnown, OthersIdle DEF Write, UnderWay, Busy
    <2>3. next.step = old.step
      BY <2>2, JoinedType
    <2> QED
      BY <2>1, <2>2, <2>3 DEF SyncOK, SyncSays, Busy
  <1> QED
    BY <1>2, <1>3, <1>4, <1>5, <1>6 DEF SyncInv, SyncGood

LEMMA StoreGood ==
    ASSUME SyncInv, NEW c \in Syncs, Save(c) \/ Update(c),
           touched' = (touched \/ rows' # rows),
           UNCHANGED <<repository, running, syncs, reports>>
    PROVE  SyncGood
  <1>1. PICK old, next : old = calls[c] /\ next = calls'[c]
    OBVIOUS
  <1>2. /\ old.step = "store" /\ next.step = "walk" /\ Keeps(old, next)
        /\ next.errors = old.errors
    BY <1>1, SyncKnown, StoreEffect DEF SyncInv
  <1>3. UnderWay(old) /\ Imports(old)
    BY <1>1, <1>2, SyncKnown DEF SyncSays, Busy, UnderWay
  <1>4. Imports(next)'
    <2>1. Stored(old) => Stored(next)'
      BY <1>1, SyncKnown, StoreKeeps DEF Stored, SyncInv
    <2> QED
      BY <1>2, <1>3, <2>1 DEF Imports, UnderWay, Walked, Keeps
  <1>5. OneEach'
    <2>1. PICK d \in Documents :
             /\ (rows[d] = None) <=> (old.copy = None)
             /\ rows[d] # None => rows[d].source = old.source
             /\ rows'[d].source = old.source
             /\ \A e \in Documents : e # d => rows'[e] = rows[e]
      BY <1>1, SyncKnown, StoreEffect DEF SyncInv
    <2>2. rows[d] = None => FindBySource(old.source) = {}
      BY <1>2, <1>3, <2>1 DEF Imports
    <2>3. ASSUME NEW e \in Documents, e # d, rows[e] # None PROVE rows[e].source # old.source
      <3>1. CASE rows[d] = None
        BY <2>2, <2>3, <3>1 DEF FindBySource, Existing
      <3>2. CASE rows[d] # None
        BY <2>1, <2>3, <3>2 DEF SyncInv, OneEach, Existing
      <3> QED
        BY <3>1, <3>2
    <2> QED
      BY <2>1, <2>3 DEF SyncInv, OneEach, Existing
  <1>6. KInv' /\ LogStep
    BY SyncKnown, SaveStep, UpdateStep DEF SyncInv, LogStep
  <1>7. UnderWay(next) /\ next.files = old.files
    BY <1>2 DEF UnderWay, Keeps
  <1>8. \E d, row, call : Write(c, d, row, call)
    BY DEF Save, Update
  <1> QED
    BY <1>1, <1>3, <1>4, <1>5, <1>6, <1>7, <1>8, SyncWrites DEF Imports

LEMMA MarkGood ==
    ASSUME SyncInv, NEW c \in Syncs, MarkMissing(c),
           touched' = (touched \/ rows' # rows),
           UNCHANGED <<repository, running, syncs, reports>>
    PROVE  SyncGood
  <1>1. PICK old, next : old = calls[c] /\ next = calls'[c]
    OBVIOUS
  <1>2. /\ old.step = "mark" /\ next.step = "mark" /\ Keeps(old, next)
        /\ next.errors = old.errors
    BY <1>1, SyncKnown, MarkEffect DEF SyncInv
  <1>3. UnderWay(old) /\ Imports(old)
    BY <1>1, <1>2, SyncKnown DEF SyncSays, Busy, UnderWay
  <1>4. Imports(next)'
    <2>1. Stored(old) /\ Marked(old) => Stored(next)' /\ Marked(next)'
      BY <1>1, SyncKnown, MarkKeeps DEF Stored, Marked, SyncInv
    <2> QED
      BY <1>2, <1>3, <2>1 DEF Imports, UnderWay, Walked, Keeps
  <1>5. OneEach'
    <2>1. PICK m \in old.marks :
             /\ m.document \in Documents /\ rows[m.document] # None
             /\ rows'[m.document].source = rows[m.document].source
             /\ \A e \in Documents : e # m.document => rows'[e] = rows[e]
      BY <1>1, SyncKnown, MarkEffect DEF SyncInv
    <2> QED
      BY <2>1 DEF SyncInv, OneEach, Existing
  <1>6. KInv' /\ LogStep
    BY SyncKnown, MarkMissingStep DEF SyncInv
  <1>7. UnderWay(next) /\ next.files = old.files
    BY <1>2 DEF UnderWay, Keeps
  <1>8. \E d, row, call : Write(c, d, row, call)
    BY DEF MarkMissing
  <1> QED
    BY <1>1, <1>3, <1>4, <1>5, <1>6, <1>7, <1>8, SyncWrites DEF Imports

-----------------------------------------------------------------------------
(* Synchronisations: the end.                                              *)

LEMMA SaveReportGood ==
    ASSUME SyncInv, NEW c \in Syncs, SaveReport(c)
    PROVE  SyncGood
  <1>1. PICK old, held, n : old = calls[c] /\ held = syncs[c] /\ n = Len(reports)
    OBVIOUS
  <1> DEFINE report == [status |-> ReportStatus(old), head |-> held.head,
                        previous |-> held.previous, undone |-> held.undone]
  <1>2. /\ c \in Callers /\ old \in Call /\ held \in Sync /\ SyncSays(old, held)
        /\ old.step = "mark" /\ old.marks = {} /\ UnderWay(old) /\ Busy(old)
    BY <1>1, SyncKnown DEF SaveReport, UnderWay, Busy
  <1>3. /\ UNCHANGED <<rows, versions, trees, head, work, edits>>
        /\ Become(c, Over) /\ Hold(c, NoSync) /\ running' = running \ {c}
        /\ reports' = Append(reports, report) /\ touched' = FALSE
    BY <1>1 DEF SaveReport, End, Become, repository
  <1>4. reports \in Seq(Report) /\ n \in Nat /\ Len(trees) \in 1..MaxCommits
    BY <1>1 DEF SyncInv, SyncTypeOK, Commits
  <1>5. /\ held.head \in 1..Len(trees) /\ Committed(old, held) /\ Imports(old)
        /\ StartsFrom(held.previous, n)
    BY <1>1, <1>2 DEF SyncSays
  <1>6. /\ report \in Report /\ report.head = held.head /\ report.previous = held.previous
        /\ report.undone = held.undone /\ report.status = ReportStatus(old)
    BY <1>2, <1>4, <1>5, SyncConstants DEF Report, ReportStatus, Sync, Commits
  <1> HIDE DEF report
  <1>7. /\ reports' \in Seq(Report) /\ Len(reports') = n + 1 /\ reports'[n + 1] = report
        /\ \A i \in 1..n : reports'[i] = reports[i]
    BY <1>1, <1>3, <1>4, <1>6, AppendProperties
  <1>8. KInv' /\ LogStep
    BY <1>2, <1>3, NoCallType, NoCallOK, BecomeStep DEF SyncInv
  <1>9. SyncTypeOK' /\ AtMostOne' /\ OneEach'
    <2>1. syncs' \in [Syncs -> Sync]
      BY <1>3, NoSyncType DEF SyncInv, SyncTypeOK, Hold
    <2> QED
      BY <1>3, <1>7, <1>8, <2>1, OneEachKept DEF SyncInv, SyncTypeOK, KInv, AtMostOne
  <1>10. ASSUME NEW commit, NEW m \in 0..n, StartsFrom(commit, m)
         PROVE  StartsFrom(commit, m)'
    BY <1>4, <1>7, <1>10 DEF StartsFrom
  <1>11. ReportsOK'
    <2>1. ASSUME NEW i \in 1..(n + 1)
          PROVE  reports'[i].head <= Len(trees) /\ StartsFrom(reports[i].previous, i - 1)'
      <3>1. CASE i \in 1..n
        <4>1. PICK commit : commit = reports[i].previous
          OBVIOUS
        <4>2. reports[i].head <= Len(trees) /\ StartsFrom(commit, i - 1)
          BY <1>1, <3>1, <4>1 DEF SyncInv, ReportsOK
        <4>3. i - 1 \in 0..n /\ reports'[i] = reports[i]
          BY <1>4, <1>7, <3>1
        <4>4. StartsFrom(commit, i - 1)'
          BY <1>10, <4>2, <4>3
        <4> QED
          BY <4>1, <4>2, <4>3, <4>4 DEF StartsFrom
      <3>2. CASE i = n + 1
        <4>1. n \in 0..n /\ i - 1 = n
          BY <1>4, <3>2
        <4>2. StartsFrom(held.previous, n)'
          BY <1>5, <1>10, <4>1
        <4>3. PICK commit : commit = held.previous
          OBVIOUS
        <4>4. reports'[i].previous = commit /\ reports'[i].head <= Len(trees)
          BY <1>4, <1>5, <1>6, <1>7, <3>2, <4>3
        <4>5. StartsFrom(commit, n)'
          BY <4>2, <4>3 DEF StartsFrom
        <4> QED
          BY <4>1, <4>4, <4>5 DEF StartsFrom
      <3> QED
        BY <1>4, <2>1, <3>1, <3>2
    <2>2. ASSUME Latest' # {} PROVE \E i \in Latest' : \A k \in Latest' : k <= i
      <3>1. CASE report.status = "completed"
        <4>1. n + 1 \in Latest' /\ \A k \in Latest' : k <= n + 1
          BY <1>4, <1>7, <3>1 DEF Latest
        <4> QED
          BY <4>1
      <3>2. CASE report.status # "completed"
        <4>1. Latest' = Latest
          BY <1>1, <1>4, <1>7, <3>2 DEF Latest
        <4> QED
          BY <2>2, <4>1 DEF SyncInv, ReportsOK
      <3> QED
        BY <3>1, <3>2
    <2> QED
      BY <1>3, <1>7, <2>1, <2>2 DEF ReportsOK
  <1>12. LastDescribed'
    <2>1. SUFFICES ASSUME report.status = "completed", ~report.undone
                   PROVE  Described(trees[report.head])'
      BY <1>3, <1>7 DEF LastDescribed
    <2>2. PICK tree : tree = trees[report.head]
      OBVIOUS
    <2>3. /\ old.files = tree /\ old.todo = {} /\ ~old.errors
          /\ Stored(old) /\ Marked(old)
          /\ old.seen = {s \in Sources : tree[s] # None}
      BY <1>2, <1>5, <1>6, <2>1, <2>2 DEF Committed, Imports, Walked, ReportStatus
    <2>4. \A s \in old.seen : Saved(old, s)
      BY <1>2, <2>3 DEF Stored
    <2>5. ASSUME NEW d \in Active PROVE rows[d].content = tree[rows[d].source]
      <3>1. rows[d].source \in old.seen
        BY <1>2, <2>3 DEF Marked, Unseen
      <3>2. PICK e \in Active : /\ rows[e].source = rows[d].source
                                /\ rows[e].content = tree[rows[d].source]
        BY <2>3, <2>4, <3>1 DEF Saved
      <3>3. e = d
        BY <3>2 DEF SyncInv, OneEach, Active
      <3> QED
        BY <3>2, <3>3
    <2>6. ASSUME NEW s \in Sources, tree[s] # None PROVE \E d \in Active : rows[d].source = s
      BY <2>3, <2>4, <2>6 DEF Saved
    <2>7. Described(tree)
      BY <2>5, <2>6 DEF Described
    <2>8. Described(tree)'
      BY <1>3, <2>7, DescribedKept
    <2> QED
      BY <1>3, <2>2, <2>8 DEF Described
  <1>13. ASSUME NEW x \in Syncs PROVE SyncOK(x)'
    <2>1. ~Busy(calls'[x])
      <3>1. CASE x = c
        BY <1>2, <1>3, <3>1, NotBusy DEF Become, SyncInv, SyncTypeOK, KnowledgeTypeOK
      <3>2. CASE x # c
        <4>1. ~Busy(calls[x])
          BY <1>1, <1>2, <3>2, OthersIdle
        <4>2. calls'[x] = calls[x]
          BY <1>3, <3>2, SyncKnown DEF Become, SyncInv, SyncTypeOK, KnowledgeTypeOK
        <4> QED
          BY <4>1, <4>2
      <3> QED
        BY <3>1, <3>2
    <2> QED
      BY <2>1 DEF SyncOK, SyncSays, Busy
  <1> QED
    BY <1>8, <1>9, <1>11, <1>12, <1>13 DEF SyncInv, SyncGood

LEMMA ProcessDiesGood ==
    ASSUME SyncInv, ProcessDies
    PROVE  SyncGood
  <1>1. /\ UNCHANGED <<rows, versions, trees, head, work, edits, reports, touched>>
        /\ running' = {} /\ syncs' = [c \in Syncs |-> NoSync]
        /\ calls' = [c \in Callers |-> IF c \in running THEN Over ELSE calls[c]]
    BY DEF ProcessDies, documents, repository
  <1>2. calls' \in [Callers -> Call] /\ \A c \in Callers : CallOK(calls'[c])
    BY <1>1, NoCallType, NoCallOK DEF SyncInv, KInv, KnowledgeTypeOK
  <1>3. KInv' /\ LogStep
    BY <1>1, <1>2, CallersMove DEF SyncInv
  <1>4. SyncTypeOK' /\ AtMostOne' /\ OneEach' /\ ReportsOK' /\ LastDescribed'
    <2>1. syncs' \in [Syncs -> Sync]
      BY <1>1, NoSyncType
    <2> QED
      BY <1>1, <1>3, <2>1, OneEachKept, ReportsKept, LastKept
         DEF SyncInv, SyncTypeOK, KInv, AtMostOne
  <1>5. ASSUME NEW c \in Syncs PROVE SyncOK(c)'
    <2>1. ~Busy(calls'[c])
      BY <1>1, SyncKnown, NotBusy
    <2> QED
      BY <2>1 DEF SyncOK, SyncSays, Busy
  <1> QED
    BY <1>3, <1>4, <1>5 DEF SyncInv, SyncGood

LEMMA SyncInitially == SyncInit => SyncInv
  <1> SUFFICES ASSUME SyncInit PROVE SyncInv
    OBVIOUS
  <1>1. KInv /\ KnowledgeTypeOK
    BY KInit DEF SyncInit, KInv
  <1>2. PICK tree \in Tree : trees = <<tree>> /\ work = tree
    BY DEF SyncInit
  <1>3. trees \in Seq(Tree) /\ Len(trees) = 1
    BY <1>2
  <1>4. reports \in Seq(Report) /\ Len(reports) = 0
    BY DEF SyncInit
  <1>5. SyncTypeOK
    <2>1. Len(trees) \in Commits /\ edits \in 0..MaxEdits
      BY <1>3, SyncConstants DEF SyncInit, Commits
    <2>2. syncs \in [Syncs -> Sync]
      BY NoSyncType DEF SyncInit
    <2>3. head \in 1..Len(trees) /\ work \in Tree /\ running \subseteq Syncs
      BY <1>2, <1>3 DEF SyncInit
    <2> QED
      BY <1>1, <1>3, <1>4, <2>1, <2>2, <2>3 DEF SyncInit, SyncTypeOK
  <1>6. AtMostOne /\ OneEach /\ LastDescribed
    BY <1>4 DEF SyncInit, KnowledgeInit, AtMostOne, OneEach, Existing, LastDescribed
  <1>7. ReportsOK
    BY <1>4 DEF ReportsOK, Latest
  <1>8. ASSUME NEW c \in Syncs PROVE SyncOK(c)
    BY NoCallType DEF SyncInit, KnowledgeInit, Syncs, SyncOK, SyncSays, Busy
  <1> QED
    BY <1>1, <1>5, <1>6, <1>7, <1>8 DEF SyncInv

LEMMA SyncInductive == SyncInv /\ [SyncNext]_syncVars => SyncGood
  <1> SUFFICES ASSUME SyncInv, [SyncNext]_syncVars PROVE SyncGood
    OBVIOUS
  <1>1. CASE Edit \/ Commit \/ Checkout \/ ProcessDies
    BY <1>1, EditGood, CommitGood, CheckoutGood, ProcessDiesGood
  <1>2. ASSUME NEW c \in Syncs, Begin(c) \/ Status(c) \/ Accept(c) PROVE SyncGood
    BY <1>2, BeginGood, StatusGood, AcceptGood
  <1>3. ASSUME NEW c \in Syncs, Refuse(c) \/ Fail(c) PROVE SyncGood
    BY <1>3, EndGood DEF Refuse, Fail
  <1>4. ASSUME NEW c \in Syncs, WriteDocument(c) PROVE SyncGood
    BY <1>4, StoreGood, MarkGood, StoreFailsGood DEF WriteDocument, Storing
  <1>5. ASSUME NEW c \in Syncs, ListUnseen(c) \/ SaveReport(c) PROVE SyncGood
    BY <1>5, ListUnseenGood, SaveReportGood
  <1>6. ASSUME NEW c \in Syncs, NEW s \in Sources, ReadFile(c, s) \/ Import(c, s)
        PROVE  SyncGood
    BY <1>6, ReadFileGood, ImportGood
  <1>7. CASE UNCHANGED syncVars
    <2>1. KInv' /\ LogStep
      BY <1>7, CallersMove DEF SyncInv, KInv, KnowledgeTypeOK, syncVars
    <2>2. SyncTypeOK' /\ AtMostOne' /\ OneEach' /\ ReportsOK' /\ LastDescribed'
      BY <1>7, <2>1, OneEachKept, ReportsKept, LastKept
         DEF SyncInv, SyncTypeOK, KInv, AtMostOne, syncVars
    <2>3. ASSUME NEW c \in Syncs PROVE SyncOK(c)'
      <3>1. PICK call, sync : call = calls[c] /\ sync = syncs[c]
        OBVIOUS
      <3>2. SyncSays(call, sync) /\ (Busy(call) => c \in running)
        BY <3>1, SyncKnown
      <3>3. SyncSays(call, sync)'
        BY <1>7, <3>2, SaysKept DEF syncVars
      <3> QED
        BY <1>7, <3>1, <3>2, <3>3 DEF SyncOK, Busy, syncVars
    <2> QED
      BY <2>1, <2>2, <2>3 DEF SyncInv, SyncGood
  <1> QED
    BY <1>1, <1>2, <1>3, <1>4, <1>5, <1>6, <1>7 DEF SyncNext

-----------------------------------------------------------------------------
(* Synchronisations: theorems.                                             *)

LEMMA SyncInvariant == SyncSpec => []SyncInv
  <1>1. SyncInv /\ [SyncNext]_syncVars => SyncInv'
    BY SyncInductive DEF SyncGood
  <1> QED
    BY SyncInitially, <1>1, PTL DEF SyncSpec

\* Documents, commits, reports and what a synchronisation holds keep their types:
\* HEAD names a commit there is, and so does every report.
THEOREM SyncTypeCorrect == SyncSpec => []SyncTypeOK
  <1>1. SyncInv => SyncTypeOK
    BY DEF SyncInv
  <1> QED
    BY SyncInvariant, <1>1, PTL

\* Whatever people do to the repository while it is read, what is imported is the
\* commit the report will name, if nothing was taken back (Service.Read).
THEOREM OnlyCommittedCorrect == SyncSpec => []OnlyCommitted
  <1>1. SyncInv => OnlyCommitted
    <2> SUFFICES ASSUME SyncInv, NEW c \in Syncs,
                        calls[c].step \in {"walk", "store", "mark"}, ~syncs[c].undone
                 PROVE  calls[c].files = trees[syncs[c].head]
      BY DEF OnlyCommitted
    <2> QED
      BY SyncKnown DEF SyncSays, Committed, Busy, UnderWay
  <1> QED
    BY SyncInvariant, <1>1, PTL

\* A report without errors describes the documents until somebody writes again, one
\* active document for each file of its commit (Service.Sync).
THEOREM ReportTruthfulCorrect == SyncSpec => []ReportTruthful
  <1>1. SyncInv => ReportTruthful
    <2> SUFFICES ASSUME SyncInv, Len(reports) > 0, ~touched,
                        reports[Len(reports)].status = "completed",
                        ~reports[Len(reports)].undone
                 PROVE  LET tree == trees[reports[Len(reports)].head]
                        IN  /\ \A d \in Active : rows[d].content = tree[rows[d].source]
                            /\ \A s \in Sources :
                                  Cardinality({d \in Active : rows[d].source = s})
                                    = IF tree[s] = None THEN 0 ELSE 1
      BY DEF ReportTruthful
    <2>1. PICK tree : tree = trees[reports[Len(reports)].head]
      OBVIOUS
    <2>2. Described(tree)
      BY <2>1 DEF SyncInv, LastDescribed
    <2>3. ASSUME NEW s \in Sources
          PROVE  Cardinality({d \in Active : rows[d].source = s})
                   = IF tree[s] = None THEN 0 ELSE 1
      <3>1. CASE tree[s] = None
        <4>1. ASSUME NEW d \in Active PROVE rows[d].source # s
          <5>1. rows[d] \in Row
            BY DEF Active, Existing, SyncInv, KInv, KnowledgeTypeOK
          <5>2. rows[d].content \in Contents /\ rows[d].content = tree[rows[d].source]
            BY <2>2, <5>1 DEF Described, Row
          <5> QED
            BY <3>1, <5>2, KnowledgeConstants
        <4>2. {d \in Active : rows[d].source = s} = {}
          BY <4>1
        <4> QED
          BY <3>1, <4>2, FS_EmptySet
      <3>2. CASE tree[s] # None
        <4>1. PICK d \in Active : rows[d].source = s
          BY <2>2, <3>2 DEF Described
        <4>2. {e \in Active : rows[e].source = s} = {d}
          BY <4>1 DEF SyncInv, OneEach, Active
        <4> QED
          BY <3>2, <4>2, FS_Singleton
      <3> QED
        BY <3>1, <3>2
    <2> QED
      BY <2>1, <2>2, <2>3 DEF Described
  <1> QED
    BY SyncInvariant, <1>1, PTL

\* The differences of the reports leave no commit out (Store.LatestCompleted).
THEOREM BaselineUnbrokenCorrect == SyncSpec => []BaselineUnbroken
  <1>1. SyncInv => BaselineUnbroken
    BY DEF SyncInv, ReportsOK, StartsFrom, BaselineUnbroken
  <1> QED
    BY SyncInvariant, <1>1, PTL

\* Synchronisations too keep the documents a revision log, crashes and failures
\* included (PostgresRepository.Update).
THEOREM SyncVersionsKeptCorrect == SyncSpec => VersionsKept
  <1>1. SyncInit => Versioned!Init
    BY LogInit DEF SyncInit
  <1>2. SyncInv /\ [SyncNext]_syncVars => [Versioned!Next]_<<Statuses, Revisions, Logs>>
    BY SyncInductive DEF SyncGood, LogStep, LogUnchanged
  <1> QED
    BY SyncInvariant, <1>1, <1>2, PTL DEF SyncSpec, VersionsKept, Versioned!Spec
=============================================================================
