--------------------------- MODULE DirectoryImport ---------------------------
(***************************************************************************)
(* Imports of a directory (internal/ingestion).  A request creates a job   *)
(* and a goroutine walks the directory: each file is read and imported,    *)
(* its result is written to the job, and at the end the documents whose    *)
(* file the walk has not seen are marked as deleted.  Nothing keeps two    *)
(* jobs from walking one directory at a time, nor files from changing      *)
(* meanwhile; a job whose process dies is not taken up again.              *)
(***************************************************************************)
EXTENDS Knowledge

CONSTANTS Jobs,       \* jobs, each with a goroutine of its own
          MaxChanges  \* bound: changes of files

ASSUME ImportConstants ==
    /\ Callers = Jobs \cup People /\ Jobs \cap People = {}
    /\ MaxChanges \in Nat

VARIABLES disk,    \* the files: contents, or None
          changes, \* how often they have changed
          jobs,    \* the status of each row of ingestion_jobs
          still    \* jobs since whose start no file has changed

vars == <<rows, versions, calls, disk, changes, jobs, still>>

files == <<disk, changes>>

JobStatus == {"absent", "pending", "running", "completed", "completed_with_errors", "failed"}

TypeOK ==
    /\ KnowledgeTypeOK
    /\ disk \in [Sources -> Contents \cup {None}]
    /\ changes \in 0..MaxChanges
    /\ jobs \in [Jobs -> JobStatus]
    /\ still \subseteq Jobs

Init ==
    /\ KnowledgeInit
    /\ disk \in [Sources -> Contents \cup {None}]
    /\ changes = 0
    /\ jobs = [j \in Jobs |-> "absent"]
    /\ still = {}

\* Somebody writes or removes a file.
FileChanges ==
    /\ changes < MaxChanges
    /\ \E s \in Sources, content \in Contents \cup {None} :
          disk[s] # content /\ disk' = [disk EXCEPT ![s] = content]
    /\ changes' = changes + 1
    /\ still' = {}
    /\ UNCHANGED <<documents, calls, jobs>>

-----------------------------------------------------------------------------

\* Start: the row is created and the goroutine spawned, whose first statement makes
\* the row running.  If that fails, or the process dies before it, the goroutine is
\* over and the row stays pending.
Start(j) ==
    /\ jobs[j] = "absent"
    /\ \/ /\ jobs' = [jobs EXCEPT ![j] = "running"]
          /\ Become(j, [NoCall EXCEPT !.step = "walk", !.todo = Sources])
          /\ still' = still \cup {j}
       \/ /\ jobs' = [jobs EXCEPT ![j] = "pending"]
          /\ Become(j, Over)
          /\ UNCHANGED still
    /\ UNCHANGED files

\* A file the walk has come to counts as seen, whether or not it can be read.
Seen(call, s) == [call EXCEPT !.seen = @ \cup {s}]

\* The walk comes to a place in the directory: there is no file, it cannot be read,
\* or it is imported.
Visit(j, s) ==
    LET call == [calls[j] EXCEPT !.todo = @ \ {s}]
    IN  /\ calls[j].step = "walk" /\ s \in calls[j].todo
        /\ \/ disk[s] = None /\ Become(j, call)
           \/ disk[s] # None /\ Become(j, [Seen(call, s) EXCEPT !.errors = TRUE])
           \/ disk[s] # None /\ Find(j, [Seen(call, s) EXCEPT !.files[s] = disk[s]], s)
        /\ UNCHANGED <<files, jobs, still>>

Unlisted_Quiet(call, below) == [call EXCEPT !.todo = @ \ below]

\* A directory that cannot be listed is one failed result; the walk goes on
\* beside it, and the files below it are not seen.
Unlisted(call, below) == [call EXCEPT !.todo = @ \ below, !.errors = TRUE]

VisitUnlisted(j) ==
    /\ calls[j].step = "walk"
    /\ \E below \in SUBSET calls[j].todo \ {{}} : Become(j, Unlisted(calls[j], below))
    /\ UNCHANGED <<files, jobs, still>>

\* Saving a file's document, or marking one.
Change(j) ==
    /\ Storing(j) \/ MarkMissing(j)
    /\ UNCHANGED <<files, jobs, still>>

\* The walk is over.
List(j) == j \in Jobs /\ ListActive(j) /\ UNCHANGED <<files, jobs, still>>

Verdict(call) == IF call.errors THEN "completed_with_errors" ELSE "completed"

\* The last update of the job.  If it fails the row says running for ever.
Finish(j) ==
    /\ calls[j].step = "mark" /\ calls[j].marks = {}
    /\ \/ jobs' = [jobs EXCEPT ![j] = Verdict(calls[j])] /\ Become(j, Ended(calls[j]))
       \/ UNCHANGED jobs /\ Become(j, Over)
    /\ UNCHANGED <<files, still>>

\* The deadline, an update of the job, the target or the marking fails, between two
\* files or two documents.  The last update may fail too: its error is dropped.
Abort(j) ==
    /\ j \in Jobs /\ calls[j].step \in {"walk", "mark"}
    /\ jobs' = [jobs EXCEPT ![j] = "failed"] \/ UNCHANGED jobs
    /\ Become(j, Over)
    /\ still' = still \ {j}
    /\ UNCHANGED files

\* The process dies with its goroutines and requests.  Nothing looks for jobs
\* that were under way.
Crash ==
    /\ \E c \in Callers : calls[c].step \notin {"idle", "ended"}
    /\ calls' = [c \in Callers |-> IF calls[c].step \in {"idle", "ended"} THEN calls[c] ELSE Over]
    /\ UNCHANGED <<documents, files, jobs, still>>

Next ==
    \/ FileChanges \/ Crash
    \/ \E p \in People, s \in Sources, content \in Contents :
          Create(p, s, content) /\ UNCHANGED <<files, jobs, still>>
    \/ \E c \in Callers : Change(c)
    \/ \E j \in Jobs : \/ Start(j) \/ VisitUnlisted(j) \/ List(j)
                       \/ Finish(j) \/ Abort(j)
                       \/ \E s \in Sources : Visit(j, s)

Spec == Init /\ [][Next]_vars

-----------------------------------------------------------------------------
(* Properties.                                                             *)

\* A job that says completed has left the documents as it found the files, unless
\* somebody else wrote a document meanwhile: for each file it saw there is an
\* active document with what it read, and none is active for a file it did not
\* see; and it saw every file, if none changed meanwhile.  Whatever it could not
\* read, list or store shows in its status.
CompletedTruthful ==
    \A j \in Jobs : jobs[j] = "completed" /\ calls[j].alone =>
        /\ \A s \in Sources :
              LET stored == {rows[d].content : d \in {x \in Active : rows[x].source = s}}
              IN  IF s \in calls[j].seen THEN calls[j].files[s] \in stored ELSE stored = {}
        /\ j \in still => calls[j].seen = {s \in Sources : disk[s] # None}
=============================================================================
