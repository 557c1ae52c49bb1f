---------------------------- MODULE RepositorySync ----------------------------
(***************************************************************************)
(* Synchronisation of a git repository with the knowledge base             *)
(* (internal/repositorysync, internal/workspace): the files of the work    *)
(* tree are read one by one between two looks at HEAD and one at the       *)
(* status, then imported, then what was not seen is marked as deleted, and *)
(* last of all a report is stored.  People edit and commit meanwhile.      *)
(*                                                                         *)
(* One repository, one project, one server process, which keeps its        *)
(* synchronisations apart by a map in memory.  Files are the supported,    *)
(* non-empty ones: None stands for a file that is absent or passed over.   *)
(***************************************************************************)
EXTENDS Knowledge, Sequences

CONSTANTS MaxCommits, \* bound: commits of the repository
          MaxEdits    \* bound: changes of the work tree

ASSUME SyncConstants == MaxCommits \in Nat \ {0} /\ MaxEdits \in Nat

VARIABLES trees,    \* the files of each commit
          head,     \* the commit HEAD names
          work,     \* the files of the work tree
          edits,    \* how often they were changed
          running,  \* the map of synchronisations under way
          syncs,    \* what each caller holds besides its call
          reports,  \* the table of reports, in the order they were completed
          touched   \* has a document been written since the last report?

\* The callers that synchronise; people write no documents here.
Syncs == Callers \ People

syncVars == <<rows, versions, calls, trees, head, work, edits, running, syncs, reports, touched>>

repository == <<trees, head, work, edits>>

Tree == [Sources -> Contents \cup {None}]
Commits == 1..MaxCommits

\* head and previous are the commits of the report, 0 for none; unread the files
\* still to read; dirty what the status said.  undone: while the repository was
\* read, a change of it was taken back.
Sync == [head: 0..MaxCommits, previous: 0..MaxCommits, unread: SUBSET Sources,
         looked: BOOLEAN, dirty: BOOLEAN, undone: BOOLEAN]

NoSync == [head |-> 0, previous |-> 0, unread |-> {}, looked |-> FALSE,
           dirty |-> FALSE, undone |-> FALSE]

Report == [status: {"completed", "completed_with_errors"}, head: Commits,
           previous: 0..MaxCommits, undone: BOOLEAN]

SyncTypeOK ==
    /\ KnowledgeTypeOK
    /\ trees \in Seq(Tree) /\ Len(trees) \in Commits
    /\ head \in 1..Len(trees) /\ work \in Tree /\ edits \in 0..MaxEdits
    /\ running \subseteq Syncs
    /\ syncs \in [Syncs -> Sync]
    /\ reports \in Seq(Report)
    /\ touched \in BOOLEAN

SyncInit ==
    /\ KnowledgeInit
    /\ \E tree \in Tree : trees = <<tree>> /\ work = tree
    /\ head = 1 /\ edits = 0
    /\ running = {} /\ reports = <<>> /\ touched = FALSE
    /\ syncs = [c \in Syncs |-> NoSync]

-----------------------------------------------------------------------------
(* The repository and the people who work on it.                           *)

Dirty == work # trees[head]

\* The readers to whom something was taken back.
Undone == syncs' = [c \in Syncs |->
                      [syncs[c] EXCEPT !.undone = @ \/ calls[c].step = "read"]]

Edit ==
    /\ edits < MaxEdits
    /\ edits' = edits + 1
    /\ \E s \in Sources, content \in Contents \cup {None} :
          /\ work[s] # content
          /\ work' = [work EXCEPT ![s] = content]
    /\ IF work' = trees[head] THEN Undone ELSE UNCHANGED syncs
    /\ UNCHANGED <<documents, calls, trees, head, running, reports, touched>>

Commit ==
    /\ Dirty /\ Len(trees) < MaxCommits
    /\ trees' = Append(trees, work)
    /\ head' = Len(trees')
    /\ UNCHANGED <<documents, calls, work, edits, running, syncs, reports, touched>>

\* Checkout of another commit.
Checkout ==
    /\ ~Dirty /\ edits < MaxEdits
    /\ edits' = edits + 1
    /\ \E commit \in 1..Len(trees) :
          commit # head /\ head' = commit /\ work' = trees[commit]
    /\ Undone
    /\ UNCHANGED <<documents, calls, trees, running, reports, touched>>

-----------------------------------------------------------------------------
(* Reading the repository.                                                 *)

Hold(c, sync) == syncs' = [syncs EXCEPT ![c] = sync]

\* The deferred end of Sync.
End(c) ==
    /\ Become(c, Over)
    /\ Hold(c, NoSync)
    /\ running' = running \ {c}

Free_Always(c) == TRUE

\* begin: the map has one entry for the project and the repository.
Free(c) == running = {}

Begin(c) ==
    /\ calls[c].step = "idle" /\ Free(c)
    /\ running' = running \cup {c}
    /\ Hold(c, [NoSync EXCEPT !.head = head, !.unread = Sources])
    /\ Become(c, [NoCall EXCEPT !.step = "read"])
    /\ UNCHANGED <<repository, reports, touched>>

\* readFiles: one file, if it is there.
ReadFile(c, s) ==
    /\ calls[c].step = "read" /\ s \in syncs[c].unread
    /\ Become(c, [calls[c] EXCEPT !.files[s] = work[s]])
    /\ Hold(c, [syncs[c] EXCEPT !.unread = @ \ {s}])
    /\ UNCHANGED <<repository, running, reports, touched>>

Status(c) ==
    /\ calls[c].step = "read" /\ syncs[c].unread = {} /\ ~syncs[c].looked
    /\ Hold(c, [syncs[c] EXCEPT !.looked = TRUE, !.dirty = Dirty])
    /\ UNCHANGED <<documents, calls, repository, running, reports, touched>>

SameHead_Assumed(c) == TRUE

\* The second look at HEAD.
SameHead(c) == syncs[c].head = head

Latest_Any == {i \in 1..Len(reports) : TRUE}

\* LatestCompleted: reports with errors are passed over.
Latest == {i \in 1..Len(reports) : reports[i].status = "completed"}

\* The commit the differences start from; with full_resync, or without a report, none.
Previous(full) ==
    IF full \/ Latest = {} THEN 0
    ELSE reports[CHOOSE i \in Latest : \A k \in Latest : k <= i].head

\* Read returns, and Sync goes on if the repository was clean and still is at the
\* commit it was at.  The files it will import are the ones that were there.
Accept(c) ==
    /\ calls[c].step = "read" /\ syncs[c].looked
    /\ SameHead(c) /\ ~syncs[c].dirty
    /\ \E full \in BOOLEAN :
          Hold(c, [syncs[c] EXCEPT !.previous = Previous(full), !.looked = FALSE])
    /\ Become(c, [calls[c] EXCEPT !.step = "walk",
                                  !.todo = {s \in Sources : calls[c].files[s] # None}])
    /\ UNCHANGED <<repository, running, reports, touched>>

\* Refused, too large, changed, or failed, CommitDiff included.
Refuse(c) ==
    /\ calls[c].step = "read"
    /\ End(c)
    /\ UNCHANGED <<repository, reports, touched>>

-----------------------------------------------------------------------------
(* Writing the documents.                                                  *)

Import(c, s) ==
    /\ calls[c].step = "walk" /\ s \in calls[c].todo
    /\ Find(c, [calls[c] EXCEPT !.todo = @ \ {s}, !.seen = @ \cup {s}], s)
    /\ UNCHANGED <<repository, running, syncs, reports, touched>>

WriteDocument(c) ==
    /\ Storing(c) \/ MarkMissing(c)
    /\ touched' = (touched \/ rows' # rows)
    /\ UNCHANGED <<repository, running, syncs, reports>>

ListUnseen(c) == ListActive(c) /\ UNCHANGED <<repository, running, syncs, reports, touched>>

ReportStatus_Hopeful(call) == "completed"

ReportStatus(call) == IF call.errors THEN "completed_with_errors" ELSE "completed"

\* The report is the last thing stored, in a statement of its own.
SaveReport(c) ==
    /\ calls[c].step = "mark" /\ calls[c].marks = {}
    /\ reports' = Append(reports, [status |-> ReportStatus(calls[c]),
                                   head |-> syncs[c].head,
                                   previous |-> syncs[c].previous,
                                   undone |-> syncs[c].undone])
    /\ touched' = FALSE
    /\ End(c)
    /\ UNCHANGED repository

\* Marking the documents or storing the report fails; documents stay changed.
Fail(c) ==
    /\ calls[c].step = "mark"
    /\ End(c)
    /\ UNCHANGED <<repository, reports, touched>>

\* The process dies, and the map with it.
ProcessDies ==
    /\ running # {}
    /\ running' = {}
    /\ calls' = [c \in Callers |-> IF c \in running THEN Over ELSE calls[c]]
    /\ syncs' = [c \in Syncs |-> NoSync]
    /\ UNCHANGED <<documents, repository, reports, touched>>

SyncNext ==
    \/ Edit \/ Commit \/ Checkout \/ ProcessDies
    \/ \E c \in Syncs :
          \/ Begin(c) \/ Status(c) \/ Accept(c) \/ Refuse(c)
          \/ WriteDocument(c) \/ ListUnseen(c) \/ SaveReport(c) \/ Fail(c)
          \/ \E s \in Sources : ReadFile(c, s) \/ Import(c, s)

SyncSpec == SyncInit /\ [][SyncNext]_syncVars

-----------------------------------------------------------------------------
(* Properties.                                                             *)

\* What is imported is the commit the report will name, file by file, unless a
\* change of the repository was taken back while it was read: then neither the
\* second look at HEAD nor the status tells (Service.Read, README.md:269).
OnlyCommitted ==
    \A c \in Syncs :
        calls[c].step \in {"walk", "store", "mark"} /\ ~syncs[c].undone =>
            calls[c].files = trees[syncs[c].head]

\* Until somebody writes documents again, the active ones are the files of the
\* commit of the last report, one for each, if that report is without errors.
ReportTruthful ==
    LET last == reports[Len(reports)]
    IN  Len(reports) > 0 /\ ~touched /\ last.status = "completed" /\ ~last.undone =>
            /\ \A d \in Active : rows[d].content = trees[last.head][rows[d].source]
            /\ \A s \in Sources :
                  Cardinality({d \in Active : rows[d].source = s})
                    = IF trees[last.head][s] = None THEN 0 ELSE 1

\* The differences of the reports leave no commit out: each starts from the last
\* report without errors before it, if it does not start from nothing.
BaselineUnbroken ==
    \A i \in 1..Len(reports) : reports[i].previous # 0 =>
        \E j \in 1..(i - 1) :
            /\ reports[j].status = "completed" /\ reports[j].head = reports[i].previous
            /\ \A k \in (j + 1)..(i - 1) : reports[k].status # "completed"
=============================================================================
