------------------------------ MODULE Knowledge ------------------------------
(***************************************************************************)
(* The documents of the knowledge base (internal/knowledge) and the part   *)
(* of its callers that writes them: a caller goes through the files it has *)
(* found, imports each, and then marks as deleted what it has not seen.    *)
(*                                                                         *)
(* Every write is a read (FindBySource or List), some work (the embedding  *)
(* of the text), and a write of the whole copy, with no lock and no        *)
(* condition on the row.  What keeps two callers apart is the table of the *)
(* versions, whose key (document, version) refuses the second of two       *)
(* writers that started from the same copy, and takes its transaction with *)
(* it.                                                                     *)
(*                                                                         *)
(* One project.  A document's content stands for all an import sets; it is *)
(* compared by hash.  DirectoryImport and RepositorySync extend this.      *)
(***************************************************************************)
EXTENDS Naturals, FiniteSets

CONSTANTS Documents,  \* ids of documents
          Sources,    \* source URIs below the prefix of the callers
          Contents,
          Callers,    \* who imports: jobs, synchronisations, people
          People,     \* those of them who create one document by hand
          None,
          MaxVersion  \* bound: versions of a document

ASSUME KnowledgeConstants ==
    /\ None \notin Contents \cup Sources
    /\ People \subseteq Callers
    /\ MaxVersion \in Nat

VARIABLES rows,      \* knowledge_documents: a row, or None
          versions,  \* knowledge_document_versions: a set of rows per document
          calls      \* where each caller is

documents == <<rows, versions>>

-----------------------------------------------------------------------------
(* Documents, versions, calls.                                             *)

Row == [source: Sources, content: Contents, status: {"active", "deleted"},
        version: 1..MaxVersion]

Version == [content: Contents, status: {"active", "deleted"}, version: 1..MaxVersion]

VersionFromDocument(row) ==
    [content |-> row.content, status |-> row.status, version |-> row.version]

\* A row as a caller has read it.
Copy == [document: Documents, row: Row]

ASSUME NoneIsNoRow == None \notin Row /\ None \notin Copy

\* files is what the caller read, source the file it is importing and copy the row
\* it found for it, if any; marks are copies to be marked as deleted.  alone: no
\* other caller has written a document since the call began.
Call == [step: {"idle", "read", "walk", "store", "mark", "ended"},
         files: [Sources -> Contents \cup {None}],
         todo: SUBSET Sources, seen: SUBSET Sources,
         source: Sources \cup {None}, copy: Copy \cup {None},
         marks: SUBSET Copy, errors: BOOLEAN, alone: BOOLEAN]

NoCall == [step |-> "idle", files |-> [s \in Sources |-> None],
           todo |-> {}, seen |-> {}, source |-> None, copy |-> None,
           marks |-> {}, errors |-> FALSE, alone |-> TRUE]

\* A call that is over.
Over == [NoCall EXCEPT !.step = "ended", !.alone = FALSE]

\* One that ended well: what it read and saw stays for the properties, until some
\* other caller writes a document.
Ended(call) ==
    IF call.alone THEN [Over EXCEPT !.files = call.files, !.seen = call.seen, !.alone = TRUE]
    ELSE Over

\* Another caller writes a document.
Joined(call) ==
    CASE call.step = "idle" -> call
      [] call.step = "ended" -> Over
      [] OTHER -> [call EXCEPT !.alone = FALSE]

KnowledgeTypeOK ==
    /\ rows \in [Documents -> Row \cup {None}]
    /\ versions \in [Documents -> SUBSET Version]
    /\ calls \in [Callers -> Call]

KnowledgeInit ==
    /\ rows = [d \in Documents |-> None]
    /\ versions = [d \in Documents |-> {}]
    /\ calls = [c \in Callers |-> NoCall]

Existing == {d \in Documents : rows[d] # None}

Active == {d \in Existing : rows[d].status = "active"}

\* FindBySource takes the latest by updated_at, a clock of whichever process wrote
\* the row: where two documents share a source, it may be either.
FindBySource(s) == {d \in Existing : rows[d].source = s}

-----------------------------------------------------------------------------
(* Writing.                                                                *)

KeyFree_Always(d, row) == TRUE

\* The primary key of knowledge_document_versions.
KeyFree(d, row) == \A v \in versions[d] : v.version # row.version

\* The transaction of Save and of Update: the row, its chunks, its version.
Write(c, d, row, call) ==
    /\ row.version <= MaxVersion
    /\ KeyFree(d, row)
    /\ rows' = [rows EXCEPT ![d] = row]
    /\ versions' = [versions EXCEPT ![d] = @ \cup {VersionFromDocument(row)}]
    /\ calls' = [x \in Callers |-> IF x = c THEN call ELSE Joined(calls[x])]

Become(c, call) == calls' = [calls EXCEPT ![c] = call] /\ UNCHANGED <<rows, versions>>

\* What follows the import of one file.
Imported(c, call) ==
    IF c \in People THEN Over
    ELSE [call EXCEPT !.step = "walk", !.source = None, !.copy = None]

Current_AnyStatus(row, content) == row.content = content

\* Nothing to do: the document is not deleted and its hash is the file's.
Current(row, content) == row.status # "deleted" /\ row.content = content

\* Import up to the embedding.  call already has the file's content.
Find(c, call, s) ==
    LET storing == [call EXCEPT !.step = "store", !.source = s]
    IN  \/ FindBySource(s) = {} /\ Become(c, [storing EXCEPT !.copy = None])
        \/ \E d \in FindBySource(s) :
              IF Current(rows[d], call.files[s])
              THEN Become(c, Imported(c, call))
              ELSE Become(c, [storing EXCEPT !.copy = [document |-> d, row |-> rows[d]]])

\* Create: the same, but what exists already is refused.
Create(c, s, content) ==
    /\ c \in People /\ calls[c].step = "idle"
    /\ LET call == [calls[c] EXCEPT !.files[s] = content, !.seen = {s}]
       IN  IF FindBySource(s) # {} THEN Become(c, Over)
           ELSE Become(c, [call EXCEPT !.step = "store", !.source = s])

NewDocument_Unversioned(s, content) ==
    [source |-> s, content |-> content, status |-> "active", version |-> 0]

NewDocument(s, content) ==
    [source |-> s, content |-> content, status |-> "active", version |-> 1]

\* The end of Create, and of Import for a source that was not found.
Save(c) ==
    LET call == calls[c]
    IN  /\ call.step = "store" /\ call.copy = None
        /\ \E d \in Documents :
              /\ rows[d] = None
              /\ Write(c, d, NewDocument(call.source, call.files[call.source]),
                       Imported(c, call))

\* The end of Import for a source that was found.
Update(c) ==
    LET call == calls[c]
    IN  /\ call.step = "store" /\ call.copy # None
        /\ Write(c, call.copy.document,
                 [call.copy.row EXCEPT !.content = call.files[call.source],
                                       !.status = "active", !.version = @ + 1],
                 Imported(c, call))

\* The embedding failed, or the database refused: the file is recorded as failed.
StoreFails(c) ==
    /\ calls[c].step = "store"
    /\ Become(c, [Imported(c, calls[c]) EXCEPT !.errors = TRUE])

\* List, and the documents among it that MarkMissingSources will mark.
Unseen(seen) == {d \in Active : rows[d].source \notin seen}

ListActive(c) ==
    LET call == calls[c]
    IN  /\ call.step = "walk" /\ call.todo = {}
        /\ Become(c, [call EXCEPT !.step = "mark",
                                  !.marks = {[document |-> d, row |-> rows[d]]
                                             : d \in Unseen(call.seen)}])

MarkMissing(c) ==
    \E m \in calls[c].marks :
        Write(c, m.document, [m.row EXCEPT !.status = "deleted", !.version = @ + 1],
              [calls[c] EXCEPT !.marks = @ \ {m}])

Storing(c) == Save(c) \/ Update(c) \/ StoreFails(c)

-----------------------------------------------------------------------------
(* What the documents promise.                                             *)

DocumentMoves == {<<"absent", "active">>, <<"active", "active">>,
                  <<"active", "deleted">>, <<"deleted", "active">>}

StatusAt(d, n) ==
    IF \E v \in versions[d] : v.version = n
    THEN (CHOOSE v \in versions[d] : v.version = n).status ELSE "absent"

\* The versions of a document in order, as ListVersions gives them back to front.
Log(d) ==
    [n \in 1..Cardinality(versions[d]) |->
        [from |-> StatusAt(d, n - 1), to |-> StatusAt(d, n), sequence |-> n,
         stored |-> {v \in versions[d] : v.version = n}]]

StatusOf(d) == IF rows[d] = None THEN "absent" ELSE rows[d].status
RevisionOf(d) == IF rows[d] = None THEN 0 ELSE rows[d].version

Statuses == [d \in Documents |-> StatusOf(d)]
Revisions == [d \in Documents |-> RevisionOf(d)]
Logs == [d \in Documents |-> Log(d)]

Versioned == INSTANCE RevisionLog
    WITH Rows <- Documents, Moves <- DocumentMoves,
         status <- Statuses, revision <- Revisions, history <- Logs

\* Documents and their versions are a revision log, whatever callers overlap: no
\* version is skipped, changed or overwritten, and the row is always the last of
\* them.  Nothing but the key of the versions stops a stale copy.
VersionsKept == Versioned!Spec
=============================================================================
