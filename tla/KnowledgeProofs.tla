--------------------------- MODULE KnowledgeProofs ---------------------------
(***************************************************************************)
(* What holds of the documents whoever writes them, for any number of      *)
(* documents, sources, contents and callers: the lemmas that the proofs of *)
(* the modules that extend Knowledge rest on.                              *)
(*                                                                         *)
(* The argument: the versions of a document are numbered from one to that  *)
(* of its row (Kept), and every copy in the hands of a caller is among     *)
(* them (Known).  The key refuses a version that is there, so whoever      *)
(* writes the next one has a copy of the last.                             *)
(***************************************************************************)
EXTENDS Knowledge, TLAPS, FiniteSetTheorems, SequenceTheorems

Kept(d) ==
    IF rows[d] = None THEN versions[d] = {}
    ELSE /\ IsFiniteSet(versions[d]) /\ Cardinality(versions[d]) = rows[d].version
         /\ \A v \in versions[d] : v.version \in 1..rows[d].version
         /\ \A n \in 1..rows[d].version : \E v \in versions[d] : v.version = n
         /\ \A v, w \in versions[d] : v.version = w.version => v = w
         /\ VersionFromDocument(rows[d]) \in versions[d]

Known(m) ==
    /\ m \in Copy /\ VersionFromDocument(m.row) \in versions[m.document]
    /\ rows[m.document] # None /\ rows[m.document].source = m.row.source

CallOK(call) ==
    /\ call.copy # None => Known(call.copy) /\ call.step = "store"
    /\ \A m \in call.marks : Known(m) /\ m.row.status = "active"
    /\ call.marks # {} => call.step = "mark"
    /\ call.step = "store" =>
          /\ call.source \in Sources /\ call.files[call.source] \in Contents
          /\ call.copy # None => call.copy.row.source = call.source

KInv ==
    /\ KnowledgeTypeOK
    /\ \A d \in Documents : Kept(d)
    /\ \A c \in Callers : CallOK(calls[c])

-----------------------------------------------------------------------------
(* Records.                                                                *)

LEMMA NoCallType ==
    /\ NoCall \in Call /\ NoCall.step = "idle" /\ NoCall.marks = {} /\ NoCall.copy = None
    /\ Over \in Call /\ Over.step = "ended" /\ Over.marks = {} /\ Over.copy = None
    /\ Over.alone = FALSE
  BY DEF NoCall, Over, Call

LEMMA NoCallOK == CallOK(NoCall) /\ CallOK(Over)
  BY NoCallType DEF CallOK

\* A caller learns that another one has written.
LEMMA JoinedType ==
    ASSUME NEW call \in Call
    PROVE  /\ Joined(call) \in Call
           /\ Joined(call).copy \in {call.copy, None}
           /\ Joined(call).marks \in {call.marks, {}}
           /\ Joined(call).step = call.step
           /\ call.step \notin {"idle", "ended"} =>
                 Joined(call).source = call.source /\ Joined(call).files = call.files
  <1>1. CASE call.step = "idle"
    BY <1>1 DEF Joined
  <1>2. CASE call.step = "ended"
    BY <1>2, NoCallType DEF Joined
  <1>3. CASE call.step \notin {"idle", "ended"}
    <2>1. Joined(call) = [call EXCEPT !.alone = FALSE]
      BY <1>3 DEF Joined
    <2> QED
      BY <1>3, <2>1 DEF Call
  <1> QED
    BY <1>1, <1>2, <1>3

LEMMA KInit == KnowledgeInit => KInv
  BY NoCallType, NoCallOK DEF KnowledgeInit, KInv, KnowledgeTypeOK, Kept

-----------------------------------------------------------------------------
(* The log of a document.                                                  *)

Entry == [from: {"absent", "active", "deleted"}, to: {"absent", "active", "deleted"},
          sequence: Nat, stored: SUBSET Version]

LEMMA VersionType ==
    ASSUME NEW row \in Row
    PROVE  /\ VersionFromDocument(row) \in Version
           /\ VersionFromDocument(row).version = row.version
           /\ VersionFromDocument(row).status = row.status
           /\ VersionFromDocument(row).content = row.content
  BY DEF Row, Version, VersionFromDocument

LEMMA StatusAtVersion ==
    ASSUME NEW d \in Documents, NEW v \in versions[d],
           \A u, w \in versions[d] : u.version = w.version => u = w
    PROVE  StatusAt(d, v.version) = v.status
  BY DEF StatusAt

LEMMA StatusAtNone ==
    ASSUME NEW d \in Documents, NEW n, \A v \in versions[d] : v.version # n
    PROVE  StatusAt(d, n) = "absent"
  BY DEF StatusAt

LEMMA RevisionIsCardinality ==
    ASSUME KInv, NEW d \in Documents
    PROVE  /\ IsFiniteSet(versions[d]) /\ Cardinality(versions[d]) = RevisionOf(d)
           /\ RevisionOf(d) \in Nat
           /\ StatusAt(d, RevisionOf(d)) = StatusOf(d)
           /\ StatusOf(d) \in {"absent", "active", "deleted"}
           /\ \A v \in versions[d] : v.version \in 1..RevisionOf(d)
           /\ \A n \in 1..RevisionOf(d) : \E v \in versions[d] : v.version = n
           /\ \A v, w \in versions[d] : v.version = w.version => v = w
  <1>1. Kept(d) /\ rows[d] \in Row \cup {None}
    BY DEF KInv, KnowledgeTypeOK
  <1>2. CASE rows[d] = None
    <2>1. versions[d] = {} /\ RevisionOf(d) = 0 /\ StatusOf(d) = "absent"
      BY <1>1, <1>2 DEF Kept, RevisionOf, StatusOf
    <2>2. StatusAt(d, 0) = "absent"
      BY <2>1 DEF StatusAt
    <2> QED
      BY <2>1, <2>2, FS_EmptySet
  <1>3. CASE rows[d] # None
    <2>1. rows[d] \in Row /\ RevisionOf(d) = rows[d].version /\ StatusOf(d) = rows[d].status
      BY <1>1, <1>3 DEF RevisionOf, StatusOf
    <2>2. rows[d].version \in 1..MaxVersion /\ rows[d].status \in {"active", "deleted"}
      BY <2>1 DEF Row
    <2>3. VersionFromDocument(rows[d]) \in versions[d]
      BY <1>1, <1>3 DEF Kept
    <2>4. StatusAt(d, rows[d].version) = rows[d].status
      BY <1>1, <1>3, <2>1, <2>3, VersionType, StatusAtVersion DEF Kept
    <2> QED
      BY <1>1, <1>3, <2>1, <2>2, <2>4, KnowledgeConstants DEF Kept
  <1> QED
    BY <1>2, <1>3

LEMMA LogType ==
    ASSUME KInv, NEW d \in Documents
    PROVE  Log(d) \in Seq(Entry) /\ Len(Log(d)) = RevisionOf(d)
  <1> DEFINE n == RevisionOf(d)
  <1>1. n \in Nat /\ Cardinality(versions[d]) = n
    BY RevisionIsCardinality
  <1>2. \A k \in Nat : StatusAt(d, k) \in {"absent", "active", "deleted"}
    <2>1. SUFFICES ASSUME NEW k \in Nat, \E v \in versions[d] : v.version = k
                   PROVE  StatusAt(d, k) \in {"absent", "active", "deleted"}
      BY DEF StatusAt
    <2>2. PICK v \in versions[d] : v.version = k
      BY <2>1
    <2>3. StatusAt(d, k) = v.status
      BY <2>2, RevisionIsCardinality, StatusAtVersion
    <2> QED
      BY <2>3 DEF KInv, KnowledgeTypeOK, Version
  <1>3. ASSUME NEW k \in 1..n PROVE Log(d)[k] \in Entry
    <2>1. k \in Nat /\ k - 1 \in Nat
      BY <1>1
    <2>2. Log(d)[k] = [from |-> StatusAt(d, k - 1), to |-> StatusAt(d, k), sequence |-> k,
                       stored |-> {v \in versions[d] : v.version = k}]
      BY <1>1 DEF Log
    <2>3. {v \in versions[d] : v.version = k} \subseteq Version
      BY DEF KInv, KnowledgeTypeOK
    <2> QED
      BY <1>2, <2>1, <2>2, <2>3 DEF Entry
  <1>4. Log(d) = [k \in 1..n |-> Log(d)[k]]
    BY <1>1 DEF Log
  <1> HIDE DEF n
  <1>5. Log(d) \in [1..n -> Entry]
    BY <1>3, <1>4
  <1> QED
    BY <1>1, <1>5, SeqDef, LenProperties DEF n

-----------------------------------------------------------------------------
(* Writing.                                                                *)

\* A version that is not n changes nothing about n.
LEMMA StatusKept ==
    ASSUME NEW d \in Documents, NEW e, NEW n, e.version # n,
           \A v, w \in versions[d] : v.version = w.version => v = w,
           versions'[d] = versions[d] \cup {e}
    PROVE  /\ StatusAt(d, n)' = StatusAt(d, n)
           /\ {v \in versions'[d] : v.version = n} = {v \in versions[d] : v.version = n}
  <1>1. CASE \E v \in versions[d] : v.version = n
    <2>1. PICK v \in versions[d] : v.version = n
      BY <1>1
    <2>2. v \in versions'[d] /\ \A w \in versions'[d] : w.version = n => w = v
      BY <2>1
    <2>3. StatusAt(d, n)' = v.status
      BY <2>1, <2>2 DEF StatusAt
    <2>4. StatusAt(d, n) = v.status
      BY <2>1, StatusAtVersion
    <2> QED
      BY <2>3, <2>4
  <1>2. CASE ~ \E v \in versions[d] : v.version = n
    BY <1>2 DEF StatusAt
  <1> QED
    BY <1>1, <1>2

\* The next version of a document extends its log by one event.
LEMMA LogGrows ==
    ASSUME KInv, NEW d \in Documents, NEW row \in Row, row.version = RevisionOf(d) + 1,
           versions'[d] = versions[d] \cup {VersionFromDocument(row)}
    PROVE  Log(d)' = Append(Log(d), [from |-> StatusOf(d), to |-> row.status,
                                     sequence |-> row.version,
                                     stored |-> {VersionFromDocument(row)}])
  <1>0. PICK n : n = RevisionOf(d)
    OBVIOUS
  <1> DEFINE e == VersionFromDocument(row)
             event == [from |-> StatusOf(d), to |-> row.status, sequence |-> row.version,
                       stored |-> {VersionFromDocument(row)}]
             old == Log(d)
  <1>1. /\ n \in Nat /\ IsFiniteSet(versions[d]) /\ Cardinality(versions[d]) = n
        /\ \A v \in versions[d] : v.version \in 1..n
        /\ \A v, w \in versions[d] : v.version = w.version => v = w
    BY <1>0, RevisionIsCardinality
  <1>2. e.version = n + 1 /\ e.status = row.status /\ e \notin versions[d]
    BY <1>0, <1>1, VersionType
  <1>3. Cardinality(versions'[d]) = n + 1
    BY <1>1, <1>2, FS_AddElement
  <1>4. old \in Seq(Entry) /\ Len(old) = n
    BY <1>0, LogType
  <1>5. Log(d)' = [k \in 1..(n + 1) |->
            [from |-> StatusAt(d, k - 1)', to |-> StatusAt(d, k)', sequence |-> k,
             stored |-> {v \in versions'[d] : v.version = k}]]
    BY <1>3 DEF Log
  <1>6. old = [k \in 1..n |->
            [from |-> StatusAt(d, k - 1), to |-> StatusAt(d, k), sequence |-> k,
             stored |-> {v \in versions[d] : v.version = k}]]
    BY <1>1 DEF Log
  <1>7. ASSUME NEW k \in 0..n
        PROVE  /\ StatusAt(d, k)' = StatusAt(d, k)
               /\ {v \in versions'[d] : v.version = k} = {v \in versions[d] : v.version = k}
    <2>1. e.version # k
      BY <1>1, <1>2
    <2> QED
      BY <1>1, <2>1, StatusKept
  <1>8. StatusAt(d, n + 1)' = row.status
    <2>1. \A v \in versions'[d] : v.version = n + 1 => v = e
      BY <1>1, <1>2
    <2>2. e \in versions'[d]
      OBVIOUS
    <2> QED
      BY <1>2, <2>1, <2>2 DEF StatusAt
  <1>9. {v \in versions'[d] : v.version = n + 1} = {e}
    BY <1>1, <1>2
  <1>10. StatusAt(d, n) = StatusOf(d)
    BY <1>0, RevisionIsCardinality
  <1> HIDE DEF old, e
  <1>11. ASSUME NEW k \in 1..n PROVE Log(d)'[k] = old[k]
    <2>1. k \in 0..n /\ k - 1 \in 0..n /\ k \in 1..(n + 1)
      BY <1>1
    <2>2. /\ StatusAt(d, k)' = StatusAt(d, k) /\ StatusAt(d, k - 1)' = StatusAt(d, k - 1)
          /\ {v \in versions'[d] : v.version = k} = {v \in versions[d] : v.version = k}
      BY <1>7, <2>1
    <2> QED
      BY <1>5, <1>6, <2>1, <2>2
  <1>12. Log(d)'[n + 1] = event
    <2>1. n + 1 \in 1..(n + 1) /\ n \in 0..n /\ (n + 1) - 1 = n
      BY <1>1
    <2>2. StatusAt(d, n)' = StatusOf(d)
      BY <1>7, <1>10, <2>1
    <2>3. Log(d)'[n + 1] = [from |-> StatusAt(d, n)', to |-> StatusAt(d, n + 1)',
                            sequence |-> n + 1,
                            stored |-> {v \in versions'[d] : v.version = n + 1}]
      BY <1>5, <2>1
    <2> QED
      BY <1>8, <1>9, <1>0, <2>2, <2>3 DEF e
  <1>13. Log(d)' = [k \in 1..(n + 1) |-> IF k = n + 1 THEN event ELSE old[k]]
    <2>1. ASSUME NEW k \in 1..(n + 1) PROVE Log(d)'[k] = IF k = n + 1 THEN event ELSE old[k]
      BY <1>1, <1>11, <1>12
    <2> QED
      BY <1>5, <2>1
  <1>14. Append(old, event) = [k \in 1..(n + 1) |-> IF k = n + 1 THEN event ELSE old[k]]
    BY <1>1, <1>4
  <1> QED
    BY <1>13, <1>14 DEF old

\* A write of the next version keeps the invariant, and is a step of the log.
LEMMA WriteStep ==
    ASSUME KInv, NEW c \in Callers, NEW d \in Documents, NEW row \in Row, NEW call \in Call,
           Write(c, d, row, call), row.version = RevisionOf(d) + 1,
           <<StatusOf(d), row.status>> \in DocumentMoves,
           rows[d] # None => row.source = rows[d].source,
           call.step # "store", call.marks # {} => call.step = "mark", call.copy = None,
           call.marks \subseteq calls[c].marks
    PROVE  KInv' /\ Versioned!Next
  <1> DEFINE e == VersionFromDocument(row)
             event == [from |-> StatusOf(d), to |-> row.status, sequence |-> row.version,
                       stored |-> {e}]
  <1>1. /\ rows \in [Documents -> Row \cup {None}]
        /\ versions \in [Documents -> SUBSET Version]
        /\ calls \in [Callers -> Call]
    BY DEF KInv, KnowledgeTypeOK
  <1>2. /\ rows' = [rows EXCEPT ![d] = row]
        /\ versions' = [versions EXCEPT ![d] = versions[d] \cup {e}]
        /\ calls' = [x \in Callers |-> IF x = c THEN call ELSE Joined(calls[x])]
    BY DEF Write
  <1>3. /\ e \in Version /\ e.version = row.version
        /\ e.status = row.status /\ e.content = row.content
    BY VersionType
  <1>4. /\ rows'[d] = row /\ versions'[d] = versions[d] \cup {e}
        /\ \A x \in Documents : x # d => rows'[x] = rows[x] /\ versions'[x] = versions[x]
    BY <1>1, <1>2
  <1>5. row # None
    BY NoneIsNoRow
  <1>6. KnowledgeTypeOK'
    <2>1. \A x \in Callers : Joined(calls[x]) \in Call
      BY <1>1, JoinedType
    <2>2. calls' \in [Callers -> Call]
      BY <1>2, <2>1
    <2>3. rows' \in [Documents -> Row \cup {None}]
      BY <1>1, <1>2
    <2>4. versions' \in [Documents -> SUBSET Version]
      BY <1>1, <1>2, <1>3
    <2> QED
      BY <2>2, <2>3, <2>4 DEF KnowledgeTypeOK
  <1>7. ASSUME NEW x \in Documents PROVE Kept(x)'
    <2>1. CASE x = d
      <3>1. PICK n : n = RevisionOf(d)
        OBVIOUS
      <3>2. /\ n \in Nat /\ IsFiniteSet(versions[d]) /\ Cardinality(versions[d]) = n
            /\ \A v \in versions[d] : v.version \in 1..n
            /\ \A k \in 1..n : \E v \in versions[d] : v.version = k
            /\ \A v, w \in versions[d] : v.version = w.version => v = w
        BY <3>1, RevisionIsCardinality
      <3>3. e.version = n + 1 /\ e \notin versions[d]
        BY <1>3, <3>1, <3>2
      <3>4. IsFiniteSet(versions'[d]) /\ Cardinality(versions'[d]) = n + 1
        <4>1. /\ IsFiniteSet(versions[d] \cup {e})
              /\ Cardinality(versions[d] \cup {e}) = n + 1
          BY <3>2, <3>3, FS_AddElement
        <4> QED
          BY <1>4, <4>1
      <3>5. \A v \in versions'[d] : v.version \in 1..(n + 1)
        BY <1>4, <3>2, <3>3
      <3>6. ASSUME NEW k \in 1..(n + 1) PROVE \E v \in versions'[d] : v.version = k
        BY <1>4, <3>2, <3>3
      <3>7. \A v, w \in versions'[d] : v.version = w.version => v = w
        BY <1>4, <3>2, <3>3
      <3>8. rows'[d].version = n + 1 /\ e \in versions'[d]
        BY <1>4, <3>1
      <3> HIDE DEF e
      <3>9. Kept(d)'
        BY <1>4, <1>5, <3>4, <3>5, <3>6, <3>7, <3>8 DEF Kept, e
      <3> QED
        BY <2>1, <3>9
    <2>2. CASE x # d
      BY <1>4, <2>2 DEF KInv, Kept
    <2> QED
      BY <2>1, <2>2
  <1>8. ASSUME NEW m, Known(m) PROVE Known(m)'
    <2>1. /\ m.document \in Documents /\ versions[m.document] \subseteq versions'[m.document]
          /\ rows'[m.document] # None /\ rows'[m.document].source = rows[m.document].source
      BY <1>4, <1>5, <1>8 DEF Known, Copy
    <2> QED
      BY <1>8, <2>1 DEF Known
  <1>9. ASSUME NEW x \in Callers PROVE CallOK(calls[x])'
    <2>1. CallOK(calls[x]) /\ calls[x] \in Call
      BY <1>1 DEF KInv
    <2>2. CASE x = c
      <3>1. calls'[x] = call
        BY <1>2, <2>2
      <3>2. /\ call.copy # None => Known(call.copy)
            /\ \A m \in call.marks : Known(m) /\ m.row.status = "active"
        BY <2>1, <2>2 DEF CallOK
      <3>3. /\ call.copy # None => Known(call.copy)'
            /\ \A m \in call.marks : Known(m)' /\ m.row.status = "active"
            /\ call.marks # {} => call.step = "mark"
        BY <1>8, <3>2
      <3> QED
        BY <3>1, <3>3 DEF CallOK
    <2>3. CASE x # c
      <3> DEFINE joined == Joined(calls[x])
      <3>1. calls'[x] = joined
        BY <1>2, <2>3
      <3>2. /\ joined.copy \in {calls[x].copy, None} /\ joined.marks \in {calls[x].marks, {}}
            /\ joined.step = "store" =>
                  joined.source = calls[x].source /\ joined.files = calls[x].files
            /\ joined.step = calls[x].step
        BY <2>1, JoinedType
      <3>3. /\ joined.copy # None => Known(joined.copy) /\ joined.step = "store"
            /\ \A m \in joined.marks : Known(m) /\ m.row.status = "active"
            /\ joined.marks # {} => joined.step = "mark"
            /\ joined.step = "store" =>
                  /\ joined.source \in Sources /\ joined.files[joined.source] \in Contents
                  /\ joined.copy # None => joined.copy.row.source = joined.source
        BY <2>1, <3>2 DEF CallOK
      <3>4. PICK call2 : call2 = joined
        OBVIOUS
      <3>5. /\ call2.copy # None => Known(call2.copy)' /\ call2.step = "store"
            /\ \A m \in call2.marks : Known(m)' /\ m.row.status = "active"
            /\ call2.marks # {} => call2.step = "mark"
            /\ call2.step = "store" =>
                  /\ call2.source \in Sources /\ call2.files[call2.source] \in Contents
                  /\ call2.copy # None => call2.copy.row.source = call2.source
        BY <1>8, <3>3, <3>4
      <3>6. calls'[x] = call2
        BY <3>1, <3>4
      <3> QED
        BY <3>5, <3>6 DEF CallOK
    <2> QED
      BY <2>2, <2>3
  <1>10. KInv'
    BY <1>6, <1>7, <1>9 DEF KInv, CallOK, Known
  <1>11. /\ Statuses' = [Statuses EXCEPT ![d] = row.status]
         /\ Revisions' = [Revisions EXCEPT ![d] = row.version]
         /\ Logs' = [Logs EXCEPT ![d] = Append(Logs[d], event)]
    <2>1. StatusOf(d)' = row.status /\ RevisionOf(d)' = row.version
      BY <1>4, <1>5 DEF StatusOf, RevisionOf
    <2>2. \A x \in Documents : x # d => StatusOf(x)' = StatusOf(x) /\ RevisionOf(x)' = RevisionOf(x)
      BY <1>4 DEF StatusOf, RevisionOf
    <2>3. Log(d)' = Append(Log(d), event)
      BY <1>4, LogGrows
    <2>4. \A x \in Documents : x # d => Log(x)' = Log(x)
      BY <1>4 DEF Log, StatusAt
    <2>5. Statuses' = [Statuses EXCEPT ![d] = row.status]
      BY <2>1, <2>2 DEF Statuses
    <2>6. Revisions' = [Revisions EXCEPT ![d] = row.version]
      BY <2>1, <2>2 DEF Revisions
    <2> HIDE DEF event
    <2>7. Logs' = [Logs EXCEPT ![d] = Append(Logs[d], event)]
      BY <2>3, <2>4 DEF Logs
    <2> QED
      BY <2>5, <2>6, <2>7 DEF event
  <1>12. Statuses[d] = StatusOf(d) /\ Revisions[d] = RevisionOf(d)
    BY DEF Statuses, Revisions
  <1>13. /\ event.from = Statuses[d] /\ event.sequence = Revisions[d] + 1
         /\ <<event.from, event.to>> \in DocumentMoves
         /\ event.to = row.status /\ event.sequence = row.version
    BY <1>12
  <1>14. Logs'[d] = Append(Logs[d], event) /\ Logs[d] \in Seq(Entry) /\ event \in Entry
    <2>1. Logs[d] = Log(d) /\ Log(d) \in Seq(Entry)
      BY LogType DEF Logs
    <2>2. Logs'[d] = Append(Logs[d], event)
      BY <1>11 DEF Logs
    <2>3. StatusOf(d) \in {"absent", "active", "deleted"} /\ row.status \in {"active", "deleted"}
      BY RevisionIsCardinality DEF Row
    <2>4. row.version \in Nat
      BY RevisionIsCardinality
    <2> QED
      BY <1>3, <2>1, <2>2, <2>3, <2>4 DEF Entry
  <1> HIDE DEF event
  <1>15. Len(Logs'[d]) > 0 /\ Logs'[d][Len(Logs'[d])] = event
    BY <1>14
  <1>16. Versioned!Next
    BY <1>11, <1>13, <1>15 DEF Versioned!Next, Versioned!Record
  <1> QED
    BY <1>10, <1>16

-----------------------------------------------------------------------------
(* The operations.  Each keeps the invariant, and is a step of the log or  *)
(* leaves it alone.                                                        *)

LogUnchanged == UNCHANGED <<Statuses, Revisions, Logs>>

LogStep == Versioned!Next \/ LogUnchanged

LEMMA DocumentsUnchanged ==
    ASSUME UNCHANGED <<rows, versions>>
    PROVE  LogUnchanged
  BY DEF LogUnchanged, Statuses, Revisions, Logs, StatusOf, RevisionOf, Log, StatusAt

LEMMA LogInit == KnowledgeInit => Versioned!Init
  <1> SUFFICES ASSUME KnowledgeInit PROVE Versioned!Init
    OBVIOUS
  <1>1. ASSUME NEW d \in Documents
        PROVE  StatusOf(d) = "absent" /\ RevisionOf(d) = 0 /\ Log(d) = <<>>
    <2>1. StatusOf(d) = "absent" /\ RevisionOf(d) = 0
      BY DEF KnowledgeInit, StatusOf, RevisionOf
    <2>2. 1..Cardinality(versions[d]) = {}
      BY FS_EmptySet DEF KnowledgeInit
    <2> QED
      BY <2>1, <2>2 DEF Log
  <1>2. /\ Statuses = [d \in Documents |-> "absent"]
        /\ Revisions = [d \in Documents |-> 0]
        /\ Logs = [d \in Documents |-> <<>>]
    BY <1>1 DEF Statuses, Revisions, Logs
  <1> QED
    BY <1>2 DEF Versioned!Init

\* Callers that are somewhere else, with no document written.
LEMMA CallersMove ==
    ASSUME KInv, UNCHANGED <<rows, versions>>, calls' \in [Callers -> Call],
           \A c \in Callers : CallOK(calls'[c])
    PROVE  KInv' /\ LogStep
  <1>1. KnowledgeTypeOK'
    BY DEF KInv, KnowledgeTypeOK
  <1>2. \A d \in Documents : Kept(d)'
    BY DEF KInv, Kept
  <1>3. \A c \in Callers : CallOK(calls[c])'
    BY DEF CallOK, Known
  <1> QED
    BY <1>1, <1>2, <1>3, DocumentsUnchanged DEF KInv, LogStep

LEMMA BecomeStep ==
    ASSUME KInv, NEW c \in Callers, NEW call \in Call, Become(c, call), CallOK(call)
    PROVE  KInv' /\ LogStep
  <1>1. calls \in [Callers -> Call] /\ UNCHANGED <<rows, versions>>
    BY DEF KInv, KnowledgeTypeOK, Become
  <1>2. calls' \in [Callers -> Call] /\ \A x \in Callers : calls'[x] \in {calls[x], call}
    BY <1>1 DEF Become
  <1>3. \A x \in Callers : CallOK(calls'[x])
    BY <1>2 DEF KInv
  <1> QED
    BY <1>1, <1>2, <1>3, CallersMove

LEMMA ImportedType ==
    ASSUME NEW c, NEW call \in Call
    PROVE  LET next == Imported(c, call)
           IN  /\ next \in Call /\ next.copy = None /\ next.step \in {"walk", "ended"}
               /\ next.marks \in {call.marks, {}}
               /\ next.step = "walk" => next.alone = call.alone /\ next.seen = call.seen
  <1>1. CASE c \in People
    BY <1>1, NoCallType DEF Imported
  <1>2. CASE c \notin People
    <2> DEFINE next == [call EXCEPT !.step = "walk", !.source = None, !.copy = None]
    <2>1. Imported(c, call) = next
      BY <1>2 DEF Imported
    <2>2. /\ next \in Call /\ next.copy = None /\ next.step = "walk" /\ next.marks = call.marks
          /\ next.alone = call.alone /\ next.seen = call.seen
      BY DEF Call
    <2> QED
      BY <2>1, <2>2
  <1> QED
    BY <1>1, <1>2

\* A copy that can be written is the row: whoever has an older one is refused.
LEMMA StaleIsRefused ==
    ASSUME KInv, NEW m, Known(m), NEW row, row.version = m.row.version + 1,
           KeyFree(m.document, row)
    PROVE  /\ rows[m.document] # None
           /\ rows[m.document].version = m.row.version
           /\ rows[m.document].status = m.row.status
           /\ rows[m.document].content = m.row.content
  <1> DEFINE d == m.document
             v == VersionFromDocument(m.row)
  <1>1. /\ d \in Documents /\ m.row \in Row /\ v \in versions[d] /\ v.version = m.row.version
        /\ v.status = m.row.status /\ v.content = m.row.content
    BY VersionType DEF Known, Copy
  <1>2. rows[d] # None
    BY <1>1 DEF KInv, Kept
  <1>3. rows[d] \in Row
    BY <1>1, <1>2 DEF KInv, KnowledgeTypeOK
  <1>4. RevisionOf(d) = rows[d].version
    BY <1>2 DEF RevisionOf
  <1>5. m.row.version \in 1..RevisionOf(d) /\ RevisionOf(d) \in Nat
    BY <1>1, RevisionIsCardinality
  <1>6. m.row.version + 1 \notin 1..RevisionOf(d)
    BY <1>1, RevisionIsCardinality DEF KeyFree
  <1>7. m.row.version = rows[d].version
    BY <1>4, <1>5, <1>6
  <1> DEFINE w == VersionFromDocument(rows[d])
  <1>8. /\ w \in versions[d] /\ w.version = rows[d].version
        /\ w.status = rows[d].status /\ w.content = rows[d].content
    BY <1>1, <1>2, <1>3, VersionType DEF KInv, Kept
  <1>9. v = w
    BY <1>1, <1>7, <1>8, RevisionIsCardinality
  <1> QED
    BY <1>1, <1>2, <1>7, <1>8, <1>9

\* Import and the marking write a copy that was changed a little.
LEMMA CopyStep ==
    ASSUME KInv, NEW c \in Callers, NEW m, Known(m), NEW content \in Contents,
           NEW status \in {"active", "deleted"},
           status = "deleted" => m.row.status = "active",
           NEW row,
           row = [m.row EXCEPT !.content = content, !.status = status,
                               !.version = m.row.version + 1],
           NEW call \in Call, Write(c, m.document, row, call),
           call.step # "store", call.marks # {} => call.step = "mark",
           call.copy = None, call.marks \subseteq calls[c].marks
    PROVE  KInv' /\ Versioned!Next
  <1>1. m.document \in Documents /\ m.row \in Row
    BY DEF Known, Copy
  <1>2. row.version = m.row.version + 1 /\ row.status = status
    BY <1>1 DEF Row
  <1>3. /\ rows[m.document] # None /\ rows[m.document].version = m.row.version
        /\ rows[m.document].status = m.row.status
    BY <1>2, StaleIsRefused DEF Write
  <1>4. row.version \in 1..MaxVersion
    <2>1. m.row.version \in 1..MaxVersion
      BY <1>1 DEF Row
    <2>2. row.version <= MaxVersion
      BY DEF Write
    <2> QED
      BY <1>2, <2>1, <2>2, KnowledgeConstants
  <1>5. row \in Row
    BY <1>1, <1>2, <1>4 DEF Row
  <1>6. row.version = RevisionOf(m.document) + 1 /\ StatusOf(m.document) = m.row.status
    BY <1>2, <1>3 DEF RevisionOf, StatusOf
  <1>7. <<m.row.status, status>> \in DocumentMoves
    <2>1. m.row.status \in {"active", "deleted"}
      BY <1>1 DEF Row
    <2> QED
      BY <2>1 DEF DocumentMoves
  <1>8. /\ <<StatusOf(m.document), row.status>> \in DocumentMoves
        /\ row.source = rows[m.document].source
    <2>1. row.source = m.row.source
      BY <1>1 DEF Row
    <2> QED
      BY <1>2, <1>6, <1>7, <2>1 DEF Known
  <1> QED
    BY <1>1, <1>5, <1>6, <1>8, WriteStep

LEMMA SaveStep ==
    ASSUME KInv, NEW c \in Callers, Save(c)
    PROVE  KInv' /\ Versioned!Next
  <1> DEFINE call == calls[c]
             row == NewDocument(call.source, call.files[call.source])
             next == Imported(c, call)
  <1>1. PICK d \in Documents : rows[d] = None /\ Write(c, d, row, next)
    BY DEF Save
  <1>2. /\ call \in Call /\ call.step = "store" /\ call.marks = {}
        /\ call.source \in Sources /\ call.files[call.source] \in Contents
    BY DEF Save, KInv, KnowledgeTypeOK, CallOK
  <1>3. row \in Row /\ row.version = 1 /\ row.status = "active"
    <2>1. row.version = 1 /\ row.status = "active"
      BY DEF NewDocument
    <2>2. 1 \in 1..MaxVersion
      BY <1>1, <2>1, KnowledgeConstants DEF Write
    <2> QED
      BY <1>2, <2>1, <2>2 DEF NewDocument, Row
  <1>4. RevisionOf(d) = 0 /\ StatusOf(d) = "absent"
    BY <1>1 DEF RevisionOf, StatusOf
  <1>5. row.version = RevisionOf(d) + 1 /\ <<StatusOf(d), row.status>> \in DocumentMoves
    BY <1>3, <1>4 DEF DocumentMoves
  <1>6. next \in Call /\ next.copy = None /\ next.step # "store" /\ next.marks = {}
    BY <1>2, ImportedType
  <1> HIDE DEF row, next
  <1> QED
    BY <1>1, <1>3, <1>5, <1>6, WriteStep

LEMMA UpdateStep ==
    ASSUME KInv, NEW c \in Callers, Update(c)
    PROVE  KInv' /\ Versioned!Next
  <1> DEFINE call == calls[c]
             m == call.copy
             content == call.files[call.source]
             row == [m.row EXCEPT !.content = content, !.status = "active",
                                  !.version = m.row.version + 1]
             next == Imported(c, call)
  <1>1. /\ call \in Call /\ call.step = "store" /\ call.marks = {}
        /\ Known(m) /\ content \in Contents
    BY DEF Update, KInv, KnowledgeTypeOK, CallOK
  <1>2. Write(c, m.document, row, next)
    BY DEF Update
  <1>3. next \in Call /\ next.copy = None /\ next.step # "store" /\ next.marks = {}
    BY <1>1, ImportedType
  <1> HIDE DEF next, m, content
  <1>4. row = [m.row EXCEPT !.content = content, !.status = "active",
                            !.version = m.row.version + 1]
    OBVIOUS
  <1> HIDE DEF row
  <1> QED
    BY <1>1, <1>2, <1>3, <1>4, CopyStep

LEMMA StoreFailsStep ==
    ASSUME KInv, NEW c \in Callers, StoreFails(c)
    PROVE  KInv' /\ LogStep
  <1> DEFINE next == Imported(c, calls[c])
             after == [next EXCEPT !.errors = TRUE]
  <1>1. calls[c] \in Call /\ calls[c].marks = {}
    BY DEF StoreFails, KInv, KnowledgeTypeOK, CallOK
  <1>2. next \in Call /\ next.copy = None /\ next.step # "store" /\ next.marks = {}
    BY <1>1, ImportedType
  <1>3. Become(c, after)
    BY DEF StoreFails
  <1> HIDE DEF next
  <1>4. /\ after \in Call /\ after.copy = None /\ after.step # "store" /\ after.marks = {}
    BY <1>2 DEF Call
  <1> HIDE DEF after
  <1> QED
    BY <1>3, <1>4, BecomeStep DEF CallOK

LEMMA StoringStep ==
    ASSUME KInv, NEW c \in Callers, Storing(c)
    PROVE  KInv' /\ LogStep
  BY SaveStep, UpdateStep, StoreFailsStep DEF Storing, LogStep

LEMMA MarkMissingStep ==
    ASSUME KInv, NEW c \in Callers, MarkMissing(c)
    PROVE  KInv' /\ LogStep
  <1> DEFINE call == calls[c]
  <1>1. PICK m \in call.marks :
           Write(c, m.document, [m.row EXCEPT !.status = "deleted", !.version = @ + 1],
                 [call EXCEPT !.marks = call.marks \ {m}])
    BY DEF MarkMissing
  <1> DEFINE next == [call EXCEPT !.marks = call.marks \ {m}]
             row == [m.row EXCEPT !.content = m.row.content, !.status = "deleted",
                                  !.version = m.row.version + 1]
  <1>2. call \in Call /\ Known(m) /\ m.row.status = "active" /\ call.step = "mark"
        /\ call.copy = None
    BY DEF KInv, KnowledgeTypeOK, CallOK
  <1>3. /\ next \in Call /\ next.copy = None /\ next.step = "mark"
        /\ next.marks \subseteq call.marks
    BY <1>2 DEF Call
  <1>4. m.row \in Row /\ m.row.content \in Contents
    BY <1>2 DEF Known, Copy, Row
  <1>5. row = [m.row EXCEPT !.status = "deleted", !.version = m.row.version + 1]
    BY <1>4 DEF Row
  <1>6. Write(c, m.document, row, next)
    BY <1>1, <1>5
  <1>7. row = [m.row EXCEPT !.content = m.row.content, !.status = "deleted",
                            !.version = m.row.version + 1]
    OBVIOUS
  <1> HIDE DEF row, next
  <1> QED
    BY <1>2, <1>3, <1>4, <1>6, <1>7, CopyStep DEF LogStep

LEMMA ListActiveStep ==
    ASSUME KInv, NEW c \in Callers, ListActive(c)
    PROVE  KInv' /\ LogStep
  <1> DEFINE call == calls[c]
             listed == {[document |-> d, row |-> rows[d]] : d \in Unseen(call.seen)}
             next == [call EXCEPT !.step = "mark", !.marks = listed]
  <1>1. call \in Call /\ call.step = "walk" /\ call.copy = None /\ Become(c, next)
    BY DEF ListActive, KInv, KnowledgeTypeOK, CallOK
  <1>2. ASSUME NEW m \in listed
        PROVE  Known(m) /\ m.row.status = "active" /\ m \in Copy
    <2>1. PICK d \in Unseen(call.seen) : m = [document |-> d, row |-> rows[d]]
      OBVIOUS
    <2>2. d \in Documents /\ rows[d] # None /\ rows[d].status = "active"
      BY DEF Unseen, Active, Existing
    <2>3. rows[d] \in Row /\ VersionFromDocument(rows[d]) \in versions[d]
      BY <2>2 DEF KInv, KnowledgeTypeOK, Kept
    <2> QED
      BY <2>1, <2>2, <2>3 DEF Known, Copy
  <1> HIDE DEF listed
  <1>3. next \in Call /\ next.step = "mark" /\ next.marks = listed /\ next.copy = None
    BY <1>1, <1>2 DEF Call
  <1> HIDE DEF next
  <1> QED
    BY <1>1, <1>2, <1>3, BecomeStep DEF CallOK

\* A call that has the content of a file and looks for the document of its source.
LEMMA FindStep ==
    ASSUME KInv, NEW c \in Callers, NEW s \in Sources, NEW call \in Call,
           call.files[s] \in Contents, call.marks = {}, Find(c, call, s)
    PROVE  KInv' /\ LogStep
  <1> DEFINE storing == [call EXCEPT !.step = "store", !.source = s]
             new == [storing EXCEPT !.copy = None]
  <1>1. /\ new \in Call /\ new.step = "store" /\ new.source = s /\ new.copy = None
        /\ new.files = call.files /\ new.marks = {}
    BY DEF Call
  <1> HIDE DEF new
  <1>2. CASE FindBySource(s) = {} /\ Become(c, new)
    BY <1>1, <1>2, BecomeStep DEF CallOK
  <1>3. ASSUME NEW d \in FindBySource(s),
               Become(c, Imported(c, call))
        PROVE  KInv' /\ LogStep
    <2> DEFINE next == Imported(c, call)
    <2>1. next \in Call /\ next.copy = None /\ next.step # "store" /\ next.marks = {}
      BY ImportedType
    <2> HIDE DEF next
    <2>2. Become(c, next)
      BY <1>3 DEF next
    <2> QED
      BY <2>1, <2>2, BecomeStep DEF CallOK
  <1>4. ASSUME NEW d \in FindBySource(s),
               Become(c, [storing EXCEPT !.copy = [document |-> d, row |-> rows[d]]])
        PROVE  KInv' /\ LogStep
    <2> DEFINE m == [document |-> d, row |-> rows[d]]
               next == [storing EXCEPT !.copy = m]
    <2>1. d \in Documents /\ rows[d] # None /\ rows[d].source = s
      BY DEF FindBySource, Existing
    <2>2. rows[d] \in Row /\ VersionFromDocument(rows[d]) \in versions[d]
      BY <2>1 DEF KInv, KnowledgeTypeOK, Kept
    <2>3. Known(m) /\ m.row.source = s
      BY <2>1, <2>2 DEF Known, Copy
    <2> HIDE DEF m
    <2>4. /\ next \in Call /\ next.step = "store" /\ next.source = s /\ next.copy = m
          /\ next.files = call.files /\ next.marks = {}
      BY <2>3 DEF Call, Known
    <2> HIDE DEF next
    <2>5. Become(c, next)
      BY <1>4 DEF next, m
    <2> QED
      BY <2>3, <2>4, <2>5, BecomeStep DEF CallOK
  <1> QED
    BY <1>2, <1>3, <1>4 DEF Find, new

LEMMA CreateStep ==
    ASSUME KInv, NEW c \in Callers, NEW s \in Sources, NEW content \in Contents,
           Create(c, s, content)
    PROVE  KInv' /\ LogStep
  <1> DEFINE next == [calls[c] EXCEPT !.files[s] = content, !.seen = {s},
                                      !.step = "store", !.source = s]
  <1>1. calls[c] \in Call /\ calls[c].step = "idle" /\ calls[c].marks = {}
        /\ calls[c].copy = None
    BY DEF Create, KInv, KnowledgeTypeOK, CallOK
  <1>2. /\ next \in Call /\ next.step = "store" /\ next.source = s /\ next.copy = None
        /\ next.files[s] = content /\ next.marks = {}
    BY <1>1 DEF Call
  <1>3. Become(c, Over) \/ Become(c, next)
    BY <1>1 DEF Create, Call
  <1> HIDE DEF next
  <1>4. CASE Become(c, Over)
    BY <1>4, NoCallType, NoCallOK, BecomeStep
  <1>5. CASE Become(c, next)
    BY <1>2, <1>5, BecomeStep DEF CallOK
  <1> QED
    BY <1>3, <1>4, <1>5

-----------------------------------------------------------------------------
(* What a caller knows that goes through its files.                        *)

\* There is an active document with what the call read of s.
Saved(call, s) ==
    \E d \in Active : rows[d].source = s /\ rows[d].content = call.files[s]

UnderWay(call) == call.step \in {"walk", "store", "mark"}

Walked(call) ==
    /\ \A s \in call.seen : s \notin call.todo
    /\ call.step = "store" => call.source \notin call.todo
    /\ call.step = "mark" => call.todo = {}

Stored(call) == \A s \in call.seen : Saved(call, s) \/ (call.step = "store" /\ call.source = s)

Marked(call) ==
    /\ \A m \in call.marks : m.row.source \notin call.seen
    /\ \A d \in Unseen(call.seen) : \E m \in call.marks : m.document = d

Done(call) ==
    /\ \A s \in call.seen : Saved(call, s)
    /\ \A d \in Active : rows[d].source \in call.seen

\* A caller takes a step and still has what it read and saw.
Keeps(old, next) ==
    /\ next.files = old.files /\ next.seen = old.seen /\ next.todo = old.todo
    /\ next.alone = old.alone

\* What storing the document of a file does: one row becomes active with what the
\* file held, a new one if there was none.
LEMMA StoreEffect ==
    ASSUME KInv, NEW c \in Callers, c \notin People, Save(c) \/ Update(c)
    PROVE  /\ calls[c].step = "store" /\ calls'[c].step = "walk"
           /\ Keeps(calls[c], calls'[c]) /\ calls'[c].errors = calls[c].errors
           /\ \E d \in Documents :
                 /\ (rows[d] = None) <=> (calls[c].copy = None)
                 /\ rows[d] # None => rows[d].source = calls[c].source
                 /\ rows'[d] \in Row /\ rows'[d].source = calls[c].source
                 /\ rows'[d].content = calls[c].files[calls[c].source]
                 /\ rows'[d].status = "active"
                 /\ \A e \in Documents : e # d => rows'[e] = rows[e]
  <1>1. PICK old, next : old = calls[c] /\ next = calls'[c]
    OBVIOUS
  <1>2. /\ old \in Call /\ old.step = "store" /\ CallOK(old)
        /\ rows \in [Documents -> Row \cup {None}]
    BY <1>1 DEF KInv, KnowledgeTypeOK, Save, Update
  <1>3. old.source \in Sources /\ old.files[old.source] \in Contents
    BY <1>2 DEF CallOK
  <1>4. ASSUME NEW d, NEW row, Write(c, d, row, Imported(c, old))
        PROVE  next.step = "walk" /\ Keeps(old, next) /\ next.errors = old.errors
    <2>1. next = [old EXCEPT !.step = "walk", !.source = None, !.copy = None]
      BY <1>1, <1>4 DEF Write, Imported
    <2> QED
      BY <1>2, <2>1 DEF Call, Keeps
  <1>5. CASE Save(c)
    <2>1. PICK d \in Documents :
             /\ rows[d] = None /\ old.copy = None
             /\ Write(c, d, NewDocument(old.source, old.files[old.source]), Imported(c, old))
      BY <1>1, <1>5 DEF Save
    <2>2. PICK row : row = NewDocument(old.source, old.files[old.source])
      OBVIOUS
    <2>3. row = [source |-> old.source, content |-> old.files[old.source],
                 status |-> "active", version |-> 1]
      BY <2>2 DEF NewDocument
    <2>4. row \in Row
      <3>1. 1 \in 1..MaxVersion
        BY <2>1, <2>2, <2>3, KnowledgeConstants DEF Write
      <3> QED
        BY <1>3, <2>3, <3>1 DEF Row
    <2>5. rows' = [rows EXCEPT ![d] = row]
      BY <2>1, <2>2 DEF Write
    <2>6. /\ rows'[d] = row /\ row.source = old.source /\ row.status = "active"
          /\ row.content = old.files[old.source]
          /\ \A e \in Documents : e # d => rows'[e] = rows[e]
      BY <1>2, <2>3, <2>5
    <2> QED
      BY <1>1, <1>2, <1>4, <2>1, <2>4, <2>6
  <1>6. CASE Update(c)
    <2>1. PICK d, row :
             /\ d = old.copy.document
             /\ row = [old.copy.row EXCEPT !.content = old.files[old.source],
                                           !.status = "active",
                                           !.version = old.copy.row.version + 1]
      OBVIOUS
    <2>2. old.copy # None /\ Write(c, d, row, Imported(c, old))
      BY <1>1, <1>6, <2>1 DEF Update
    <2>3. /\ d \in Documents /\ rows[d] # None /\ rows[d].source = old.source
          /\ old.copy.row \in Row /\ old.copy.row.source = old.source
      BY <1>2, <2>1, <2>2 DEF CallOK, Known, Copy
    <2>4. /\ row.source = old.source /\ row.content = old.files[old.source]
          /\ row.status = "active" /\ row.version = old.copy.row.version + 1
      BY <2>1, <2>3 DEF Row
    <2>5. row.version \in 1..MaxVersion
      <3>1. old.copy.row.version \in 1..MaxVersion /\ row.version <= MaxVersion
        BY <2>2, <2>3 DEF Row, Write
      <3> QED
        BY <2>4, <3>1, KnowledgeConstants
    <2>6. row \in Row
      BY <1>3, <2>1, <2>3, <2>5 DEF Row
    <2>7. rows' = [rows EXCEPT ![d] = row]
      BY <2>2 DEF Write
    <2>8. rows'[d] = row /\ \A e \in Documents : e # d => rows'[e] = rows[e]
      BY <1>2, <2>3, <2>7
    <2> QED
      BY <1>1, <1>2, <1>4, <2>2, <2>3, <2>4, <2>6, <2>8
  <1> QED
    BY <1>5, <1>6

\* What was stored stays stored, and the file of the step is.
LEMMA StoreKeeps ==
    ASSUME KInv, NEW c \in Callers, c \notin People, Save(c) \/ Update(c), Stored(calls[c])
    PROVE  Stored(calls[c])'
  <1>1. PICK old, next : old = calls[c] /\ next = calls'[c]
    OBVIOUS
  <1>2. old.step = "store" /\ Keeps(old, next) /\ Stored(old)
    BY <1>1, StoreEffect
  <1>3. PICK d \in Documents :
           /\ rows[d] # None => rows[d].source = old.source
           /\ rows'[d] \in Row /\ rows'[d].source = old.source
           /\ rows'[d].content = old.files[old.source] /\ rows'[d].status = "active"
           /\ \A e \in Documents : e # d => rows'[e] = rows[e]
    BY <1>1, StoreEffect
  <1>4. rows'[d] # None
    BY <1>3, NoneIsNoRow
  <1>5. ASSUME NEW s \in next.seen PROVE Saved(next, s)'
    <2>1. CASE s = old.source
      BY <1>2, <1>3, <1>4, <2>1 DEF Saved, Active, Existing, Keeps
    <2>2. CASE s # old.source
      <3>1. PICK e \in Active : rows[e].source = s /\ rows[e].content = old.files[s]
        BY <1>2, <2>2 DEF Stored, Saved, Keeps
      <3>2. e \in Documents /\ rows[e] # None /\ e # d
        BY <1>3, <2>2, <3>1 DEF Active, Existing
      <3>3. rows'[e] = rows[e]
        BY <1>3, <3>2
      <3> QED
        BY <1>2, <3>1, <3>2, <3>3 DEF Saved, Active, Existing, Keeps
    <2> QED
      BY <2>1, <2>2
  <1> QED
    BY <1>1, <1>5 DEF Stored

\* What marking a document does: one row that the caller has not seen is no longer
\* active.
LEMMA MarkEffect ==
    ASSUME KInv, NEW c \in Callers, MarkMissing(c)
    PROVE  /\ calls[c].step = "mark" /\ calls'[c].step = "mark"
           /\ Keeps(calls[c], calls'[c]) /\ calls'[c].errors = calls[c].errors
           /\ \E m \in calls[c].marks :
                 /\ calls'[c].marks = calls[c].marks \ {m}
                 /\ m.document \in Documents /\ rows[m.document] # None
                 /\ rows[m.document].source = m.row.source
                 /\ rows'[m.document].source = m.row.source
                 /\ rows'[m.document].status = "deleted"
                 /\ \A e \in Documents : e # m.document => rows'[e] = rows[e]
  <1>1. PICK old, next : old = calls[c] /\ next = calls'[c]
    OBVIOUS
  <1>2. PICK m \in old.marks :
           Write(c, m.document, [m.row EXCEPT !.status = "deleted", !.version = @ + 1],
                 [old EXCEPT !.marks = old.marks \ {m}])
    BY <1>1 DEF MarkMissing
  <1>3. /\ old \in Call /\ CallOK(old) /\ rows \in [Documents -> Row \cup {None}]
    BY <1>1 DEF KInv, KnowledgeTypeOK
  <1>4. /\ old.step = "mark" /\ m.row \in Row /\ m.document \in Documents
        /\ rows[m.document] # None /\ rows[m.document].source = m.row.source
    BY <1>3 DEF CallOK, Known, Copy
  <1>5. next = [old EXCEPT !.marks = old.marks \ {m}]
    BY <1>1, <1>2 DEF Write
  <1>6. /\ next.step = "mark" /\ Keeps(old, next) /\ next.errors = old.errors
        /\ next.marks = old.marks \ {m}
    BY <1>3, <1>4, <1>5 DEF Call, Keeps
  <1>7. PICK row : row = [m.row EXCEPT !.status = "deleted", !.version = @ + 1]
    OBVIOUS
  <1>8. row.source = m.row.source /\ row.status = "deleted"
    BY <1>4, <1>7 DEF Row
  <1>9. rows' = [rows EXCEPT ![m.document] = row]
    BY <1>2, <1>7 DEF Write
  <1>10. rows'[m.document] = row /\ \A e \in Documents : e # m.document => rows'[e] = rows[e]
    BY <1>3, <1>4, <1>9
  <1> QED
    BY <1>1, <1>4, <1>6, <1>8, <1>10

LEMMA MarkKeeps ==
    ASSUME KInv, NEW c \in Callers, MarkMissing(c), Stored(calls[c]), Marked(calls[c])
    PROVE  Stored(calls[c])' /\ Marked(calls[c])'
  <1>1. PICK old, next : old = calls[c] /\ next = calls'[c]
    OBVIOUS
  <1>2. /\ old.step = "mark" /\ next.step = "mark" /\ Keeps(old, next)
        /\ Stored(old) /\ Marked(old)
    BY <1>1, MarkEffect
  <1>3. PICK m \in old.marks :
           /\ next.marks = old.marks \ {m} /\ m.document \in Documents
           /\ rows[m.document].source = m.row.source
           /\ rows'[m.document].status = "deleted"
           /\ \A e \in Documents : e # m.document => rows'[e] = rows[e]
    BY <1>1, MarkEffect
  <1>4. m.row.source \notin old.seen
    BY <1>2 DEF Marked
  <1>5. /\ Active' \subseteq Active \ {m.document}
        /\ \A e \in Active : e # m.document => e \in Active' /\ rows'[e] = rows[e]
    BY <1>3 DEF Active, Existing
  <1>6. ASSUME NEW s \in next.seen PROVE Saved(next, s)'
    <2>1. PICK e \in Active : rows[e].source = s /\ rows[e].content = old.files[s]
      BY <1>2 DEF Stored, Saved, Keeps
    <2>2. e # m.document
      BY <1>2, <1>3, <1>4, <2>1 DEF Keeps
    <2> QED
      BY <1>2, <1>5, <2>1, <2>2 DEF Saved, Keeps
  <1>7. \A n \in next.marks : n.row.source \notin next.seen
    BY <1>2, <1>3 DEF Marked, Keeps
  <1>8. ASSUME NEW e \in Unseen(next.seen)' PROVE \E n \in next.marks : n.document = e
    <2>1. e \in Active' /\ rows'[e].source \notin next.seen
      BY DEF Unseen
    <2>2. e \in Active /\ e # m.document
      BY <1>5, <2>1
    <2>3. rows'[e] = rows[e]
      BY <1>5, <2>2
    <2>4. e \in Unseen(old.seen)
      BY <1>2, <2>1, <2>2, <2>3 DEF Unseen, Keeps
    <2>5. PICK n \in old.marks : n.document = e
      BY <1>2, <2>4 DEF Marked
    <2> QED
      BY <1>3, <2>2, <2>5
  <1> QED
    BY <1>1, <1>6, <1>7, <1>8 DEF Stored, Marked
=============================================================================
