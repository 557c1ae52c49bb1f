----------------------------- MODULE RevisionLog -----------------------------
(***************************************************************************)
(* What a store with optimistic locking promises its callers: rows with a  *)
(* status and a revision, and beside each row a log that gains one event   *)
(* for every revision.  An event says which status the row left and which  *)
(* it took, and no event is ever changed, dropped or out of order.         *)
(***************************************************************************)
EXTENDS Naturals, Sequences

CONSTANTS Rows,     \* ids of rows
          Moves     \* the pairs of statuses a row may go between; "absent" is
                    \* the status of a row that does not exist yet

VARIABLES status, revision, history

Init ==
    /\ status = [r \in Rows |-> "absent"]
    /\ revision = [r \in Rows |-> 0]
    /\ history = [r \in Rows |-> <<>>]

\* One write: the event carries the number of the revision it made.
Record(r, event) ==
    /\ event.from = status[r]
    /\ event.sequence = revision[r] + 1
    /\ <<event.from, event.to>> \in Moves
    /\ status' = [status EXCEPT ![r] = event.to]
    /\ revision' = [revision EXCEPT ![r] = event.sequence]
    /\ history' = [history EXCEPT ![r] = Append(@, event)]

\* The event is the one the history gained.
Next == \E r \in Rows : Len(history'[r]) > 0 /\ Record(r, history'[r][Len(history'[r])])

Spec == Init /\ [][Next]_<<status, revision, history>>
=============================================================================
