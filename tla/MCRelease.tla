------------------------------ MODULE MCRelease ------------------------------
(* Small instances of Release for TLC.                                      *)
EXTENDS Release, TLC

Symmetry == Permutations(People) \cup Permutations(Digests) \cup Permutations(Copies)

\* No action reads the log, so states that differ in it alone behave alike.
WithoutLog == <<requests, receipts, calls, runs>>

\* Bound of the run with two releases: a production release is followed until it is
\* deployed, with one webhook to spare, a staging release until it is rolled
\* back, and one trigger is under way at a time.
Bound ==
    /\ \A r \in Production : requests[r].revision <= 6
    /\ \A r \in Staging : requests[r].revision <= 9
    /\ \A c, d \in calls : c = d
=============================================================================
