------------------------------ MODULE MCSched ------------------------------
(***************************************************************************)
(* Model-checking instances of Sched.                                      *)
(***************************************************************************)
EXTENDS Sched

\* One load, two LWTs, and three retargetings: the third goes by the rank that
\* a race of the first two has left wrong.
OneLoad == {[loads |-> 1, ios |-> 2, moves |-> 3]}

\* One load that is retargeted once more after the race has lost it, or two
\* loads that may share a stream.
OneOrTwoLoads == { [loads |-> 1, ios |-> 1, moves |-> 4],
                   [loads |-> 2, ios |-> 1, moves |-> 1] }

\* A load with one LWT that stays where it is.
OneLwt == {[loads |-> 1, ios |-> 1, moves |-> 0]}

\* A load without LWTs, retargeted twice.
TwoMoves == {[loads |-> 1, ios |-> 0, moves |-> 2]}
=============================================================================
