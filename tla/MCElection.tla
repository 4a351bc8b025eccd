----------------------------- MODULE MCElection ------------------------------
(* Instances of Election for TLC. *)
EXTENDS Election, TLC

CONSTANTS n1, n2, n3

MCNode == {n1, n2, n3}

\* The log always looks empty: whom the Election Restriction refuses is left
\* to the runs of Raft.
MCOneLastEntry == {[index |-> 0, term |-> 0]}

MCSymmetry == Permutations(MCNode)
=============================================================================
