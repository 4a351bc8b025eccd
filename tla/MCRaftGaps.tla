----------------------------- MODULE MCRaftGaps ------------------------------
(* The instance of RaftGaps for TLC. *)
EXTENDS RaftGaps, TLC

CONSTANTS n1, n2, n3

MCNode == {n1, n2, n3}

Terms(l) == [k \in DOMAIN l |-> l[k].term]

\* Bounds that lead TLC to a long counterexample.  n1 reads term 1 for a
\* proposal and loses its leadership; n2 leads term 2 alone; n3 leads term 3
\* and commits on n1; n1 appends its proposal; n2 stands in term 4.
ProposeGapScript ==
    /\ 1..(topTerm - 1) \subseteq {e.term : e \in elected}
    /\ \A i \in Node : role[i] = "Candidate" => <<n1, n2, n3, n2>>[currentTerm[i]] = i
    /\ \A m \in requests : m.from = n3 /\ m.to = n1
    /\ Terms(log[n1]) \in {<<>>, <<3>>, <<3, 1>>}
    /\ Terms(log[n2]) \in {<<>>, <<2>>}
    /\ Terms(log[n3]) \in {<<>>, <<3>>}
=============================================================================
