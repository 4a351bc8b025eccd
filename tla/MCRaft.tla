------------------------------- MODULE MCRaft --------------------------------
(* Instances of Raft for TLC. *)
EXTENDS Raft, TLC

CONSTANTS n1, n2, n3

MCNode == {n1, n2, n3}

TermsWon == {e.term : e \in elected}

\* Bounds: a term is only left behind once somebody has led it, a candidate
\* that cannot win any more has no future to explore, and a request that is
\* not late reaches its peer before an election or after it (with one call at
\* a time that comes to the same as in the midst of it).
EveryTermIsWon ==
    /\ 1..(topTerm - 1) \subseteq TermsWon
    /\ voteCalls # {} => \A m \in requests : ~m.waited
    /\ \A i \in Node : role[i] = "Candidate" =>
          /\ campaign[i].phase = "counting"
          /\ IsMajority(campaign[i].granted \cup campaign[i].waiting)

\* Bounds for three terms: no vote call outlives its election, and a state
\* file that could not be saved is the subject of the runs of Election.
QuietElections ==
    /\ EveryTermIsWon
    /\ \A c \in voteCalls : /\ campaign[c.from].phase = "counting"
                            /\ ~IsMajority(campaign[c.from].granted)
    /\ \A i \in Node : disk[i] = [term |-> currentTerm[i], vote |-> votedFor[i]]

\* Bounds for four terms: the fourth one only comes when two nodes have led in
\* turn, so that what the first counts in the third may be overwritten in the
\* fourth; what its leader has is all that matters of it.
Rivals ==
    /\ QuietElections
    /\ topTerm = 4 =>
          /\ \A i \in Node : currentTerm[i] = 4 /\ role[i] \in {"Candidate", "Leader"} =>
                \E e \in elected : e.term = 2 /\ e.leader = i
          /\ \E e, f \in elected : e.term = 1 /\ f.term = 3 /\ e.leader = f.leader
          /\ requests = {} /\ 4 \notin TermsWon

\* Next and match indexes count only for a leader: winElection resets them.
LeadersIndexes ==
    [i \in Node |-> IF role[i] = "Leader" THEN <<nextIndex[i], matchIndex[i]>>
                                          ELSE <<>>]

\* What the future of a state depends on; the name of the leader and who won
\* which election are only ever reported.
MCView ==
    <<currentTerm, votedFor, role, disk, campaign, voteCalls, TermsWon,
      log, commitIndex, applied, chosen, requests, replies, LeadersIndexes>>

\* The same where a bound asks who won.
MCWinnersView == <<MCView, {<<e.term, e.leader>> : e \in elected}>>

MCSymmetry == Permutations(MCNode)
=============================================================================
