------------------------------ MODULE MCClients ------------------------------
(* Instances of Clients for TLC. *)
EXTENDS Clients, TLC

CONSTANTS n1, n2, n3

MCNode == {n1, n2, n3}

TermsWon == {e.term : e \in elected}

\* Bounds on elections: a term is only left behind once somebody has led it,
\* a candidate that cannot win any more has no future to explore, no vote call
\* outlives its election, and a request reaches its peer before an election or
\* after it (with one call at a time that comes to the same as in its midst).
QuietElections ==
    /\ 1..(topTerm - 1) \subseteq TermsWon
    /\ \A i \in Node : role[i] = "Candidate" =>
          /\ campaign[i].phase = "counting"
          /\ IsMajority(campaign[i].granted \cup campaign[i].waiting)
    /\ \A c \in voteCalls : /\ campaign[c.from].phase = "counting"
                            /\ ~IsMajority(campaign[c.from].granted)
    /\ voteCalls # {} => requests = {}

\* Bounds that lose nothing the properties speak of: a client that got an
\* error, a read that is over, a read that began before anything was
\* acknowledged and a round whose node has lost its leadership (it would take
\* a third term to win it back) have no more to show.
LiveCalls ==
    /\ \A c \in Command : write[c].phase # "failed"
    /\ read.phase \notin {"done", "failed"}
    /\ read.phase # "new" => read.must # {}
    /\ read.phase = "round" => role[read.at] = "Leader"

\* Bound: once the round has begun nobody campaigns (in two terms its index is
\* at stake only if the election came before it), and its probes have the
\* network to themselves.
QuietRead ==
    /\ read.phase \notin {"new", "asking"} =>
          /\ voteCalls = {}
          /\ \A i \in Node : role[i] # "Candidate"
    /\ read.phase = "round" => \A m \in requests \cup replies : m.kind = "probe"

ClientBound == QuietElections /\ LiveCalls /\ QuietRead

\* What the future of a state depends on: next and match indexes count only
\* for a leader, the names of leaders only while a client has yet to use them,
\* and who won which election is only ever reported.
MCClientView ==
    <<currentTerm, votedFor, role, disk, campaign, voteCalls, TermsWon,
      log, commitIndex, applied, chosen, requests, replies, write, read,
      IF read.phase = "new" \/ \E c \in Command : write[c].phase = "new"
      THEN leaderID ELSE <<>>,
      [i \in Node |-> IF role[i] = "Leader" THEN <<nextIndex[i], matchIndex[i]>>
                                            ELSE <<>>]>>

MCSymmetry == Permutations(MCNode)
=============================================================================
