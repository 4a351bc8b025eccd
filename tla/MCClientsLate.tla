---------------------------- MODULE MCClientsLate ----------------------------
(* The instance of Clients in which TLC follows one long history. *)
EXTENDS Clients, TLC

CONSTANTS n1, n2, n3, n4, n5

MCNode == {n1, n2, n3, n4, n5}

Terms(l) == [k \in DOMAIN l |-> l[k].term]

\* Who campaigns in each term, who may vote for it, and which terms a node
\* gets to see: nobody else takes part, and a call to anybody else has failed.
Elections(stands, votes, sees) ==
    /\ 1..(topTerm - 1) \subseteq {e.term : e \in elected}
    /\ \A i \in Node : /\ currentTerm[i] \in sees[i] \cup {0}
                       /\ role[i] = "Candidate" => stands[currentTerm[i]] = i
    /\ \A c \in voteCalls : c.state = "answered" => c.to \in votes[c.term]
    /\ \A i \in Node : campaign[i].phase = "counting" =>
          votes[campaign[i].term] \subseteq campaign[i].granted \cup campaign[i].waiting

\* Bounds that lead TLC to a counterexample of more than 30 steps.  n1 leads
\* term 1 and stores its no-op and w on n3, whose reply is slow.  n4 leads term
\* 2 and replaces both on n1 by its own no-op.  n1 leads term 3, puts its no-op
\* where w was, stores it on n2, and gets the reply of n3.
LateAckScript ==
    /\ Elections(<<n1, n4, n1>>, <<{n3, n4}, {n2, n5}, {n2, n3}>>,
                 n1 :> 1..3 @@ n2 :> 2..3 @@ n3 :> {1, 3} @@ n4 :> 1..2 @@ n5 :> {2})
    /\ \A m \in requests :
          <<m.from, m.to, m.term>> \in {<<n1, n3, 1>>, <<n4, n1, 2>>, <<n1, n2, 3>>}
    /\ \A c \in Command : write[c].phase # "failed" /\ write[c].index # 1 /\ write[c].at # n4
    /\ topTerm > 1 => Terms(log[n3]) = <<1, 1>> /\ \A c \in Command : write[c].phase # "new"
    /\ read.phase = "new"
    /\ topTerm > 2 => Terms(log[n1]) \in {<<2>>, <<2, 3>>}
=============================================================================
