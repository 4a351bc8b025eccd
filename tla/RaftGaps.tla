------------------------------ MODULE RaftGaps -------------------------------
(***************************************************************************)
(* Module Raft with the gap of Propose open: it reads the term under n.mu, *)
(* releases the lock, and appends to the log with that term afterwards.    *)
(***************************************************************************)
EXTENDS Raft

VARIABLE proposing   \* the terms of Propose calls between the two

gapVars == <<raftVars, proposing>>

GapInit == Init /\ proposing = [i \in Node |-> {}]

\* Propose has read the term ...
ProposeCheck(i) ==
    /\ role[i] = "Leader"
    /\ proposing' = [proposing EXCEPT ![i] = @ \cup {currentTerm[i]}]
    /\ UNCHANGED raftVars

\* ... and appends whatever the node is by then.
ProposeAppend(i, term, cmd) ==
    /\ term \in proposing[i]
    /\ AppendToLog(i, term, cmd)
    /\ proposing' = [proposing EXCEPT ![i] = @ \ {term}]
    /\ UNCHANGED <<electionVars, leaderVars, applyVars, callVars>>

GapNext ==
    \/ /\ Background \/ \E r \in replies : ReceiveReply(r)
       /\ UNCHANGED proposing
    \/ \E i \in Node : \/ Restart(i) /\ proposing' = [proposing EXCEPT ![i] = {}]
                       \/ ProposeCheck(i)
                       \/ \E t \in proposing[i], cmd \in Command : ProposeAppend(i, t, cmd)

GapSpec == GapInit /\ [][GapNext]_gapVars
=============================================================================
