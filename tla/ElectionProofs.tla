---------------------------- MODULE ElectionProofs ---------------------------
(***************************************************************************)
(* Proofs about module Election, for every cluster, every bound and every  *)
(* set of faults, as long as the gap in probe stays closed.                *)
(*                                                                         *)
(* The argument: a vote, once a candidate may count it, binds the voter in *)
(* memory and on disk (Bound).  No step of anybody releases a binding, and *)
(* a step that creates a vote finds the voter bound to nobody else.  Hence *)
(* two majorities of one term share a voter who voted for both winners,    *)
(* which makes them the same node.                                         *)
(***************************************************************************)
EXTENDS Election, FiniteSetTheorems, TLAPS

\* Node v cannot vote for anyone but c in term t any more, not even after a
\* restart from its state file.
Bound(v, t, c) ==
    /\ disk[v].term > t \/ disk[v] = [term |-> t, vote |-> c]
    /\ currentTerm[v] > t \/ (currentTerm[v] = t /\ votedFor[v] = c)

\* Somewhere the vote of v for c in term t counts, or did.
Counted(v, t, c) ==
    \/ \E r \in voteCalls : r.from = c /\ r.to = v /\ r.term = t /\ r.granted
    \/ /\ campaign[c].phase = "counting"
       /\ campaign[c].term = t
       /\ v \in campaign[c].granted
    \/ \E e \in elected : e.term = t /\ e.leader = c /\ v \in e.voters

VotesBind == \A v, c \in Node, t \in Terms : Counted(v, t, c) => Bound(v, t, c)

OneVotePerTerm ==
    \A v, c, d \in Node, t \in Terms :
        Counted(v, t, c) /\ Counted(v, t, d) => c = d

ElectedByMajority == \A e \in elected : IsMajority(e.voters)

\* The state file is behind the memory, never ahead of it and never at odds
\* with a vote of the same term.
DiskBehind ==
    \A i \in Node :
        \/ disk[i].term < currentTerm[i]
        \/ disk[i].term = currentTerm[i] /\ disk[i].vote \in {None, votedFor[i]}

NoProbes == \A i \in Node : probes[i] = {}

IndInv ==
    /\ TypeOK
    /\ NoProbes
    /\ VotesBind
    /\ OneVotePerTerm
    /\ ElectedByMajority
    /\ DiskBehind

-----------------------------------------------------------------------------
\* Any two majorities of the cluster share a node (Config.Majority).
LEMMA QuorumsIntersect ==
    ASSUME NEW P \in SUBSET Node, NEW Q \in SUBSET Node,
           IsMajority(P), IsMajority(Q)
    PROVE  \E v \in Node : v \in P /\ v \in Q
  <1>1. IsFiniteSet(Node) /\ Cardinality(Node) \in Nat
    BY ClusterAssumption, FS_CardinalityType
  <1>2. IsFiniteSet(P) /\ IsFiniteSet(Q)
    BY <1>1, FS_Subset
  <1>3. Cardinality(P) \in Nat /\ Cardinality(Q) \in Nat
    BY <1>2, FS_CardinalityType
  <1>4. Cardinality(P) + Cardinality(Q) > Cardinality(Node)
    BY <1>1, <1>3 DEF IsMajority, Majority, ClusterSize
  <1>5. P \cap Q # {}
    BY <1>1, <1>4, FS_MajoritiesIntersect
  <1>6. QED BY <1>5

\* What Peers(i) is a set of.
LEMMA PeersAreNodes == \A i \in Node : Peers(i) \subseteq Node /\ i \notin Peers(i)
  BY DEF Peers

-----------------------------------------------------------------------------
\* The initial state has the types the declarations say.
LEMMA InitTypeOK == Init => TypeOK
  BY ElectionAssumption DEF Init, TypeOK, Terms, PersistentState, Campaigns, NoCampaign

\* Both outcomes of a Save leave a well-typed state file.
LEMMA SaveType ==
    ASSUME TypeOK, NEW i \in Node, NEW t \in Terms, NEW v \in Node \cup {None},
           Saved(i, t, v) \/ SaveFails(i, t, v)
    PROVE  disk' \in [Node -> PersistentState]
  BY DEF TypeOK, Saved, SaveFails, PersistentState

\* setTermLocked leaves the memory well typed.
LEMMA EnterTermType ==
    ASSUME TypeOK, NEW i \in Node, NEW t \in Terms, EnterTerm(i, t)
    PROVE  /\ currentTerm' \in [Node -> Terms]
           /\ votedFor' \in [Node -> Node \cup {None}]
           /\ role' \in [Node -> {"Follower", "Candidate", "Leader"}]
           /\ leaderID' \in [Node -> Node \cup {None}]
  BY DEF TypeOK, EnterTerm

\* setTermLocked with its save leaves memory and state file well typed.
LEMMA SetTermType ==
    ASSUME TypeOK, NEW i \in Node, NEW t \in Terms, SetTerm(i, t)
    PROVE  /\ currentTerm' \in [Node -> Terms]
           /\ votedFor' \in [Node -> Node \cup {None}]
           /\ role' \in [Node -> {"Follower", "Candidate", "Leader"}]
           /\ leaderID' \in [Node -> Node \cup {None}]
           /\ disk' \in [Node -> PersistentState]
  BY SaveType, EnterTermType DEF SetTerm

\* Counting an answer keeps the candidate's local variables in their type.
LEMMA TallyType ==
    ASSUME TypeOK, NEW c \in voteCalls, NEW ok \in BOOLEAN, Tally(c.from, c, ok)
    PROVE  campaign' \in [Node -> Campaigns]
  <1>1. c.from \in Node /\ c.to \in Node
    BY DEF TypeOK, VoteCalls
  <1>2. NoCampaign \in Campaigns
    BY ElectionAssumption DEF NoCampaign, Campaigns, Terms
  <1>3. QED
    BY <1>1, <1>2, SMTT(20) DEF TypeOK, Tally, Campaigns

\* A reply is a well-typed call.
LEMMA AnswerType ==
    ASSUME TypeOK, NEW c \in voteCalls, NEW t \in Terms, NEW ok \in BOOLEAN,
           Answer(c, t, ok)
    PROVE  voteCalls' \in SUBSET VoteCalls /\ \A d \in voteCalls' : d.from # d.to
  BY DEF TypeOK, Answer, VoteCalls

\* campaign, with or without a saved candidacy, keeps the types.
LEMMA CampaignType ==
    ASSUME TypeOK, NEW i \in Node, Campaign(i)
    PROVE  TypeOK'
  <1> DEFINE t == currentTerm[i] + 1
  <1>1. t \in Terms /\ currentTerm[i] \in Terms /\ topTerm \in Terms
    BY ElectionAssumption DEF TypeOK, Campaign, Terms
  <1>2. /\ currentTerm' \in [Node -> Terms]
        /\ votedFor' \in [Node -> Node \cup {None}]
        /\ role' \in [Node -> {"Follower", "Candidate", "Leader"}]
        /\ leaderID' \in [Node -> Node \cup {None}]
        /\ topTerm' \in Terms
    BY <1>1 DEF TypeOK, Campaign, StandForElection
  <1>3. disk' \in [Node -> PersistentState]
    BY <1>1, SaveType DEF Campaign
  <1>4. VoteRequests(i, t) \in SUBSET VoteCalls /\ \A d \in VoteRequests(i, t) : d.from # d.to
    <2>1. 0 \in Terms /\ last[i] \in LastEntry
      BY ElectionAssumption DEF TypeOK, Terms
    <2>2. ASSUME NEW d \in VoteRequests(i, t)
          PROVE  d \in VoteCalls /\ d.from # d.to
      <3>1. PICK p \in Peers(i) :
              d = [from |-> i, to |-> p, term |-> t, last |-> last[i], state |-> "sent",
                   respTerm |-> 0, granted |-> FALSE]
        BY <2>2 DEF VoteRequests
      <3>2. p \in Node /\ p # i
        BY PeersAreNodes
      <3> HIDE DEF t
      <3>3. QED
        BY <1>1, <2>1, <3>1, <3>2 DEF VoteCalls
    <2>3. QED
      BY <2>2
  <1>5. voteCalls' \in SUBSET VoteCalls /\ \A d \in voteCalls' : d.from # d.to
    BY <1>4 DEF TypeOK, Campaign
  <1>6. campaign' \in [Node -> Campaigns]
    BY <1>1, PeersAreNodes DEF TypeOK, Campaign, Campaigns
  <1>7. QED
    BY <1>2, <1>3, <1>5, <1>6 DEF TypeOK, Campaign

\* HandleRequestVote keeps the types whichever rule decides.
LEMMA HandleRequestVoteType ==
    ASSUME TypeOK, NEW c \in voteCalls, HandleRequestVote(c)
    PROVE  TypeOK'
  <1>1. c.from \in Node /\ c.to \in Node /\ c.term \in Terms /\ currentTerm[c.to] \in Terms
    BY DEF TypeOK, VoteCalls
  <1>2. 0 \in Terms
    BY ElectionAssumption DEF Terms
  <1>3. UNCHANGED <<last, campaign, probes, history>>
    BY DEF HandleRequestVote
  <1>4. CASE GrantVote(c.to, c)
    <2>1. /\ currentTerm' \in [Node -> Terms]
          /\ votedFor' \in [Node -> Node \cup {None}]
          /\ role' \in [Node -> {"Follower", "Candidate", "Leader"}]
          /\ leaderID' \in [Node -> Node \cup {None}]
      BY <1>1, <1>4 DEF TypeOK, GrantVote
    <2>2. disk' \in [Node -> PersistentState]
      <3>1. /\ [term |-> c.term, vote |-> None] \in PersistentState
            /\ [term |-> c.term, vote |-> c.from] \in PersistentState
        BY <1>1 DEF PersistentState
      <3>2. \/ disk' = disk
            \/ disk' = [disk EXCEPT ![c.to] = [term |-> c.term, vote |-> None]]
            \/ disk' = [disk EXCEPT ![c.to] = [term |-> c.term, vote |-> c.from]]
        BY <1>4 DEF GrantVote, Saved
      <3>3. disk \in [Node -> PersistentState]
        BY DEF TypeOK
      <3>4. QED
        BY <1>1, <3>1, <3>2, <3>3
    <2>3. Answer(c, c.term, TRUE) \/ Answer(c, 0, FALSE)
      BY <1>4 DEF GrantVote
    <2>4. voteCalls' \in SUBSET VoteCalls /\ \A d \in voteCalls' : d.from # d.to
      BY <1>1, <1>2, <2>3, AnswerType
    <2>5. QED
      BY <1>3, <2>1, <2>2, <2>4 DEF TypeOK, history
  <1>5. CASE DenyVote(c.to, c)
    <2>1. Answer(c, c.term, FALSE) \/ Answer(c, currentTerm[c.to], FALSE)
      BY <1>5 DEF DenyVote
    <2>2. voteCalls' \in SUBSET VoteCalls /\ \A d \in voteCalls' : d.from # d.to
      BY <1>1, <2>1, AnswerType
    <2>3. CASE EnterTerm(c.to, c.term) /\ Saved(c.to, c.term, None)
      BY <1>1, <1>3, <2>2, <2>3, EnterTermType, SaveType DEF TypeOK, history
    <2>4. CASE UNCHANGED <<memory, disk>>
      BY <1>3, <2>2, <2>4 DEF TypeOK, history, memory
    <2>5. QED
      BY <1>5, <2>3, <2>4 DEF DenyVote
  <1>6. CASE FailVote(c.to, c)
    <2>1. EnterTerm(c.to, c.term) /\ SaveFails(c.to, c.term, None) /\ Answer(c, 0, FALSE)
      BY <1>6 DEF FailVote
    <2>2. voteCalls' \in SUBSET VoteCalls /\ \A d \in voteCalls' : d.from # d.to
      BY <1>2, <2>1, AnswerType
    <2>3. QED
      BY <1>1, <1>3, <2>1, <2>2, EnterTermType, SaveType DEF TypeOK, history
  <1>7. QED
    BY <1>4, <1>5, <1>6 DEF HandleRequestVote

\* The reply goroutine of campaign keeps the types.
LEMMA ReceiveVoteType ==
    ASSUME TypeOK, NEW c \in voteCalls, ReceiveVote(c)
    PROVE  TypeOK'
  <1>1. c.from \in Node /\ c.respTerm \in Terms /\ c.granted \in BOOLEAN
    BY DEF TypeOK, VoteCalls
  <1>2. campaign' \in [Node -> Campaigns]
    BY <1>1, TallyType DEF ReceiveVote
  <1>3. voteCalls' \subseteq voteCalls
    BY DEF ReceiveVote
  <1>4. CASE SetTerm(c.from, c.respTerm)
    BY <1>1, <1>2, <1>3, <1>4, SetTermType DEF TypeOK, ReceiveVote, history
  <1>5. CASE UNCHANGED <<memory, disk>>
    BY <1>2, <1>3, <1>5 DEF TypeOK, ReceiveVote, history, memory
  <1>6. QED
    BY <1>4, <1>5 DEF ReceiveVote

\* A failed RequestVote call keeps the types.
LEMMA VoteCallFailsType ==
    ASSUME TypeOK, NEW c \in voteCalls, VoteCallFails(c)
    PROVE  TypeOK'
  <1>1. campaign' \in [Node -> Campaigns]
    BY TallyType DEF VoteCallFails
  <1>2. voteCalls' \in SUBSET VoteCalls /\ \A d \in voteCalls' : d.from # d.to
    BY DEF TypeOK, VoteCallFails, VoteCalls
  <1>3. QED
    BY <1>1, <1>2 DEF TypeOK, VoteCallFails, history, memory

\* winElection keeps the types, also when the election is stale.
LEMMA WinElectionType ==
    ASSUME TypeOK, NEW i \in Node, WinElection(i) \/ (ReturnFromWin(i) /\ LogMoves(i))
    PROVE  TypeOK'
  <1>1. NoCampaign \in Campaigns /\ [NoCampaign EXCEPT !.phase = "leading"] \in Campaigns
    BY ElectionAssumption DEF NoCampaign, Campaigns, Terms
  <1>2. campaign[i].term \in Terms /\ campaign[i].granted \in SUBSET Node
    BY DEF TypeOK, Campaigns
  <1>3. CASE WinElection(i) /\ BecomeLeader(i)
    BY <1>1, <1>2, <1>3 DEF TypeOK, WinElection, BecomeLeader
  <1>4. CASE WinElection(i) /\ UNCHANGED <<memory, elected>>
              /\ campaign' = [campaign EXCEPT ![i] = NoCampaign]
    BY <1>1, <1>4 DEF TypeOK, WinElection, memory
  <1>5. CASE ReturnFromWin(i) /\ LogMoves(i)
    BY <1>1, <1>5 DEF TypeOK, ReturnFromWin, LogMoves, memory, history
  <1>6. QED
    BY <1>3, <1>4, <1>5 DEF WinElection

\* A newer term in replicateTo, probe or HandleReadIndex keeps the types.
LEMMA ObserveTermType ==
    ASSUME TypeOK, NEW i \in Node, NEW t \in Terms,
           ObserveTerm(i, t) \/ ProbeStepDown(i, t)
    PROVE  TypeOK'
  <1>1. SetTerm(i, t) /\ UNCHANGED <<last, campaign, voteCalls, history>>
    BY DEF ObserveTerm, ProbeStepDown
  <1>2. probes' \in [Node -> SUBSET Terms]
    BY DEF TypeOK, ObserveTerm, ProbeStepDown
  <1>3. QED
    BY <1>1, <1>2, SetTermType DEF TypeOK, history

\* The three steps of probe keep the types.
LEMMA ProbeType ==
    ASSUME TypeOK, NEW i \in Node, NEW t \in Terms,
           Probe(i) \/ ProbeCompare(i, t)
    PROVE  TypeOK'
  <1>1. 0 \in Terms
    BY ElectionAssumption DEF Terms
  <1>2. probes' \in [Node -> SUBSET Terms]
    BY <1>1 DEF TypeOK, Probe, ProbeCompare
  <1>3. UNCHANGED <<memory, disk, last, campaign, voteCalls, history>>
    BY DEF Probe, ProbeCompare
  <1>4. QED
    BY <1>2, <1>3 DEF TypeOK, memory, history

\* Rules 1 and 2 of handleAppendEntries keep the types.
LEMMA HeedLeaderType ==
    ASSUME TypeOK, NEW i \in Node, NEW t \in Terms, NEW l \in Node,
           HeedLeader(i, t, l), LogMoves(i)
    PROVE  TypeOK'
  <1>1. last' \in [Node -> LastEntry]
    BY DEF TypeOK, LogMoves
  <1>2. CASE EnterTerm(i, t) /\ SaveFails(i, t, None)
    BY <1>1, <1>2, EnterTermType, SaveType DEF TypeOK, HeedLeader, history
  <1>3. CASE ~EnterTerm(i, t) \/ ~SaveFails(i, t, None)
    <2>1. /\ currentTerm' \in [Node -> Terms]
          /\ votedFor' \in [Node -> Node \cup {None}]
          /\ role' \in [Node -> {"Follower", "Candidate", "Leader"}]
          /\ leaderID' \in [Node -> Node \cup {None}]
      BY <1>3 DEF TypeOK, HeedLeader
    <2>2. disk' \in [Node -> PersistentState]
      BY <1>3, SaveType DEF TypeOK, HeedLeader
    <2>3. QED
      BY <1>1, <2>1, <2>2 DEF TypeOK, HeedLeader, history
  <1>4. QED
    BY <1>2, <1>3

\* A restart (NewNode) keeps the types.
LEMMA RestartType ==
    ASSUME TypeOK, NEW i \in Node, Restart(i)
    PROVE  TypeOK'
  <1>1. NoCampaign \in Campaigns
    BY ElectionAssumption DEF NoCampaign, Campaigns, Terms
  <1>2. disk[i].term \in Terms /\ disk[i].vote \in Node \cup {None}
    BY DEF TypeOK, PersistentState
  <1>3. voteCalls' \in SUBSET VoteCalls /\ \A d \in voteCalls' : d.from # d.to
    BY DEF TypeOK, Restart, VoteCalls
  <1>4. QED
    BY <1>1, <1>2, <1>3 DEF TypeOK, Restart, history

\* Every step keeps every variable in its type.
LEMMA NextTypeOK == TypeOK /\ [Next]_electionVars => TypeOK'
  <1> SUFFICES ASSUME TypeOK, [Next]_electionVars PROVE TypeOK'
    OBVIOUS
  <1>1. ASSUME NEW i \in Node, Campaign(i) PROVE TypeOK'
    BY <1>1, CampaignType
  <1>2. ASSUME NEW i \in Node, WinElection(i) \/ (ReturnFromWin(i) /\ LogMoves(i))
        PROVE TypeOK'
    BY <1>2, WinElectionType
  <1>3. ASSUME NEW i \in Node, Restart(i) PROVE TypeOK'
    BY <1>3, RestartType
  <1>4. ASSUME NEW i \in Node, LogMoves(i),
               UNCHANGED <<memory, disk, campaign, voteCalls, probes, history>>
        PROVE TypeOK'
    BY <1>4 DEF TypeOK, LogMoves, memory, history
  <1>5. ASSUME NEW c \in voteCalls,
               HandleRequestVote(c) \/ ReceiveVote(c) \/ VoteCallFails(c)
        PROVE TypeOK'
    BY <1>5, HandleRequestVoteType, ReceiveVoteType, VoteCallFailsType
  <1>6. topTerm \in Terms /\ 1..topTerm \subseteq Terms /\ 0 \in Terms
    BY ElectionAssumption DEF TypeOK, Terms
  <1>7. ASSUME NEW i \in Node, NEW t \in 1..topTerm,
               ObserveTerm(i, t) \/ ProbeStepDown(i, t)
        PROVE TypeOK'
    BY <1>6, <1>7, ObserveTermType
  <1>8. ASSUME NEW i \in Node, NEW t \in 1..topTerm, ProbeCompare(i, t)
        PROVE TypeOK'
    BY <1>6, <1>8, ProbeType
  <1>9. ASSUME NEW i \in Node, Probe(i) PROVE TypeOK'
    BY <1>6, <1>9, ProbeType
  <1>10. ASSUME NEW i \in Node, NEW e \in elected,
                HeedLeader(i, e.term, e.leader), LogMoves(i)
         PROVE TypeOK'
    <2>1. e.term \in Terms /\ e.leader \in Node
      BY DEF TypeOK
    <2>2. QED
      BY <1>10, <2>1, HeedLeaderType
  <1>11. ASSUME UNCHANGED electionVars PROVE TypeOK'
    BY <1>11 DEF TypeOK, electionVars, memory, history
  <1>12. QED
    BY <1>1, <1>2, <1>3, <1>4, <1>5, <1>7, <1>8, <1>9, <1>10, <1>11 DEF Next

\* Every reachable state is well typed: terms stay within 0..MaxTerm, votes go
\* to nodes, no candidate asks itself (all of election.go and state.go).
THEOREM TypeCorrect == Spec => []TypeOK
  BY InitTypeOK, NextTypeOK, PTL DEF Spec

-----------------------------------------------------------------------------
(* What a step may do to the term and the vote of one node *)

Keeps(j) ==
    /\ currentTerm'[j] = currentTerm[j]
    /\ votedFor'[j] = votedFor[j]
    /\ disk'[j] = disk[j]

\* A later term, with or without a vote in it; the disk lags behind if it fails.
GoesOn(j) ==
    /\ currentTerm'[j] > currentTerm[j]
    /\ "disk" \in Faults \/ disk'[j].term = currentTerm'[j]
    /\ disk'[j] \in {disk[j], [term |-> currentTerm'[j], vote |-> None],
                     [term |-> currentTerm'[j], vote |-> votedFor'[j]]}

\* The vote of the term is cast, or written again.
Votes(j) ==
    /\ currentTerm'[j] = currentTerm[j]
    /\ votedFor[j] \in {None, votedFor'[j]}
    /\ disk'[j] \in {disk[j], [term |-> currentTerm[j], vote |-> votedFor'[j]]}

Reloads(j) ==
    /\ "crash" \in Faults
    /\ disk'[j] = disk[j]
    /\ currentTerm'[j] = disk[j].term
    /\ votedFor'[j] = disk[j].vote

Advances(j) == Keeps(j) \/ GoesOn(j) \/ Votes(j) \/ Reloads(j)

\* setTermLocked, when it is called for a newer term.
LEMMA SetTermAdvances ==
    ASSUME TypeOK, NEW i \in Node, NEW u \in Terms, u > currentTerm[i],
           EnterTerm(i, u), Saved(i, u, None) \/ SaveFails(i, u, None),
           NEW j \in Node
    PROVE  Advances(j)
  <1>1. CASE j = i
    BY <1>1 DEF TypeOK, EnterTerm, Saved, SaveFails, Advances, GoesOn
  <1>2. CASE j # i
    BY <1>2 DEF TypeOK, EnterTerm, Saved, SaveFails, Advances, Keeps
  <1>3. QED BY <1>1, <1>2

\* campaign moves the candidate to a term nobody has seen it in.
LEMMA CampaignAdvances ==
    ASSUME TypeOK, NEW i \in Node, Campaign(i), NEW j \in Node
    PROVE  Advances(j)
  <1> DEFINE t == currentTerm[i] + 1
  <1>1. currentTerm[i] \in Nat /\ t > currentTerm[i]
    BY DEF TypeOK, Terms
  <1>2. Saved(i, t, i) \/ SaveFails(i, t, i)
    BY DEF Campaign
  <1>3. currentTerm' = [currentTerm EXCEPT ![i] = t] /\ votedFor' = [votedFor EXCEPT ![i] = i]
    BY DEF Campaign, StandForElection
  <1> HIDE DEF t
  <1>4. CASE j = i
    BY <1>1, <1>2, <1>3, <1>4 DEF TypeOK, Saved, SaveFails, Advances, GoesOn
  <1>5. CASE j # i
    BY <1>2, <1>3, <1>5 DEF TypeOK, Saved, SaveFails, Advances, Keeps
  <1>6. QED BY <1>4, <1>5

\* HandleRequestVote only moves the voter forward, when it grants its vote.
LEMMA GrantAdvances ==
    ASSUME TypeOK, NEW c \in voteCalls, GrantVote(c.to, c), NEW j \in Node
    PROVE  Advances(j)
  <1> DEFINE i == c.to
             noVote == [term |-> c.term, vote |-> None]
             vote == [term |-> c.term, vote |-> c.from]
  <1>1. i \in Node /\ c.from \in Node /\ c.term \in Nat /\ currentTerm[i] \in Nat
    BY DEF TypeOK, VoteCalls, Terms
  <1>2. /\ c.term >= currentTerm[i]
        /\ ~Newer(i, c) => votedFor[i] \in {None, c.from}
        /\ currentTerm' = [currentTerm EXCEPT ![i] = c.term]
        /\ votedFor' = [votedFor EXCEPT ![i] = c.from]
    BY DEF GrantVote, VoteSpent
  <1>3. /\ \/ disk' = disk
           \/ Newer(i, c) /\ disk' = [disk EXCEPT ![i] = noVote]
           \/ disk' = [disk EXCEPT ![i] = vote]
        /\ "disk" \in Faults \/ disk' = [disk EXCEPT ![i] = vote]
    BY DEF GrantVote, Saved
  <1>4. CASE j # i
    BY <1>2, <1>3, <1>4 DEF TypeOK, Advances, Keeps
  <1>5. CASE j = i /\ Newer(i, c)
    <2>1. disk'[j] \in {disk[j], noVote, vote} /\ ("disk" \in Faults \/ disk'[j] = vote)
      BY <1>1, <1>3, <1>5 DEF TypeOK
    <2>2. currentTerm'[j] = c.term /\ votedFor'[j] = c.from /\ c.term > currentTerm[j]
      BY <1>1, <1>2, <1>5 DEF TypeOK, Newer
    <2>3. QED
      BY <2>1, <2>2 DEF Advances, GoesOn
  <1>6. CASE j = i /\ ~Newer(i, c)
    <2>1. disk'[j] \in {disk[j], vote}
      BY <1>1, <1>3, <1>6 DEF TypeOK
    <2>2. currentTerm'[j] = c.term /\ votedFor'[j] = c.from /\ c.term = currentTerm[j]
      BY <1>1, <1>2, <1>6 DEF TypeOK, Newer
    <2>3. QED
      BY <1>2, <1>6, <2>1, <2>2 DEF Advances, Votes
  <1>7. QED BY <1>4, <1>5, <1>6

\* handleAppendEntries only moves the follower forward.
LEMMA HeedAdvances ==
    ASSUME TypeOK, NEW i \in Node, NEW t \in Terms, NEW l \in Node,
           HeedLeader(i, t, l), NEW j \in Node
    PROVE  Advances(j)
  <1>1. CASE t > currentTerm[i] /\ EnterTerm(i, t) /\ SaveFails(i, t, None)
    BY <1>1, SetTermAdvances
  <1>2. CASE /\ currentTerm' = [currentTerm EXCEPT ![i] = t]
             /\ t > currentTerm[i]
             /\ votedFor' = [votedFor EXCEPT ![i] = None]
             /\ Saved(i, t, None)
    <2>1. CASE j = i
      BY <1>2, <2>1 DEF TypeOK, Saved, Advances, GoesOn
    <2>2. CASE j # i
      BY <1>2, <2>2 DEF TypeOK, Saved, Advances, Keeps
    <2>3. QED BY <2>1, <2>2
  <1>3. CASE /\ currentTerm' = [currentTerm EXCEPT ![i] = t]
             /\ ~(t > currentTerm[i])
             /\ UNCHANGED <<votedFor, disk>>
    <2>1. t = currentTerm[i]
      BY <1>3 DEF TypeOK, HeedLeader, Terms
    <2>2. QED
      BY <1>3, <2>1 DEF TypeOK, Advances, Keeps
  <1>4. QED
    BY <1>1, <1>2, <1>3 DEF HeedLeader

\* Every step of anybody advances every node, or leaves it alone.
LEMMA NextAdvances ==
    ASSUME TypeOK, NoProbes, [Next]_electionVars, NEW j \in Node
    PROVE  Advances(j)
  <1>1. ASSUME UNCHANGED <<memory, disk>> PROVE Advances(j)
    BY <1>1 DEF memory, Advances, Keeps
  <1>2. ASSUME NEW i \in Node, Campaign(i) PROVE Advances(j)
    BY <1>2, CampaignAdvances
  <1>3. ASSUME NEW i \in Node, WinElection(i) PROVE Advances(j)
    BY <1>3 DEF WinElection, BecomeLeader, memory, Advances, Keeps
  <1>4. ASSUME NEW i \in Node, Restart(i) PROVE Advances(j)
    BY <1>4 DEF TypeOK, Restart, Advances, Keeps, Reloads
  <1>5. ASSUME NEW c \in voteCalls, HandleRequestVote(c) PROVE Advances(j)
    <2>1. c.to \in Node /\ c.term \in Terms
      BY DEF TypeOK, VoteCalls
    <2>2. CASE GrantVote(c.to, c)
      BY <2>2, GrantAdvances
    <2>3. CASE DenyVote(c.to, c)
      <3>1. CASE Newer(c.to, c)
        <4>1. EnterTerm(c.to, c.term) /\ Saved(c.to, c.term, None)
          BY <2>3, <3>1 DEF DenyVote
        <4>2. QED
          BY <2>1, <3>1, <4>1, SetTermAdvances DEF Newer
      <3>2. CASE ~Newer(c.to, c)
        BY <1>1, <2>3, <3>2 DEF DenyVote
      <3>3. QED BY <3>1, <3>2
    <2>4. CASE FailVote(c.to, c)
      BY <2>1, <2>4, SetTermAdvances DEF FailVote, Newer
    <2>5. QED
      BY <1>5, <2>2, <2>3, <2>4 DEF HandleRequestVote
  <1>6. ASSUME NEW c \in voteCalls, ReceiveVote(c) PROVE Advances(j)
    <2>1. c.from \in Node /\ c.respTerm \in Terms
      BY DEF TypeOK, VoteCalls
    <2>2. CASE c.respTerm > currentTerm[c.from] /\ SetTerm(c.from, c.respTerm)
      BY <2>1, <2>2, SetTermAdvances DEF SetTerm
    <2>3. QED
      BY <1>1, <1>6, <2>2 DEF ReceiveVote
  <1>7. ASSUME NEW i \in Node, NEW t \in 1..topTerm,
               ObserveTerm(i, t) \/ ProbeCompare(i, t) \/ ProbeStepDown(i, t)
        PROVE  Advances(j)
    <2>1. t \in Terms
      BY ElectionAssumption DEF TypeOK, Terms
    <2>2. ObserveTerm(i, t)
      BY <1>7 DEF NoProbes, ProbeCompare, ProbeStepDown
    <2>3. QED
      BY <2>1, <2>2, SetTermAdvances DEF ObserveTerm, SetTerm
  <1>8. ASSUME NEW i \in Node, NEW e \in elected, HeedLeader(i, e.term, e.leader)
        PROVE  Advances(j)
    <2>1. e.term \in Terms /\ e.leader \in Node
      BY DEF TypeOK
    <2>2. QED
      BY <1>8, <2>1, HeedAdvances
  <1>9. ASSUME NEW i \in Node, ReturnFromWin(i) \/ Probe(i) PROVE Advances(j)
    BY <1>1, <1>9 DEF ReturnFromWin, Probe
  <1>10. ASSUME NEW c \in voteCalls, VoteCallFails(c) PROVE Advances(j)
    BY <1>1, <1>10 DEF VoteCallFails
  <1>11. CASE UNCHANGED electionVars
    BY <1>1, <1>11 DEF electionVars
  <1>12. QED
    BY <1>1, <1>2, <1>3, <1>4, <1>5, <1>6, <1>7, <1>8, <1>9, <1>10, <1>11 DEF Next

\* No step releases a binding.
LEMMA BindingsHold ==
    ASSUME TypeOK, TypeOK', NEW v \in Node, NEW c \in Node, NEW t \in Terms,
           Advances(v), Bound(v, t, c)
    PROVE  Bound(v, t, c)'
  <1>1. /\ currentTerm[v] \in Nat /\ disk[v].term \in Nat /\ t \in Nat
        /\ currentTerm'[v] \in Nat /\ c # None
    BY ClusterAssumption DEF TypeOK, PersistentState, Terms
  <1>2. CASE Keeps(v)
    BY <1>2 DEF Keeps, Bound
  <1>3. CASE Reloads(v)
    BY <1>3 DEF Reloads, Bound
  <1>4. CASE Votes(v)
    BY <1>1, <1>4 DEF Votes, Bound
  <1>5. CASE GoesOn(v)
    BY <1>1, <1>5 DEF GoesOn, Bound
  <1>6. QED
    BY <1>2, <1>3, <1>4, <1>5 DEF Advances

\* No step lets the disk get ahead of the memory, and the disk itself only
\* ever grows.
LEMMA DiskGrows ==
    ASSUME TypeOK, TypeOK', DiskBehind, NEW j \in Node, Advances(j)
    PROVE  /\ \/ disk'[j].term < currentTerm'[j]
              \/ disk'[j].term = currentTerm'[j] /\ disk'[j].vote \in {None, votedFor'[j]}
           /\ \/ disk'[j].term > disk[j].term
              \/ disk'[j].term = disk[j].term /\ disk[j].vote \in {None, disk'[j].vote}
  <1>1. /\ currentTerm[j] \in Nat /\ disk[j].term \in Nat
        /\ currentTerm'[j] \in Nat /\ disk'[j].term \in Nat
    BY DEF TypeOK, PersistentState, Terms
  <1>2. \/ disk[j].term < currentTerm[j]
        \/ disk[j].term = currentTerm[j] /\ disk[j].vote \in {None, votedFor[j]}
    BY DEF DiskBehind
  <1>3. CASE Keeps(j)
    BY <1>1, <1>2, <1>3 DEF Keeps
  <1>4. CASE Reloads(j)
    BY <1>1, <1>4 DEF Reloads
  <1>5. CASE Votes(j)
    BY <1>1, <1>2, <1>5 DEF Votes
  <1>6. CASE GoesOn(j)
    BY <1>1, <1>2, <1>6 DEF GoesOn
  <1>7. QED
    BY <1>3, <1>4, <1>5, <1>6 DEF Advances

-----------------------------------------------------------------------------
(* Where votes come from *)

\* The step casts the vote of v for c in term t: it is on disk when the step
\* ends, v was bound to nobody else when it began, and found the log of the
\* other candidate as good as its own.
Fresh(v, t, c) ==
    /\ currentTerm'[v] = t
    /\ votedFor'[v] = c
    /\ disk'[v] = [term |-> t, vote |-> c]
    /\ \A d \in Node : Bound(v, t, d) => d = c
    /\ \/ v = c
       \/ \E m \in voteCalls : /\ m.from = c /\ m.to = v /\ m.term = t
                               /\ LogUpToDate(v, m.last)

\* campaign: the candidate's vote for itself.
LEMMA CampaignVotes ==
    ASSUME TypeOK, NEW i \in Node, Campaign(i),
           NEW v \in Node, NEW t \in Terms, NEW c \in Node, Counted(v, t, c)'
    PROVE  Counted(v, t, c) \/ Fresh(v, t, c)
  <1> DEFINE u == currentTerm[i] + 1
             w == [phase |-> "counting", term |-> u, waiting |-> Peers(i), granted |-> {i}]
  <1>1. currentTerm[i] \in Nat /\ u > currentTerm[i] /\ u \in Nat
    BY DEF TypeOK, Terms
  <1>2. elected' = elected
    BY DEF Campaign
  <1>3. CASE SaveFails(i, u, i) /\ UNCHANGED <<voteCalls, campaign>>
    BY <1>2, <1>3 DEF Counted
  <1>4. CASE /\ Saved(i, u, i)
             /\ voteCalls' = voteCalls \cup VoteRequests(i, u)
             /\ campaign' = [campaign EXCEPT ![i] = w]
    <2>1. \A r \in VoteRequests(i, u) : ~r.granted
      BY DEF VoteRequests
    <2>2. ASSUME c # i \/ ~(v = i /\ t = u) PROVE Counted(v, t, c)
      <3>1. CASE \E r \in voteCalls' : r.from = c /\ r.to = v /\ r.term = t /\ r.granted
        BY <1>4, <2>1, <3>1 DEF Counted
      <3>2. CASE /\ campaign'[c].phase = "counting"
                 /\ campaign'[c].term = t
                 /\ v \in campaign'[c].granted
        BY <1>4, <2>2, <3>2 DEF Counted, TypeOK
      <3>3. CASE \E e \in elected' : e.term = t /\ e.leader = c /\ v \in e.voters
        BY <1>2, <3>3 DEF Counted
      <3>4. QED BY <3>1, <3>2, <3>3 DEF Counted
    <2>3. ASSUME c = i, v = i, t = u PROVE Fresh(v, t, c)
      <3>1. /\ currentTerm' = [currentTerm EXCEPT ![i] = u]
            /\ votedFor' = [votedFor EXCEPT ![i] = i]
        BY DEF Campaign, StandForElection
      <3>2. \A d \in Node : ~Bound(i, u, d)
        BY <1>1 DEF Bound
      <3> HIDE DEF u
      <3>3. QED
        BY <1>4, <2>3, <3>1, <3>2 DEF Fresh, Saved, TypeOK
    <2>4. QED BY <2>2, <2>3
  <1>5. QED
    BY <1>3, <1>4 DEF Campaign

\* HandleRequestVote: the vote that is granted.
LEMMA HandleVotes ==
    ASSUME TypeOK, NEW m \in voteCalls, HandleRequestVote(m),
           NEW v \in Node, NEW t \in Terms, NEW c \in Node, Counted(v, t, c)'
    PROVE  Counted(v, t, c) \/ Fresh(v, t, c)
  <1>1. m.from \in Node /\ m.to \in Node /\ m.term \in Nat
    BY DEF TypeOK, VoteCalls, Terms
  <1>2. UNCHANGED <<campaign, elected>>
    BY DEF HandleRequestVote, history
  <1>3. ASSUME NEW u \in Terms, Answer(m, u, FALSE) PROVE Counted(v, t, c)
    <2>1. \A r \in voteCalls' : r \in voteCalls \/ ~r.granted
      BY <1>3 DEF Answer, TypeOK, VoteCalls
    <2>2. QED
      BY <1>2, <2>1 DEF Counted
  <1>4. CASE GrantVote(m.to, m) /\ Answer(m, m.term, TRUE) /\ Saved(m.to, m.term, m.from)
    <2>1. \A r \in voteCalls' : r \in voteCalls
            \/ (r.from = m.from /\ r.to = m.to /\ r.term = m.term)
      BY <1>4 DEF Answer, TypeOK, VoteCalls
    <2>2. ASSUME ~(c = m.from /\ v = m.to /\ t = m.term) PROVE Counted(v, t, c)
      BY <1>2, <2>1, <2>2 DEF Counted
    <2>3. ASSUME c = m.from, v = m.to, t = m.term PROVE Fresh(v, t, c)
      <3>1. /\ currentTerm' = [currentTerm EXCEPT ![v] = t]
            /\ votedFor' = [votedFor EXCEPT ![v] = c]
            /\ t >= currentTerm[v]
            /\ ~VoteSpent(v, m) /\ LogUpToDate(v, m.last)
        BY <1>4, <2>3 DEF GrantVote
      <3>2. ASSUME NEW d \in Node, Bound(v, t, d) PROVE d = c
        <4>1. currentTerm[v] \in Nat /\ t \in Nat /\ d # None
          BY ClusterAssumption DEF TypeOK, Terms
        <4>2. currentTerm[v] = t /\ votedFor[v] = d
          BY <3>1, <3>2, <4>1 DEF Bound
        <4>3. QED
          BY <2>3, <3>1, <4>1, <4>2 DEF VoteSpent, Newer
      <3>3. \E q \in voteCalls : /\ q.from = c /\ q.to = v /\ q.term = t
                                 /\ LogUpToDate(v, q.last)
        BY <2>3, <3>1
      <3>4. disk'[v] = [term |-> t, vote |-> c]
        BY <1>4, <2>3 DEF Saved, TypeOK
      <3>5. currentTerm'[v] = t /\ votedFor'[v] = c
        BY <3>1 DEF TypeOK
      <3>6. QED
        BY <3>2, <3>3, <3>4, <3>5 DEF Fresh
    <2>4. QED BY <2>2, <2>3
  <1>5. 0 \in Terms /\ m.term \in Terms /\ currentTerm[m.to] \in Terms
    BY ElectionAssumption DEF TypeOK, VoteCalls, Terms
  <1>6. CASE GrantVote(m.to, m)
    BY <1>3, <1>4, <1>5, <1>6 DEF GrantVote
  <1>7. CASE DenyVote(m.to, m)
    <2>1. Answer(m, m.term, FALSE) \/ Answer(m, currentTerm[m.to], FALSE)
      BY <1>7 DEF DenyVote
    <2>2. QED
      BY <1>3, <1>5, <2>1
  <1>8. CASE FailVote(m.to, m)
    BY <1>3, <1>5, <1>8 DEF FailVote
  <1>9. QED
    BY <1>6, <1>7, <1>8 DEF HandleRequestVote

\* Counting moves votes, it makes none.
LEMMA TallyVotes ==
    ASSUME TypeOK, NEW m \in voteCalls, NEW ok \in BOOLEAN, Tally(m.from, m, ok),
           ok => m.granted,
           elected' = elected,
           \A r \in voteCalls' : \E q \in voteCalls :
              q.from = r.from /\ q.to = r.to /\ q.term = r.term /\ (r.granted => q.granted),
           NEW v \in Node, NEW t \in Terms, NEW c \in Node, Counted(v, t, c)'
    PROVE  Counted(v, t, c)
  <1>1. m.from \in Node /\ m.to \in Node
    BY DEF TypeOK, VoteCalls
  <1>2. CASE \E r \in voteCalls' : r.from = c /\ r.to = v /\ r.term = t /\ r.granted
    BY <1>2 DEF Counted
  <1>3. CASE \E e \in elected' : e.term = t /\ e.leader = c /\ v \in e.voters
    BY <1>3 DEF Counted
  <1>4. CASE /\ campaign'[c].phase = "counting"
             /\ campaign'[c].term = t
             /\ v \in campaign'[c].granted
    <2>1. CASE c # m.from \/ ~Counts(m.from, m)
      <3>1. campaign'[c] = campaign[c]
        BY <1>1, <2>1 DEF Tally, TypeOK
      <3>2. QED
        BY <1>4, <3>1 DEF Counted
    <2>2. CASE c = m.from /\ Counts(m.from, m)
      <3>1. campaign'[c] # NoCampaign
        BY <1>4 DEF NoCampaign
      <3>2. /\ campaign'[c].term = campaign[c].term
            /\ campaign'[c].phase = campaign[c].phase
            /\ campaign'[c].granted = IF ok THEN campaign[c].granted \cup {m.to}
                                            ELSE campaign[c].granted
        <4> DEFINE waiting == campaign[c].waiting \ {m.to}
                   granted == IF ok THEN campaign[c].granted \cup {m.to}
                                    ELSE campaign[c].granted
        <4>1. \/ campaign' = [campaign EXCEPT ![c] = NoCampaign]
              \/ campaign' = [campaign EXCEPT ![c].waiting = waiting, ![c].granted = granted]
          BY <2>2 DEF Tally
        <4>2. campaign \in [Node -> Campaigns]
          BY DEF TypeOK
        <4>3. campaign' = [campaign EXCEPT ![c].waiting = waiting, ![c].granted = granted]
          BY <3>1, <4>1, <4>2
        <4> HIDE DEF waiting, granted
        <4>4. /\ campaign'[c].term = campaign[c].term
              /\ campaign'[c].phase = campaign[c].phase
              /\ campaign'[c].granted = granted
          BY <4>2, <4>3 DEF Campaigns
        <4>5. QED
          BY <4>4 DEF granted
      <3>3. CASE v \in campaign[c].granted
        BY <1>4, <3>2, <3>3 DEF Counted
      <3>4. CASE v \notin campaign[c].granted
        <4>1. ok /\ v = m.to
          BY <1>4, <3>2, <3>4
        <4>2. m.term = t
          BY <1>4, <2>2, <3>2 DEF Counts
        <4>3. QED
          BY <2>2, <4>1, <4>2 DEF Counted
      <3>5. QED BY <3>3, <3>4
    <2>3. QED BY <2>1, <2>2
  <1>5. QED
    BY <1>2, <1>3, <1>4 DEF Counted

\* winElection records the votes it won with.
LEMMA WinVotes ==
    ASSUME TypeOK, NEW i \in Node, WinElection(i),
           NEW v \in Node, NEW t \in Terms, NEW c \in Node, Counted(v, t, c)'
    PROVE  Counted(v, t, c)
  <1>1. voteCalls' = voteCalls /\ campaign[i].phase = "counting"
    BY DEF WinElection
  <1>2. \A j \in Node : campaign'[j].phase = "counting" => campaign'[j] = campaign[j]
    BY DEF WinElection, BecomeLeader, TypeOK, NoCampaign
  <1>3. \A e \in elected' : \/ e \in elected
                            \/ e = [term |-> campaign[i].term, leader |-> i,
                                    voters |-> campaign[i].granted]
    BY DEF WinElection, BecomeLeader
  <1>4. QED
    BY <1>1, <1>2, <1>3 DEF Counted

\* A restart forgets votes it was counting and forges none.
LEMMA RestartVotes ==
    ASSUME TypeOK, NEW i \in Node, Restart(i),
           NEW v \in Node, NEW t \in Terms, NEW c \in Node, Counted(v, t, c)'
    PROVE  Counted(v, t, c)
  <1>1. elected' = elected
    BY DEF Restart, history
  <1>2. \A j \in Node : campaign'[j].phase = "counting" => campaign'[j] = campaign[j]
    BY DEF Restart, TypeOK, NoCampaign
  <1>3. ASSUME NEW r \in voteCalls'
        PROVE  \E q \in voteCalls : /\ q.from = r.from /\ q.to = r.to
                                    /\ q.term = r.term /\ q.granted = r.granted
    BY <1>3 DEF Restart, TypeOK, VoteCalls
  <1>4. QED
    BY <1>1, <1>2, <1>3 DEF Counted

\* Every step: a vote that counts afterwards counted before, or is fresh.
LEMMA NextVotes ==
    ASSUME TypeOK, [Next]_electionVars,
           NEW v \in Node, NEW t \in Terms, NEW c \in Node, Counted(v, t, c)'
    PROVE  Counted(v, t, c) \/ Fresh(v, t, c)
  <1>1. ASSUME UNCHANGED <<voteCalls, campaign, elected>> PROVE Counted(v, t, c)
    BY <1>1 DEF Counted
  <1>2. ASSUME NEW i \in Node, Campaign(i) PROVE Counted(v, t, c) \/ Fresh(v, t, c)
    BY <1>2, CampaignVotes
  <1>3. ASSUME NEW i \in Node, WinElection(i) PROVE Counted(v, t, c)
    BY <1>3, WinVotes
  <1>4. ASSUME NEW i \in Node, ReturnFromWin(i) PROVE Counted(v, t, c)
    <2>1. UNCHANGED <<voteCalls, elected>>
      BY <1>4 DEF ReturnFromWin, history
    <2>2. \A j \in Node : campaign'[j].phase = "counting" => campaign'[j] = campaign[j]
      BY <1>4 DEF ReturnFromWin, TypeOK, NoCampaign
    <2>3. QED
      BY <2>1, <2>2 DEF Counted
  <1>5. ASSUME NEW i \in Node, Restart(i) PROVE Counted(v, t, c)
    BY <1>5, RestartVotes
  <1>6. ASSUME NEW m \in voteCalls, HandleRequestVote(m)
        PROVE  Counted(v, t, c) \/ Fresh(v, t, c)
    BY <1>6, HandleVotes
  <1>7. ASSUME NEW m \in voteCalls, ReceiveVote(m) PROVE Counted(v, t, c)
    <2>1. m.granted \in BOOLEAN /\ elected' = elected /\ voteCalls' \subseteq voteCalls
      BY <1>7 DEF TypeOK, VoteCalls, ReceiveVote, history
    <2>2. Tally(m.from, m, FALSE) \/ Tally(m.from, m, m.granted)
      BY <1>7 DEF ReceiveVote
    <2>3. QED
      BY <2>1, <2>2, TallyVotes
  <1>8. ASSUME NEW m \in voteCalls, VoteCallFails(m) PROVE Counted(v, t, c)
    <2>1. elected' = elected /\ Tally(m.from, m, FALSE)
      BY <1>8 DEF VoteCallFails, history
    <2>2. ASSUME NEW r \in voteCalls'
          PROVE  \E q \in voteCalls : /\ q.from = r.from /\ q.to = r.to
                                      /\ q.term = r.term /\ (r.granted => q.granted)
      BY <1>8, <2>2 DEF VoteCallFails, TypeOK, VoteCalls
    <2>3. QED
      BY <2>1, <2>2, TallyVotes
  <1>9. ASSUME NEW i \in Node, NEW u \in 1..topTerm,
               ObserveTerm(i, u) \/ ProbeCompare(i, u) \/ ProbeStepDown(i, u)
        PROVE  Counted(v, t, c)
    BY <1>1, <1>9 DEF ObserveTerm, ProbeCompare, ProbeStepDown, history
  <1>10. ASSUME NEW i \in Node, NEW e \in elected, HeedLeader(i, e.term, e.leader)
         PROVE  Counted(v, t, c)
    BY <1>1, <1>10 DEF HeedLeader, history
  <1>11. ASSUME NEW i \in Node, Probe(i) PROVE Counted(v, t, c)
    BY <1>1, <1>11 DEF Probe, history
  <1>12. ASSUME UNCHANGED <<memory, disk, campaign, voteCalls, probes, history>>
         PROVE  Counted(v, t, c)
    BY <1>1, <1>12 DEF history
  <1>13. CASE UNCHANGED electionVars
    BY <1>1, <1>13 DEF electionVars, history
  <1>14. QED
    BY <1>2, <1>3, <1>4, <1>5, <1>6, <1>7, <1>8, <1>9, <1>10, <1>11, <1>12, <1>13
       DEF Next

-----------------------------------------------------------------------------
(* The invariant, and what follows from it *)

\* A winner's votes are a majority (winElection is only reached with one).
LEMMA NextElectedByMajority ==
    ASSUME TypeOK, ElectedByMajority, [Next]_electionVars
    PROVE  ElectedByMajority'
  <1>1. ASSUME NEW i \in Node, WinElection(i) PROVE ElectedByMajority'
    <2>1. \A e \in elected' : e \in elected \/ e.voters = campaign[i].granted
      BY <1>1 DEF WinElection, BecomeLeader
    <2>2. IsMajority(campaign[i].granted)
      BY <1>1 DEF WinElection
    <2>3. QED
      BY <2>1, <2>2 DEF ElectedByMajority, IsMajority
  <1>2. ASSUME elected' = elected PROVE ElectedByMajority'
    BY <1>2 DEF ElectedByMajority, IsMajority
  <1>3. QED
    BY <1>1, <1>2 DEF Next, Campaign, ReturnFromWin, Probe, Restart, HandleRequestVote,
       ReceiveVote, VoteCallFails, ObserveTerm, ProbeCompare, ProbeStepDown, HeedLeader,
       history, electionVars

\* With the gap in probe closed nobody is ever inside it.
LEMMA NextNoProbes ==
    ASSUME "probe" \notin Windows, TypeOK, NoProbes, [Next]_electionVars
    PROVE  NoProbes'
  <1>1. ASSUME UNCHANGED probes PROVE NoProbes'
    BY <1>1 DEF NoProbes
  <1>2. ASSUME NEW i \in Node, Restart(i) PROVE NoProbes'
    BY <1>2 DEF Restart, NoProbes, TypeOK
  <1>3. ASSUME NEW i \in Node, NEW t \in 1..topTerm,
               Probe(i) \/ ProbeCompare(i, t) \/ ProbeStepDown(i, t)
        PROVE  FALSE
    BY <1>3 DEF Probe, ProbeCompare, ProbeStepDown, NoProbes
  <1>4. ASSUME NEW i \in Node, Probe(i) PROVE FALSE
    BY <1>4 DEF Probe
  <1>5. QED
    BY <1>1, <1>2, <1>3, <1>4 DEF Next, Campaign, WinElection, ReturnFromWin,
       HandleRequestVote, ReceiveVote, VoteCallFails, ObserveTerm, HeedLeader, electionVars

\* A brand new cluster satisfies the inductive invariant.
LEMMA InitIndInv == Init => IndInv
  <1> SUFFICES ASSUME Init PROVE IndInv
    OBVIOUS
  <1>1. TypeOK
    BY InitTypeOK
  <1>2. \A v, c \in Node, t \in Terms : ~Counted(v, t, c)
    BY DEF Init, Counted, NoCampaign
  <1>3. NoProbes /\ DiskBehind /\ ElectedByMajority
    BY DEF Init, NoProbes, DiskBehind, ElectedByMajority
  <1>4. QED
    BY <1>1, <1>2, <1>3 DEF IndInv, VotesBind, OneVotePerTerm

\* Every step keeps the inductive invariant while the gap in probe is closed.
LEMMA NextIndInv ==
    ASSUME "probe" \notin Windows, IndInv, [Next]_electionVars
    PROVE  IndInv'
  <1>1. TypeOK /\ TypeOK'
    BY NextTypeOK DEF IndInv
  <1>2. \A j \in Node : Advances(j)
    BY NextAdvances DEF IndInv
  <1>3. VotesBind'
    <2>1. ASSUME NEW v \in Node, NEW c \in Node, NEW t \in Terms, Counted(v, t, c)'
          PROVE  Bound(v, t, c)'
      <3>1. CASE Counted(v, t, c)
        <4>1. Bound(v, t, c)
          BY <3>1 DEF IndInv, VotesBind
        <4>2. QED
          BY <1>1, <1>2, <4>1, BindingsHold
      <3>2. CASE Fresh(v, t, c)
        BY <3>2 DEF Fresh, Bound
      <3>3. QED
        BY <1>1, <2>1, <3>1, <3>2, NextVotes
    <2>2. QED
      BY <2>1 DEF VotesBind
  <1>4. OneVotePerTerm'
    <2>1. ASSUME NEW v \in Node, NEW c \in Node, NEW d \in Node, NEW t \in Terms,
                 Counted(v, t, c)', Counted(v, t, d)'
          PROVE  c = d
      <3>1. Counted(v, t, c) => Bound(v, t, c)
        BY DEF IndInv, VotesBind
      <3>2. Counted(v, t, d) => Bound(v, t, d)
        BY DEF IndInv, VotesBind
      <3>3. Counted(v, t, c) \/ Fresh(v, t, c)
        BY <1>1, <2>1, NextVotes
      <3>4. Counted(v, t, d) \/ Fresh(v, t, d)
        BY <1>1, <2>1, NextVotes
      <3>5. CASE Counted(v, t, c) /\ Counted(v, t, d)
        BY <3>5 DEF IndInv, OneVotePerTerm
      <3>6. CASE Fresh(v, t, c)
        BY <3>2, <3>4, <3>6 DEF Fresh
      <3>7. CASE Fresh(v, t, d)
        BY <3>1, <3>3, <3>7 DEF Fresh
      <3>8. QED
        BY <3>3, <3>4, <3>5, <3>6, <3>7
    <2>2. QED
      BY <2>1 DEF OneVotePerTerm
  <1>5. DiskBehind'
    <2>1. DiskBehind
      BY DEF IndInv
    <2>2. QED
      BY <1>1, <1>2, <2>1, DiskGrows DEF DiskBehind
  <1>6. NoProbes' /\ ElectedByMajority'
    BY <1>1, NextNoProbes, NextElectedByMajority DEF IndInv
  <1>7. QED
    BY <1>1, <1>3, <1>4, <1>5, <1>6 DEF IndInv

\* The inductive invariant implies both safety properties: winners of one
\* term share a voter (HandleRequestVote, rule 3), and bound means durable.
LEMMA InvariantImpliesSafety == IndInv => ElectionSafety /\ CountedVotesAreDurable
  <1> SUFFICES ASSUME IndInv PROVE ElectionSafety /\ CountedVotesAreDurable
    OBVIOUS
  <1>1. ASSUME NEW e \in elected, NEW f \in elected, e.term = f.term
        PROVE  e.leader = f.leader
    <2>1. /\ e.leader \in Node /\ e.voters \in SUBSET Node /\ e.term \in Terms
          /\ f.leader \in Node /\ f.voters \in SUBSET Node
      BY DEF IndInv, TypeOK
    <2>2. IsMajority(e.voters) /\ IsMajority(f.voters)
      BY DEF IndInv, ElectedByMajority
    <2>3. PICK v \in Node : v \in e.voters /\ v \in f.voters
      BY <2>1, <2>2, QuorumsIntersect
    <2>4. Counted(v, e.term, e.leader) /\ Counted(v, e.term, f.leader)
      BY <1>1, <2>3 DEF Counted
    <2>5. QED
      BY <2>1, <2>4 DEF IndInv, OneVotePerTerm
  <1>2. CountedVotesAreDurable
    <2>1. 1..topTerm \subseteq Terms
      BY ElectionAssumption DEF IndInv, TypeOK, Terms
    <2>2. QED
      BY <2>1 DEF IndInv, VotesBind, Counted, Bound, CountedVotesAreDurable
  <1>3. QED
    BY <1>1, <1>2 DEF ElectionSafety

\* At most one leader per term, ever: HandleRequestVote, campaign and Save keep
\* this promise through crashes, failed disk writes, lost and late messages,
\* as long as nothing falls into the gap of probe.
THEOREM OneLeaderPerTerm ==
    ASSUME "probe" \notin Windows
    PROVE  Spec => []ElectionSafety
  <1>1. IndInv /\ [Next]_electionVars => IndInv'
    BY NextIndInv
  <1>2. QED
    BY <1>1, InitIndInv, InvariantImpliesSafety, PTL DEF Spec

\* Every vote that counts is on the voter's disk (HandleRequestVote persists
\* before it replies, campaign before it asks).
THEOREM VotesAreDurable ==
    ASSUME "probe" \notin Windows
    PROVE  Spec => []CountedVotesAreDurable
  <1>1. IndInv /\ [Next]_electionVars => IndInv'
    BY NextIndInv
  <1>2. QED
    BY <1>1, InitIndInv, InvariantImpliesSafety, PTL DEF Spec

\* The state file never goes back in terms and never changes a vote (Save, as
\* persistLocked calls it), although writes may fail at any time.
THEOREM StateFileOnlyGrows ==
    ASSUME "probe" \notin Windows
    PROVE  Spec => DurableStateOnlyGrows
  <1>1. IndInv /\ [Next]_electionVars => IndInv'
    BY NextIndInv
  <1> DEFINE Grows == \A i \in Node :
         \/ disk'[i].term > disk[i].term
         \/ disk'[i].term = disk[i].term /\ disk[i].vote \in {None, disk'[i].vote}
  <1>2. IndInv /\ [Next]_electionVars => [Grows]_electionVars
    <2> SUFFICES ASSUME IndInv, [Next]_electionVars PROVE Grows
      OBVIOUS
    <2>1. TypeOK /\ TypeOK' /\ DiskBehind
      BY NextTypeOK DEF IndInv
    <2>2. \A j \in Node : Advances(j)
      BY NextAdvances DEF IndInv
    <2>3. QED
      BY <2>1, <2>2, DiskGrows
  <1>3. QED
    BY <1>1, <1>2, InitIndInv, PTL DEF Spec, DurableStateOnlyGrows

\* Whoever is named as leader has won the namer's term (leaderID), with the
\* gap in probe open or closed.
THEOREM NamedLeaderWasElected == Spec => []LeaderIDWasElected
  <1> DEFINE Named == TypeOK /\ LeaderIDWasElected
  <1>1. Init => Named
    BY InitTypeOK DEF Init, LeaderIDWasElected
  <1>2. Named /\ [Next]_electionVars => Named'
    <2> SUFFICES ASSUME TypeOK, LeaderIDWasElected, [Next]_electionVars
                 PROVE  LeaderIDWasElected'
      BY NextTypeOK
    <2>1. ASSUME UNCHANGED <<currentTerm, leaderID, elected>> PROVE LeaderIDWasElected'
      BY <2>1 DEF LeaderIDWasElected
    <2>2. ASSUME NEW i \in Node, elected' = elected, EnterTerm(i, currentTerm'[i])
          PROVE LeaderIDWasElected'
      BY <2>2 DEF LeaderIDWasElected, EnterTerm, TypeOK
    <2>3. ASSUME NEW i \in Node, Campaign(i) PROVE LeaderIDWasElected'
      BY <2>3 DEF LeaderIDWasElected, Campaign, StandForElection, TypeOK
    <2>4. ASSUME NEW i \in Node, WinElection(i) PROVE LeaderIDWasElected'
      <3>1. CASE UNCHANGED <<memory, elected>>
        BY <2>1, <3>1 DEF memory
      <3>2. CASE StillCurrent(i) /\ BecomeLeader(i)
        <4> DEFINE won == [term |-> campaign[i].term, leader |-> i,
                           voters |-> campaign[i].granted]
        <4>1. won \in elected' /\ won.term = currentTerm'[i] /\ won.leader = i
          BY <3>2 DEF BecomeLeader, StillCurrent
        <4>2. /\ leaderID' = [leaderID EXCEPT ![i] = i] /\ currentTerm' = currentTerm
              /\ elected \subseteq elected'
          BY <3>2 DEF BecomeLeader
        <4>3. ASSUME NEW j \in Node, leaderID'[j] # None
              PROVE  \E e \in elected' : e.term = currentTerm'[j] /\ e.leader = leaderID'[j]
          <5>1. CASE j = i
            BY <4>1, <4>2, <5>1 DEF TypeOK
          <5>2. CASE j # i
            BY <4>2, <4>3, <5>2 DEF LeaderIDWasElected, TypeOK
          <5>3. QED BY <5>1, <5>2
        <4>4. QED
          BY <4>3 DEF LeaderIDWasElected
      <3>3. QED
        BY <2>4, <3>1, <3>2 DEF WinElection
    <2>5. ASSUME NEW i \in Node, Restart(i) PROVE LeaderIDWasElected'
      BY <2>5 DEF LeaderIDWasElected, Restart, history, TypeOK
    <2>6. ASSUME NEW c \in voteCalls, HandleRequestVote(c) PROVE LeaderIDWasElected'
      <3>1. elected' = elected /\ c.to \in Node /\ c.term \in Nat /\ currentTerm[c.to] \in Nat
        BY <2>6 DEF HandleRequestVote, history, TypeOK, VoteCalls, Terms
      <3>2. CASE GrantVote(c.to, c)
        <4>1. CASE Newer(c.to, c)
          BY <3>1, <3>2, <4>1 DEF GrantVote, LeaderIDWasElected, TypeOK
        <4>2. CASE ~Newer(c.to, c)
          <5>1. c.term = currentTerm[c.to]
            BY <3>1, <3>2, <4>2 DEF GrantVote, Newer
          <5>2. QED
            BY <2>1, <3>1, <3>2, <4>2, <5>1 DEF GrantVote, TypeOK
        <4>3. QED BY <4>1, <4>2
      <3>3. CASE UNCHANGED <<memory, disk>>
        BY <2>1, <3>1, <3>3 DEF memory
      <3>4. CASE EnterTerm(c.to, c.term)
        BY <3>1, <3>4 DEF LeaderIDWasElected, EnterTerm, TypeOK
      <3>5. QED
        BY <2>6, <3>2, <3>3, <3>4 DEF HandleRequestVote, DenyVote, FailVote
    <2>7. ASSUME NEW c \in voteCalls, ReceiveVote(c) PROVE LeaderIDWasElected'
      <3>1. elected' = elected /\ c.from \in Node
        BY <2>7 DEF ReceiveVote, history, TypeOK, VoteCalls
      <3>2. CASE UNCHANGED <<memory, disk>>
        BY <2>1, <3>1, <3>2 DEF memory
      <3>3. CASE EnterTerm(c.from, c.respTerm)
        BY <3>1, <3>3 DEF LeaderIDWasElected, EnterTerm, TypeOK
      <3>4. QED
        BY <2>7, <3>2, <3>3 DEF ReceiveVote, SetTerm
    <2>8. ASSUME NEW i \in Node, NEW t \in 1..topTerm,
                 ObserveTerm(i, t) \/ ProbeStepDown(i, t)
          PROVE  LeaderIDWasElected'
      <3>1. elected' = elected /\ EnterTerm(i, t)
        BY <2>8 DEF ObserveTerm, ProbeStepDown, SetTerm, history
      <3>2. QED
        BY <3>1 DEF LeaderIDWasElected, EnterTerm, TypeOK
    <2>9. ASSUME NEW i \in Node, NEW e \in elected, HeedLeader(i, e.term, e.leader)
          PROVE  LeaderIDWasElected'
      <3>1. elected' = elected
        BY <2>9 DEF HeedLeader, history
      <3>2. CASE EnterTerm(i, e.term)
        BY <3>1, <3>2 DEF LeaderIDWasElected, EnterTerm, TypeOK
      <3>3. CASE /\ currentTerm' = [currentTerm EXCEPT ![i] = e.term]
                 /\ leaderID' = [leaderID EXCEPT ![i] = e.leader]
        BY <3>1, <3>3 DEF LeaderIDWasElected, TypeOK
      <3>4. QED
        BY <2>9, <3>2, <3>3 DEF HeedLeader
    <2>10. QED
      BY <2>1, <2>3, <2>4, <2>5, <2>6, <2>7, <2>8, <2>9
         DEF Next, ReturnFromWin, Probe, ProbeCompare, VoteCallFails, memory, history,
             electionVars
  <1>3. QED
    BY <1>1, <1>2, PTL DEF Spec

-----------------------------------------------------------------------------
(* Who leads, and in which terms: what module Raft needs to know *)

\* topTerm is what it says.
BelowTop ==
    /\ \A i \in Node : currentTerm[i] <= topTerm
    /\ \A c \in voteCalls : c.term <= topTerm /\ c.respTerm <= topTerm
    /\ \A e \in elected : e.term <= topTerm

\* A candidate votes for itself, in a term that is not the first one.
VotesForItself ==
    /\ \A i \in Node : campaign[i].phase = "counting" =>
          campaign[i].term >= 1 /\ i \in campaign[i].granted
    /\ \A e \in elected : e.term >= 1 /\ e.leader \in e.voters

\* Whoever is in the role of the leader has won the term it is in.
LeadersWereElected ==
    \A i \in Node : role[i] = "Leader" =>
        \E e \in elected : e.term = currentTerm[i] /\ e.leader = i

\* Whoever is a candidate has not won that term yet.
CandidatesWereNot ==
    \A i \in Node : role[i] = "Candidate" =>
        \A e \in elected : e.leader = i => e.term < currentTerm[i]

LeaderInv == IndInv /\ BelowTop /\ VotesForItself /\ LeadersWereElected /\ CandidatesWereNot

\* A node remembers, also across restarts, that it has been in the terms it won.
LEMMA WinnersRemember ==
    ASSUME LeaderInv, NEW e \in elected
    PROVE  e.leader \in Node /\ e.term \in Nat /\ e.term <= currentTerm[e.leader]
  <1>1. e.leader \in Node /\ e.term \in Terms /\ e.leader \in e.voters
    BY DEF LeaderInv, IndInv, TypeOK, VotesForItself
  <1>2. Bound(e.leader, e.term, e.leader)
    BY <1>1 DEF LeaderInv, IndInv, VotesBind, Counted
  <1>3. currentTerm[e.leader] \in Nat /\ e.term \in Nat
    BY <1>1 DEF LeaderInv, IndInv, TypeOK, Terms
  <1>4. QED
    BY <1>1, <1>2, <1>3 DEF Bound

\* What a step does to the role and the term of a node.
Stays(j) == role'[j] = role[j] /\ currentTerm'[j] = currentTerm[j]

Stands(j) == role'[j] = "Candidate" /\ currentTerm'[j] = currentTerm[j] + 1

Leads(j) ==
    /\ role'[j] = "Leader" /\ role[j] = "Candidate" /\ currentTerm'[j] = currentTerm[j]
    /\ \E e \in elected' : e.term = currentTerm[j] /\ e.leader = j

RolesMove == \A j \in Node : Stays(j) \/ Stands(j) \/ Leads(j) \/ role'[j] = "Follower"

\* Steps that elect nobody, and start nobody's candidacy.
LEMMA OtherStepsFollow ==
    ASSUME TypeOK, [Next]_electionVars, ~\E i \in Node : Campaign(i) \/ WinElection(i)
    PROVE  /\ elected' = elected /\ topTerm' = topTerm
           /\ \A j \in Node : Stays(j) \/ role'[j] = "Follower"
  <1>1. ASSUME NEW i \in Node, NEW t, EnterTerm(i, t), NEW j \in Node
        PROVE  Stays(j) \/ role'[j] = "Follower"
    BY <1>1 DEF EnterTerm, Stays, TypeOK
  <1>2. ASSUME UNCHANGED memory, NEW j \in Node PROVE Stays(j)
    BY <1>2 DEF memory, Stays
  <1>3. ASSUME NEW i \in Node, Restart(i), NEW j \in Node
        PROVE  Stays(j) \/ role'[j] = "Follower"
    BY <1>3 DEF Restart, Stays, TypeOK
  <1>4. ASSUME NEW c \in voteCalls, HandleRequestVote(c), NEW j \in Node
        PROVE  Stays(j) \/ role'[j] = "Follower"
    <2>1. c.to \in Node /\ c.term \in Nat /\ currentTerm[c.to] \in Nat
      BY DEF TypeOK, VoteCalls, Terms
    <2>2. CASE GrantVote(c.to, c)
      <3>1. CASE Newer(c.to, c)
        BY <2>1, <2>2, <3>1 DEF GrantVote, Stays, TypeOK
      <3>2. CASE ~Newer(c.to, c)
        BY <2>1, <2>2, <3>2 DEF GrantVote, Newer, Stays, TypeOK
      <3>3. QED BY <3>1, <3>2
    <2>3. QED
      BY <1>1, <1>2, <1>4, <2>1, <2>2 DEF HandleRequestVote, DenyVote, FailVote, memory
  <1>5. ASSUME NEW c \in voteCalls, ReceiveVote(c), NEW j \in Node
        PROVE  Stays(j) \/ role'[j] = "Follower"
    <2>1. c.from \in Node
      BY DEF TypeOK, VoteCalls
    <2>2. QED
      BY <1>1, <1>2, <1>5, <2>1 DEF ReceiveVote, SetTerm, memory
  <1>6. ASSUME NEW i \in Node, NEW e \in elected, HeedLeader(i, e.term, e.leader), NEW j \in Node
        PROVE  Stays(j) \/ role'[j] = "Follower"
    BY <1>1, <1>6 DEF HeedLeader, Stays, TypeOK
  <1>7. ASSUME NEW i \in Node, NEW t \in 1..topTerm, NEW j \in Node,
               ObserveTerm(i, t) \/ ProbeCompare(i, t) \/ ProbeStepDown(i, t)
        PROVE  Stays(j) \/ role'[j] = "Follower"
    BY <1>1, <1>2, <1>7 DEF ObserveTerm, ProbeCompare, ProbeStepDown, SetTerm
  <1>8. elected' = elected /\ topTerm' = topTerm
    BY DEF Next, HandleRequestVote, ReceiveVote, VoteCallFails, ReturnFromWin, Probe, Restart,
           ObserveTerm, ProbeCompare, ProbeStepDown, HeedLeader, history, electionVars
  <1>9. ASSUME NEW j \in Node PROVE Stays(j) \/ role'[j] = "Follower"
    BY <1>2, <1>3, <1>4, <1>5, <1>6, <1>7
       DEF Next, VoteCallFails, ReturnFromWin, Probe, electionVars
  <1>10. QED BY <1>8, <1>9

\* What campaign does to roles, terms and history.
LEMMA CampaignStands ==
    ASSUME TypeOK, NEW i \in Node, Campaign(i)
    PROVE  /\ elected' = elected
           /\ topTerm' >= topTerm /\ topTerm' >= currentTerm[i] + 1
           /\ \A j \in Node : Stays(j) \/ Stands(j)
  <1>1. currentTerm[i] \in Nat /\ topTerm \in Nat
    BY ElectionAssumption DEF TypeOK, Terms
  <1>2. StandForElection(i) /\ elected' = elected
    BY DEF Campaign
  <1>3. topTerm' >= topTerm /\ topTerm' >= currentTerm[i] + 1
    BY <1>1, <1>2 DEF StandForElection
  <1>4. ASSUME NEW j \in Node PROVE Stays(j) \/ Stands(j)
    BY <1>2 DEF StandForElection, Stays, Stands, TypeOK
  <1>5. QED BY <1>2, <1>3, <1>4

\* What winElection does to roles, terms and history.
LEMMA WinElectionLeads ==
    ASSUME TypeOK, NEW i \in Node, WinElection(i)
    PROVE  /\ topTerm' = topTerm
           /\ \/ elected' = elected /\ \A j \in Node : Stays(j)
              \/ /\ elected' = elected \cup {[term |-> campaign[i].term, leader |-> i,
                                              voters |-> campaign[i].granted]}
                 /\ campaign[i].term = currentTerm[i]
                 /\ Leads(i)
                 /\ \A j \in Node : j # i => Stays(j)
  <1>1. topTerm' = topTerm
    BY DEF WinElection
  <1>2. CASE StillCurrent(i) /\ BecomeLeader(i)
    <2> DEFINE won == [term |-> campaign[i].term, leader |-> i, voters |-> campaign[i].granted]
    <2>1. won \in elected' /\ won.term = currentTerm[i] /\ won.leader = i
      BY <1>2 DEF BecomeLeader, StillCurrent
    <2>2. role'[i] = "Leader" /\ role[i] = "Candidate" /\ currentTerm' = currentTerm
      BY <1>2 DEF BecomeLeader, StillCurrent, TypeOK
    <2>3. \A j \in Node : j # i => Stays(j)
      BY <1>2 DEF BecomeLeader, Stays, TypeOK
    <2>4. QED
      BY <1>1, <1>2, <2>1, <2>2, <2>3 DEF BecomeLeader, StillCurrent, Leads
  <1>3. CASE UNCHANGED <<memory, elected>>
    BY <1>1, <1>3 DEF memory, Stays
  <1>4. QED
    BY <1>2, <1>3 DEF WinElection

\* Every step moves a role in one of these ways.
LEMMA NextRolesMove ==
    ASSUME TypeOK, [Next]_electionVars
    PROVE  RolesMove /\ elected \subseteq elected' /\ topTerm' >= topTerm
  <1>0. topTerm \in Nat
    BY ElectionAssumption DEF TypeOK, Terms
  <1>1. CASE \E i \in Node : Campaign(i)
    BY <1>1, CampaignStands DEF RolesMove
  <1>2. CASE \E i \in Node : WinElection(i)
    BY <1>0, <1>2, WinElectionLeads DEF RolesMove
  <1>3. QED
    BY <1>0, <1>1, <1>2, OtherStepsFollow DEF RolesMove

\* An election is won in a term nobody has won before.
LEMMA WinnersAreNew ==
    ASSUME LeaderInv, IndInv', NEW i \in Node, WinElection(i),
           elected' = elected \cup {[term |-> campaign[i].term, leader |-> i,
                                     voters |-> campaign[i].granted]},
           campaign[i].term = currentTerm[i], role[i] = "Candidate"
    PROVE  \A e \in elected : e.term # currentTerm[i]
  <1> DEFINE won == [term |-> campaign[i].term, leader |-> i, voters |-> campaign[i].granted]
  <1>1. ElectionSafety'
    <2>1. (IndInv => ElectionSafety)'
      BY InvariantImpliesSafety, PTL
    <2>2. QED BY <2>1
  <1>2. ASSUME NEW e \in elected, e.term = currentTerm[i] PROVE FALSE
    <2>1. e \in elected' /\ won \in elected' /\ won.term = e.term /\ won.leader = i
      BY <1>2
    <2>2. e.leader = i
      BY <1>1, <2>1 DEF ElectionSafety
    <2>3. e.term < currentTerm[i] /\ e.term \in Nat
      BY <2>2, WinnersRemember DEF LeaderInv, CandidatesWereNot
    <2>4. QED BY <1>2, <2>3
  <1>3. QED BY <1>2

\* Whoever becomes leader does so in a term nobody has won before.
LEMMA NewLeadersAreNew ==
    ASSUME LeaderInv, IndInv', [Next]_electionVars, NEW j \in Node,
           role[j] # "Leader", role'[j] = "Leader"
    PROVE  currentTerm'[j] = currentTerm[j] /\ \A e \in elected : e.term # currentTerm[j]
  <1>1. TypeOK
    BY DEF LeaderInv, IndInv
  <1>2. ~(\A n \in Node : Stays(n) \/ Stands(n)) /\ ~(Stays(j) \/ role'[j] = "Follower")
    BY DEF Stays, Stands
  <1>3. PICK i \in Node : WinElection(i)
    BY <1>1, <1>2, CampaignStands, OtherStepsFollow
  <1>4. /\ elected' = elected \cup {[term |-> campaign[i].term, leader |-> i,
                                     voters |-> campaign[i].granted]}
        /\ campaign[i].term = currentTerm[i] /\ Leads(i) /\ i = j
    BY <1>1, <1>2, <1>3, WinElectionLeads DEF Stays
  <1>5. QED
    BY <1>3, <1>4, WinnersAreNew DEF Leads

\* topTerm is kept above everything.
LEMMA NextBelowTop ==
    ASSUME LeaderInv, IndInv', "probe" \notin Windows, [Next]_electionVars
    PROVE  BelowTop'
  <1>1. TypeOK /\ TypeOK' /\ NoProbes /\ BelowTop /\ topTerm \in Nat /\ topTerm' \in Nat
    BY ElectionAssumption DEF LeaderInv, IndInv, TypeOK, Terms
  <1>2. \A j \in Node : currentTerm[j] \in Nat /\ currentTerm[j] <= topTerm
    BY <1>1 DEF TypeOK, Terms, BelowTop
  <1>3. \A c \in voteCalls : /\ c.term \in Nat /\ c.term <= topTerm
                             /\ c.respTerm \in Nat /\ c.respTerm <= topTerm
                             /\ c.to \in Node /\ c.from \in Node
    BY <1>1 DEF TypeOK, VoteCalls, Terms, BelowTop
  <1>4. \A j \in Node : disk[j].term \in Nat /\ disk[j].term <= topTerm
    <2>1. ASSUME NEW j \in Node PROVE disk[j].term \in Nat /\ disk[j].term <= topTerm
      <3>1. disk[j].term \in Nat
        BY <1>1 DEF TypeOK, PersistentState, Terms
      <3>2. disk[j].term <= currentTerm[j]
        BY <1>2, <3>1 DEF LeaderInv, IndInv, DiskBehind
      <3>3. QED BY <1>1, <1>2, <3>1, <3>2
    <2>2. QED BY <2>1
  <1>5. \A e \in elected : e.term \in Nat /\ e.term <= topTerm
    BY <1>1 DEF TypeOK, Terms, BelowTop
  <1>6. ASSUME NEW i \in Node, Campaign(i) PROVE BelowTop'
    <2>1. topTerm' >= topTerm /\ topTerm' >= currentTerm[i] + 1 /\ elected' = elected
      BY <1>1, <1>6, CampaignStands
    <2>2. currentTerm' = [currentTerm EXCEPT ![i] = @ + 1]
      BY <1>6 DEF Campaign, StandForElection
    <2>3. \A c \in voteCalls' : \/ c \in voteCalls
                                \/ c.term = currentTerm[i] + 1 /\ c.respTerm = 0
      BY <1>6 DEF Campaign, VoteRequests
    <2>4. \A j \in Node : currentTerm'[j] <= topTerm'
      BY <1>1, <1>2, <2>1, <2>2 DEF TypeOK
    <2>5. \A c \in voteCalls' : c.term <= topTerm' /\ c.respTerm <= topTerm'
      BY <1>1, <1>2, <1>3, <2>1, <2>3
    <2>6. \A e \in elected' : e.term <= topTerm'
      BY <1>1, <1>5, <2>1
    <2>7. QED BY <2>4, <2>5, <2>6 DEF BelowTop
  <1>7. ASSUME NEW i \in Node, WinElection(i) PROVE BelowTop'
    <2>1. /\ topTerm' = topTerm /\ currentTerm' = currentTerm /\ voteCalls' = voteCalls
          /\ \A e \in elected' : e \in elected \/ e.term = currentTerm[i]
      BY <1>7 DEF WinElection, StillCurrent, BecomeLeader, memory
    <2>2. QED
      BY <1>2, <1>3, <1>5, <2>1 DEF BelowTop
  <1>8. ASSUME topTerm' = topTerm, elected' = elected,
               \A j \in Node : currentTerm'[j] <= topTerm,
               \A c \in voteCalls' : c.term <= topTerm /\ c.respTerm <= topTerm
        PROVE  BelowTop'
    BY <1>5, <1>8 DEF BelowTop
  <1>9. ASSUME NEW i \in Node, NEW t \in Nat, t <= topTerm, EnterTerm(i, t)
        PROVE  \A j \in Node : currentTerm'[j] <= topTerm
    BY <1>1, <1>2, <1>9 DEF EnterTerm, TypeOK
  <1>10. ASSUME NEW c \in voteCalls, HandleRequestVote(c) PROVE BelowTop'
    <2>1. \A j \in Node : currentTerm'[j] <= topTerm
      <3>1. CASE GrantVote(c.to, c)
        BY <1>1, <1>2, <1>3, <3>1 DEF GrantVote, TypeOK
      <3>2. CASE UNCHANGED <<memory, disk>>
        BY <1>2, <3>2 DEF memory
      <3>3. QED
        BY <1>3, <1>9, <1>10, <3>1, <3>2 DEF HandleRequestVote, DenyVote, FailVote
    <2>2. \E t \in {c.term, currentTerm[c.to], 0}, ok \in BOOLEAN : Answer(c, t, ok)
      BY <1>10 DEF HandleRequestVote, GrantVote, DenyVote, FailVote
    <2>3. \A d \in voteCalls' :
             \/ d \in voteCalls
             \/ d.term = c.term /\ d.respTerm \in {c.term, currentTerm[c.to], 0}
      <3>1. PICK t \in {c.term, currentTerm[c.to], 0}, ok \in BOOLEAN : Answer(c, t, ok)
        BY <2>2
      <3> DEFINE a == [c EXCEPT !.state = "answered", !.respTerm = t, !.granted = ok]
      <3>2. a.term = c.term /\ a.respTerm = t
        <4>1. c \in VoteCalls
          BY <1>1 DEF TypeOK
        <4>2. QED BY <4>1 DEF VoteCalls
      <3>3. \A d \in voteCalls' : d \in voteCalls \/ d = a
        BY <3>1 DEF Answer
      <3> HIDE DEF a
      <3>4. QED
        BY <3>1, <3>2, <3>3
    <2>4. \A d \in voteCalls' : d.term <= topTerm /\ d.respTerm <= topTerm
      BY <1>1, <1>2, <1>3, <2>3
    <2>5. topTerm' = topTerm /\ elected' = elected
      BY <1>10 DEF HandleRequestVote, history
    <2>6. QED BY <1>8, <2>1, <2>4, <2>5
  <1>11. ASSUME NEW c \in voteCalls, ReceiveVote(c) PROVE BelowTop'
    <2>1. \A j \in Node : currentTerm'[j] <= topTerm
      <3>1. CASE SetTerm(c.from, c.respTerm)
        BY <1>3, <1>9, <3>1 DEF SetTerm
      <3>2. CASE UNCHANGED <<memory, disk>>
        BY <1>2, <3>2 DEF memory
      <3>3. QED BY <1>11, <3>1, <3>2 DEF ReceiveVote
    <2>2. voteCalls' \subseteq voteCalls /\ topTerm' = topTerm /\ elected' = elected
      BY <1>11 DEF ReceiveVote, history
    <2>3. QED BY <1>3, <1>8, <2>1, <2>2
  <1>12. ASSUME NEW c \in voteCalls, VoteCallFails(c) PROVE BelowTop'
    <2>1. \A d \in voteCalls' : d \in voteCalls \/ (d.term = c.term /\ d.respTerm = c.respTerm)
      <3>1. c \in VoteCalls
        BY <1>1 DEF TypeOK
      <3>2. QED BY <1>12, <3>1 DEF VoteCallFails, VoteCalls
    <2>2. topTerm' = topTerm /\ elected' = elected /\ currentTerm' = currentTerm
      BY <1>12 DEF VoteCallFails, history, memory
    <2>3. QED BY <1>2, <1>3, <1>8, <2>1, <2>2
  <1>13. ASSUME NEW i \in Node, Restart(i) PROVE BelowTop'
    <2>1. \A j \in Node : currentTerm'[j] <= topTerm
      BY <1>1, <1>2, <1>4, <1>13 DEF Restart, TypeOK
    <2>2. \A d \in voteCalls' : \E c \in voteCalls : d.term = c.term /\ d.respTerm = c.respTerm
      BY <1>1, <1>13 DEF Restart, TypeOK, VoteCalls
    <2>3. topTerm' = topTerm /\ elected' = elected
      BY <1>13 DEF Restart, history
    <2>4. QED BY <1>3, <1>8, <2>1, <2>2, <2>3
  <1>14. ASSUME NEW i \in Node, NEW t \in 1..topTerm,
                ObserveTerm(i, t) \/ ProbeCompare(i, t) \/ ProbeStepDown(i, t)
         PROVE  BelowTop'
    <2>1. ObserveTerm(i, t)
      BY <1>1, <1>14 DEF NoProbes, ProbeCompare, ProbeStepDown
    <2>2. t \in Nat /\ t <= topTerm
      BY <1>1
    <2>3. \A j \in Node : currentTerm'[j] <= topTerm
      BY <1>9, <2>1, <2>2 DEF ObserveTerm, SetTerm
    <2>4. topTerm' = topTerm /\ elected' = elected /\ voteCalls' = voteCalls
      BY <2>1 DEF ObserveTerm, history
    <2>5. QED BY <1>3, <1>8, <2>3, <2>4
  <1>15. ASSUME NEW i \in Node, NEW e \in elected, HeedLeader(i, e.term, e.leader)
         PROVE  BelowTop'
    <2>1. \A j \in Node : currentTerm'[j] <= topTerm
      <3>1. CASE currentTerm' = [currentTerm EXCEPT ![i] = e.term]
        BY <1>1, <1>2, <1>5, <3>1 DEF TypeOK
      <3>2. QED BY <1>5, <1>9, <1>15, <3>1 DEF HeedLeader
    <2>2. topTerm' = topTerm /\ elected' = elected /\ voteCalls' = voteCalls
      BY <1>15 DEF HeedLeader, history
    <2>3. QED BY <1>3, <1>8, <2>1, <2>2
  <1>16. ASSUME UNCHANGED <<currentTerm, voteCalls, history>> PROVE BelowTop'
    BY <1>2, <1>3, <1>8, <1>16 DEF history
  <1>17. QED
    BY <1>6, <1>7, <1>10, <1>11, <1>12, <1>13, <1>14, <1>15, <1>16
       DEF Next, ReturnFromWin, Probe, memory, electionVars

\* Candidates and winners vote for themselves.
LEMMA NextVotesForItself ==
    ASSUME TypeOK, VotesForItself, [Next]_electionVars
    PROVE  VotesForItself'
  <1>1. ASSUME NEW i \in Node, Campaign(i) PROVE VotesForItself'
    <2>1. currentTerm[i] \in Nat
      BY DEF TypeOK, Terms
    <2>2. QED
      BY <1>1, <2>1 DEF Campaign, VotesForItself, TypeOK
  <1>2. ASSUME NEW i \in Node, WinElection(i) PROVE VotesForItself'
    <2>1. CASE BecomeLeader(i)
      BY <1>2, <2>1 DEF WinElection, BecomeLeader, NoCampaign, VotesForItself, TypeOK
    <2>2. CASE UNCHANGED elected /\ campaign' = [campaign EXCEPT ![i] = NoCampaign]
      BY <2>2 DEF NoCampaign, VotesForItself, TypeOK
    <2>3. QED BY <1>2, <2>1, <2>2 DEF WinElection
  <1>3. ASSUME NEW c \in voteCalls, NEW ok \in BOOLEAN, Tally(c.from, c, ok),
               elected' = elected
        PROVE  VotesForItself'
    <2>1. c.from \in Node
      BY DEF TypeOK, VoteCalls
    <2>2. QED
      BY <1>3, <2>1 DEF Tally, NoCampaign, VotesForItself, TypeOK, Campaigns
  <1>4. ASSUME NEW c \in voteCalls, ReceiveVote(c) \/ VoteCallFails(c) PROVE VotesForItself'
    <2>1. c.granted \in BOOLEAN
      BY DEF TypeOK, VoteCalls
    <2>2. QED
      BY <1>3, <1>4, <2>1 DEF ReceiveVote, VoteCallFails, history
  <1>5. ASSUME NEW i \in Node, campaign' = [campaign EXCEPT ![i] = NoCampaign],
               elected' = elected
        PROVE  VotesForItself'
    BY <1>5 DEF NoCampaign, VotesForItself, TypeOK
  <1>6. ASSUME UNCHANGED <<campaign, elected>> PROVE VotesForItself'
    BY <1>6 DEF VotesForItself
  <1>7. QED
    BY <1>1, <1>2, <1>4, <1>5, <1>6
       DEF Next, HandleRequestVote, ReturnFromWin, Probe, Restart, ObserveTerm, ProbeCompare,
           ProbeStepDown, HeedLeader, history, electionVars

\* Every step keeps what is said about leaders.
LEMMA NextLeaderInv ==
    ASSUME "probe" \notin Windows, LeaderInv, [Next]_electionVars
    PROVE  LeaderInv'
  <1>1. IndInv /\ TypeOK /\ IndInv'
    BY NextIndInv DEF LeaderInv, IndInv
  <1>2. RolesMove /\ elected \subseteq elected'
    BY <1>1, NextRolesMove
  <1>3. BelowTop'
    BY <1>1, NextBelowTop
  <1>4. VotesForItself'
    BY <1>1, NextVotesForItself DEF LeaderInv
  <1>5. LeadersWereElected'
    BY <1>2 DEF LeaderInv, LeadersWereElected, RolesMove, Stays, Stands, Leads
  <1>6. CandidatesWereNot'
    <2>1. ASSUME NEW i \in Node, role'[i] = "Candidate", NEW e \in elected', e.leader = i
          PROVE  e.term < currentTerm'[i]
      <3>1. currentTerm[i] \in Nat
        BY <1>1 DEF TypeOK, Terms
      <3>2. CASE e \in elected
        <4>1. e.term \in Nat /\ e.term <= currentTerm[i]
          BY <2>1, <3>2, WinnersRemember
        <4>2. CASE Stays(i)
          BY <2>1, <3>2, <4>2 DEF LeaderInv, CandidatesWereNot, Stays
        <4>3. CASE Stands(i)
          BY <3>1, <4>1, <4>3 DEF Stands
        <4>4. QED
          BY <1>2, <2>1, <4>2, <4>3 DEF RolesMove, Leads
      <3>3. CASE e \notin elected
        <4>1. PICK k \in Node : WinElection(k)
          BY <1>1, <2>1, <3>3, CampaignStands, OtherStepsFollow
        <4>2. e.leader = k /\ Leads(k)
          BY <1>1, <2>1, <3>3, <4>1, WinElectionLeads
        <4>3. QED BY <2>1, <4>2 DEF Leads
      <3>4. QED BY <3>2, <3>3
    <2>2. QED BY <2>1 DEF CandidatesWereNot
  <1>7. QED
    BY <1>1, <1>3, <1>4, <1>5, <1>6 DEF LeaderInv

\* A brand new cluster has no leaders.
LEMMA InitLeaderInv == Init => LeaderInv
  <1> SUFFICES ASSUME Init PROVE LeaderInv
    OBVIOUS
  <1>1. IndInv
    BY InitIndInv
  <1>2. BelowTop /\ VotesForItself /\ LeadersWereElected /\ CandidatesWereNot
    BY DEF Init, BelowTop, VotesForItself, LeadersWereElected, CandidatesWereNot, NoCampaign
  <1>3. QED BY <1>1, <1>2 DEF LeaderInv

-----------------------------------------------------------------------------
(* Terms grow, and votes go to logs that are good enough *)

\* While Save does not fail the memory is in no term the disk does not know.
DiskIsMemory == "disk" \notin Faults => \A i \in Node : disk[i].term = currentTerm[i]

\* A node goes back to an earlier term only if Save failed and the process died
\* after that (NewNode, loading what Save left).
LEMMA TermsGrow ==
    ASSUME TypeOK, NoProbes, DiskIsMemory, ~({"disk", "crash"} \subseteq Faults),
           [Next]_electionVars
    PROVE  DiskIsMemory' /\ \A i \in Node : currentTerm'[i] >= currentTerm[i]
  <1>1. ASSUME NEW i \in Node
        PROVE  /\ currentTerm'[i] >= currentTerm[i]
               /\ "disk" \notin Faults => disk'[i].term = currentTerm'[i]
    <2>1. currentTerm[i] \in Nat /\ currentTerm'[i] \in Nat
      BY NextTypeOK DEF TypeOK, Terms
    <2>2. Advances(i)
      BY NextAdvances
    <2>3. "disk" \notin Faults => disk[i].term = currentTerm[i]
      BY DEF DiskIsMemory
    <2>4. CASE Keeps(i)
      BY <2>1, <2>3, <2>4 DEF Keeps
    <2>5. CASE GoesOn(i)
      BY <2>1, <2>5 DEF GoesOn
    <2>6. CASE Votes(i)
      BY <2>1, <2>3, <2>6 DEF Votes
    <2>7. CASE Reloads(i)
      BY <2>1, <2>3, <2>7 DEF Reloads
    <2>8. QED BY <2>2, <2>4, <2>5, <2>6, <2>7 DEF Advances
  <1>2. QED BY <1>1 DEF DiskIsMemory

\* A call is one of before, or a new candidate asks with its term and its log.
LEMMA CallsMove ==
    ASSUME TypeOK, [Next]_electionVars, NEW c \in voteCalls'
    PROVE  \/ \E d \in voteCalls : c.from = d.from /\ c.term = d.term /\ c.last = d.last
           \/ \E i \in Node : c.from = i /\ c.term = currentTerm'[i] /\ c.last = last[i]
  <1> DEFINE Old == \E d \in voteCalls : c.from = d.from /\ c.term = d.term /\ c.last = d.last
  <1>1. ASSUME NEW i \in Node, Campaign(i)
        PROVE  Old \/ \E j \in Node : c.from = j /\ c.term = currentTerm'[j] /\ c.last = last[j]
    <2>1. c \in voteCalls \/ c \in VoteRequests(i, currentTerm[i] + 1)
      BY <1>1 DEF Campaign
    <2>2. currentTerm'[i] = currentTerm[i] + 1
      BY <1>1 DEF Campaign, StandForElection, TypeOK
    <2>3. QED BY <2>1, <2>2 DEF VoteRequests
  <1>2. ASSUME NEW m \in voteCalls, NEW t, NEW ok, Answer(m, t, ok) PROVE Old
    <2> DEFINE a == [m EXCEPT !.state = "answered", !.respTerm = t, !.granted = ok]
    <2>1. m \in VoteCalls
      BY DEF TypeOK
    <2>2. a.from = m.from /\ a.term = m.term /\ a.last = m.last
      BY <2>1 DEF VoteCalls
    <2>3. c \in voteCalls \/ c = a
      BY <1>2 DEF Answer
    <2> HIDE DEF a
    <2>4. QED BY <2>2, <2>3
  <1>3. ASSUME NEW m \in voteCalls, HandleRequestVote(m) PROVE Old
    BY <1>2, <1>3 DEF HandleRequestVote, GrantVote, DenyVote, FailVote
  <1>4. ASSUME NEW m \in voteCalls, ReceiveVote(m) \/ VoteCallFails(m) PROVE Old
    <2> DEFINE a == [m EXCEPT !.state = "orphan"]
    <2>1. m \in VoteCalls
      BY DEF TypeOK
    <2>2. a.from = m.from /\ a.term = m.term /\ a.last = m.last
      BY <2>1 DEF VoteCalls
    <2>3. c \in voteCalls \/ c = a
      BY <1>4 DEF ReceiveVote, VoteCallFails
    <2> HIDE DEF a
    <2>4. QED BY <2>2, <2>3
  <1>5. ASSUME NEW i \in Node, Restart(i) PROVE Old
    <2>1. \A d \in voteCalls : LET a == [d EXCEPT !.state = "orphan"]
                               IN  a.from = d.from /\ a.term = d.term /\ a.last = d.last
      BY DEF TypeOK, VoteCalls
    <2>2. c \in voteCalls \/ \E d \in voteCalls : c = [d EXCEPT !.state = "orphan"]
      BY <1>5 DEF Restart
    <2>3. QED BY <2>1, <2>2
  <1>6. CASE voteCalls' = voteCalls
    BY <1>6
  <1>7. QED
    BY <1>1, <1>3, <1>4, <1>5, <1>6
       DEF Next, WinElection, ReturnFromWin, Probe, ObserveTerm, ProbeCompare, ProbeStepDown,
           HeedLeader, electionVars

\* A new leader was a candidate with the votes of a majority (winElection).
LEMMA WinnersHaveVotes ==
    ASSUME TypeOK, [Next]_electionVars, NEW j \in Node, role[j] # "Leader", role'[j] = "Leader"
    PROVE  /\ role[j] = "Candidate"
           /\ \E P \in SUBSET Node : IsMajority(P) /\ \A v \in P : Counted(v, currentTerm[j], j)
  <1>1. ~(\A n \in Node : Stays(n) \/ Stands(n)) /\ ~(Stays(j) \/ role'[j] = "Follower")
    BY DEF Stays, Stands
  <1>2. PICK i \in Node : WinElection(i)
    BY <1>1, CampaignStands, OtherStepsFollow
  <1>3. i = j
    BY <1>1, <1>2, WinElectionLeads DEF Stays
  <1>4. /\ campaign[j].phase = "counting" /\ IsMajority(campaign[j].granted)
        /\ StillCurrent(j)
    <2>1. ~UNCHANGED memory
      BY <1>1 DEF memory, Stays
    <2>2. QED BY <1>2, <1>3, <2>1 DEF WinElection
  <1>5. campaign[j].granted \in SUBSET Node
    BY DEF TypeOK, Campaigns
  <1>6. QED
    BY <1>4, <1>5 DEF StillCurrent, Counted

\* Votes are counted for terms the candidate has reached.
LEMMA CountedTermsArePast ==
    ASSUME LeaderInv, \A c \in voteCalls : c.term <= currentTerm[c.from],
           NEW v \in Node, NEW t \in Terms, NEW c \in Node, Counted(v, t, c)
    PROVE  t <= currentTerm[c]
  <1>1. CASE \E r \in voteCalls : r.from = c /\ r.to = v /\ r.term = t /\ r.granted
    BY <1>1
  <1>2. CASE campaign[c].phase = "counting" /\ campaign[c].term = t /\ v \in campaign[c].granted
    <2>1. Counted(c, t, c)
      BY <1>2 DEF LeaderInv, VotesForItself, Counted
    <2>2. Bound(c, t, c)
      BY <2>1 DEF LeaderInv, IndInv, VotesBind
    <2>3. currentTerm[c] \in Nat /\ t \in Nat
      BY DEF LeaderInv, IndInv, TypeOK, Terms
    <2>4. QED BY <2>2, <2>3 DEF Bound
  <1>3. CASE \E e \in elected : e.term = t /\ e.leader = c /\ v \in e.voters
    BY <1>3, WinnersRemember
  <1>4. QED
    BY <1>1, <1>2, <1>3 DEF Counted
=============================================================================
