------------------------------ MODULE RaftProofs ------------------------------
(***************************************************************************)
(* Proofs about module Raft, for every cluster, every bound and every set  *)
(* of faults: its types, that its elections are those of module Election,  *)
(* whatever replication does, and Log Matching.  What module               *)
(* ElectionProofs says of elections then holds here, too; EP is that       *)
(* module over the real logs.                                              *)
(*                                                                         *)
(* The argument: a request names a leader and the term it has won, because *)
(* nobody sends one without leading; and no reply has a term nobody has    *)
(* campaigned in.  So a handler that heeds a request, and a leader that    *)
(* heeds a reply, learn what module Election lets them learn.  How logs    *)
(* come to match is told where that part begins.                           *)
(*                                                                         *)
(* All this is proved of a wider step than Raft's Next: NextOrProbe also   *)
(* sends the read barrier's probes, deals with the answers, and lets a     *)
(* node learn of a newer term from a read that was sent to it, as module   *)
(* Clients does.  What holds of NextOrProbe holds of both modules.         *)
(***************************************************************************)
EXTENDS Raft, RaftLogProofs

EP == INSTANCE ElectionProofs WITH
        last <- [i \in Node |-> LastOf(log[i])],
        LastEntry <- {LastOf(<<>>)} \cup [index : 1..MaxLog, term : 1..MaxTerm],
        probes <- [i \in Node |-> {}],
        Windows <- {}

-----------------------------------------------------------------------------
(* Module Election, seen from Raft and seen from its proofs, is the same *)

\* The positions of real logs are positions an election may see (LastOf).
LEMMA ElectionAssumptionsHold == EP!ClusterAssumption /\ EP!ElectionAssumption
  <1>1. EP!ClusterAssumption
    BY ClusterAssumption
       DEF EP!ClusterAssumption, EP!IsFiniteSet, EP!Cardinality, IsFiniteSet, Cardinality
  <1>2. EP!ElectionAssumption
    BY RaftAssumption DEF EP!ElectionAssumption, LastOf, LastIndex, LastTerm, TermAt
  <1>3. QED BY <1>1, <1>2

\* States mean the same.
LEMMA SameStates ==
    /\ E!Init <=> EP!Init
    /\ E!TypeOK <=> EP!TypeOK
    /\ E!ElectionSafety <=> EP!ElectionSafety
  <1>1. E!Init <=> EP!Init
    BY Zenon DEF E!Init, EP!Init, E!NoCampaign, EP!NoCampaign
  <1>2. E!TypeOK <=> EP!TypeOK
    BY Zenon DEF E!TypeOK, EP!TypeOK, E!PersistentState, EP!PersistentState,
                 E!Campaigns, EP!Campaigns, E!VoteCalls, EP!VoteCalls, E!Terms, EP!Terms
  <1>3. E!ElectionSafety <=> EP!ElectionSafety
    BY Zenon DEF E!ElectionSafety, EP!ElectionSafety
  <1>4. QED BY <1>1, <1>2, <1>3

\* IsMajority is the same.
LEMMA SameMajority == ASSUME NEW S PROVE E!IsMajority(S) <=> EP!IsMajority(S)
  BY DEF EP!IsMajority, E!IsMajority, EP!Majority, E!Majority, EP!ClusterSize,
         E!ClusterSize, EP!Cardinality, E!Cardinality

\* persistLocked and setTermLocked are the same.
LEMMA SameSaves ==
    ASSUME NEW i, NEW t, NEW v
    PROVE  /\ E!Saved(i, t, v) <=> EP!Saved(i, t, v)
           /\ E!SaveFails(i, t, v) <=> EP!SaveFails(i, t, v)
           /\ E!EnterTerm(i, t) <=> EP!EnterTerm(i, t)
  BY Zenon DEF E!Saved, EP!Saved, E!SaveFails, EP!SaveFails, E!EnterTerm, EP!EnterTerm

\* setTermLocked with the error dropped is the same.
LEMMA SameSetTerm == ASSUME NEW i, NEW t PROVE E!SetTerm(i, t) <=> EP!SetTerm(i, t)
  BY Zenon, SameSaves DEF E!SetTerm, EP!SetTerm

\* campaign's step 3 is the same.
LEMMA SameTally ==
    ASSUME NEW i, NEW c, NEW ok PROVE E!Tally(i, c, ok) <=> EP!Tally(i, c, ok)
  BY Zenon, SameMajority
     DEF E!Tally, EP!Tally, E!Counts, EP!Counts, E!NoCampaign, EP!NoCampaign

\* HandleRequestVote is the same.
LEMMA SameHandler ==
    ASSUME NEW c PROVE E!HandleRequestVote(c) <=> EP!HandleRequestVote(c)
  <1>1. \A i : /\ E!LogUpToDate(i, c.last) <=> EP!LogUpToDate(i, c.last)
               /\ E!Newer(i, c) <=> EP!Newer(i, c)
    BY Zenon DEF E!LogUpToDate, EP!LogUpToDate, E!Newer, EP!Newer
  <1>2. \A i : E!VoteSpent(i, c) <=> EP!VoteSpent(i, c)
    BY Zenon, <1>1 DEF E!VoteSpent, EP!VoteSpent
  <1>3. \A t, ok : E!Answer(c, t, ok) <=> EP!Answer(c, t, ok)
    BY Zenon DEF E!Answer, EP!Answer
  <1>4. \A i : E!GrantVote(i, c) <=> EP!GrantVote(i, c)
    BY Zenon, <1>1, <1>2, <1>3, SameSaves
       DEF E!GrantVote, EP!GrantVote, E!Newer, EP!Newer
  <1>5. \A i : E!DenyVote(i, c) <=> EP!DenyVote(i, c)
    BY Zenon, <1>1, <1>2, <1>3, SameSaves DEF E!DenyVote, EP!DenyVote, E!memory, EP!memory
  <1>6. \A i : E!FailVote(i, c) <=> EP!FailVote(i, c)
    BY Zenon, <1>1, <1>3, SameSaves DEF E!FailVote, EP!FailVote
  <1>7. QED
    BY Zenon, <1>4, <1>5, <1>6
       DEF E!HandleRequestVote, EP!HandleRequestVote, E!history, EP!history

\* campaign, winElection and a restart are the same.
LEMMA SameCampaigns ==
    ASSUME NEW i
    PROVE  /\ E!Campaign(i) <=> EP!Campaign(i)
           /\ E!WinElection(i) <=> EP!WinElection(i)
           /\ E!ReturnFromWin(i) <=> EP!ReturnFromWin(i)
           /\ E!Restart(i) <=> EP!Restart(i)
  <1>1. E!Campaign(i) <=> EP!Campaign(i)
    BY Zenon, SameSaves
       DEF E!Campaign, EP!Campaign, E!StandForElection, EP!StandForElection,
           E!VoteRequests, EP!VoteRequests, E!Peers, EP!Peers, E!Cardinality, EP!Cardinality
  <1>2. E!WinElection(i) <=> EP!WinElection(i)
    BY Zenon, SameMajority
       DEF E!WinElection, EP!WinElection, E!StillCurrent, EP!StillCurrent, E!BecomeLeader,
           EP!BecomeLeader, E!memory, EP!memory, E!NoCampaign, EP!NoCampaign
  <1>3. E!ReturnFromWin(i) <=> EP!ReturnFromWin(i)
    BY Zenon DEF E!ReturnFromWin, EP!ReturnFromWin, E!memory, EP!memory,
                 E!NoCampaign, EP!NoCampaign, E!history, EP!history
  <1>4. E!Restart(i) <=> EP!Restart(i)
    BY Zenon DEF E!Restart, EP!Restart, E!history, EP!history, E!NoCampaign, EP!NoCampaign
  <1>5. QED BY <1>1, <1>2, <1>3, <1>4

\* What is learned from requests and replies is the same.
LEMMA SameLessons ==
    ASSUME NEW i, NEW t, NEW l, NEW c
    PROVE  /\ E!ObserveTerm(i, t) <=> EP!ObserveTerm(i, t)
           /\ E!HeedLeader(i, t, l) <=> EP!HeedLeader(i, t, l)
           /\ E!LogMoves(i) <=> EP!LogMoves(i)
           /\ E!ReceiveVote(c) <=> EP!ReceiveVote(c)
           /\ E!VoteCallFails(c) <=> EP!VoteCallFails(c)
  <1>1. E!ObserveTerm(i, t) <=> EP!ObserveTerm(i, t)
    BY Zenon, SameSetTerm DEF E!ObserveTerm, EP!ObserveTerm, E!history, EP!history
  <1>2. E!HeedLeader(i, t, l) <=> EP!HeedLeader(i, t, l)
    BY Zenon, SameSaves DEF E!HeedLeader, EP!HeedLeader, E!history, EP!history
  <1>3. E!LogMoves(i) <=> EP!LogMoves(i)
    BY Zenon DEF E!LogMoves, EP!LogMoves
  <1>4. E!ReceiveVote(c) <=> EP!ReceiveVote(c)
    BY Zenon, SameTally, SameSetTerm
       DEF E!ReceiveVote, EP!ReceiveVote, E!history, EP!history, E!memory, EP!memory
  <1>5. E!VoteCallFails(c) <=> EP!VoteCallFails(c)
    BY Zenon, SameTally
       DEF E!VoteCallFails, EP!VoteCallFails, E!history, EP!history, E!memory, EP!memory
  <1>6. QED BY <1>1, <1>2, <1>3, <1>4, <1>5

\* Hence the next-state relations are.
LEMMA SameNext == E!Next <=> EP!Next
  <1>1. \A i : /\ E!Probe(i) <=> EP!Probe(i)
               /\ \A t : /\ E!ProbeCompare(i, t) <=> EP!ProbeCompare(i, t)
                         /\ E!ProbeStepDown(i, t) <=> EP!ProbeStepDown(i, t)
    BY Zenon, SameSetTerm
       DEF E!Probe, EP!Probe, E!ProbeCompare, EP!ProbeCompare, E!ProbeStepDown,
           EP!ProbeStepDown, E!memory, EP!memory, E!history, EP!history
  <1>2. QED
    BY Zenon, <1>1, SameHandler, SameCampaigns, SameLessons
       DEF E!Next, EP!Next, E!memory, EP!memory, E!history, EP!history

-----------------------------------------------------------------------------
(* The steps of module Raft, and what module Clients adds to them: probes *)

\* What replicateTo, and the probe of the read barrier, send.
Sendable(i, p) ==
    {Request(i, p, nextIndex[i][p] - 1, "replicate"),
     [Request(i, p, 0, "probe") EXCEPT !.entries = <<>>]}

Sends(i, m) ==
    /\ role[i] = "Leader"
    /\ UNCHANGED <<electionVars, log, leaderVars, applyVars, replies>>
    /\ requests' = requests \cup {m}

\* The reply to a probe: a newer term ends the leadership.
HearsProbe(r) ==
    /\ replies' = replies \ {r}
    /\ StepDown(r) \/ UNCHANGED <<electionVars, log, leaderVars>>
    /\ UNCHANGED <<applyVars, requests>>

\* HandleReadIndex: a request for a read carries a newer term.
Learns(i) ==
    /\ \E t \in 1..topTerm : E!ObserveTerm(i, t)
    /\ UNCHANGED <<log, leaderVars, applyVars, callVars>>

NextOrProbe ==
    \/ Next
    \/ \E i \in Node : \E p \in Peers(i) : \E m \in Sendable(i, p) : Sends(i, m)
    \/ \E r \in replies : HearsProbe(r)
    \/ \E i \in Node : Learns(i)

\* A step of module Raft is one of them.
LEMMA NextIsNextOrProbe == [Next]_raftVars => [NextOrProbe]_raftVars
  BY DEF NextOrProbe

-----------------------------------------------------------------------------
(* What holds in every state: types, and who the calls in the network are from *)

LogsOK ==
    /\ log \in [Node -> Seq(Entries)]
    /\ \A i \in Node : Len(log[i]) <= MaxLog

ProgressOK ==
    \A i \in Node : /\ nextIndex[i] \in [Peers(i) -> 1..MaxLog + 1]
                    /\ matchIndex[i] \in [Peers(i) -> 0..MaxLog]

ArraysOK == DOMAIN nextIndex = Node /\ DOMAIN matchIndex = Node

AppliedOK ==
    /\ commitIndex \in [Node -> 0..MaxLog]
    /\ applied \in [Node -> Seq(Entries)]
    /\ chosen \in Seq(Entries)

\* A request never reaches beyond MaxLog, because its sender's log does not.
RequestsOK ==
    \A m \in requests : /\ m \in RequestType /\ m.from # m.to
                        /\ m.prevIndex + Len(m.entries) <= MaxLog

RepliesOK == \A r \in replies : r \in ReplyType /\ r.from # r.to

RequestsNameWinners ==
    \A m \in requests : \E e \in elected : e.term = m.term /\ e.leader = m.from

RepliesAreKnown == \A r \in replies : r.respTerm <= topTerm

RaftInv ==
    /\ LogsOK /\ ProgressOK /\ ArraysOK /\ AppliedOK /\ RequestsOK /\ RepliesOK
    /\ RequestsNameWinners /\ RepliesAreKnown
    /\ EP!LeaderInv

\* The types the other facts rest on.
LEMMA ElectionFacts ==
    ASSUME RaftInv
    PROVE  /\ currentTerm \in [Node -> 0..MaxTerm]
           /\ \A i \in Node : currentTerm[i] <= topTerm
           /\ role \in [Node -> {"Follower", "Candidate", "Leader"}]
           /\ topTerm \in 0..MaxTerm
           /\ \A e \in elected : e.term \in 1..MaxTerm /\ e.term <= topTerm /\ e.leader \in Node
           /\ \A i \in Node : role[i] = "Leader" =>
                 \E e \in elected : e.term = currentTerm[i] /\ e.leader = i
  <1>1. EP!TypeOK /\ EP!BelowTop /\ EP!VotesForItself /\ EP!LeadersWereElected
    BY DEF RaftInv, EP!LeaderInv, EP!IndInv
  <1>2. /\ currentTerm \in [Node -> 0..MaxTerm]
        /\ role \in [Node -> {"Follower", "Candidate", "Leader"}]
        /\ topTerm \in 0..MaxTerm
        /\ \A e \in elected : e.term \in 0..MaxTerm /\ e.leader \in Node
    BY <1>1 DEF EP!TypeOK, EP!Terms
  <1>3. /\ \A i \in Node : currentTerm[i] <= topTerm
        /\ \A e \in elected : e.term <= topTerm
    BY <1>1 DEF EP!BelowTop
  <1>4. \A e \in elected : e.term >= 1
    BY <1>1 DEF EP!VotesForItself
  <1>5. \A e \in elected : e.term \in 1..MaxTerm
    BY <1>2, <1>4
  <1>6. QED
    BY <1>1, <1>2, <1>3, <1>5 DEF EP!LeadersWereElected

\* The invariant has the types that are model-checked.
LEMMA RaftInvTyped == RaftInv => RaftTypeOK
  <1> SUFFICES ASSUME RaftInv PROVE RaftTypeOK
    OBVIOUS
  <1>1. E!TypeOK
    BY SameStates DEF RaftInv, EP!LeaderInv, EP!IndInv
  <1>2. QED
    BY <1>1 DEF RaftInv, LogsOK, ProgressOK, AppliedOK, RequestsOK, RepliesOK, RaftTypeOK

-----------------------------------------------------------------------------
(* What a step does to the logs *)

\* Propose, whoever calls it.
Proposes(i, cmd) ==
    /\ role[i] = "Leader"
    /\ AppendToLog(i, currentTerm[i], cmd)
    /\ UNCHANGED <<currentTerm, role, matchIndex>>

\* handleAppendEntries, up to the j-th entry of the request.
Stores(m, j) ==
    LET k == SkipCount(log[m.to], m.prevIndex, m.entries)
    IN  /\ Match(log[m.to], m.prevIndex, m.prevTerm)
        /\ E!HeedLeader(m.to, m.term, m.from)
        /\ k < Len(m.entries) /\ j \in k..Len(m.entries)
        /\ log' = [log EXCEPT ![m.to] = Spliced(@, m.prevIndex, m.entries, k, j)]

\* What rule 3 leaves, if it gets to its end and if it does not.
LEMMA HandlersStore ==
    ASSUME LogsOK, RequestsOK, NEW m \in requests, HandleAppendEntries(m)
    PROVE  log' = log \/ \E j \in 0..Len(m.entries) : Stores(m, j)
  <1>1. /\ m.to \in Node /\ m.entries \in Seq(Entries) /\ m.prevIndex \in Nat
        /\ log[m.to] \in Seq(Entries) /\ log \in [Node -> Seq(Entries)]
    BY DEF LogsOK, RequestsOK, RequestType
  <1> DEFINE k == SkipCount(log[m.to], m.prevIndex, m.entries)
  <1>2. Len(m.entries) \in Nat /\ Len(log[m.to]) \in Nat
    BY <1>1
  <1>3. ASSUME Match(log[m.to], m.prevIndex, m.prevTerm)
        PROVE  k \in 0..Len(m.entries)
    <2>1. m.prevIndex \in 0..Len(log[m.to])
      BY <1>1, <1>2, <1>3 DEF Match
    <2>2. QED BY <1>1, <2>1, SkipCountIs
  <1>4. CASE Accept(m.to, m)
    <2>1. /\ Match(log[m.to], m.prevIndex, m.prevTerm)
          /\ log' = [log EXCEPT ![m.to] = AfterAppend(@, m.prevIndex, m.entries)]
          /\ E!HeedLeader(m.to, m.term, m.from)
      BY <1>4 DEF Accept
    <2>2. AfterAppend(log[m.to], m.prevIndex, m.entries) =
             IF k = Len(m.entries) THEN log[m.to]
             ELSE Spliced(log[m.to], m.prevIndex, m.entries, k, Len(m.entries))
      BY AfterAppendSplices
    <2>3. CASE k = Len(m.entries)
      BY <1>1, <2>1, <2>2, <2>3
    <2>4. CASE k # Len(m.entries)
      <3>1. Stores(m, Len(m.entries))
        BY <1>2, <1>3, <2>1, <2>2, <2>4 DEF Stores
      <3>2. QED BY <1>2, <3>1
    <2>5. QED BY <2>3, <2>4
  <1>5. CASE FailStore(m.to, m)
    <2>1. /\ Match(log[m.to], m.prevIndex, m.prevTerm) /\ k < Len(m.entries)
          /\ E!HeedLeader(m.to, m.term, m.from)
      BY <1>5 DEF FailStore
    <2>2. \/ log' = [log EXCEPT ![m.to] = log[m.to]]
          \/ \E j \in k..Len(m.entries) - 1 :
                log' = [log EXCEPT ![m.to] = Spliced(@, m.prevIndex, m.entries, k, j)]
      BY <1>5 DEF FailStore, Spliced
    <2>3. CASE log' = [log EXCEPT ![m.to] = log[m.to]]
      BY <1>1, <2>3
    <2>4. ASSUME NEW j \in k..Len(m.entries) - 1,
                 log' = [log EXCEPT ![m.to] = Spliced(@, m.prevIndex, m.entries, k, j)]
          PROVE  Stores(m, j) /\ j \in 0..Len(m.entries)
      BY <1>2, <1>3, <2>1, <2>4 DEF Stores
    <2>5. QED BY <2>2, <2>3, <2>4
  <1>6. QED
    BY <1>4, <1>5 DEF HandleAppendEntries, RejectStale, RejectGap, FailAppend

\* Logs change when a leader proposes and when a follower stores, and then only.
LEMMA LogsMove ==
    ASSUME LogsOK, RequestsOK, [NextOrProbe]_raftVars
    PROVE  \/ log' = log
           \/ \E i \in Node, cmd \in Command \cup {Noop} : Proposes(i, cmd)
           \/ \E m \in requests : \E j \in 0..Len(m.entries) : Stores(m, j)
  <1>1. CASE \E i \in Node, cmd \in Command : Propose(i, cmd)
    BY <1>1 DEF Propose, Proposes, electionVars, leaderVars
  <1>2. CASE \E i \in Node : ProposeNoop(i)
    BY <1>2 DEF ProposeNoop, Proposes, leaderVars, E!ReturnFromWin, E!memory
  <1>3. CASE \E m \in requests : HandleAppendEntries(m)
    BY <1>3, HandlersStore
  <1>4. ASSUME NEW r \in replies, ReceiveReply(r) \/ HearsProbe(r) PROVE log' = log
    BY <1>4 DEF ReceiveReply, HearsProbe, StepDown
  <1>5. QED
    BY <1>1, <1>2, <1>3, <1>4
       DEF NextOrProbe, Learns, Sends, Next, Background, ElectionStep, WinElection,
           AdvanceCommit, Replicate, AppendCallFails, ReplyLost, Restart, raftVars

\* The log after storing, position by position.
LEMMA StoredLog ==
    ASSUME LogsOK, RequestsOK, NEW m \in requests, NEW j \in 0..Len(m.entries), Stores(m, j)
    PROVE  LET i == m.to
               k == SkipCount(log[i], m.prevIndex, m.entries)
               c == m.prevIndex + k
           IN  /\ i \in Node /\ m.prevIndex \in 0..Len(log[i])
               /\ TermAt(log[i], m.prevIndex) = m.prevTerm
               /\ c \in m.prevIndex..Len(log[i]) /\ j \in k..Len(m.entries) /\ k \in Nat
               /\ \A r \in 1..k : log[i][m.prevIndex + r].term = m.entries[r].term
               /\ c < Len(log[i]) => log[i][c + 1].term # m.entries[k + 1].term
               /\ k + 1 \in 1..Len(m.entries)
               /\ log'[i] \in Seq(Entries) /\ Len(log'[i]) = m.prevIndex + j
               /\ \A r \in 1..c : log'[i][r] = log[i][r]
               /\ \A r \in (c + 1)..(m.prevIndex + j) :
                     log'[i][r] = m.entries[r - m.prevIndex]
               /\ \A n \in Node : n # i => log'[n] = log[n]
               /\ log' \in [Node -> Seq(Entries)]
  <1> DEFINE i == m.to
             prev == m.prevIndex
             k == SkipCount(log[i], prev, m.entries)
             new == Spliced(log[i], prev, m.entries, k, j)
  <1>1. /\ i \in Node /\ m.entries \in Seq(Entries) /\ prev \in Nat
        /\ log[i] \in Seq(Entries) /\ log \in [Node -> Seq(Entries)]
    BY DEF LogsOK, RequestsOK, RequestType
  <1>2. Len(m.entries) \in Nat /\ Len(log[i]) \in Nat
    BY <1>1
  <1>3. /\ prev <= Len(log[i]) /\ TermAt(log[i], prev) = m.prevTerm
        /\ k < Len(m.entries) /\ j \in k..Len(m.entries)
        /\ log' = [log EXCEPT ![i] = new]
    BY DEF Stores, Match
  <1>4. prev \in 0..Len(log[i])
    BY <1>1, <1>2, <1>3
  <1>5. /\ k \in 0..Len(m.entries) /\ prev + k <= Len(log[i])
        /\ \A r \in 1..k : log[i][prev + r].term = m.entries[r].term
        /\ k < Len(m.entries) /\ prev + k < Len(log[i]) =>
             log[i][prev + k + 1].term # m.entries[k + 1].term
    BY <1>1, <1>4, SkipCountIs
  <1>6. /\ new \in Seq(Entries) /\ Len(new) = prev + j
        /\ \A r \in 1..(prev + k) : new[r] = log[i][r]
        /\ \A r \in (prev + k + 1)..(prev + j) : new[r] = m.entries[r - prev]
    <2> HIDE DEF k, prev, i
    <2>1. /\ log[i] \in Seq(Entries) /\ m.entries \in Seq(Entries) /\ prev \in 0..Len(log[i])
          /\ k \in 0..Len(m.entries) /\ prev + k <= Len(log[i]) /\ j \in k..Len(m.entries)
      BY <1>1, <1>3, <1>4, <1>5
    <2>2. PICK l, es : l = log[i] /\ es = m.entries
      OBVIOUS
    <2>3. /\ l \in Seq(Entries) /\ es \in Seq(Entries) /\ prev \in 0..Len(l)
          /\ k \in 0..Len(es) /\ prev + k <= Len(l) /\ j \in k..Len(es)
      BY <2>1, <2>2
    <2>4. LET s == Spliced(l, prev, es, k, j)
          IN  /\ s \in Seq(Entries) /\ Len(s) = prev + j
              /\ \A r \in 1..(prev + k) : s[r] = l[r]
              /\ \A r \in (prev + k + 1)..(prev + j) : s[r] = es[r - prev]
      BY <2>3, SplicedIs
    <2>5. QED BY <2>2, <2>4
  <1> HIDE DEF new, k
  <1>7. /\ log'[i] = new /\ \A n \in Node : n # i => log'[n] = log[n]
        /\ log' \in [Node -> Seq(Entries)]
    BY <1>1, <1>3, <1>6
  <1>8. /\ prev + k \in prev..Len(log[i]) /\ k + 1 \in 1..Len(m.entries) /\ k \in Nat
    BY <1>1, <1>2, <1>3, <1>5
  <1>9. QED
    BY <1>1, <1>3, <1>4, <1>5, <1>6, <1>7, <1>8 DEF k

\* The log after a proposal, position by position.
LEMMA ProposedLog ==
    ASSUME RaftInv, NEW i \in Node, NEW cmd \in Command \cup {Noop}, Proposes(i, cmd)
    PROVE  LET e == [term |-> currentTerm[i], cmd |-> cmd]
           IN  /\ role[i] = "Leader" /\ e \in Entries
               /\ log'[i] \in Seq(Entries) /\ Len(log'[i]) = Len(log[i]) + 1
               /\ Len(log[i]) < MaxLog
               /\ \A r \in 1..Len(log[i]) : log'[i][r] = log[i][r]
               /\ log'[i][Len(log[i]) + 1] = e
               /\ \A n \in Node : n # i => log'[n] = log[n]
               /\ log' \in [Node -> Seq(Entries)]
  <1> DEFINE e == [term |-> currentTerm[i], cmd |-> cmd]
  <1>1. log \in [Node -> Seq(Entries)] /\ log[i] \in Seq(Entries)
    BY DEF RaftInv, LogsOK
  <1>2. currentTerm[i] \in 1..MaxTerm
    BY ElectionFacts DEF Proposes
  <1>3. e \in Entries
    BY <1>2 DEF Entries
  <1> HIDE DEF e
  <1>4. log' = [log EXCEPT ![i] = Append(@, e)] /\ Len(log[i]) < MaxLog /\ role[i] = "Leader"
    BY DEF Proposes, AppendToLog, LastIndex, e
  <1>5. /\ Append(log[i], e) \in Seq(Entries)
        /\ Len(Append(log[i], e)) = Len(log[i]) + 1
        /\ \A r \in 1..Len(log[i]) : Append(log[i], e)[r] = log[i][r]
        /\ Append(log[i], e)[Len(log[i]) + 1] = e
    BY <1>1, <1>3, AppendProperties
  <1>6. log'[i] = Append(log[i], e)
    BY <1>1, <1>4
  <1>7. log' \in [Node -> Seq(Entries)] /\ \A n \in Node : n # i => log'[n] = log[n]
    BY <1>1, <1>4, <1>5
  <1>8. QED
    BY <1>3, <1>4, <1>5, <1>6, <1>7 DEF e

\* Logs stay typed and within MaxLog.
LEMMA NextLogsOK ==
    ASSUME RaftInv, [NextOrProbe]_raftVars
    PROVE  LogsOK'
  <1>1. LogsOK /\ RequestsOK
    BY DEF RaftInv
  <1>2. \A i \in Node : Len(log[i]) \in Nat /\ Len(log[i]) <= MaxLog
    BY <1>1 DEF LogsOK
  <1>3. CASE log' = log
    BY <1>1, <1>3 DEF LogsOK
  <1>4. ASSUME NEW i \in Node, NEW cmd \in Command \cup {Noop}, Proposes(i, cmd)
        PROVE  LogsOK'
    <2>1. /\ Len(log'[i]) = Len(log[i]) + 1 /\ Len(log[i]) < MaxLog
          /\ \A n \in Node : n # i => log'[n] = log[n]
          /\ log' \in [Node -> Seq(Entries)]
      BY <1>4, ProposedLog
    <2>2. Len(log'[i]) <= MaxLog
      BY <1>2, <2>1, RaftAssumption
    <2>3. QED BY <1>2, <2>1, <2>2 DEF LogsOK
  <1>5. ASSUME NEW m \in requests, NEW j \in 0..Len(m.entries), Stores(m, j)
        PROVE  LogsOK'
    <2>1. /\ m.to \in Node /\ Len(log'[m.to]) = m.prevIndex + j
          /\ \A n \in Node : n # m.to => log'[n] = log[n]
          /\ log' \in [Node -> Seq(Entries)]
      BY <1>1, <1>5, StoredLog
    <2>2. /\ m.prevIndex \in Nat /\ Len(m.entries) \in Nat
          /\ m.prevIndex + Len(m.entries) <= MaxLog
      BY <1>1 DEF RequestsOK, RequestType
    <2>3. Len(log'[m.to]) <= MaxLog
      BY <2>1, <2>2, RaftAssumption
    <2>4. QED BY <1>2, <2>1, <2>3 DEF LogsOK
  <1>6. QED
    BY <1>1, <1>3, <1>4, <1>5, LogsMove

-----------------------------------------------------------------------------
(* Every step is one that module Election allows, or none to it *)

\* The position a log ends at is one LastEntry has.
LEMMA LogMovesAnywhere ==
    ASSUME LogsOK, LogsOK', NEW i \in Node, \A n \in Node : n # i => log'[n] = log[n]
    PROVE  E!LogMoves(i)
  <1> DEFINE last == [n \in Node |-> LastOf(log[n])]
  <1>1. LastOf(log'[i]) \in {LastOf(<<>>)} \cup [index : 1..MaxLog, term : 1..MaxTerm]
    <2>1. log'[i] \in Seq(Entries) /\ Len(log'[i]) <= MaxLog /\ Len(log'[i]) \in Nat
      BY DEF LogsOK
    <2>2. CASE Len(log'[i]) = 0
      <3>1. log'[i] = <<>>
        BY <2>1, <2>2
      <3>2. QED BY <3>1
    <2>3. CASE Len(log'[i]) # 0
      <3>1. Len(log'[i]) \in 1..MaxLog /\ Len(log'[i]) \in DOMAIN log'[i]
        BY <2>1, <2>3, RaftAssumption
      <3>2. log'[i][Len(log'[i])].term \in 1..MaxTerm
        <4>1. log'[i][Len(log'[i])] \in Entries
          BY <2>1, <2>3
        <4>2. QED BY <4>1 DEF Entries
      <3>3. QED
        BY <3>1, <3>2 DEF LastOf, LastIndex, LastTerm, TermAt
    <2>4. QED BY <2>2, <2>3
  <1>2. last' = [last EXCEPT ![i] = LastOf(log'[i])]
    OBVIOUS
  <1>3. QED BY <1>1, <1>2 DEF E!LogMoves

\* A follower's step: HeedLeader, with the term and the leader of the request.
LEMMA HeedIsElectionStep ==
    ASSUME RaftInv, LogsOK', NEW m \in requests, E!HeedLeader(m.to, m.term, m.from),
           \A n \in Node : n # m.to => log'[n] = log[n]
    PROVE  E!Next
  <1>1. m.to \in Node /\ m.from # m.to
    BY DEF RaftInv, RequestsOK, RequestType
  <1>2. PICK e \in elected : e.term = m.term /\ e.leader = m.from
    BY DEF RaftInv, RequestsNameWinners
  <1>3. E!LogMoves(m.to)
    BY <1>1, LogMovesAnywhere DEF RaftInv
  <1>4. \E i \in Node, f \in elected : /\ i # f.leader
                                       /\ E!HeedLeader(i, f.term, f.leader)
                                       /\ E!LogMoves(i)
    BY <1>1, <1>2, <1>3
  <1>5. QED BY <1>4 DEF E!Next

\* Handlers only change the log of the node they run on.
LEMMA HandlersAreLocal ==
    ASSUME RaftInv, NEW m \in requests, HandleAppendEntries(m)
    PROVE  \A n \in Node : n # m.to => log'[n] = log[n]
  <1>1. LogsOK /\ RequestsOK
    BY DEF RaftInv
  <1>2. QED
    BY <1>1, HandlersStore, StoredLog

\* Every step is one of module Election's, or leaves all of its state alone.
LEMMA NextIsElectionStep ==
    ASSUME RaftInv, LogsOK', [NextOrProbe]_raftVars
    PROVE  [E!Next]_(E!electionVars)
  <1> DEFINE Idle == /\ UNCHANGED electionVars /\ log' = log
  <1>0. LogsOK
    BY DEF RaftInv
  <1>1. ASSUME Idle PROVE UNCHANGED E!electionVars
    BY <1>1 DEF electionVars, E!electionVars, E!memory, E!history
  <1>2. CASE ElectionStep
    BY <1>2 DEF ElectionStep, E!Next
  <1>3. ASSUME NEW i \in Node, WinElection(i) PROVE E!Next
    BY <1>3 DEF WinElection, E!Next
  <1>4. ASSUME NEW i \in Node, Restart(i) PROVE E!Next
    BY <1>4 DEF Restart, E!Next
  <1>5. ASSUME NEW i \in Node, ProposeNoop(i) PROVE E!Next
    <2>1. \A n \in Node : n # i => log'[n] = log[n]
      BY <1>0, <1>5 DEF ProposeNoop, AppendToLog, LogsOK
    <2>2. E!LogMoves(i)
      BY <1>0, <2>1, LogMovesAnywhere
    <2>3. E!ReturnFromWin(i)
      BY <1>5 DEF ProposeNoop
    <2>4. QED BY <2>2, <2>3 DEF E!Next
  <1>6. ASSUME NEW i \in Node, NEW cmd \in Command, Propose(i, cmd) PROVE E!Next
    <2>1. UNCHANGED electionVars /\ \A n \in Node : n # i => log'[n] = log[n]
      BY <1>0, <1>6 DEF Propose, AppendToLog, LogsOK
    <2>2. E!LogMoves(i)
      BY <1>0, <2>1, LogMovesAnywhere
    <2>3. UNCHANGED <<E!memory, disk, campaign, voteCalls, [n \in Node |-> {}], E!history>>
      BY <2>1 DEF electionVars, E!memory, E!history
    <2>4. QED BY <2>2, <2>3 DEF E!Next
  <1>7. ASSUME NEW m \in requests, HandleAppendEntries(m) PROVE E!Next \/ Idle
    <2>1. E!HeedLeader(m.to, m.term, m.from) \/ Idle
      BY <1>7 DEF HandleAppendEntries, RejectStale, RejectGap, Accept, FailAppend, FailStore
    <2>2. \A n \in Node : n # m.to => log'[n] = log[n]
      BY <1>7, HandlersAreLocal
    <2>3. QED BY <2>1, <2>2, HeedIsElectionStep
  <1>8. ASSUME NEW r \in replies, ReceiveReply(r) \/ HearsProbe(r) PROVE E!Next \/ Idle
    <2>1. r.from \in Node /\ r.respTerm \in 1..MaxTerm /\ r.respTerm <= topTerm
      BY DEF RaftInv, RepliesOK, ReplyType, RepliesAreKnown
    <2>2. topTerm \in Nat
      BY ElectionFacts, RaftAssumption
    <2>3. r.respTerm \in 1..topTerm
      BY <2>1, <2>2
    <2>4. CASE StepDown(r)
      BY <2>1, <2>3, <2>4 DEF StepDown, E!Next
    <2>5. QED BY <1>8, <2>4 DEF ReceiveReply, HearsProbe
  <1>9. ASSUME NEW i \in Node, Learns(i) PROVE E!Next
    BY <1>9 DEF Learns, E!Next
  <1>10. QED
    BY <1>1, <1>2, <1>3, <1>4, <1>5, <1>6, <1>7, <1>8, <1>9
       DEF NextOrProbe, Sends, Next, Background, AdvanceCommit, Replicate, AppendCallFails,
           ReplyLost, raftVars

-----------------------------------------------------------------------------
(* The calls in the network *)

\* The log a leader reads a request from, and the positions in it.
LEMMA RequestIs ==
    ASSUME RaftInv, NEW i \in Node, NEW p \in Peers(i), NEW m \in Sendable(i, p),
           role[i] = "Leader"
    PROVE  /\ m \in RequestType /\ m.from # m.to
           /\ m.prevIndex \in 0..MaxLog
           /\ m.from = i /\ m.to = p /\ m.term = currentTerm[i]
           /\ m.prevTerm = TermAt(log[i], m.prevIndex)
           /\ IF m.kind = "replicate" /\ m.prevIndex <= Len(log[i])
              THEN Len(m.entries) = Len(log[i]) - m.prevIndex ELSE Len(m.entries) = 0
           /\ \A r \in 1..Len(m.entries) : m.entries[r] = log[i][m.prevIndex + r]
           /\ m.prevIndex + Len(m.entries) <= MaxLog
           /\ m.commit = commitIndex[i]
  <1>1. log[i] \in Seq(Entries) /\ Len(log[i]) \in Nat /\ Len(log[i]) <= MaxLog
    BY DEF RaftInv, LogsOK
  <1>2. PICK prev, kind, es :
           /\ prev \in 0..MaxLog /\ kind \in {"replicate", "probe"}
           /\ m = [from |-> i, to |-> p, term |-> currentTerm[i], kind |-> kind,
                   prevIndex |-> prev, prevTerm |-> TermAt(log[i], prev), entries |-> es,
                   commit |-> commitIndex[i], waited |-> TRUE]
           /\ es = IF kind = "replicate" THEN EntriesFrom(log[i], prev + 1) ELSE <<>>
    <2>1. CASE m = Request(i, p, nextIndex[i][p] - 1, "replicate")
      <3>1. nextIndex[i][p] \in 1..MaxLog + 1
        BY DEF RaftInv, ProgressOK
      <3>2. nextIndex[i][p] - 1 \in 0..MaxLog
        BY <3>1, RaftAssumption
      <3>3. PICK prev : prev = nextIndex[i][p] - 1
        OBVIOUS
      <3>4. QED BY <2>1, <3>2, <3>3 DEF Request
    <2>2. CASE m = [Request(i, p, 0, "probe") EXCEPT !.entries = <<>>]
      <3>1. 0 \in 0..MaxLog
        BY RaftAssumption
      <3>2. QED BY <2>2, <3>1 DEF Request
    <2>3. QED BY <2>1, <2>2 DEF Sendable
  <1>3. currentTerm[i] \in 1..MaxTerm
    BY ElectionFacts
  <1>4. commitIndex[i] \in 0..MaxLog
    BY DEF RaftInv, AppliedOK
  <1>5. p \in Node /\ p # i
    BY DEF Peers
  <1>6. TermAt(log[i], prev) \in 0..MaxTerm
    <2>1. CASE prev \in DOMAIN log[i]
      <3>1. log[i][prev] \in Entries
        BY <1>1, <2>1
      <3>2. QED BY <2>1, <3>1 DEF TermAt, Entries
    <2>2. CASE prev \notin DOMAIN log[i]
      BY <2>2, RaftAssumption DEF TermAt
    <2>3. QED BY <2>1, <2>2
  <1>7. /\ es \in Seq(Entries)
        /\ IF kind = "replicate" /\ prev <= Len(log[i]) THEN Len(es) = Len(log[i]) - prev
                                                        ELSE Len(es) = 0
        /\ \A r \in 1..Len(es) : es[r] = log[i][prev + r]
    <2>1. prev \in Nat
      BY <1>2, RaftAssumption
    <2>2. CASE kind = "replicate"
      BY <1>1, <1>2, <2>1, <2>2, EntriesFromIs
    <2>3. CASE kind = "probe"
      BY <1>2, <2>3
    <2>4. QED BY <1>2, <2>2, <2>3
  <1>8. prev + Len(es) <= MaxLog
    BY <1>1, <1>2, <1>7, RaftAssumption
  <1>9. m \in RequestType
    <2>1. commitIndex[i] \in 0..MaxLog /\ es \in Seq(Entries) /\ prev \in 0..MaxLog
      BY <1>2, <1>4, <1>7
    <2>2. QED
      BY <1>2, <1>3, <1>5, <1>6, <2>1 DEF RequestType
  <1>10. /\ m.from = i /\ m.to = p /\ m.term = currentTerm[i] /\ m.prevIndex = prev
         /\ m.prevTerm = TermAt(log[i], prev) /\ m.entries = es /\ m.commit = commitIndex[i]
         /\ m.kind = kind
    BY <1>2
  <1>11. QED
    BY <1>2, <1>5, <1>7, <1>8, <1>9, <1>10

\* What is sent, or left over from what was sent before.
Resent(q, m) ==
    /\ q \in RequestType /\ q.from = m.from /\ q.to = m.to /\ q.term = m.term
    /\ q.kind = m.kind /\ q.prevIndex = m.prevIndex /\ q.prevTerm = m.prevTerm
    /\ q.entries = m.entries /\ q.commit = m.commit

\* A request nobody waits for any more is still the same request.
LEMMA UnwaitedIsResent ==
    ASSUME NEW m \in RequestType
    PROVE  Resent([m EXCEPT !.waited = FALSE], m)
  BY DEF Resent, RequestType

\* In module Raft, requests appear when leaders replicate, and then only.
LEMMA ReplicationMoves ==
    ASSUME RequestsOK, [Next]_raftVars
    PROVE  \/ \E i \in Node : \E p \in Peers(i) : Replicate(i, p)
           \/ \A q \in requests' : q \in requests \/ \E m \in requests : Resent(q, m)
  <1> DEFINE Same == \A q \in requests' : q \in requests \/ \E m \in requests : Resent(q, m)
  <1>1. \A m \in requests : m \in RequestType
    BY DEF RequestsOK
  <1>2. ASSUME NEW i \in Node, Restart(i) PROVE Same
    <2>1. requests' = {m \in requests : m.from # i}
             \cup {[m EXCEPT !.waited = FALSE] : m \in {q \in requests : q.from = i}}
      BY <1>2 DEF Restart
    <2>2. QED BY <1>1, <2>1, UnwaitedIsResent
  <1>3. ASSUME NEW m \in requests, AppendCallFails(m) PROVE Same
    <2>1. requests' \subseteq requests \cup {[m EXCEPT !.waited = FALSE]}
      BY <1>3 DEF AppendCallFails
    <2>2. QED BY <1>1, <2>1, UnwaitedIsResent
  <1>4. ASSUME NEW m \in requests, HandleAppendEntries(m) PROVE Same
    BY <1>4 DEF HandleAppendEntries, RejectStale, RejectGap, Accept, FailAppend, FailStore,
                Reply
  <1>5. ASSUME UNCHANGED requests PROVE Same
    BY <1>5
  <1>6. QED
    BY <1>2, <1>3, <1>4, <1>5
       DEF Next, Background, ElectionStep, WinElection, Propose, ProposeNoop, AdvanceCommit,
           ReceiveReply, ReplyLost, callVars, raftVars

\* With probes, they appear when leaders replicate or probe.
LEMMA RequestsMove ==
    ASSUME RequestsOK, [NextOrProbe]_raftVars
    PROVE  \/ \E i \in Node : \E p \in Peers(i) : \E m \in Sendable(i, p) : Sends(i, m)
           \/ \A q \in requests' : q \in requests \/ \E m \in requests : Resent(q, m)
  <1>1. ASSUME NEW i \in Node, NEW p \in Peers(i), Replicate(i, p)
        PROVE  \E m \in Sendable(i, p) : Sends(i, m)
    BY <1>1 DEF Replicate, Sends, Sendable, Send
  <1>2. QED
    BY <1>1, ReplicationMoves DEF NextOrProbe, Learns, HearsProbe, callVars

\* A step, as module ElectionProofs sees it.
LEMMA NextIsProvenStep ==
    ASSUME RaftInv, LogsOK', [NextOrProbe]_raftVars
    PROVE  [EP!Next]_(EP!electionVars)
  <1>1. E!electionVars' = E!electionVars => EP!electionVars' = EP!electionVars
    BY Zenon DEF E!electionVars, EP!electionVars, E!memory, EP!memory, E!history, EP!history
  <1>2. QED BY <1>1, NextIsElectionStep, SameNext

\* How elections go on: what module ElectionProofs says of a step.
LEMMA ElectionsGoOn ==
    ASSUME RaftInv, LogsOK', [NextOrProbe]_raftVars
    PROVE  /\ EP!LeaderInv' /\ elected \subseteq elected' /\ topTerm' >= topTerm
           /\ \A i \in Node : role'[i] = "Leader" =>
                 /\ currentTerm'[i] = currentTerm[i]
                 /\ role[i] # "Leader" => \A e \in elected : e.term # currentTerm[i]
  <1>1. [EP!Next]_(EP!electionVars)
    BY NextIsProvenStep
  <1>2. EP!LeaderInv /\ EP!TypeOK
    BY DEF RaftInv, EP!LeaderInv, EP!IndInv
  <1>3. EP!LeaderInv'
    BY <1>1, <1>2, ElectionAssumptionsHold, EP!NextLeaderInv
  <1>4. elected \subseteq elected' /\ topTerm' >= topTerm /\ EP!RolesMove
    BY <1>1, <1>2, ElectionAssumptionsHold, EP!NextRolesMove
  <1>5. ASSUME NEW i \in Node, role'[i] = "Leader", role[i] # "Leader"
        PROVE  currentTerm'[i] = currentTerm[i] /\ \A e \in elected : e.term # currentTerm[i]
    <2>1. EP!IndInv'
      BY <1>3 DEF EP!LeaderInv
    <2>2. QED
      BY <1>1, <1>2, <1>5, <2>1, ElectionAssumptionsHold, EP!NewLeadersAreNew
  <1>6. ASSUME NEW i \in Node, role'[i] = "Leader" PROVE currentTerm'[i] = currentTerm[i]
    BY <1>4, <1>6 DEF EP!RolesMove, EP!Stays, EP!Stands, EP!Leads
  <1>7. QED BY <1>3, <1>4, <1>5, <1>6

\* Requests stay typed and within MaxLog.
LEMMA NextRequestsOK ==
    ASSUME RaftInv, [NextOrProbe]_raftVars
    PROVE  RequestsOK'
  <1>1. RequestsOK
    BY DEF RaftInv
  <1>2. ASSUME NEW i \in Node, NEW p \in Peers(i), NEW m \in Sendable(i, p), Sends(i, m)
        PROVE  RequestsOK'
    <2>1. m \in RequestType /\ m.from # m.to /\ m.prevIndex + Len(m.entries) <= MaxLog
      BY <1>2, RequestIs DEF Sends
    <2>2. requests' = requests \cup {m}
      BY <1>2 DEF Sends
    <2>3. QED BY <1>1, <2>1, <2>2 DEF RequestsOK
  <1>3. CASE \A q \in requests' : q \in requests \/ \E m \in requests : Resent(q, m)
    BY <1>1, <1>3 DEF RequestsOK, Resent
  <1>4. QED BY <1>1, <1>2, <1>3, RequestsMove

\* Requests keep naming the winners of their terms.
LEMMA NextRequestsNameWinners ==
    ASSUME RaftInv, [NextOrProbe]_raftVars, elected \subseteq elected'
    PROVE  RequestsNameWinners'
  <1>1. RequestsOK /\ RequestsNameWinners
    BY DEF RaftInv
  <1>2. ASSUME NEW i \in Node, NEW p \in Peers(i), NEW m \in Sendable(i, p), Sends(i, m)
        PROVE  RequestsNameWinners'
    <2>1. m.from = i /\ m.term = currentTerm[i]
      BY <1>2, RequestIs DEF Sends
    <2>2. \E e \in elected : e.term = currentTerm[i] /\ e.leader = i
      BY <1>2, ElectionFacts DEF Sends
    <2>3. requests' = requests \cup {m}
      BY <1>2 DEF Sends
    <2>4. QED BY <1>1, <2>1, <2>2, <2>3 DEF RequestsNameWinners
  <1>3. CASE \A q \in requests' : q \in requests \/ \E m \in requests : Resent(q, m)
    BY <1>1, <1>3 DEF RequestsNameWinners, Resent
  <1>4. QED BY <1>1, <1>2, <1>3, RequestsMove

\* What replyLocked answers.
Answers(m, ok) ==
    [from |-> m.from, to |-> m.to, term |-> m.term, kind |-> m.kind,
     upTo |-> m.prevIndex + Len(m.entries), respTerm |-> currentTerm'[m.to],
     success |-> ok, lastIndex |-> LastIndex(log'[m.to])]

\* Replies appear when requests are handled, in a term not below the request's.
LEMMA RepliesMove ==
    ASSUME RaftInv, [NextOrProbe]_raftVars, NEW r \in replies', r \notin replies
    PROVE  \E m \in requests, ok \in BOOLEAN :
              r = Answers(m, ok) /\ currentTerm'[m.to] >= m.term
  <1>1. PICK m \in requests : HandleAppendEntries(m)
    BY DEF NextOrProbe, Learns, HearsProbe, Sends, Next, Background, ElectionStep, WinElection,
           Propose, ProposeNoop, AdvanceCommit, Replicate, ReceiveReply, ReplyLost,
           AppendCallFails, Restart, callVars, raftVars
  <1>2. /\ m.to \in Node /\ m.term \in Nat /\ currentTerm[m.to] \in Nat
        /\ currentTerm \in [Node -> 0..MaxTerm]
    BY ElectionFacts, RaftAssumption DEF RaftInv, RequestsOK, RequestType
  <1>3. \E ok \in BOOLEAN : Reply(m, ok)
    BY <1>1 DEF HandleAppendEntries, RejectStale, RejectGap, Accept, FailAppend, FailStore
  <1>4. \E ok \in BOOLEAN : r = Answers(m, ok)
    BY <1>3 DEF Reply, Answers
  <1>5. currentTerm'[m.to] >= m.term
    <2>1. CASE m.term < currentTerm[m.to] /\ currentTerm' = currentTerm
      BY <1>2, <2>1
    <2>2. CASE E!HeedLeader(m.to, m.term, m.from)
      BY <1>2, <2>2 DEF E!HeedLeader, E!EnterTerm
    <2>3. QED
      BY <1>1, <2>1, <2>2
         DEF HandleAppendEntries, RejectStale, RejectGap, Accept, FailAppend, FailStore,
             electionVars
  <1>6. QED BY <1>4, <1>5

\* Replies stay typed, and their terms known.
LEMMA NextRepliesOK ==
    ASSUME RaftInv, [NextOrProbe]_raftVars, LogsOK', EP!LeaderInv', topTerm' >= topTerm
    PROVE  RepliesOK' /\ RepliesAreKnown'
  <1>1. /\ currentTerm' \in [Node -> 0..MaxTerm]
        /\ \A i \in Node : currentTerm'[i] <= topTerm'
    BY DEF EP!LeaderInv, EP!IndInv, EP!TypeOK, EP!Terms, EP!BelowTop
  <1>2. topTerm \in Nat /\ topTerm' \in Nat
    <2>1. topTerm' \in 0..MaxTerm
      BY DEF EP!LeaderInv, EP!IndInv, EP!TypeOK, EP!Terms
    <2>2. QED BY <2>1, ElectionFacts, RaftAssumption
  <1>3. ASSUME NEW r \in replies'
        PROVE  r \in ReplyType /\ r.from # r.to /\ r.respTerm <= topTerm'
    <2>1. CASE r \in replies
      <3>1. r \in ReplyType /\ r.from # r.to /\ r.respTerm <= topTerm
        BY <2>1 DEF RaftInv, RepliesOK, RepliesAreKnown
      <3>2. r.respTerm \in Nat
        BY <3>1 DEF ReplyType
      <3>3. QED BY <1>2, <3>1, <3>2
    <2>2. CASE r \notin replies
      <3>1. PICK m \in requests, ok \in BOOLEAN :
                r = Answers(m, ok) /\ currentTerm'[m.to] >= m.term
        BY <1>3, <2>2, RepliesMove
      <3>2. /\ m.from \in Node /\ m.to \in Node /\ m.from # m.to /\ m.term \in 1..MaxTerm
            /\ m.kind \in {"replicate", "probe"} /\ m.prevIndex \in Nat
            /\ m.prevIndex + Len(m.entries) <= MaxLog /\ Len(m.entries) \in Nat
        BY DEF RaftInv, RequestsOK, RequestType
      <3>3. /\ currentTerm'[m.to] \in 0..MaxTerm /\ currentTerm'[m.to] <= topTerm'
            /\ LastIndex(log'[m.to]) \in 0..MaxLog
        BY <1>1, <3>2, RaftAssumption DEF LogsOK, LastIndex
      <3>4. /\ currentTerm'[m.to] \in 1..MaxTerm
            /\ m.prevIndex + Len(m.entries) \in 0..MaxLog
        BY <3>1, <3>2, <3>3, RaftAssumption
      <3>5. Answers(m, ok) \in ReplyType
        BY <3>2, <3>3, <3>4 DEF Answers, ReplyType
      <3>6. r.from = m.from /\ r.to = m.to /\ r.respTerm = currentTerm'[m.to]
        BY <3>1 DEF Answers
      <3>7. QED BY <3>1, <3>2, <3>3, <3>5, <3>6
    <2>3. QED BY <2>1, <2>2
  <1>4. QED BY <1>3 DEF RepliesOK, RepliesAreKnown

-----------------------------------------------------------------------------
(* nextIndex and matchIndex, the commit index and what is applied *)

\* The bookkeeping of a leader stays within its log's bounds.
LEMMA NextProgressOK ==
    ASSUME RaftInv, [NextOrProbe]_raftVars
    PROVE  ProgressOK' /\ ArraysOK'
  <1>1. ProgressOK /\ ArraysOK /\ RepliesOK
    BY DEF RaftInv
  <1>2. ASSUME NEW i \in Node, NEW n \in [Peers(i) -> 1..MaxLog + 1],
               NEW k \in [Peers(i) -> 0..MaxLog],
               nextIndex' = [nextIndex EXCEPT ![i] = n],
               matchIndex' = [matchIndex EXCEPT ![i] = k]
        PROVE  ProgressOK' /\ ArraysOK'
    BY <1>1, <1>2 DEF ProgressOK, ArraysOK
  <1>3. CASE UNCHANGED leaderVars
    BY <1>1, <1>3 DEF ProgressOK, ArraysOK, leaderVars
  <1>4. ASSUME NEW i \in Node, WinElection(i) PROVE ProgressOK' /\ ArraysOK'
    <2>1. LastIndex(log[i]) + 1 \in 1..MaxLog + 1
      BY RaftAssumption DEF RaftInv, LogsOK, LastIndex
    <2>2. /\ [p \in Peers(i) |-> LastIndex(log[i]) + 1] \in [Peers(i) -> 1..MaxLog + 1]
          /\ [p \in Peers(i) |-> 0] \in [Peers(i) -> 0..MaxLog]
      BY <2>1, RaftAssumption
    <2>3. QED BY <1>2, <1>3, <1>4, <2>2 DEF WinElection
  <1>5. ASSUME NEW i \in Node, Restart(i) PROVE ProgressOK' /\ ArraysOK'
    <2>1. /\ [p \in Peers(i) |-> 1] \in [Peers(i) -> 1..MaxLog + 1]
          /\ [p \in Peers(i) |-> 0] \in [Peers(i) -> 0..MaxLog]
      BY RaftAssumption
    <2>2. QED BY <1>2, <1>5, <2>1 DEF Restart
  <1>6. ASSUME NEW r \in replies, ReceiveReply(r) PROVE ProgressOK' /\ ArraysOK'
    <2>1. /\ r.from \in Node /\ r.to \in Peers(r.from)
          /\ r.upTo \in 0..MaxLog /\ r.lastIndex \in 0..MaxLog
      BY <1>1 DEF RepliesOK, ReplyType, Peers
    <2>2. /\ nextIndex[r.from] \in [Peers(r.from) -> 1..MaxLog + 1]
          /\ matchIndex[r.from] \in [Peers(r.from) -> 0..MaxLog]
      BY <1>1, <2>1 DEF ProgressOK
    <2>3. CASE Matched(r)
      <3> DEFINE n == [nextIndex[r.from] EXCEPT ![r.to] = r.upTo + 1]
                 k == [matchIndex[r.from] EXCEPT ![r.to] = r.upTo]
      <3>1. n \in [Peers(r.from) -> 1..MaxLog + 1] /\ k \in [Peers(r.from) -> 0..MaxLog]
        BY <2>1, <2>2, RaftAssumption
      <3>2. /\ nextIndex' = [nextIndex EXCEPT ![r.from] = n]
            /\ matchIndex' = [matchIndex EXCEPT ![r.from] = k]
        BY <2>3 DEF Matched
      <3> HIDE DEF n, k
      <3>3. QED BY <1>2, <2>1, <3>1, <3>2
    <2>4. CASE WalkBack(r)
      <3> DEFINE v == IF r.lastIndex + 1 < nextIndex[r.from][r.to] THEN r.lastIndex + 1
                      ELSE IF nextIndex[r.from][r.to] > 1 THEN nextIndex[r.from][r.to] - 1
                           ELSE nextIndex[r.from][r.to]
                 n == [nextIndex[r.from] EXCEPT ![r.to] = v]
      <3>1. v \in 1..MaxLog + 1
        <4>1. nextIndex[r.from][r.to] \in 1..MaxLog + 1
          BY <2>1, <2>2
        <4>2. QED BY <2>1, <4>1, RaftAssumption
      <3>2. nextIndex' = [nextIndex EXCEPT ![r.from] = n] /\ matchIndex' = matchIndex
        BY <2>4 DEF WalkBack
      <3> HIDE DEF v
      <3>3. n \in [Peers(r.from) -> 1..MaxLog + 1]
        BY <2>1, <2>2, <3>1
      <3> HIDE DEF n
      <3>4. QED BY <1>1, <2>1, <3>2, <3>3 DEF ProgressOK, ArraysOK
    <2>5. QED
      BY <1>3, <1>6, <2>3, <2>4 DEF ReceiveReply, StepDown
  <1>7. QED
    BY <1>3, <1>4, <1>5, <1>6
       DEF NextOrProbe, Learns, HearsProbe, StepDown, Sends, Next, Background,
           ElectionStep, Propose, ProposeNoop, AdvanceCommit, Replicate, HandleAppendEntries, AppendCallFails,
           ReplyLost, raftVars

\* applyCommitted gives the state machine entries of the log.
LEMMA ApplyKeepsTypes ==
    ASSUME AppliedOK, LogsOK', NEW i \in Node, ApplyCommitted(i),
           commitIndex' \in [Node -> 0..MaxLog]
    PROVE  AppliedOK'
  <1> DEFINE to == IF commitIndex'[i] <= Len(log'[i]) THEN commitIndex'[i] ELSE Len(log'[i])
             new == SubSeq(log'[i], Len(applied[i]) + 1, to)
  <1>1. /\ log'[i] \in Seq(Entries) /\ applied \in [Node -> Seq(Entries)]
        /\ chosen \in Seq(Entries) /\ commitIndex'[i] \in 0..MaxLog
    BY DEF AppliedOK, LogsOK
  <1>2. to \in Int /\ to <= Len(log'[i]) /\ Len(applied[i]) + 1 \in Nat \ {0}
    BY <1>1, RaftAssumption
  <1>3. applied' = [applied EXCEPT ![i] = applied[i] \o new]
        /\ chosen' \in {applied'[i], chosen}
    BY DEF ApplyCommitted
  <1> HIDE DEF to
  <1>4. \A n \in (Len(applied[i]) + 1)..to : log'[i][n] \in Entries
    BY <1>1, <1>2
  <1>5. new \in Seq(Entries)
    BY <1>2, <1>4, SubSeqProperties
  <1> HIDE DEF new
  <1>6. applied[i] \o new \in Seq(Entries)
    BY <1>1, <1>5
  <1>7. applied' \in [Node -> Seq(Entries)] /\ applied'[i] \in Seq(Entries)
    BY <1>1, <1>3, <1>6
  <1>8. QED
    BY <1>1, <1>3, <1>7 DEF AppliedOK

\* The commit index advanceCommit finds is one of the log's.
LEMMA CommittableIsInLog ==
    ASSUME RaftInv, NEW i \in Node, Committable(i) # {}
    PROVE  LET n == CHOOSE n \in Committable(i) : \A k \in Committable(i) : k <= n
           IN  n \in Committable(i) /\ n \in (commitIndex[i] + 1)..Len(log[i])
  <1>1. Len(log[i]) \in Nat /\ commitIndex[i] \in Nat
    BY RaftAssumption DEF RaftInv, LogsOK, AppliedOK
  <1>2. Committable(i) \in SUBSET (0..Len(log[i]))
    BY <1>1 DEF Committable, LastIndex
  <1>3. \E n \in Committable(i) : \A k \in Committable(i) : k <= n
    BY <1>1, <1>2, GreatestBounded
  <1>4. QED
    BY <1>3 DEF Committable, LastIndex

\* What is committed and applied stays typed.
LEMMA NextAppliedOK ==
    ASSUME RaftInv, [NextOrProbe]_raftVars, LogsOK'
    PROVE  AppliedOK'
  <1>1. AppliedOK
    BY DEF RaftInv
  <1>2. CASE UNCHANGED applyVars
    BY <1>1, <1>2 DEF AppliedOK, applyVars
  <1>3. ASSUME NEW i \in Node, AdvanceCommit(i) PROVE AppliedOK'
    <2>1. commitIndex' \in [Node -> 0..MaxLog]
      <3> DEFINE n == CHOOSE n \in Committable(i) : \A k \in Committable(i) : k <= n
      <3>1. commitIndex' = [commitIndex EXCEPT ![i] = n] /\ Committable(i) # {}
        BY <1>3 DEF AdvanceCommit
      <3>2. n \in (commitIndex[i] + 1)..Len(log[i])
        BY <3>1, CommittableIsInLog
      <3> HIDE DEF n
      <3>3. n \in 0..MaxLog
        BY <1>1, <3>2, RaftAssumption DEF AppliedOK, RaftInv, LogsOK
      <3>4. QED BY <1>1, <3>1, <3>3 DEF AppliedOK
    <2>2. QED BY <1>1, <1>3, <2>1, ApplyKeepsTypes DEF AdvanceCommit
  <1>4. ASSUME NEW m \in requests, Accept(m.to, m) PROVE AppliedOK'
    <2>1. /\ m.to \in Node /\ m.commit \in 0..MaxLog /\ m.prevIndex \in Nat
          /\ Len(m.entries) \in Nat /\ m.prevIndex + Len(m.entries) <= MaxLog
      BY DEF RaftInv, RequestsOK, RequestType
    <2>2. CommitAfter(m.to, m) \in 0..MaxLog
      BY <1>1, <2>1, RaftAssumption DEF AppliedOK, CommitAfter
    <2>3. commitIndex' \in [Node -> 0..MaxLog]
      BY <1>1, <1>4, <2>1, <2>2 DEF Accept, AppliedOK
    <2>4. QED BY <1>1, <1>4, <2>1, <2>3, ApplyKeepsTypes DEF Accept
  <1>5. ASSUME NEW i \in Node, Restart(i) PROVE AppliedOK'
    BY <1>1, <1>5, RaftAssumption DEF Restart, AppliedOK
  <1>6. ASSUME NEW m \in requests, HandleAppendEntries(m) PROVE AppliedOK'
    BY <1>2, <1>4, <1>6
       DEF HandleAppendEntries, RejectStale, RejectGap, FailAppend, FailStore
  <1>7. QED
    BY <1>2, <1>3, <1>5, <1>6
       DEF NextOrProbe, Learns, HearsProbe, Sends, Next, Background, ElectionStep, WinElection,
           Propose, ProposeNoop, Replicate, ReceiveReply, AppendCallFails, ReplyLost, raftVars

-----------------------------------------------------------------------------
(* The theorems *)

\* The invariant holds at the start.
LEMMA InitRaftInv == Init => RaftInv
  <1> SUFFICES ASSUME Init PROVE RaftInv
    OBVIOUS
  <1>1. EP!LeaderInv
    BY SameStates, ElectionAssumptionsHold, EP!InitLeaderInv DEF Init
  <1>2. LogsOK /\ ProgressOK /\ ArraysOK /\ AppliedOK
    BY RaftAssumption DEF Init, LogsOK, ProgressOK, ArraysOK, AppliedOK
  <1>3. RequestsOK /\ RepliesOK /\ RequestsNameWinners /\ RepliesAreKnown
    BY DEF Init, RequestsOK, RepliesOK, RequestsNameWinners, RepliesAreKnown
  <1>4. QED BY <1>1, <1>2, <1>3 DEF RaftInv

\* Every step keeps it.
LEMMA NextRaftInv == RaftInv /\ [NextOrProbe]_raftVars => RaftInv'
  <1> SUFFICES ASSUME RaftInv, [NextOrProbe]_raftVars PROVE RaftInv'
    OBVIOUS
  <1>1. LogsOK'
    BY NextLogsOK
  <1>2. EP!LeaderInv' /\ elected \subseteq elected' /\ topTerm' >= topTerm
    BY <1>1, ElectionsGoOn
  <1>3. ProgressOK' /\ ArraysOK' /\ AppliedOK'
    BY <1>1, NextProgressOK, NextAppliedOK
  <1>4. RequestsOK' /\ RequestsNameWinners' /\ RepliesOK' /\ RepliesAreKnown'
    BY <1>1, <1>2, NextRequestsOK, NextRequestsNameWinners, NextRepliesOK
  <1>5. QED BY <1>1, <1>2, <1>3, <1>4 DEF RaftInv

\* Every variable keeps its type, whatever fails and however late calls are
\* answered; no log outgrows MaxLog and no term MaxTerm.
THEOREM RaftTypeCorrect == Spec => []RaftTypeOK
  <1>1. QED
    BY InitRaftInv, NextRaftInv, RaftInvTyped, NextIsNextOrProbe, PTL DEF Spec

\* The elections of a cluster that replicates are those of module Election:
\* what campaign, winElection, HandleRequestVote, handleAppendEntries and
\* replicateTo do to terms, votes and roles is what it allows them to do.
THEOREM RaftImplementsElection == Spec => ElectionSpec
  <1>1. Init => E!Init
    BY DEF Init
  <1>2. RaftInv /\ [NextOrProbe]_raftVars => [E!Next]_(E!electionVars)
    BY NextIsElectionStep, NextLogsOK
  <1>3. QED
    BY <1>1, <1>2, InitRaftInv, NextRaftInv, NextIsNextOrProbe, PTL
       DEF Spec, ElectionSpec, E!Spec

-----------------------------------------------------------------------------
(* Log Matching, for every set of faults.  A log, and a request in the     *)
(* network, is a segment of the one history of the term it ends in.  Two   *)
(* segments that have an entry of the same term at the same position agree *)
(* on everything before it that both of them cover, the position a request *)
(* is anchored at included.  Entries of a term appear at the end of the    *)
(* log of its only leader, so a new one agrees with no other; everything   *)
(* else cuts segments out of segments, or splices one into another where   *)
(* the two agree.                                                          *)

\* Entries that follow position prev, where an entry of term prevTerm is; the
\* start of the log is position 0 and has term 0.
LogSegment(l) == [prev |-> 0, prevTerm |-> 0, entries |-> l]

RequestSegment(m) == [prev |-> m.prevIndex, prevTerm |-> m.prevTerm, entries |-> m.entries]

Segments == {LogSegment(log[i]) : i \in Node} \cup {RequestSegment(m) : m \in requests}

Covers(s, r) == r > s.prev /\ r <= s.prev + Len(s.entries)

EntryIn(s, r) == s.entries[r - s.prev]

TermIn(s, r) == IF r = s.prev THEN s.prevTerm ELSE EntryIn(s, r).term

\* Segments s and t have the same past at position r, as far as both go back.
SameAt(s, t, r) ==
    /\ TermIn(s, r) = TermIn(t, r)
    /\ r > s.prev /\ r > t.prev => EntryIn(s, r) = EntryIn(t, r)

Agree(s, t) ==
    \A k \in 1..MaxLog :
       Covers(s, k) /\ Covers(t, k) /\ EntryIn(s, k).term = EntryIn(t, k).term
         => \A r \in 0..k : r >= s.prev /\ r >= t.prev => SameAt(s, t, r)

SegmentsAgree == \A s, t \in Segments : Agree(s, t)

\* Every entry anywhere is of a term somebody has won.
EntriesNameWinners ==
    \A s \in Segments : \A k \in 1..MaxLog :
       Covers(s, k) => \E e \in elected : e.term = EntryIn(s, k).term

\* No entry of a leader's term is beyond the end of the leader's log.
LeadersHaveTheirTerm ==
    \A i \in Node : role[i] = "Leader" =>
       \A s \in Segments : \A k \in 1..MaxLog :
          Covers(s, k) /\ EntryIn(s, k).term = currentTerm[i] => k <= Len(log[i])

MatchingInv == RaftInv /\ SegmentsAgree /\ EntriesNameWinners /\ LeadersHaveTheirTerm

-----------------------------------------------------------------------------
(* Segments *)

IsSegment(s) ==
    /\ s.prev \in 0..MaxLog
    /\ s.entries \in Seq(Entries)
    /\ s.prev + Len(s.entries) <= MaxLog

\* Logs and requests are segments.
LEMMA SegmentsAre == RaftInv => \A s \in Segments : IsSegment(s)
  <1> SUFFICES ASSUME RaftInv PROVE \A s \in Segments : IsSegment(s)
    OBVIOUS
  <1>1. ASSUME NEW i \in Node PROVE IsSegment(LogSegment(log[i]))
    BY RaftAssumption DEF RaftInv, LogsOK, IsSegment, LogSegment
  <1>2. ASSUME NEW m \in requests PROVE IsSegment(RequestSegment(m))
    BY DEF RaftInv, RequestsOK, RequestType, IsSegment, RequestSegment
  <1>3. QED BY <1>1, <1>2 DEF Segments

\* Agreement does not depend on the order.
LEMMA AgreeSymmetric == ASSUME NEW s, NEW t, Agree(s, t) PROVE Agree(t, s)
  BY DEF Agree, SameAt

\* A segment agrees with itself.
LEMMA AgreeReflexive == ASSUME NEW s PROVE Agree(s, s)
  BY DEF Agree, SameAt

\* The types of a segment.
LEMMA SegmentTypes ==
    ASSUME NEW s, IsSegment(s)
    PROVE  /\ s.prev \in Nat /\ Len(s.entries) \in Nat
           /\ s.prev + Len(s.entries) <= MaxLog /\ MaxLog \in Nat
  BY RaftAssumption DEF IsSegment

\* A request spliced into a log: what agrees with both agrees with the result.
LEMMA SpliceAgrees ==
    ASSUME NEW s, NEW m, NEW t, NEW new,
           IsSegment(s), IsSegment(m), IsSegment(t), IsSegment(new),
           s.prev = 0, new.prev = 0, new.prevTerm = s.prevTerm,
           NEW c \in m.prev..Len(s.entries), c <= m.prev + Len(m.entries),
           TermIn(s, c) = TermIn(m, c),
           Len(new.entries) <= m.prev + Len(m.entries), Len(new.entries) >= c,
           \A r \in 1..c : new.entries[r] = s.entries[r],
           \A r \in (c + 1)..Len(new.entries) : new.entries[r] = m.entries[r - m.prev],
           Agree(s, t), Agree(m, t)
    PROVE  Agree(new, t)
  <1>1. /\ m.prev \in Nat /\ t.prev \in Nat /\ c \in Nat
        /\ Len(s.entries) \in Nat /\ Len(m.entries) \in Nat
        /\ Len(t.entries) \in Nat /\ Len(new.entries) \in Nat
        /\ m.prev + Len(m.entries) <= MaxLog /\ Len(s.entries) <= MaxLog /\ MaxLog \in Nat
    <2>1. /\ m.prev \in Nat /\ Len(m.entries) \in Nat /\ m.prev + Len(m.entries) <= MaxLog
          /\ Len(s.entries) \in Nat /\ s.prev + Len(s.entries) <= MaxLog /\ MaxLog \in Nat
      BY SegmentTypes
    <2>2. t.prev \in Nat /\ Len(t.entries) \in Nat /\ Len(new.entries) \in Nat
      BY SegmentTypes
    <2>3. QED BY <2>1, <2>2
  <1>2. ASSUME NEW r \in 0..c PROVE TermIn(new, r) = TermIn(s, r)
    <2>1. CASE r = 0
      BY <2>1 DEF TermIn
    <2>2. CASE r # 0
      <3>1. r \in 1..c /\ r - 0 = r
        BY <1>1, <2>2
      <3>2. new.entries[r] = s.entries[r]
        BY <3>1
      <3>3. QED BY <2>2, <3>1, <3>2 DEF TermIn, EntryIn
    <2>3. QED BY <2>1, <2>2
  <1>3. ASSUME NEW r \in 1..c PROVE EntryIn(new, r) = EntryIn(s, r)
    <2>1. r - 0 = r
      BY <1>1
    <2>2. QED BY <2>1 DEF EntryIn
  <1>4. ASSUME NEW r \in (c + 1)..Len(new.entries)
        PROVE  /\ EntryIn(new, r) = EntryIn(m, r) /\ TermIn(new, r) = TermIn(m, r)
               /\ r > m.prev
    <2>1. r - 0 = r /\ r # 0 /\ r # m.prev /\ r > m.prev
      BY <1>1
    <2>2. EntryIn(new, r) = EntryIn(m, r)
      BY <2>1 DEF EntryIn
    <2>3. QED BY <2>1, <2>2 DEF TermIn
  <1>5. ASSUME NEW k \in 1..MaxLog, Covers(new, k), Covers(t, k),
               EntryIn(new, k).term = EntryIn(t, k).term,
               NEW r \in 0..k, r >= new.prev, r >= t.prev
        PROVE  SameAt(new, t, r)
    <2>1. k <= Len(new.entries) /\ k > t.prev
      BY <1>1, <1>5 DEF Covers
    \* The past of s at position c is the past of t, if the two agree there.
    <2>2. ASSUME NEW q \in 1..c, Covers(t, q), EntryIn(s, q).term = EntryIn(t, q).term, r <= q
          PROVE  SameAt(new, t, r)
      <3>1. q \in 1..MaxLog /\ Covers(s, q) /\ r \in 0..q
        BY <1>1, <1>5, <2>2 DEF Covers
      <3>2. SameAt(s, t, r)
        BY <1>5, <2>2, <3>1 DEF Agree
      <3>3. r \in 0..c /\ (r > 0 => r \in 1..c)
        BY <1>1, <2>2, <3>1
      <3>4. QED BY <1>2, <1>3, <3>2, <3>3 DEF SameAt
    <2>3. CASE k <= c
      <3>1. k \in 1..c
        BY <1>1, <2>3
      <3>2. EntryIn(s, k).term = EntryIn(t, k).term
        BY <1>3, <1>5, <3>1
      <3>3. QED BY <1>5, <2>2, <3>1, <3>2
    <2>4. CASE k > c
      <3>1. k \in (c + 1)..Len(new.entries)
        BY <1>1, <2>1, <2>4
      <3>2. Covers(m, k) /\ EntryIn(m, k).term = EntryIn(t, k).term
        BY <1>1, <1>4, <1>5, <2>1, <3>1 DEF Covers
      <3>3. \A q \in 0..k : q >= m.prev /\ q >= t.prev => SameAt(m, t, q)
        BY <1>5, <3>2 DEF Agree
      <3>4. CASE r > c
        <4>1. r \in (c + 1)..Len(new.entries) /\ r >= m.prev
          BY <1>1, <2>1, <3>4
        <4>2. SameAt(m, t, r)
          BY <1>5, <3>3, <4>1
        <4>3. QED BY <1>4, <4>1, <4>2 DEF SameAt
      <3>5. CASE r <= c
        <4>1. c \in 0..k /\ c >= m.prev /\ c >= t.prev
          BY <1>1, <1>5, <2>4, <3>5
        <4>2. TermIn(s, c) = TermIn(t, c)
          BY <3>3, <4>1 DEF SameAt
        <4>3. CASE c > t.prev
          <5>1. c \in 1..c /\ c # t.prev /\ c # 0 /\ Covers(t, c)
            BY <1>1, <1>5, <2>4, <4>3 DEF Covers
          <5>2. EntryIn(s, c).term = EntryIn(t, c).term
            BY <4>2, <5>1 DEF TermIn
          <5>3. QED BY <2>2, <3>5, <5>1, <5>2
        <4>4. CASE c = t.prev
          <5>1. r = c /\ ~(r > t.prev) /\ r \in 0..c
            BY <1>1, <1>5, <3>5, <4>4
          <5>2. TermIn(new, r) = TermIn(t, r)
            BY <1>2, <4>2, <5>1
          <5>3. QED BY <5>1, <5>2 DEF SameAt
        <4>5. QED BY <1>1, <4>1, <4>3, <4>4
      <3>6. QED BY <1>1, <3>4, <3>5
    <2>5. QED BY <1>1, <2>3, <2>4
  <1>6. QED BY <1>5 DEF Agree

\* A request cut out of a log: what agrees with the log agrees with it.
LEMMA CutAgrees ==
    ASSUME NEW s, NEW q, NEW t, IsSegment(s), IsSegment(q), IsSegment(t), s.prev = 0,
           q.prev + Len(q.entries) <= Len(s.entries) \/ Len(q.entries) = 0,
           q.prev <= Len(s.entries) => q.prevTerm = TermIn(s, q.prev),
           \A r \in 1..Len(q.entries) : q.entries[r] = s.entries[q.prev + r],
           Agree(s, t)
    PROVE  Agree(q, t)
  <1>1. /\ q.prev \in Nat /\ t.prev \in Nat /\ Len(q.entries) \in Nat /\ Len(t.entries) \in Nat
        /\ Len(s.entries) \in Nat /\ MaxLog \in Nat
    BY RaftAssumption DEF IsSegment
  <1>2. ASSUME NEW r \in Nat, Covers(q, r)
        PROVE  Covers(s, r) /\ EntryIn(q, r) = EntryIn(s, r) /\ q.prev < Len(s.entries)
    <2>1. r - q.prev \in 1..Len(q.entries) /\ q.prev + (r - q.prev) = r /\ r - 0 = r
      BY <1>1, <1>2 DEF Covers
    <2>2. /\ Len(q.entries) # 0 /\ q.prev + Len(q.entries) <= Len(s.entries)
          /\ r <= q.prev + Len(q.entries) /\ r >= 1
      BY <1>1, <1>2, <2>1 DEF Covers
    <2>3. Covers(s, r) /\ q.prev < Len(s.entries)
      BY <1>1, <1>2, <2>2 DEF Covers
    <2>4. QED BY <2>1, <2>3 DEF EntryIn
  <1>3. ASSUME NEW k \in 1..MaxLog, Covers(q, k), Covers(t, k),
               EntryIn(q, k).term = EntryIn(t, k).term,
               NEW r \in 0..k, r >= q.prev, r >= t.prev
        PROVE  SameAt(q, t, r)
    <2>1. Covers(s, k) /\ EntryIn(q, k) = EntryIn(s, k) /\ q.prev < Len(s.entries)
      BY <1>1, <1>2, <1>3
    <2>2. SameAt(s, t, r)
      BY <1>1, <1>3, <2>1 DEF Agree
    <2>3. CASE r = q.prev
      <3>1. TermIn(q, r) = TermIn(s, r)
        BY <1>1, <2>1, <2>3 DEF TermIn
      <3>2. QED BY <1>1, <2>2, <2>3, <3>1 DEF SameAt
    <2>4. CASE r # q.prev
      <3>1. r \in Nat /\ Covers(q, r) /\ r # 0 /\ r > 0
        BY <1>1, <1>3, <2>4 DEF Covers
      <3>2. EntryIn(q, r) = EntryIn(s, r)
        BY <1>2, <3>1
      <3>3. TermIn(q, r) = TermIn(s, r)
        BY <2>4, <3>1, <3>2 DEF TermIn
      <3>4. QED BY <2>2, <3>1, <3>2, <3>3 DEF SameAt
    <2>5. QED BY <2>3, <2>4
  <1>4. QED BY <1>3 DEF Agree

\* An entry appended to a log: what agrees with the log, and has no entry of
\* that term there, agrees with the result.
LEMMA AppendAgrees ==
    ASSUME NEW s, NEW new, NEW t, IsSegment(s), IsSegment(new), IsSegment(t),
           s.prev = 0, new.prev = 0, new.prevTerm = s.prevTerm,
           Len(new.entries) = Len(s.entries) + 1,
           \A r \in 1..Len(s.entries) : new.entries[r] = s.entries[r],
           Covers(t, Len(new.entries)) =>
              EntryIn(t, Len(new.entries)).term # new.entries[Len(new.entries)].term,
           Agree(s, t)
    PROVE  Agree(new, t)
  <1>1. /\ t.prev \in Nat /\ Len(s.entries) \in Nat /\ MaxLog \in Nat
        /\ Len(new.entries) \in Nat
    BY RaftAssumption DEF IsSegment
  <1>2. ASSUME NEW r \in 1..Len(s.entries)
        PROVE  EntryIn(new, r) = EntryIn(s, r) /\ TermIn(new, r) = TermIn(s, r)
    <2>1. r - 0 = r /\ r # 0
      BY <1>1
    <2>2. QED BY <2>1 DEF EntryIn, TermIn
  <1>3. ASSUME NEW k \in 1..MaxLog, Covers(new, k), Covers(t, k),
               EntryIn(new, k).term = EntryIn(t, k).term,
               NEW r \in 0..k, r >= new.prev, r >= t.prev
        PROVE  SameAt(new, t, r)
    <2>1. k # Len(new.entries)
      <3>1. k - 0 = k
        OBVIOUS
      <3>2. QED BY <1>3, <3>1 DEF EntryIn
    <2>2. k \in 1..Len(s.entries) /\ Covers(s, k)
      BY <1>1, <1>3, <2>1 DEF Covers
    <2>3. SameAt(s, t, r)
      BY <1>2, <1>3, <2>2 DEF Agree
    <2>4. CASE r = 0
      BY <2>3, <2>4 DEF SameAt, TermIn
    <2>5. CASE r # 0
      <3>1. r \in 1..Len(s.entries) /\ r > 0
        BY <1>1, <2>2, <2>5
      <3>2. QED BY <1>2, <2>3, <3>1 DEF SameAt
    <2>6. QED BY <2>4, <2>5
  <1>4. QED BY <1>3 DEF Agree

-----------------------------------------------------------------------------
(* Where new segments come from *)

\* Requests that were there before have the segments they had.
OldRequests == \A q \in requests' : q \in requests \/ \E m \in requests : Resent(q, m)

\* A segment of such a request is nothing new.
LEMMA OldRequestSegments ==
    ASSUME OldRequests, NEW q \in requests'
    PROVE  RequestSegment(q) \in Segments
  <1>1. PICK m \in requests : RequestSegment(q) = RequestSegment(m)
    BY DEF OldRequests, Resent, RequestSegment
  <1>2. QED BY <1>1 DEF Segments

\* One step makes at most one new segment, out of old ones.
LEMMA SegmentsMove ==
    ASSUME RaftInv, [NextOrProbe]_raftVars
    PROVE  \/ Segments' \subseteq Segments /\ log' = log
           \/ \E i \in Node, cmd \in Command \cup {Noop} :
                 /\ Proposes(i, cmd)
                 /\ Segments' \subseteq Segments \cup {LogSegment(log'[i])}
           \/ \E m \in requests : \E j \in 0..Len(m.entries) :
                 /\ Stores(m, j)
                 /\ Segments' \subseteq Segments \cup {LogSegment(log'[m.to])}
           \/ \E i \in Node : \E p \in Peers(i) : \E m \in Sendable(i, p) :
                 /\ Sends(i, m)
                 /\ Segments' \subseteq Segments \cup {RequestSegment(m)}
  <1>1. LogsOK /\ RequestsOK
    BY DEF RaftInv
  <1>2. ASSUME NEW i \in Node, NEW p \in Peers(i), NEW m \in Sendable(i, p), Sends(i, m)
        PROVE  Segments' \subseteq Segments \cup {RequestSegment(m)}
    BY <1>2 DEF Sends, Segments
  <1>3. ASSUME OldRequests, log' = log PROVE Segments' \subseteq Segments
    <2>1. \A n \in Node : LogSegment(log'[n]) \in Segments
      BY <1>3 DEF Segments
    <2>2. QED BY <1>3, <2>1, OldRequestSegments DEF Segments
  <1>4. ASSUME OldRequests, NEW i \in Node, \A n \in Node : n # i => log'[n] = log[n]
        PROVE  Segments' \subseteq Segments \cup {LogSegment(log'[i])}
    <2>1. \A n \in Node : LogSegment(log'[n]) \in Segments \cup {LogSegment(log'[i])}
      BY <1>4 DEF Segments
    <2>2. QED BY <1>4, <2>1, OldRequestSegments DEF Segments
  <1>5. ASSUME OldRequests, NEW i \in Node, NEW cmd \in Command \cup {Noop}, Proposes(i, cmd)
        PROVE  Segments' \subseteq Segments \cup {LogSegment(log'[i])}
    BY <1>4, <1>5, ProposedLog
  <1>6. ASSUME OldRequests, NEW m \in requests, NEW j \in 0..Len(m.entries), Stores(m, j)
        PROVE  Segments' \subseteq Segments \cup {LogSegment(log'[m.to])}
    <2>1. m.to \in Node /\ \A n \in Node : n # m.to => log'[n] = log[n]
      BY <1>1, <1>6, StoredLog
    <2>2. QED BY <1>4, <1>6, <2>1
  <1>7. CASE OldRequests
    BY <1>1, <1>3, <1>5, <1>6, <1>7, LogsMove
  <1>8. CASE ~OldRequests
    BY <1>1, <1>2, <1>8, RequestsMove DEF OldRequests
  <1>9. QED BY <1>7, <1>8

\* The entry a leader appends, as a segment.
LEMMA ProposedSegment ==
    ASSUME RaftInv, NEW i \in Node, NEW cmd \in Command \cup {Noop}, Proposes(i, cmd)
    PROVE  LET s == LogSegment(log[i])
               new == LogSegment(log'[i])
               n == Len(log[i]) + 1
           IN  /\ s \in Segments /\ s.prev = 0 /\ new.prev = 0 /\ new.prevTerm = s.prevTerm
               /\ IsSegment(new) /\ n \in 1..MaxLog
               /\ Len(s.entries) = Len(log[i]) /\ Len(new.entries) = n
               /\ \A r \in 1..Len(s.entries) : new.entries[r] = s.entries[r]
               /\ new.entries[n].term = currentTerm[i]
  <1>1. /\ role[i] = "Leader"
        /\ log'[i] \in Seq(Entries) /\ Len(log'[i]) = Len(log[i]) + 1
        /\ Len(log[i]) < MaxLog /\ Len(log[i]) \in Nat
        /\ \A r \in 1..Len(log[i]) : log'[i][r] = log[i][r]
        /\ log'[i][Len(log[i]) + 1] = [term |-> currentTerm[i], cmd |-> cmd]
    BY ProposedLog DEF RaftInv, LogsOK
  <1>2. Len(log[i]) + 1 \in 1..MaxLog /\ MaxLog \in Nat
    BY <1>1, RaftAssumption
  <1>3. IsSegment(LogSegment(log'[i]))
    BY <1>1, <1>2 DEF IsSegment, LogSegment
  <1>4. QED
    BY <1>1, <1>2, <1>3 DEF LogSegment, Segments

\* What a handler stores, as a segment: a log and a request spliced together
\* at a position where they have the same term.
LEMMA StoredSegment ==
    ASSUME RaftInv, NEW m \in requests, NEW j \in 0..Len(m.entries), Stores(m, j), LogsOK'
    PROVE  \E c \in Nat :
             LET s == LogSegment(log[m.to])
                 q == RequestSegment(m)
                 new == LogSegment(log'[m.to])
             IN  /\ m.to \in Node
                 /\ s \in Segments /\ q \in Segments /\ IsSegment(new)
                 /\ s.prev = 0 /\ new.prev = 0 /\ new.prevTerm = s.prevTerm
                 /\ c \in q.prev..Len(s.entries) /\ c <= q.prev + Len(q.entries)
                 /\ TermIn(s, c) = TermIn(q, c)
                 /\ Len(new.entries) <= q.prev + Len(q.entries) /\ Len(new.entries) >= c
                 /\ \A r \in 1..c : new.entries[r] = s.entries[r]
                 /\ \A r \in (c + 1)..Len(new.entries) : new.entries[r] = q.entries[r - q.prev]
  <1> DEFINE i == m.to
             k == SkipCount(log[i], m.prevIndex, m.entries)
             c == m.prevIndex + k
             s == LogSegment(log[i])
             q == RequestSegment(m)
             new == LogSegment(log'[i])
  <1>1. /\ i \in Node /\ m.prevIndex \in 0..Len(log[i])
        /\ TermAt(log[i], m.prevIndex) = m.prevTerm
        /\ c \in m.prevIndex..Len(log[i]) /\ j \in k..Len(m.entries) /\ k \in Nat
        /\ \A r \in 1..k : log[i][m.prevIndex + r].term = m.entries[r].term
        /\ log'[i] \in Seq(Entries) /\ Len(log'[i]) = m.prevIndex + j
        /\ \A r \in 1..c : log'[i][r] = log[i][r]
        /\ \A r \in (c + 1)..(m.prevIndex + j) : log'[i][r] = m.entries[r - m.prevIndex]
    BY StoredLog DEF RaftInv
  <1>2. /\ m.prevIndex \in Nat /\ Len(m.entries) \in Nat /\ Len(log[i]) \in Nat /\ j \in Nat
        /\ log[i] \in Seq(Entries)
    BY <1>1 DEF RaftInv, LogsOK, RequestsOK, RequestType
  <1>3. s \in Segments /\ q \in Segments
    BY <1>1 DEF Segments
  <1>4. IsSegment(new)
    BY <1>1, RaftAssumption DEF LogsOK, IsSegment, LogSegment
  <1>5. /\ s.prev = 0 /\ s.prevTerm = 0 /\ s.entries = log[i]
        /\ new.prev = 0 /\ new.prevTerm = 0 /\ new.entries = log'[i]
        /\ q.prev = m.prevIndex /\ q.prevTerm = m.prevTerm /\ q.entries = m.entries
    BY DEF LogSegment, RequestSegment
  <1> HIDE DEF s, q, new, k
  <1>6. TermIn(s, c) = TermIn(q, c)
    <2>1. c - 0 = c /\ c - m.prevIndex = k /\ DOMAIN log[i] = 1..Len(log[i])
      BY <1>1, <1>2
    <2>2. CASE k = 0
      <3>1. c = m.prevIndex
        BY <1>2, <2>2
      <3>2. TermIn(q, c) = m.prevTerm
        BY <1>5, <3>1 DEF TermIn
      <3>3. TermIn(s, c) = TermAt(log[i], c)
        <4>1. CASE c = 0
          BY <1>5, <2>1, <4>1 DEF TermIn, TermAt
        <4>2. CASE c # 0
          <5>1. c \in 1..Len(log[i])
            BY <1>1, <1>2, <4>2
          <5>2. QED BY <1>5, <2>1, <4>2, <5>1 DEF TermIn, TermAt, EntryIn
        <4>3. QED BY <4>1, <4>2
      <3>4. QED BY <1>1, <3>1, <3>2, <3>3
    <2>3. CASE k # 0
      <3>1. k \in 1..k /\ c # m.prevIndex /\ c # 0
        BY <1>1, <1>2, <2>3
      <3>2. log[i][c].term = m.entries[k].term
        BY <1>1, <3>1
      <3>3. QED BY <1>5, <2>1, <3>1, <3>2 DEF TermIn, EntryIn
    <2>4. QED BY <2>2, <2>3
  <1>7. /\ c \in Nat /\ c <= m.prevIndex + Len(m.entries)
        /\ m.prevIndex + j <= m.prevIndex + Len(m.entries) /\ m.prevIndex + j >= c
    BY <1>1, <1>2
  <1>8. QED
    BY <1>1, <1>3, <1>4, <1>5, <1>6, <1>7, ZenonT(40) DEF s, q, new

\* What a leader sends, as a segment: cut out of its log.
LEMMA SentSegment ==
    ASSUME RaftInv, NEW i \in Node, NEW p \in Peers(i), NEW m \in Sendable(i, p), Sends(i, m)
    PROVE  LET s == LogSegment(log[i])
               q == RequestSegment(m)
           IN  /\ s \in Segments /\ s.prev = 0 /\ IsSegment(q)
               /\ q.prev + Len(q.entries) <= Len(s.entries) \/ Len(q.entries) = 0
               /\ q.prev <= Len(s.entries) => q.prevTerm = TermIn(s, q.prev)
               /\ \A r \in 1..Len(q.entries) : q.entries[r] = s.entries[q.prev + r]
               /\ Len(s.entries) = Len(log[i])
  <1> DEFINE s == LogSegment(log[i])
             q == RequestSegment(m)
             prev == m.prevIndex
  <1>1. /\ m \in RequestType /\ prev \in 0..MaxLog
        /\ m.prevIndex = prev /\ m.prevTerm = TermAt(log[i], prev)
        /\ \/ Len(m.entries) = 0
           \/ prev <= Len(log[i]) /\ Len(m.entries) = Len(log[i]) - prev
        /\ \A r \in 1..Len(m.entries) : m.entries[r] = log[i][prev + r]
        /\ prev + Len(m.entries) <= MaxLog
    BY RequestIs DEF Sends
  <1>2. log[i] \in Seq(Entries) /\ Len(log[i]) \in Nat
    BY DEF RaftInv, LogsOK
  <1> HIDE DEF prev
  <1>3. /\ s.prev = 0 /\ s.prevTerm = 0 /\ s.entries = log[i]
        /\ q.prev = m.prevIndex /\ q.prevTerm = m.prevTerm /\ q.entries = m.entries
    BY DEF LogSegment, RequestSegment
  <1>4. s \in Segments
    BY DEF Segments
  <1>5. IsSegment(q)
    <2>1. m.entries \in Seq(Entries)
      BY <1>1 DEF RequestType
    <2>2. QED BY <1>1, <1>3, <2>1 DEF IsSegment
  <1> HIDE DEF s, q
  <1>6. ASSUME prev <= Len(log[i]) PROVE TermAt(log[i], prev) = TermIn(s, prev)
    <2>1. prev - 0 = prev /\ DOMAIN log[i] = 1..Len(log[i]) /\ prev \in Nat
      BY <1>1, <1>2, RaftAssumption
    <2>2. CASE prev = 0
      BY <1>3, <2>1, <2>2 DEF TermIn, TermAt
    <2>3. CASE prev # 0
      <3>1. prev \in 1..Len(log[i])
        BY <1>6, <2>1, <2>3
      <3>2. QED BY <1>3, <2>1, <2>3, <3>1 DEF TermIn, TermAt, EntryIn
    <2>4. QED BY <2>2, <2>3
  <1>7. prev + Len(m.entries) <= Len(log[i]) \/ Len(m.entries) = 0
    <2>1. prev \in Nat
      BY <1>1, RaftAssumption
    <2>2. QED BY <1>1, <1>2, <2>1
  <1>8. QED
    BY <1>1, <1>3, <1>4, <1>5, <1>6, <1>7 DEF s, q

-----------------------------------------------------------------------------
(* Every step keeps the invariant *)

\* An entry of a segment was in a segment before, at the same position, or a
\* leader has just appended it.
LEMMA EntriesMove ==
    ASSUME RaftInv, LogsOK', [NextOrProbe]_raftVars,
           NEW x \in Segments', NEW k \in 1..MaxLog, Covers(x, k)
    PROVE  \/ \E s \in Segments : Covers(s, k) /\ EntryIn(s, k) = EntryIn(x, k)
           \/ \E i \in Node, cmd \in Command \cup {Noop} :
                 /\ Proposes(i, cmd)
                 /\ x = LogSegment(log'[i]) /\ k = Len(log[i]) + 1
                 /\ EntryIn(x, k).term = currentTerm[i]
  <1>0. \A s \in Segments : IsSegment(s)
    BY SegmentsAre
  <1>1. CASE x \in Segments
    BY <1>1
  <1>2. ASSUME NEW i \in Node, NEW cmd \in Command \cup {Noop}, Proposes(i, cmd),
               x = LogSegment(log'[i])
        PROVE  \/ \E s \in Segments : Covers(s, k) /\ EntryIn(s, k) = EntryIn(x, k)
               \/ k = Len(log[i]) + 1 /\ EntryIn(x, k).term = currentTerm[i]
    <2> DEFINE s == LogSegment(log[i])
    <2>1. /\ s \in Segments /\ s.prev = 0 /\ x.prev = 0
          /\ Len(s.entries) = Len(log[i]) /\ Len(x.entries) = Len(log[i]) + 1
          /\ \A r \in 1..Len(s.entries) : x.entries[r] = s.entries[r]
          /\ x.entries[Len(log[i]) + 1].term = currentTerm[i]
      BY <1>2, ProposedSegment
    <2>2. Len(log[i]) \in Nat /\ k - 0 = k
      BY DEF RaftInv, LogsOK
    <2> HIDE DEF s
    <2>3. CASE k = Len(log[i]) + 1
      BY <2>1, <2>2, <2>3 DEF EntryIn
    <2>4. CASE k # Len(log[i]) + 1
      <3>1. k \in 1..Len(s.entries) /\ Covers(s, k)
        BY <2>1, <2>2, <2>4 DEF Covers
      <3>2. QED BY <2>1, <2>2, <3>1 DEF EntryIn
    <2>5. QED BY <2>3, <2>4
  <1>3. ASSUME NEW m \in requests, NEW j \in 0..Len(m.entries), Stores(m, j),
               x = LogSegment(log'[m.to])
        PROVE  \E s \in Segments : Covers(s, k) /\ EntryIn(s, k) = EntryIn(x, k)
    <2> DEFINE s == LogSegment(log[m.to])
               q == RequestSegment(m)
    <2>1. PICK c \in Nat :
             /\ s \in Segments /\ q \in Segments /\ s.prev = 0 /\ x.prev = 0
             /\ c \in q.prev..Len(s.entries) /\ c <= q.prev + Len(q.entries)
             /\ Len(x.entries) <= q.prev + Len(q.entries)
             /\ \A r \in 1..c : x.entries[r] = s.entries[r]
             /\ \A r \in (c + 1)..Len(x.entries) : x.entries[r] = q.entries[r - q.prev]
      BY <1>3, StoredSegment
    <2> HIDE DEF s, q
    <2>2. /\ Len(s.entries) \in Nat /\ Len(q.entries) \in Nat /\ q.prev \in Nat
          /\ k - 0 = k /\ k > 0 /\ k <= Len(x.entries) /\ Len(x.entries) \in Nat
      <3>1. Len(s.entries) \in Nat /\ Len(q.entries) \in Nat /\ q.prev \in Nat
        BY <1>0, <2>1, RaftAssumption DEF IsSegment
      <3>2. Len(x.entries) \in Nat
        BY <1>3 DEF LogSegment, LogsOK, RaftInv, RequestsOK, RequestType
      <3>3. QED BY <2>1, <3>1, <3>2 DEF Covers
    <2>3. CASE k <= c
      <3>1. k \in 1..c /\ Covers(s, k)
        BY <2>1, <2>2, <2>3 DEF Covers
      <3>2. QED BY <2>1, <2>2, <3>1 DEF EntryIn
    <2>4. CASE k > c
      <3>1. k \in (c + 1)..Len(x.entries) /\ Covers(q, k)
        BY <2>1, <2>2, <2>4 DEF Covers
      <3>2. QED BY <2>1, <2>2, <3>1 DEF EntryIn
    <2>5. QED BY <2>2, <2>3, <2>4
  <1>4. ASSUME NEW i \in Node, NEW p \in Peers(i), NEW m \in Sendable(i, p), Sends(i, m),
               x = RequestSegment(m)
        PROVE  \E s \in Segments : Covers(s, k) /\ EntryIn(s, k) = EntryIn(x, k)
    <2> DEFINE s == LogSegment(log[i])
    <2>1. /\ s \in Segments /\ s.prev = 0 /\ IsSegment(x)
          /\ x.prev + Len(x.entries) <= Len(s.entries) \/ Len(x.entries) = 0
          /\ \A r \in 1..Len(x.entries) : x.entries[r] = s.entries[x.prev + r]
      BY <1>4, SentSegment
    <2> HIDE DEF s
    <2>2. /\ Len(s.entries) \in Nat /\ Len(x.entries) \in Nat /\ x.prev \in Nat
          /\ k - 0 = k /\ k > 0
      BY <1>0, <2>1, RaftAssumption DEF IsSegment
    <2>3. k - x.prev \in 1..Len(x.entries) /\ x.prev + (k - x.prev) = k
      BY <2>2 DEF Covers
    <2>4. Covers(s, k)
      BY <2>1, <2>2, <2>3 DEF Covers
    <2>5. QED BY <2>1, <2>2, <2>3, <2>4 DEF EntryIn
  <1>5. QED BY <1>1, <1>2, <1>3, <1>4, SegmentsMove

\* New entries are in a term their leader has won.
LEMMA NextEntriesNameWinners ==
    ASSUME MatchingInv, RaftInv', [NextOrProbe]_raftVars
    PROVE  EntriesNameWinners'
  <1>1. RaftInv /\ LogsOK' /\ EntriesNameWinners
    BY DEF MatchingInv, RaftInv
  <1>2. elected \subseteq elected'
    BY <1>1, ElectionsGoOn
  <1>3. ASSUME NEW x \in Segments', NEW k \in 1..MaxLog, Covers(x, k)
        PROVE  \E e \in elected : e.term = EntryIn(x, k).term
    <2>1. CASE \E s \in Segments : Covers(s, k) /\ EntryIn(s, k) = EntryIn(x, k)
      BY <1>1, <2>1 DEF EntriesNameWinners
    <2>2. ASSUME NEW i \in Node, role[i] = "Leader", EntryIn(x, k).term = currentTerm[i]
          PROVE  \E e \in elected : e.term = EntryIn(x, k).term
      BY <1>1, <2>2, ElectionFacts
    <2>3. QED
      BY <1>1, <1>3, <2>1, <2>2, EntriesMove DEF Proposes
  <1>4. QED
    BY <1>2, <1>3 DEF EntriesNameWinners

\* A leader that stays in office keeps its log, or adds to it.
LEMMA LeadersLogsGrow ==
    ASSUME RaftInv, [NextOrProbe]_raftVars, NEW i \in Node, role'[i] = "Leader"
    PROVE  /\ Len(log'[i]) >= Len(log[i])
           /\ \A r \in 1..Len(log[i]) : log'[i][r] = log[i][r]
  <1> DEFINE Grows == /\ Len(log'[i]) >= Len(log[i])
                      /\ \A r \in 1..Len(log[i]) : log'[i][r] = log[i][r]
  <1>1. LogsOK /\ RequestsOK /\ Len(log[i]) \in Nat
    BY DEF RaftInv, LogsOK
  <1>2. ASSUME NEW n \in Node, NEW cmd \in Command \cup {Noop}, Proposes(n, cmd)
        PROVE  Grows
    <2>1. /\ Len(log'[n]) = Len(log[n]) + 1 /\ \A k \in Node : k # n => log'[k] = log[k]
          /\ \A r \in 1..Len(log[n]) : log'[n][r] = log[n][r]
      BY <1>2, ProposedLog
    <2>2. CASE n = i
      BY <1>1, <2>1, <2>2
    <2>3. CASE n # i
      BY <1>1, <2>1, <2>3
    <2>4. QED BY <2>2, <2>3
  <1>3. ASSUME NEW m \in requests, NEW j \in 0..Len(m.entries), Stores(m, j)
        PROVE  Grows
    <2>1. m.to \in Node /\ \A n \in Node : n # m.to => log'[n] = log[n]
      BY <1>1, <1>3, StoredLog
    <2>2. role'[m.to] = "Follower"
      BY <1>3, <2>1, ElectionFacts DEF Stores, E!HeedLeader, E!EnterTerm
    <2>3. QED BY <1>1, <2>1, <2>2
  <1>4. QED BY <1>1, <1>2, <1>3, LogsMove

\* Two leaders of one term are one node.
LEMMA LeadersAreOne ==
    ASSUME RaftInv, NEW i \in Node, NEW j \in Node, role[i] = "Leader", role[j] = "Leader",
           currentTerm[i] = currentTerm[j]
    PROVE  i = j
  <1>1. EP!ElectionSafety
    BY EP!InvariantImpliesSafety, ElectionAssumptionsHold DEF RaftInv, EP!LeaderInv
  <1>2. QED
    BY <1>1, ElectionFacts DEF EP!ElectionSafety

\* The entries of a leader's term stay within the leader's log.
LEMMA NextLeadersHaveTheirTerm ==
    ASSUME MatchingInv, RaftInv', [NextOrProbe]_raftVars
    PROVE  LeadersHaveTheirTerm'
  <1>1. RaftInv /\ LogsOK' /\ EntriesNameWinners /\ LeadersHaveTheirTerm
    BY DEF MatchingInv, RaftInv
  <1>2. ASSUME NEW i \in Node, role'[i] = "Leader", NEW x \in Segments', NEW k \in 1..MaxLog,
               Covers(x, k), EntryIn(x, k).term = currentTerm'[i]
        PROVE  k <= Len(log'[i])
    <2>1. /\ currentTerm'[i] = currentTerm[i]
          /\ role[i] # "Leader" => \A e \in elected : e.term # currentTerm[i]
      BY <1>1, <1>2, ElectionsGoOn
    <2>2. Len(log'[i]) >= Len(log[i]) /\ Len(log[i]) \in Nat /\ Len(log'[i]) \in Nat
      BY <1>1, <1>2, LeadersLogsGrow DEF RaftInv, LogsOK
    <2>3. ASSUME NEW s \in Segments, Covers(s, k), EntryIn(s, k) = EntryIn(x, k)
          PROVE  k <= Len(log'[i])
      <3>1. \E e \in elected : e.term = currentTerm[i]
        BY <1>1, <1>2, <2>1, <2>3 DEF EntriesNameWinners
      <3>2. role[i] = "Leader"
        BY <2>1, <3>1
      <3>3. k <= Len(log[i])
        BY <1>1, <1>2, <2>1, <2>3, <3>2 DEF LeadersHaveTheirTerm
      <3>4. QED BY <2>2, <3>3
    <2>4. ASSUME NEW n \in Node, NEW cmd \in Command \cup {Noop}, Proposes(n, cmd),
                 k = Len(log[n]) + 1, EntryIn(x, k).term = currentTerm[n]
          PROVE  k <= Len(log'[i])
      <3>1. role[n] = "Leader" /\ role[i] = "Leader" /\ currentTerm[n] = currentTerm[i]
        BY <1>2, <2>1, <2>4 DEF Proposes
      <3>2. n = i
        BY <1>1, <3>1, LeadersAreOne
      <3>3. Len(log'[n]) = Len(log[n]) + 1
        BY <1>1, <2>4, ProposedLog
      <3>4. QED BY <2>2, <2>4, <3>2, <3>3
    <2>5. QED
      BY <1>1, <1>2, <2>3, <2>4, EntriesMove
  <1>3. QED BY <1>2 DEF LeadersHaveTheirTerm

\* Segments stay in agreement.
LEMMA NextSegmentsAgree ==
    ASSUME MatchingInv, RaftInv', [NextOrProbe]_raftVars
    PROVE  SegmentsAgree'
  <1>1. /\ RaftInv /\ LogsOK' /\ SegmentsAgree /\ LeadersHaveTheirTerm
        /\ \A s \in Segments : IsSegment(s)
    BY SegmentsAre DEF MatchingInv, RaftInv
  <1>2. ASSUME NEW new, Segments' \subseteq Segments \cup {new},
               \A t \in Segments : Agree(new, t)
        PROVE  SegmentsAgree'
    <2>1. ASSUME NEW s \in Segments', NEW t \in Segments' PROVE Agree(s, t)
      <3>1. CASE s \in Segments /\ t \in Segments
        BY <1>1, <3>1 DEF SegmentsAgree
      <3>2. CASE s = new
        BY <1>2, <3>2, AgreeReflexive
      <3>3. CASE s \in Segments /\ t = new
        BY <1>2, <3>3, AgreeSymmetric
      <3>4. QED BY <1>2, <3>1, <3>2, <3>3
    <2>2. QED BY <2>1 DEF SegmentsAgree
  <1>3. CASE Segments' \subseteq Segments
    BY <1>1, <1>3 DEF SegmentsAgree
  <1>4. ASSUME NEW i \in Node, NEW cmd \in Command \cup {Noop}, Proposes(i, cmd),
               NEW t \in Segments
        PROVE  Agree(LogSegment(log'[i]), t)
    <2> DEFINE s == LogSegment(log[i])
               new == LogSegment(log'[i])
               n == Len(log[i]) + 1
    <2>1. /\ s \in Segments /\ s.prev = 0 /\ new.prev = 0 /\ new.prevTerm = s.prevTerm
          /\ IsSegment(new) /\ n \in 1..MaxLog
          /\ Len(s.entries) = Len(log[i]) /\ Len(new.entries) = n
          /\ \A r \in 1..Len(s.entries) : new.entries[r] = s.entries[r]
          /\ new.entries[n].term = currentTerm[i]
      BY <1>1, <1>4, ProposedSegment
    <2>2. ASSUME Covers(t, n) PROVE EntryIn(t, n).term # currentTerm[i]
      <3>1. Len(log[i]) \in Nat /\ ~(n <= Len(log[i])) /\ role[i] = "Leader"
        BY <1>1, <1>4 DEF RaftInv, LogsOK, Proposes
      <3>2. QED BY <1>1, <2>1, <2>2, <3>1 DEF LeadersHaveTheirTerm
    <2>3. Agree(s, t)
      BY <1>1, <2>1 DEF SegmentsAgree
    <2> HIDE DEF s, new
    <2>4. QED BY <1>1, <2>1, <2>2, <2>3, AppendAgrees DEF new
  <1>5. ASSUME NEW m \in requests, NEW j \in 0..Len(m.entries), Stores(m, j), NEW t \in Segments
        PROVE  Agree(LogSegment(log'[m.to]), t)
    <2> DEFINE s == LogSegment(log[m.to])
               q == RequestSegment(m)
               new == LogSegment(log'[m.to])
    <2>1. PICK c \in Nat :
             /\ s \in Segments /\ q \in Segments /\ IsSegment(new)
             /\ s.prev = 0 /\ new.prev = 0 /\ new.prevTerm = s.prevTerm
             /\ c \in q.prev..Len(s.entries) /\ c <= q.prev + Len(q.entries)
             /\ TermIn(s, c) = TermIn(q, c)
             /\ Len(new.entries) <= q.prev + Len(q.entries) /\ Len(new.entries) >= c
             /\ \A r \in 1..c : new.entries[r] = s.entries[r]
             /\ \A r \in (c + 1)..Len(new.entries) : new.entries[r] = q.entries[r - q.prev]
      BY <1>1, <1>5, StoredSegment
    <2> HIDE DEF s, q, new
    <2>2. Agree(s, t) /\ Agree(q, t)
      BY <1>1, <2>1 DEF SegmentsAgree
    <2>3. Agree(new, t)
      BY <1>1, <2>1, <2>2, SpliceAgrees
    <2>4. QED BY <2>3 DEF new
  <1>6. ASSUME NEW i \in Node, NEW p \in Peers(i), NEW m \in Sendable(i, p), Sends(i, m),
               NEW t \in Segments
        PROVE  Agree(RequestSegment(m), t)
    <2> DEFINE s == LogSegment(log[i])
               q == RequestSegment(m)
    <2>1. /\ s \in Segments /\ s.prev = 0 /\ IsSegment(q)
          /\ q.prev + Len(q.entries) <= Len(s.entries) \/ Len(q.entries) = 0
          /\ q.prev <= Len(s.entries) => q.prevTerm = TermIn(s, q.prev)
          /\ \A r \in 1..Len(q.entries) : q.entries[r] = s.entries[q.prev + r]
      BY <1>1, <1>6, SentSegment
    <2> HIDE DEF s, q
    <2>2. Agree(s, t)
      BY <1>1, <2>1 DEF SegmentsAgree
    <2>3. Agree(q, t)
      BY <1>1, <2>1, <2>2, CutAgrees
    <2>4. QED BY <2>3 DEF q
  <1>7. QED
    BY <1>1, <1>2, <1>3, <1>4, <1>5, <1>6, SegmentsMove

-----------------------------------------------------------------------------
(* The theorem *)

\* Empty logs agree.
LEMMA InitMatchingInv == Init => MatchingInv
  <1> SUFFICES ASSUME Init PROVE MatchingInv
    OBVIOUS
  <1>1. RaftInv
    BY InitRaftInv
  <1>2. \A s \in Segments : s = LogSegment(<<>>)
    BY DEF Init, Segments
  <1>3. ASSUME NEW k \in 1..MaxLog PROVE ~Covers(LogSegment(<<>>), k)
    BY DEF Covers, LogSegment
  <1>4. SegmentsAgree /\ EntriesNameWinners /\ LeadersHaveTheirTerm
    BY <1>2, <1>3 DEF SegmentsAgree, Agree, EntriesNameWinners, LeadersHaveTheirTerm
  <1>5. QED BY <1>1, <1>4 DEF MatchingInv

\* Every step keeps the invariant.
LEMMA NextMatchingInv == MatchingInv /\ [NextOrProbe]_raftVars => MatchingInv'
  <1> SUFFICES ASSUME MatchingInv, [NextOrProbe]_raftVars PROVE MatchingInv'
    OBVIOUS
  <1>1. RaftInv'
    BY NextRaftInv DEF MatchingInv
  <1>2. QED
    BY <1>1, NextSegmentsAgree, NextEntriesNameWinners, NextLeadersHaveTheirTerm
       DEF MatchingInv

\* Agreement of all segments is more than that of logs.
LEMMA AgreementImpliesMatching == MatchingInv => LogMatching
  <1> SUFFICES ASSUME MatchingInv PROVE LogMatching
    OBVIOUS
  <1>1. ASSUME NEW i \in Node, NEW j \in Node, NEW k \in DOMAIN log[i] \cap DOMAIN log[j],
               log[i][k].term = log[j][k].term
        PROVE  SubSeq(log[i], 1, k) = SubSeq(log[j], 1, k)
    <2> DEFINE s == LogSegment(log[i])
               t == LogSegment(log[j])
    <2>1. /\ log[i] \in Seq(Entries) /\ log[j] \in Seq(Entries)
          /\ Len(log[i]) <= MaxLog /\ Len(log[j]) <= MaxLog
          /\ Len(log[i]) \in Nat /\ Len(log[j]) \in Nat
      BY DEF MatchingInv, RaftInv, LogsOK
    <2>2. k \in 1..Len(log[i]) /\ k \in 1..Len(log[j]) /\ k \in 1..MaxLog /\ k \in Nat
      BY <2>1, RaftAssumption
    <2>3. /\ s.prev = 0 /\ t.prev = 0 /\ s.entries = log[i] /\ t.entries = log[j]
          /\ s \in Segments /\ t \in Segments
      BY DEF LogSegment, Segments
    <2> HIDE DEF s, t
    <2>4. Agree(s, t)
      BY <2>3 DEF MatchingInv, SegmentsAgree
    <2>5. /\ Covers(s, k) /\ Covers(t, k) /\ k - 0 = k
          /\ EntryIn(s, k).term = EntryIn(t, k).term
      BY <1>1, <2>2, <2>3 DEF Covers, EntryIn
    <2>6. ASSUME NEW r \in 1..k PROVE log[i][r] = log[j][r]
      <3>1. r \in 0..k /\ r > 0 /\ r - 0 = r /\ r >= 0
        BY <2>2
      <3>2. SameAt(s, t, r)
        BY <2>2, <2>3, <2>4, <2>5, <3>1 DEF Agree
      <3>3. QED BY <2>3, <3>1, <3>2 DEF SameAt, EntryIn
    <2>7. SubSeq(log[i], 1, k) = [r \in 1..k |-> log[i][r]]
          /\ SubSeq(log[j], 1, k) = [r \in 1..k |-> log[j][r]]
      BY <2>1, <2>2
    <2>8. QED BY <2>6, <2>7
  <1>2. QED BY <1>1 DEF LogMatching

\* Two logs that have an entry of the same term at the same position are equal
\* up to there, whatever is lost, delayed, repeated or only half written
\* (Match, and the cut at the first conflict of AppendAfter, are enough).
THEOREM LogsMatch == Spec => []LogMatching
  <1>1. QED
    BY InitMatchingInv, NextMatchingInv, AgreementImpliesMatching, NextIsNextOrProbe, PTL
       DEF Spec
====
