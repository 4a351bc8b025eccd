------------------------------ MODULE CommitProofs ------------------------------
(***************************************************************************)
(* What is committed in module Raft stays committed, for every cluster,    *)
(* every bound and every set of faults: state machines agree, leaders of   *)
(* the newest term have all that was ever applied, what is committed is    *)
(* stored, and so is what a leader counts as replicated, commit indexes do *)
(* not decrease, and Raft implements ReplicatedLog.                        *)
(*                                                                         *)
(* The argument.  What a leader has heard of its own term's entries is     *)
(* true (AcksAreTrue).  So the nodes that it has heard from have its log,  *)
(* up to there, and that prefix is secure in them, in the sense of module  *)
(* LeaderProofs, while they can still become a majority (AckedIsSecure).   *)
(* advanceCommit finds that they are one, and that the last entry is of    *)
(* the current term: that prefix is safe, and stays so.  Two safe prefixes *)
(* never deny each other, so all that has been applied is part of one      *)
(* sequence, chosen (ChosenIsSafe).  A commit index that travels with a    *)
(* request covers only what is safe, and has been since a term not later   *)
(* than the request's (RequestsAreWarranted); the request's entries agree  *)
(* with all that, so a follower which accepts it applies the same entries  *)
(* (AcceptApplies), and nothing that it has applied is ever cut off its    *)
(* log (AppliedKeeps).                                                     *)
(*                                                                         *)
(* Two things the argument needs, and the code does not see to.  They are  *)
(* assumed of the behaviour, step by step: no node comes back in an        *)
(* earlier term (NoTermIsForgotten), and no reply to an earlier leadership *)
(* of a node says something about positions that the present one fills     *)
(* (NobodyIsMisled).  Replies to earlier leaderships do arrive.  Module    *)
(* LeaderProofs shows where the first holds, and the last part of this one *)
(* where the second does: unless a node leads, is replaced by another, and *)
(* leads again, while a reply is under way.  In two terms nobody can, and  *)
(* then all this holds without assumptions on the behaviour.               *)
(***************************************************************************)
EXTENDS LeaderProofs

\* The action of NobodyIsMisled.
NobodyMisleads == \A r \in replies : ReceiveReply(r) => ~Misleads(r)

RepliesNameWinners ==
    \A r \in replies : \E e \in elected : e.term = r.term /\ e.leader = r.from

\* Leader l has heard from v that v stored everything up to k, or is about to.
HasAcked(l, v, k) ==
    \/ matchIndex[l][v] >= k
    \/ \E r \in replies : /\ r.from = l /\ r.to = v /\ r.success
                          /\ r.term = currentTerm[l] /\ r.upTo >= k

\* Position k of node l is one for its present term: filled in it, or yet to be.
Own(l, k) == k > Len(log[l]) \/ log[l][k].term = currentTerm[l]

Acks(l, k) == {l} \cup {v \in Peers(l) : HasAcked(l, v, k)}

Covered(m) == m.prevIndex + Len(m.entries)

-----------------------------------------------------------------------------
(* Acknowledgements *)

\* A reply is what the handler of one request says, and it says success when
\* the request was accepted, and then only.
LEMMA NewRepliesAreAnswers ==
    ASSUME [NextOrProbe]_raftVars, NEW r \in replies', r \notin replies
    PROVE  \E m \in requests : /\ HandleAppendEntries(m)
                               /\ r.from = m.from /\ r.to = m.to /\ r.term = m.term
                               /\ r.upTo = Covered(m) /\ r.kind = m.kind
                               /\ r.success => Accept(m.to, m)
  <1>1. PICK m \in requests : HandleAppendEntries(m)
    BY DEF NextOrProbe, Learns, HearsProbe, Sends, Next, Background, ElectionStep, WinElection,
           Propose, ProposeNoop, AdvanceCommit, Replicate, ReceiveReply, ReplyLost,
           AppendCallFails, Restart, callVars, raftVars
  <1>2. ASSUME NEW ok, Reply(m, ok)
        PROVE  /\ r.from = m.from /\ r.to = m.to /\ r.term = m.term
               /\ r.upTo = Covered(m) /\ r.success = ok /\ r.kind = m.kind
    BY <1>2 DEF Reply, Covered
  <1>3. CASE Accept(m.to, m)
    BY <1>1, <1>2, <1>3 DEF Accept
  <1>4. CASE Reply(m, FALSE)
    BY <1>1, <1>2, <1>4
  <1>5. QED
    BY <1>1, <1>3, <1>4
       DEF HandleAppendEntries, RejectStale, RejectGap, FailAppend, FailStore

\* Replies are to leaders, of the terms they have won.
LEMMA NextRepliesNameWinners ==
    ASSUME RaftInv, RepliesNameWinners, elected \subseteq elected', [NextOrProbe]_raftVars
    PROVE  RepliesNameWinners'
  <1>1. ASSUME NEW r \in replies'
        PROVE  \E e \in elected' : e.term = r.term /\ e.leader = r.from
    <2>1. CASE r \in replies
      BY <2>1 DEF RepliesNameWinners
    <2>2. CASE r \notin replies
      <3>1. PICK m \in requests : r.from = m.from /\ r.term = m.term
        BY <1>1, <2>2, NewRepliesAreAnswers
      <3>2. QED BY <3>1 DEF RaftInv, RequestsNameWinners
    <2>3. QED BY <2>1, <2>2
  <1>2. QED BY <1>1 DEF RepliesNameWinners

\* Only winElection makes a leader.
LEMMA LeadersAreMade ==
    ASSUME RaftInv, [NextOrProbe]_raftVars, NEW l \in Node, role[l] # "Leader",
           role'[l] = "Leader"
    PROVE  WinElection(l)
  <1>0. role \in [Node -> {"Follower", "Candidate", "Leader"}]
    BY ElectionFacts
  <1>1. ASSUME NEW i, NEW x \in {"Follower", "Candidate"}, role' = [role EXCEPT ![i] = x]
        PROVE  FALSE
    BY <1>0, <1>1
  <1>2. ASSUME role' = role PROVE FALSE
    BY <1>2
  <1>3. ASSUME NEW i, NEW t, E!EnterTerm(i, t) PROVE FALSE
    BY <1>1, <1>3 DEF E!EnterTerm
  <1>4. ASSUME NEW i, E!Campaign(i) PROVE FALSE
    BY <1>1, <1>4 DEF E!Campaign, E!StandForElection
  <1>5. ASSUME NEW c, E!HandleRequestVote(c) PROVE FALSE
    <2>1. CASE E!GrantVote(c.to, c)
      BY <1>1, <1>2, <2>1 DEF E!GrantVote
    <2>2. CASE E!DenyVote(c.to, c)
      BY <1>2, <1>3, <2>2 DEF E!DenyVote, E!memory
    <2>3. CASE E!FailVote(c.to, c)
      BY <1>3, <2>3 DEF E!FailVote
    <2>4. QED BY <1>5, <2>1, <2>2, <2>3 DEF E!HandleRequestVote
  <1>6. ASSUME NEW c, E!ReceiveVote(c) \/ E!VoteCallFails(c) PROVE FALSE
    BY <1>2, <1>3, <1>6 DEF E!ReceiveVote, E!SetTerm, E!VoteCallFails, E!memory
  <1>7. ASSUME NEW i, NEW t, NEW j, E!HeedLeader(i, t, j) PROVE FALSE
    BY <1>1, <1>3, <1>7 DEF E!HeedLeader
  <1>8. ASSUME NEW i \in Node, WinElection(i) PROVE WinElection(l)
    <2>1. role' = role \/ role' = [role EXCEPT ![i] = "Leader"]
      BY <1>8 DEF WinElection, E!WinElection, E!BecomeLeader, E!memory
    <2>2. i = l
      BY <1>0, <1>2, <2>1
    <2>3. QED BY <1>8, <2>2
  <1>9. ASSUME NEW m \in requests, HandleAppendEntries(m) PROVE FALSE
    BY <1>2, <1>7, <1>9
       DEF HandleAppendEntries, RejectStale, RejectGap, Accept, FailAppend, FailStore,
           electionVars
  <1>10. ASSUME NEW r \in replies, ReceiveReply(r) \/ HearsProbe(r) PROVE FALSE
    BY <1>2, <1>3, <1>10
       DEF ReceiveReply, HearsProbe, StepDown, E!ObserveTerm, E!SetTerm, electionVars
  <1>11. ASSUME NEW i \in Node, Restart(i) PROVE FALSE
    BY <1>1, <1>11 DEF Restart, E!Restart
  <1>12. ASSUME NEW i \in Node, ProposeNoop(i) PROVE FALSE
    BY <1>2, <1>12 DEF ProposeNoop, E!ReturnFromWin, E!memory
  <1>13. ASSUME NEW i \in Node, Learns(i) PROVE FALSE
    BY <1>3, <1>13 DEF Learns, E!ObserveTerm, E!SetTerm
  <1>14. QED
    BY <1>2, <1>4, <1>5, <1>6, <1>8, <1>9, <1>10, <1>11, <1>12, <1>13
       DEF NextOrProbe, Sends, Next, Background, ElectionStep, Propose, AdvanceCommit,
           Replicate, AppendCallFails, ReplyLost, raftVars, electionVars

\* A term has one leader.
LEMMA WinnersAreOne ==
    ASSUME RaftInv, NEW e \in elected, NEW f \in elected, e.term = f.term
    PROVE  e.leader = f.leader
  <1>1. EP!ElectionSafety
    BY EP!InvariantImpliesSafety, ElectionAssumptionsHold DEF RaftInv, EP!LeaderInv
  <1>2. QED BY <1>1 DEF EP!ElectionSafety

\* The winner of a term is in that term, or beyond it.
LEMMA WinnersAreInTerm ==
    ASSUME RaftInv, NEW e \in elected
    PROVE  /\ e.leader \in Node /\ e.term \in Nat /\ currentTerm[e.leader] \in Nat
           /\ e.term <= currentTerm[e.leader]
  <1>1. e.term \in 0..MaxTerm /\ e.leader \in Node /\ e.leader \in e.voters
    BY DEF RaftInv, EP!LeaderInv, EP!IndInv, EP!TypeOK, EP!Terms, EP!VotesForItself
  <1>2. EP!Counted(e.leader, e.term, e.leader)
    BY <1>1 DEF EP!Counted
  <1>3. QED BY <1>1, <1>2, CountedVotesBind, ElectionFacts, RaftAssumption

\* No reply is of a term to come.
LEMMA RepliesAreOld ==
    ASSUME RaftInv, RepliesNameWinners, NEW r \in replies
    PROVE  r.from \in Node /\ r.term \in Nat /\ r.term <= currentTerm[r.from]
  BY WinnersAreInTerm DEF RepliesNameWinners

\* matchIndex starts at zero, and takes what replies say: of the present
\* leadership, or of older entries.
LEMMA MatchesMove ==
    ASSUME RaftInv, RepliesNameWinners, NobodyMisleads, [NextOrProbe]_raftVars,
           NEW l \in Node, role'[l] = "Leader", NEW v \in Peers(l)
    PROVE  \/ matchIndex'[l][v] = matchIndex[l][v] /\ ~WinElection(l)
           \/ matchIndex'[l][v] = 0
           \/ \E r \in replies :
                 /\ r.from = l /\ r.to = v /\ r.success /\ role[l] = "Leader"
                 /\ r.upTo = matchIndex'[l][v]
                 /\ r.term = currentTerm[l] \/ \A k \in 1..r.upTo : ~Own(l, k)
  <1>0. DOMAIN matchIndex = Node /\ matchIndex[l] \in [Peers(l) -> 0..MaxLog]
    BY DEF RaftInv, ArraysOK, ProgressOK
  <1>1. CASE UNCHANGED matchIndex /\ ~WinElection(l)
    BY <1>1
  <1>2. ASSUME NEW i \in Node, WinElection(i)
        PROVE  \/ matchIndex'[l][v] = matchIndex[l][v] /\ ~WinElection(l)
               \/ matchIndex'[l][v] = 0
    <2>1. CASE WinElection(l)
      BY <1>0, <2>1 DEF WinElection, leaderVars
    <2>2. CASE ~WinElection(l)
      <3>1. i # l
        BY <1>2, <2>2
      <3>2. matchIndex'[l] = matchIndex[l]
        BY <1>0, <1>2, <3>1 DEF WinElection, leaderVars
      <3>3. QED BY <2>2, <3>2
    <2>3. QED BY <2>1, <2>2
  <1>3. CASE WinElection(l)
    BY <1>2, <1>3
  <1>4. ASSUME NEW i \in Node, Restart(i)
        PROVE  matchIndex'[l][v] = matchIndex[l][v] \/ matchIndex'[l][v] = 0
    BY <1>0, <1>4 DEF Restart
  <1>5. ASSUME NEW r \in replies, ReceiveReply(r)
        PROVE  \/ matchIndex'[l][v] = matchIndex[l][v]
               \/ /\ r.from = l /\ r.to = v /\ r.success /\ role[l] = "Leader"
                  /\ r.upTo = matchIndex'[l][v]
                  /\ r.term = currentTerm[l] \/ \A k \in 1..r.upTo : ~Own(l, k)
    <2>1. CASE Matched(r) /\ r.success /\ role' = role
      <3>1. r.from \in Node /\ r.upTo \in Nat
        BY RaftAssumption DEF RaftInv, RepliesOK, ReplyType
      <3>2. CASE r.from = l /\ r.to = v
        <4>1. role[l] = "Leader" /\ r.upTo = matchIndex'[l][v]
          BY <1>0, <2>1, <3>2 DEF Matched
        <4>2. ASSUME r.term # currentTerm[l], NEW k \in 1..r.upTo PROVE ~Own(l, k)
          <5>1. ~Misleads(r)
            BY <1>5 DEF NobodyMisleads
          <5>2. r.term < currentTerm[l]
            <6>1. r.term \in Nat /\ r.term <= currentTerm[l] /\ currentTerm[l] \in Nat
              BY <3>2, RepliesAreOld, ElectionFacts, RaftAssumption
            <6>2. QED BY <4>2, <6>1
          <5>3. k \in DOMAIN log[l] /\ log[l][k].term # currentTerm[l]
            BY <2>1, <3>2, <4>1, <4>2, <5>1, <5>2 DEF Misleads
          <5>4. k <= Len(log[l]) /\ Len(log[l]) \in Nat /\ k \in Nat
            BY <3>1, <5>3 DEF RaftInv, LogsOK
          <5>5. QED BY <5>3, <5>4 DEF Own
        <4>3. QED BY <2>1, <3>2, <4>1, <4>2
      <3>3. CASE ~(r.from = l /\ r.to = v)
        BY <1>0, <2>1, <3>1, <3>3 DEF Matched
      <3>4. QED BY <3>2, <3>3
    <2>2. CASE UNCHANGED matchIndex
      BY <2>2
    <2>3. QED
      BY <1>5, <2>1, <2>2 DEF ReceiveReply, StepDown, WalkBack, leaderVars, electionVars
  <1>6. ASSUME NEW r \in replies, HearsProbe(r) PROVE matchIndex' = matchIndex
    BY <1>6 DEF HearsProbe, StepDown, leaderVars
  <1>7. QED
    BY <1>1, <1>2, <1>3, <1>4, <1>5, <1>6
       DEF NextOrProbe, Learns, Sends, Next, Background, ElectionStep, Propose, ProposeNoop,
           AdvanceCommit, Replicate, HandleAppendEntries, AppendCallFails, ReplyLost,
           raftVars, leaderVars

\* Request m of leader l in its term, which covers position k, is accepted by v.
AcceptsNow(l, v, k, m) ==
    /\ m \in requests /\ Accept(v, m)
    /\ m.to = v /\ m.from = l /\ m.term = currentTerm[l] /\ Covered(m) >= k

\* What a leader has heard of its own entries grows when a peer accepts what it
\* has sent.
LEMMA AcksMove ==
    ASSUME RaftInv, LogsOK', RepliesNameWinners, NobodyMisleads, [NextOrProbe]_raftVars,
           NEW l \in Node, role'[l] = "Leader", NEW v \in Peers(l),
           NEW k \in 1..MaxLog, Own(l, k), HasAcked(l, v, k)'
    PROVE  /\ role[l] = "Leader"
           /\ HasAcked(l, v, k) \/ \E m \in requests : AcceptsNow(l, v, k, m)
  <1>1. /\ currentTerm'[l] = currentTerm[l]
        /\ role[l] # "Leader" => \A e \in elected : e.term # currentTerm[l]
    BY ElectionsGoOn
  <1>2. ASSUME NEW r \in replies', r.from = l, r.to = v, r.success,
               r.term = currentTerm'[l], r.upTo >= k
        PROVE  /\ role[l] = "Leader"
               /\ HasAcked(l, v, k) \/ \E m \in requests : AcceptsNow(l, v, k, m)
    <2>1. CASE r \in replies
      <3>1. role[l] = "Leader"
        BY <1>1, <1>2, <2>1 DEF RepliesNameWinners
      <3>2. HasAcked(l, v, k)
        BY <1>1, <1>2, <2>1 DEF HasAcked
      <3>3. QED BY <3>1, <3>2
    <2>2. CASE r \notin replies
      <3>1. PICK m \in requests : /\ r.from = m.from /\ r.to = m.to /\ r.term = m.term
                                  /\ r.upTo = Covered(m)
                                  /\ r.success => Accept(m.to, m)
        BY <1>2, <2>2, NewRepliesAreAnswers
      <3>2. role[l] = "Leader"
        BY <1>1, <1>2, <3>1 DEF RaftInv, RequestsNameWinners
      <3>3. AcceptsNow(l, v, k, m)
        <4>1. Accept(m.to, m)
          BY <1>2, <3>1
        <4>2. m.to = v /\ m.from = l /\ m.term = currentTerm[l] /\ Covered(m) >= k
          BY <1>1, <1>2, <3>1
        <4>3. Accept(v, m)
          BY <4>1, <4>2, Zenon
        <4>4. QED BY <4>2, <4>3 DEF AcceptsNow
      <3>4. QED BY <3>2, <3>3
    <2>3. QED BY <2>1, <2>2
  <1>3. CASE matchIndex'[l][v] >= k
    <2>1. matchIndex'[l][v] # 0
      BY <1>3, RaftAssumption
    <2>2. CASE matchIndex'[l][v] = matchIndex[l][v] /\ ~WinElection(l)
      <3>1. role[l] = "Leader"
        BY <2>2, LeadersAreMade
      <3>2. HasAcked(l, v, k)
        BY <1>3, <2>2 DEF HasAcked
      <3>3. QED BY <3>1, <3>2
    <2>3. ASSUME NEW r \in replies, r.from = l, r.to = v, r.success, role[l] = "Leader",
                 r.upTo = matchIndex'[l][v],
                 r.term = currentTerm[l] \/ \A n \in 1..r.upTo : ~Own(l, n)
          PROVE  HasAcked(l, v, k)
      <3>1. r.upTo \in Nat /\ k \in 1..r.upTo
        BY <1>3, <2>3, RaftAssumption DEF RaftInv, RepliesOK, ReplyType
      <3>2. QED BY <1>3, <2>3, <3>1 DEF HasAcked
    <2>4. QED BY <2>1, <2>2, <2>3, MatchesMove
  <1>4. QED
    BY <1>2, <1>3 DEF HasAcked

\* A follower that accepts a request has the last entry the request covers.
LEMMA AcceptedIs ==
    ASSUME RaftInv, NEW m \in requests, Accept(m.to, m), Covered(m) >= 1
    PROVE  /\ m.to \in Node /\ Covered(m) \in 1..MaxLog
           /\ Covered(m) <= Len(log'[m.to])
           /\ Reaches(RequestSegment(m), Covered(m))
           /\ log'[m.to][Covered(m)].term = TermIn(RequestSegment(m), Covered(m))
  <1> DEFINE l == log[m.to]
             new == AfterAppend(l, m.prevIndex, m.entries)
             q == RequestSegment(m)
             n == Covered(m)
  <1>1. /\ m.to \in Node /\ m.entries \in Seq(Entries) /\ m.prevIndex \in Nat
        /\ m.prevIndex + Len(m.entries) <= MaxLog /\ l \in Seq(Entries)
        /\ log \in [Node -> Seq(Entries)]
    BY RaftAssumption DEF RaftInv, RequestsOK, RequestType, LogsOK
  <1>2. Len(m.entries) \in Nat /\ Len(l) \in Nat /\ MaxLog \in Nat
    BY <1>1, RaftAssumption
  <1>3. m.prevIndex <= Len(l) /\ TermAt(l, m.prevIndex) = m.prevTerm
    BY DEF Accept, Match
  <1>4. log'[m.to] = new
    BY <1>1 DEF Accept
  <1>5. /\ new \in Seq(Entries) /\ Len(new) >= n
        /\ \A r \in 1..m.prevIndex : new[r] = l[r]
        /\ \A j \in 1..Len(m.entries) : new[m.prevIndex + j].term = m.entries[j].term
    <2>1. m.prevIndex \in 0..Len(l)
      BY <1>1, <1>2, <1>3
    <2>2. /\ new \in Seq(Entries) /\ Len(new) >= m.prevIndex + Len(m.entries)
          /\ \A r \in 1..m.prevIndex : new[r] = l[r]
          /\ \A j \in 1..Len(m.entries) : new[m.prevIndex + j].term = m.entries[j].term
      BY <1>1, <2>1, AppendAfterStores, SMTT(20)
    <2>3. QED BY <2>2 DEF Covered
  <1>6. n \in 1..MaxLog /\ n \in Nat
    BY <1>1, <1>2 DEF Covered
  <1>7. new[n].term = TermIn(q, n)
    <2>1. CASE Len(m.entries) = 0
      <3>1. n = m.prevIndex /\ n \in DOMAIN l /\ n \in 1..m.prevIndex
        BY <1>1, <1>2, <1>3, <1>6, <2>1 DEF Covered
      <3>2. TermIn(q, n) = m.prevTerm
        BY <3>1 DEF TermIn, RequestSegment
      <3>3. TermAt(l, n) = l[n].term
        BY <3>1 DEF TermAt
      <3>4. QED BY <1>3, <1>5, <3>1, <3>2, <3>3
    <2>2. CASE Len(m.entries) # 0
      <3>1. Len(m.entries) \in 1..Len(m.entries)
        BY <1>2, <2>2
      <3>2. new[n].term = m.entries[Len(m.entries)].term
        BY <1>5, <3>1 DEF Covered
      <3>3. n # m.prevIndex /\ n - m.prevIndex = Len(m.entries)
        BY <1>1, <1>2, <2>2 DEF Covered
      <3>4. TermIn(q, n) = m.entries[Len(m.entries)].term
        BY <3>3 DEF TermIn, EntryIn, RequestSegment
      <3>5. QED BY <3>2, <3>4
    <2>3. QED BY <2>1, <2>2
  <1>8. new[n].term > 0
    <2>1. n \in 1..Len(new)
      BY <1>5, <1>6
    <2>2. new[n] \in Entries
      BY <1>5, <2>1
    <2>3. QED BY <2>2 DEF Entries
  <1>9. Reaches(q, n)
    <2>1. n >= m.prevIndex /\ n <= m.prevIndex + Len(m.entries)
      BY <1>1, <1>2 DEF Covered
    <2>2. q.prev = m.prevIndex /\ q.entries = m.entries
      BY DEF RequestSegment
    <2>3. QED BY <1>6, <1>7, <1>8, <2>1, <2>2 DEF Reaches
  <1>10. QED BY <1>1, <1>4, <1>5, <1>6, <1>7, <1>9

-----------------------------------------------------------------------------
(* What a leader has heard is true *)

\* Node v has the log of node l, up to position k.
Alike(l, v, k) == k <= Len(log[v]) /\ \A r \in 1..k : log[v][r] = log[l][r]

Matches(l, v, k) ==
    /\ k <= Len(log[l])
    /\ currentTerm[v] >= currentTerm[l]
    /\ currentTerm[v] = currentTerm[l] => Alike(l, v, k)

AcksAreTrue ==
    \A l \in Node : \A v \in Peers(l) : \A k \in 1..MaxLog :
       role[l] = "Leader" /\ Own(l, k) /\ HasAcked(l, v, k) => Matches(l, v, k)

\* The first entries of a log.
LEMMA PrefixIs ==
    ASSUME NEW s \in Seq(Entries), NEW k \in 1..Len(s)
    PROVE  LET pre == SubSeq(s, 1, k)
           IN  /\ pre \in Seq(Entries) /\ Len(pre) = k /\ Len(pre) \in Nat /\ pre # <<>>
               /\ \A r \in 1..k : pre[r] = s[r]
               /\ Holds(pre, s) /\ Final(pre) = s[k].term
  <1> DEFINE pre == SubSeq(s, 1, k)
  <1>1. Len(s) \in Nat /\ k \in Nat /\ k >= 1 /\ k <= Len(s)
    OBVIOUS
  <1>2. \A r \in 1..k : s[r] \in Entries
    BY <1>1
  <1>3. pre \in Seq(Entries) /\ Len(pre) = k /\ \A r \in 1..k : pre[r] = s[r]
    BY <1>1, <1>2, SubSeqProperties
  <1> HIDE DEF pre
  <1>4. pre # <<>> /\ Holds(pre, s)
    BY <1>1, <1>3 DEF Holds
  <1>5. Final(pre) = s[k].term
    BY <1>1, <1>3 DEF Final
  <1>6. QED BY <1>1, <1>3, <1>4, <1>5 DEF pre

\* LogsAgree after a step.
LEMMA LogsAgreeNext ==
    ASSUME NEW i \in Node, NEW j \in Node, NEW k
    PROVE  ((MatchingInv /\ k \in 1..Len(log[i]) /\ k <= Len(log[j])
                /\ log[i][k].term = log[j][k].term)
              => \A r \in 1..k : log[i][r] = log[j][r])'
  <1>1. (MatchingInv /\ k \in 1..Len(log[i]) /\ k <= Len(log[j])
           /\ log[i][k].term = log[j][k].term)
         => \A r \in 1..k : log[i][r] = log[j][r]
    BY LogsAgree
  <1>2. QED BY <1>1, PTL

\* A peer that accepts a leader's request has the leader's log after that.
LEMMA AcceptorsMatch ==
    ASSUME TermInv, TermInv', [NextOrProbe]_raftVars, NEW l \in Node, role[l] = "Leader",
           role'[l] = "Leader", NEW v \in Peers(l), NEW k \in 1..MaxLog,
           NEW m, AcceptsNow(l, v, k, m)
    PROVE  /\ k <= Len(log[l]) /\ currentTerm'[v] = currentTerm'[l]
           /\ Alike(l, v, k)'
  <1> DEFINE n == Covered(m)
             q == RequestSegment(m)
  <1>1. /\ RaftInv /\ RaftInv' /\ LogsOK' /\ MatchingInv' /\ RequestsAreCut
    BY DEF TermInv, MatchingInv, RaftInv
  <1>2. /\ m \in requests /\ Accept(v, m) /\ m.to = v /\ m.from = l
        /\ m.term = currentTerm[l] /\ n >= k
    BY DEF AcceptsNow
  <1>3. Accept(m.to, m)
    BY <1>2, Zenon
  <1>4. /\ v \in Node /\ n \in 1..MaxLog /\ n <= Len(log'[v]) /\ Reaches(q, n)
        /\ log'[v][n].term = TermIn(q, n)
    <2>1. m.prevIndex \in Nat /\ Len(m.entries) \in Nat
      BY <1>1, <1>2 DEF RaftInv, RequestsOK, RequestType
    <2>2. n >= 1
      BY <1>2, <2>1, RaftAssumption DEF Covered
    <2>3. QED BY <1>1, <1>2, <1>3, <2>2, AcceptedIs
  <1> HIDE DEF n, q
  <1>5. n <= Len(log[l]) /\ TermIn(q, n) = log[l][n].term
    BY <1>1, <1>2, <1>4 DEF RequestsAreCut, q
  <1>6. /\ Len(log'[l]) >= Len(log[l])
        /\ \A r \in 1..Len(log[l]) : log'[l][r] = log[l][r]
    BY <1>1, LeadersLogsGrow
  <1>7. Len(log[l]) \in Nat /\ Len(log'[l]) \in Nat /\ Len(log'[v]) \in Nat
    BY <1>1, <1>4 DEF RaftInv, LogsOK
  <1>8. /\ n \in 1..Len(log'[l]) /\ n <= Len(log'[v])
        /\ log'[l][n].term = log'[v][n].term
    BY <1>4, <1>5, <1>6, <1>7, RaftAssumption
  <1>9. \A r \in 1..n : log'[l][r] = log'[v][r]
    BY <1>1, <1>4, <1>8, LogsAgreeNext
  <1>10. Alike(l, v, k)'
    <2>1. k \in Nat /\ n \in Nat /\ k <= n /\ n <= Len(log'[v])
      BY <1>2, <1>4, RaftAssumption
    <2>2. k <= Len(log'[v])
      BY <1>7, <2>1
    <2>3. 1..k \subseteq 1..n
      BY <2>1
    <2>4. \A r \in 1..k : log'[v][r] = log'[l][r]
      BY <1>9, <2>3
    <2>5. QED BY <2>2, <2>4 DEF Alike
  <1>11. currentTerm'[v] = m.term
    <2>1. E!HeedLeader(m.to, m.term, m.from) /\ leaderID'[m.to] = m.from /\ m.from \in Node
      BY <1>1, <1>2, <1>3 DEF Accept, RaftInv, RequestsOK, RequestType
    <2>2. m.from # None
      BY <2>1, ClusterAssumption
    <2>3. currentTerm' = [currentTerm EXCEPT ![m.to] = m.term]
      BY <2>1 DEF E!HeedLeader, E!EnterTerm
    <2>4. QED BY <1>1, <1>2, <1>4, <2>3, ElectionFacts
  <1>12. currentTerm'[l] = currentTerm[l]
    BY <1>1, ElectionsGoOn
  <1>13. QED BY <1>2, <1>4, <1>5, <1>7, <1>10, <1>11, <1>12, RaftAssumption

\* What was true stays true while the leader leads: what it sends fits.
LEMMA MatchesStay ==
    ASSUME TermInv, TermInv', [NextOrProbe]_raftVars, NEW l \in Node, role[l] = "Leader",
           role'[l] = "Leader", NEW v \in Peers(l), NEW k \in 1..MaxLog, Matches(l, v, k),
           TermsAreKept
    PROVE  Matches(l, v, k)'
  <1> DEFINE pre == SubSeq(log[l], 1, k)
  <1>1. RaftInv /\ RaftInv' /\ LogsOK' /\ RequestsAreCut
    BY DEF TermInv, MatchingInv, RaftInv
  <1>2. /\ log[l] \in Seq(Entries) /\ k \in 1..Len(log[l]) /\ v \in Node
        /\ Len(log[l]) \in Nat /\ Len(log'[l]) \in Nat /\ Len(log'[v]) \in Nat
    BY <1>1, RaftAssumption DEF Matches, Peers, RaftInv, LogsOK
  <1>3. /\ Len(log'[l]) >= Len(log[l])
        /\ \A r \in 1..Len(log[l]) : log'[l][r] = log[l][r]
    BY <1>1, LeadersLogsGrow
  <1>4. currentTerm'[l] = currentTerm[l]
    BY <1>1, ElectionsGoOn
  <1>5. /\ currentTerm[v] \in Nat /\ currentTerm[l] \in Nat /\ currentTerm'[v] \in Nat
    <2>1. currentTerm' \in [Node -> 0..MaxTerm]
      BY <1>1 DEF RaftInv, EP!LeaderInv, EP!IndInv, EP!TypeOK, EP!Terms
    <2>2. QED BY <1>1, <1>2, <2>1, ElectionFacts, RaftAssumption
  <1>6. k <= Len(log'[l]) /\ currentTerm'[v] >= currentTerm'[l]
    BY <1>2, <1>3, <1>4, <1>5 DEF Matches, TermsAreKept
  <1>7. /\ Len(pre) = k /\ Len(pre) \in Nat /\ \A r \in 1..k : pre[r] = log[l][r]
    BY <1>2, PrefixIs
  <1> HIDE DEF pre
  <1>8. ASSUME currentTerm'[v] = currentTerm'[l] PROVE Alike(l, v, k)'
    <2>1. currentTerm[v] = currentTerm[l]
      BY <1>2, <1>4, <1>5, <1>8 DEF Matches, TermsAreKept
    <2>2. Holds(pre, log[v])
      BY <1>7, <2>1 DEF Matches, Alike, Holds
    <2>3. ASSUME NEW m \in requests, m.term = currentTerm'[v] PROVE Confirms(m, pre)
      <3>1. m.term = currentTerm[l]
        BY <1>4, <1>8, <2>3
      <3>2. QED BY <1>1, <1>2, <1>7, <3>1, RaftAssumption DEF RequestsAreCut, Confirms, Reaches
    <2>4. Holds(pre, log'[v])
      BY <1>1, <1>2, <1>7, <2>2, <2>3, HoldersKeep
    <2>5. k <= Len(log'[v]) /\ \A r \in 1..k : log'[v][r] = pre[r]
      BY <1>7, <2>4 DEF Holds
    <2>6. \A r \in 1..k : pre[r] = log[l][r] /\ log[l][r] = log'[l][r]
      <3>1. 1..k \subseteq 1..Len(log[l])
        BY <1>2
      <3>2. QED BY <1>3, <1>7, <3>1
    <2>7. QED BY <2>5, <2>6 DEF Alike
  <1>9. QED BY <1>6, <1>8 DEF Matches

\* What is a leader's own was so before, or was not there.
LEMMA OwnBefore ==
    ASSUME RaftInv, LogsOK', [NextOrProbe]_raftVars, NEW l \in Node, role'[l] = "Leader",
           NEW k \in 1..MaxLog, Own(l, k)'
    PROVE  Own(l, k)
  <1>1. /\ Len(log'[l]) >= Len(log[l])
        /\ \A r \in 1..Len(log[l]) : log'[l][r] = log[l][r]
    BY LeadersLogsGrow
  <1>2. currentTerm'[l] = currentTerm[l]
    BY ElectionsGoOn
  <1>3. Len(log[l]) \in Nat /\ Len(log'[l]) \in Nat /\ k \in Nat /\ k >= 1
    BY RaftAssumption DEF RaftInv, LogsOK
  <1>4. CASE k > Len(log[l])
    BY <1>4 DEF Own
  <1>5. CASE k <= Len(log[l])
    <2>1. k \in 1..Len(log[l]) /\ ~(k > Len(log'[l]))
      BY <1>1, <1>3, <1>5
    <2>2. QED BY <1>1, <1>2, <2>1 DEF Own
  <1>6. QED BY <1>3, <1>4, <1>5

\* Acknowledgements stay true.
LEMMA NextAcksAreTrue ==
    ASSUME TermInv, TermInv', [NextOrProbe]_raftVars, RepliesNameWinners, NobodyMisleads,
           AcksAreTrue, TermsAreKept
    PROVE  AcksAreTrue'
  <1>1. RaftInv /\ RaftInv' /\ LogsOK'
    BY DEF TermInv, MatchingInv, RaftInv
  <1>2. ASSUME NEW l \in Node, NEW v \in Peers(l), NEW k \in 1..MaxLog,
               role'[l] = "Leader", Own(l, k)', HasAcked(l, v, k)'
        PROVE  Matches(l, v, k)'
    <2>0. Own(l, k)
      BY <1>1, <1>2, OwnBefore
    <2>1. /\ role[l] = "Leader"
          /\ HasAcked(l, v, k) \/ \E m \in requests : AcceptsNow(l, v, k, m)
      BY <1>1, <1>2, <2>0, AcksMove
    <2>2. CASE HasAcked(l, v, k)
      <3>1. Matches(l, v, k)
        BY <1>2, <2>0, <2>1, <2>2 DEF AcksAreTrue
      <3>2. QED BY <1>2, <2>1, <3>1, MatchesStay
    <2>3. ASSUME NEW m \in requests, AcceptsNow(l, v, k, m) PROVE Matches(l, v, k)'
      <3>1. k <= Len(log[l]) /\ currentTerm'[v] = currentTerm'[l] /\ Alike(l, v, k)'
        BY <1>2, <2>1, <2>3, AcceptorsMatch
      <3>2. Len(log'[l]) >= Len(log[l])
        BY <1>1, <1>2, LeadersLogsGrow
      <3>3. Len(log[l]) \in Nat /\ Len(log'[l]) \in Nat /\ k \in Nat
        BY <1>1, RaftAssumption DEF RaftInv, LogsOK
      <3>4. currentTerm'[l] \in Nat
        <4>1. currentTerm' \in [Node -> 0..MaxTerm]
          BY <1>1 DEF RaftInv, EP!LeaderInv, EP!IndInv, EP!TypeOK, EP!Terms
        <4>2. QED BY <4>1, RaftAssumption
      <3>5. QED BY <3>1, <3>2, <3>3, <3>4 DEF Matches
    <2>4. QED BY <2>1, <2>2, <2>3
  <1>3. QED BY <1>2 DEF AcksAreTrue

-----------------------------------------------------------------------------
(* What a leader has heard of enough nodes is secure *)

\* An entry of its own term that a leader has heard of, from nodes that can
\* still become a majority, is secure in the nodes it has heard from.
AckedIsSecure ==
    \A l \in Node : \A pre \in Seq(Entries) : \A A \in SUBSET Node :
       role[l] = "Leader" /\ Len(pre) >= 1 /\ Holds(pre, log[l])
       /\ Final(pre) = currentTerm[l] /\ A = Acks(l, Len(pre)) /\ Choosable(A, Final(pre))
         => Secure(pre, A)

\* SecureGrows, after a step.
LEMMA SecureGrowsNext ==
    ASSUME NEW pre, NEW A \in SUBSET Node, NEW B \in SUBSET Node, B # {}
    PROVE  (RaftInv /\ Secure(pre, A)
              /\ (\A v \in B : v \in A \/ (currentTerm[v] = Final(pre) /\ Holds(pre, log[v])))
            => Secure(pre, B))'
  <1>1. RaftInv /\ Secure(pre, A)
          /\ (\A v \in B : v \in A \/ (currentTerm[v] = Final(pre) /\ Holds(pre, log[v])))
        => Secure(pre, B)
    BY SecureGrows
  <1>2. QED BY <1>1, PTL

\* NewestIsSecure, after a step.
LEMMA NewestIsSecureNext ==
    ASSUME NEW i \in Node, NEW pre, Len(pre) >= 1
    PROVE  (TermInv /\ role[i] = "Leader" /\ pre = log[i] /\ Final(pre) = currentTerm[i]
              /\ Choosable({i}, Final(pre))
              /\ (\A s \in Segments :
                     Reaches(s, Len(pre)) /\ TermIn(s, Len(pre)) = currentTerm[i]
                       => s = LogSegment(pre))
            => Secure(pre, {i}))'
  <1>1. TermInv /\ role[i] = "Leader" /\ pre = log[i] /\ Final(pre) = currentTerm[i]
          /\ Choosable({i}, Final(pre))
          /\ (\A s \in Segments :
                 Reaches(s, Len(pre)) /\ TermIn(s, Len(pre)) = currentTerm[i]
                   => s = LogSegment(pre))
        => Secure(pre, {i})
    BY NewestIsSecure
  <1>2. QED BY <1>1, PTL

\* LogFacts, after a step.
LEMMA LogFactsNext ==
    ASSUME NEW n \in Node
    PROVE  (RaftInv =>
              /\ log[n] \in Seq(Entries) /\ Len(log[n]) \in Nat
              /\ LogSegment(log[n]) \in Segments
              /\ \A r \in 1..Len(log[n]) : /\ r \in 1..MaxLog
                                           /\ Reaches(LogSegment(log[n]), r)
                                           /\ TermIn(LogSegment(log[n]), r) = log[n][r].term
              /\ \A r \in 1..MaxLog : Reaches(LogSegment(log[n]), r) => r \in 1..Len(log[n]))'
  <1>1. RaftInv =>
          /\ log[n] \in Seq(Entries) /\ Len(log[n]) \in Nat /\ LogSegment(log[n]) \in Segments
          /\ \A r \in 1..Len(log[n]) : /\ r \in 1..MaxLog
                                       /\ Reaches(LogSegment(log[n]), r)
                                       /\ TermIn(LogSegment(log[n]), r) = log[n][r].term
          /\ \A r \in 1..MaxLog : Reaches(LogSegment(log[n]), r) => r \in 1..Len(log[n])
    BY LogFacts
  <1>2. QED BY <1>1, PTL

\* A node that has just been elected has no entry of its term yet.
LEMMA NewLeadersHaveNone ==
    ASSUME TermInv, TermInv', [NextOrProbe]_raftVars, NEW l \in Node, role[l] # "Leader",
           role'[l] = "Leader", NEW k \in 1..Len(log'[l])
    PROVE  log'[l][k].term # currentTerm'[l]
  <1>1. RaftInv /\ RaftInv' /\ LogsOK' /\ ReachedTermsAreWon
    BY DEF TermInv, MatchingInv, RaftInv
  <1> SUFFICES ASSUME log'[l][k].term = currentTerm'[l] PROVE FALSE
    OBVIOUS
  <1>2. currentTerm'[l] = currentTerm[l] /\ \A e \in elected : e.term # currentTerm[l]
    BY <1>1, ElectionsGoOn
  <1> DEFINE x == LogSegment(log'[l])
  <1>3. x \in Segments' /\ k \in 1..MaxLog /\ Reaches(x, k) /\ TermIn(x, k) = currentTerm[l]
    BY <1>1, <1>2, LogFactsNext
  <1> HIDE DEF x
  <1>4. ASSUME NEW s \in Segments, Reaches(s, k), TermIn(s, k) = TermIn(x, k) PROVE FALSE
    BY <1>1, <1>2, <1>3, <1>4 DEF ReachedTermsAreWon
  <1>5. ASSUME NEW i \in Node, NEW cmd, Proposes(i, cmd), TermIn(x, k) = currentTerm[i]
        PROVE  FALSE
    <2>1. \E e \in elected : e.term = currentTerm[i]
      BY <1>1, <1>5, ElectionFacts DEF Proposes
    <2>2. QED BY <1>2, <1>3, <1>5, <2>1
  <1>6. QED BY <1>1, <1>3, <1>4, <1>5, ReachesMove

\* A leader has heard of an entry it has just appended from nobody else.
LEMMA NewestIsUnheard ==
    ASSUME TermInv, TermInv', [NextOrProbe]_raftVars, RepliesNameWinners, NobodyMisleads,
           AcksAreTrue, NEW l \in Node, role[l] = "Leader", role'[l] = "Leader",
           NEW k \in 1..MaxLog, k > Len(log[l])
    PROVE  Acks(l, k)' = {l}
  <1>1. RaftInv /\ RaftInv' /\ LogsOK' /\ Len(log[l]) \in Nat
    BY DEF TermInv, MatchingInv, RaftInv, LogsOK
  <1>2. ASSUME NEW v \in Peers(l), HasAcked(l, v, k)' PROVE FALSE
    <2>0. Own(l, k)
      BY DEF Own
    <2>1. HasAcked(l, v, k) \/ \E m \in requests : AcceptsNow(l, v, k, m)
      BY <1>1, <1>2, <2>0, AcksMove
    <2>2. ~ (k <= Len(log[l]))
      BY <1>1, RaftAssumption
    <2>3. CASE HasAcked(l, v, k)
      BY <2>0, <2>2, <2>3 DEF AcksAreTrue, Matches
    <2>4. ASSUME NEW m \in requests, AcceptsNow(l, v, k, m) PROVE FALSE
      BY <2>2, <2>4, AcceptorsMatch
    <2>5. QED BY <2>1, <2>3, <2>4
  <1>3. QED BY <1>2 DEF Acks

\* What a leader has just appended is of its term and at the end of its log.
LEMMA LeadersProposeLast ==
    ASSUME RaftInv, RaftInv', [NextOrProbe]_raftVars, NEW l \in Node, role'[l] = "Leader",
           Len(log'[l]) > Len(log[l])
    PROVE  /\ Len(log'[l]) = Len(log[l]) + 1
           /\ \E cmd \in Command \cup {Noop} : Proposes(l, cmd)
  <1>1. LogsOK /\ RequestsOK /\ Len(log[l]) \in Nat
    BY DEF RaftInv, LogsOK
  <1>2. log'[l] # log[l]
    BY <1>1
  <1>3. ASSUME NEW m \in requests, NEW j \in 0..Len(m.entries), Stores(m, j) PROVE FALSE
    <2>1. role'[m.to] = "Follower" /\ \A n \in Node : n # m.to => log'[n] = log[n]
      BY <1>1, <1>3, StoresInTerm, StoredLog
    <2>2. QED BY <1>2, <2>1
  <1>4. ASSUME NEW i \in Node, NEW cmd \in Command \cup {Noop}, Proposes(i, cmd)
        PROVE  i = l /\ Len(log'[l]) = Len(log[l]) + 1
    <2>1. Len(log'[i]) = Len(log[i]) + 1 /\ \A n \in Node : n # i => log'[n] = log[n]
      BY <1>4, ProposedLog
    <2>2. QED BY <1>2, <2>1
  <1>5. QED BY <1>1, <1>2, <1>3, <1>4, LogsMove

\* The new entry of a leader is secure in it alone.
LEMMA ProposedIsSecure ==
    ASSUME TermInv, TermInv', [NextOrProbe]_raftVars, RepliesNameWinners, NobodyMisleads,
           AcksAreTrue, NEW l \in Node, role[l] = "Leader", role'[l] = "Leader",
           NEW pre \in Seq(Entries), Holds(pre, log'[l]), Len(pre) >= 1,
           Len(pre) > Len(log[l]), Final(pre) = currentTerm'[l],
           NEW A, A = Acks(l, Len(pre))', Choosable(A, Final(pre))'
    PROVE  Secure(pre, A)'
  <1> DEFINE k == Len(pre)
  <1>1. /\ RaftInv /\ RaftInv' /\ LogsOK' /\ LeadersReachFarthest
        /\ Len(log[l]) \in Nat /\ Len(log'[l]) \in Nat /\ log'[l] \in Seq(Entries)
        /\ k \in Nat /\ Len(log'[l]) <= MaxLog
    BY DEF TermInv, MatchingInv, RaftInv, LogsOK
  <1>2. k <= Len(log'[l]) /\ \A r \in 1..k : log'[l][r] = pre[r]
    BY DEF Holds
  <1>3. Len(log'[l]) > Len(log[l])
    BY <1>1, <1>2
  <1>4. Len(log'[l]) = Len(log[l]) + 1 /\ \E cmd \in Command \cup {Noop} : Proposes(l, cmd)
    BY <1>1, <1>3, LeadersProposeLast
  <1>5. k = Len(log'[l]) /\ k \in 1..MaxLog
    BY <1>1, <1>2, <1>4, RaftAssumption
  <1>6. pre = log'[l]
    BY <1>1, <1>2, <1>5
  <1>7. A = {l}
    BY <1>1, <1>5, NewestIsUnheard
  <1>8. currentTerm'[l] = currentTerm[l]
    BY <1>1, ElectionsGoOn
  <1>9. ASSUME NEW s \in Segments', Reaches(s, k), TermIn(s, k) = currentTerm'[l]
        PROVE  s = LogSegment(pre)
    <2>1. ASSUME NEW t \in Segments, Reaches(t, k), TermIn(t, k) = TermIn(s, k) PROVE FALSE
      <3>1. k <= Len(log[l])
        BY <1>5, <1>8, <1>9, <2>1, <1>1 DEF LeadersReachFarthest
      <3>2. QED BY <1>1, <1>4, <1>5, <3>1
    <2>2. ASSUME NEW i \in Node, NEW cmd \in Command \cup {Noop}, Proposes(i, cmd),
                 s = LogSegment(log'[i]), TermIn(s, k) = currentTerm[i]
          PROVE  s = LogSegment(pre)
      <3>1. role[i] = "Leader" /\ currentTerm[i] = currentTerm[l]
        BY <1>8, <1>9, <2>2 DEF Proposes
      <3>2. i = l
        BY <1>1, <3>1, LeadersAreOne
      <3>3. QED BY <1>6, <2>2, <3>2
    <2>3. QED BY <1>1, <1>5, <1>9, <2>1, <2>2, ReachesMove
  <1>10. Choosable({l}, Final(pre))'
    BY <1>7, Zenon
  <1>11. Secure(pre, {l})'
    BY <1>6, <1>9, <1>10, NewestIsSecureNext
  <1>12. QED BY <1>7, <1>11, Zenon

\* An entry that was there stays secure, also in the nodes that follow.
LEMMA HeardStaysSecure ==
    ASSUME TermsAreKept, TermInv, TermInv', [NextOrProbe]_raftVars, RepliesNameWinners,
           NobodyMisleads, AcksAreTrue', AckedIsSecure,
           NEW l \in Node, role[l] = "Leader", role'[l] = "Leader",
           NEW pre \in Seq(Entries), Holds(pre, log'[l]), Len(pre) >= 1,
           Len(pre) <= Len(log[l]), Final(pre) = currentTerm'[l],
           NEW B, B = Acks(l, Len(pre))', Choosable(B, Final(pre))'
    PROVE  Secure(pre, B)'
  <1> DEFINE k == Len(pre)
             u == Final(pre)
  <1>1. /\ RaftInv /\ RaftInv' /\ LogsOK'
        /\ Len(log[l]) \in Nat /\ k \in Nat /\ Len(log[l]) <= MaxLog
    BY DEF TermInv, MatchingInv, RaftInv, LogsOK
  <1>2. currentTerm' \in [Node -> 0..MaxTerm] /\ currentTerm \in [Node -> 0..MaxTerm]
    BY <1>1, ElectionFacts DEF RaftInv, EP!LeaderInv, EP!IndInv, EP!TypeOK, EP!Terms
  <1>3. /\ currentTerm'[l] = currentTerm[l]
        /\ \A r \in 1..Len(log[l]) : log'[l][r] = log[l][r]
    BY <1>1, ElectionsGoOn, LeadersLogsGrow
  <1>4. Holds(pre, log[l]) /\ k \in 1..MaxLog
    BY <1>1, <1>3, RaftAssumption DEF Holds
  <1>5. PICK A \in SUBSET Node : A = Acks(l, k)
    BY DEF Acks, Peers
  <1>6. B \in SUBSET Node /\ B # {}
    BY DEF Acks, Peers
  <1>7. ASSUME NEW v \in B
        PROVE  v \in A \/ (currentTerm'[v] = u /\ Holds(pre, log'[v]))
    <2>1. CASE v = l
      BY <1>5, <2>1 DEF Acks
    <2>2. CASE v \in Peers(l) /\ HasAcked(l, v, k)'
      <3>0. Own(l, k)
        <4>1. log[l][k].term = Final(pre)
          BY <1>1, <1>4 DEF Holds, Final
        <4>2. QED BY <1>3, <4>1 DEF Own
      <3>1. HasAcked(l, v, k) \/ \E m \in requests : AcceptsNow(l, v, k, m)
        BY <1>1, <1>4, <2>2, <3>0, AcksMove
      <3>2. CASE HasAcked(l, v, k)
        BY <1>5, <2>2, <3>2 DEF Acks
      <3>3. ASSUME NEW m \in requests, AcceptsNow(l, v, k, m)
            PROVE  currentTerm'[v] = u /\ Holds(pre, log'[v])
        <4>1. currentTerm'[v] = currentTerm'[l] /\ Alike(l, v, k)'
          BY <1>4, <2>2, <3>3, AcceptorsMatch
        <4>2. QED BY <4>1 DEF Alike, Holds
      <3>4. QED BY <3>1, <3>2, <3>3
    <2>3. QED BY <1>7, <2>1, <2>2 DEF Acks, Peers
  <1>8. Choosable(A, u)
    <2>1. PICK Q \in SUBSET Node : IsMajority(Q) /\ \A v \in Q : v \in B \/ currentTerm'[v] <= u
      BY DEF Choosable, IsMajority, Majority, ClusterSize
    <2>2. ASSUME NEW v \in Q PROVE v \in A \/ currentTerm[v] <= u
      <3>1. /\ currentTerm[v] \in Nat /\ currentTerm'[v] \in Nat /\ currentTerm'[l] \in Nat
            /\ currentTerm'[v] >= currentTerm[v]
        BY <1>2, RaftAssumption DEF TermsAreKept
      <3>2. v \in A \/ currentTerm'[v] <= u
        BY <1>7, <2>1, <3>1
      <3>3. QED BY <3>1, <3>2
    <2>3. QED BY <2>1, <2>2 DEF Choosable
  <1>9. Secure(pre, A)
    BY <1>3, <1>4, <1>5, <1>8 DEF AckedIsSecure
  <1>10. Secure(pre, A)'
    BY <1>8, <1>9, SecureStays
  <1>11. QED BY <1>1, <1>6, <1>7, <1>10, SecureGrowsNext

\* What leaders have heard of from enough nodes stays secure.
LEMMA NextAckedIsSecure ==
    ASSUME TermsAreKept, TermInv, TermInv', [NextOrProbe]_raftVars, RepliesNameWinners,
           NobodyMisleads, AcksAreTrue, AcksAreTrue', AckedIsSecure
    PROVE  AckedIsSecure'
  <1>1. ASSUME NEW l \in Node, NEW pre \in Seq(Entries), NEW A \in SUBSET Node,
               role'[l] = "Leader", Len(pre) >= 1, Holds(pre, log'[l]),
               Final(pre) = currentTerm'[l], A = Acks(l, Len(pre))', Choosable(A, Final(pre))'
        PROVE  Secure(pre, A)'
    <2>1. Len(log[l]) \in Nat /\ Len(log'[l]) \in Nat /\ Len(pre) \in Nat
      BY DEF TermInv, MatchingInv, RaftInv, LogsOK
    <2>2. CASE role[l] # "Leader"
      <3>1. Len(pre) \in 1..Len(log'[l]) /\ log'[l][Len(pre)] = pre[Len(pre)]
        BY <1>1, <2>1 DEF Holds
      <3>2. log'[l][Len(pre)].term = currentTerm'[l]
        BY <1>1, <3>1 DEF Final
      <3>3. QED BY <1>1, <2>2, <3>1, <3>2, NewLeadersHaveNone
    <2>3. CASE role[l] = "Leader" /\ Len(pre) <= Len(log[l])
      BY <1>1, <2>3, HeardStaysSecure
    <2>4. CASE role[l] = "Leader" /\ Len(pre) > Len(log[l])
      BY <1>1, <2>4, ProposedIsSecure
    <2>5. QED BY <2>1, <2>2, <2>3, <2>4
  <1>2. QED BY <1>1 DEF AckedIsSecure, Holds, Final

-----------------------------------------------------------------------------
(* What is committed is safe *)

\* A majority has the prefix, and nobody who could overwrite it lacks it.
Safe(pre) == \E A \in SUBSET Node : IsMajority(A) /\ Secure(pre, A)

\* The first n entries that are chosen are safe, and have been since term t.
Warranted(n, t) ==
    \/ n = 0
    \/ \E pre \in Seq(Entries) :
          Safe(pre) /\ Holds(pre, chosen) /\ n <= Len(pre) /\ Final(pre) <= t

ChosenIsSafe == \A pre \in Seq(Entries) : pre = chosen => pre = <<>> \/ Safe(pre)

RequestsAreWarranted == \A m \in requests : Warranted(m.commit, m.term)

AppliedIsWarranted ==
    \A i \in Node : /\ commitIndex[i] <= Len(applied[i])
                    /\ Holds(applied[i], chosen)
                    /\ Holds(applied[i], log[i])
                    /\ Warranted(Len(applied[i]), currentTerm[i])

CommitInv ==
    /\ TermInv
    /\ RepliesNameWinners
    /\ AcksAreTrue
    /\ AckedIsSecure
    /\ ChosenIsSafe
    /\ RequestsAreWarranted
    /\ AppliedIsWarranted

\* The types of all of it.
LEMMA CommitFacts ==
    ASSUME TermInv
    PROVE  /\ RaftInv /\ MatchingInv /\ ReachedTermsAreWon
           /\ chosen \in Seq(Entries) /\ Len(chosen) \in Nat
           /\ \A i \in Node : /\ log[i] \in Seq(Entries) /\ Len(log[i]) \in Nat
                              /\ Len(log[i]) <= MaxLog
                              /\ applied[i] \in Seq(Entries) /\ Len(applied[i]) \in Nat
                              /\ commitIndex[i] \in Nat
                              /\ currentTerm[i] \in Nat
           /\ commitIndex \in [Node -> 0..MaxLog]
           /\ applied \in [Node -> Seq(Entries)]
           /\ MaxLog \in Nat
  <1>1. RaftInv /\ MatchingInv /\ ReachedTermsAreWon
    BY DEF TermInv, MatchingInv
  <1>2. LogsOK /\ AppliedOK
    BY <1>1 DEF RaftInv
  <1>3. \A i \in Node : currentTerm[i] \in Nat
    BY <1>1, ElectionFacts, RaftAssumption
  <1>4. QED
    BY <1>1, <1>2, <1>3, RaftAssumption DEF LogsOK, AppliedOK

\* What is safe stays safe: the majority that has it binds every later one.
LEMMA SafeStays ==
    ASSUME TermsAreKept, TermInv, [NextOrProbe]_raftVars, NEW pre, Safe(pre)
    PROVE  Safe(pre)'
  <1>1. PICK A \in SUBSET Node : IsMajority(A) /\ Secure(pre, A)
    BY DEF Safe
  <1>2. Choosable(A, Final(pre))
    BY <1>1 DEF Choosable
  <1>3. Secure(pre, A)'
    BY <1>1, <1>2, SecureStays
  <1>4. QED BY <1>1, <1>3 DEF Safe, IsMajority, Majority, ClusterSize

\* What a safe prefix is, and a node that has it.
LEMMA SafeFacts ==
    ASSUME RaftInv, NEW pre, Safe(pre)
    PROVE  /\ pre \in Seq(Entries) /\ Len(pre) \in Nat /\ Len(pre) >= 1 /\ Final(pre) \in Nat
           /\ \E v \in Node : Holds(pre, log[v]) /\ currentTerm[v] >= Final(pre)
           /\ LeadersHold(pre) /\ RequestsFit(pre)
           /\ Final(pre) = pre[Len(pre)].term
  <1>1. PICK A \in SUBSET Node : IsMajority(A) /\ Secure(pre, A)
    BY DEF Safe
  <1>2. Ending(pre) /\ HeldBy(pre, A) /\ LeadersHold(pre) /\ RequestsFit(pre)
    BY <1>1 DEF Secure
  <1>3. QED BY <1>2, EndingFacts DEF HeldBy, Final

\* Prefixes of prefixes.
LEMMA HoldsTransitive ==
    ASSUME NEW a, NEW b, NEW c, Len(a) \in Nat, Len(b) \in Nat, Len(c) \in Nat,
           Holds(a, b), Holds(b, c)
    PROVE  Holds(a, c)
  BY DEF Holds

\* Of two prefixes of the same log the shorter one is a prefix of the other.
LEMMA HoldsShorter ==
    ASSUME NEW a, NEW b, NEW c, Len(a) \in Nat, Len(b) \in Nat, Len(c) \in Nat,
           Holds(a, c), Holds(b, c), Len(a) <= Len(b)
    PROVE  Holds(a, b)
  BY DEF Holds

-----------------------------------------------------------------------------
(* What a step applies *)

\* What an applied log becomes: it has been extended along the node's log.
Becomes(i, a) ==
    /\ applied' = [applied EXCEPT ![i] = a]
    /\ chosen' = IF Len(a) > Len(chosen) THEN a ELSE chosen
    /\ Holds(applied[i], a)
    /\ Holds(a, log'[i])

\* The part of a log from position p to position n.
LEMMA SliceIs ==
    ASSUME NEW S, NEW s \in Seq(S), NEW p \in Nat, NEW n \in Nat, p <= n, n <= Len(s)
    PROVE  LET new == SubSeq(s, p + 1, n)
           IN  /\ new \in Seq(S) /\ Len(new) = n - p
               /\ \A r \in 1..(n - p) : new[r] = s[p + r]
  <1> DEFINE q == p + 1
             new == SubSeq(s, q, n)
  <1>1. q \in Int /\ n \in Int /\ \A r \in q..n : s[r] \in S
    OBVIOUS
  <1> HIDE DEF q
  <1>2. /\ new \in Seq(S) /\ Len(new) = IF q <= n THEN n - q + 1 ELSE 0
        /\ \A r \in 1..(n - q + 1) : new[r] = s[q + r - 1]
    BY <1>1, SubSeqProperties
  <1> HIDE DEF new
  <1>3. n - q + 1 = n - p /\ (q <= n \/ n - p = 0)
    BY DEF q
  <1>4. \A r \in 1..(n - p) : q + r - 1 = p + r
    BY DEF q
  <1>5. new \in Seq(S) /\ Len(new) = n - p /\ \A r \in 1..(n - p) : new[r] = s[p + r]
    BY <1>2, <1>3, <1>4
  <1>6. QED BY <1>5 DEF new, q

\* A prefix of a log, extended along the log.
LEMMA ExtendedIs ==
    ASSUME NEW l \in Seq(Entries), NEW b \in Seq(Entries), Holds(b, l),
           NEW c \in Nat, Len(b) <= c, c <= Len(l)
    PROVE  LET a == b \o SubSeq(l, Len(b) + 1, c)
           IN  a \in Seq(Entries) /\ Len(a) = c /\ Holds(a, l) /\ Holds(b, a)
  <1> DEFINE p == Len(b)
             new == SubSeq(l, p + 1, c)
             a == b \o new
  <1>1. p \in Nat /\ p <= c /\ Len(l) \in Nat
    OBVIOUS
  <1>2. \A r \in 1..p : l[r] = b[r]
    BY DEF Holds
  <1>3. new \in Seq(Entries) /\ Len(new) = c - p /\ \A r \in 1..(c - p) : new[r] = l[p + r]
    <2> HIDE DEF p
    <2>1. QED BY <1>1, SliceIs
  <1> HIDE DEF new
  <1>4. /\ a \in Seq(Entries) /\ Len(a) = Len(b) + Len(new)
        /\ \A r \in 1..(Len(b) + Len(new)) :
              a[r] = IF r <= Len(b) THEN b[r] ELSE new[r - Len(b)]
    BY <1>3, ConcatProperties
  <1> HIDE DEF a
  <1>5. Len(b) + Len(new) = c
    BY <1>1, <1>3
  <1>6. ASSUME NEW r \in 1..c PROVE a[r] = l[r] /\ (r <= p => a[r] = b[r])
    <2>1. CASE r <= p
      BY <1>1, <1>2, <1>4, <1>5, <2>1
    <2>2. CASE r > p
      <3>1. r - p \in 1..(c - p) /\ p + (r - p) = r /\ ~(r <= Len(b))
        BY <1>1, <2>2
      <3>2. a[r] = new[r - p]
        BY <1>4, <1>5, <3>1
      <3>3. QED BY <1>3, <3>1, <3>2
    <2>3. QED BY <1>1, <2>1, <2>2
  <1>7. Holds(a, l) /\ Holds(b, a)
    BY <1>1, <1>4, <1>5, <1>6 DEF Holds
  <1>8. QED BY <1>4, <1>5, <1>7 DEF a, new

\* applyCommitted: the state machine is given the log up to the commit index,
\* or nothing.
LEMMA ApplyIs ==
    ASSUME TermInv, LogsOK', NEW i \in Node, ApplyCommitted(i), Holds(applied[i], log'[i]),
           NEW c \in Nat, c = commitIndex'[i], c <= Len(log'[i]) \/ c <= Len(applied[i])
    PROVE  \E a \in Seq(Entries) :
              /\ Becomes(i, a)
              /\ IF c <= Len(applied[i]) THEN a = applied[i] ELSE Len(a) = c
  <1> DEFINE l == log'[i]
             b == applied[i]
             to == IF c <= Len(l) THEN c ELSE Len(l)
             new == SubSeq(l, Len(b) + 1, to)
             a == b \o new
  <1>1. /\ l \in Seq(Entries) /\ Len(l) \in Nat /\ b \in Seq(Entries) /\ Len(b) \in Nat
        /\ applied \in [Node -> Seq(Entries)] /\ Len(b) <= Len(l)
        /\ \A r \in 1..Len(b) : l[r] = b[r]
    <2>1. l \in Seq(Entries) /\ Len(l) \in Nat
      BY DEF LogsOK
    <2>2. b \in Seq(Entries) /\ Len(b) \in Nat /\ applied \in [Node -> Seq(Entries)]
      BY CommitFacts
    <2>3. QED BY <2>1, <2>2 DEF Holds
  <1>2. applied' = [applied EXCEPT ![i] = a]
    <2>1. applied' = [applied EXCEPT ![i] =
             b \o SubSeq(log'[i], Len(b) + 1,
                         IF commitIndex'[i] <= Len(log'[i]) THEN commitIndex'[i]
                                                            ELSE Len(log'[i]))]
      BY ZenonT(30) DEF ApplyCommitted
    <2>2. QED BY <2>1
  <1>3. chosen' = IF Len(a) > Len(chosen) THEN a ELSE chosen
    BY <1>1, <1>2 DEF ApplyCommitted
  <1> HIDE DEF a
  <1>4. CASE c <= Len(b)
    <2>1. to \in Nat /\ to < Len(b) + 1
      BY <1>1, <1>4
    <2>2. new = <<>>
      BY <1>1, <2>1, SubSeqEmpty
    <2>3. a = b
      BY <1>1, <2>2, ConcatEmptySeq DEF a
    <2>4. Becomes(i, a)
      BY <1>1, <1>2, <1>3, <2>3 DEF Becomes, Holds
    <2>5. QED BY <1>1, <1>4, <2>3, <2>4
  <1>5. CASE ~(c <= Len(b))
    <2>1. to = c /\ c <= Len(l) /\ c > Len(b)
      BY <1>1, <1>5
    <2>2. /\ a \in Seq(Entries) /\ Len(a) = c /\ Holds(a, l) /\ Holds(b, a)
      BY <1>1, <2>1, ExtendedIs DEF a, Holds
    <2>3. Becomes(i, a)
      BY <1>2, <1>3, <2>2 DEF Becomes
    <2>4. QED BY <1>5, <2>2, <2>3
  <1>6. QED BY <1>4, <1>5

\* What has been applied stays in the log: no request to the node denies it.
LEMMA AppliedKeeps ==
    ASSUME TermInv, AppliedIsWarranted, [NextOrProbe]_raftVars, NEW i \in Node
    PROVE  Holds(applied[i], log'[i])
  <1>1. PICK a : a = applied[i]
    OBVIOUS
  <1>2. /\ a \in Seq(Entries) /\ Len(a) \in Nat /\ Holds(a, chosen) /\ Holds(a, log[i])
        /\ Warranted(Len(a), currentTerm[i]) /\ Len(chosen) \in Nat
    BY <1>1, CommitFacts DEF AppliedIsWarranted
  <1>3. ASSUME NEW m \in requests, m.term >= currentTerm[i] PROVE Confirms(m, a)
    <2>1. CASE Len(a) = 0
      BY <2>1 DEF Confirms
    <2>2. ASSUME NEW pre \in Seq(Entries), Safe(pre), Holds(pre, chosen), Len(a) <= Len(pre),
                 Final(pre) <= currentTerm[i]
          PROVE  Confirms(m, a)
      <3>1. RequestsFit(pre) /\ Final(pre) \in Nat /\ Len(pre) \in Nat
        BY <2>2, CommitFacts, SafeFacts
      <3>2. m.term \in Nat /\ currentTerm[i] \in Nat
        BY CommitFacts, RaftAssumption DEF RaftInv, RequestsOK, RequestType
      <3>3. Consistent(RequestSegment(m), pre)
        BY <1>3, <2>2, <3>1, <3>2 DEF RequestsFit
      <3>4. Holds(a, pre)
        BY <1>2, <2>2, <3>1, HoldsShorter
      <3>5. ASSUME NEW r \in 1..MaxLog, r <= Len(a), Reaches(RequestSegment(m), r)
            PROVE  TermIn(RequestSegment(m), r) = a[r].term
        <4>1. r \in 1..Len(a) /\ r <= Len(pre)
          BY <1>2, <2>2, <3>1, <3>5, RaftAssumption
        <4>2. pre[r] = a[r]
          BY <3>4, <4>1 DEF Holds
        <4>3. TermIn(RequestSegment(m), r) = pre[r].term
          BY <3>3, <3>5, <4>1 DEF Consistent
        <4>4. QED BY <4>2, <4>3
      <3>6. QED BY <3>5 DEF Confirms
    <2>3. QED BY <1>2, <2>1, <2>2 DEF Warranted
  <1>4. Holds(a, log'[i])
    BY <1>2, <1>3, CommitFacts, HoldersKeep
  <1>5. QED BY <1>1, <1>4

\* BeyondHolds, after a step.
LEMMA BeyondHoldsNext ==
    ASSUME NEW pre, NEW A \in SUBSET Node, NEW n \in Node
    PROVE  (MatchingInv /\ ReachedTermsAreWon /\ Secure(pre, A)
              /\ Beyond(LogSegment(log[n]), pre) => Holds(pre, log[n]))'
  <1>1. MatchingInv /\ ReachedTermsAreWon /\ Secure(pre, A)
          /\ Beyond(LogSegment(log[n]), pre) => Holds(pre, log[n])
    BY BeyondHolds
  <1>2. QED BY <1>1, PTL

\* A follower that accepts a request has what is secure, up to where the
\* request goes.
LEMMA AcceptedFits ==
    ASSUME TermInv, TermInv', [NextOrProbe]_raftVars, NEW m \in requests, Accept(m.to, m),
           Covered(m) >= 1, NEW pre \in Seq(Entries), NEW A \in SUBSET Node,
           Secure(pre, A), Secure(pre, A)', Final(pre) <= m.term
    PROVE  \A r \in 1..Covered(m) : r <= Len(pre) => log'[m.to][r] = pre[r]
  <1> DEFINE n == Covered(m)
             i == m.to
             q == RequestSegment(m)
  <1>1. /\ RaftInv /\ RaftInv' /\ MatchingInv' /\ ReachedTermsAreWon'
    BY DEF TermInv, MatchingInv
  <1>2. /\ i \in Node /\ n \in 1..MaxLog /\ n \in Nat /\ n <= Len(log'[i]) /\ Reaches(q, n)
        /\ log'[i][n].term = TermIn(q, n)
    BY <1>1, AcceptedIs, RaftAssumption
  <1>3. /\ Len(pre) \in Nat /\ Len(pre) >= 1 /\ Final(pre) \in Nat /\ RequestsFit(pre)
        /\ Final(pre) = pre[Len(pre)].term
    BY <1>1, EndingFacts DEF Secure, Final
  <1>4. Consistent(q, pre)
    BY <1>3 DEF RequestsFit
  <1>5. PICK w \in Node : Holds(pre, log'[w])
    BY DEF Secure, HeldBy
  <1>6. Len(log'[i]) \in Nat /\ Len(log'[w]) \in Nat
    BY <1>1, <1>2 DEF RaftInv, LogsOK
  <1> HIDE DEF n, i, q
  <1>7. CASE n <= Len(pre)
    <2>1. TermIn(q, n) = pre[n].term
      BY <1>2, <1>4, <1>7 DEF Consistent
    <2>2. n <= Len(log'[w]) /\ \A r \in 1..n : log'[w][r] = pre[r]
      BY <1>2, <1>3, <1>5, <1>6, <1>7 DEF Holds
    <2>3. n \in 1..Len(log'[i]) /\ log'[i][n].term = log'[w][n].term
      BY <1>2, <1>6, <2>1, <2>2
    <2>4. \A r \in 1..n : log'[i][r] = log'[w][r]
      BY <1>1, <1>2, <2>2, <2>3, LogsAgreeNext
    <2>5. QED BY <2>2, <2>4 DEF n, i
  <1>8. CASE n > Len(pre)
    <2>1. TermIn(q, n) >= Final(pre)
      BY <1>2, <1>3, <1>4, <1>8 DEF Consistent
    <2>2. /\ Reaches(LogSegment(log'[i]), n)
          /\ TermIn(LogSegment(log'[i]), n) = log'[i][n].term
      <3>1. n \in 1..Len(log'[i])
        BY <1>2, <1>6
      <3>2. QED BY <1>1, <1>2, <3>1, LogFactsNext
    <2>3. log'[i][n].term \in Nat
      <3>1. log'[i] \in Seq(Entries) /\ n \in 1..Len(log'[i])
        BY <1>1, <1>2, <1>6 DEF RaftInv, LogsOK
      <3>2. log'[i][n] \in Entries
        BY <3>1
      <3>3. QED BY <3>2, RaftAssumption DEF Entries
    <2>4. Beyond(LogSegment(log[i]), pre)'
      <3>1. \/ TermIn(LogSegment(log'[i]), n) > Final(pre)
            \/ TermIn(LogSegment(log'[i]), n) = Final(pre) /\ n >= Len(pre)
        BY <1>2, <1>3, <1>8, <2>1, <2>2, <2>3
      <3>2. QED BY <1>2, <2>2, <3>1 DEF Beyond
    <2>5. Holds(pre, log'[i])
      BY <1>1, <1>2, <2>4, BeyondHoldsNext
    <2>6. QED BY <1>3, <2>5 DEF Holds, i
  <1>9. QED BY <1>2, <1>3, <1>7, <1>8

\* A safe prefix that has all node i has applied by now, and is chosen.
Settles(i, a, pre) ==
    /\ pre \in Seq(Entries) /\ Safe(pre)' /\ Holds(a, pre) /\ Final(pre) <= currentTerm'[i]
    /\ Holds(pre, chosen) \/ (a = pre /\ Holds(chosen, pre))

AppliesMore(i) ==
    \E a \in Seq(Entries) :
       /\ Becomes(i, a)
       /\ commitIndex' = [commitIndex EXCEPT ![i] = commitIndex'[i]]
       /\ commitIndex'[i] <= Len(a)
       /\ a = applied[i] \/ \E pre : Settles(i, a, pre)

\* Rule 4 applies what is safe.
LEMMA AcceptApplies ==
    ASSUME TermsAreKept, CommitInv, TermInv', [NextOrProbe]_raftVars,
           NEW m \in requests, Accept(m.to, m)
    PROVE  AppliesMore(m.to)
  <1> DEFINE i == m.to
             n == Covered(m)
  <1>1. TermInv /\ RaftInv /\ LogsOK' /\ AppliedIsWarranted /\ RequestsAreWarranted
    BY DEF CommitInv, TermInv, MatchingInv, RaftInv
  <1>2. /\ i \in Node /\ n \in Nat /\ m.commit \in Nat /\ m.term \in Nat
    BY <1>1, RaftAssumption DEF RaftInv, RequestsOK, RequestType, Covered
  <1>3. /\ Len(log'[i]) \in Nat /\ Len(applied[i]) \in Nat /\ commitIndex[i] \in Nat
        /\ Holds(applied[i], log'[i]) /\ commitIndex[i] <= Len(applied[i])
        /\ commitIndex \in [Node -> 0..MaxLog]
    BY <1>1, <1>2, CommitFacts, AppliedKeeps DEF AppliedIsWarranted, LogsOK
  <1>4. n >= 1 => n <= Len(log'[i])
    BY <1>1, AcceptedIs
  <1>5. /\ commitIndex' = [commitIndex EXCEPT ![i] = CommitAfter(i, m)]
        /\ ApplyCommitted(i) /\ E!HeedLeader(i, m.term, m.from) /\ leaderID'[i] = m.from
    BY DEF Accept
  <1>6. PICK c : c = commitIndex'[i]
    OBVIOUS
  <1>7. c = CommitAfter(i, m)
    BY <1>2, <1>3, <1>5, <1>6
  <1>8. c \in Nat /\ (c = commitIndex[i] \/ (c <= m.commit /\ c <= n))
    BY <1>2, <1>3, <1>7 DEF CommitAfter, Covered
  <1>9. c <= Len(log'[i]) \/ c <= Len(applied[i])
    BY <1>2, <1>3, <1>4, <1>8
  <1>10. PICK a \in Seq(Entries) : /\ Becomes(i, a)
                                   /\ IF c <= Len(applied[i]) THEN a = applied[i]
                                                              ELSE Len(a) = c
    <2> HIDE DEF i
    <2>1. QED BY <1>1, <1>2, <1>3, <1>5, <1>6, <1>8, <1>9, ApplyIs
  <1>11. c <= Len(a)
    BY <1>8, <1>10
  <1>12. commitIndex' = [commitIndex EXCEPT ![i] = commitIndex'[i]]
    BY <1>5, <1>6, <1>7
  <1>13. CASE c <= Len(applied[i])
    BY <1>6, <1>10, <1>11, <1>12, <1>13 DEF AppliesMore
  <1>14. CASE ~(c <= Len(applied[i]))
    <2>1. /\ Len(a) = c /\ c >= 1 /\ c <= m.commit /\ c <= n /\ m.commit # 0 /\ n >= 1
      BY <1>2, <1>3, <1>8, <1>10, <1>14
    <2>2. PICK pre \in Seq(Entries) : /\ Safe(pre) /\ Holds(pre, chosen)
                                      /\ m.commit <= Len(pre) /\ Final(pre) <= m.term
      BY <1>1, <2>1 DEF RequestsAreWarranted, Warranted
    <2>3. Safe(pre)'
      BY <1>1, <2>2, SafeStays
    <2>4. \A r \in 1..n : r <= Len(pre) => log'[i][r] = pre[r]
      <3>1. PICK A \in SUBSET Node : Secure(pre, A) /\ Choosable(A, Final(pre))
        BY <2>2 DEF Safe, Choosable
      <3>2. Secure(pre, A)'
        BY <1>1, <3>1, SecureStays
      <3>3. QED BY <1>1, <2>1, <2>2, <3>1, <3>2, AcceptedFits
    <2>5. \A r \in 1..c : log'[i][r] = a[r]
      BY <1>10, <2>1 DEF Becomes, Holds
    <2>6. Len(pre) \in Nat
      BY <2>2
    <2>7. Holds(a, pre)
      <3> HIDE DEF i, n
      <3>1. c <= Len(pre)
        BY <1>2, <1>8, <2>1, <2>2, <2>6
      <3>2. \A r \in 1..c : r \in 1..n /\ r <= Len(pre)
        BY <1>2, <1>8, <2>1, <2>6, <3>1
      <3>3. \A r \in 1..c : pre[r] = a[r]
        BY <2>4, <2>5, <3>2
      <3>4. QED BY <2>1, <3>1, <3>3 DEF Holds
    <2>8. currentTerm'[i] = m.term
      <3>1. m.from \in Node
        BY <1>1 DEF RaftInv, RequestsOK, RequestType
      <3>2. currentTerm' = [currentTerm EXCEPT ![i] = m.term]
        BY <1>5 DEF E!HeedLeader, E!EnterTerm
      <3>3. QED BY <1>1, <1>2, <3>2, ElectionFacts
    <2>9. Settles(i, a, pre)
      BY <2>2, <2>3, <2>7, <2>8 DEF Settles
    <2>10. QED BY <1>6, <1>10, <1>11, <1>12, <2>9 DEF AppliesMore
  <1>15. QED BY <1>13, <1>14

\* What advanceCommit may commit is safe.
LEMMA CommittableIsSafe ==
    ASSUME CommitInv, NEW i \in Node, role[i] = "Leader", NEW n \in Committable(i),
           NEW pre, pre = SubSeq(log[i], 1, n)
    PROVE  /\ Safe(pre) /\ Holds(pre, log[i]) /\ pre \in Seq(Entries) /\ Len(pre) = n
           /\ Final(pre) = currentTerm[i] /\ n \in 1..Len(log[i])
  <1>1. /\ TermInv /\ RaftInv /\ AckedIsSecure /\ log[i] \in Seq(Entries)
        /\ Len(log[i]) \in Nat /\ commitIndex[i] \in Nat
    BY CommitFacts DEF CommitInv
  <1>2. /\ n \in (commitIndex[i] + 1)..Len(log[i])
        /\ TermAt(log[i], n) = currentTerm[i]
        /\ IsMajority(Replicated(i, n))
    <2>1. n \in n..Len(log[i])
      BY <1>1 DEF Committable, LastIndex
    <2>2. QED BY <2>1 DEF Committable, LastIndex
  <1>3. n \in 1..Len(log[i])
    BY <1>1, <1>2
  <1>4. /\ pre \in Seq(Entries) /\ Len(pre) = n /\ Len(pre) >= 1 /\ Holds(pre, log[i])
        /\ Final(pre) = log[i][n].term
    BY <1>1, <1>3, PrefixIs
  <1>5. Final(pre) = currentTerm[i]
    BY <1>1, <1>2, <1>3, <1>4 DEF TermAt
  <1>6. PICK A \in SUBSET Node : A = Acks(i, n)
    BY DEF Acks, Peers
  <1>7. PICK B \in SUBSET Node : B = Replicated(i, n)
    BY DEF Replicated, Peers
  <1>8. B # {} /\ B \subseteq A
    BY <1>6, <1>7 DEF Replicated, Acks, HasAcked
  <1>9. Choosable(A, Final(pre))
    BY <1>2, <1>7, <1>8 DEF Choosable
  <1>10. Secure(pre, A)
    BY <1>1, <1>4, <1>5, <1>6, <1>9 DEF AckedIsSecure
  <1>11. Secure(pre, B)
    BY <1>1, <1>8, <1>10, SecureGrows
  <1>12. Safe(pre)
    BY <1>2, <1>7, <1>11 DEF Safe
  <1>13. QED BY <1>3, <1>4, <1>5, <1>12

\* Two safe prefixes never deny each other: who holds the one with the later
\* end is beyond the other, and holds it, too.
LEMMA SafesAgree ==
    ASSUME TermInv, NEW a, NEW b, Safe(a), Safe(b)
    PROVE  Holds(a, b) \/ Holds(b, a)
  <1>1. /\ RaftInv /\ MatchingInv /\ ReachedTermsAreWon
        /\ \A n \in Node : Len(log[n]) \in Nat
    BY CommitFacts
  <1>2. /\ Len(a) \in Nat /\ Final(a) \in Nat
        /\ Len(b) \in Nat /\ Final(b) \in Nat
    BY <1>1, SafeFacts
  <1>3. ASSUME NEW x, NEW y, Safe(x), Safe(y),
               Final(x) > Final(y) \/ (Final(x) = Final(y) /\ Len(x) >= Len(y))
        PROVE  \E n \in Node : Holds(x, log[n]) /\ Holds(y, log[n])
    <2>1. PICK n \in Node : Holds(x, log[n])
      BY <1>1, <1>3, SafeFacts
    <2>2. Len(x) \in Nat /\ Len(x) >= 1 /\ Final(x) = x[Len(x)].term
      BY <1>1, <1>3, SafeFacts
    <2>3. Len(x) \in 1..Len(log[n]) /\ log[n][Len(x)] = x[Len(x)]
      BY <1>1, <2>1, <2>2 DEF Holds
    <2>4. /\ Len(x) \in 1..MaxLog
          /\ Reaches(LogSegment(log[n]), Len(x))
          /\ TermIn(LogSegment(log[n]), Len(x)) = Final(x)
      BY <1>1, <2>2, <2>3, LogFacts
    <2>5. Beyond(LogSegment(log[n]), y)
      BY <1>3, <2>4 DEF Beyond
    <2>6. PICK A \in SUBSET Node : Secure(y, A)
      BY <1>3 DEF Safe
    <2>7. Holds(y, log[n])
      BY <1>1, <2>5, <2>6, BeyondHolds
    <2>8. QED BY <2>1, <2>7
  <1>4. PICK n \in Node : Holds(a, log[n]) /\ Holds(b, log[n])
    BY <1>2, <1>3
  <1>5. CASE Len(a) <= Len(b)
    BY <1>1, <1>2, <1>4, <1>5, HoldsShorter
  <1>6. CASE Len(b) <= Len(a)
    BY <1>1, <1>2, <1>4, <1>6, HoldsShorter
  <1>7. QED BY <1>2, <1>5, <1>6

\* What is safe, and what is chosen.
LEMMA SafeFollowsChosen ==
    ASSUME CommitInv, NEW pre, Safe(pre)
    PROVE  Holds(pre, chosen) \/ Holds(chosen, pre)
  <1>1. TermInv /\ RaftInv /\ ChosenIsSafe /\ chosen \in Seq(Entries)
    BY CommitFacts DEF CommitInv
  <1>2. CASE chosen = <<>>
    <2>1. Len(pre) \in Nat
      BY <1>1, SafeFacts
    <2>2. QED BY <1>2, <2>1 DEF Holds
  <1>3. CASE Safe(chosen)
    BY <1>1, <1>3, SafesAgree
  <1>4. QED BY <1>1, <1>2, <1>3 DEF ChosenIsSafe

\* advanceCommit applies what is safe.
LEMMA AdvanceApplies ==
    ASSUME TermsAreKept, CommitInv, TermInv', [NextOrProbe]_raftVars, NEW i \in Node,
           AdvanceCommit(i)
    PROVE  AppliesMore(i)
  <1>1. /\ TermInv /\ RaftInv /\ LogsOK' /\ AppliedIsWarranted
        /\ commitIndex \in [Node -> 0..MaxLog] /\ commitIndex[i] \in Nat
        /\ Len(log[i]) \in Nat
    BY CommitFacts DEF CommitInv, TermInv, MatchingInv, RaftInv
  <1>2. role[i] = "Leader" /\ log' = log /\ ApplyCommitted(i) /\ UNCHANGED electionVars
    BY DEF AdvanceCommit
  <1>3. PICK n \in Committable(i) : commitIndex' = [commitIndex EXCEPT ![i] = n]
    <2>1. Committable(i) # {}
      BY DEF AdvanceCommit
    <2>2. QED BY <1>1, <2>1, CommittableIsInLog DEF AdvanceCommit
  <1>4. commitIndex'[i] = n
    BY <1>1, <1>3
  <1>5. PICK pre : pre = SubSeq(log[i], 1, n)
    OBVIOUS
  <1>6. /\ Safe(pre) /\ Holds(pre, log[i]) /\ pre \in Seq(Entries) /\ Len(pre) = n
        /\ Final(pre) = currentTerm[i] /\ n \in 1..Len(log[i])
    BY <1>2, <1>5, CommittableIsSafe
  <1>7. Safe(pre)'
    BY <1>1, <1>6, SafeStays
  <1>8. Holds(applied[i], log'[i]) /\ n \in Nat /\ n <= Len(log'[i])
    BY <1>1, <1>2, <1>6, AppliedKeeps
  <1>9. PICK a \in Seq(Entries) : /\ Becomes(i, a)
                                  /\ IF n <= Len(applied[i]) THEN a = applied[i]
                                                             ELSE Len(a) = n
    BY <1>1, <1>2, <1>4, <1>8, ApplyIs
  <1>10. commitIndex'[i] <= Len(a)
    BY <1>4, <1>8, <1>9
  <1>11. CASE a = applied[i]
    BY <1>3, <1>4, <1>9, <1>10, <1>11 DEF AppliesMore
  <1>12. CASE Len(a) = n
    <2>1. Holds(a, log[i])
      BY <1>2, <1>9 DEF Becomes
    <2>2. a = pre
      <3>1. \A r \in 1..n : a[r] = pre[r]
        BY <1>6, <1>12, <2>1 DEF Holds
      <3>2. QED BY <1>6, <1>9, <1>12, <3>1
    <2>3. Holds(pre, chosen) \/ Holds(chosen, pre)
      BY <1>2, <1>6, SafeFollowsChosen
    <2>4. Holds(a, pre)
      BY <1>6, <2>2 DEF Holds
    <2>5. Final(pre) <= currentTerm'[i]
      <3>1. currentTerm' = currentTerm
        BY <1>2 DEF electionVars
      <3>2. currentTerm[i] \in Nat
        BY <1>1, CommitFacts
      <3>3. QED BY <1>6, <3>1, <3>2
    <2>6. Settles(i, a, pre)
      BY <1>6, <1>7, <2>2, <2>3, <2>4, <2>5 DEF Settles
    <2>7. QED BY <1>3, <1>4, <1>9, <1>10, <2>6 DEF AppliesMore
  <1>13. QED BY <1>9, <1>11, <1>12

-----------------------------------------------------------------------------
(* What is committed stays safe *)

Forgets(i) ==
    /\ commitIndex' = [commitIndex EXCEPT ![i] = 0]
    /\ applied' = [applied EXCEPT ![i] = <<>>]
    /\ UNCHANGED chosen

\* State machines are given more by rule 4 and by advanceCommit, and start
\* again after a crash.
LEMMA ApplyMoves ==
    ASSUME TermsAreKept, CommitInv, TermInv', [NextOrProbe]_raftVars
    PROVE  \/ UNCHANGED applyVars
           \/ \E i \in Node : AppliesMore(i)
           \/ \E i \in Node : Forgets(i)
  <1>1. ASSUME NEW i \in Node, AdvanceCommit(i) PROVE AppliesMore(i)
    BY <1>1, AdvanceApplies
  <1>2. ASSUME NEW m \in requests, Accept(m.to, m) PROVE \E i \in Node : AppliesMore(i)
    <2>1. m.to \in Node
      BY CommitFacts DEF CommitInv, RaftInv, RequestsOK, RequestType
    <2>2. AppliesMore(m.to)
      BY <1>2, AcceptApplies
    <2>3. QED BY <2>1, <2>2
  <1>3. ASSUME NEW i \in Node, Restart(i) PROVE Forgets(i)
    BY <1>3 DEF Restart, Forgets
  <1>4. ASSUME NEW m \in requests, HandleAppendEntries(m)
        PROVE  UNCHANGED applyVars \/ \E i \in Node : AppliesMore(i)
    BY <1>2, <1>4 DEF HandleAppendEntries, RejectStale, RejectGap, FailAppend, FailStore
  <1>5. QED
    BY <1>1, <1>3, <1>4
       DEF NextOrProbe, Learns, HearsProbe, Sends, Next, Background, ElectionStep, WinElection,
           Propose, ProposeNoop, Replicate, ReceiveReply, AppendCallFails, ReplyLost, raftVars

\* A settled prefix is chosen after the step.
LEMMA SettledIsChosen ==
    ASSUME TermInv, NEW i \in Node, NEW a \in Seq(Entries), Becomes(i, a),
           NEW pre, Settles(i, a, pre)
    PROVE  /\ Holds(pre, chosen') /\ Holds(chosen, chosen')
           /\ chosen' = chosen \/ chosen' = pre
  <1>1. /\ Len(chosen) \in Nat /\ Len(a) \in Nat /\ Len(pre) \in Nat
        /\ chosen' = IF Len(a) > Len(chosen) THEN a ELSE chosen
        /\ Holds(a, pre)
    BY CommitFacts DEF Becomes, Settles
  <1>2. CASE Holds(pre, chosen)
    <2>1. chosen' = chosen
      BY <1>1, <1>2 DEF Holds
    <2>2. QED BY <1>1, <1>2, <2>1 DEF Holds
  <1>3. CASE a = pre /\ Holds(chosen, pre)
    BY <1>1, <1>3 DEF Holds
  <1>4. QED BY <1>2, <1>3 DEF Settles

\* What is chosen grows, and stays safe.
LEMMA ChosenGrows ==
    ASSUME TermsAreKept, CommitInv, TermInv', [NextOrProbe]_raftVars
    PROVE  Holds(chosen, chosen') /\ ChosenIsSafe'
  <1>1. /\ TermInv /\ ChosenIsSafe /\ AppliedIsWarranted
        /\ chosen \in Seq(Entries) /\ Len(chosen) \in Nat
    BY CommitFacts DEF CommitInv
  <1>2. ASSUME chosen' = chosen PROVE Holds(chosen, chosen') /\ ChosenIsSafe'
    <2>1. Holds(chosen, chosen')
      BY <1>1, <1>2 DEF Holds
    <2>2. ASSUME NEW pre \in Seq(Entries), pre = chosen', pre # <<>> PROVE Safe(pre)'
      <3>1. Safe(pre)
        BY <1>1, <1>2, <2>2 DEF ChosenIsSafe
      <3>2. QED BY <1>1, <3>1, SafeStays
    <2>3. QED BY <2>1, <2>2 DEF ChosenIsSafe
  <1>3. ASSUME NEW i \in Node, AppliesMore(i) PROVE Holds(chosen, chosen') /\ ChosenIsSafe'
    <2>1. PICK a \in Seq(Entries) : /\ Becomes(i, a)
                                    /\ a = applied[i] \/ \E pre : Settles(i, a, pre)
      BY <1>3 DEF AppliesMore
    <2>2. CASE a = applied[i]
      <3>1. Len(a) \in Nat /\ Len(a) <= Len(chosen)
        BY <1>1, <2>2, CommitFacts DEF AppliedIsWarranted, Holds
      <3>2. chosen' = chosen
        BY <1>1, <2>1, <3>1 DEF Becomes
      <3>3. QED BY <1>2, <3>2
    <2>3. ASSUME NEW pre, Settles(i, a, pre) PROVE Holds(chosen, chosen') /\ ChosenIsSafe'
      <3>1. Holds(chosen, chosen') /\ (chosen' = chosen \/ chosen' = pre)
        BY <1>1, <2>1, <2>3, SettledIsChosen
      <3>2. CASE chosen' = pre
        <4>1. Safe(pre)'
          BY <2>3 DEF Settles
        <4>2. QED BY <3>1, <3>2, <4>1 DEF ChosenIsSafe
      <3>3. QED BY <1>2, <3>1, <3>2
    <2>4. QED BY <2>1, <2>2, <2>3
  <1>4. QED
    BY <1>2, <1>3, ApplyMoves DEF applyVars, Forgets

\* What warrants a commit index goes on to do so.
LEMMA WarrantsStay ==
    ASSUME TermsAreKept, TermInv, TermInv', [NextOrProbe]_raftVars, Holds(chosen, chosen'),
           NEW n, NEW t \in Nat, NEW u \in Nat, t <= u, Warranted(n, t)
    PROVE  Warranted(n, u)'
  <1>1. Len(chosen) \in Nat /\ Len(chosen') \in Nat
    BY DEF TermInv, MatchingInv, RaftInv, AppliedOK
  <1>2. ASSUME NEW pre \in Seq(Entries), Safe(pre), Holds(pre, chosen), n <= Len(pre),
               Final(pre) <= t
        PROVE  Safe(pre)' /\ Holds(pre, chosen') /\ n <= Len(pre) /\ Final(pre) <= u
    <2>1. Len(pre) \in Nat /\ Final(pre) \in Nat
      BY <1>2, CommitFacts, SafeFacts
    <2>2. Safe(pre)'
      BY <1>2, SafeStays
    <2>3. Holds(pre, chosen')
      BY <1>1, <1>2, <2>1, HoldsTransitive
    <2>4. QED BY <1>2, <2>1, <2>2, <2>3
  <1>3. QED BY <1>2 DEF Warranted, Holds, Final

\* Requests carry commit indexes their senders have applied.
LEMMA NextRequestsAreWarranted ==
    ASSUME TermsAreKept, CommitInv, TermInv', [NextOrProbe]_raftVars
    PROVE  RequestsAreWarranted'
  <1>1. /\ TermInv /\ RaftInv /\ RequestsOK /\ AppliedIsWarranted /\ RequestsAreWarranted
        /\ Holds(chosen, chosen')
    BY ChosenGrows DEF CommitInv, TermInv, MatchingInv, RaftInv
  <1>2. ASSUME NEW m \in requests PROVE Warranted(m.commit, m.term)'
    <2>1. Warranted(m.commit, m.term) /\ m.term \in Nat
      BY <1>1, RaftAssumption DEF RequestsAreWarranted, RequestsOK, RequestType
    <2>2. QED BY <1>1, <2>1, WarrantsStay
  <1>3. ASSUME NEW i \in Node, NEW p \in Peers(i), NEW m \in Sendable(i, p), Sends(i, m)
        PROVE  Warranted(m.commit, m.term)'
    <2>1. m.commit = commitIndex[i] /\ m.term = currentTerm[i]
      BY <1>1, <1>3, RequestIs DEF Sends
    <2>2. /\ commitIndex[i] <= Len(applied[i]) /\ Warranted(Len(applied[i]), currentTerm[i])
          /\ commitIndex[i] \in Nat /\ Len(applied[i]) \in Nat /\ currentTerm[i] \in Nat
      BY <1>1, CommitFacts DEF AppliedIsWarranted
    <2>3. Warranted(commitIndex[i], currentTerm[i])
      BY <2>2 DEF Warranted
    <2>4. Warranted(m.commit, m.term) /\ m.term \in Nat
      BY <2>1, <2>2, <2>3
    <2>5. QED BY <1>1, <2>4, WarrantsStay
  <1>4. ASSUME NEW q \in requests' PROVE Warranted(q.commit, q.term)'
    <2>1. CASE q \in requests
      BY <1>2, <2>1
    <2>2. ASSUME NEW m \in requests, Resent(q, m) PROVE Warranted(q.commit, q.term)'
      <3>1. q.commit = m.commit /\ q.term = m.term
        BY <2>2 DEF Resent
      <3>2. QED BY <1>2, <3>1
    <2>3. ASSUME NEW i \in Node, NEW p \in Peers(i), NEW m \in Sendable(i, p), Sends(i, m),
                 q \notin requests
          PROVE  Warranted(q.commit, q.term)'
      <3>1. q = m
        BY <1>4, <2>3 DEF Sends
      <3>2. QED BY <1>3, <2>3, <3>1
    <2>4. QED BY <1>1, <1>4, <2>1, <2>2, <2>3, RequestsMove
  <1>5. QED BY <1>4 DEF RequestsAreWarranted

\* What a node has applied stays warranted.
LEMMA NextAppliedIsWarranted ==
    ASSUME TermsAreKept, CommitInv, TermInv', [NextOrProbe]_raftVars
    PROVE  AppliedIsWarranted'
  <1> DEFINE Fine(j) == /\ commitIndex'[j] <= Len(applied'[j])
                        /\ Holds(applied'[j], chosen')
                        /\ Holds(applied'[j], log'[j])
                        /\ Warranted(Len(applied[j]), currentTerm[j])'
  <1>1. /\ TermInv /\ AppliedIsWarranted /\ Holds(chosen, chosen')
        /\ Len(chosen) \in Nat /\ Len(chosen') \in Nat
        /\ commitIndex \in [Node -> 0..MaxLog] /\ applied \in [Node -> Seq(Entries)]
    BY CommitFacts, ChosenGrows DEF CommitInv, TermInv, MatchingInv, RaftInv, AppliedOK
  <1>2. \A j \in Node : currentTerm[j] \in Nat /\ currentTerm'[j] \in Nat
    <2>1. currentTerm' \in [Node -> 0..MaxTerm]
      BY DEF TermInv, MatchingInv, RaftInv, EP!LeaderInv, EP!IndInv, EP!TypeOK, EP!Terms
    <2>2. QED BY <1>1, <2>1, CommitFacts, RaftAssumption
  <1>3. ASSUME NEW j \in Node, applied'[j] = applied[j], commitIndex'[j] <= Len(applied[j])
        PROVE  Fine(j)
    <2>1. PICK n : n = Len(applied[j])
      OBVIOUS
    <2>2. PICK t \in Nat : t = currentTerm[j]
      BY <1>2
    <2>3. PICK u \in Nat : u = currentTerm'[j]
      BY <1>2
    <2>4. Warranted(n, t) /\ t <= u
      BY <1>1, <1>2, <2>1, <2>2, <2>3 DEF AppliedIsWarranted, TermsAreKept
    <2>5. Warranted(n, u)'
      BY <1>1, <2>4, WarrantsStay
    <2>6. Warranted(Len(applied[j]), currentTerm[j])'
      BY <1>3, <2>1, <2>3, <2>5 DEF Warranted
    <2>7. Holds(applied[j], chosen) /\ Len(applied[j]) \in Nat
      BY <1>1, CommitFacts DEF AppliedIsWarranted
    <2>8. Holds(applied[j], chosen')
      BY <1>1, <2>7, HoldsTransitive
    <2>9. Holds(applied[j], log'[j])
      BY <1>1, AppliedKeeps
    <2>10. QED BY <1>3, <2>6, <2>8, <2>9
  <1>4. ASSUME NEW i \in Node, NEW a \in Seq(Entries), Becomes(i, a),
               NEW pre, Settles(i, a, pre), commitIndex'[i] <= Len(a)
        PROVE  Fine(i)
    <2>1. applied'[i] = a /\ Holds(a, log'[i]) /\ Len(a) \in Nat
      BY <1>1, <1>4 DEF Becomes
    <2>2. /\ pre \in Seq(Entries) /\ Len(pre) \in Nat /\ Safe(pre)' /\ Holds(a, pre)
          /\ Final(pre) <= currentTerm'[i]
      BY <1>4 DEF Settles
    <2>3. Holds(pre, chosen')
      BY <1>1, <1>4, SettledIsChosen
    <2>4. Holds(a, chosen')
      BY <1>1, <2>1, <2>2, <2>3, HoldsTransitive
    <2>5. Len(a) <= Len(pre)
      BY <2>2 DEF Holds
    <2>6. Warranted(Len(applied[i]), currentTerm[i])'
      BY <2>1, <2>2, <2>3, <2>5 DEF Warranted, Holds, Final
    <2>7. QED BY <1>4, <2>1, <2>4, <2>6
  <1>5. ASSUME NEW j \in Node PROVE Fine(j)
    <2>1. commitIndex[j] <= Len(applied[j])
      BY <1>1 DEF AppliedIsWarranted
    <2>2. CASE UNCHANGED applyVars
      BY <1>3, <2>1, <2>2 DEF applyVars
    <2>3. ASSUME NEW i \in Node, AppliesMore(i) PROVE Fine(j)
      <3>1. PICK a \in Seq(Entries) :
               /\ Becomes(i, a) /\ commitIndex' = [commitIndex EXCEPT ![i] = commitIndex'[i]]
               /\ commitIndex'[i] <= Len(a)
               /\ a = applied[i] \/ \E pre : Settles(i, a, pre)
        BY <2>3 DEF AppliesMore
      <3>2. applied' = [applied EXCEPT ![i] = a]
        BY <3>1 DEF Becomes
      <3>3. CASE j # i
        <4>1. applied'[j] = applied[j] /\ commitIndex'[j] = commitIndex[j]
          BY <1>1, <3>1, <3>2, <3>3
        <4>2. QED BY <1>3, <2>1, <4>1
      <3>4. CASE j = i /\ a = applied[i]
        <4>1. applied'[j] = applied[j] /\ commitIndex'[j] <= Len(applied[j])
          BY <1>1, <3>1, <3>2, <3>4
        <4>2. QED BY <1>3, <4>1
      <3>5. CASE j = i /\ \E pre : Settles(i, a, pre)
        BY <1>4, <3>1, <3>5
      <3>6. QED BY <3>1, <3>3, <3>4, <3>5
    <2>4. ASSUME NEW i \in Node, Forgets(i) PROVE Fine(j)
      <3>1. CASE j # i
        <4>1. applied'[j] = applied[j] /\ commitIndex'[j] = commitIndex[j]
          BY <1>1, <2>4, <3>1 DEF Forgets
        <4>2. QED BY <1>3, <2>1, <4>1
      <3>2. CASE j = i
        <4>1. applied'[j] = <<>> /\ commitIndex'[j] = 0
          BY <1>1, <2>4, <3>2 DEF Forgets
        <4>2. Warranted(Len(applied[j]), currentTerm[j])'
          BY <4>1 DEF Warranted
        <4>3. Holds(applied'[j], chosen') /\ Holds(applied'[j], log'[j])
          <5>1. Len(log'[j]) \in Nat
            BY DEF TermInv, MatchingInv, RaftInv, LogsOK
          <5>2. QED BY <1>1, <4>1, <5>1 DEF Holds
        <4>4. QED BY <4>1, <4>2, <4>3
      <3>3. QED BY <3>1, <3>2
    <2>5. QED BY <2>2, <2>3, <2>4, ApplyMoves
  <1>6. QED BY <1>5 DEF AppliedIsWarranted, Holds, Warranted

-----------------------------------------------------------------------------
(* The theorems *)

\* The invariant holds at the start.
LEMMA InitCommitInv == Init => CommitInv
  <1> SUFFICES ASSUME Init PROVE CommitInv
    OBVIOUS
  <1>1. TermInv
    BY InitTermInv
  <1>2. /\ requests = {} /\ replies = {} /\ chosen = <<>>
        /\ \A i \in Node : applied[i] = <<>> /\ commitIndex[i] = 0 /\ log[i] = <<>>
        /\ \A i \in Node : role[i] # "Leader"
    BY DEF Init, E!Init
  <1>3. RepliesNameWinners /\ AcksAreTrue /\ AckedIsSecure
    BY <1>2 DEF RepliesNameWinners, AcksAreTrue, AckedIsSecure
  <1>4. ChosenIsSafe /\ RequestsAreWarranted /\ AppliedIsWarranted
    BY <1>2 DEF ChosenIsSafe, RequestsAreWarranted, AppliedIsWarranted, Warranted, Holds
  <1>5. QED BY <1>1, <1>3, <1>4 DEF CommitInv

\* Every step keeps it.
LEMMA NextCommitInv ==
    ASSUME TermsAreKept, NobodyMisleads, CommitInv, [NextOrProbe]_raftVars
    PROVE  CommitInv'
  <1>1. /\ TermInv /\ RepliesNameWinners /\ AcksAreTrue /\ AckedIsSecure /\ RaftInv
    BY DEF CommitInv, TermInv, MatchingInv
  <1>2. TermInv'
    BY <1>1, NextTermInv
  <1>3. elected \subseteq elected'
    <2>1. LogsOK'
      BY <1>2 DEF TermInv, MatchingInv, RaftInv
    <2>2. QED BY <1>1, <2>1, ElectionsGoOn
  <1>4. RepliesNameWinners'
    BY <1>1, <1>3, NextRepliesNameWinners
  <1>5. AcksAreTrue'
    BY <1>1, <1>2, NextAcksAreTrue
  <1>6. AckedIsSecure'
    BY <1>1, <1>2, <1>5, NextAckedIsSecure
  <1>7. ChosenIsSafe' /\ RequestsAreWarranted' /\ AppliedIsWarranted'
    BY <1>2, ChosenGrows, NextRequestsAreWarranted, NextAppliedIsWarranted
  <1>8. QED BY <1>2, <1>4, <1>5, <1>6, <1>7 DEF CommitInv

\* A step of the specification, or none.
LEMMA StepCommitInv ==
    ASSUME CommitInv, [Next]_raftVars, [TermsAreKept]_raftVars, [NobodyMisleads]_raftVars
    PROVE  CommitInv'
  <1>1. ASSUME TermsAreKept, NobodyMisleads PROVE CommitInv'
    BY <1>1, NextCommitInv, NextIsNextOrProbe
  <1>2. CASE UNCHANGED raftVars
    <2>1. TermsAreKept
      <3>1. currentTerm' = currentTerm /\ \A i \in Node : currentTerm[i] \in Nat
        BY <1>2, CommitFacts DEF CommitInv, raftVars, electionVars
      <3>2. QED BY <3>1 DEF TermsAreKept
    <2>2. NobodyMisleads
      <3>1. ASSUME NEW r \in replies, ReceiveReply(r) PROVE FALSE
        BY <1>2, <3>1 DEF ReceiveReply, raftVars, callVars
      <3>2. QED BY <3>1 DEF NobodyMisleads
    <2>3. QED BY <1>1, <2>1, <2>2
  <1>3. QED BY <1>1, <1>2

\* Holds is what module SequencesExt calls IsPrefix.
LEMMA HoldsIsPrefix ==
    ASSUME NEW a \in Seq(Entries), NEW b \in Seq(Entries), Holds(a, b)
    PROVE  IsPrefix(a, b) /\ SubSeq(b, 1, Len(a)) = a
  <1>1. Len(a) \in Nat /\ Len(b) \in Nat /\ Len(a) <= Len(b) /\ \A r \in 1..Len(a) : b[r] = a[r]
    BY DEF Holds
  <1>2. CASE Len(a) = 0
    <2>1. a = <<>>
      BY <1>2
    <2>2. SubSeq(b, 1, Len(a)) = <<>> /\ SubSeq(a, 1, Len(a)) = <<>>
      BY <1>2, SubSeqEmpty
    <2>3. QED BY <1>1, <2>1, <2>2 DEF IsPrefix
  <1>3. CASE Len(a) # 0
    <2>1. Len(a) \in 1..Len(a) /\ Len(a) \in 1..Len(b)
      BY <1>1, <1>3
    <2>2. PICK n \in Nat : n = Len(a)
      BY <1>1
    <2>3. PICK x : x = SubSeq(b, 1, n)
      OBVIOUS
    <2>4. PICK y : y = SubSeq(a, 1, n)
      OBVIOUS
    <2>5. x \in Seq(Entries) /\ Len(x) = n /\ \A r \in 1..n : x[r] = b[r]
      BY <2>1, <2>2, <2>3, PrefixIs
    <2>6. y \in Seq(Entries) /\ Len(y) = n /\ \A r \in 1..n : y[r] = a[r]
      BY <2>1, <2>2, <2>4, PrefixIs
    <2>7. x = a /\ y = a
      BY <1>1, <2>2, <2>5, <2>6
    <2>8. QED BY <1>1, <2>2, <2>3, <2>4, <2>7 DEF IsPrefix
  <1>4. QED BY <1>2, <1>3

\* The invariant implies the properties that are model-checked.
LEMMA CommitInvImplies ==
    ASSUME CommitInv
    PROVE  StateMachineSafety /\ LeaderCompleteness /\ CommittedIsStored /\ CountedIsStored
  <1>1. /\ TermInv /\ RaftInv /\ AppliedIsWarranted /\ ChosenIsSafe /\ AcksAreTrue
    BY CommitFacts DEF CommitInv
  <1>2. /\ chosen \in Seq(Entries) /\ Len(chosen) \in Nat
        /\ \A i \in Node : /\ log[i] \in Seq(Entries) /\ Len(log[i]) \in Nat
                           /\ applied[i] \in Seq(Entries) /\ Len(applied[i]) \in Nat
                           /\ commitIndex[i] \in Nat /\ currentTerm[i] \in Nat
    BY <1>1, CommitFacts
  <1>3. StateMachineSafety
    BY <1>1, <1>2, HoldsIsPrefix DEF AppliedIsWarranted, StateMachineSafety
  <1>4. CommittedIsStored
    <2>1. ASSUME NEW i \in Node PROVE commitIndex[i] <= Len(log[i])
      <3>1. commitIndex[i] <= Len(applied[i]) /\ Len(applied[i]) <= Len(log[i])
        BY <1>1 DEF AppliedIsWarranted, Holds
      <3>2. QED BY <1>2, <3>1
    <2>2. QED BY <2>1 DEF CommittedIsStored, LastIndex
  <1>5. ASSUME NEW i \in Node, role[i] = "Leader",
               \A j \in Node : currentTerm[j] <= currentTerm[i]
        PROVE  IsPrefix(chosen, log[i])
    <2>1. Holds(chosen, log[i])
      <3>1. CASE chosen = <<>>
        BY <1>2, <3>1 DEF Holds
      <3>2. CASE chosen # <<>>
        <4>1. PICK pre : pre = chosen /\ Safe(pre)
          BY <1>1, <1>2, <3>2 DEF ChosenIsSafe
        <4>2. /\ Final(pre) \in Nat /\ LeadersHold(pre)
              /\ \E v \in Node : currentTerm[v] >= Final(pre)
          BY <1>1, <4>1, SafeFacts
        <4>3. currentTerm[i] >= Final(pre)
          BY <1>2, <1>5, <4>2
        <4>4. QED BY <1>5, <4>1, <4>2, <4>3 DEF LeadersHold
      <3>3. QED BY <3>1, <3>2
    <2>2. QED BY <1>2, <2>1, HoldsIsPrefix
  <1>6. ASSUME NEW i \in Node, role[i] = "Leader", NEW n \in 1..Len(log[i]),
               log[i][n].term = currentTerm[i], NEW p \in Replicated(i, n),
               currentTerm[p] = currentTerm[i]
        PROVE  IsPrefix(SubSeq(log[i], 1, n), log[p])
    <2>1. p \in Node /\ (p # i => p \in Peers(i) /\ matchIndex[i][p] >= n)
      BY <1>6 DEF Replicated, Peers
    <2>2. PICK x : x = SubSeq(log[i], 1, n)
      OBVIOUS
    <2>3. /\ x \in Seq(Entries) /\ Len(x) = n /\ \A r \in 1..n : x[r] = log[i][r]
          /\ Holds(x, log[i])
      BY <1>2, <2>2, PrefixIs
    <2>4. Holds(x, log[p])
      <3>1. CASE p = i
        BY <2>3, <3>1
      <3>2. CASE p # i
        <4>1. n \in 1..MaxLog /\ Own(i, n) /\ HasAcked(i, p, n)
          <5>1. Len(log[i]) <= MaxLog
            BY <1>1 DEF RaftInv, LogsOK
          <5>2. n \in 1..MaxLog
            BY <1>2, <5>1, RaftAssumption
          <5>3. QED BY <1>6, <2>1, <3>2, <5>2 DEF Own, HasAcked
        <4>2. Alike(i, p, n)
          BY <1>1, <1>6, <2>1, <3>2, <4>1 DEF AcksAreTrue, Matches
        <4>3. QED BY <2>3, <4>2 DEF Alike, Holds
      <3>3. QED BY <3>1, <3>2
    <2>5. QED BY <1>2, <2>1, <2>2, <2>3, <2>4, HoldsIsPrefix
  <1>7. CountedIsStored
    BY <1>2, <1>6 DEF CountedIsStored
  <1>8. QED
    BY <1>3, <1>4, <1>5, <1>7 DEF LeaderCompleteness

\* Where behaviours go, if no term is forgotten and nobody is misled.
LEMMA CommitInvHolds == Spec /\ NoTermIsForgotten /\ NobodyIsMisled => []CommitInv
  <1>1. CommitInv /\ [Next]_raftVars /\ [TermsAreKept]_raftVars /\ [NobodyMisleads]_raftVars
          => CommitInv'
    BY StepCommitInv
  <1>2. QED
    BY <1>1, InitCommitInv, PTL
       DEF Spec, NoTermIsForgotten, NobodyIsMisled, TermsAreKept, NobodyMisleads

\* Every state machine is given the same commands in the same order
\* (applyCommitted), also the one of a node that has restarted.
THEOREM StateMachinesAgree ==
    Spec /\ NoTermIsForgotten /\ NobodyIsMisled => []StateMachineSafety
  <1>1. CommitInv => StateMachineSafety
    BY CommitInvImplies
  <1>2. QED BY <1>1, CommitInvHolds, PTL

\* The leader of the newest term has every entry that was ever applied: what
\* logUpToDateLocked and the current-term rule of advanceCommit are for.
THEOREM LeadersAreComplete ==
    Spec /\ NoTermIsForgotten /\ NobodyIsMisled => []LeaderCompleteness
  <1>1. CommitInv => LeaderCompleteness
    BY CommitInvImplies
  <1>2. QED BY <1>1, CommitInvHolds, PTL

\* No node has a commit index beyond its log (applyCommitted: "committed but
\* not stored: cannot happen").
THEOREM CommittedEntriesAreStored ==
    Spec /\ NoTermIsForgotten /\ NobodyIsMisled => []CommittedIsStored
  <1>1. CommitInv => CommittedIsStored
    BY CommitInvImplies
  <1>2. QED BY <1>1, CommitInvHolds, PTL

\* The peers that advanceCommit counts for an entry of the leader's term have it
\* while they are in that term, and all that the leader has before it.
THEOREM CountedEntriesAreStored ==
    Spec /\ NoTermIsForgotten /\ NobodyIsMisled => []CountedIsStored
  <1>1. CommitInv => CountedIsStored
    BY CommitInvImplies
  <1>2. QED BY <1>1, CommitInvHolds, PTL

\* A state machine is given more of what is chosen: it learns it, or it is the
\* first to be given it.
LEMMA AppliesMoreIsStep ==
    ASSUME CommitInv, LogsOK', NEW i \in Node, AppliesMore(i)
    PROVE  R!Learn(i) \/ R!Choose(i) \/ UNCHANGED <<chosen, applied>>
  <1>1. /\ TermInv /\ AppliedIsWarranted /\ chosen \in Seq(Entries) /\ Len(chosen) \in Nat
        /\ applied \in [Node -> Seq(Entries)] /\ Len(applied[i]) \in Nat /\ MaxLog \in Nat
    BY CommitFacts DEF CommitInv
  <1>2. PICK a \in Seq(Entries) :
           Becomes(i, a) /\ (a = applied[i] \/ \E pre : Settles(i, a, pre))
    BY DEF AppliesMore
  <1>3. /\ applied' = [applied EXCEPT ![i] = a] /\ Len(a) \in Nat
        /\ chosen' = IF Len(a) > Len(chosen) THEN a ELSE chosen
        /\ Holds(applied[i], a) /\ Holds(a, log'[i])
    BY <1>2 DEF Becomes
  <1>4. ASSUME Holds(a, chosen) PROVE R!Learn(i)
    <2>1. chosen' = chosen /\ Len(a) \in Len(applied[i])..Len(chosen)
      BY <1>1, <1>3, <1>4 DEF Holds
    <2>2. SubSeq(chosen, 1, Len(a)) = a
      BY <1>1, <1>2, <1>4, HoldsIsPrefix
    <2>3. QED BY <1>3, <2>1, <2>2 DEF R!Learn
  <1>5. ASSUME Holds(chosen, a), Len(a) > Len(chosen) PROVE R!Choose(i)
    <2> DEFINE m == Len(a) - Len(chosen)
               new == SubSeq(a, Len(chosen) + 1, Len(a))
    <2>1. m \in Nat /\ m <= MaxLog
      <3>1. Len(a) <= Len(log'[i]) /\ Len(log'[i]) <= MaxLog /\ Len(log'[i]) \in Nat
        BY <1>3 DEF Holds, LogsOK
      <3>2. QED BY <1>1, <1>3, <1>5, <3>1
    <2>2. new \in Seq(Entries) /\ Len(new) = m
      BY <1>1, <1>2, <1>3, <1>5, SliceIs
    <2>3. chosen \o new = a
      <3>1. PICK b : b = chosen \o new
        OBVIOUS
      <3>2. b \in Seq(Entries) /\ Len(b) = Len(a) /\ Holds(b, a)
        BY <1>1, <1>2, <1>3, <1>5, <3>1, ExtendedIs
      <3>3. \A r \in 1..Len(a) : b[r] = a[r]
        BY <3>2 DEF Holds
      <3>4. b = a
        BY <1>2, <3>2, <3>3
      <3>5. QED BY <3>1, <3>4
    <2> HIDE DEF new, m
    <2>4. new \in R!BoundedSeq(Entries, MaxLog)
      <3>1. new \in [1..m -> Entries] /\ m \in 0..MaxLog
        BY <1>1, <2>1, <2>2
      <3>2. QED BY <3>1 DEF R!BoundedSeq, R!SeqOf
    <2>5. chosen' = a
      BY <1>3, <1>5
    <2>6. QED BY <1>3, <2>3, <2>4, <2>5 DEF R!Choose
  <1>6. CASE a = applied[i]
    <2>1. Holds(a, chosen)
      BY <1>1, <1>6 DEF AppliedIsWarranted
    <2>2. QED BY <1>4, <2>1
  <1>7. ASSUME NEW pre, Settles(i, a, pre) PROVE R!Learn(i) \/ R!Choose(i)
    <2>1. CASE Holds(pre, chosen)
      <3>1. Holds(a, pre) /\ Len(pre) \in Nat
        BY <1>7 DEF Settles
      <3>2. Holds(a, chosen)
        BY <1>1, <1>3, <2>1, <3>1, HoldsTransitive
      <3>3. QED BY <1>4, <3>2
    <2>2. CASE Holds(chosen, a) /\ Len(a) > Len(chosen)
      BY <1>5, <2>2
    <2>3. CASE Holds(chosen, a) /\ ~(Len(a) > Len(chosen))
      <3>1. Holds(a, chosen)
        BY <1>1, <1>3, <2>3 DEF Holds
      <3>2. QED BY <1>4, <3>1
    <2>4. QED BY <1>7, <2>1, <2>2, <2>3 DEF Settles
  <1>8. QED BY <1>2, <1>6, <1>7

\* Every step, a probe's too, is one of module ReplicatedLog.
LEMMA NextIsReplicatedLogStep ==
    ASSUME TermsAreKept, CommitInv, CommitInv', [NextOrProbe]_raftVars
    PROVE  [R!Next]_<<chosen, applied>>
  <1>1. TermInv' /\ LogsOK'
    BY DEF CommitInv, TermInv, MatchingInv, RaftInv
  <1>2. ASSUME NEW i \in Node, Forgets(i) PROVE R!Forget(i)
    BY <1>2 DEF Forgets, R!Forget
  <1>3. ASSUME NEW i \in Node, AppliesMore(i)
        PROVE  R!Learn(i) \/ R!Choose(i) \/ UNCHANGED <<chosen, applied>>
    BY <1>1, <1>3, AppliesMoreIsStep
  <1>4. QED
    BY <1>1, <1>2, <1>3, ApplyMoves DEF R!Next, applyVars

\* The state machines are given what module ReplicatedLog promises: entries of
\* one sequence that only grows, in order and each of them once.
THEOREM RaftImplementsReplicatedLog ==
    Spec /\ NoTermIsForgotten /\ NobodyIsMisled => ReplicatedLogSpec
  <1>1. Init => R!Init
    BY DEF Init, R!Init
  <1>2. CommitInv /\ CommitInv' /\ [Next]_raftVars /\ [TermsAreKept]_raftVars
          => [R!Next]_<<chosen, applied>>
    <2>1. ASSUME CommitInv, CommitInv', [Next]_raftVars, TermsAreKept
          PROVE  [R!Next]_<<chosen, applied>>
      BY <2>1, NextIsReplicatedLogStep, NextIsNextOrProbe
    <2>2. ASSUME UNCHANGED raftVars PROVE [R!Next]_<<chosen, applied>>
      BY <2>2 DEF raftVars, applyVars
    <2>3. QED BY <2>1, <2>2
  <1>3. QED
    BY <1>1, <1>2, CommitInvHolds, PTL
       DEF Spec, NoTermIsForgotten, TermsAreKept, ReplicatedLogSpec, R!Spec

-----------------------------------------------------------------------------
(* Commit indexes *)

\* No request carries a commit index beyond the entries it covers.
CommitsAreCovered == \A m \in requests : m.commit <= Covered(m)

\* Requests reach to the end of the leader's log (EntriesFrom), and nothing
\* beyond that is committed.
LEMMA NextCommitsAreCovered ==
    ASSUME CommitInv, CommitsAreCovered, [Next]_raftVars
    PROVE  CommitsAreCovered'
  <1>1. RaftInv /\ RequestsOK /\ CommittedIsStored
    BY CommitInvImplies, CommitFacts DEF CommitInv, RaftInv
  <1>2. ASSUME NEW i \in Node, NEW p \in Peers(i), Replicate(i, p),
               NEW m, m = Request(i, p, nextIndex[i][p] - 1, "replicate")
        PROVE  m.commit <= Covered(m)
    <2>1. PICK prev \in 0..MaxLog :
             /\ m.prevIndex = prev /\ m.commit = commitIndex[i]
             /\ IF prev <= Len(log[i]) THEN Len(m.entries) = Len(log[i]) - prev
                                      ELSE Len(m.entries) = 0
      <3>1. m \in Sendable(i, p) /\ role[i] = "Leader" /\ m.kind = "replicate"
        BY <1>2 DEF Sendable, Replicate, Request
      <3>2. QED BY <1>1, <3>1, RequestIs
    <2>2. commitIndex[i] <= Len(log[i])
      BY <1>1 DEF CommittedIsStored, LastIndex
    <2>3. commitIndex[i] \in Nat /\ Len(log[i]) \in Nat /\ prev \in Nat
      BY CommitFacts, RaftAssumption DEF CommitInv
    <2>4. QED BY <2>1, <2>2, <2>3 DEF Covered
  <1>3. ASSUME NEW q \in requests' PROVE q.commit <= Covered(q)
    <2>1. CASE q \in requests
      BY <2>1 DEF CommitsAreCovered
    <2>2. ASSUME NEW m \in requests, Resent(q, m) PROVE q.commit <= Covered(q)
      BY <2>2 DEF CommitsAreCovered, Resent, Covered
    <2>3. ASSUME NEW i \in Node, NEW p \in Peers(i), Replicate(i, p), q \notin requests
          PROVE  q.commit <= Covered(q)
      <3>1. q = Request(i, p, nextIndex[i][p] - 1, "replicate")
        BY <1>3, <2>3 DEF Replicate, Send
      <3>2. QED BY <1>2, <2>3, <3>1
    <2>4. QED BY <1>1, <1>3, <2>1, <2>2, <2>3, ReplicationMoves
  <1>4. QED BY <1>3 DEF CommitsAreCovered, Covered

\* Rule 4 does not lower a commit index: where it cuts the leader's off, at
\* the end of the request, it would lower it if the request covered less.
LEMMA AcceptRaisesCommit ==
    ASSUME CommitInv, CommitsAreCovered, NEW m \in requests, Accept(m.to, m), NEW j \in Node
    PROVE  commitIndex'[j] >= commitIndex[j]
  <1>1. /\ m.to \in Node /\ m.commit \in Nat
        /\ commitIndex \in [Node -> 0..MaxLog] /\ \A i \in Node : commitIndex[i] \in Nat
    BY CommitFacts, RaftAssumption DEF CommitInv, RaftInv, RequestsOK, RequestType
  <1>2. m.commit <= Covered(m)
    BY DEF CommitsAreCovered
  <1>3. CommitAfter(m.to, m) >= commitIndex[m.to]
    BY <1>1, <1>2 DEF CommitAfter, Covered
  <1>4. commitIndex' = [commitIndex EXCEPT ![m.to] = CommitAfter(m.to, m)]
    BY DEF Accept
  <1>5. CASE j = m.to
    BY <1>1, <1>3, <1>4, <1>5
  <1>6. CASE j # m.to
    BY <1>1, <1>4, <1>6
  <1>7. QED BY <1>5, <1>6

\* advanceCommit looks only beyond the commit index.
LEMMA AdvanceRaisesCommit ==
    ASSUME CommitInv, NEW i \in Node, AdvanceCommit(i), NEW j \in Node
    PROVE  commitIndex'[j] >= commitIndex[j]
  <1>1. /\ commitIndex \in [Node -> 0..MaxLog] /\ \A v \in Node : commitIndex[v] \in Nat
        /\ Len(log[i]) \in Nat /\ RaftInv
    BY CommitFacts DEF CommitInv
  <1>2. PICK n \in Committable(i) : commitIndex' = [commitIndex EXCEPT ![i] = n]
    <2>1. Committable(i) # {}
      BY DEF AdvanceCommit
    <2>2. QED BY <1>1, <2>1, CommittableIsInLog DEF AdvanceCommit
  <1>3. n \in Nat /\ n > commitIndex[i]
    BY <1>1, <1>2 DEF Committable, LastIndex
  <1>4. QED BY <1>1, <1>2, <1>3

\* No step but a restart lowers a commit index.
LEMMA CommitsMove ==
    ASSUME CommitInv, CommitsAreCovered, [Next]_raftVars, NEW j \in Node
    PROVE  commitIndex'[j] >= commitIndex[j] \/ Restart(j)
  <1>1. \A v \in Node : commitIndex[v] \in Nat
    BY CommitFacts DEF CommitInv
  <1>2. CASE UNCHANGED commitIndex
    BY <1>1, <1>2
  <1>3. ASSUME NEW i \in Node, Restart(i)
        PROVE  commitIndex'[j] >= commitIndex[j] \/ Restart(j)
    <2>1. CASE i = j
      BY <1>3, <2>1
    <2>2. CASE i # j
      <3>1. commitIndex'[j] = commitIndex[j]
        BY <1>3, <2>2, CommitFacts DEF CommitInv, Restart
      <3>2. QED BY <1>1, <3>1
    <2>3. QED BY <2>1, <2>2
  <1>4. ASSUME NEW m \in requests, HandleAppendEntries(m)
        PROVE  UNCHANGED commitIndex \/ commitIndex'[j] >= commitIndex[j]
    BY <1>4, AcceptRaisesCommit
       DEF HandleAppendEntries, RejectStale, RejectGap, FailAppend, FailStore, applyVars
  <1>5. QED
    BY <1>2, <1>3, <1>4, AdvanceRaisesCommit
       DEF Next, Background, ElectionStep, WinElection, Propose, ProposeNoop, Replicate,
           ReceiveReply, AppendCallFails, ReplyLost, applyVars, raftVars

\* A commit index never decreases while the process lives, although rule 4
\* (HandleAppendEntries) compares it only with the leader's and then takes the
\* smaller of the leader's and the end of the request.
THEOREM CommitsNeverDecrease ==
    Spec /\ NoTermIsForgotten /\ NobodyIsMisled => CommitNeverDecreases
  <1>1. Init => CommitsAreCovered
    BY DEF Init, CommitsAreCovered
  <1>2. CommitInv /\ CommitsAreCovered /\ [Next]_raftVars => CommitsAreCovered'
    BY NextCommitsAreCovered
  <1>3. CommitInv /\ CommitsAreCovered /\ [Next]_raftVars =>
          [\A i \in Node : commitIndex'[i] >= commitIndex[i] \/ Restart(i)]_raftVars
    BY CommitsMove
  <1>4. QED
    BY <1>1, <1>2, <1>3, CommitInvHolds, PTL DEF Spec, CommitNeverDecreases

-----------------------------------------------------------------------------
(* Who is misled *)

\* Node l still has what it had up to position n when it led term t, or another
\* node has been elected since, in a term that l knows of.
Kept(l, t, n) ==
    \/ \E e \in elected : t < e.term /\ e.term <= currentTerm[l] /\ e.leader # l
    \/ n <= Len(log[l]) /\ \A k \in 1..n : log[l][k].term <= t

\* What a leader has sent, and what peers have taken of it, is kept by it.
SentIsKept ==
    /\ \A m \in requests :
          Reaches(RequestSegment(m), Covered(m)) => Kept(m.from, m.term, Covered(m))
    /\ \A r \in replies : r.success /\ r.upTo >= 1 => Kept(r.from, r.term, r.upTo)

KeptInv == TermInv /\ RepliesNameWinners /\ SentIsKept

\* The log of a node that has led moves at its end, or for another leader.
LEMMA KeptStays ==
    ASSUME TermsAreKept, TermInv, TermInv', [NextOrProbe]_raftVars, NEW l \in Node,
           NEW t \in Nat, t <= currentTerm[l], \E e \in elected : e.term = t /\ e.leader = l,
           NEW n \in Nat, Kept(l, t, n)
    PROVE  Kept(l, t, n)'
  <1>1. RaftInv /\ RaftInv' /\ LogsOK' /\ LogsOK /\ RequestsOK
    BY DEF TermInv, MatchingInv, RaftInv
  <1>2. elected \subseteq elected'
    BY <1>1, ElectionsGoOn
  <1>3. /\ currentTerm[l] \in Nat /\ currentTerm'[l] \in Nat
        /\ currentTerm'[l] >= currentTerm[l]
        /\ \A e \in elected : e.term \in Nat
    <2>1. currentTerm' \in [Node -> 0..MaxTerm] /\ \A e \in elected : e.term \in 0..MaxTerm
      BY <1>1 DEF RaftInv, EP!LeaderInv, EP!IndInv, EP!TypeOK, EP!Terms
    <2>2. QED BY <1>1, <2>1, ElectionFacts, RaftAssumption DEF TermsAreKept
  <1>4. CASE \E e \in elected : t < e.term /\ e.term <= currentTerm[l] /\ e.leader # l
    <2>1. PICK e \in elected : t < e.term /\ e.term <= currentTerm[l] /\ e.leader # l
      BY <1>4
    <2>2. e \in elected' /\ e.term <= currentTerm'[l]
      BY <1>2, <1>3, <2>1
    <2>3. QED BY <2>1, <2>2 DEF Kept
  <1>5. CASE n <= Len(log[l]) /\ \A k \in 1..n : log[l][k].term <= t
    <2>1. Len(log[l]) \in Nat
      BY <1>1 DEF LogsOK
    <2>2. CASE log'[l] = log[l]
      BY <1>5, <2>2 DEF Kept
    <2>3. ASSUME NEW i \in Node, NEW cmd \in Command \cup {Noop}, Proposes(i, cmd),
                 log'[l] # log[l]
          PROVE  Kept(l, t, n)'
      <3>1. i = l
        BY <1>1, <2>3, ProposedLog
      <3>2. /\ Len(log'[l]) = Len(log[l]) + 1
            /\ \A r \in 1..Len(log[l]) : log'[l][r] = log[l][r]
        BY <1>1, <2>3, <3>1, ProposedLog
      <3>3. n <= Len(log'[l]) /\ \A k \in 1..n : log'[l][k].term <= t
        BY <1>5, <2>1, <3>2
      <3>4. QED BY <3>3 DEF Kept
    <2>4. ASSUME NEW m \in requests, NEW j \in 0..Len(m.entries), Stores(m, j),
                 log'[l] # log[l]
          PROVE  Kept(l, t, n)'
      <3>1. m.to = l
        BY <1>1, <2>4, StoredLog
      <3>2. currentTerm'[l] = m.term /\ m.term >= currentTerm[l]
        BY <1>1, <2>4, <3>1, StoresInTerm
      <3>3. m.from # l /\ m.term \in Nat
        BY <1>1, <3>1, RaftAssumption DEF RequestsOK, RequestType
      <3>4. PICK e \in elected : e.term = m.term /\ e.leader = m.from
        BY <1>1 DEF RaftInv, RequestsNameWinners
      <3>5. m.term # t
        <4>1. PICK d \in elected : d.term = t /\ d.leader = l
          OBVIOUS
        <4>2. QED BY <1>1, <3>3, <3>4, <4>1, WinnersAreOne
      <3>6. e \in elected' /\ t < e.term /\ e.term <= currentTerm'[l] /\ e.leader # l
        BY <1>2, <1>3, <3>2, <3>3, <3>4, <3>5
      <3>7. QED BY <3>6 DEF Kept
    <2>5. QED BY <1>1, <2>2, <2>3, <2>4, LogsMove
  <1>6. QED BY <1>4, <1>5 DEF Kept

\* What is in the network stays kept.
LEMMA NextKeptInv ==
    ASSUME TermsAreKept, KeptInv, [NextOrProbe]_raftVars
    PROVE  KeptInv'
  <1>1. TermInv /\ TermInv' /\ RaftInv /\ RaftInv' /\ LogsOK' /\ RequestsOK /\ RequestsOK'
    BY NextTermInv DEF KeptInv, TermInv, MatchingInv, RaftInv
  <1>2. RepliesNameWinners'
    BY <1>1, ElectionsGoOn, NextRepliesNameWinners DEF KeptInv
  <1>3. ASSUME NEW m \in requests, Reaches(RequestSegment(m), Covered(m))
        PROVE  Kept(m.from, m.term, Covered(m))'
    <2>1. m.from \in Node /\ m.term \in Nat /\ Covered(m) \in Nat
      BY <1>1, <1>3, RaftAssumption DEF RequestsOK, RequestType, Reaches
    <2>2. /\ m.term <= currentTerm[m.from]
          /\ \E e \in elected : e.term = m.term /\ e.leader = m.from
      BY <1>1, WinnersAreInTerm DEF RaftInv, RequestsNameWinners
    <2>3. Kept(m.from, m.term, Covered(m))
      BY <1>3 DEF KeptInv, SentIsKept
    <2>4. PICK l \in Node : l = m.from
      BY <2>1
    <2>5. PICK t \in Nat : t = m.term
      BY <2>1
    <2>6. PICK n \in Nat : n = Covered(m)
      BY <2>1
    <2>7. Kept(l, t, n)'
      BY <1>1, <2>2, <2>3, <2>4, <2>5, <2>6, KeptStays
    <2>8. QED BY <2>4, <2>5, <2>6, <2>7 DEF Kept, Covered
  <1>4. ASSUME NEW r \in replies, r.success, r.upTo >= 1
        PROVE  Kept(r.from, r.term, r.upTo)'
    <2>1. r.from \in Node /\ r.term \in Nat /\ r.term <= currentTerm[r.from]
      BY <1>1, RepliesAreOld DEF KeptInv
    <2>2. r.upTo \in Nat
      BY <1>1, RaftAssumption DEF RaftInv, RepliesOK, ReplyType
    <2>3. \E e \in elected : e.term = r.term /\ e.leader = r.from
      BY DEF KeptInv, RepliesNameWinners
    <2>4. Kept(r.from, r.term, r.upTo)
      BY <1>4 DEF KeptInv, SentIsKept
    <2>5. QED BY <1>1, <2>1, <2>2, <2>3, <2>4, KeptStays
  <1>5. ASSUME NEW q \in requests', Reaches(RequestSegment(q), Covered(q))
        PROVE  Kept(q.from, q.term, Covered(q))'
    <2>1. CASE q \in requests
      BY <1>3, <1>5, <2>1
    <2>2. ASSUME NEW m \in requests, Resent(q, m) PROVE Kept(q.from, q.term, Covered(q))'
      <3>1. q.from = m.from /\ q.term = m.term /\ Covered(q) = Covered(m)
            /\ RequestSegment(q) = RequestSegment(m)
        BY <2>2 DEF Resent, Covered, RequestSegment
      <3>2. QED BY <1>3, <1>5, <3>1 DEF Kept, Covered
    <2>3. ASSUME NEW i \in Node, NEW p \in Peers(i), NEW m \in Sendable(i, p), Sends(i, m),
                 q = m
          PROVE  Kept(q.from, q.term, Covered(q))'
      <3>1. q.from = i /\ q.term = currentTerm[i] /\ role[i] = "Leader" /\ log' = log
        BY <1>1, <2>3, RequestIs DEF Sends, raftVars
      <3>2. currentTerm' = currentTerm /\ role' = role
        BY <2>3 DEF Sends, electionVars
      <3>3. Covered(q) <= Len(log'[i])
        <4>1. Covered(q) \in 1..MaxLog /\ q \in requests' /\ q.term = currentTerm'[i]
          BY <1>5, <3>1, <3>2 DEF Reaches
        <4>2. RequestsAreCut' /\ role'[i] = "Leader"
          BY <1>1, <3>1, <3>2 DEF TermInv
        <4>3. QED BY <1>5, <4>1, <4>2 DEF RequestsAreCut
      <3>4. \A k \in 1..Covered(q) : log'[i][k].term <= q.term
        <4>1. Len(log'[i]) \in Nat /\ Covered(q) \in Nat
          BY <1>1, <1>5, RaftAssumption DEF LogsOK, Reaches
        <4>2. QED BY <1>1, <3>1, <3>2, <3>3, <4>1 DEF TermInv, LogsAreKnown
      <3>5. QED BY <3>1, <3>3, <3>4 DEF Kept, Covered
    <2>4. QED BY <1>1, <1>5, <2>1, <2>2, <2>3, RequestsMove DEF Sends
  <1>6. ASSUME NEW r \in replies', r.success, r.upTo >= 1
        PROVE  Kept(r.from, r.term, r.upTo)'
    <2>1. CASE r \in replies
      BY <1>4, <1>6, <2>1
    <2>2. CASE r \notin replies
      <3>1. PICK m \in requests : /\ r.from = m.from /\ r.term = m.term /\ r.upTo = Covered(m)
                                  /\ Accept(m.to, m)
        BY <1>6, <2>2, NewRepliesAreAnswers
      <3>2. Reaches(RequestSegment(m), Covered(m))
        BY <1>1, <1>6, <3>1, AcceptedIs
      <3>3. QED BY <1>3, <3>1, <3>2 DEF Kept, Covered
    <2>3. QED BY <2>1, <2>2
  <1>7. SentIsKept'
    BY <1>5, <1>6 DEF SentIsKept, Reaches, RequestSegment, Covered, Kept
  <1>8. QED BY <1>1, <1>2, <1>7 DEF KeptInv

\* A reply misleads only a node that was replaced by another and leads again.
LEMMA KeptRepliesAreTrue ==
    ASSUME KeptInv, NobodyLeadsAgain \/ MaxTerm <= 2
    PROVE  NobodyMisleads
  <1> SUFFICES ASSUME NEW r \in replies, Misleads(r) PROVE FALSE
    BY DEF NobodyMisleads
  <1> DEFINE l == r.from
  <1>1. RaftInv /\ LogsOK /\ RepliesOK
    BY DEF KeptInv, TermInv, MatchingInv, RaftInv
  <1>2. l \in Node /\ r.term \in 1..MaxTerm /\ r.upTo \in Nat /\ Len(log[l]) \in Nat
    BY <1>1, RaftAssumption DEF RepliesOK, ReplyType, LogsOK
  <1>3. /\ r.success /\ role[l] = "Leader" /\ r.term < currentTerm[l]
        /\ currentTerm[l] \in 0..MaxTerm
    BY <1>1, <1>2, ElectionFacts DEF Misleads
  <1>4. PICK k \in 1..r.upTo : k \in DOMAIN log[l] => log[l][k].term = currentTerm[l]
    BY DEF Misleads
  <1>5. r.upTo >= 1 /\ k \in Nat /\ k >= 1
    BY <1>2
  <1>6. Kept(l, r.term, r.upTo)
    BY <1>3, <1>5 DEF KeptInv, SentIsKept
  <1>7. CASE r.upTo <= Len(log[l]) /\ \A n \in 1..r.upTo : log[l][n].term <= r.term
    <2>1. k \in DOMAIN log[l] /\ log[l] \in Seq(Entries)
      BY <1>1, <1>2, <1>5, <1>7 DEF LogsOK
    <2>2. QED BY <1>2, <1>3, <1>4, <1>7, <2>1, RaftAssumption
  <1>8. CASE \E f \in elected : r.term < f.term /\ f.term <= currentTerm[l] /\ f.leader # l
    <2>1. PICK f \in elected : r.term < f.term /\ f.term <= currentTerm[l] /\ f.leader # l
      BY <1>8
    <2>2. PICK e \in elected : e.term = r.term /\ e.leader = l
      BY DEF KeptInv, RepliesNameWinners
    <2>3. PICK g \in elected : g.term = currentTerm[l] /\ g.leader = l
      BY <1>1, <1>2, <1>3, ElectionFacts
    <2>4. f.term \in Nat /\ f.term # g.term
      BY <1>1, <2>1, <2>3, WinnersAreOne, WinnersAreInTerm
    <2>5. e.term < f.term /\ f.term < g.term
      BY <1>2, <1>3, <2>1, <2>2, <2>3, <2>4, RaftAssumption
    <2>6. CASE NobodyLeadsAgain
      BY <2>1, <2>2, <2>3, <2>5, <2>6 DEF NobodyLeadsAgain
    <2>7. CASE MaxTerm <= 2
      BY <1>2, <1>3, <2>2, <2>3, <2>4, <2>5, <2>7, RaftAssumption
    <2>8. QED BY <2>6, <2>7
  <1>9. QED BY <1>6, <1>7, <1>8 DEF Kept

\* Where behaviours go, if no term is forgotten.
LEMMA KeptInvHolds == Spec /\ NoTermIsForgotten => []KeptInv
  <1>1. Init => KeptInv
    BY InitCommitInv DEF CommitInv, KeptInv, SentIsKept, Init
  <1>2. KeptInv /\ [Next]_raftVars /\ [TermsAreKept]_raftVars => KeptInv'
    <2>1. ASSUME KeptInv, [Next]_raftVars, TermsAreKept PROVE KeptInv'
      BY <2>1, NextKeptInv, NextIsNextOrProbe
    <2>2. ASSUME KeptInv, UNCHANGED raftVars PROVE KeptInv'
      <3>1. TermsAreKept
        <4>1. currentTerm' = currentTerm /\ \A i \in Node : currentTerm[i] \in Nat
          BY <2>2, CommitFacts DEF KeptInv, raftVars, electionVars
        <4>2. QED BY <4>1 DEF TermsAreKept
      <3>2. QED BY <2>2, <3>1, NextKeptInv
    <2>3. QED BY <2>1, <2>2
  <1>3. QED BY <1>1, <1>2, PTL DEF Spec, NoTermIsForgotten, TermsAreKept

\* The reply replicateTo takes for one of the present leadership, although it is
\* to an earlier one, does no harm unless the node has been replaced in between
\* and leads again.
THEOREM WhoIsMisled == Spec /\ NoTermIsForgotten /\ []NobodyLeadsAgain => NobodyIsMisled
  <1>1. KeptInv /\ NobodyLeadsAgain => NobodyMisleads
    BY KeptRepliesAreTrue
  <1>2. QED BY <1>1, KeptInvHolds, PTL DEF NobodyIsMisled, NobodyMisleads

\* In two terms nobody leads again.  Then nothing is left to assume: late,
\* reordered and repeated calls, and disk errors or crashes, are all covered.
THEOREM TwoTermsAreSafe ==
    ASSUME SafeFaults, MaxTerm <= 2
    PROVE  Spec => /\ []StateMachineSafety /\ []LeaderCompleteness
                   /\ []CommittedIsStored /\ []CountedIsStored
                   /\ CommitNeverDecreases /\ ReplicatedLogSpec
  <1>1. KeptInv => NobodyMisleads
    BY KeptRepliesAreTrue
  <1>2. Spec => NoTermIsForgotten
    BY NoTermIsEverForgotten
  <1>3. Spec => NobodyIsMisled
    BY <1>1, <1>2, KeptInvHolds, PTL DEF NobodyIsMisled, NobodyMisleads
  <1>4. QED
    BY <1>2, <1>3, StateMachinesAgree, LeadersAreComplete, CommittedEntriesAreStored,
       CountedEntriesAreStored, CommitsNeverDecrease, RaftImplementsReplicatedLog, PTL
====
