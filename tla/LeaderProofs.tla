----------------------------- MODULE LeaderProofs -----------------------------
(***************************************************************************)
(* What the leaders and candidates of module Raft know of their terms, and *)
(* why entries stay once enough nodes have them: for every cluster, every  *)
(* bound and every set of faults, in the steps in which no node goes back  *)
(* to an earlier term (TermsAreKept).  A node does when its term could not *)
(* be saved and it dies after that, and then entries may be lost; while    *)
(* state files and crashes do not fail together none does                  *)
(* (NoTermIsEverForgotten).                                                *)
(*                                                                         *)
(* First part, TermInv: terms grow.  So no entry is from a later term than *)
(* the log it is in, what a leader has sent is cut out of the log it has   *)
(* now, and what a candidate has asked with is the log it has now.         *)
(*                                                                         *)
(* Second part, Secure: the nodes of a set A hold a prefix, whose last     *)
(* entry is of the latest term in it, and nobody who could overwrite it    *)
(* lacks it - no leader of that term or a later one, no request of such a  *)
(* leader, no log or request that logUpToDateLocked would put before it,   *)
(* and no candidate for whom a node of A has voted.  If A and the nodes    *)
(* that are not beyond the term yet include a majority, every step         *)
(* leaves this so (SecureStays): a leader of a later term has a vote of a  *)
(* node in A, cast after that node stored the prefix, and the voter        *)
(* compared logs.  The leader of the last term in the prefix makes it      *)
(* secure when it appends the last entry (NewestIsSecure), and each node   *)
(* that stores the prefix in that term can be added to A (SecureGrows).    *)
(***************************************************************************)
EXTENDS RaftProofs

\* The action of NoTermIsForgotten.
TermsAreKept == \A i \in Node : currentTerm'[i] >= currentTerm[i]

\* Segment s says which term the entry at position r is from: it has the
\* entry, or is anchored to it.
Reaches(s, r) ==
    /\ r \in 1..MaxLog /\ r >= s.prev /\ r <= s.prev + Len(s.entries)
    /\ TermIn(s, r) > 0

ReachedTermsAreWon ==
    \A s \in Segments : \A r \in 1..MaxLog :
       Reaches(s, r) => \E e \in elected : e.term = TermIn(s, r)

LogsAreKnown == \A i \in Node : \A k \in 1..Len(log[i]) : log[i][k].term <= currentTerm[i]

RequestsAreKnown ==
    \A m \in requests : \A k \in 1..Len(m.entries) : m.entries[k].term <= m.term

\* Nobody knows of an entry of a leader's term beyond the leader's log.
LeadersReachFarthest ==
    \A i \in Node : role[i] = "Leader" =>
       \A s \in Segments : \A r \in 1..MaxLog :
          Reaches(s, r) /\ TermIn(s, r) = currentTerm[i] => r <= Len(log[i])

\* What a leader has sent is in its log.
RequestsAreCut ==
    \A i \in Node : role[i] = "Leader" =>
       \A m \in requests : m.term = currentTerm[i] =>
          \A r \in 1..MaxLog : Reaches(RequestSegment(m), r) =>
             r <= Len(log[i]) /\ TermIn(RequestSegment(m), r) = log[i][r].term

\* What a candidate has asked with is the end of its log.
CallsAreCurrent ==
    \A c \in voteCalls :
       /\ c.term <= currentTerm[c.from]
       /\ role[c.from] = "Candidate" /\ c.term = currentTerm[c.from]
            => c.last = LastOf(log[c.from])

TermInv ==
    /\ MatchingInv
    /\ ReachedTermsAreWon
    /\ LogsAreKnown
    /\ RequestsAreKnown
    /\ LeadersReachFarthest
    /\ RequestsAreCut
    /\ CallsAreCurrent

-----------------------------------------------------------------------------
(* Terms grow *)

SafeFaults == ~({"disk", "crash"} \subseteq Faults)

\* What module ElectionProofs says of a step while faults are safe.
LEMMA NextTermsGrow ==
    ASSUME SafeFaults, RaftInv, LogsOK', EP!DiskIsMemory, [NextOrProbe]_raftVars
    PROVE  EP!DiskIsMemory' /\ TermsAreKept
  <1>1. EP!TypeOK /\ EP!NoProbes
    BY DEF RaftInv, EP!LeaderInv, EP!IndInv
  <1>2. QED
    BY <1>1, NextIsProvenStep, ElectionAssumptionsHold, EP!TermsGrow
       DEF SafeFaults, TermsAreKept

\* A node never comes back in an earlier term, if Save never fails or no process
\* ever dies: what Raft's safety asks of setTermLocked and Restart holds then.
THEOREM NoTermIsEverForgotten ==
    ASSUME SafeFaults
    PROVE  Spec => NoTermIsForgotten
  <1>1. Init => RaftInv /\ EP!DiskIsMemory
    BY InitRaftInv DEF Init, E!Init, EP!DiskIsMemory
  <1>2. RaftInv /\ EP!DiskIsMemory /\ [Next]_raftVars
           => (RaftInv /\ EP!DiskIsMemory)' /\ TermsAreKept
    <2> SUFFICES ASSUME RaftInv, EP!DiskIsMemory, [Next]_raftVars
                 PROVE  (RaftInv /\ EP!DiskIsMemory)' /\ TermsAreKept
      OBVIOUS
    <2>1. [NextOrProbe]_raftVars
      BY NextIsNextOrProbe
    <2>2. RaftInv'
      BY <2>1, NextRaftInv
    <2>3. LogsOK'
      BY <2>2 DEF RaftInv
    <2>4. QED BY <2>1, <2>2, <2>3, NextTermsGrow
  <1>3. QED BY <1>1, <1>2, PTL DEF Spec, NoTermIsForgotten, TermsAreKept

\* A candidate's log is at rest.
LEMMA CandidatesLogsRest ==
    ASSUME RaftInv, [NextOrProbe]_raftVars, NEW i \in Node, role'[i] = "Candidate"
    PROVE  log'[i] = log[i]
  <1>1. LogsOK /\ RequestsOK
    BY DEF RaftInv
  <1>2. ASSUME NEW n \in Node, NEW cmd \in Command \cup {Noop}, Proposes(n, cmd)
        PROVE  log'[i] = log[i]
    <2>1. role[n] = "Leader" /\ role' = role /\ \A k \in Node : k # n => log'[k] = log[k]
      BY <1>2, ProposedLog DEF Proposes
    <2>2. QED BY <2>1
  <1>3. ASSUME NEW m \in requests, NEW j \in 0..Len(m.entries), Stores(m, j)
        PROVE  log'[i] = log[i]
    <2>1. m.to \in Node /\ \A n \in Node : n # m.to => log'[n] = log[n]
      BY <1>1, <1>3, StoredLog
    <2>2. role'[m.to] = "Follower"
      BY <1>3, <2>1, ElectionFacts DEF Stores, E!HeedLeader, E!EnterTerm
    <2>3. QED BY <2>1, <2>2
  <1>4. QED BY <1>1, <1>2, <1>3, LogsMove

\* A follower that stores is in the request's term after that.
LEMMA StoresInTerm ==
    ASSUME RaftInv, NEW m \in requests, NEW j \in 0..Len(m.entries), Stores(m, j)
    PROVE  /\ m.to \in Node /\ currentTerm'[m.to] = m.term /\ m.term >= currentTerm[m.to]
           /\ role'[m.to] = "Follower"
           /\ \A n \in Node : n # m.to => currentTerm'[n] = currentTerm[n]
  <1>1. m.to \in Node
    BY DEF RaftInv, RequestsOK, RequestType
  <1>2. E!HeedLeader(m.to, m.term, m.from)
    BY DEF Stores
  <1>3. currentTerm' = [currentTerm EXCEPT ![m.to] = m.term] /\ role'[m.to] = "Follower"
    BY <1>1, <1>2, ElectionFacts DEF E!HeedLeader, E!EnterTerm
  <1>4. m.term >= currentTerm[m.to]
    BY <1>2 DEF E!HeedLeader
  <1>5. QED BY <1>1, <1>3, <1>4, ElectionFacts

-----------------------------------------------------------------------------
(* What segments reach *)

\* The positions of a log are those it reaches.
LEMMA LogReaches ==
    ASSUME RaftInv, NEW i \in Node, NEW r \in Nat
    PROVE  /\ Reaches(LogSegment(log[i]), r) <=> r \in 1..Len(log[i])
           /\ r \in 1..Len(log[i]) => TermIn(LogSegment(log[i]), r) = log[i][r].term
  <1>1. /\ log[i] \in Seq(Entries) /\ Len(log[i]) \in Nat
        /\ Len(log[i]) <= MaxLog /\ MaxLog \in Nat
    BY RaftAssumption DEF RaftInv, LogsOK
  <1>2. ASSUME r \in 1..Len(log[i])
        PROVE  TermIn(LogSegment(log[i]), r) = log[i][r].term /\ log[i][r].term > 0
    <2>1. log[i][r] \in Entries
      BY <1>1, <1>2
    <2>2. r # 0 /\ r - 0 = r /\ log[i][r].term > 0
      BY <1>2, <2>1 DEF Entries
    <2>3. QED BY <2>2 DEF TermIn, EntryIn, LogSegment
  <1>3. QED BY <1>1, <1>2 DEF Reaches, LogSegment

\* What a leader sends reaches no farther than its log, and has its terms.
LEMMA SentReaches ==
    ASSUME RaftInv, NEW i \in Node, NEW p \in Peers(i), NEW m \in Sendable(i, p), Sends(i, m),
           NEW r \in Nat, Reaches(RequestSegment(m), r)
    PROVE  /\ r \in 1..Len(log[i])
           /\ TermIn(RequestSegment(m), r) = log[i][r].term
  <1> DEFINE q == RequestSegment(m)
             prev == m.prevIndex
  <1>1. /\ prev \in 0..MaxLog
        /\ m.prevTerm = TermAt(log[i], prev)
        /\ Len(m.entries) = 0 \/ prev + Len(m.entries) = Len(log[i])
        /\ \A k \in 1..Len(m.entries) : m.entries[k] = log[i][prev + k]
    BY RequestIs DEF Sends
  <1>2. log[i] \in Seq(Entries) /\ Len(log[i]) \in Nat /\ prev \in Nat
    BY <1>1, RaftAssumption DEF RaftInv, LogsOK
  <1>3. q.prev = prev /\ q.prevTerm = TermAt(log[i], prev) /\ q.entries = m.entries
    BY <1>1 DEF RequestSegment
  <1>4. Reaches(q, r)
    OBVIOUS
  <1> HIDE DEF q, prev
  <1>5. r \in Nat /\ r >= 1 /\ r >= prev /\ r <= prev + Len(m.entries) /\ TermIn(q, r) > 0
    BY <1>3, <1>4, RaftAssumption DEF Reaches
  <1>6. CASE r = prev
    <2>1. TermIn(q, r) = TermAt(log[i], prev)
      BY <1>3, <1>6 DEF TermIn
    <2>2. prev \in DOMAIN log[i]
      BY <1>5, <2>1 DEF TermAt
    <2>3. TermIn(q, r) = log[i][r].term
      BY <1>6, <2>1, <2>2 DEF TermAt
    <2>4. QED BY <1>2, <1>6, <2>2, <2>3 DEF q, prev
  <1>7. CASE r # prev
    <2>1. r - prev \in 1..Len(m.entries) /\ prev + (r - prev) = r /\ r \in 1..Len(log[i])
      BY <1>1, <1>2, <1>5, <1>7
    <2>2. TermIn(q, r) = log[i][r].term
      BY <1>1, <1>3, <1>7, <2>1 DEF TermIn, EntryIn
    <2>3. QED BY <2>1, <2>2 DEF q, prev
  <1>8. QED BY <1>6, <1>7

\* What a segment says of a position, a segment said before, or a leader has
\* just appended an entry there.
LEMMA ReachesMove ==
    ASSUME RaftInv, LogsOK', [NextOrProbe]_raftVars,
           NEW x \in Segments', NEW r \in 1..MaxLog, Reaches(x, r)
    PROVE  \/ \E s \in Segments : Reaches(s, r) /\ TermIn(s, r) = TermIn(x, r)
           \/ \E i \in Node, cmd \in Command \cup {Noop} :
                 /\ Proposes(i, cmd)
                 /\ x = LogSegment(log'[i]) /\ r = Len(log[i]) + 1
                 /\ TermIn(x, r) = currentTerm[i]
  <1> DEFINE Old == \E s \in Segments : Reaches(s, r) /\ TermIn(s, r) = TermIn(x, r)
  <1>1. CASE Covers(x, r)
    <2>1. r \in Nat /\ TermIn(x, r) > 0
      BY RaftAssumption DEF Reaches
    <2>2. TermIn(x, r) = EntryIn(x, r).term
      <3>1. CASE r # x.prev
        BY <3>1 DEF TermIn
      <3>2. CASE r = x.prev
        BY <1>1, <2>1, <3>2 DEF Covers
      <3>3. QED BY <3>1, <3>2
    <2>3. ASSUME NEW s \in Segments, Covers(s, r), EntryIn(s, r) = EntryIn(x, r)
          PROVE  Reaches(s, r) /\ TermIn(s, r) = TermIn(x, r)
      <3>1. s.prev \in Nat
        BY SegmentsAre, RaftAssumption DEF IsSegment
      <3>2. r # s.prev /\ r >= s.prev /\ r <= s.prev + Len(s.entries)
        BY <2>1, <2>3, <3>1 DEF Covers
      <3>3. TermIn(s, r) = TermIn(x, r)
        BY <2>2, <2>3, <3>2 DEF TermIn
      <3>4. QED BY <2>1, <3>2, <3>3 DEF Reaches
    <2>4. QED
      BY <1>1, <2>2, <2>3, EntriesMove
  <1>2. CASE ~Covers(x, r)
    <2>1. x \in Segments => Old
      OBVIOUS
    <2>2. ASSUME NEW n, x = LogSegment(log'[n]) PROVE FALSE
      <3>1. x.prev = 0
        BY <2>2 DEF LogSegment
      <3>2. r \in Nat /\ r > 0
        BY RaftAssumption
      <3>3. QED BY <1>2, <3>1, <3>2 DEF Reaches, Covers
    <2>3. ASSUME NEW i \in Node, NEW p \in Peers(i), NEW m \in Sendable(i, p), Sends(i, m),
                 x = RequestSegment(m)
          PROVE  Old
      <3>1. r \in 1..Len(log[i]) /\ TermIn(x, r) = log[i][r].term
        BY <2>3, SentReaches, RaftAssumption
      <3>2. /\ Reaches(LogSegment(log[i]), r)
            /\ TermIn(LogSegment(log[i]), r) = log[i][r].term
        BY <3>1, LogReaches, RaftAssumption
      <3>3. QED BY <3>1, <3>2 DEF Segments
    <2>4. QED BY <2>1, <2>2, <2>3, SegmentsMove
  <1>3. QED BY <1>1, <1>2

-----------------------------------------------------------------------------
(* Every step keeps the invariant *)

\* An entry a leader appends is of a term somebody has won.
LEMMA NextReachedTermsAreWon ==
    ASSUME RaftInv, LogsOK', ReachedTermsAreWon, elected \subseteq elected',
           [NextOrProbe]_raftVars
    PROVE  ReachedTermsAreWon'
  <1>1. ASSUME NEW x \in Segments', NEW r \in 1..MaxLog, Reaches(x, r)
        PROVE  \E e \in elected : e.term = TermIn(x, r)
    <2>1. CASE \E s \in Segments : Reaches(s, r) /\ TermIn(s, r) = TermIn(x, r)
      BY <2>1 DEF ReachedTermsAreWon
    <2>2. ASSUME NEW i \in Node, role[i] = "Leader", TermIn(x, r) = currentTerm[i]
          PROVE  \E e \in elected : e.term = TermIn(x, r)
      BY <2>2, ElectionFacts
    <2>3. QED BY <1>1, <2>1, <2>2, ReachesMove DEF Proposes
  <1>2. QED BY <1>1 DEF ReachedTermsAreWon

\* No log holds an entry of a later term than its node knows of.
LEMMA NextLogsAreKnown ==
    ASSUME RaftInv, LogsOK', LogsAreKnown, RequestsAreKnown, [NextOrProbe]_raftVars,
           \A i \in Node : currentTerm'[i] >= currentTerm[i],
           currentTerm' \in [Node -> 0..MaxTerm]
    PROVE  LogsAreKnown'
  <1>0. /\ MaxTerm \in Nat
        /\ \A n \in Node : /\ log[n] \in Seq(Entries) /\ Len(log[n]) \in Nat
                           /\ currentTerm[n] \in Nat /\ currentTerm'[n] \in Nat
    BY ElectionFacts, RaftAssumption DEF RaftInv, LogsOK
  <1>1. ASSUME NEW n \in Node, NEW k \in 1..Len(log[n])
        PROVE  log[n][k].term <= currentTerm'[n]
    <2>1. log[n][k].term <= currentTerm[n]
      BY DEF LogsAreKnown
    <2>2. log[n][k] \in Entries
      BY <1>0
    <2>3. QED BY <1>0, <2>1, <2>2 DEF Entries
  <1>2. ASSUME NEW n \in Node, log'[n] = log[n], NEW k \in 1..Len(log'[n])
        PROVE  log'[n][k].term <= currentTerm'[n]
    BY <1>1, <1>2
  <1>3. ASSUME NEW i \in Node, NEW cmd \in Command \cup {Noop}, Proposes(i, cmd),
               NEW k \in 1..Len(log'[i])
        PROVE  log'[i][k].term <= currentTerm'[i]
    <2>1. /\ Len(log'[i]) = Len(log[i]) + 1
          /\ \A r \in 1..Len(log[i]) : log'[i][r] = log[i][r]
          /\ log'[i][Len(log[i]) + 1] = [term |-> currentTerm[i], cmd |-> cmd]
      BY <1>3, ProposedLog
    <2>2. currentTerm' = currentTerm
      BY <1>3 DEF Proposes
    <2>3. CASE k \in 1..Len(log[i])
      BY <1>1, <2>1, <2>3
    <2>4. CASE k = Len(log[i]) + 1
      BY <1>0, <2>1, <2>2, <2>4
    <2>5. QED BY <1>0, <2>1, <2>3, <2>4
  <1>4. ASSUME NEW m \in requests, NEW j \in 0..Len(m.entries), Stores(m, j),
               NEW k \in 1..Len(log'[m.to])
        PROVE  log'[m.to][k].term <= currentTerm'[m.to]
    <2> DEFINE c == m.prevIndex + SkipCount(log[m.to], m.prevIndex, m.entries)
    <2>1. /\ m.to \in Node /\ m.prevIndex \in 0..Len(log[m.to])
          /\ c \in m.prevIndex..Len(log[m.to])
          /\ Len(log'[m.to]) = m.prevIndex + j
          /\ \A r \in 1..c : log'[m.to][r] = log[m.to][r]
          /\ \A r \in (c + 1)..(m.prevIndex + j) :
                log'[m.to][r] = m.entries[r - m.prevIndex]
      BY <1>4, StoredLog DEF RaftInv
    <2>2. currentTerm'[m.to] = m.term
      BY <1>4, StoresInTerm
    <2> HIDE DEF c
    <2>3. Len(m.entries) \in Nat /\ j \in Nat /\ m.prevIndex \in Nat
      BY <1>0, <2>1 DEF RaftInv, RequestsOK, RequestType
    <2>4. CASE k <= c
      <3>1. k \in 1..c /\ k \in 1..Len(log[m.to])
        BY <1>0, <2>1, <2>3, <2>4
      <3>2. QED BY <1>1, <2>1, <3>1
    <2>5. CASE k > c
      <3>1. k \in (c + 1)..(m.prevIndex + j) /\ k - m.prevIndex \in 1..Len(m.entries)
        BY <1>0, <2>1, <2>3, <2>5
      <3>2. m.entries[k - m.prevIndex].term <= m.term
        BY <3>1 DEF RequestsAreKnown
      <3>3. QED BY <2>1, <2>2, <3>1, <3>2
    <2>6. QED BY <1>0, <2>1, <2>3, <2>4, <2>5
  <1>5. ASSUME NEW n \in Node, NEW k \in 1..Len(log'[n])
        PROVE  log'[n][k].term <= currentTerm'[n]
    <2>1. ASSUME NEW i \in Node, NEW cmd \in Command \cup {Noop}, Proposes(i, cmd)
          PROVE  log'[n][k].term <= currentTerm'[n]
      <3>1. n # i => log'[n] = log[n]
        BY <2>1, ProposedLog
      <3>2. QED BY <1>2, <1>3, <2>1, <3>1
    <2>2. ASSUME NEW m \in requests, NEW j \in 0..Len(m.entries), Stores(m, j)
          PROVE  log'[n][k].term <= currentTerm'[n]
      <3>1. n # m.to => log'[n] = log[n]
        BY <2>2, StoredLog DEF RaftInv
      <3>2. QED BY <1>2, <1>4, <2>2, <3>1
    <2>3. QED BY <1>2, <2>1, <2>2, LogsMove DEF RaftInv
  <1>6. QED BY <1>5 DEF LogsAreKnown

\* No request carries an entry of a later term than it was sent in.
LEMMA NextRequestsAreKnown ==
    ASSUME RaftInv, LogsAreKnown, RequestsAreKnown, [NextOrProbe]_raftVars
    PROVE  RequestsAreKnown'
  <1>1. ASSUME NEW m \in requests, NEW q, q = m \/ Resent(q, m), NEW k \in 1..Len(q.entries)
        PROVE  q.entries[k].term <= q.term
    <2>1. q.entries = m.entries /\ q.term = m.term
      BY <1>1 DEF Resent
    <2>2. QED BY <1>1, <2>1 DEF RequestsAreKnown
  <1>2. ASSUME NEW i \in Node, NEW p \in Peers(i), NEW m \in Sendable(i, p), Sends(i, m),
               NEW q, q \in requests', q \notin requests, NEW k \in 1..Len(q.entries)
        PROVE  q.entries[k].term <= q.term
    <2> DEFINE prev == m.prevIndex
    <2>1. q = m
      BY <1>2 DEF Sends
    <2>2. /\ prev \in 0..MaxLog /\ m.term = currentTerm[i]
          /\ Len(m.entries) = 0 \/ prev + Len(m.entries) = Len(log[i])
          /\ \A r \in 1..Len(m.entries) : m.entries[r] = log[i][prev + r]
      BY <1>2, RequestIs DEF Sends
    <2> HIDE DEF prev
    <2>3. Len(log[i]) \in Nat /\ prev \in Nat
      BY <2>2, RaftAssumption DEF RaftInv, LogsOK
    <2>4. prev + k \in 1..Len(log[i]) /\ q.entries[k] = log[i][prev + k]
      BY <1>2, <2>1, <2>2, <2>3
    <2>5. QED BY <2>1, <2>2, <2>4 DEF LogsAreKnown
  <1>3. QED
    BY <1>1, <1>2, RequestsMove DEF RequestsAreKnown, RaftInv

\* A position said to be of a leader's term is within the leader's log.
LEMMA NextLeadersReachFarthest ==
    ASSUME RaftInv, LogsOK', ReachedTermsAreWon, LeadersReachFarthest, [NextOrProbe]_raftVars
    PROVE  LeadersReachFarthest'
  <1>1. ASSUME NEW i \in Node, role'[i] = "Leader", NEW x \in Segments', NEW r \in 1..MaxLog,
               Reaches(x, r), TermIn(x, r) = currentTerm'[i]
        PROVE  r <= Len(log'[i])
    <2>1. /\ currentTerm'[i] = currentTerm[i]
          /\ role[i] # "Leader" => \A e \in elected : e.term # currentTerm[i]
      BY <1>1, ElectionsGoOn
    <2>2. /\ Len(log'[i]) >= Len(log[i]) /\ Len(log[i]) \in Nat /\ Len(log'[i]) \in Nat
          /\ r \in Nat
      BY <1>1, LeadersLogsGrow, RaftAssumption DEF RaftInv, LogsOK
    <2>3. ASSUME NEW s \in Segments, Reaches(s, r), TermIn(s, r) = TermIn(x, r)
          PROVE  r <= Len(log'[i])
      <3>1. \E e \in elected : e.term = currentTerm[i]
        BY <1>1, <2>1, <2>3 DEF ReachedTermsAreWon
      <3>2. role[i] = "Leader"
        BY <2>1, <3>1
      <3>3. r <= Len(log[i])
        BY <1>1, <2>1, <2>3, <3>2 DEF LeadersReachFarthest
      <3>4. QED BY <2>2, <3>3
    <2>4. ASSUME NEW n \in Node, NEW cmd \in Command \cup {Noop}, Proposes(n, cmd),
                 r = Len(log[n]) + 1, TermIn(x, r) = currentTerm[n]
          PROVE  r <= Len(log'[i])
      <3>1. role[n] = "Leader" /\ role[i] = "Leader" /\ currentTerm[n] = currentTerm[i]
        BY <1>1, <2>1, <2>4 DEF Proposes
      <3>2. n = i
        BY <3>1, LeadersAreOne
      <3>3. Len(log'[n]) = Len(log[n]) + 1
        BY <2>4, ProposedLog
      <3>4. QED BY <2>2, <2>4, <3>2, <3>3
    <2>5. QED
      BY <1>1, <2>3, <2>4, ReachesMove
  <1>2. QED BY <1>1 DEF LeadersReachFarthest

\* What a leader sends is in its log, and stays there.
LEMMA NextRequestsAreCut ==
    ASSUME RaftInv, LogsOK', RequestsAreCut, [NextOrProbe]_raftVars
    PROVE  RequestsAreCut'
  <1>1. ASSUME NEW i \in Node, role'[i] = "Leader", NEW q \in requests',
               q.term = currentTerm'[i], NEW r \in 1..MaxLog, Reaches(RequestSegment(q), r)
        PROVE  r <= Len(log'[i]) /\ TermIn(RequestSegment(q), r) = log'[i][r].term
    <2>1. /\ currentTerm'[i] = currentTerm[i]
          /\ role[i] # "Leader" => \A e \in elected : e.term # currentTerm[i]
      BY <1>1, ElectionsGoOn
    <2>2. /\ Len(log'[i]) >= Len(log[i]) /\ Len(log[i]) \in Nat /\ Len(log'[i]) \in Nat
          /\ \A k \in 1..Len(log[i]) : log'[i][k] = log[i][k]
          /\ r \in Nat /\ r >= 1
      BY <1>1, LeadersLogsGrow, RaftAssumption DEF RaftInv, LogsOK
    <2>3. ASSUME role[i] = "Leader",
                 r <= Len(log[i]) /\ TermIn(RequestSegment(q), r) = log[i][r].term
          PROVE  r <= Len(log'[i]) /\ TermIn(RequestSegment(q), r) = log'[i][r].term
      <3>1. r \in 1..Len(log[i])
        BY <2>2, <2>3
      <3>2. QED BY <2>2, <2>3, <3>1
    <2>4. ASSUME NEW m \in requests, q = m \/ Resent(q, m)
          PROVE  r <= Len(log'[i]) /\ TermIn(RequestSegment(q), r) = log'[i][r].term
      <3>1. RequestSegment(q) = RequestSegment(m) /\ m.term = currentTerm[i]
        BY <1>1, <2>1, <2>4 DEF Resent, RequestSegment
      <3>2. role[i] = "Leader"
        BY <2>1, <3>1 DEF RaftInv, RequestsNameWinners
      <3>3. r <= Len(log[i]) /\ TermIn(RequestSegment(m), r) = log[i][r].term
        BY <1>1, <3>1, <3>2 DEF RequestsAreCut
      <3>4. QED BY <2>3, <3>1, <3>2, <3>3
    <2>5. ASSUME NEW n \in Node, NEW p \in Peers(n), NEW m \in Sendable(n, p), Sends(n, m),
                 q \notin requests
          PROVE  r <= Len(log'[i]) /\ TermIn(RequestSegment(q), r) = log'[i][r].term
      <3>1. q = m
        BY <2>5 DEF Sends
      <3>2. role[n] = "Leader" /\ q.term = currentTerm[n]
        BY <2>5, <3>1, RequestIs DEF Sends
      <3>3. role[i] = "Leader" /\ n = i
        BY <1>1, <2>1, <3>2, ElectionFacts, LeadersAreOne
      <3>4. r \in 1..Len(log[n]) /\ TermIn(RequestSegment(q), r) = log[n][r].term
        BY <1>1, <2>2, <2>5, <3>1, SentReaches
      <3>5. QED BY <2>2, <2>3, <3>3, <3>4
    <2>6. QED BY <2>4, <2>5, RequestsMove DEF RaftInv
  <1>2. QED BY <1>1 DEF RequestsAreCut

\* A candidate's log is as it was when it asked.
LEMMA NextCallsAreCurrent ==
    ASSUME RaftInv, RaftInv', CallsAreCurrent, [NextOrProbe]_raftVars,
           \A i \in Node : currentTerm'[i] >= currentTerm[i]
    PROVE  CallsAreCurrent'
  <1>1. /\ EP!TypeOK /\ EP!TypeOK' /\ [EP!Next]_(EP!electionVars)
        /\ \A i \in Node : currentTerm[i] \in Nat /\ currentTerm'[i] \in Nat
    BY NextIsProvenStep, ElectionFacts, RaftAssumption
       DEF RaftInv, EP!LeaderInv, EP!IndInv, EP!TypeOK, EP!Terms
  <1>2. ASSUME NEW c \in voteCalls'
        PROVE  /\ c.term <= currentTerm'[c.from]
               /\ role'[c.from] = "Candidate" /\ c.term = currentTerm'[c.from]
                    => c.last = LastOf(log'[c.from])
    <2>1. c.from \in Node /\ c.term \in Nat
      BY <1>1, RaftAssumption DEF EP!TypeOK, EP!VoteCalls, EP!Terms
    <2>2. role'[c.from] = "Candidate" => log'[c.from] = log[c.from]
      BY <2>1, CandidatesLogsRest
    <2>3. CASE \E d \in voteCalls : c.from = d.from /\ c.term = d.term /\ c.last = d.last
      <3>1. /\ c.term <= currentTerm[c.from]
            /\ role[c.from] = "Candidate" /\ c.term = currentTerm[c.from]
                 => c.last = LastOf(log[c.from])
        BY <2>3 DEF CallsAreCurrent
      <3>2. c.term <= currentTerm'[c.from]
        BY <1>1, <2>1, <3>1
      <3>3. ASSUME role'[c.from] = "Candidate", c.term = currentTerm'[c.from]
            PROVE  role[c.from] = "Candidate" /\ currentTerm'[c.from] = currentTerm[c.from]
        <4>1. EP!RolesMove
          BY <1>1, ElectionAssumptionsHold, EP!NextRolesMove
        <4>2. EP!Stays(c.from) \/ EP!Stands(c.from)
          BY <2>1, <3>3, <4>1 DEF EP!RolesMove, EP!Leads
        <4>3. CASE EP!Stays(c.from)
          BY <3>3, <4>3 DEF EP!Stays
        <4>4. CASE EP!Stands(c.from)
          BY <1>1, <2>1, <3>1, <3>3, <4>4 DEF EP!Stands
        <4>5. QED BY <4>2, <4>3, <4>4
      <3>4. QED BY <2>2, <3>1, <3>2, <3>3
    <2>4. ASSUME NEW i \in Node, c.from = i, c.term = currentTerm'[i], c.last = LastOf(log[i])
          PROVE  /\ c.term <= currentTerm'[c.from]
                 /\ role'[c.from] = "Candidate" => c.last = LastOf(log'[c.from])
      BY <1>1, <2>2, <2>4
    <2>5. \/ \E d \in voteCalls : c.from = d.from /\ c.term = d.term /\ c.last = d.last
          \/ \E i \in Node : /\ c.from = i /\ c.term = currentTerm'[i]
                             /\ c.last = LastOf(log[i])
      <3>1. \/ \E d \in voteCalls : c.from = d.from /\ c.term = d.term /\ c.last = d.last
            \/ \E i \in Node : /\ c.from = i /\ c.term = currentTerm'[i]
                               /\ c.last = [n \in Node |-> LastOf(log[n])][i]
        BY <1>1, ElectionAssumptionsHold, EP!CallsMove
      <3>2. \A i \in Node : [n \in Node |-> LastOf(log[n])][i] = LastOf(log[i])
        OBVIOUS
      <3>3. QED BY <3>1, <3>2
    <2>6. QED BY <2>3, <2>4, <2>5
  <1>3. QED BY <1>2 DEF CallsAreCurrent

\* Nothing is known in the initial state.
LEMMA InitTermInv == Init => TermInv
  <1> SUFFICES ASSUME Init PROVE TermInv
    OBVIOUS
  <1>1. MatchingInv
    BY InitMatchingInv
  <1>2. CallsAreCurrent
    BY DEF Init, E!Init, CallsAreCurrent
  <1>3. /\ requests = {} /\ \A i \in Node : log[i] = <<>>
        /\ \A s \in Segments : s = LogSegment(<<>>)
    BY DEF Init, Segments
  <1>4. ASSUME NEW r \in 1..MaxLog PROVE ~Reaches(LogSegment(<<>>), r)
    BY DEF Reaches, LogSegment
  <1>5. ReachedTermsAreWon /\ LeadersReachFarthest
    BY <1>3, <1>4 DEF ReachedTermsAreWon, LeadersReachFarthest
  <1>6. LogsAreKnown /\ RequestsAreKnown /\ RequestsAreCut
    BY <1>3 DEF LogsAreKnown, RequestsAreKnown, RequestsAreCut
  <1>7. QED BY <1>1, <1>2, <1>5, <1>6 DEF TermInv

\* Every step keeps the invariant.
LEMMA NextTermInv ==
    ASSUME TermsAreKept, TermInv, [NextOrProbe]_raftVars
    PROVE  TermInv'
  <1>1. MatchingInv' /\ RaftInv /\ RaftInv' /\ LogsOK'
    <2>1. MatchingInv'
      BY NextMatchingInv DEF TermInv
    <2>2. QED BY <2>1 DEF TermInv, MatchingInv, RaftInv
  <1>2. \A i \in Node : currentTerm'[i] >= currentTerm[i]
    BY DEF TermsAreKept
  <1>3. elected \subseteq elected'
    BY <1>1, ElectionsGoOn
  <1>4. currentTerm' \in [Node -> 0..MaxTerm]
    BY <1>1 DEF RaftInv, EP!LeaderInv, EP!IndInv, EP!TypeOK, EP!Terms
  <1>5. ReachedTermsAreWon' /\ LogsAreKnown' /\ RequestsAreKnown'
    BY <1>1, <1>2, <1>3, <1>4, NextReachedTermsAreWon, NextLogsAreKnown, NextRequestsAreKnown
       DEF TermInv
  <1>6. LeadersReachFarthest' /\ RequestsAreCut' /\ CallsAreCurrent'
    BY <1>1, <1>2, NextLeadersReachFarthest, NextRequestsAreCut, NextCallsAreCurrent
       DEF TermInv
  <1>7. QED BY <1>1, <1>2, <1>5, <1>6 DEF TermInv

-----------------------------------------------------------------------------
(* Prefixes *)

Holds(pre, l) == Len(pre) <= Len(l) /\ \A r \in 1..Len(pre) : l[r] = pre[r]

Final(pre) == pre[Len(pre)].term

\* What segment s says is the prefix, or follows it.
Consistent(s, pre) ==
    \A r \in 1..MaxLog : Reaches(s, r) =>
       /\ r <= Len(pre) => TermIn(s, r) = pre[r].term
       /\ r >= Len(pre) => TermIn(s, r) >= Final(pre)

\* logUpToDateLocked would not put segment s behind the prefix.
Beyond(s, pre) ==
    \E r \in 1..MaxLog : /\ Reaches(s, r)
                         /\ \/ TermIn(s, r) > Final(pre)
                            \/ TermIn(s, r) = Final(pre) /\ r >= Len(pre)

\* The last entry of the prefix is of the latest term in it.
Ending(pre) ==
    /\ pre \in Seq(Entries) /\ pre # <<>>
    /\ \E e \in elected : e.term = Final(pre)
    /\ \A r \in 1..Len(pre) : pre[r].term <= Final(pre)

HeldBy(pre, A) ==
    /\ A # {}
    /\ \A v \in A : currentTerm[v] >= Final(pre) /\ Holds(pre, log[v])

LeadersHold(pre) ==
    \A i \in Node : role[i] = "Leader" /\ currentTerm[i] >= Final(pre) => Holds(pre, log[i])

RequestsFit(pre) ==
    \A m \in requests : m.term >= Final(pre) => Consistent(RequestSegment(m), pre)

\* A candidate one of the nodes has voted for has the prefix, too.
CandidatesHold(pre, A) ==
    \A c \in Node : role[c] = "Candidate" /\ currentTerm[c] > Final(pre) =>
       \A v \in A : EP!Counted(v, currentTerm[c], c) => Holds(pre, log[c])

SegmentsFit(pre) == \A s \in Segments : Beyond(s, pre) => Consistent(s, pre)

\* The nodes in A have the prefix, and nobody who could overwrite it lacks it.
Secure(pre, A) ==
    /\ Ending(pre)
    /\ HeldBy(pre, A)
    /\ LeadersHold(pre)
    /\ RequestsFit(pre)
    /\ CandidatesHold(pre, A)
    /\ SegmentsFit(pre)

\* Enough nodes are in A, or can still come to be in A in term u, to make a
\* majority.
Choosable(A, u) ==
    \E Q \in SUBSET Node : IsMajority(Q) /\ \A v \in Q : v \in A \/ currentTerm[v] <= u

-----------------------------------------------------------------------------
(* What a state says *)

\* The types of a prefix.
LEMMA EndingFacts ==
    ASSUME RaftInv, NEW pre, Ending(pre)
    PROVE  /\ pre \in Seq(Entries) /\ Len(pre) \in Nat /\ Len(pre) >= 1
           /\ Final(pre) \in Nat /\ Final(pre) \in 1..MaxTerm
           /\ \A r \in 1..Len(pre) : /\ pre[r] \in Entries /\ pre[r].term \in Nat
                                     /\ pre[r].term >= 1 /\ pre[r].term <= Final(pre)
  <1>1. pre \in Seq(Entries) /\ Len(pre) \in Nat /\ Len(pre) >= 1
    BY DEF Ending
  <1>2. \A r \in 1..Len(pre) : pre[r] \in Entries
    BY <1>1
  <1>3. \A r \in 1..Len(pre) : pre[r].term \in 1..MaxTerm
    BY <1>2 DEF Entries
  <1>4. Len(pre) \in 1..Len(pre)
    BY <1>1
  <1>5. Final(pre) \in 1..MaxTerm
    BY <1>3, <1>4 DEF Final
  <1>6. QED
    BY <1>1, <1>2, <1>3, <1>5, RaftAssumption DEF Ending

\* The types of what a segment reaches.
LEMMA ReachFacts ==
    ASSUME RaftInv, ReachedTermsAreWon, NEW s \in Segments
    PROVE  /\ s.prev \in Nat /\ Len(s.entries) \in Nat
           /\ \A r \in 1..MaxLog : Reaches(s, r) =>
                 TermIn(s, r) \in 1..MaxTerm /\ TermIn(s, r) \in Nat
  <1>1. IsSegment(s)
    BY SegmentsAre
  <1>2. s.prev \in Nat /\ Len(s.entries) \in Nat
    BY <1>1, RaftAssumption DEF IsSegment
  <1>3. ASSUME NEW r \in 1..MaxLog, Reaches(s, r)
        PROVE  TermIn(s, r) \in 1..MaxTerm /\ TermIn(s, r) \in Nat
    <2>1. PICK e \in elected : e.term = TermIn(s, r)
      BY <1>3 DEF ReachedTermsAreWon
    <2>2. QED BY <2>1, ElectionFacts, RaftAssumption
  <1>4. QED BY <1>2, <1>3

\* The types of a log, and what it reaches.
LEMMA LogFacts ==
    ASSUME RaftInv, NEW n \in Node
    PROVE  /\ log[n] \in Seq(Entries) /\ Len(log[n]) \in Nat /\ Len(log[n]) <= MaxLog
           /\ MaxLog \in Nat /\ LogSegment(log[n]) \in Segments
           /\ \A r \in 1..Len(log[n]) : /\ r \in 1..MaxLog /\ log[n][r] \in Entries
                                        /\ log[n][r].term \in Nat /\ log[n][r].term >= 1
                                        /\ Reaches(LogSegment(log[n]), r)
                                        /\ TermIn(LogSegment(log[n]), r) = log[n][r].term
           /\ \A r \in 1..MaxLog : Reaches(LogSegment(log[n]), r) => r \in 1..Len(log[n])
  <1>1. /\ log[n] \in Seq(Entries) /\ Len(log[n]) \in Nat /\ Len(log[n]) <= MaxLog
        /\ MaxLog \in Nat /\ LogSegment(log[n]) \in Segments
    BY RaftAssumption DEF RaftInv, LogsOK, Segments
  <1>2. ASSUME NEW r \in 1..Len(log[n])
        PROVE  /\ r \in 1..MaxLog /\ log[n][r] \in Entries
               /\ log[n][r].term \in Nat /\ log[n][r].term >= 1
    <2>1. log[n][r] \in Entries /\ r \in 1..MaxLog
      BY <1>1
    <2>2. log[n][r].term \in 1..MaxTerm
      BY <2>1 DEF Entries
    <2>3. QED BY <2>1, <2>2, RaftAssumption
  <1>3. ASSUME NEW r \in 1..Len(log[n])
        PROVE  /\ Reaches(LogSegment(log[n]), r)
               /\ TermIn(LogSegment(log[n]), r) = log[n][r].term
    <2>1. r \in Nat
      BY <1>1
    <2>2. QED BY <2>1, LogReaches
  <1>4. ASSUME NEW r \in 1..MaxLog, Reaches(LogSegment(log[n]), r)
        PROVE  r \in 1..Len(log[n])
    BY <1>1, <1>4, LogReaches
  <1>5. QED BY <1>1, <1>2, <1>3, <1>4

\* Logs with an entry of the same term are the same up to there.
LEMMA LogsAgree ==
    ASSUME MatchingInv, NEW i \in Node, NEW j \in Node,
           NEW k \in 1..Len(log[i]), k <= Len(log[j]), log[i][k].term = log[j][k].term
    PROVE  \A r \in 1..k : log[i][r] = log[j][r]
  <1>1. LogMatching
    BY AgreementImpliesMatching
  <1>2. /\ log[i] \in Seq(Entries) /\ log[j] \in Seq(Entries)
        /\ Len(log[i]) \in Nat /\ Len(log[j]) \in Nat
    BY DEF MatchingInv, RaftInv, LogsOK
  <1>3. k \in DOMAIN log[i] \cap DOMAIN log[j]
    BY <1>2
  <1>4. SubSeq(log[i], 1, k) = SubSeq(log[j], 1, k)
    BY <1>1, <1>3 DEF LogMatching
  <1>5. ASSUME NEW r \in 1..k
        PROVE  SubSeq(log[i], 1, k)[r] = log[i][r] /\ SubSeq(log[j], 1, k)[r] = log[j][r]
    BY <1>2
  <1>6. QED BY <1>4, <1>5

\* A log with the prefix is not behind it.
LEMMA HoldersAreBeyond ==
    ASSUME RaftInv, NEW pre, Ending(pre), NEW n \in Node, Holds(pre, log[n])
    PROVE  Beyond(LogSegment(log[n]), pre)
  <1> DEFINE k == Len(pre)
             s == LogSegment(log[n])
  <1>1. k \in Nat /\ k >= 1 /\ Len(log[n]) \in Nat /\ k <= Len(log[n])
    BY EndingFacts, LogFacts DEF Holds
  <1>2. k \in 1..Len(log[n]) /\ k \in 1..Len(pre)
    BY <1>1
  <1>3. log[n][k].term = Final(pre)
    BY <1>2 DEF Holds, Final
  <1>4. k \in 1..MaxLog /\ Reaches(s, k) /\ TermIn(s, k) = log[n][k].term
    BY <1>2, LogFacts
  <1> HIDE DEF s
  <1>5. QED BY <1>1, <1>3, <1>4 DEF Beyond, s

\* A segment that is not behind the prefix reaches its end, or farther.
LEMMA BeyondReaches ==
    ASSUME RaftInv, ReachedTermsAreWon, NEW pre, Ending(pre), NEW s \in Segments,
           NEW r \in 1..MaxLog, Reaches(s, r), Consistent(s, pre),
           \/ TermIn(s, r) > Final(pre)
           \/ TermIn(s, r) = Final(pre) /\ r >= Len(pre)
    PROVE  r >= Len(pre)
  <1>1. r \in Nat /\ r >= 1 /\ TermIn(s, r) \in Nat
    BY ReachFacts, RaftAssumption
  <1>2. ASSUME r < Len(pre) PROVE FALSE
    <2>1. r \in 1..Len(pre) /\ r <= Len(pre)
      BY <1>1, <1>2, EndingFacts
    <2>2. TermIn(s, r) = pre[r].term
      BY <2>1 DEF Consistent
    <2>3. QED BY <1>1, <1>2, <2>1, <2>2, EndingFacts
  <1>3. QED BY <1>1, <1>2, EndingFacts

\* A log that is not behind the prefix has it.
LEMMA BeyondHolds ==
    ASSUME MatchingInv, ReachedTermsAreWon, NEW pre, NEW A \in SUBSET Node, Secure(pre, A),
           NEW n \in Node, Beyond(LogSegment(log[n]), pre)
    PROVE  Holds(pre, log[n])
  <1> DEFINE s == LogSegment(log[n])
             k == Len(pre)
  <1>1. RaftInv /\ Ending(pre) /\ s \in Segments /\ Consistent(s, pre)
    BY LogFacts DEF Secure, SegmentsFit, MatchingInv
  <1>2. PICK v \in Node : Holds(pre, log[v])
    BY DEF Secure, HeldBy
  <1>3. PICK r \in 1..MaxLog : /\ Reaches(s, r)
                               /\ \/ TermIn(s, r) > Final(pre)
                                  \/ TermIn(s, r) = Final(pre) /\ r >= Len(pre)
    BY DEF Beyond
  <1>4. r >= k
    BY <1>1, <1>3, BeyondReaches
  <1>5. k \in Nat /\ k >= 1 /\ k \in 1..Len(pre)
    BY <1>1, EndingFacts
  <1>6. r \in 1..Len(log[n]) /\ Len(log[n]) \in Nat /\ Len(log[v]) \in Nat
    BY <1>1, <1>3, LogFacts
  <1>7. k \in 1..Len(log[n]) /\ k <= Len(log[v]) /\ k <= Len(log[n])
    BY <1>2, <1>4, <1>5, <1>6 DEF Holds
  <1>8. k \in 1..MaxLog /\ Reaches(s, k) /\ TermIn(s, k) = log[n][k].term
    BY <1>1, <1>7, LogFacts
  <1>9. TermIn(s, k) = pre[k].term
    BY <1>1, <1>5, <1>8 DEF Consistent
  <1>10. log[v][k].term = pre[k].term
    BY <1>2, <1>5 DEF Holds
  <1>11. \A q \in 1..k : log[n][q] = log[v][q]
    BY <1>7, <1>8, <1>9, <1>10, LogsAgree
  <1>12. QED
    BY <1>2, <1>7, <1>11 DEF Holds

\* What the log of a node that has the prefix says follows the prefix.
LEMMA HoldersAreConsistent ==
    ASSUME RaftInv, NEW pre, NEW A, Secure(pre, A), NEW n \in Node, Holds(pre, log[n])
    PROVE  Consistent(LogSegment(log[n]), pre)
  BY HoldersAreBeyond, LogFacts DEF Secure, SegmentsFit

\* A segment is consistent if all it says, another one says.
LEMMA ConsistentPart ==
    ASSUME NEW s, NEW q, NEW pre, Consistent(s, pre),
           \A r \in 1..MaxLog : Reaches(q, r) => Reaches(s, r) /\ TermIn(q, r) = TermIn(s, r)
    PROVE  Consistent(q, pre)
  BY DEF Consistent

-----------------------------------------------------------------------------
(* Nobody who has the prefix loses it *)

\* What request m says of the positions of the prefix.
Confirms(m, pre) ==
    \A r \in 1..MaxLog : Reaches(RequestSegment(m), r) /\ r <= Len(pre)
       => TermIn(RequestSegment(m), r) = pre[r].term

\* A handler cuts the log only where the request says otherwise.
LEMMA StoreKeeps ==
    ASSUME RaftInv, NEW m \in requests, NEW j \in 0..Len(m.entries), Stores(m, j),
           NEW pre, Len(pre) \in Nat, Holds(pre, log[m.to]), Confirms(m, pre)
    PROVE  Holds(pre, log'[m.to])
  <1> DEFINE k == SkipCount(log[m.to], m.prevIndex, m.entries)
             c == m.prevIndex + k
  <1>1. /\ m.to \in Node /\ m.prevIndex \in 0..Len(log[m.to])
        /\ c \in m.prevIndex..Len(log[m.to]) /\ j \in k..Len(m.entries) /\ k \in Nat
        /\ c < Len(log[m.to]) => log[m.to][c + 1].term # m.entries[k + 1].term
        /\ k + 1 \in 1..Len(m.entries)
        /\ Len(log'[m.to]) = m.prevIndex + j
        /\ \A r \in 1..c : log'[m.to][r] = log[m.to][r]
    BY StoredLog DEF RaftInv
  <1> HIDE DEF k
  <1>2. /\ m.prevIndex \in Nat /\ m.entries \in Seq(Entries) /\ Len(m.entries) \in Nat
        /\ j \in Nat /\ Len(log[m.to]) \in Nat /\ c \in Nat
        /\ m.prevIndex + Len(m.entries) <= MaxLog /\ MaxLog \in Nat
    <2>1. /\ m \in RequestType /\ m.prevIndex + Len(m.entries) <= MaxLog
          /\ Len(log[m.to]) \in Nat /\ MaxLog \in Nat
      BY <1>1, LogFacts, RaftAssumption DEF RaftInv, RequestsOK
    <2>2. m.prevIndex \in 0..MaxLog /\ m.entries \in Seq(Entries)
      BY <2>1 DEF RequestType
    <2>3. m.prevIndex \in Nat /\ Len(m.entries) \in Nat
      BY <2>1, <2>2
    <2>4. j \in Nat /\ c \in Nat
      BY <1>1, <2>3
    <2>5. QED BY <2>1, <2>2, <2>3, <2>4
  <1>3. ASSUME c < Len(pre) PROVE FALSE
    <2>1. c + 1 \in 1..Len(pre) /\ c + 1 <= Len(pre) /\ c < Len(log[m.to])
      BY <1>2, <1>3 DEF Holds
    <2>2. log[m.to][c + 1] = pre[c + 1]
      BY <2>1 DEF Holds
    <2>3. /\ c + 1 \in 1..MaxLog /\ c + 1 # m.prevIndex /\ (c + 1) - m.prevIndex = k + 1
          /\ c + 1 >= m.prevIndex /\ c + 1 <= m.prevIndex + Len(m.entries)
      <3>1. k \in Nat /\ k + 1 <= Len(m.entries)
        BY <1>1
      <3>2. m.prevIndex \in Nat /\ Len(m.entries) \in Nat
            /\ m.prevIndex + Len(m.entries) <= MaxLog /\ MaxLog \in Nat
        BY <1>2
      <3>3. c + 1 \in 1..MaxLog
        BY <3>1, <3>2
      <3>4. c + 1 # m.prevIndex /\ (c + 1) - m.prevIndex = k + 1
        BY <3>1, <3>2
      <3>5. c + 1 >= m.prevIndex /\ c + 1 <= m.prevIndex + Len(m.entries)
        BY <3>1, <3>2
      <3>6. QED BY <3>3, <3>4, <3>5
    <2>4. TermIn(RequestSegment(m), c + 1) = m.entries[k + 1].term
      BY <2>3 DEF TermIn, EntryIn, RequestSegment
    <2>5. m.entries[k + 1].term > 0
      <3>1. m.entries[k + 1] \in Entries
        BY <1>1, <1>2
      <3>2. m.entries[k + 1].term \in 1..MaxTerm
        BY <3>1 DEF Entries
      <3>3. QED BY <3>2, RaftAssumption
    <2>6. Reaches(RequestSegment(m), c + 1)
      BY <2>3, <2>4, <2>5 DEF Reaches, RequestSegment
    <2>7. QED BY <1>1, <2>1, <2>2, <2>3, <2>4, <2>6 DEF Confirms
  <1>4. Len(pre) <= c /\ Len(pre) <= Len(log'[m.to])
    BY <1>1, <1>2, <1>3
  <1>5. ASSUME NEW r \in 1..Len(pre) PROVE log'[m.to][r] = pre[r]
    <2>1. r \in 1..c
      BY <1>2, <1>4
    <2>2. QED BY <1>1, <2>1 DEF Holds
  <1>6. QED BY <1>4, <1>5 DEF Holds

\* A log loses the prefix only to a request that says otherwise.
LEMMA HoldersKeep ==
    ASSUME RaftInv, [NextOrProbe]_raftVars, NEW v \in Node,
           NEW pre, Len(pre) \in Nat, Holds(pre, log[v]),
           \A m \in requests :
              m.to = v /\ m.term >= currentTerm[v] /\ m.term = currentTerm'[v]
                 => Confirms(m, pre)
    PROVE  Holds(pre, log'[v])
  <1>1. CASE log'[v] = log[v]
    BY <1>1
  <1>2. ASSUME NEW i \in Node, NEW cmd \in Command \cup {Noop}, Proposes(i, cmd)
        PROVE  Holds(pre, log'[v])
    <2>1. /\ Len(log'[i]) = Len(log[i]) + 1
          /\ \A r \in 1..Len(log[i]) : log'[i][r] = log[i][r]
          /\ \A n \in Node : n # i => log'[n] = log[n]
      BY <1>2, ProposedLog
    <2>2. CASE v = i
      <3>1. Len(log[v]) \in Nat /\ Len(pre) <= Len(log[v])
        BY LogFacts DEF Holds
      <3>2. \A r \in 1..Len(pre) : r \in 1..Len(log[v])
        BY <3>1
      <3>3. QED BY <2>1, <2>2, <3>1, <3>2 DEF Holds
    <2>3. QED BY <1>1, <2>1, <2>2
  <1>3. ASSUME NEW m \in requests, NEW j \in 0..Len(m.entries), Stores(m, j)
        PROVE  Holds(pre, log'[v])
    <2>1. m.to \in Node /\ currentTerm'[m.to] = m.term /\ m.term >= currentTerm[m.to]
      BY <1>3, StoresInTerm
    <2>2. \A n \in Node : n # m.to => log'[n] = log[n]
      BY <1>3, StoredLog DEF RaftInv
    <2>3. CASE v = m.to
      BY <1>3, <2>1, <2>3, StoreKeeps
    <2>4. QED BY <1>1, <2>2, <2>3
  <1>4. QED BY <1>1, <1>2, <1>3, LogsMove DEF RaftInv

\* Who agrees with a prefix confirms it.
LEMMA ConsistentConfirms ==
    ASSUME NEW m, NEW pre, Consistent(RequestSegment(m), pre) PROVE Confirms(m, pre)
  BY DEF Consistent, Confirms

\* A leader that stays or comes into office keeps what it has.
LEMMA LeadersKeep ==
    ASSUME RaftInv, [NextOrProbe]_raftVars, NEW i \in Node, role'[i] = "Leader",
           NEW pre, Len(pre) \in Nat, Holds(pre, log[i])
    PROVE  Holds(pre, log'[i])
  <1>1. /\ Len(log'[i]) >= Len(log[i])
        /\ \A r \in 1..Len(log[i]) : log'[i][r] = log[i][r]
    BY LeadersLogsGrow
  <1>2. Len(log[i]) \in Nat /\ Len(pre) <= Len(log[i])
    BY LogFacts DEF Holds
  <1>3. Len(log'[i]) >= Len(pre)
    <2>1. CASE Len(log'[i]) \in Nat
      BY <1>1, <1>2, <2>1
    <2>2. LogsOK'
      BY NextLogsOK
    <2>3. QED BY <2>1, <2>2 DEF LogsOK
  <1>4. \A r \in 1..Len(pre) : r \in 1..Len(log[i])
    BY <1>2
  <1>5. QED BY <1>1, <1>3, <1>4 DEF Holds

-----------------------------------------------------------------------------
(* A secure prefix stays secure *)

\* Whoever has it keeps it.
LEMMA NextHeldBy ==
    ASSUME RaftInv, NEW pre, NEW A \in SUBSET Node, Secure(pre, A), [NextOrProbe]_raftVars,
           currentTerm' \in [Node -> 0..MaxTerm],
           \A i \in Node : currentTerm'[i] >= currentTerm[i]
    PROVE  HeldBy(pre, A)'
  <1>1. /\ Ending(pre) /\ HeldBy(pre, A) /\ RequestsFit(pre)
        /\ Len(pre) \in Nat /\ Final(pre) \in Nat
    BY EndingFacts DEF Secure
  <1>2. ASSUME NEW v \in A
        PROVE  currentTerm'[v] >= Final(pre) /\ Holds(pre, log'[v])
    <2>1. /\ v \in Node /\ currentTerm[v] \in Nat /\ currentTerm'[v] \in Nat
          /\ currentTerm[v] >= Final(pre) /\ Holds(pre, log[v])
      BY <1>1, ElectionFacts, RaftAssumption DEF HeldBy
    <2>2. currentTerm'[v] >= Final(pre)
      BY <1>1, <2>1
    <2>3. ASSUME NEW m \in requests, m.to = v /\ m.term >= currentTerm[v]
          PROVE  Confirms(m, pre)
      <3>1. m.term \in Nat
        BY RaftAssumption DEF RaftInv, RequestsOK, RequestType
      <3>2. m.term >= Final(pre)
        BY <1>1, <2>1, <2>3, <3>1
      <3>3. QED BY <1>1, <3>2, ConsistentConfirms DEF RequestsFit
    <2>4. Holds(pre, log'[v])
      <3>1. \A m \in requests :
               m.to = v /\ m.term >= currentTerm[v] /\ m.term = currentTerm'[v]
                 => Confirms(m, pre)
        BY <2>3
      <3>2. Len(pre) \in Nat /\ v \in Node /\ Holds(pre, log[v])
        BY <1>1, <2>1
      <3>3. QED BY <3>1, <3>2, HoldersKeep
    <2>5. QED BY <2>2, <2>4
  <1>3. QED BY <1>1, <1>2 DEF HeldBy, Holds, Final

\* Votes counted are votes cast, in the terms their voters are in now.
LEMMA CountedVotesBind ==
    ASSUME RaftInv, NEW v \in Node, NEW c \in Node, NEW t \in 0..MaxTerm, EP!Counted(v, t, c)
    PROVE  currentTerm[v] >= t
  <1>1. EP!Bound(v, t, c)
    BY DEF RaftInv, EP!LeaderInv, EP!IndInv, EP!VotesBind, EP!Terms
  <1>2. currentTerm[v] \in Nat /\ t \in Nat
    BY ElectionFacts, RaftAssumption
  <1>3. QED BY <1>1, <1>2 DEF EP!Bound

\* Majorities are majorities.
LEMMA ProvenMajority == ASSUME NEW S PROVE IsMajority(S) <=> EP!IsMajority(S)
  BY DEF EP!IsMajority, IsMajority, EP!Majority, Majority, EP!ClusterSize, ClusterSize,
         EP!Cardinality, Cardinality

\* Two majorities share a node.
LEMMA MajoritiesMeet ==
    ASSUME NEW P \in SUBSET Node, NEW Q \in SUBSET Node, EP!IsMajority(P), IsMajority(Q)
    PROVE  \E v \in Node : v \in P /\ v \in Q
  BY ElectionAssumptionsHold, ProvenMajority, EP!QuorumsIntersect

\* Who wins an election has it, because one of the voters has.
LEMMA NextLeadersHold ==
    ASSUME RaftInv, RaftInv', NEW pre, NEW A \in SUBSET Node, Secure(pre, A),
           Choosable(A, Final(pre)), [NextOrProbe]_raftVars
    PROVE  LeadersHold(pre)'
  <1>1. /\ Ending(pre) /\ LeadersHold(pre) /\ CandidatesHold(pre, A)
        /\ Len(pre) \in Nat /\ Final(pre) \in Nat /\ LogsOK'
    BY EndingFacts DEF Secure, RaftInv
  <1>2. ASSUME NEW i \in Node, role'[i] = "Leader", currentTerm'[i] >= Final(pre)
        PROVE  Holds(pre, log[i])
    <2>1. /\ currentTerm'[i] = currentTerm[i]
          /\ role[i] # "Leader" => \A e \in elected : e.term # currentTerm[i]
      BY <1>1, <1>2, ElectionsGoOn
    <2>2. CASE role[i] = "Leader"
      BY <1>1, <1>2, <2>1, <2>2 DEF LeadersHold
    <2>3. CASE role[i] # "Leader"
      <3>1. EP!TypeOK /\ [EP!Next]_(EP!electionVars)
        BY <1>1, NextIsProvenStep DEF RaftInv, EP!LeaderInv, EP!IndInv
      <3>2. /\ role[i] = "Candidate"
            /\ \E P \in SUBSET Node :
                  EP!IsMajority(P) /\ \A v \in P : EP!Counted(v, currentTerm[i], i)
        BY <1>2, <2>3, <3>1, ElectionAssumptionsHold, EP!WinnersHaveVotes
      <3>3. PICK P \in SUBSET Node :
                EP!IsMajority(P) /\ \A v \in P : EP!Counted(v, currentTerm[i], i)
        BY <3>2
      <3>4. PICK Q \in SUBSET Node :
                IsMajority(Q) /\ \A v \in Q : v \in A \/ currentTerm[v] <= Final(pre)
        BY DEF Choosable
      <3>5. PICK v \in Node : v \in P /\ v \in Q
        BY <3>3, <3>4, MajoritiesMeet
      <3>6. currentTerm[i] # Final(pre)
        BY <1>1, <2>1, <2>3 DEF Ending
      <3>7. currentTerm[i] \in Nat /\ currentTerm[i] \in 0..MaxTerm /\ currentTerm[v] \in Nat
        BY ElectionFacts, RaftAssumption
      <3>8. currentTerm[i] > Final(pre)
        BY <1>1, <1>2, <2>1, <3>6, <3>7
      <3>9. currentTerm[v] >= currentTerm[i]
        BY <3>3, <3>5, <3>7, CountedVotesBind
      <3>10. v \in A
        BY <1>1, <3>4, <3>5, <3>7, <3>8, <3>9
      <3>11. QED BY <1>1, <3>2, <3>3, <3>5, <3>8, <3>10 DEF CandidatesHold
    <2>4. QED BY <2>2, <2>3
  <1>3. ASSUME NEW i \in Node, role'[i] = "Leader", currentTerm'[i] >= Final(pre)
        PROVE  Holds(pre, log'[i])
    BY <1>1, <1>2, <1>3, LeadersKeep
  <1>4. QED BY <1>3 DEF LeadersHold, Holds, Final

\* Who has it sends it.
LEMMA NextRequestsFit ==
    ASSUME RaftInv, NEW pre, NEW A \in SUBSET Node, Secure(pre, A), [NextOrProbe]_raftVars
    PROVE  RequestsFit(pre)'
  <1>1. ASSUME NEW q \in requests', NEW m \in requests, q = m \/ Resent(q, m),
               q.term >= Final(pre)
        PROVE  Consistent(RequestSegment(q), pre)
    <2>1. RequestSegment(q) = RequestSegment(m) /\ q.term = m.term
      BY <1>1 DEF Resent, RequestSegment
    <2>2. QED BY <1>1, <2>1 DEF Secure, RequestsFit
  <1>2. ASSUME NEW q \in requests', q \notin requests, q.term >= Final(pre),
               NEW i \in Node, NEW p \in Peers(i), NEW m \in Sendable(i, p), Sends(i, m)
        PROVE  Consistent(RequestSegment(q), pre)
    <2>1. q = m
      BY <1>2 DEF Sends
    <2>2. role[i] = "Leader" /\ q.term = currentTerm[i]
      BY <1>2, <2>1, RequestIs DEF Sends
    <2>3. Holds(pre, log[i])
      BY <1>2, <2>2 DEF Secure, LeadersHold
    <2>4. Consistent(LogSegment(log[i]), pre)
      BY <2>3, HoldersAreConsistent
    <2>5. ASSUME NEW r \in 1..MaxLog, Reaches(RequestSegment(q), r)
          PROVE  /\ Reaches(LogSegment(log[i]), r)
                 /\ TermIn(RequestSegment(q), r) = TermIn(LogSegment(log[i]), r)
      <3>1. r \in Nat
        BY RaftAssumption
      <3>2. r \in 1..Len(log[i]) /\ TermIn(RequestSegment(q), r) = log[i][r].term
        BY <1>2, <2>1, <2>5, <3>1, SentReaches
      <3>3. QED BY <3>1, <3>2, LogReaches
    <2>6. QED BY <2>4, <2>5, ConsistentPart
  <1>3. ASSUME NEW q \in requests', q.term >= Final(pre)
        PROVE  Consistent(RequestSegment(q), pre)
    BY <1>1, <1>2, <1>3, RequestsMove DEF RaftInv
  <1>4. QED BY <1>3 DEF RequestsFit, Consistent, Reaches, TermIn, EntryIn, RequestSegment, Final

\* A log that is as good as one with the prefix has it (logUpToDateLocked).
LEMMA UpToDateHolds ==
    ASSUME MatchingInv, ReachedTermsAreWon, NEW pre, NEW A \in SUBSET Node, Secure(pre, A),
           NEW v \in Node, NEW c \in Node, Holds(pre, log[v]),
           \/ LastTerm(log[c]) > LastTerm(log[v])
           \/ LastTerm(log[c]) = LastTerm(log[v]) /\ Len(log[c]) >= Len(log[v])
    PROVE  Holds(pre, log[c])
  <1> DEFINE n == Len(log[v])
             k == Len(log[c])
             s == LogSegment(log[c])
  <1>1. RaftInv /\ Ending(pre) /\ Consistent(LogSegment(log[v]), pre)
    BY HoldersAreConsistent DEF Secure, MatchingInv
  <1>2. Len(pre) \in Nat /\ Len(pre) >= 1 /\ Len(pre) <= n /\ n \in Nat /\ k \in Nat
        /\ Final(pre) \in Nat /\ Final(pre) >= 1
    BY <1>1, EndingFacts, LogFacts DEF Holds
  <1>3. n \in 1..Len(log[v])
    BY <1>2
  <1>4. LastTerm(log[v]) = log[v][n].term /\ log[v][n].term \in Nat
    BY <1>1, <1>3, LogFacts DEF LastTerm, TermAt
  <1>5. log[v][n].term >= Final(pre)
    <2>1. n \in 1..MaxLog /\ Reaches(LogSegment(log[v]), n)
          /\ TermIn(LogSegment(log[v]), n) = log[v][n].term
      BY <1>1, <1>3, LogFacts
    <2>2. QED BY <1>1, <1>2, <2>1 DEF Consistent
  <1>6. k \in 1..Len(log[c])
    <2>1. CASE k = 0
      <3>1. LastTerm(log[c]) = 0
        BY <1>1, <2>1, LogFacts DEF LastTerm, TermAt
      <3>2. QED BY <1>2, <1>4, <1>5, <3>1
    <2>2. QED BY <1>2, <2>1
  <1>7. LastTerm(log[c]) = log[c][k].term /\ log[c][k].term \in Nat
    BY <1>1, <1>6, LogFacts DEF LastTerm, TermAt
  <1>8. k \in 1..MaxLog /\ Reaches(s, k) /\ TermIn(s, k) = log[c][k].term
    BY <1>1, <1>6, LogFacts
  <1>9. \/ TermIn(s, k) > Final(pre)
        \/ TermIn(s, k) = Final(pre) /\ k >= Len(pre)
    BY <1>2, <1>4, <1>5, <1>7, <1>8
  <1>10. Beyond(s, pre)
    BY <1>8, <1>9 DEF Beyond
  <1>11. QED BY <1>10, BeyondHolds

\* A candidate gets the votes of nodes that have it only if it has it, too.
LEMMA NextCandidatesHold ==
    ASSUME TermInv, TermInv', NEW pre, NEW A \in SUBSET Node, Secure(pre, A),
           [NextOrProbe]_raftVars
    PROVE  CandidatesHold(pre, A)'
  <1>1. /\ RaftInv /\ RaftInv' /\ LogsOK' /\ MatchingInv /\ ReachedTermsAreWon
        /\ CallsAreCurrent /\ Len(pre) \in Nat
        /\ HeldBy(pre, A) /\ CandidatesHold(pre, A)
    BY EndingFacts DEF TermInv, MatchingInv, RaftInv, Secure
  <1>2. EP!LeaderInv /\ EP!TypeOK /\ EP!TypeOK' /\ [EP!Next]_(EP!electionVars)
    BY <1>1, NextIsProvenStep DEF RaftInv, EP!LeaderInv, EP!IndInv
  <1>3. EP!RolesMove
    BY <1>2, ElectionAssumptionsHold, EP!NextRolesMove
  <1>4. ASSUME NEW c \in Node, NEW v \in A, NEW t, role'[c] = "Candidate", t = currentTerm'[c],
               t > Final(pre), EP!Counted(v, t, c)'
        PROVE  Holds(pre, log[c])
    <2>1. /\ v \in Node /\ t \in 0..MaxTerm /\ t \in Nat /\ t \in EP!Terms
          /\ currentTerm[c] \in Nat
      BY <1>1, <1>4, ElectionFacts, RaftAssumption
         DEF RaftInv, EP!LeaderInv, EP!IndInv, EP!TypeOK, EP!Terms
    <2>2. EP!Stays(c) \/ EP!Stands(c)
      BY <1>3, <1>4 DEF EP!RolesMove, EP!Leads
    <2>3. t > currentTerm[c] \/ (t = currentTerm[c] /\ role[c] = "Candidate")
      BY <1>4, <2>1, <2>2 DEF EP!Stays, EP!Stands
    <2>5. EP!Counted(v, t, c) \/ EP!Fresh(v, t, c)
      BY <1>2, <1>4, <2>1, ElectionAssumptionsHold, EP!NextVotes
    <2>6. CASE EP!Counted(v, t, c)
      <3>1. \A d \in voteCalls : d.term <= currentTerm[d.from]
        BY <1>1 DEF CallsAreCurrent
      <3>2. t <= currentTerm[c]
        BY <1>2, <2>1, <2>6, <3>1, ElectionAssumptionsHold, EP!CountedTermsArePast
      <3>3. t = currentTerm[c] /\ role[c] = "Candidate"
        BY <2>1, <2>3, <3>2
      <3>4. QED BY <1>1, <1>4, <2>6, <3>3 DEF CandidatesHold
    <2>7. CASE EP!Fresh(v, t, c)
      <3>1. CASE v = c
        BY <1>1, <3>1 DEF HeldBy
      <3>2. CASE v # c
        <4>1. PICK m \in voteCalls : /\ m.from = c /\ m.to = v /\ m.term = t
                                     /\ EP!LogUpToDate(v, m.last)
          BY <2>7, <3>2 DEF EP!Fresh
        <4>2. m.term <= currentTerm[c]
          BY <1>1, <4>1 DEF CallsAreCurrent
        <4>3. t = currentTerm[c] /\ role[c] = "Candidate"
          BY <2>1, <2>3, <4>1, <4>2
        <4>4. m.last = LastOf(log[c])
          BY <1>1, <4>1, <4>3 DEF CallsAreCurrent
        <4>5. [n \in Node |-> LastOf(log[n])][v] = LastOf(log[v])
          BY <2>1
        <4>6. /\ Holds(pre, log[v])
              /\ \/ LastTerm(log[c]) > LastTerm(log[v])
                 \/ LastTerm(log[c]) = LastTerm(log[v]) /\ Len(log[c]) >= Len(log[v])
          BY <1>1, <4>1, <4>4, <4>5 DEF EP!LogUpToDate, LastOf, LastIndex, HeldBy
        <4>7. QED BY <1>1, <2>1, <4>6, UpToDateHolds
      <3>3. QED BY <3>1, <3>2
    <2>8. QED BY <2>5, <2>6, <2>7
  <1>5. ASSUME NEW c \in Node, NEW v \in A, NEW t, role'[c] = "Candidate", t = currentTerm'[c],
               t > Final(pre), EP!Counted(v, t, c)'
        PROVE  Holds(pre, log'[c])
    BY <1>1, <1>4, <1>5, CandidatesLogsRest
  <1>6. ASSUME NEW c \in Node, NEW v \in A, role'[c] = "Candidate",
               currentTerm'[c] > Final(pre),
               \/ \E r \in voteCalls' : /\ r.from = c /\ r.to = v
                                        /\ r.term = currentTerm'[c] /\ r.granted
               \/ /\ campaign'[c].phase = "counting" /\ campaign'[c].term = currentTerm'[c]
                  /\ v \in campaign'[c].granted
               \/ \E e \in elected' : /\ e.term = currentTerm'[c] /\ e.leader = c
                                      /\ v \in e.voters
        PROVE  Holds(pre, log'[c])
    <2>1. PICK t : t = currentTerm'[c]
      OBVIOUS
    <2>2. EP!Counted(v, t, c)'
      BY <1>6, <2>1 DEF EP!Counted
    <2>3. QED BY <1>5, <1>6, <2>1, <2>2
  <1>7. QED
    BY <1>6 DEF CandidatesHold, Holds, Final, EP!Counted

\* A segment spliced together of two others, at position c: if it is not
\* behind the prefix it says the same, because the two agree at c.
LEMMA SpliceFits ==
    ASSUME MatchingInv, ReachedTermsAreWon,
           NEW pre, NEW A \in SUBSET Node, Secure(pre, A),
           NEW s \in Segments, NEW q \in Segments, NEW x, NEW c \in 0..MaxLog, s.prev = 0,
           \A r \in 1..MaxLog : r <= c /\ Reaches(x, r)
              => Reaches(s, r) /\ TermIn(x, r) = TermIn(s, r),
           \A r \in 1..MaxLog : r > c /\ Reaches(x, r)
              => Reaches(q, r) /\ TermIn(x, r) = TermIn(q, r),
           c >= 1 => Reaches(s, c) /\ Reaches(q, c) /\ TermIn(s, c) = TermIn(q, c),
           Beyond(x, pre)
    PROVE  Consistent(x, pre)
  <1>1. /\ RaftInv /\ Ending(pre) /\ SegmentsFit(pre) /\ SegmentsAgree
        /\ Len(pre) \in Nat /\ Len(pre) >= 1 /\ Final(pre) \in Nat
        /\ c \in Nat /\ MaxLog \in Nat
    BY EndingFacts, RaftAssumption DEF Secure, MatchingInv
  <1>2. PICK r \in 1..MaxLog : /\ Reaches(x, r)
                               /\ \/ TermIn(x, r) > Final(pre)
                                  \/ TermIn(x, r) = Final(pre) /\ r >= Len(pre)
    BY DEF Beyond
  \* What follows position c is said by q, and what q says is consistent.
  <1>3. Consistent(q, pre)
    <2>1. CASE r > c
      BY <1>1, <1>2, <2>1 DEF Beyond, SegmentsFit
    <2>2. CASE r <= c
      <3>1. /\ Reaches(s, r) /\ TermIn(x, r) = TermIn(s, r)
            /\ c \in 1..MaxLog /\ r \in Nat
        BY <1>1, <1>2, <2>2
      <3>2. Consistent(s, pre)
        BY <1>1, <1>2, <3>1 DEF Beyond, SegmentsFit
      <3>3. r >= Len(pre)
        BY <1>1, <1>2, <3>1, <3>2, BeyondReaches
      <3>4. c >= Len(pre) /\ Reaches(q, c) /\ TermIn(q, c) >= Final(pre)
        BY <1>1, <2>2, <3>1, <3>2, <3>3 DEF Consistent
      <3>5. TermIn(q, c) \in Nat
        BY <1>1, <3>1, <3>4, ReachFacts
      <3>6. Beyond(q, pre)
        BY <1>1, <3>1, <3>4, <3>5 DEF Beyond
      <3>7. QED BY <1>1, <3>6 DEF SegmentsFit
    <2>3. QED BY <1>1, <1>2, <2>1, <2>2
  \* What is said up to position c is said by s.
  <1>4. ASSUME NEW p \in 1..MaxLog, p <= c, Reaches(x, p)
        PROVE  /\ p <= Len(pre) => TermIn(x, p) = pre[p].term
               /\ p >= Len(pre) => TermIn(x, p) >= Final(pre)
    <2>1. /\ Reaches(s, p) /\ TermIn(x, p) = TermIn(s, p)
          /\ c \in 1..MaxLog /\ p \in Nat /\ p >= 1
          /\ Reaches(s, c) /\ Reaches(q, c) /\ TermIn(s, c) = TermIn(q, c)
      BY <1>1, <1>4
    <2>2. CASE c >= Len(pre)
      <3>1. TermIn(q, c) >= Final(pre) /\ TermIn(q, c) \in Nat
        BY <1>1, <1>3, <2>1, <2>2, ReachFacts DEF Consistent
      <3>2. Beyond(s, pre)
        BY <1>1, <2>1, <2>2, <3>1 DEF Beyond
      <3>3. Consistent(s, pre)
        BY <1>1, <3>2 DEF SegmentsFit
      <3>4. QED BY <2>1, <3>3 DEF Consistent
    <2>3. CASE c < Len(pre)
      <3>1. PICK v \in Node : Holds(pre, log[v])
        BY DEF Secure, HeldBy
      <3>2. /\ c \in 1..Len(pre) /\ p \in 1..Len(pre) /\ Len(pre) <= Len(log[v])
            /\ Len(log[v]) \in Nat /\ ~(p >= Len(pre))
        BY <1>1, <1>4, <2>1, <2>3, <3>1, LogFacts DEF Holds
      <3>3. c \in 1..Len(log[v]) /\ p \in 1..Len(log[v])
        BY <3>2
      <3>4. TermIn(s, c) = log[v][c].term
        <4>1. TermIn(q, c) = pre[c].term
          BY <1>1, <1>3, <2>1, <3>2 DEF Consistent
        <4>2. QED BY <2>1, <3>1, <3>2, <4>1 DEF Holds
      <3>5. Agree(s, LogSegment(log[v]))
        BY <1>1, LogFacts DEF SegmentsAgree
      <3>6. /\ Covers(s, c) /\ Covers(LogSegment(log[v]), c)
            /\ EntryIn(s, c).term = EntryIn(LogSegment(log[v]), c).term
        <4>1. c > 0 /\ c # 0 /\ c - 0 = c /\ c <= Len(log[v])
          BY <2>1, <3>3
        <4>2. Covers(s, c) /\ Covers(LogSegment(log[v]), c)
          BY <2>1, <4>1 DEF Covers, Reaches, LogSegment
        <4>3. TermIn(s, c) = EntryIn(s, c).term
          BY <4>1 DEF TermIn
        <4>4. EntryIn(LogSegment(log[v]), c) = log[v][c]
          BY <4>1 DEF EntryIn, LogSegment
        <4>5. QED BY <3>4, <4>2, <4>3, <4>4
      <3>7. p \in 0..c /\ p >= s.prev /\ p >= LogSegment(log[v]).prev
        BY <1>4, <2>1 DEF LogSegment
      <3>8. SameAt(s, LogSegment(log[v]), p)
        BY <2>1, <3>5, <3>6, <3>7 DEF Agree
      <3>9. TermIn(LogSegment(log[v]), p) = log[v][p].term
        BY <1>1, <3>3, LogFacts
      <3>10. TermIn(s, p) = log[v][p].term
        BY <3>8, <3>9 DEF SameAt
      <3>11. QED BY <2>1, <3>1, <3>2, <3>10 DEF Holds
    <2>4. QED BY <1>1, <2>2, <2>3
  <1>5. ASSUME NEW p \in 1..MaxLog, p > c, Reaches(x, p)
        PROVE  /\ p <= Len(pre) => TermIn(x, p) = pre[p].term
               /\ p >= Len(pre) => TermIn(x, p) >= Final(pre)
    BY <1>3, <1>5 DEF Consistent
  <1>6. \A p \in 1..MaxLog : p <= c \/ p > c
    BY <1>1
  <1>7. QED BY <1>4, <1>5, <1>6 DEF Consistent

\* What a handler stores is not behind the prefix, or says the same.
LEMMA StoredFits ==
    ASSUME MatchingInv, LogsOK', ReachedTermsAreWon,
           NEW pre, NEW A \in SUBSET Node, Secure(pre, A),
           NEW m \in requests, NEW j \in 0..Len(m.entries), Stores(m, j),
           Beyond(LogSegment(log'[m.to]), pre)
    PROVE  Consistent(LogSegment(log'[m.to]), pre)
  <1> DEFINE s == LogSegment(log[m.to])
             q == RequestSegment(m)
             x == LogSegment(log'[m.to])
  <1>1. PICK c \in Nat :
             /\ m.to \in Node
             /\ s \in Segments /\ q \in Segments /\ IsSegment(x)
             /\ s.prev = 0 /\ x.prev = 0 /\ x.prevTerm = s.prevTerm
             /\ c \in q.prev..Len(s.entries) /\ c <= q.prev + Len(q.entries)
             /\ TermIn(s, c) = TermIn(q, c)
             /\ Len(x.entries) <= q.prev + Len(q.entries) /\ Len(x.entries) >= c
             /\ \A r \in 1..c : x.entries[r] = s.entries[r]
             /\ \A r \in (c + 1)..Len(x.entries) : x.entries[r] = q.entries[r - q.prev]
    BY StoredSegment DEF MatchingInv
  <1>2. s.entries = log[m.to] /\ RaftInv
    BY DEF LogSegment, MatchingInv
  <1>3. Beyond(x, pre)
    OBVIOUS
  <1> HIDE DEF s, q, x
  <1>4. /\ Len(s.entries) \in Nat /\ Len(q.entries) \in Nat /\ q.prev \in Nat
        /\ Len(x.entries) \in Nat /\ MaxLog \in Nat
        /\ Len(s.entries) <= MaxLog /\ c \in 0..MaxLog
    <2>1. /\ Len(s.entries) \in Nat /\ Len(q.entries) \in Nat /\ q.prev \in Nat
      BY <1>1, <1>2, ReachFacts
    <2>2. Len(x.entries) \in Nat /\ MaxLog \in Nat
      BY <1>1, RaftAssumption DEF IsSegment
    <2>3. Len(s.entries) <= MaxLog
      BY <1>1, <1>2, LogFacts
    <2>4. QED BY <1>1, <2>1, <2>2, <2>3
  <1>5. ASSUME NEW r \in 1..MaxLog, Reaches(x, r)
        PROVE  /\ r \in Nat /\ r >= 1 /\ r # 0 /\ r - 0 = r
               /\ r <= Len(x.entries) /\ x.entries[r].term > 0
               /\ TermIn(x, r) = x.entries[r].term
    <2>1. r \in Nat /\ r >= 1 /\ r # 0 /\ r - 0 = r /\ r <= Len(x.entries)
      BY <1>1, <1>4, <1>5 DEF Reaches
    <2>2. TermIn(x, r) = x.entries[r].term
      BY <1>1, <2>1 DEF TermIn, EntryIn
    <2>3. TermIn(x, r) > 0
      BY <1>5 DEF Reaches
    <2>4. QED BY <2>1, <2>2, <2>3
  <1>6. ASSUME NEW r \in 1..MaxLog, r <= c, Reaches(x, r)
        PROVE  Reaches(s, r) /\ TermIn(x, r) = TermIn(s, r)
    <2>1. r \in 1..c /\ r <= Len(s.entries) /\ r >= 0 /\ r <= 0 + Len(s.entries)
      BY <1>1, <1>4, <1>5, <1>6
    <2>2. TermIn(s, r) = x.entries[r].term
      BY <1>1, <1>5, <1>6, <2>1 DEF TermIn, EntryIn
    <2>3. QED BY <1>1, <1>5, <1>6, <2>1, <2>2 DEF Reaches
  <1>7. ASSUME NEW r \in 1..MaxLog, r > c, Reaches(x, r)
        PROVE  Reaches(q, r) /\ TermIn(x, r) = TermIn(q, r)
    <2>1. /\ r \in (c + 1)..Len(x.entries) /\ r # q.prev /\ r >= q.prev
          /\ r <= q.prev + Len(q.entries)
      BY <1>1, <1>4, <1>5, <1>7
    <2>2. TermIn(q, r) = x.entries[r].term
      BY <1>1, <2>1 DEF TermIn, EntryIn
    <2>3. QED BY <1>5, <1>7, <2>1, <2>2 DEF Reaches
  <1>8. ASSUME c >= 1
        PROVE  Reaches(s, c) /\ Reaches(q, c) /\ TermIn(s, c) = TermIn(q, c)
    <2>1. c \in 1..Len(log[m.to]) /\ c \in 1..MaxLog
      BY <1>1, <1>2, <1>4, <1>8
    <2>2. Reaches(s, c)
      BY <1>1, <1>2, <2>1, LogFacts DEF s
    <2>3. TermIn(q, c) > 0
      BY <1>1, <2>2 DEF Reaches
    <2>4. c >= q.prev /\ c <= q.prev + Len(q.entries)
      BY <1>1, <1>4
    <2>5. QED BY <1>1, <2>1, <2>2, <2>3, <2>4 DEF Reaches
  <1>9. Consistent(x, pre)
    BY <1>1, <1>3, <1>4, <1>6, <1>7, <1>8, SpliceFits
  <1>10. QED BY <1>9 DEF x

\* What a leader appends: a leader of an earlier term does not get as far.
LEMMA ProposedFits ==
    ASSUME MatchingInv, ReachedTermsAreWon, LogsAreKnown,
           NEW pre, NEW A \in SUBSET Node, Secure(pre, A),
           NEW i \in Node, NEW cmd \in Command \cup {Noop}, Proposes(i, cmd),
           Beyond(LogSegment(log'[i]), pre)
    PROVE  Consistent(LogSegment(log'[i]), pre)
  <1> DEFINE s == LogSegment(log[i])
             x == LogSegment(log'[i])
             n == Len(log[i]) + 1
  <1>1. /\ RaftInv /\ Ending(pre) /\ LeadersHold(pre)
        /\ Len(pre) \in Nat /\ Len(pre) >= 1 /\ Final(pre) \in Nat
    BY EndingFacts DEF Secure, MatchingInv
  <1>2. /\ role[i] = "Leader"
        /\ Len(log'[i]) = n /\ Len(log[i]) \in Nat
        /\ \A r \in 1..Len(log[i]) : log'[i][r] = log[i][r]
        /\ log'[i][n].term = currentTerm[i]
        /\ currentTerm[i] \in Nat
    <2>1. /\ role[i] = "Leader" /\ Len(log'[i]) = Len(log[i]) + 1
          /\ \A r \in 1..Len(log[i]) : log'[i][r] = log[i][r]
          /\ log'[i][Len(log[i]) + 1] = [term |-> currentTerm[i], cmd |-> cmd]
      BY <1>1, ProposedLog
    <2>2. Len(log[i]) \in Nat /\ currentTerm[i] \in Nat
      BY <1>1, LogFacts, ElectionFacts, RaftAssumption
    <2>3. log'[i][n].term = currentTerm[i]
      BY <2>1
    <2>4. QED BY <2>1, <2>2, <2>3
  <1>3. ASSUME NEW r \in 1..MaxLog, Reaches(x, r)
        PROVE  \/ /\ r \in 1..Len(log[i]) /\ Reaches(s, r) /\ TermIn(x, r) = TermIn(s, r)
                  /\ TermIn(s, r) = log[i][r].term
               \/ r = n /\ TermIn(x, r) = currentTerm[i]
    <2>1. r \in 1..n /\ r # 0 /\ r - 0 = r
      BY <1>2, <1>3, RaftAssumption DEF Reaches, LogSegment
    <2>2. TermIn(x, r) = log'[i][r].term
      BY <2>1 DEF TermIn, EntryIn, LogSegment
    <2>3. CASE r = n
      BY <1>2, <2>2, <2>3
    <2>4. CASE r # n
      <3>1. r \in 1..Len(log[i])
        BY <1>2, <2>1, <2>4
      <3>2. Reaches(s, r) /\ TermIn(s, r) = log[i][r].term
        BY <1>1, <3>1, LogFacts
      <3>3. QED BY <1>2, <2>2, <3>1, <3>2
    <2>5. QED BY <2>3, <2>4
  <1>4. CASE currentTerm[i] >= Final(pre)
    <2>1. Holds(pre, log[i]) /\ Consistent(s, pre)
      BY <1>1, <1>2, <1>4, HoldersAreConsistent DEF LeadersHold
    <2>2. Len(pre) < n
      BY <1>1, <1>2, <2>1 DEF Holds
    <2>3. ASSUME NEW r \in 1..MaxLog, Reaches(x, r)
          PROVE  /\ r <= Len(pre) => TermIn(x, r) = pre[r].term
                 /\ r >= Len(pre) => TermIn(x, r) >= Final(pre)
      <3>1. CASE Reaches(s, r) /\ TermIn(x, r) = TermIn(s, r)
        BY <2>1, <3>1 DEF Consistent
      <3>2. CASE r = n /\ TermIn(x, r) = currentTerm[i]
        BY <1>1, <1>2, <1>4, <2>2, <3>2
      <3>3. QED BY <1>3, <2>3, <3>1, <3>2
    <2>4. QED BY <2>3 DEF Consistent
  <1>5. CASE currentTerm[i] < Final(pre)
    <2>1. PICK r \in 1..MaxLog : Reaches(x, r) /\ (TermIn(x, r) > Final(pre)
                                                  \/ TermIn(x, r) = Final(pre))
      BY DEF Beyond
    <2>2. CASE r = n /\ TermIn(x, r) = currentTerm[i]
      BY <1>1, <1>2, <1>5, <2>1, <2>2
    <2>3. CASE r \in 1..Len(log[i]) /\ TermIn(x, r) = log[i][r].term
      <3>1. log[i][r].term <= currentTerm[i] /\ log[i][r].term \in Nat
        BY <1>1, <2>3, LogFacts DEF LogsAreKnown
      <3>2. QED BY <1>1, <1>2, <1>5, <2>1, <2>3, <3>1
    <2>4. QED BY <1>3, <2>1, <2>2, <2>3
  <1>6. QED BY <1>1, <1>2, <1>4, <1>5

\* What a leader sends is part of its log.
LEMMA SentFits ==
    ASSUME RaftInv, NEW pre, NEW A \in SUBSET Node, Secure(pre, A),
           NEW i \in Node, NEW p \in Peers(i), NEW m \in Sendable(i, p), Sends(i, m),
           Beyond(RequestSegment(m), pre)
    PROVE  Consistent(RequestSegment(m), pre)
  <1> DEFINE s == LogSegment(log[i])
             x == RequestSegment(m)
  <1>1. ASSUME NEW r \in 1..MaxLog, Reaches(x, r)
        PROVE  Reaches(s, r) /\ TermIn(x, r) = TermIn(s, r)
    <2>1. r \in Nat
      BY RaftAssumption
    <2>2. r \in 1..Len(log[i]) /\ TermIn(x, r) = log[i][r].term
      BY <1>1, <2>1, SentReaches
    <2>3. QED BY <2>1, <2>2, LogReaches
  <1>2. s \in Segments /\ Beyond(x, pre)
    BY LogFacts
  <1> HIDE DEF s, x
  <1>3. Beyond(s, pre)
    BY <1>1, <1>2 DEF Beyond
  <1>4. Consistent(s, pre)
    BY <1>2, <1>3 DEF Secure, SegmentsFit
  <1>5. Consistent(x, pre)
    BY <1>1, <1>4, ConsistentPart
  <1>6. QED BY <1>5 DEF x

\* Nothing that is not behind the prefix says anything else.
LEMMA NextSegmentsFit ==
    ASSUME TermInv, LogsOK', NEW pre, NEW A \in SUBSET Node, Secure(pre, A),
           [NextOrProbe]_raftVars
    PROVE  SegmentsFit(pre)'
  <1>1. MatchingInv /\ RaftInv /\ ReachedTermsAreWon /\ LogsAreKnown /\ SegmentsFit(pre)
    BY DEF TermInv, MatchingInv, Secure
  <1>2. ASSUME NEW x \in Segments', Beyond(x, pre) PROVE Consistent(x, pre)
    <2>1. CASE x \in Segments
      BY <1>1, <1>2, <2>1 DEF SegmentsFit
    <2>2. ASSUME NEW i \in Node, NEW cmd \in Command \cup {Noop}, Proposes(i, cmd),
                 x = LogSegment(log'[i])
          PROVE  Consistent(x, pre)
      BY <1>1, <1>2, <2>2, ProposedFits
    <2>3. ASSUME NEW m \in requests, NEW j \in 0..Len(m.entries), Stores(m, j),
                 x = LogSegment(log'[m.to])
          PROVE  Consistent(x, pre)
      BY <1>1, <1>2, <2>3, StoredFits
    <2>4. ASSUME NEW i \in Node, NEW p \in Peers(i), NEW m \in Sendable(i, p), Sends(i, m),
                 x = RequestSegment(m)
          PROVE  Consistent(x, pre)
      BY <1>1, <1>2, <2>4, SentFits
    <2>5. QED BY <1>1, <2>1, <2>2, <2>3, <2>4, SegmentsMove
  <1>3. QED BY <1>2 DEF SegmentsFit

\* A prefix that is secure stays secure.
LEMMA SecureStays ==
    ASSUME TermsAreKept, TermInv, [NextOrProbe]_raftVars,
           NEW pre, NEW A \in SUBSET Node, Secure(pre, A), Choosable(A, Final(pre))
    PROVE  Secure(pre, A)'
  <1>1. /\ TermInv' /\ \A i \in Node : currentTerm'[i] >= currentTerm[i]
    BY NextTermInv DEF TermsAreKept
  <1>2. RaftInv /\ RaftInv' /\ LogsOK' /\ Ending(pre)
    BY <1>1 DEF TermInv, MatchingInv, RaftInv, Secure
  <1>3. elected \subseteq elected'
    BY <1>2, ElectionsGoOn
  <1>4. currentTerm' \in [Node -> 0..MaxTerm]
    BY <1>2 DEF RaftInv, EP!LeaderInv, EP!IndInv, EP!TypeOK, EP!Terms
  <1>5. Ending(pre)'
    BY <1>2, <1>3 DEF Ending, Final
  <1>6. HeldBy(pre, A)' /\ LeadersHold(pre)' /\ RequestsFit(pre)'
    BY <1>1, <1>2, <1>4, NextHeldBy, NextLeadersHold, NextRequestsFit
  <1>7. CandidatesHold(pre, A)' /\ SegmentsFit(pre)'
    BY <1>1, <1>2, NextCandidatesHold, NextSegmentsFit
  <1>8. QED BY <1>5, <1>6, <1>7 DEF Secure

-----------------------------------------------------------------------------
(* How a prefix becomes secure, and more secure *)

\* Nodes that have the prefix may be added while they are in its term; any may
\* be left out.
LEMMA SecureGrows ==
    ASSUME RaftInv, NEW pre, NEW A \in SUBSET Node, NEW B \in SUBSET Node,
           Secure(pre, A), B # {},
           \A v \in B : v \in A \/ (currentTerm[v] = Final(pre) /\ Holds(pre, log[v]))
    PROVE  Secure(pre, B)
  <1>1. Ending(pre) /\ HeldBy(pre, A) /\ CandidatesHold(pre, A) /\ Final(pre) \in Nat
    BY EndingFacts DEF Secure
  <1>2. HeldBy(pre, B)
    BY <1>1 DEF HeldBy
  <1>3. ASSUME NEW c \in Node, role[c] = "Candidate", currentTerm[c] > Final(pre),
               NEW v \in B, EP!Counted(v, currentTerm[c], c)
        PROVE  Holds(pre, log[c])
    <2>1. /\ currentTerm[c] \in 0..MaxTerm /\ currentTerm[c] \in Nat
          /\ currentTerm[v] \in Nat /\ v \in Node
      BY ElectionFacts, RaftAssumption
    <2>2. currentTerm[v] >= currentTerm[c]
      BY <1>3, <2>1, CountedVotesBind
    <2>3. v \in A
      BY <1>1, <1>3, <2>1, <2>2
    <2>4. QED BY <1>1, <1>3, <2>3 DEF CandidatesHold
  <1>4. CandidatesHold(pre, B)
    BY <1>3 DEF CandidatesHold
  <1>5. QED BY <1>2, <1>4 DEF Secure

\* While a majority can still come to be in a leader's term, nobody has won a
\* later one.
LEMMA NoneAbove ==
    ASSUME RaftInv, NEW i \in Node, Choosable({i}, currentTerm[i]), NEW e \in elected
    PROVE  e.term <= currentTerm[i]
  <1>1. /\ e.term \in 0..MaxTerm /\ e.leader \in Node /\ e.voters \in SUBSET Node
        /\ EP!IsMajority(e.voters)
    BY DEF RaftInv, EP!LeaderInv, EP!IndInv, EP!TypeOK, EP!Terms, EP!ElectedByMajority
  <1>2. PICK Q \in SUBSET Node :
           IsMajority(Q) /\ \A v \in Q : v \in {i} \/ currentTerm[v] <= currentTerm[i]
    BY DEF Choosable
  <1>3. PICK v \in Node : v \in e.voters /\ v \in Q
    BY <1>1, <1>2, MajoritiesMeet
  <1>4. EP!Counted(v, e.term, e.leader)
    BY <1>3 DEF EP!Counted
  <1>5. currentTerm[v] >= e.term
    BY <1>1, <1>4, CountedVotesBind
  <1>6. currentTerm[v] \in Nat /\ currentTerm[i] \in Nat /\ e.term \in Nat
    BY <1>1, ElectionFacts, RaftAssumption
  <1>7. currentTerm[v] <= currentTerm[i]
    BY <1>2, <1>3, <1>6
  <1>8. QED BY <1>5, <1>6, <1>7

\* The log of a leader that has just appended an entry, and that a majority can
\* still follow, is secure in the leader alone.
LEMMA NewestIsSecure ==
    ASSUME TermInv, NEW i \in Node, role[i] = "Leader", NEW pre, pre = log[i],
           Len(pre) >= 1, Final(pre) = currentTerm[i], Choosable({i}, currentTerm[i]),
           \A s \in Segments : Reaches(s, Len(pre)) /\ TermIn(s, Len(pre)) = currentTerm[i]
              => s = LogSegment(pre)
    PROVE  Secure(pre, {i})
  <1> DEFINE k == Len(pre)
             u == currentTerm[i]
  <1>1. /\ RaftInv /\ ReachedTermsAreWon /\ LogsAreKnown /\ LeadersReachFarthest
        /\ RequestsAreCut
    BY DEF TermInv, MatchingInv
  <1>2. /\ pre \in Seq(Entries) /\ k \in Nat /\ k >= 1 /\ k \in 1..k /\ pre # <<>>
        /\ u \in Nat /\ k <= MaxLog
    BY <1>1, LogFacts, ElectionFacts, RaftAssumption
  <1>3. \A e \in elected : e.term <= u /\ e.term \in Nat
    BY <1>1, NoneAbove, ElectionFacts, RaftAssumption
  <1>4. Ending(pre)
    <2>1. \E e \in elected : e.term = Final(pre)
      BY <1>1, ElectionFacts
    <2>2. \A r \in 1..Len(pre) : pre[r].term <= Final(pre)
      BY <1>1 DEF LogsAreKnown
    <2>3. QED BY <1>2, <2>1, <2>2 DEF Ending
  <1>5. Holds(pre, log[i])
    BY <1>2 DEF Holds
  <1>6. HeldBy(pre, {i})
    BY <1>2, <1>5 DEF HeldBy
  <1>7. LeadersHold(pre)
    <2>1. ASSUME NEW j \in Node, role[j] = "Leader", currentTerm[j] >= Final(pre)
          PROVE  Holds(pre, log[j])
      <3>1. PICK e \in elected : e.term = currentTerm[j]
        BY <1>1, <2>1, ElectionFacts
      <3>2. currentTerm[j] = currentTerm[i]
        BY <1>2, <1>3, <2>1, <3>1
      <3>3. j = i
        BY <1>1, <2>1, <3>2, LeadersAreOne
      <3>4. QED BY <1>5, <3>3
    <2>2. QED BY <2>1 DEF LeadersHold
  <1>8. RequestsFit(pre)
    <2>1. ASSUME NEW m \in requests, m.term >= Final(pre),
                 NEW r \in 1..MaxLog, Reaches(RequestSegment(m), r)
          PROVE  /\ r <= Len(pre) => TermIn(RequestSegment(m), r) = pre[r].term
                 /\ r >= Len(pre) => TermIn(RequestSegment(m), r) >= Final(pre)
      <3>1. PICK e \in elected : e.term = m.term
        BY <1>1 DEF RaftInv, RequestsNameWinners
      <3>2. m.term = u
        BY <1>2, <1>3, <2>1, <3>1
      <3>3. r <= Len(log[i]) /\ TermIn(RequestSegment(m), r) = log[i][r].term
        BY <1>1, <2>1, <3>2 DEF RequestsAreCut
      <3>4. r >= Len(pre) => r = Len(pre)
        BY <1>2, <3>3, RaftAssumption
      <3>5. QED BY <1>2, <3>3, <3>4 DEF Final
    <2>2. QED BY <2>1 DEF RequestsFit, Consistent
  <1>9. CandidatesHold(pre, {i})
    <2>1. ASSUME NEW c \in Node, currentTerm[c] > Final(pre),
                 EP!Counted(i, currentTerm[c], c)
          PROVE  FALSE
      <3>1. currentTerm[c] \in 0..MaxTerm /\ currentTerm[c] \in Nat
        BY <1>1, ElectionFacts, RaftAssumption
      <3>2. currentTerm[i] >= currentTerm[c]
        BY <1>1, <2>1, <3>1, CountedVotesBind
      <3>3. QED BY <1>2, <2>1, <3>1, <3>2
    <2>2. QED BY <2>1 DEF CandidatesHold
  <1>10. SegmentsFit(pre)
    <2>1. ASSUME NEW s \in Segments, Beyond(s, pre) PROVE Consistent(s, pre)
      <3>1. PICK r \in 1..MaxLog : /\ Reaches(s, r)
                                   /\ \/ TermIn(s, r) > Final(pre)
                                      \/ TermIn(s, r) = Final(pre) /\ r >= Len(pre)
        BY <2>1 DEF Beyond
      <3>2. PICK e \in elected : e.term = TermIn(s, r)
        BY <1>1, <3>1 DEF ReachedTermsAreWon
      <3>3. TermIn(s, r) = u /\ r >= Len(pre)
        BY <1>2, <1>3, <3>1, <3>2
      <3>4. r <= Len(pre)
        BY <1>1, <3>1, <3>3 DEF LeadersReachFarthest
      <3>5. r = Len(pre)
        BY <1>2, <3>3, <3>4, RaftAssumption
      <3>6. s = LogSegment(pre)
        BY <3>1, <3>3, <3>5
      <3>7. ASSUME NEW p \in 1..MaxLog, Reaches(s, p)
            PROVE  /\ p <= Len(pre) => TermIn(s, p) = pre[p].term
                   /\ p >= Len(pre) => TermIn(s, p) >= Final(pre)
        <4>1. p \in 1..Len(pre) /\ TermIn(s, p) = pre[p].term
          BY <1>1, <3>6, <3>7, LogFacts
        <4>2. p >= Len(pre) => p = Len(pre)
          BY <1>2, <4>1
        <4>3. QED BY <1>2, <4>1, <4>2 DEF Final
      <3>8. QED BY <3>7 DEF Consistent
    <2>2. QED BY <2>1 DEF SegmentsFit
  <1>11. QED BY <1>4, <1>6, <1>7, <1>8, <1>9, <1>10 DEF Secure
====
