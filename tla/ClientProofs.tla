----------------------------- MODULE ClientProofs -----------------------------
(***************************************************************************)
(* What clients are promised, in module Clients, for every cluster and     *)
(* every bound: an acknowledged write is on a majority of the nodes and in *)
(* every state machine that has come so far, and a strong read whose       *)
(* leader had settled returns what was acknowledged before.  "Acknowledged" *)
(* is said of answers to the leadership that the write was proposed to     *)
(* (write[c].steady); of other answers nothing of the kind is true.        *)
(*                                                                         *)
(* Writes.  Who has said to have stored a write's entry, in the term it is *)
(* of, is the set Heard.  The log up to the entry is secure in that set,   *)
(* in the sense of module LeaderProofs, while it can still become a        *)
(* majority, wherever the node that proposed it is by now (Prevails): the  *)
(* leader that proposes it makes it so, and whoever joins the set has just *)
(* stored the entry in that term.  When Propose has counted a majority,    *)
(* the entry is safe for good.  Two safe prefixes never deny each other,   *)
(* and the commit index covers the entry, so it is chosen (AckedIsChosen). *)
(*                                                                         *)
(* The read.  When its round begins, take a write that the leader has not  *)
(* committed although it is acknowledged.  If the write's term is the      *)
(* leader's or an earlier one, the leader's log has the entry              *)
(* (LeadersHold) behind one of its own term, so the entry is of that term, *)
(* too, and this leader would have committed it before anybody was told    *)
(* (OwnersHaveCommitted).  So the term is a later one, and a majority is   *)
(* in it or beyond (Outvoted).  A node of that majority accepts no probe   *)
(* of the read's term, so the round that still ends in that term has heard *)
(* from no majority.  A round that has covers everything, and the read     *)
(* waits until that is applied.                                            *)
(*                                                                         *)
(* Like the theorems of module CommitProofs, these assume of the behaviour *)
(* that NobodyIsMisled, except for the types, the elections and the shape  *)
(* of logs; in two terms nobody can be, and nothing is assumed.  No term   *)
(* is forgotten here, because no process dies (ClientsKeepTerms).          *)
(***************************************************************************)
EXTENDS Clients, CommitProofs

-----------------------------------------------------------------------------
(* What is known of calls *)

\* The nodes that serve them.
CallsHaveNodes ==
    /\ \A c \in Command : write[c].phase = "waiting" => write[c].at \in Node
    /\ read.phase \in {"asking", "round", "indexed"} => read.at \in Node /\ read.via \in Node
    /\ read.silent # {} => read.at \in Node /\ read.silent \subseteq Peers(read.at)
    /\ read.term <= topTerm

CallInv == RaftInv /\ ClientTypeOK /\ CallsHaveNodes

-----------------------------------------------------------------------------
(* What is known of a write *)

\* Nodes that have the entry Propose appended for c, or have said so.
Heard(c) ==
    {write[c].at} \cup write[c].acks
      \cup {v \in Node : \E r \in replies :
              /\ r.from = write[c].at /\ r.to = v /\ r.success
              /\ r.term = write[c].term /\ r.upTo >= write[c].index}

\* The prefix pre is a log up to an entry with c, at position n.
EndsWith(pre, c, n) ==
    pre \in Seq(Entries) /\ n >= 1 /\ Len(pre) = n /\ pre[n].cmd = c

\* The entry is secure in the nodes heard from, while they can still become a
\* majority.
Prevails(c) ==
    \E pre \in Seq(Entries) :
       /\ EndsWith(pre, c, write[c].index) /\ Final(pre) = write[c].term
       /\ Choosable(Heard(c), write[c].term) => Secure(pre, Heard(c))

WaitingPrevail ==
    \A c \in Command : write[c].phase = "waiting" /\ write[c].steady =>
       /\ \E e \in elected : e.term = write[c].term /\ e.leader = write[c].at
       /\ Prevails(c)

\* Writes acknowledged by answers to the leadership they were proposed to.
SteadyAcked == {c \in Acked : write[c].steady}

\* An acknowledged write is safe and chosen, at its index.
AckedIsChosen ==
    \A c \in SteadyAcked : \E pre \in Seq(Entries) :
       EndsWith(pre, c, write[c].index) /\ Safe(pre) /\ Holds(pre, chosen)

\* A leader whose term an acknowledged write is of has committed it.
OwnersHaveCommitted ==
    \A c \in SteadyAcked : \A i \in Node :
       role[i] = "Leader" /\ currentTerm[i] = chosen[write[c].index].term
         => commitIndex[i] >= write[c].index

-----------------------------------------------------------------------------
(* What is known of the read *)

\* A majority has gone on to a later term and has not confirmed the leader,
\* nor is it about to.
Outvoted ==
    \E A \in SUBSET Node :
       /\ IsMajority(A)
       /\ \A v \in A : /\ currentTerm[v] > read.term
                       /\ v \notin read.acks
                       /\ \A r \in replies : ~(r.kind = "probe" /\ r.success /\ r.to = v)

\* The read will see the write of c.
Sees(c) == write[c].index <= read.index

ReadIsNew ==
    read.phase \in {"new", "asking"} =>
       read.silent = {} /\ read.acks = {} /\ \A m \in requests \cup replies : m.kind # "probe"

MustIsAcked == read.phase \in {"asking", "round", "indexed"} => read.must \subseteq Acked

RoundIsFair ==
    read.phase = "round" =>
       /\ currentTerm[read.at] >= read.term
       /\ \A m \in requests : m.kind = "probe" => m.term <= currentTerm[read.at]
       /\ read.settled /\ currentTerm[read.at] = read.term
            => \A c \in read.must \cap SteadyAcked : Sees(c) \/ Outvoted

IndexIsFresh ==
    read.phase = "indexed" /\ read.settled =>
       \A c \in read.must \cap SteadyAcked : Sees(c)

MissedIsAcked ==
    /\ read.missed \subseteq Acked
    /\ read.phase # "done" => read.missed = {}

ClientInv ==
    /\ CallInv
    /\ CommitInv
    /\ WaitingPrevail
    /\ AckedIsChosen
    /\ OwnersHaveCommitted
    /\ ReadIsNew
    /\ MustIsAcked
    /\ RoundIsFair
    /\ IndexIsFresh
    /\ MissedIsAcked
    /\ SettledReadIsFresh

allVars == <<raftVars, clientVars>>

-----------------------------------------------------------------------------
(* What a step does *)

\* A call is for a node of the cluster.
LEMMA LeadersAreNodes ==
    ASSUME RaftInv, NEW j \in Node, NEW i \in Leaders(j)
    PROVE  i \in Node
  <1>1. leaderID \in [Node -> Node \cup {None}]
    BY DEF RaftInv, EP!LeaderInv, EP!IndInv, EP!TypeOK
  <1>2. QED BY <1>1 DEF Leaders

\* What clients do to the cluster is a step of module Raft, or a probe.
LEMMA ClientsStep ==
    ASSUME CallInv, [ClientNext]_allVars
    PROVE  \/ [Next]_raftVars
           \/ \E p \in read.silent : Probe(p)
           \/ \E r \in replies : ReceiveProbeReply(r)
           \/ ReadIndexDeposes
  <1>1. ASSUME NEW c \in Command, NEW j \in Node, ProposeOrForward(c, j) PROVE Next
    <2>1. PICK i \in Leaders(j) : Propose(i, c)
      BY <1>1 DEF ProposeOrForward
    <2>2. i \in Node
      BY LeadersAreNodes DEF CallInv
    <2>3. QED BY <2>1, <2>2 DEF Next
  <1>2. ASSUME NEW c \in Command, ProposeReturns(c) PROVE [Next]_raftVars
    <2>1. write[c].at \in Node
      BY <1>2 DEF ProposeReturns, CallInv, CallsHaveNodes
    <2>2. QED BY <1>2, <2>1 DEF ProposeReturns, Next, Background
  <1>3. ASSUME NEW r \in replies, ReceiveAck(r) PROVE Next
    BY <1>3 DEF ReceiveAck, Next
  <1>4. ASSUME Background PROVE Next
    BY <1>4 DEF Next
  <1>5. CASE UNCHANGED raftVars
    BY <1>5
  <1>6. QED
    BY <1>1, <1>2, <1>3, <1>4, <1>5
       DEF ClientNext, ProposeFails, LinearizableRead, RoundBegins, RoundReturns, ReadReturns,
           ReadFails, allVars

\* A probe is one of those module RaftProofs knows of.
LEMMA ProbesAreSent ==
    ASSUME CallInv, NEW p \in read.silent, Probe(p)
    PROVE  LET m == [Request(read.at, p, 0, "probe") EXCEPT !.entries = <<>>]
           IN  /\ read.at \in Node /\ p \in Peers(read.at) /\ m \in Sendable(read.at, p)
               /\ Sends(read.at, m)
  <1>1. read.at \in Node /\ p \in Peers(read.at)
    BY DEF CallInv, CallsHaveNodes, Probe
  <1>2. QED BY <1>1 DEF Probe, Sendable, Sends, Send

\* So all that is proved of the steps of both holds here.
LEMMA ClientsStepIsNextOrProbe ==
    ASSUME CallInv, [ClientNext]_allVars
    PROVE  [NextOrProbe]_raftVars
  <1>1. ASSUME NEW p \in read.silent, Probe(p) PROVE NextOrProbe
    BY <1>1, ProbesAreSent DEF NextOrProbe
  <1>2. ASSUME NEW r \in replies, ReceiveProbeReply(r) PROVE NextOrProbe
    BY <1>2 DEF ReceiveProbeReply, HearsProbe, NextOrProbe
  <1>3. ASSUME ReadIndexDeposes PROVE NextOrProbe
    <2>1. PICK t \in AskedTerms : t > currentTerm[read.at] /\ E!ObserveTerm(read.at, t)
      BY <1>3 DEF ReadIndexDeposes
    <2>2. read.at \in Node /\ read.via \in Node /\ read.term \in Nat /\ read.term <= topTerm
      BY <1>3, RaftAssumption
         DEF ReadIndexDeposes, CallInv, CallsHaveNodes, ClientTypeOK, ReadType
    <2>3. \A i \in Node : currentTerm[i] \in Nat /\ currentTerm[i] <= topTerm
      BY ElectionFacts, RaftAssumption DEF CallInv
    <2>4. t \in Nat /\ t <= topTerm /\ topTerm \in Nat
      BY <2>1, <2>2, <2>3, ElectionFacts, RaftAssumption DEF AskedTerms, CallInv
    <2>5. t \in 1..topTerm
      BY <2>1, <2>2, <2>3, <2>4
    <2>6. Learns(read.at)
      BY <1>3, <2>1, <2>5 DEF Learns, ReadIndexDeposes
    <2>7. QED BY <2>2, <2>6 DEF NextOrProbe
  <1>4. QED BY <1>1, <1>2, <1>3, ClientsStep, NextIsNextOrProbe

\* What becomes of a write.
Asks(c, i) ==
    /\ write[c].phase = "new" /\ Propose(i, c)
    /\ write'[c] = [NewWrite EXCEPT !.phase = "waiting", !.at = i, !.term = currentTerm[i],
                                    !.index = LastIndex(log'[i])]

Hears(c, r) ==
    /\ Acknowledges(r, c)
    /\ \E s \in BOOLEAN : /\ s => StillSteady(r, c)
                          /\ write'[c] = [write[c] EXCEPT !.acks = @ \cup {r.to}, !.steady = s]

Succeeds(c) ==
    /\ ProposeReturns(c) /\ commitIndex'[write[c].at] >= write[c].index
    /\ write'[c] = [NewWrite EXCEPT !.phase = "acked", !.index = write[c].index,
                                    !.steady = write[c].steady]

Fails(c) ==
    /\ write[c].phase \in {"new", "waiting"}
    /\ write'[c] = [NewWrite EXCEPT !.phase = "failed"]

\* That is all.
LEMMA WritesMove ==
    ASSUME CallInv, [ClientNext]_allVars, NEW c \in Command
    PROVE  \/ write'[c] = write[c]
           \/ \E i \in Node : Asks(c, i)
           \/ \E r \in replies : Hears(c, r)
           \/ Succeeds(c)
           \/ Fails(c)
  <1>0. DOMAIN write = Command
    BY DEF CallInv, ClientTypeOK
  <1>1. ASSUME NEW d \in Command, NEW j \in Node, ProposeOrForward(d, j)
        PROVE  write'[c] = write[c] \/ \E i \in Node : Asks(c, i)
    <2>1. PICK i \in Leaders(j) :
             /\ Propose(i, d) /\ write[d].phase = "new"
             /\ write' = [write EXCEPT ![d] =
                   [NewWrite EXCEPT !.phase = "waiting", !.at = i, !.term = currentTerm[i],
                                    !.index = LastIndex(log'[i])]]
      BY <1>1 DEF ProposeOrForward
    <2>2. i \in Node
      BY LeadersAreNodes DEF CallInv
    <2>3. CASE c = d
      BY <1>0, <2>1, <2>2, <2>3 DEF Asks
    <2>4. CASE c # d
      BY <2>1, <2>4
    <2>5. QED BY <2>3, <2>4
  <1>2. ASSUME NEW r \in replies, ReceiveAck(r)
        PROVE  write'[c] = write[c] \/ Hears(c, r)
    <2>1. write[c] \in WriteType
      BY DEF CallInv, ClientTypeOK
    <2>2. StillSteady(r, c) \in BOOLEAN
      BY <2>1 DEF StillSteady, WriteType
    <2>3. PICK s : s = StillSteady(r, c)
      OBVIOUS
    <2>4. s \in BOOLEAN /\ (s => StillSteady(r, c))
      BY <2>2, <2>3, Zenon
    <2>5. CASE Acknowledges(r, c)
      <3>1. write'[c] = [write[c] EXCEPT !.acks = @ \cup {r.to}, !.steady = StillSteady(r, c)]
        BY <1>2, <2>5 DEF ReceiveAck
      <3>2. write'[c] = [write[c] EXCEPT !.acks = @ \cup {r.to}, !.steady = s]
        BY <2>3, <3>1, Zenon
      <3>3. QED BY <2>4, <2>5, <3>2 DEF Hears
    <2>6. CASE ~Acknowledges(r, c)
      BY <1>2, <2>6 DEF ReceiveAck
    <2>7. QED BY <2>5, <2>6
  <1>3. ASSUME NEW d \in Command, ProposeReturns(d)
        PROVE  write'[c] = write[c] \/ Succeeds(c) \/ Fails(c)
    <2>1. CASE c # d
      BY <1>3, <2>1 DEF ProposeReturns
    <2>2. CASE c = d /\ commitIndex'[write[c].at] >= write[c].index
      BY <1>0, <1>3, <2>2 DEF ProposeReturns, Succeeds
    <2>3. CASE c = d /\ ~(commitIndex'[write[c].at] >= write[c].index)
      BY <1>0, <1>3, <2>3 DEF ProposeReturns, Fails
    <2>4. QED BY <2>1, <2>2, <2>3
  <1>4. ASSUME NEW d \in Command, ProposeFails(d) PROVE write'[c] = write[c] \/ Fails(c)
    BY <1>0, <1>4 DEF ProposeFails, Fails
  <1>5. QED
    BY <1>1, <1>2, <1>3, <1>4
       DEF ClientNext, LinearizableRead, ReadIndexDeposes, RoundBegins, Probe,
           ReceiveProbeReply, RoundReturns, ReadReturns, ReadFails, allVars, clientVars

\* What becomes of the read, unless it stays what it was.
LEMMA ReadMoves ==
    ASSUME [ClientNext]_allVars, read' # read
    PROVE  \/ \E j \in Node : LinearizableRead(j)
           \/ ReadIndexDeposes
           \/ RoundBegins
           \/ \E p \in read.silent : Probe(p)
           \/ \E r \in replies : ReceiveProbeReply(r)
           \/ RoundReturns
           \/ ReadReturns
           \/ ReadFails
  BY DEF ClientNext, ProposeOrForward, ProposeReturns, ProposeFails, ReceiveAck, allVars,
         clientVars

-----------------------------------------------------------------------------
(* Types *)

\* Writes stay typed, and at nodes.
LEMMA NextWriteTyped ==
    ASSUME CallInv, RaftInv', [ClientNext]_allVars, NEW c \in Command
    PROVE  /\ write'[c] \in WriteType
           /\ write'[c].phase = "waiting" => write'[c].at \in Node
  <1>1. write[c] \in WriteType /\ (write[c].phase = "waiting" => write[c].at \in Node)
    BY DEF CallInv, ClientTypeOK, CallsHaveNodes
  <1>2. RaftInv /\ currentTerm \in [Node -> 0..MaxTerm]
    BY ElectionFacts DEF CallInv
  <1>3. NewWrite \in WriteType
    BY RaftAssumption DEF NewWrite, WriteType
  <1>4. ASSUME NEW i \in Node, Asks(c, i)
        PROVE  write'[c] \in WriteType /\ write'[c].at \in Node
    <2>1. currentTerm[i] \in 0..MaxTerm
      BY <1>2
    <2>2. LastIndex(log'[i]) \in 0..MaxLog
      BY RaftAssumption DEF RaftInv, LogsOK, LastIndex
    <2>3. QED BY <1>4, <2>1, <2>2 DEF Asks, NewWrite, WriteType
  <1>5. ASSUME NEW r \in replies, Hears(c, r)
        PROVE  write'[c] \in WriteType /\ write'[c].at = write[c].at
                 /\ write'[c].phase = write[c].phase
    <2>1. r.to \in Node
      BY <1>2 DEF RaftInv, RepliesOK, ReplyType
    <2>2. PICK s \in BOOLEAN :
             write'[c] = [write[c] EXCEPT !.acks = @ \cup {r.to}, !.steady = s]
      BY <1>5 DEF Hears
    <2>3. PICK A \in SUBSET Node : A = write[c].acks \cup {r.to}
      BY <1>1, <2>1 DEF WriteType
    <2>4. write'[c] = [write[c] EXCEPT !.acks = A, !.steady = s]
      BY <2>2, <2>3
    <2>5. QED BY <1>1, <2>4 DEF WriteType
  <1>6. CASE Succeeds(c)
    BY <1>1, <1>3, <1>6 DEF Succeeds, NewWrite, WriteType
  <1>7. CASE Fails(c)
    BY <1>1, <1>3, <1>7 DEF Fails, NewWrite, WriteType
  <1>8. QED BY <1>1, <1>4, <1>5, <1>6, <1>7, WritesMove

\* So does the read.
LEMMA NextReadTyped ==
    ASSUME CallInv, topTerm' >= topTerm, topTerm' \in Nat, [ClientNext]_allVars
    PROVE  /\ read' \in ReadType
           /\ read'.phase \in {"asking", "round", "indexed"} =>
                read'.at \in Node /\ read'.via \in Node
           /\ read'.silent # {} => read'.at \in Node /\ read'.silent \subseteq Peers(read'.at)
           /\ read'.term <= topTerm'
  <1>1. /\ read \in ReadType
        /\ read.phase \in {"asking", "round", "indexed"} =>
             read.at \in Node /\ read.via \in Node
        /\ read.silent # {} => read.at \in Node /\ read.silent \subseteq Peers(read.at)
        /\ read.term <= topTerm
    BY DEF CallInv, ClientTypeOK, CallsHaveNodes
  <1>2. /\ RaftInv /\ topTerm \in Nat /\ read.term \in Nat
        /\ \A i \in Node : currentTerm[i] \in 0..MaxTerm /\ currentTerm[i] <= topTerm
    BY <1>1, ElectionFacts, RaftAssumption DEF CallInv, ReadType
  <1>3. read.term <= topTerm' /\ \A i \in Node : currentTerm[i] <= topTerm'
    BY <1>1, <1>2, RaftAssumption
  <1>4. ASSUME NEW j \in Node, LinearizableRead(j)
        PROVE  /\ read' \in ReadType /\ read'.at \in Node /\ read'.via \in Node
               /\ read'.silent = {} /\ read'.term <= topTerm'
    <2>1. PICK i \in Leaders(j) : read' = [NewRead EXCEPT
                !.phase = "asking", !.via = j, !.at = i, !.term = currentTerm[j],
                !.must = Acked]
      BY <1>4 DEF LinearizableRead
    <2>2. i \in Node /\ Acked \subseteq Command
      BY <1>2, LeadersAreNodes DEF Acked
    <2>3. NewRead \in ReadType
      BY RaftAssumption DEF NewRead, ReadType
    <2>4. QED BY <1>2, <1>3, <2>1, <2>2, <2>3 DEF NewRead, ReadType
  <1>5. CASE RoundBegins
    <2>1. PICK i \in Node : i = read.at
      BY <1>1, <1>5 DEF RoundBegins
    <2>2. PICK s \in BOOLEAN : s = (TermAt(log[i], ReadIndex(i)) = currentTerm[i])
      OBVIOUS
    <2>3. read' = [read EXCEPT
              !.phase = "round", !.term = currentTerm[i], !.index = ReadIndex(i),
              !.silent = Peers(i), !.settled = s]
      BY <1>5, <2>1, <2>2 DEF RoundBegins
    <2>4. currentTerm[i] \in 0..MaxTerm /\ ReadIndex(i) \in 0..MaxLog
      BY <1>2 DEF ReadIndex, RaftInv, AppliedOK
    <2>5. Peers(i) \subseteq Node
      BY DEF Peers
    <2>6. read' \in ReadType
      BY <1>1, <2>3, <2>4, <2>5 DEF ReadType
    <2>7. /\ read'.at = i /\ read'.via = read.via /\ read'.silent = Peers(i)
          /\ read'.term = currentTerm[i] /\ read.phase = "asking"
      BY <1>1, <1>5, <2>1, <2>3 DEF ReadType, RoundBegins
    <2>8. QED BY <1>1, <1>3, <2>1, <2>6, <2>7
  <1>6. ASSUME NEW p \in read.silent, Probe(p)
        PROVE  /\ read' \in ReadType /\ read'.at = read.at /\ read'.via = read.via
               /\ read'.phase = read.phase /\ read'.silent \subseteq read.silent
               /\ read'.term = read.term
    BY <1>1, <1>6 DEF Probe, ReadType
  <1>7. ASSUME NEW r \in replies, ReceiveProbeReply(r)
        PROVE  /\ read' \in ReadType /\ read'.at = read.at /\ read'.via = read.via
               /\ read'.phase = read.phase /\ read'.silent = read.silent
               /\ read'.term = read.term
    <2>1. r.to \in Node
      BY <1>2 DEF RaftInv, RepliesOK, ReplyType
    <2>2. QED BY <1>1, <1>7, <2>1 DEF ReceiveProbeReply, ReadType
  <1>8. CASE RoundReturns
    <2>1. PICK s \in BOOLEAN : s = (read.settled /\ currentTerm[read.at] = read.term)
      OBVIOUS
    <2>2. read' = [read EXCEPT !.phase = "indexed", !.acks = {}, !.settled = s]
      BY <1>8, <2>1 DEF RoundReturns
    <2>3. read.phase = "round"
      BY <1>8 DEF RoundReturns
    <2>4. QED BY <1>1, <1>3, <2>2, <2>3 DEF ReadType
  <1>9. CASE ReadReturns
    <2>1. PICK x \in SUBSET Command :
             x = read.must \ {e.cmd : e \in Range(applied[read.via])}
      BY <1>1 DEF ReadType
    <2>2. read' = [read EXCEPT !.phase = "done", !.missed = x]
      BY <1>9, <2>1 DEF ReadReturns
    <2>3. QED BY <1>1, <1>3, <2>2 DEF ReadType
  <1>10. CASE ReadFails \/ ReadIndexDeposes
    <2>1. read' = [read EXCEPT !.phase = "failed"]
      BY <1>10 DEF ReadFails, ReadIndexDeposes
    <2>2. QED BY <1>1, <1>3, <2>1 DEF ReadType
  <1>11. CASE read' = read
    BY <1>1, <1>3, <1>11
  <1>12. QED BY <1>1, <1>3, <1>4, <1>5, <1>6, <1>7, <1>8, <1>9, <1>10, <1>11, ReadMoves

\* The invariant about calls holds at the start.
LEMMA InitCallInv == ClientInit => CallInv
  <1> SUFFICES ASSUME ClientInit PROVE CallInv
    OBVIOUS
  <1>1. RaftInv
    BY InitRaftInv DEF ClientInit
  <1>2. NewWrite \in WriteType /\ NewRead \in ReadType
    BY RaftAssumption DEF NewWrite, WriteType, NewRead, ReadType
  <1>3. ClientTypeOK
    BY <1>2 DEF ClientInit, ClientTypeOK
  <1>4. CallsHaveNodes
    <2>1. topTerm = 0
      BY DEF ClientInit, Init, E!Init
    <2>2. QED BY <2>1 DEF ClientInit, CallsHaveNodes, NewWrite, NewRead
  <1>5. QED BY <1>1, <1>3, <1>4 DEF CallInv

\* Every step keeps it.
LEMMA NextCallInv == CallInv /\ [ClientNext]_allVars => CallInv'
  <1> SUFFICES ASSUME CallInv, [ClientNext]_allVars PROVE CallInv'
    OBVIOUS
  <1>1. RaftInv'
    BY ClientsStepIsNextOrProbe, NextRaftInv DEF CallInv
  <1>2. write \in [Command -> WriteType]
    BY DEF CallInv, ClientTypeOK
  <1>3. \E f : write' = [c \in Command |-> f[c]]
    <2>1. ASSUME NEW c, NEW x, write' = [write EXCEPT ![c] = x]
          PROVE  write' = [d \in Command |-> write'[d]]
      BY <1>2, <2>1
    <2>2. ASSUME NEW c \in Command, NEW j \in Node, ProposeOrForward(c, j)
          PROVE  write' = [d \in Command |-> write'[d]]
      BY <2>1, <2>2 DEF ProposeOrForward
    <2>3. ASSUME NEW c \in Command, ProposeReturns(c) \/ ProposeFails(c)
          PROVE  write' = [d \in Command |-> write'[d]]
      BY <2>1, <2>3 DEF ProposeReturns, ProposeFails
    <2>4. ASSUME NEW r \in replies, ReceiveAck(r)
          PROVE  write' = [d \in Command |-> write'[d]]
      BY <2>4 DEF ReceiveAck
    <2>5. CASE write' = write
      BY <1>2, <2>5
    <2>6. QED
      BY <2>2, <2>3, <2>4, <2>5
         DEF ClientNext, LinearizableRead, ReadIndexDeposes, RoundBegins, Probe,
             ReceiveProbeReply, RoundReturns, ReadReturns, ReadFails, allVars, clientVars
  <1>4. write' \in [Command -> WriteType]
    BY <1>1, <1>3, NextWriteTyped
  <1>5. topTerm' >= topTerm /\ topTerm' \in Nat
    <2>1. LogsOK' /\ EP!LeaderInv'
      BY <1>1 DEF RaftInv
    <2>2. topTerm' >= topTerm
      BY <2>1, ClientsStepIsNextOrProbe, ElectionsGoOn DEF CallInv
    <2>3. topTerm' \in 0..MaxTerm
      BY <2>1 DEF EP!LeaderInv, EP!IndInv, EP!TypeOK, EP!Terms
    <2>4. QED BY <2>2, <2>3, RaftAssumption
  <1>6. ClientTypeOK'
    BY <1>4, <1>5, NextReadTyped DEF ClientTypeOK
  <1>7. CallsHaveNodes'
    BY <1>1, <1>5, NextWriteTyped, NextReadTyped DEF CallsHaveNodes, Peers
  <1>8. QED BY <1>1, <1>6, <1>7 DEF CallInv

\* What is known of writes and of the read has the types of the code's
\* variables (Propose, confirmRound), whatever fails and whatever is late.
THEOREM ClientTypesAreRight == ClientSpec => []ClientTypeOK
  <1>1. CallInv => ClientTypeOK
    BY DEF CallInv
  <1>2. QED
    BY <1>1, InitCallInv, NextCallInv, PTL DEF ClientSpec, allVars

-----------------------------------------------------------------------------
(* What a step leaves alone *)

\* No process dies, so no node comes back in an earlier term.
LEMMA ClientsKeepTerms ==
    ASSUME CallInv, [ClientNext]_allVars
    PROVE  TermsAreKept
  <1>0. currentTerm \in [Node -> 0..MaxTerm] /\ \A i \in Node : currentTerm[i] \in Nat
    BY ElectionFacts, RaftAssumption DEF CallInv
  <1>1. ASSUME NEW i, NEW t, currentTerm' = [currentTerm EXCEPT ![i] = t],
               t >= currentTerm[i]
        PROVE  TermsAreKept
    BY <1>0, <1>1 DEF TermsAreKept
  <1>2. ASSUME currentTerm' = currentTerm PROVE TermsAreKept
    BY <1>0, <1>2 DEF TermsAreKept
  <1>3. ASSUME NEW i \in Node, E!Campaign(i) PROVE TermsAreKept
    <2>1. /\ currentTerm' = [currentTerm EXCEPT ![i] = currentTerm[i] + 1]
          /\ currentTerm[i] + 1 >= currentTerm[i]
      BY <1>0, <1>3 DEF E!Campaign, E!StandForElection
    <2>2. QED BY <1>1, <2>1
  <1>4. ASSUME NEW c \in voteCalls, E!HandleRequestVote(c) PROVE TermsAreKept
    <2>1. c.to \in Node /\ c.term \in Nat
      BY RaftAssumption
         DEF CallInv, RaftInv, EP!LeaderInv, EP!IndInv, EP!TypeOK, EP!VoteCalls, EP!Terms
    <2>2. CASE E!GrantVote(c.to, c)
      BY <1>1, <2>2 DEF E!GrantVote
    <2>3. CASE E!DenyVote(c.to, c)
      <3>1. CASE c.term > currentTerm[c.to]
        <4>1. currentTerm' = [currentTerm EXCEPT ![c.to] = c.term]
          BY <2>3, <3>1 DEF E!DenyVote, E!Newer, E!EnterTerm
        <4>2. c.term >= currentTerm[c.to]
          BY <1>0, <2>1, <3>1
        <4>3. QED BY <1>1, <4>1, <4>2
      <3>2. CASE ~(c.term > currentTerm[c.to])
        BY <1>2, <2>3, <3>2 DEF E!DenyVote, E!Newer, E!memory
      <3>3. QED BY <3>1, <3>2
    <2>4. CASE E!FailVote(c.to, c)
      <3>1. currentTerm' = [currentTerm EXCEPT ![c.to] = c.term] /\ c.term > currentTerm[c.to]
        BY <2>4 DEF E!FailVote, E!Newer, E!EnterTerm
      <3>2. c.term >= currentTerm[c.to]
        BY <1>0, <2>1, <3>1
      <3>3. QED BY <1>1, <3>1, <3>2
    <2>5. QED BY <1>4, <2>2, <2>3, <2>4 DEF E!HandleRequestVote
  <1>5. ASSUME NEW i \in Node, NEW t \in Nat, t > currentTerm[i], E!SetTerm(i, t)
        PROVE  TermsAreKept
    <2>1. currentTerm' = [currentTerm EXCEPT ![i] = t]
      BY <1>5 DEF E!SetTerm, E!EnterTerm
    <2>2. t >= currentTerm[i]
      BY <1>0, <1>5
    <2>3. QED BY <1>1, <2>1, <2>2
  <1>6. ASSUME NEW c \in voteCalls, E!ReceiveVote(c) PROVE TermsAreKept
    <2>1. c.from \in Node /\ c.respTerm \in Nat
      BY RaftAssumption
         DEF CallInv, RaftInv, EP!LeaderInv, EP!IndInv, EP!TypeOK, EP!VoteCalls, EP!Terms
    <2>2. QED BY <1>2, <1>5, <1>6, <2>1 DEF E!ReceiveVote, E!memory
  <1>7. ASSUME NEW i \in Node, NEW t \in Nat, E!ObserveTerm(i, t) PROVE TermsAreKept
    BY <1>5, <1>7 DEF E!ObserveTerm
  <1>8. ASSUME NEW r \in replies, StepDown(r) PROVE TermsAreKept
    <2>1. r.from \in Node /\ r.respTerm \in Nat
      BY RaftAssumption DEF CallInv, RaftInv, RepliesOK, ReplyType
    <2>2. QED BY <1>7, <1>8, <2>1 DEF StepDown
  <1>9. ASSUME NEW m \in requests, HandleAppendEntries(m) PROVE TermsAreKept
    <2>1. CASE E!HeedLeader(m.to, m.term, m.from)
      <3>1. currentTerm' = [currentTerm EXCEPT ![m.to] = m.term] \/ currentTerm' = currentTerm
        BY <2>1 DEF E!HeedLeader, E!EnterTerm
      <3>2. m.term >= currentTerm[m.to]
        BY <2>1 DEF E!HeedLeader
      <3>3. QED BY <1>1, <1>2, <3>1, <3>2
    <2>2. CASE UNCHANGED electionVars
      BY <1>2, <2>2 DEF electionVars
    <2>3. QED
      BY <1>9, <2>1, <2>2
         DEF HandleAppendEntries, RejectStale, RejectGap, Accept, FailAppend, FailStore
  <1>10. CASE Background
    <2>1. CASE ElectionStep
      BY <1>2, <1>3, <1>4, <1>6, <2>1 DEF ElectionStep, E!VoteCallFails, E!memory
    <2>2. ASSUME NEW i \in Node, WinElection(i) \/ ProposeNoop(i) PROVE TermsAreKept
      BY <1>2, <2>2
         DEF WinElection, E!WinElection, E!BecomeLeader, ProposeNoop, E!ReturnFromWin, E!memory
    <2>3. QED
      BY <1>2, <1>9, <1>10, <2>1, <2>2
         DEF Background, AdvanceCommit, Replicate, AppendCallFails, ReplyLost, electionVars
  <1>11. CASE ReadIndexDeposes
    <2>1. PICK t \in AskedTerms : E!ObserveTerm(read.at, t)
      BY <1>11 DEF ReadIndexDeposes
    <2>2. read.at \in Node /\ read.via \in Node /\ read.term \in Nat
      BY <1>11, RaftAssumption
         DEF ReadIndexDeposes, CallInv, CallsHaveNodes, ClientTypeOK, ReadType
    <2>3. QED BY <1>0, <1>7, <2>1, <2>2 DEF AskedTerms
  <1>12. ASSUME NEW c \in Command,
                ProposeReturns(c) \/ \E j \in Node : ProposeOrForward(c, j)
         PROVE  currentTerm' = currentTerm
    BY <1>12
       DEF ProposeOrForward, Propose, ProposeReturns, AdvanceCommit, electionVars, raftVars
  <1>13. ASSUME NEW r \in replies, ReceiveAck(r) \/ ReceiveProbeReply(r) PROVE TermsAreKept
    BY <1>2, <1>8, <1>13 DEF ReceiveAck, ReceiveReply, ReceiveProbeReply, electionVars
  <1>14. QED
    BY <1>2, <1>10, <1>11, <1>12, <1>13
       DEF ClientNext, ProposeFails, LinearizableRead, RoundBegins, Probe, RoundReturns,
           ReadReturns, ReadFails, allVars, raftVars, electionVars

\* What is known of the cluster goes on, probes or not.
LEMMA ClusterGoesOn ==
    ASSUME NobodyMisleads, CallInv, CommitInv, [ClientNext]_allVars
    PROVE  /\ [NextOrProbe]_raftVars /\ TermsAreKept
           /\ TermInv /\ RaftInv /\ RepliesNameWinners /\ AcksAreTrue
           /\ CallInv' /\ CommitInv' /\ TermInv' /\ RaftInv' /\ LogsOK'
           /\ elected \subseteq elected'
           /\ \A i \in Node : /\ currentTerm[i] \in Nat /\ currentTerm'[i] \in Nat
                              /\ currentTerm'[i] >= currentTerm[i]
  <1>1. [NextOrProbe]_raftVars /\ TermsAreKept
    BY ClientsStepIsNextOrProbe, ClientsKeepTerms
  <1>2. CommitInv' /\ CallInv'
    BY <1>1, NextCommitInv, NextCallInv
  <1>3. /\ TermInv /\ RaftInv /\ RepliesNameWinners /\ AcksAreTrue
        /\ TermInv' /\ RaftInv' /\ LogsOK'
    BY <1>2 DEF CommitInv, TermInv, MatchingInv, RaftInv
  <1>4. \A i \in Node : currentTerm'[i] >= currentTerm[i]
    BY <1>1 DEF TermsAreKept
  <1>5. elected \subseteq elected'
    BY <1>1, <1>3, ElectionsGoOn
  <1>6. /\ currentTerm \in [Node -> 0..MaxTerm] /\ currentTerm' \in [Node -> 0..MaxTerm]
    BY <1>3, ElectionFacts DEF RaftInv, EP!LeaderInv, EP!IndInv, EP!TypeOK, EP!Terms
  <1>7. \A i \in Node : currentTerm[i] \in Nat /\ currentTerm'[i] \in Nat
    BY <1>6, RaftAssumption
  <1>8. QED BY <1>1, <1>2, <1>3, <1>4, <1>5, <1>7

\* While a node leads, its commit index does not decrease, whatever a
\* follower's may do: requests depose a leader before rule 4 looks at it.
LEMMA LeadersCommitsStay ==
    ASSUME CommitInv, [NextOrProbe]_raftVars, NEW i \in Node, role[i] = "Leader",
           role'[i] = "Leader"
    PROVE  commitIndex'[i] >= commitIndex[i]
  <1>1. /\ RaftInv /\ commitIndex[i] \in Nat /\ commitIndex \in [Node -> 0..MaxLog]
        /\ role \in [Node -> {"Follower", "Candidate", "Leader"}]
    BY CommitFacts, ElectionFacts DEF CommitInv
  <1>2. CASE commitIndex' = commitIndex
    BY <1>1, <1>2
  <1>3. ASSUME NEW m \in requests, HandleAppendEntries(m)
        PROVE  commitIndex'[i] = commitIndex[i]
    <2>1. CASE Accept(m.to, m)
      <3>1. commitIndex' = [commitIndex EXCEPT ![m.to] = CommitAfter(m.to, m)]
        BY <2>1 DEF Accept
      <3>2. m.to # i
        BY <1>1, <2>1 DEF Accept, E!HeedLeader, E!EnterTerm
      <3>3. QED BY <1>1, <3>1, <3>2
    <2>2. CASE UNCHANGED applyVars
      BY <2>2 DEF applyVars
    <2>3. QED
      BY <1>3, <2>1, <2>2 DEF HandleAppendEntries, RejectStale, RejectGap, FailAppend, FailStore
  <1>4. ASSUME NEW n \in Node, Restart(n) PROVE commitIndex'[i] = commitIndex[i]
    <2>1. n # i
      BY <1>1, <1>4 DEF Restart, E!Restart
    <2>2. QED BY <1>1, <1>4, <2>1 DEF Restart
  <1>5. ASSUME NEW n \in Node, AdvanceCommit(n) PROVE commitIndex'[i] >= commitIndex[i]
    BY <1>5, AdvanceRaisesCommit
  <1>6. QED
    BY <1>1, <1>2, <1>3, <1>4, <1>5
       DEF NextOrProbe, Learns, HearsProbe, Sends, Next, Background, ElectionStep, WinElection,
           Propose, ProposeNoop, Replicate, ReceiveReply, AppendCallFails, ReplyLost,
           applyVars, raftVars

\* A follower that accepts a request is in its term after that.
LEMMA AcceptedInTerm ==
    ASSUME RaftInv, NEW m \in requests, Accept(m.to, m)
    PROVE  /\ m.to \in Node /\ m.term >= currentTerm[m.to] /\ currentTerm'[m.to] = m.term
  <1>1. m.to \in Node /\ currentTerm \in [Node -> 0..MaxTerm]
    BY ElectionFacts DEF RaftInv, RequestsOK, RequestType
  <1>2. m.term >= currentTerm[m.to] /\ currentTerm' = [currentTerm EXCEPT ![m.to] = m.term]
    BY DEF Accept, E!HeedLeader, E!EnterTerm
  <1>3. QED BY <1>1, <1>2

\* A set with a majority in it is one.
LEMMA MajoritiesGrow ==
    ASSUME NEW P \in SUBSET Node, NEW Q \in SUBSET P, IsMajority(Q)
    PROVE  IsMajority(P)
  <1>1. IsFiniteSet(P)
    BY ClusterAssumption, FS_Subset
  <1>2. Cardinality(P) \in Nat /\ Cardinality(Q) \in Nat /\ Cardinality(Q) <= Cardinality(P)
    BY <1>1, FS_Subset, FS_CardinalityType
  <1>3. Cardinality(Node) \in Nat
    BY ClusterAssumption, FS_CardinalityType
  <1>4. QED BY <1>2, <1>3 DEF IsMajority, Majority, ClusterSize

-----------------------------------------------------------------------------
(* Writes that wait *)

\* What the call of a waiting write has heard.
LEMMA HeardFacts ==
    ASSUME CallInv, NEW c \in Command, write[c].phase = "waiting"
    PROVE  /\ write[c].at \in Node /\ write[c].acks \subseteq Node
           /\ Heard(c) \subseteq Node /\ write[c].at \in Heard(c)
           /\ write[c].acks \subseteq Heard(c)
  <1>1. write[c] \in WriteType /\ write[c].at \in Node
    BY DEF CallInv, ClientTypeOK, CallsHaveNodes
  <1>2. write[c].acks \subseteq Node
    BY <1>1 DEF WriteType
  <1>3. QED BY <1>1, <1>2 DEF Heard

\* It hears of a node which now accepts a request that covers its entry.
LEMMA HeardMoves ==
    ASSUME CallInv, [NextOrProbe]_raftVars, NEW c \in Command,
           write[c].phase = "waiting", write'[c].steady,
           write'[c] = write[c] \/ \E r \in replies : Hears(c, r),
           NEW v \in Heard(c)'
    PROVE  \/ v \in Heard(c)
           \/ \E m \in requests : /\ Accept(m.to, m) /\ m.to = v /\ m.term = write[c].term
                                  /\ Covered(m) >= write[c].index
  <1>1. write[c] \in WriteType /\ RaftInv
    BY DEF CallInv, ClientTypeOK
  <1>2. /\ write'[c].at = write[c].at /\ write'[c].term = write[c].term
        /\ write'[c].index = write[c].index
    BY <1>1 DEF Hears, WriteType
  <1>3. CASE v = write'[c].at
    BY <1>2, <1>3 DEF Heard
  <1>4. CASE v \in write'[c].acks
    <2>1. CASE v \in write[c].acks
      BY <2>1 DEF Heard
    <2>2. ASSUME NEW r \in replies, Hears(c, r), v = r.to PROVE v \in Heard(c)
      <3>1. r.to \in Node
        BY <1>1 DEF RaftInv, RepliesOK, ReplyType
      <3>2. /\ r.from = write[c].at /\ r.success /\ r.term = write[c].term
            /\ r.upTo >= write[c].index
        <4>1. r.term = write[c].term /\ write[c].term \in Nat
          <5>1. StillSteady(r, c)
            BY <1>1, <2>2 DEF Hears, WriteType
          <5>2. r.term = write[c].term
            BY <5>1 DEF StillSteady
          <5>3. write[c].term \in Nat
            BY <1>1, RaftAssumption DEF WriteType
          <5>4. QED BY <5>2, <5>3
        <4>2. Acknowledges(r, c)
          BY <2>2 DEF Hears
        <4>3. QED BY <4>1, <4>2 DEF Acknowledges
      <3>3. QED BY <2>2, <3>1, <3>2 DEF Heard
    <2>3. v \in write[c].acks \/ \E r \in replies : Hears(c, r) /\ v = r.to
      <3>1. ASSUME NEW r \in replies, Hears(c, r)
            PROVE  write'[c].acks = write[c].acks \cup {r.to}
        BY <1>1, <3>1 DEF Hears, WriteType
      <3>2. QED BY <1>4, <3>1
    <2>4. QED BY <2>1, <2>2, <2>3
  <1>5. ASSUME NEW r \in replies', v \in Node, r.from = write[c].at, r.to = v, r.success,
               r.term = write[c].term, r.upTo >= write[c].index
        PROVE  \/ v \in Heard(c)
               \/ \E m \in requests : /\ Accept(m.to, m) /\ m.to = v /\ m.term = write[c].term
                                      /\ Covered(m) >= write[c].index
    <2>1. CASE r \in replies
      BY <1>5, <2>1 DEF Heard
    <2>2. CASE r \notin replies
      BY <1>5, <2>2, NewRepliesAreAnswers
    <2>3. QED BY <2>1, <2>2
  <1>6. QED
    BY <1>2, <1>3, <1>4, <1>5 DEF Heard

\* A node that stores the entry when the leader's request says so has all of
\* the leader's log up to it.
LEMMA AcceptorsHold ==
    ASSUME TermInv, TermInv', [NextOrProbe]_raftVars, NEW m \in requests, Accept(m.to, m),
           NEW pre, NEW A \in SUBSET Node, Secure(pre, A), Secure(pre, A)',
           m.term = Final(pre), Covered(m) >= Len(pre)
    PROVE  (currentTerm[m.to] = Final(pre) /\ Holds(pre, log[m.to]))'
  <1>1. RaftInv /\ Ending(pre)
    BY CommitFacts DEF Secure
  <1>2. /\ pre \in Seq(Entries) /\ Len(pre) \in Nat /\ Len(pre) >= 1 /\ Final(pre) \in Nat
    BY <1>1, EndingFacts
  <1>3. m.prevIndex \in Nat /\ Len(m.entries) \in Nat
    BY <1>1, RaftAssumption DEF RaftInv, RequestsOK, RequestType
  <1>4. Covered(m) \in Nat /\ Covered(m) >= 1
    BY <1>2, <1>3 DEF Covered
  <1>5. Covered(m) <= Len(log'[m.to]) /\ m.to \in Node
    BY <1>1, <1>4, AcceptedIs
  <1>6. \A r \in 1..Covered(m) : r <= Len(pre) => log'[m.to][r] = pre[r]
    BY <1>2, <1>4, AcceptedFits
  <1>7. Len(log'[m.to]) \in Nat
    BY <1>5 DEF TermInv, MatchingInv, RaftInv, LogsOK
  <1>8. Holds(pre, log'[m.to])
    BY <1>2, <1>4, <1>5, <1>6, <1>7 DEF Holds
  <1>9. currentTerm'[m.to] = Final(pre)
    BY <1>1, AcceptedInTerm
  <1>10. QED BY <1>8, <1>9 DEF Holds, Final

\* What a waiting write's call has heard of stays secure.
LEMMA PrevailsStays ==
    ASSUME NobodyMisleads, CallInv, CommitInv, [ClientNext]_allVars,
           NEW c \in Command, write[c].phase = "waiting", write'[c].steady, Prevails(c),
           write'[c] = write[c] \/ \E r \in replies : Hears(c, r)
    PROVE  Prevails(c)'
  <1>1. /\ [NextOrProbe]_raftVars /\ TermsAreKept
        /\ TermInv /\ RaftInv /\ TermInv' /\ RaftInv' /\ CallInv'
        /\ \A i \in Node : /\ currentTerm[i] \in Nat /\ currentTerm'[i] \in Nat
                           /\ currentTerm'[i] >= currentTerm[i]
    BY ClusterGoesOn
  <1>2. /\ write'[c].at = write[c].at /\ write'[c].term = write[c].term
        /\ write'[c].index = write[c].index /\ write'[c].phase = "waiting"
    <2>1. write[c] \in WriteType
      BY DEF CallInv, ClientTypeOK
    <2>2. QED BY <2>1 DEF Hears, WriteType
  <1>3. PICK pre \in Seq(Entries) :
           /\ EndsWith(pre, c, write[c].index) /\ Final(pre) = write[c].term
           /\ Choosable(Heard(c), write[c].term) => Secure(pre, Heard(c))
    BY DEF Prevails
  <1>4. PICK A \in SUBSET Node : A = Heard(c) /\ A # {}
    BY HeardFacts
  <1>5. PICK B \in SUBSET Node : B = Heard(c)' /\ B # {}
    <2>1. Heard(c)' \subseteq Node
      BY <1>1, <1>2, HeardFacts DEF Heard, CallInv, ClientTypeOK, CallsHaveNodes, WriteType
    <2>2. write[c].at \in Heard(c)'
      BY <1>2 DEF Heard
    <2>3. QED BY <2>1, <2>2
  <1>6. ASSUME NEW v \in B
        PROVE  \/ v \in A
               \/ \E m \in requests : /\ Accept(m.to, m) /\ m.to = v /\ m.term = Final(pre)
                                      /\ Covered(m) >= Len(pre)
    BY <1>1, <1>3, <1>4, <1>5, <1>6, HeardMoves DEF EndsWith
  <1>7. ASSUME Choosable(B, Final(pre))' PROVE Secure(pre, B)'
    <2>1. Choosable(A, Final(pre))
      <3>1. PICK Q \in SUBSET Node :
               IsMajority(Q) /\ \A v \in Q : v \in B \/ currentTerm'[v] <= Final(pre)
        BY <1>7 DEF Choosable, IsMajority, Majority, ClusterSize, Final
      <3>2. Final(pre) \in Nat
        BY <1>1, <1>3, RaftAssumption DEF CallInv, ClientTypeOK, WriteType
      <3>3. ASSUME NEW v \in Q PROVE v \in A \/ currentTerm[v] <= Final(pre)
        <4>1. CASE v \in B
          BY <1>1, <1>6, <4>1, AcceptedInTerm
        <4>2. CASE currentTerm'[v] <= Final(pre)
          BY <1>1, <3>2, <4>2
        <4>3. QED BY <3>1, <4>1, <4>2
      <3>4. QED BY <3>1, <3>3 DEF Choosable
    <2>2. Secure(pre, A)
      BY <1>3, <1>4, <2>1
    <2>3. Secure(pre, A)'
      BY <1>1, <2>1, <2>2, SecureStays
    <2>4. ASSUME NEW v \in B
          PROVE  v \in A \/ (currentTerm[v] = Final(pre) /\ Holds(pre, log[v]))'
      BY <1>1, <1>6, <2>2, <2>3, AcceptorsHold
    <2>5. QED BY <1>1, <1>5, <2>3, <2>4, SecureGrowsNext
  <1>8. EndsWith(pre, c, write'[c].index) /\ Final(pre) = write'[c].term
    BY <1>2, <1>3
  <1>9. (Choosable(Heard(c), write[c].term) => Secure(pre, Heard(c)))'
    BY <1>5, <1>7, <1>8 DEF Final
  <1>10. QED BY <1>8, <1>9 DEF Prevails, EndsWith, Final

\* A new write's call has heard of its node, and of nobody else.
LEMMA NewWritePrevails ==
    ASSUME NobodyMisleads, CallInv, CommitInv, [ClientNext]_allVars,
           NEW c \in Command, NEW i \in Node, Asks(c, i)
    PROVE  Prevails(c)'
  <1>1. /\ [NextOrProbe]_raftVars /\ TermInv /\ RaftInv /\ TermInv' /\ RaftInv'
        /\ RepliesNameWinners /\ AcksAreTrue /\ CommitInv'
    BY ClusterGoesOn
  <1>2. /\ role[i] = "Leader" /\ role'[i] = "Leader" /\ currentTerm'[i] = currentTerm[i]
        /\ replies' = replies
    BY DEF Asks, Propose, callVars, electionVars
  <1>3. PICK pre \in Seq(Entries) : pre = log'[i]
    BY <1>1, CommitFacts DEF TermInv, MatchingInv, RaftInv, LogsOK
  <1>4. /\ Len(pre) = Len(log[i]) + 1 /\ Len(log[i]) \in Nat /\ Len(pre) <= MaxLog
        /\ pre[Len(pre)] = [term |-> currentTerm[i], cmd |-> c]
    <2>1. log[i] \in Seq(Entries) /\ log \in [Node -> Seq(Entries)]
      BY <1>1 DEF RaftInv, LogsOK
    <2>2. log'[i] = Append(log[i], [term |-> currentTerm[i], cmd |-> c])
      BY <2>1 DEF Asks, Propose, AppendToLog
    <2>3. Len(log'[i]) <= MaxLog
      BY <1>1 DEF RaftInv, LogsOK
    <2>4. QED BY <1>3, <2>1, <2>2, <2>3
  <1>5. /\ write'[c].at = i /\ write'[c].term = currentTerm[i] /\ write'[c].acks = {}
        /\ write'[c].index = Len(pre)
    BY <1>3 DEF Asks, NewWrite, LastIndex
  <1>6. EndsWith(pre, c, Len(pre)) /\ Final(pre) = currentTerm'[i]
    BY <1>2, <1>4 DEF EndsWith, Final
  <1>7. PICK A \in SUBSET Node : A = Acks(i, Len(pre))'
    BY DEF Acks, Peers
  <1>8. A = {i} /\ Len(pre) \in 1..MaxLog
    <2>1. Len(pre) \in 1..MaxLog /\ Len(pre) > Len(log[i])
      BY <1>4, RaftAssumption
    <2>2. QED BY <1>1, <1>2, <1>7, <2>1, NewestIsUnheard
  <1>9. Heard(c)' = A
    <2>1. ASSUME NEW v \in Node, NEW r \in replies', r.from = i, r.to = v, r.success,
                 r.term = currentTerm'[i], r.upTo >= Len(pre)
          PROVE  v \in A
      <3>1. v \in Peers(i)
        BY <1>1, <2>1 DEF RaftInv, RepliesOK, Peers
      <3>2. HasAcked(i, v, Len(pre))'
        BY <2>1 DEF HasAcked
      <3>3. QED BY <1>7, <3>1, <3>2 DEF Acks, Peers
    <2>2. QED BY <1>2, <1>5, <1>8, <2>1 DEF Heard
  <1>10. Holds(pre, log'[i]) /\ Len(pre) >= 1 /\ Len(pre) > Len(log[i])
    BY <1>3, <1>4 DEF Holds
  <1>11. Choosable(A, Final(pre))' => Secure(pre, A)'
    BY <1>1, <1>2, <1>6, <1>7, <1>10, ProposedIsSecure
  <1>12. (Choosable(Heard(c), write[c].term) => Secure(pre, Heard(c)))'
    BY <1>2, <1>5, <1>6, <1>9, <1>11 DEF Final
  <1>13. QED BY <1>2, <1>5, <1>6, <1>12 DEF Prevails, EndsWith, Final

\* What is known of waiting writes stays known.
LEMMA NextWaitingPrevail ==
    ASSUME NobodyMisleads, CallInv, CommitInv, [ClientNext]_allVars, WaitingPrevail
    PROVE  WaitingPrevail'
  <1>1. /\ RaftInv /\ RaftInv' /\ CallInv' /\ elected \subseteq elected'
        /\ \A i \in Node : /\ currentTerm[i] \in Nat /\ currentTerm'[i] \in Nat
                           /\ currentTerm'[i] >= currentTerm[i]
    BY ClusterGoesOn
  <1>2. ASSUME NEW c \in Command, write'[c].phase = "waiting", write'[c].steady
        PROVE  /\ \E e \in elected' : e.term = write'[c].term /\ e.leader = write'[c].at
               /\ Prevails(c)'
    <2>1. ASSUME NEW i \in Node, Asks(c, i)
          PROVE  /\ \E e \in elected' : e.term = write'[c].term /\ e.leader = write'[c].at
                 /\ Prevails(c)'
      <3>1. write'[c].at = i /\ write'[c].term = currentTerm[i] /\ role[i] = "Leader"
        BY <2>1 DEF Asks, NewWrite, Propose
      <3>2. \E e \in elected : e.term = currentTerm[i] /\ e.leader = i
        BY <1>1, <3>1, ElectionFacts
      <3>3. QED BY <1>1, <2>1, <3>1, <3>2, NewWritePrevails
    <2>2. CASE write'[c] = write[c] \/ \E r \in replies : Hears(c, r)
      <3>1. /\ write'[c].at = write[c].at /\ write'[c].term = write[c].term
            /\ write[c].phase = "waiting" /\ write[c].steady
            /\ write[c].term \in Nat /\ write[c].at \in Node
        <4>1. write[c] \in WriteType
          BY DEF CallInv, ClientTypeOK
        <4>2. ASSUME NEW r \in replies, Hears(c, r)
              PROVE  /\ write'[c].at = write[c].at /\ write'[c].term = write[c].term
                     /\ write[c].phase = "waiting" /\ write[c].steady
          BY <1>2, <4>1, <4>2 DEF Hears, Acknowledges, StillSteady, WriteType
        <4>3. /\ write'[c].at = write[c].at /\ write'[c].term = write[c].term
              /\ write[c].phase = "waiting" /\ write[c].steady
          BY <1>2, <2>2, <4>2
        <4>4. QED BY <4>1, <4>3, RaftAssumption DEF CallInv, CallsHaveNodes, WriteType
      <3>2. /\ \E e \in elected : e.term = write[c].term /\ e.leader = write[c].at
            /\ Prevails(c)
        BY <3>1 DEF WaitingPrevail
      <3>3. Prevails(c)'
        BY <1>2, <2>2, <3>1, <3>2, PrevailsStays
      <3>4. QED BY <1>1, <3>1, <3>2, <3>3
    <2>3. CASE Succeeds(c)
      BY <1>2, <2>3 DEF Succeeds, NewWrite
    <2>4. CASE Fails(c)
      BY <1>2, <2>4 DEF Fails, NewWrite
    <2>5. QED BY <2>1, <2>2, <2>3, <2>4, WritesMove
  <1>3. QED BY <1>2 DEF WaitingPrevail

-----------------------------------------------------------------------------
(* Writes that are acknowledged *)

\* They are those that were, and one whose Propose returns now.
LEMMA AckedMove ==
    ASSUME CallInv, [ClientNext]_allVars
    PROVE  /\ Acked \subseteq Acked'
           /\ \A c \in Acked : write'[c] = write[c]
           /\ \A c \in Acked' : c \in Acked \/ Succeeds(c)
  <1>1. ASSUME NEW c \in Acked PROVE write'[c] = write[c]
    BY <1>1, WritesMove DEF Acked, Asks, Hears, Acknowledges, Succeeds, ProposeReturns, Fails
  <1>2. ASSUME NEW c \in Acked', c \notin Acked PROVE Succeeds(c)
    <2>1. c \in Command /\ write'[c].phase = "acked" /\ write[c].phase # "acked"
      BY <1>2 DEF Acked
    <2>2. ~Fails(c) /\ \A i \in Node : ~Asks(c, i)
      BY <2>1 DEF Fails, Asks, NewWrite
    <2>3. \A r \in replies : ~Hears(c, r)
      BY <2>1 DEF Hears, Acknowledges, CallInv, ClientTypeOK, WriteType
    <2>4. QED BY <2>1, <2>2, <2>3, WritesMove
  <1>3. QED BY <1>1, <1>2 DEF Acked

\* What is safe and what is chosen, after a step.
LEMMA SafeFollowsChosenNext ==
    ASSUME NEW pre
    PROVE  (CommitInv /\ Safe(pre) => Holds(pre, chosen) \/ Holds(chosen, pre))'
  <1>1. CommitInv /\ Safe(pre) => Holds(pre, chosen) \/ Holds(chosen, pre)
    BY SafeFollowsChosen
  <1>2. QED BY <1>1, PTL

\* What a node considers committed is chosen, after a step, too.
LEMMA CommittedIsChosenNext ==
    ASSUME NEW i \in Node
    PROVE  (CommitInv => Len(chosen) \in Nat /\ Len(chosen) >= commitIndex[i])'
  <1>1. ASSUME CommitInv PROVE Len(chosen) \in Nat /\ Len(chosen) >= commitIndex[i]
    <2>1. commitIndex[i] <= Len(applied[i]) /\ Len(applied[i]) <= Len(chosen)
      BY <1>1 DEF CommitInv, AppliedIsWarranted, Holds
    <2>2. /\ commitIndex[i] \in Nat /\ Len(applied[i]) \in Nat /\ Len(chosen) \in Nat
      BY <1>1, CommitFacts DEF CommitInv
    <2>3. QED BY <2>1, <2>2
  <1>2. (CommitInv => Len(chosen) \in Nat /\ Len(chosen) >= commitIndex[i])
    BY <1>1
  <1>3. QED BY <1>2, PTL

\* A majority has answered, so the write is safe; and it is chosen, because
\* Propose looks at the commit index before it says so.
LEMMA NewlyAckedIsChosen ==
    ASSUME NobodyMisleads, CallInv, CommitInv, [ClientNext]_allVars, WaitingPrevail,
           NEW c \in Command, Succeeds(c), write'[c].steady
    PROVE  \E pre \in Seq(Entries) :
              /\ EndsWith(pre, c, write'[c].index) /\ Final(pre) = write[c].term
              /\ Safe(pre)' /\ Holds(pre, chosen')
  <1>1. /\ [NextOrProbe]_raftVars /\ TermsAreKept /\ TermInv /\ RaftInv /\ TermInv' /\ CommitInv'
    BY ClusterGoesOn
  <1>2. /\ write[c].phase = "waiting" /\ write'[c].index = write[c].index
        /\ IsMajority({write[c].at} \cup write[c].acks)
        /\ commitIndex'[write[c].at] >= write[c].index /\ write[c].steady
    BY DEF Succeeds, ProposeReturns, NewWrite
  <1>3. PICK pre \in Seq(Entries) :
           /\ EndsWith(pre, c, write[c].index) /\ Final(pre) = write[c].term
           /\ Choosable(Heard(c), write[c].term) => Secure(pre, Heard(c))
    BY <1>2 DEF WaitingPrevail, Prevails
  <1>4. PICK A \in SUBSET Node : A = Heard(c) /\ IsMajority(A)
    <2>1. /\ Heard(c) \in SUBSET Node
          /\ {write[c].at} \cup write[c].acks \in SUBSET Heard(c)
      BY <1>2, HeardFacts
    <2>2. QED BY <1>2, <2>1, MajoritiesGrow
  <1>5. Safe(pre)
    <2>1. Choosable(A, write[c].term)
      BY <1>4 DEF Choosable
    <2>2. QED BY <1>3, <1>4, <2>1 DEF Safe
  <1>6. Safe(pre)'
    BY <1>1, <1>5, SafeStays
  <1>7. Holds(pre, chosen') \/ Holds(chosen', pre)
    BY <1>1, <1>6, SafeFollowsChosenNext DEF Holds
  <1>8. Len(chosen') \in Nat /\ Len(chosen') >= Len(pre) /\ Len(pre) \in Nat
    <2>1. write[c].at \in Node
      BY <1>2, HeardFacts
    <2>2. Len(chosen') \in Nat /\ Len(chosen') >= commitIndex'[write[c].at]
      BY <1>1, <2>1, CommittedIsChosenNext
    <2>3. commitIndex'[write[c].at] \in Nat
      BY <1>1, <2>1, RaftAssumption DEF TermInv, MatchingInv, RaftInv, AppliedOK
    <2>4. Len(pre) \in Nat /\ commitIndex'[write[c].at] >= Len(pre)
      BY <1>2, <1>3 DEF EndsWith
    <2>5. QED BY <2>2, <2>3, <2>4
  <1>9. Holds(pre, chosen')
    BY <1>7, <1>8 DEF Holds
  <1>10. QED BY <1>2, <1>3, <1>6, <1>9

\* What has been acknowledged stays safe and chosen.
LEMMA NextAckedIsChosen ==
    ASSUME NobodyMisleads, CallInv, CommitInv, [ClientNext]_allVars,
           WaitingPrevail, AckedIsChosen
    PROVE  AckedIsChosen'
  <1>1. /\ [NextOrProbe]_raftVars /\ TermsAreKept /\ TermInv /\ RaftInv /\ TermInv'
        /\ Len(chosen) \in Nat /\ Len(chosen') \in Nat
    <2>1. [NextOrProbe]_raftVars /\ TermsAreKept /\ TermInv /\ RaftInv /\ TermInv'
      BY ClusterGoesOn
    <2>2. chosen' \in Seq(Entries)
      BY <2>1 DEF TermInv, MatchingInv, RaftInv, AppliedOK
    <2>3. QED BY <2>1, <2>2, CommitFacts
  <1>2. Holds(chosen, chosen')
    BY <1>1, ChosenGrows
  <1>3. ASSUME NEW c \in SteadyAcked'
        PROVE  \E pre \in Seq(Entries) :
                  EndsWith(pre, c, write'[c].index) /\ Safe(pre)' /\ Holds(pre, chosen')
    <2>0. c \in Acked' /\ write'[c].steady
      BY <1>3 DEF SteadyAcked
    <2>1. CASE c \in Acked
      <3>1. PICK pre \in Seq(Entries) :
               EndsWith(pre, c, write[c].index) /\ Safe(pre) /\ Holds(pre, chosen)
        BY <2>0, <2>1, AckedMove DEF AckedIsChosen, SteadyAcked
      <3>2. write'[c] = write[c]
        BY <2>1, AckedMove
      <3>3. Safe(pre)'
        BY <1>1, <3>1, SafeStays
      <3>4. Holds(pre, chosen')
        BY <1>1, <1>2, <3>1, HoldsTransitive
      <3>5. QED BY <3>1, <3>2, <3>3, <3>4
    <2>2. CASE c \notin Acked
      <3>1. c \in Command /\ Succeeds(c)
        BY <2>0, <2>2, AckedMove DEF Acked
      <3>2. QED BY <2>0, <3>1, NewlyAckedIsChosen
    <2>3. QED BY <2>1, <2>2
  <1>4. QED BY <1>3 DEF AckedIsChosen, EndsWith, Holds

\* The entry of an acknowledged write, in the sequence that is chosen.
LEMMA AckedFacts ==
    ASSUME CommitInv, AckedIsChosen, NEW c \in SteadyAcked
    PROVE  \E pre \in Seq(Entries) :
              /\ EndsWith(pre, c, write[c].index) /\ Safe(pre) /\ Holds(pre, chosen)
              /\ write[c].index \in 1..Len(chosen) /\ Len(pre) = write[c].index
              /\ chosen[write[c].index].cmd = c
              /\ chosen[write[c].index].term = Final(pre) /\ Final(pre) \in Nat
              /\ \E e \in elected : e.term = Final(pre)
  <1>1. PICK pre \in Seq(Entries) :
           EndsWith(pre, c, write[c].index) /\ Safe(pre) /\ Holds(pre, chosen)
    BY DEF AckedIsChosen
  <1>2. RaftInv /\ Len(chosen) \in Nat
    BY CommitFacts DEF CommitInv
  <1>3. Len(pre) \in Nat /\ Len(pre) >= 1 /\ Len(pre) = write[c].index /\ Final(pre) \in Nat
    BY <1>1, <1>2, SafeFacts DEF EndsWith
  <1>4. Len(pre) \in 1..Len(chosen) /\ chosen[Len(pre)] = pre[Len(pre)]
    BY <1>1, <1>2, <1>3 DEF Holds
  <1>5. \E e \in elected : e.term = Final(pre)
    BY <1>1 DEF Safe, Secure, Ending
  <1>6. QED BY <1>1, <1>3, <1>4, <1>5 DEF EndsWith, Final

\* The leader that a write was acknowledged by has committed it, and there is
\* no other in its term.
LEMMA NextOwnersHaveCommitted ==
    ASSUME NobodyMisleads, CallInv, CommitInv, [ClientNext]_allVars,
           WaitingPrevail, AckedIsChosen, OwnersHaveCommitted
    PROVE  OwnersHaveCommitted'
  <1>1. /\ [NextOrProbe]_raftVars /\ TermsAreKept /\ TermInv /\ RaftInv /\ TermInv' /\ LogsOK'
        /\ elected \subseteq elected'
        /\ commitIndex \in [Node -> 0..MaxLog] /\ commitIndex' \in [Node -> 0..MaxLog]
    <2>1. /\ [NextOrProbe]_raftVars /\ TermsAreKept /\ TermInv /\ RaftInv /\ TermInv' /\ LogsOK'
          /\ elected \subseteq elected'
      BY ClusterGoesOn
    <2>2. QED BY <2>1 DEF TermInv, MatchingInv, RaftInv, AppliedOK
  <1>2. Holds(chosen, chosen')
    BY <1>1, ChosenGrows
  <1>3. ASSUME NEW c \in SteadyAcked', NEW i \in Node, role'[i] = "Leader",
               currentTerm'[i] = chosen'[write'[c].index].term
        PROVE  commitIndex'[i] >= write'[c].index
    <2>0. c \in Acked' /\ write'[c].steady
      BY <1>3 DEF SteadyAcked
    <2>1. /\ currentTerm'[i] = currentTerm[i]
          /\ role[i] # "Leader" => \A e \in elected : e.term # currentTerm[i]
      BY <1>1, <1>3, ElectionsGoOn
    <2>2. CASE c \in Acked
      <3>1. PICK pre \in Seq(Entries) :
               /\ write[c].index \in 1..Len(chosen) /\ write[c].index \in Nat
               /\ chosen[write[c].index].term = Final(pre)
               /\ \E e \in elected : e.term = Final(pre)
        BY <2>0, <2>2, AckedFacts, AckedMove DEF SteadyAcked
      <3>2. write'[c] = write[c] /\ c \in SteadyAcked
        BY <2>0, <2>2, AckedMove DEF SteadyAcked
      <3>3. chosen'[write[c].index] = chosen[write[c].index]
        BY <1>2, <3>1 DEF Holds
      <3>4. currentTerm[i] = chosen[write[c].index].term /\ role[i] = "Leader"
        BY <1>3, <2>1, <3>1, <3>2, <3>3
      <3>5. commitIndex[i] >= write[c].index
        BY <3>2, <3>4 DEF OwnersHaveCommitted
      <3>6. commitIndex'[i] >= commitIndex[i]
        BY <1>1, <1>3, <3>4, LeadersCommitsStay
      <3>7. QED BY <1>1, <3>1, <3>2, <3>5, <3>6, RaftAssumption
    <2>3. CASE c \notin Acked
      <3>1. c \in Command /\ Succeeds(c)
        BY <2>0, <2>3, AckedMove DEF Acked
      <3>2. PICK pre \in Seq(Entries) :
               /\ EndsWith(pre, c, write'[c].index) /\ Final(pre) = write[c].term
               /\ Safe(pre)' /\ Holds(pre, chosen')
        BY <2>0, <3>1, NewlyAckedIsChosen
      <3>3. /\ write[c].phase = "waiting" /\ write[c].steady /\ write'[c].index = write[c].index
            /\ commitIndex'[write[c].at] >= write[c].index
        BY <2>0, <3>1 DEF Succeeds, ProposeReturns, NewWrite
      <3>4. \E e \in elected : e.term = write[c].term /\ e.leader = write[c].at
        BY <3>1, <3>3 DEF WaitingPrevail
      <3>5. chosen'[write'[c].index].term = write[c].term
        <4>1. write'[c].index \in 1..Len(pre) /\ Len(pre) = write'[c].index
          BY <3>2 DEF EndsWith
        <4>2. QED BY <3>2, <4>1 DEF Holds, Final
      <3>6. role[i] = "Leader" /\ currentTerm[i] = write[c].term
        BY <1>3, <2>1, <3>4, <3>5
      <3>7. \E e \in elected : e.term = write[c].term /\ e.leader = i
        BY <1>1, <3>6, ElectionFacts
      <3>8. EP!ElectionSafety
        BY <1>1, EP!InvariantImpliesSafety, ElectionAssumptionsHold DEF RaftInv, EP!LeaderInv
      <3>9. i = write[c].at
        BY <3>4, <3>7, <3>8 DEF EP!ElectionSafety
      <3>10. QED BY <3>3, <3>9
    <2>4. QED BY <2>2, <2>3
  <1>4. QED BY <1>3 DEF OwnersHaveCommitted

\* The entry is in the log of a majority, because it is safe.
LEMMA AckedIsEverywhere ==
    ASSUME CommitInv, AckedIsChosen, NEW c \in SteadyAcked
    PROVE  StoredOnMajority(c)
  <1>1. PICK pre \in Seq(Entries) :
           /\ EndsWith(pre, c, write[c].index) /\ Safe(pre)
           /\ Len(pre) = write[c].index
    BY AckedFacts
  <1>2. PICK A \in SUBSET Node : IsMajority(A) /\ HeldBy(pre, A)
    BY <1>1 DEF Safe, Secure
  <1>3. ASSUME NEW v \in A
        PROVE  write[c].index \in DOMAIN log[v] /\ log[v][write[c].index].cmd = c
    <2>1. Holds(pre, log[v]) /\ log[v] \in Seq(Entries) /\ Len(log[v]) \in Nat
      BY <1>2, CommitFacts DEF HeldBy, CommitInv
    <2>2. Len(pre) \in 1..Len(pre) /\ Len(pre) \in 1..Len(log[v])
      BY <1>1, <2>1 DEF EndsWith, Holds
    <2>3. QED BY <1>1, <2>1, <2>2 DEF EndsWith, Holds
  <1> DEFINE P == {i \in Node :
              write[c].index \in DOMAIN log[i] /\ log[i][write[c].index].cmd = c}
  <1>4. P \in SUBSET Node /\ A \in SUBSET P
    BY <1>3
  <1> HIDE DEF P
  <1>5. IsMajority(P)
    BY <1>2, <1>4, MajoritiesGrow
  <1>6. QED BY <1>5 DEF P, StoredOnMajority

-----------------------------------------------------------------------------
(* The read *)

\* Nobody probes before a round begins.
LEMMA NextReadIsNew ==
    ASSUME CallInv, [ClientNext]_allVars, ReadIsNew
    PROVE  ReadIsNew'
  <1>1. RaftInv /\ RequestsOK /\ [NextOrProbe]_raftVars /\ read \in ReadType
    BY ClientsStepIsNextOrProbe DEF CallInv, RaftInv, ClientTypeOK
  <1> SUFFICES ASSUME read'.phase \in {"new", "asking"}
               PROVE  /\ read'.silent = {} /\ read'.acks = {}
                      /\ \A m \in requests' \cup replies' : m.kind # "probe"
    BY DEF ReadIsNew
  <1>2. read.phase \in {"new", "asking"}
    BY <1>1, ReadMoves
       DEF LinearizableRead, ReadIndexDeposes, RoundBegins, Probe, ReceiveProbeReply,
           RoundReturns, ReadReturns, ReadFails, ReadType
  <1>3. /\ read.silent = {} /\ read.acks = {}
        /\ \A m \in requests \cup replies : m.kind # "probe"
    BY <1>2 DEF ReadIsNew
  <1>4. \A r \in replies : ~ReceiveProbeReply(r)
    BY <1>3 DEF ReceiveProbeReply
  <1>5. ASSUME [Next]_raftVars, NEW q \in requests' PROVE q.kind # "probe"
    <2>1. ASSUME NEW i \in Node, NEW p \in Peers(i), Replicate(i, p) PROVE q.kind # "probe"
      BY <1>3, <1>5, <2>1 DEF Replicate, Send, Request
    <2>2. QED BY <1>1, <1>3, <1>5, <2>1, ReplicationMoves DEF Resent
  <1>6. ASSUME NEW r \in replies' PROVE r.kind # "probe"
    <2>1. CASE r \notin replies
      <3>1. PICK m \in requests : r.kind = m.kind
        BY <1>1, <2>1, NewRepliesAreAnswers
      <3>2. QED BY <1>3, <3>1
    <2>2. QED BY <1>3, <2>1
  <1>7. ASSUME ReadIndexDeposes PROVE requests' = requests
    BY <1>7 DEF ReadIndexDeposes, callVars
  <1>8. \A m \in requests' \cup replies' : m.kind # "probe"
    BY <1>3, <1>4, <1>5, <1>6, <1>7, ClientsStep
  <1>9. read'.silent = {} /\ read'.acks = {}
    <2>1. ASSUME NEW j \in Node, LinearizableRead(j)
          PROVE  read'.silent = {} /\ read'.acks = {}
      BY <2>1 DEF LinearizableRead, NewRead
    <2>2. ~ReadIndexDeposes /\ ~RoundBegins /\ ~RoundReturns /\ ~ReadReturns /\ ~ReadFails
      BY <1>1 DEF ReadIndexDeposes, RoundBegins, RoundReturns, ReadReturns, ReadFails, ReadType
    <2>3. QED BY <1>3, <1>4, <2>1, <2>2, ReadMoves
  <1>10. QED BY <1>8, <1>9

\* The read has to see what was acknowledged before it began, and that stays
\* acknowledged.
LEMMA NextMustIsAcked ==
    ASSUME CallInv, [ClientNext]_allVars, MustIsAcked
    PROVE  MustIsAcked'
  <1>1. Acked \subseteq Acked'
    BY AckedMove
  <1>2. read \in ReadType
    BY DEF CallInv, ClientTypeOK
  <1> SUFFICES ASSUME read'.phase \in {"asking", "round", "indexed"}
               PROVE  read'.must \subseteq Acked'
    BY DEF MustIsAcked
  <1>3. CASE read' = read
    BY <1>1, <1>3 DEF MustIsAcked
  <1>4. ASSUME NEW j \in Node, LinearizableRead(j) PROVE read'.must = Acked
    BY <1>4 DEF LinearizableRead, NewRead
  <1>5. ASSUME \/ RoundBegins
               \/ \E p \in read.silent : Probe(p)
               \/ \E r \in replies : ReceiveProbeReply(r)
               \/ RoundReturns
        PROVE  read'.must = read.must /\ read.phase \in {"asking", "round", "indexed"}
    BY <1>2, <1>5 DEF RoundBegins, Probe, ReceiveProbeReply, RoundReturns, ReadType
  <1>6. ~ReadIndexDeposes /\ ~ReadReturns /\ ~ReadFails
    BY <1>2 DEF ReadIndexDeposes, ReadReturns, ReadFails, ReadType
  <1>7. QED
    BY <1>1, <1>3, <1>4, <1>5, <1>6, ReadMoves DEF MustIsAcked

\* The round begins: a write this leader has not committed was acknowledged
\* in a later term, which a majority knows of.
LEMMA RoundBeginsFair ==
    ASSUME CallInv, CommitInv, AckedIsChosen, OwnersHaveCommitted, ReadIsNew, MustIsAcked,
           RoundBegins
    PROVE  RoundIsFair'
  <1>1. /\ TermInv /\ RaftInv /\ read \in ReadType
        /\ \A n \in Node : /\ log[n] \in Seq(Entries) /\ Len(log[n]) \in Nat
                           /\ commitIndex[n] \in Nat /\ currentTerm[n] \in Nat
    BY CommitFacts DEF CommitInv, CallInv, ClientTypeOK
  <1>2. PICK i \in Node : i = read.at
    BY DEF RoundBegins, CallInv, CallsHaveNodes
  <1> DEFINE k == commitIndex[i]
             t == currentTerm[i]
  <1>3. PICK s \in BOOLEAN : s = (TermAt(log[i], k) = t)
    OBVIOUS
  <1>4. /\ role[i] = "Leader" /\ read.phase = "asking"
        /\ read' = [read EXCEPT !.phase = "round", !.term = t, !.index = k,
                                !.silent = Peers(i), !.settled = s]
    BY <1>2, <1>3 DEF RoundBegins, ReadIndex
  <1>5. UNCHANGED <<currentTerm, log, requests, replies, commitIndex, write>>
    BY DEF RoundBegins, raftVars, electionVars, applyVars, callVars
  <1>6. read.acks = {} /\ \A m \in requests \cup replies : m.kind # "probe"
    BY <1>4 DEF ReadIsNew
  <1>7. /\ read'.at = i /\ read'.term = t /\ read'.index = k /\ read'.must = read.must
        /\ read'.acks = {} /\ read'.settled = s
    BY <1>1, <1>2, <1>4, <1>6 DEF ReadType
  <1>8. t >= 1
    BY <1>1, <1>2, <1>4, ElectionFacts
  <1>9. ASSUME s, NEW c \in SteadyAcked, ~(write[c].index <= k)
        PROVE  Outvoted'
    <2>0. TermAt(log[i], k) = t
      BY <1>3, <1>9
    <2>1. k \in 1..Len(log[i]) /\ log[i][k].term = t
      BY <1>1, <1>2, <1>8, <2>0 DEF TermAt
    <2>2. PICK pre \in Seq(Entries) :
             /\ EndsWith(pre, c, write[c].index) /\ Safe(pre) /\ Len(pre) = write[c].index
             /\ chosen[write[c].index].term = Final(pre) /\ Final(pre) \in Nat
      BY <1>9, AckedFacts
    <2>3. PICK A \in SUBSET Node : IsMajority(A) /\ Secure(pre, A)
      BY <2>2 DEF Safe
    <2>4. ~(Final(pre) <= t)
      <3>1. SUFFICES ASSUME Final(pre) <= t PROVE FALSE
        OBVIOUS
      <3>2. Holds(pre, log[i])
        BY <1>1, <1>4, <2>2, <2>3, <3>1 DEF Secure, LeadersHold
      <3>3. Len(pre) \in Nat /\ k < Len(pre)
        BY <1>1, <1>9, <2>2
      <3>4. k \in 1..Len(pre)
        BY <2>1, <3>3
      <3>5. pre[k].term = t
        BY <2>1, <3>2, <3>4 DEF Holds
      <3>6. pre[k].term <= Final(pre)
        BY <2>3, <3>4 DEF Secure, Ending
      <3>7. Final(pre) = t
        BY <1>1, <2>2, <3>1, <3>5, <3>6
      <3>8. commitIndex[i] >= write[c].index
        BY <1>4, <1>9, <2>2, <3>7 DEF OwnersHaveCommitted
      <3>9. QED BY <1>9, <3>8
    <2>5. ASSUME NEW v \in A PROVE currentTerm[v] > t
      <3>1. currentTerm[v] >= Final(pre) /\ currentTerm[v] \in Nat
        BY <1>1, <2>3 DEF Secure, HeldBy
      <3>2. QED BY <1>1, <2>2, <2>4, <3>1
    <2>6. ASSUME NEW v \in A
          PROVE  /\ currentTerm'[v] > read'.term /\ v \notin read'.acks
                 /\ \A r \in replies' : ~(r.kind = "probe" /\ r.success /\ r.to = v)
      BY <1>5, <1>6, <1>7, <2>5
    <2>7. QED BY <2>3, <2>6 DEF Outvoted, IsMajority, Majority, ClusterSize
  <1>10. ASSUME s, NEW c \in read'.must \cap SteadyAcked' PROVE Sees(c)' \/ Outvoted'
    <2>1. c \in SteadyAcked
      BY <1>5, <1>10 DEF SteadyAcked, Acked
    <2>2. CASE write[c].index <= k
      BY <1>5, <1>7, <2>2 DEF Sees
    <2>3. QED BY <1>9, <1>10, <2>1, <2>2
  <1>11. currentTerm'[read'.at] >= read'.term
    BY <1>1, <1>5, <1>7
  <1>12. \A m \in requests' : m.kind # "probe"
    BY <1>5, <1>6
  <1>13. QED BY <1>7, <1>10, <1>11, <1>12 DEF RoundIsFair

\* The round goes on: what it was about stays what it was.
RoundGoesOn ==
    /\ read.phase = "round" /\ read'.phase = "round" /\ read.at \in Node
    /\ read'.at = read.at /\ read'.term = read.term /\ read'.index = read.index
    /\ read'.must = read.must /\ read'.settled = read.settled
    /\ \A v \in read'.acks : \/ v \in read.acks
                             \/ \E r \in replies : r.kind = "probe" /\ r.success /\ r.to = v

\* A round begins, or goes on.
LEMMA RoundsMove ==
    ASSUME CallInv, [ClientNext]_allVars, read'.phase = "round"
    PROVE  RoundGoesOn \/ RoundBegins
  <1>1. read \in ReadType /\ (read.phase = "round" => read.at \in Node)
    BY DEF CallInv, ClientTypeOK, CallsHaveNodes
  <1>2. CASE read' = read
    BY <1>1, <1>2 DEF RoundGoesOn
  <1>3. ASSUME NEW p \in read.silent, Probe(p) PROVE RoundGoesOn
    BY <1>1, <1>3 DEF Probe, RoundGoesOn, ReadType
  <1>4. ASSUME NEW r \in replies, ReceiveProbeReply(r), read' # read PROVE RoundGoesOn
    <2>1. /\ r.kind = "probe" /\ r.success /\ read.phase = "round"
          /\ read' = [read EXCEPT !.acks = @ \cup {r.to}]
      BY <1>4 DEF ReceiveProbeReply
    <2>2. QED BY <1>1, <2>1 DEF RoundGoesOn, ReadType
  <1>5. /\ ~ReadIndexDeposes /\ ~RoundReturns /\ ~ReadReturns /\ ~ReadFails
        /\ \A j \in Node : ~LinearizableRead(j)
    BY <1>1 DEF LinearizableRead, ReadIndexDeposes, RoundReturns, ReadReturns, ReadFails,
                NewRead, ReadType
  <1>6. QED BY <1>2, <1>3, <1>4, <1>5, ReadMoves

\* A majority that has gone on does not come back to confirm the leader.
LEMMA OutvotedStays ==
    ASSUME NobodyMisleads, CallInv, CommitInv, [ClientNext]_allVars, RoundIsFair,
           RoundGoesOn, currentTerm[read.at] = read.term, Outvoted
    PROVE  Outvoted'
  <1>1. /\ [NextOrProbe]_raftVars /\ RaftInv /\ read.term \in Nat
        /\ \A i \in Node : /\ currentTerm[i] \in Nat /\ currentTerm'[i] \in Nat
                           /\ currentTerm'[i] >= currentTerm[i]
    <2>1. read.term \in Nat
      BY RaftAssumption DEF CallInv, ClientTypeOK, ReadType
    <2>2. QED BY <2>1, ClusterGoesOn
  <1>2. PICK A \in SUBSET Node :
           /\ IsMajority(A)
           /\ \A v \in A : /\ currentTerm[v] > read.term
                           /\ v \notin read.acks
                           /\ \A r \in replies : ~(r.kind = "probe" /\ r.success /\ r.to = v)
    BY DEF Outvoted
  <1>3. ASSUME NEW v \in A
        PROVE  /\ currentTerm'[v] > read'.term /\ v \notin read'.acks
               /\ \A r \in replies' : ~(r.kind = "probe" /\ r.success /\ r.to = v)
    <2>1. currentTerm'[v] > read'.term /\ v \notin read'.acks
      BY <1>1, <1>2, <1>3 DEF RoundGoesOn
    <2>2. ASSUME NEW r \in replies', r.kind = "probe", r.success, r.to = v PROVE FALSE
      <3>1. r \notin replies
        BY <1>2, <2>2
      <3>2. PICK m \in requests : /\ Accept(m.to, m) /\ m.to = v /\ m.kind = "probe"
        BY <1>1, <2>2, <3>1, NewRepliesAreAnswers
      <3>3. m.term <= read.term
        BY <3>2 DEF RoundIsFair, RoundGoesOn
      <3>4. m.term >= currentTerm[v] /\ m.term \in Nat
        BY <1>1, <3>2, AcceptedInTerm, RaftAssumption DEF RaftInv, RequestsOK, RequestType
      <3>5. QED BY <1>1, <1>2, <3>3, <3>4
    <2>3. QED BY <2>1, <2>2
  <1>4. QED BY <1>2, <1>3 DEF Outvoted, IsMajority, Majority, ClusterSize

\* A probe is of the leader's term, or of one it has been in.
LEMMA NextProbesAreOld ==
    ASSUME NobodyMisleads, CallInv, CommitInv, [ClientNext]_allVars, RoundIsFair,
           RoundGoesOn, NEW q \in requests', q.kind = "probe"
    PROVE  q.term <= currentTerm'[read.at]
  <1>1. /\ RaftInv /\ RequestsOK /\ read.at \in Node
        /\ \A i \in Node : /\ currentTerm[i] \in Nat /\ currentTerm'[i] \in Nat
                           /\ currentTerm'[i] >= currentTerm[i]
    BY ClusterGoesOn DEF RaftInv, RoundGoesOn
  <1>2. ASSUME NEW m \in requests, m.kind = "probe" PROVE m.term <= currentTerm'[read.at]
    <2>1. m.term <= currentTerm[read.at] /\ m.term \in Nat
      BY <1>1, <1>2, RaftAssumption DEF RoundIsFair, RoundGoesOn, RequestsOK, RequestType
    <2>2. QED BY <1>1, <2>1
  <1>3. CASE [Next]_raftVars
    <2>1. ASSUME NEW i \in Node, NEW p \in Peers(i), Replicate(i, p)
          PROVE  q \in requests
      BY <2>1 DEF Replicate, Send, Request
    <2>2. ASSUME NEW m \in requests, Resent(q, m)
          PROVE  m.kind = "probe" /\ m.term = q.term
      BY <2>2 DEF Resent
    <2>3. QED BY <1>1, <1>2, <1>3, <2>1, <2>2, ReplicationMoves
  <1>4. ASSUME NEW p \in read.silent, Probe(p) PROVE q.term <= currentTerm'[read.at]
    <2>1. q \in requests \/ q.term = currentTerm[read.at]
      BY <1>4 DEF Probe, Send, Request
    <2>2. QED BY <1>1, <1>2, <2>1
  <1>5. ASSUME NEW r \in replies, ReceiveProbeReply(r) PROVE q \in requests
    BY <1>5 DEF ReceiveProbeReply
  <1>6. ASSUME ReadIndexDeposes PROVE q \in requests
    BY <1>6 DEF ReadIndexDeposes, callVars
  <1>7. QED BY <1>2, <1>3, <1>4, <1>5, <1>6, ClientsStep

\* What is known of the round stays known.
LEMMA NextRoundIsFair ==
    ASSUME NobodyMisleads, CallInv, CommitInv, [ClientNext]_allVars,
           AckedIsChosen, OwnersHaveCommitted, ReadIsNew, MustIsAcked, RoundIsFair
    PROVE  RoundIsFair'
  <1>1. CASE RoundGoesOn
    <2>1. /\ read.at \in Node /\ read.term \in Nat
          /\ \A i \in Node : /\ currentTerm[i] \in Nat /\ currentTerm'[i] \in Nat
                             /\ currentTerm'[i] >= currentTerm[i]
      BY <1>1, ClusterGoesOn, RaftAssumption DEF RoundGoesOn, CallInv, ClientTypeOK, ReadType
    <2>2. /\ currentTerm[read.at] >= read.term
          /\ read.settled /\ currentTerm[read.at] = read.term
               => \A c \in read.must \cap SteadyAcked : Sees(c) \/ Outvoted
          /\ read.must \subseteq Acked
      BY <1>1 DEF RoundIsFair, RoundGoesOn, MustIsAcked
    <2>3. ASSUME read'.settled, currentTerm'[read'.at] = read'.term,
                 NEW c \in read'.must \cap SteadyAcked'
          PROVE  Sees(c)' \/ Outvoted'
      <3>0. read.settled /\ currentTerm[read.at] = read.term /\ c \in Acked /\ c \in read.must
        BY <1>1, <2>1, <2>2, <2>3 DEF RoundGoesOn
      <3>1. write'[c] = write[c] /\ c \in read.must \cap SteadyAcked
        BY <2>3, <3>0, AckedMove DEF SteadyAcked
      <3>2. CASE Sees(c)
        BY <1>1, <3>1, <3>2 DEF Sees, RoundGoesOn
      <3>3. CASE Outvoted
        BY <1>1, <3>0, <3>3, OutvotedStays
      <3>4. QED BY <2>2, <3>0, <3>1, <3>2, <3>3
    <2>4. currentTerm'[read'.at] >= read'.term
      BY <1>1, <2>1, <2>2 DEF RoundGoesOn
    <2>5. \A m \in requests' : m.kind = "probe" => m.term <= currentTerm'[read'.at]
      BY <1>1, NextProbesAreOld DEF RoundGoesOn
    <2>6. QED BY <2>3, <2>4, <2>5 DEF RoundIsFair
  <1>2. CASE read'.phase # "round"
    BY <1>2 DEF RoundIsFair
  <1>3. QED BY <1>1, <1>2, RoundsMove, RoundBeginsFair

\* The round returns: who confirmed the leader includes one of any majority,
\* so none has gone on without it.
LEMMA NextIndexIsFresh ==
    ASSUME CallInv, [ClientNext]_allVars, MustIsAcked, RoundIsFair, IndexIsFresh
    PROVE  IndexIsFresh'
  <1>1. /\ read \in ReadType /\ read.acks \subseteq Node
        /\ read.phase = "round" => read.at \in Node
    BY DEF CallInv, ClientTypeOK, CallsHaveNodes, ReadType
  <1> SUFFICES ASSUME read'.phase = "indexed", read'.settled,
                      NEW c \in read'.must \cap SteadyAcked'
               PROVE  Sees(c)'
    BY DEF IndexIsFresh
  <1>2. CASE RoundReturns
    <2>1. /\ read'.index = read.index /\ read'.must = read.must
          /\ read.settled /\ currentTerm[read.at] = read.term /\ read.phase = "round"
      BY <1>1, <1>2 DEF RoundReturns, ReadType
    <2>2. c \in read.must \cap SteadyAcked /\ write'[c] = write[c]
      BY <1>2, <2>1 DEF RoundReturns, SteadyAcked, Acked
    <2>3. Sees(c) \/ Outvoted
      BY <2>1, <2>2 DEF RoundIsFair
    <2>4. ASSUME Outvoted PROVE FALSE
      <3>1. PICK A \in SUBSET Node :
               /\ IsMajority(A)
               /\ \A v \in A : currentTerm[v] > read.term /\ v \notin read.acks
        BY <2>4 DEF Outvoted
      <3>2. {read.at} \cup read.acks \in SUBSET Node /\ IsMajority({read.at} \cup read.acks)
        BY <1>1, <1>2, <2>1 DEF RoundReturns, Confirmed
      <3>3. PICK v \in Node : v \in A /\ v \in {read.at} \cup read.acks
        BY <3>1, <3>2, MajoritiesMeet, ProvenMajority
      <3>4. v = read.at /\ currentTerm[v] > currentTerm[v]
        BY <2>1, <3>1, <3>3
      <3>5. currentTerm[v] \in Nat
        BY ElectionFacts, RaftAssumption DEF CallInv
      <3>6. QED BY <3>4, <3>5
    <2>5. QED BY <2>1, <2>2, <2>3, <2>4 DEF Sees
  <1>3. CASE ~RoundReturns
    <2>1. /\ read.phase = "indexed" /\ read.settled
          /\ read'.must = read.must /\ read'.index = read.index
      <3>1. \A j \in Node : ~LinearizableRead(j)
        BY DEF LinearizableRead, NewRead
      <3>2. ~ReadIndexDeposes /\ ~ReadReturns /\ ~ReadFails
        <4>1. ASSUME NEW x, read' = [read EXCEPT !.phase = x] PROVE read'.phase = x
          BY <1>1, <4>1 DEF ReadType
        <4>2. ASSUME NEW x, read' = [read EXCEPT !.phase = "done", !.missed = x]
              PROVE  read'.phase = "done"
          BY <1>1, <4>2 DEF ReadType
        <4>3. QED BY <4>1, <4>2 DEF ReadIndexDeposes, ReadReturns, ReadFails
      <3>3. CASE read' = read
        BY <3>3
      <3>4. ASSUME NEW p \in read.silent, Probe(p)
            PROVE  /\ read.phase = "indexed" /\ read.settled
                   /\ read'.must = read.must /\ read'.index = read.index
        BY <1>1, <3>4 DEF Probe, ReadType
      <3>5. ASSUME NEW r \in replies, ReceiveProbeReply(r), read' # read PROVE FALSE
        BY <1>1, <3>5 DEF ReceiveProbeReply, ReadType
      <3>6. ASSUME RoundBegins PROVE FALSE
        <4>1. read'.phase = "round"
          BY <1>1, <3>6 DEF RoundBegins, ReadType
        <4>2. QED BY <4>1
      <3>7. QED BY <1>3, <3>1, <3>2, <3>3, <3>4, <3>5, <3>6, ReadMoves
    <2>2. c \in Acked
      BY <2>1 DEF MustIsAcked
    <2>3. write'[c] = write[c] /\ c \in SteadyAcked
      BY <2>2, AckedMove DEF SteadyAcked
    <2>4. Sees(c)
      BY <2>1, <2>3 DEF IndexIsFresh
    <2>5. QED BY <2>1, <2>3, <2>4 DEF Sees
  <1>4. QED BY <1>2, <1>3

\* The read returns: what is chosen up to its index has been applied.
LEMMA ReadReturnsFresh ==
    ASSUME CallInv, CommitInv, AckedIsChosen, MustIsAcked, IndexIsFresh, ReadReturns
    PROVE  MissedIsAcked' /\ SettledReadIsFresh'
  <1>0. PICK x : x = read.must \ {e.cmd : e \in Range(applied[read.via])}
    OBVIOUS
  <1>1. /\ read.phase = "indexed" /\ Len(applied[read.via]) >= read.index
        /\ read' = [read EXCEPT !.phase = "done", !.missed = x] /\ write' = write
    BY <1>0 DEF ReadReturns
  <1>2. /\ read.via \in Node /\ read.index \in Nat
        /\ read'.settled = read.settled /\ read'.missed = x /\ read'.phase = "done"
    BY <1>1, RaftAssumption DEF CallInv, CallsHaveNodes, ClientTypeOK, ReadType
  <1>3. PICK a \in Seq(Entries) :
           a = applied[read.via] /\ Len(a) \in Nat /\ Holds(a, chosen) /\ Len(chosen) \in Nat
    BY <1>2, CommitFacts DEF CommitInv, AppliedIsWarranted
  <1>4. ASSUME read.settled, NEW c \in read.must, write[c].steady
        PROVE  c \in {e.cmd : e \in Range(a)}
    <2>1. c \in SteadyAcked /\ write[c].index <= read.index
      BY <1>1, <1>4 DEF MustIsAcked, IndexIsFresh, Sees, SteadyAcked
    <2>2. write[c].index \in 1..Len(chosen) /\ chosen[write[c].index].cmd = c
      BY <2>1, AckedFacts
    <2>3. write[c].index \in 1..Len(a)
      BY <1>1, <1>2, <1>3, <2>1, <2>2
    <2>4. a[write[c].index].cmd = c
      BY <1>3, <2>2, <2>3 DEF Holds
    <2>5. a[write[c].index] \in Range(a)
      BY <1>3, <2>3 DEF Range
    <2>6. QED BY <2>4, <2>5
  <1>5. SettledReadIsFresh'
    BY <1>0, <1>1, <1>2, <1>3, <1>4 DEF SettledReadIsFresh
  <1>6. MissedIsAcked'
    BY <1>0, <1>1, <1>2 DEF MissedIsAcked, MustIsAcked, Acked
  <1>7. QED BY <1>5, <1>6

\* What the read has missed is known when it has returned.
LEMMA NextReadIsFresh ==
    ASSUME CallInv, CommitInv, [ClientNext]_allVars, AckedIsChosen, MustIsAcked, IndexIsFresh,
           MissedIsAcked, SettledReadIsFresh
    PROVE  MissedIsAcked' /\ SettledReadIsFresh'
  <1>1. read \in ReadType
    BY DEF CallInv, ClientTypeOK
  <1>2. ASSUME read'.missed = read.missed, read'.settled = read.settled,
               read'.phase = read.phase
        PROVE  MissedIsAcked' /\ SettledReadIsFresh'
    <2>1. Acked \subseteq Acked' /\ \A c \in read.missed : write'[c] = write[c]
      BY AckedMove DEF MissedIsAcked
    <2>2. QED BY <1>2, <2>1 DEF MissedIsAcked, SettledReadIsFresh
  <1>3. ASSUME read'.missed = {} PROVE MissedIsAcked' /\ SettledReadIsFresh'
    BY <1>3 DEF MissedIsAcked, SettledReadIsFresh
  <1>4. ASSUME NEW j \in Node, LinearizableRead(j) PROVE read'.missed = {}
    BY <1>4 DEF LinearizableRead, NewRead
  <1>5. ASSUME \/ \E p \in read.silent : Probe(p)
               \/ \E r \in replies : ReceiveProbeReply(r)
        PROVE  /\ read'.missed = read.missed /\ read'.settled = read.settled
               /\ read'.phase = read.phase
    BY <1>1, <1>5 DEF Probe, ReceiveProbeReply, ReadType
  <1>6. ASSUME ReadIndexDeposes \/ RoundBegins \/ RoundReturns \/ ReadFails
        PROVE  read'.missed = {}
    BY <1>1, <1>6 DEF ReadIndexDeposes, RoundBegins, RoundReturns, ReadFails, ReadType,
                      MissedIsAcked
  <1>7. QED
    BY <1>2, <1>3, <1>4, <1>5, <1>6, ReadMoves, ReadReturnsFresh

-----------------------------------------------------------------------------
(* The theorems *)

\* The invariant holds at the start.
LEMMA InitClientInv == ClientInit => ClientInv
  <1> SUFFICES ASSUME ClientInit PROVE ClientInv
    OBVIOUS
  <1>1. CallInv /\ CommitInv
    BY InitCallInv, InitCommitInv DEF ClientInit
  <1>2. /\ \A c \in Command : write[c].phase = "new"
        /\ read.phase = "new" /\ ~read.settled /\ read.missed = {}
        /\ read.silent = {} /\ read.acks = {} /\ requests = {} /\ replies = {}
    BY DEF ClientInit, NewWrite, NewRead, Init
  <1>3. Acked = {}
    BY <1>2 DEF Acked
  <1>4. WaitingPrevail /\ AckedIsChosen /\ OwnersHaveCommitted
    BY <1>2, <1>3 DEF WaitingPrevail, AckedIsChosen, OwnersHaveCommitted, SteadyAcked
  <1>5. /\ ReadIsNew /\ MustIsAcked /\ RoundIsFair /\ IndexIsFresh /\ MissedIsAcked
        /\ SettledReadIsFresh
    BY <1>2 DEF ReadIsNew, MustIsAcked, RoundIsFair, IndexIsFresh, MissedIsAcked,
                SettledReadIsFresh
  <1>6. QED BY <1>1, <1>4, <1>5 DEF ClientInv

\* Every step keeps it.
LEMMA NextClientInv ==
    ASSUME NobodyMisleads, ClientInv, [ClientNext]_allVars
    PROVE  ClientInv'
  <1>1. CallInv' /\ CommitInv'
    BY ClusterGoesOn DEF ClientInv
  <1>2. WaitingPrevail' /\ AckedIsChosen' /\ OwnersHaveCommitted'
    BY NextWaitingPrevail, NextAckedIsChosen, NextOwnersHaveCommitted DEF ClientInv
  <1>3. ReadIsNew' /\ MustIsAcked' /\ RoundIsFair' /\ IndexIsFresh'
    BY NextReadIsNew, NextMustIsAcked, NextRoundIsFair, NextIndexIsFresh DEF ClientInv
  <1>4. MissedIsAcked' /\ SettledReadIsFresh'
    BY NextReadIsFresh DEF ClientInv
  <1>5. QED BY <1>1, <1>2, <1>3, <1>4 DEF ClientInv

\* So do steps that leave the cluster alone.
LEMMA StepClientInv ==
    ASSUME ClientInv, [ClientNext]_allVars, [NobodyMisleads]_raftVars
    PROVE  ClientInv'
  <1>1. CASE UNCHANGED raftVars
    <2>1. ASSUME NEW r \in replies, ReceiveReply(r) PROVE FALSE
      BY <1>1, <2>1 DEF ReceiveReply, raftVars, callVars
    <2>2. QED BY <2>1, NextClientInv DEF NobodyMisleads
  <1>2. QED BY <1>1, NextClientInv

\* So it is an invariant.
LEMMA ClientInvariance == ClientSpec /\ NobodyIsMisled => []ClientInv
  <1>1. ClientInv /\ [ClientNext]_allVars /\ [NobodyMisleads]_raftVars => ClientInv'
    BY StepClientInv
  <1>2. QED
    BY <1>1, InitClientInv, PTL DEF ClientSpec, allVars, NobodyIsMisled, NobodyMisleads

\* A write that was acknowledged, by answers to the leadership it was proposed
\* to, is in the log of a majority, from then on and whoever leads, also if
\* that leadership ended while Propose was waiting.
THEOREM AckedWritesAreStored == ClientSpec /\ NobodyIsMisled => []AckedIsOnMajority
  <1>1. ClientInv => AckedIsOnMajority
    BY AckedIsEverywhere DEF ClientInv, AckedIsOnMajority, SteadyAcked
  <1>2. QED BY <1>1, ClientInvariance, PTL

\* Wherever the index of such a write has been applied.
AckedIsApplied ==
    \A c \in SteadyAcked : \A i \in Node :
        Len(applied[i]) >= write[c].index => applied[i][write[c].index].cmd = c

\* Each state machine that has come as far as an acknowledged write's index
\* has been given that write there, also after elections (applyCommitted).
THEOREM AckedWritesAreApplied == ClientSpec /\ NobodyIsMisled => []AckedIsApplied
  <1>1. ASSUME ClientInv, NEW c \in SteadyAcked, NEW i \in Node,
               Len(applied[i]) >= write[c].index
        PROVE  applied[i][write[c].index].cmd = c
    <2>1. write[c].index \in 1..Len(chosen) /\ chosen[write[c].index].cmd = c
      BY <1>1, AckedFacts DEF ClientInv
    <2>2. Holds(applied[i], chosen) /\ Len(applied[i]) \in Nat /\ Len(chosen) \in Nat
      BY <1>1, CommitFacts DEF ClientInv, CommitInv, AppliedIsWarranted
    <2>3. write[c].index \in 1..Len(applied[i])
      BY <1>1, <2>1, <2>2
    <2>4. QED BY <2>1, <2>2, <2>3 DEF Holds
  <1>2. ClientInv => AckedIsApplied
    BY <1>1 DEF AckedIsApplied
  <1>3. QED BY <1>2, ClientInvariance, PTL

\* A strong read whose leader had settled returns every such write that was
\* acknowledged before it began: a majority of probes rules out every deposed
\* leader, and the commit index taken before the round covers what was
\* acknowledged by this leader and those before it (confirmRound,
\* LinearizableRead).
THEOREM SettledReadsAreFresh == ClientSpec /\ NobodyIsMisled => []SettledReadIsFresh
  <1>1. ClientInv => SettledReadIsFresh
    BY DEF ClientInv
  <1>2. QED BY <1>1, ClientInvariance, PTL

\* Probes, which carry commit indexes and depose leaders, leave logs that agree
\* on an entry in agreement on all before it, late replies or not (AppendAfter).
THEOREM ProbesKeepLogs == ClientSpec => [](RaftTypeOK /\ LogMatching)
  <1>1. ClientInit => CallInv /\ MatchingInv
    BY InitCallInv, InitMatchingInv DEF ClientInit
  <1>2. CallInv /\ MatchingInv /\ [ClientNext]_allVars => CallInv' /\ MatchingInv'
    BY NextCallInv, ClientsStepIsNextOrProbe, NextMatchingInv
  <1>3. MatchingInv => RaftTypeOK /\ LogMatching
    BY RaftInvTyped, AgreementImpliesMatching DEF MatchingInv
  <1>4. QED BY <1>1, <1>2, <1>3, PTL DEF ClientSpec, allVars

\* Nor do they take anything from what replication promises.
THEOREM ProbesKeepSafety ==
    ClientSpec /\ NobodyIsMisled =>
       [](StateMachineSafety /\ LeaderCompleteness /\ CommittedIsStored /\ CountedIsStored)
  <1>1. ClientInv => /\ StateMachineSafety /\ LeaderCompleteness
                     /\ CommittedIsStored /\ CountedIsStored
    BY CommitInvImplies DEF ClientInv
  <1>2. QED BY <1>1, ClientInvariance, PTL

\* Nor from what elections are: a probe's answer may end a leadership, and a
\* probe may tell a node of a leader, as any request may.
THEOREM ClientsKeepElections == ClientSpec => ElectionSpec
  <1>1. ClientInit => CallInv /\ E!Init
    BY InitCallInv DEF ClientInit, Init
  <1>2. CallInv /\ [ClientNext]_allVars => CallInv'
    BY NextCallInv
  <1>3. CallInv /\ CallInv' /\ [ClientNext]_allVars => [E!Next]_(E!electionVars)
    BY ClientsStepIsNextOrProbe, NextIsElectionStep DEF CallInv, RaftInv
  <1>4. QED
    BY <1>1, <1>2, <1>3, PTL DEF ClientSpec, allVars, ElectionSpec, E!Spec

\* State machines are given what module ReplicatedLog promises, while clients
\* write and read.
THEOREM ClientsSeeReplicatedLog == ClientSpec /\ NobodyIsMisled => ReplicatedLogSpec
  <1>1. ClientInit => R!Init
    BY DEF ClientInit, Init, R!Init
  <1>2. ClientInv /\ ClientInv' /\ [ClientNext]_allVars => [R!Next]_<<chosen, applied>>
    BY ClientsStepIsNextOrProbe, ClientsKeepTerms, NextIsReplicatedLogStep DEF ClientInv
  <1>3. QED
    BY <1>1, <1>2, ClientInvariance, PTL DEF ClientSpec, allVars, ReplicatedLogSpec, R!Spec

\* What leaders have sent is kept, with clients, too.
LEMMA ClientsKeepSent == ClientSpec => []KeptInv
  <1>1. ClientInit => CallInv /\ KeptInv
    BY InitCallInv, InitCommitInv DEF ClientInit, CommitInv, KeptInv, SentIsKept, Init
  <1>2. CallInv /\ KeptInv /\ [ClientNext]_allVars => CallInv' /\ KeptInv'
    BY NextCallInv, ClientsStepIsNextOrProbe, ClientsKeepTerms, NextKeptInv
  <1>3. QED BY <1>1, <1>2, PTL DEF ClientSpec, allVars

\* No reply misleads a node here, either, unless it has been replaced in between
\* and leads again.
THEOREM WhoMisleadsClients == ClientSpec /\ []NobodyLeadsAgain => NobodyIsMisled
  <1>1. KeptInv /\ NobodyLeadsAgain => NobodyMisleads
    BY KeptRepliesAreTrue
  <1>2. QED BY <1>1, ClientsKeepSent, PTL DEF NobodyIsMisled, NobodyMisleads

\* In two terms that cannot be, and nothing is left to assume.
THEOREM TwoTermsServeClients ==
    ASSUME MaxTerm <= 2
    PROVE  ClientSpec => /\ []AckedIsOnMajority /\ []SettledReadIsFresh /\ []CommittedIsStored
                         /\ ReplicatedLogSpec
  <1>1. KeptInv => NobodyMisleads
    BY KeptRepliesAreTrue
  <1>2. ClientSpec => NobodyIsMisled
    BY <1>1, ClientsKeepSent, PTL DEF NobodyIsMisled, NobodyMisleads
  <1>3. [](StateMachineSafety /\ LeaderCompleteness /\ CommittedIsStored /\ CountedIsStored)
           => []CommittedIsStored
    BY PTL
  <1>4. QED
    BY <1>2, <1>3, AckedWritesAreStored, SettledReadsAreFresh, ProbesKeepSafety,
       ClientsSeeReplicatedLog, PTL
====
