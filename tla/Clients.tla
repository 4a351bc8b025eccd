------------------------------- MODULE Clients -------------------------------
(***************************************************************************)
(* What clients of raftkv see: writes through ProposeOrForward and         *)
(* HandleForward (internal/raft/read.go) into Propose (node.go), and       *)
(* strong reads through LinearizableRead, HandleReadIndex, confirmRound    *)
(* and probe (read.go), as handlePut and handleGet of internal/api use     *)
(* them, composed with module Raft.                                        *)
(*                                                                         *)
(* Every command is written once, by a client that gives up when it gets   *)
(* an error, and there is one strong read.  A write begins for us when it  *)
(* reaches the leader; a read begins at the node that the client asked.    *)
(* Processes do not crash here: a call that dies with its process is a call *)
(* that fails, and what a restart does to the cluster is in the runs of Raft. *)
(* How the reads of one leader share rounds is the subject of module ReadPath. *)
(***************************************************************************)
EXTENDS Raft

VARIABLES write,   \* the write of each command, and its Propose
          read     \* the strong read, and its confirmRound

clientVars == <<write, read>>

\* "waiting": appended, counting answers.
WriteType ==
    [phase : {"new", "waiting", "acked", "failed"},
     at : Node \cup {None},   \* the node whose Propose it is
     term : 0..MaxTerm,       \* the term and the index of the entry
     index : 0..MaxLog,
     acks : SUBSET Node,      \* peers whose replicateTo returned true
     steady : BOOLEAN]        \* history: no answer was counted for it that
                              \* a later leadership of the node had asked for

\* "asking": ReadIndex knows whom to ask; "round": in confirmRound; "indexed":
\* in WaitForApplied.
ReadType ==
    [phase : {"new", "asking", "round", "indexed", "done", "failed"},
     via : Node \cup {None},   \* the node the client asked
     at : Node \cup {None},    \* the node that confirms its leadership
     term : 0..MaxTerm,        \* the term of the node that was asked; then,
                               \* history: of the leader as the round began
     index : 0..MaxLog,        \* readIndex
     silent : SUBSET Node,     \* peers that have not been probed yet
     acks : SUBSET Node,       \* peers whose probe returned true
     must : SUBSET Command,    \* history: writes acknowledged before it began
     settled : BOOLEAN,        \* history: the entry at readIndex is of the
                               \* term that the leader was and remained in
     missed : SUBSET Command]  \* history: what it had to return and did not

NewWrite == [phase |-> "new", at |-> None, term |-> 0, index |-> 0,
             acks |-> {}, steady |-> TRUE]

NewRead == [phase |-> "new", via |-> None, at |-> None, term |-> 0, index |-> 0,
            silent |-> {}, acks |-> {}, must |-> {}, settled |-> FALSE,
            missed |-> {}]

ClientInit ==
    /\ Init
    /\ write = [c \in Command |-> NewWrite]
    /\ read = NewRead

Acked == {c \in Command : write[c].phase = "acked"}

\* Where node j sends what only a leader can do: itself, or leaderPeer.
Leaders(j) == IF role[j] = "Leader" THEN {j} ELSE {leaderID[j]} \ {None, j}

-----------------------------------------------------------------------------
(* Writes *)

\* handlePut at node j, up to where Propose has appended the command: any
\* node takes a write and forwards it (HandleForward) if need be.
ProposeOrForward(c, j) ==
    /\ write[c].phase = "new"
    /\ \E i \in Leaders(j) :
          /\ Propose(i, c)
          /\ write' = [write EXCEPT ![c] =
                [NewWrite EXCEPT !.phase = "waiting", !.at = i,
                                 !.term = currentTerm[i],
                                 !.index = LastIndex(log'[i])]]
    /\ UNCHANGED read

\* The reply ends a replicateTo that Propose started for c: its request was
\* sent in the same leadership with the entry in it, or by a loop that has
\* lived on into a later leadership of the node.
Acknowledges(r, c) ==
    /\ write[c].phase = "waiting"
    /\ write[c].at = r.from
    /\ r.success /\ r.respTerm <= currentTerm[r.from]
    /\ \/ r.term = write[c].term /\ r.upTo >= write[c].index
       \/ r.term > write[c].term

\* History: whether only answers to its own leadership have been counted.
StillSteady(r, c) == write[c].steady /\ r.term = write[c].term

ReceiveAck(r) ==
    /\ ReceiveReply(r)
    /\ write' = [c \in Command |->
                   IF Acknowledges(r, c)
                   THEN [write[c] EXCEPT !.acks = @ \cup {r.to},
                                         !.steady = StillSteady(r, c)]
                   ELSE write[c]]
    /\ UNCHANGED read

\* A majority has answered: advanceCommit and applyCommitted, then the last
\* look at the commit index.
ProposeReturns(c) ==
    LET i == write[c].at
        index == write[c].index
    IN  /\ write[c].phase = "waiting"
        /\ IsMajority({i} \cup write[c].acks)
        /\ IF role[i] = "Leader" /\ Committable(i) # {} THEN AdvanceCommit(i)
                                                        ELSE UNCHANGED raftVars
        /\ write' = [write EXCEPT ![c] =
              IF commitIndex'[i] >= index
              THEN [NewWrite EXCEPT !.phase = "acked", !.index = index,
                                    !.steady = write[c].steady]
              ELSE [NewWrite EXCEPT !.phase = "failed"]]
        /\ UNCHANGED read

\* No leader known or no leader there, an append that failed, too few answers, the
\* client's deadline, or an answer that got lost on the way back.
ProposeFails(c) ==
    /\ write[c].phase \in {"new", "waiting"}
    /\ write' = [write EXCEPT ![c] = [NewWrite EXCEPT !.phase = "failed"]]
    /\ UNCHANGED <<raftVars, read>>

-----------------------------------------------------------------------------
(* Strong reads *)

\* Mutant: the index that will be committed next.
ReadIndexNext(i) == commitIndex[i] + 1

\* What confirmRound captures before it asks anybody.
ReadIndex(i) == commitIndex[i]

\* handleGet at node j, up to where ReadIndex knows whom to ask: the node
\* itself, or the leader it has heard of.
LinearizableRead(j) ==
    /\ read.phase = "new"
    /\ \E i \in Leaders(j) :
          read' = [NewRead EXCEPT !.phase = "asking", !.via = j, !.at = i,
                                  !.term = currentTerm[j], !.must = Acked]
    /\ UNCHANGED <<raftVars, write>>

\* The terms the request may carry: Term() is called after leaderPeer(), and
\* the node may have moved on in between.
AskedTerms == {read.term, currentTerm[read.via]}

\* HandleReadIndex learns of a newer term from the request.
ReadIndexDeposes ==
    /\ read.phase = "asking"
    /\ UNCHANGED <<log, leaderVars, applyVars, callVars, write>>
    /\ \E t \in AskedTerms :
          /\ t > currentTerm[read.at]
          /\ E!ObserveTerm(read.at, t)
    /\ read' = [read EXCEPT !.phase = "failed"]

\* ConfirmLeadership at the leader, up to where confirmRound has captured the
\* commit index.
RoundBegins ==
    LET i == read.at
    IN  /\ read.phase = "asking"
        /\ \E t \in AskedTerms : t <= currentTerm[i]
        /\ role[i] = "Leader"
        /\ read' = [read EXCEPT
              !.phase = "round", !.term = currentTerm[i], !.index = ReadIndex(i),
              !.silent = Peers(i),
              !.settled = TermAt(log[i], ReadIndex(i)) = currentTerm[i]]
        /\ UNCHANGED <<raftVars, write>>

\* One of the round's goroutines gets to run, during the round or long after:
\* anchored at the sentinel, no entries, and the term and commit index of this
\* moment.
Probe(p) ==
    /\ p \in read.silent
    /\ role[read.at] = "Leader"
    /\ Send([Request(read.at, p, 0, "probe") EXCEPT !.entries = <<>>])
    /\ read' = [read EXCEPT !.silent = @ \ {p}]
    /\ UNCHANGED <<electionVars, log, leaderVars, applyVars, replies, write>>

\* The reply to a probe: a newer term ends the leadership.
ReceiveProbeReply(r) ==
    /\ r.kind = "probe"
    /\ replies' = replies \ {r}
    /\ \/ StepDown(r) /\ UNCHANGED read
       \/ /\ r.respTerm <= currentTerm[r.from]
          /\ read' = IF read.phase = "round" /\ r.success
                     THEN [read EXCEPT !.acks = @ \cup {r.to}] ELSE read
          /\ UNCHANGED <<electionVars, log, leaderVars>>
    /\ UNCHANGED <<applyVars, requests, write>>

\* Mutant: the leader believes itself.
ConfirmedBySelf == TRUE

\* The loop of confirmRound is over ...
Confirmed == IsMajority({read.at} \cup read.acks)

\* ... and the node is, or is again, the leader.  The other probes still go
\* out.
RoundReturns ==
    /\ read.phase = "round"
    /\ Confirmed
    /\ role[read.at] = "Leader"
    /\ read' = [read EXCEPT !.phase = "indexed", !.acks = {},
                            !.settled = @ /\ currentTerm[read.at] = read.term]
    /\ UNCHANGED <<raftVars, write>>

\* WaitForApplied returns and handleGet reads the state machine.
ReadReturns ==
    /\ read.phase = "indexed"
    /\ Len(applied[read.via]) >= read.index
    /\ read' = [read EXCEPT !.phase = "done",
                            !.missed = read.must \ {e.cmd : e \in Range(applied[read.via])}]
    /\ UNCHANGED <<raftVars, write>>

\* ErrNotLeader, ErrLeadershipLost, ErrNoLeader, or the client's deadline.
ReadFails ==
    /\ read.phase \in {"new", "asking", "round", "indexed"}
    /\ read' = [read EXCEPT !.phase = "failed"]
    /\ UNCHANGED <<raftVars, write>>

-----------------------------------------------------------------------------
ClientNext ==
    \/ Background /\ UNCHANGED clientVars
    \/ \E c \in Command : \/ \E j \in Node : ProposeOrForward(c, j)
                          \/ ProposeReturns(c)
                          \/ ProposeFails(c)
    \/ \E r \in replies : ReceiveAck(r) \/ ReceiveProbeReply(r)
    \/ \E j \in Node : LinearizableRead(j)
    \/ ReadIndexDeposes
    \/ RoundBegins
    \/ \E p \in read.silent : Probe(p)
    \/ RoundReturns
    \/ ReadReturns
    \/ ReadFails

ClientSpec == ClientInit /\ [][ClientNext]_<<raftVars, clientVars>>

-----------------------------------------------------------------------------
ClientTypeOK == write \in [Command -> WriteType] /\ read \in ReadType

StoredOnMajority(c) ==
    IsMajority({i \in Node :
        write[c].index \in DOMAIN log[i] /\ log[i][write[c].index].cmd = c})

\* A write that was acknowledged is in the log of a majority, from then on and
\* whoever leads, also if its node lost its leadership while Propose was
\* waiting.  Left out are the writes for which Propose counted an answer to a
\* request of a later leadership of its node.
AckedIsOnMajority == \A c \in Acked : write[c].steady => StoredOnMajority(c)

\* What propose promises of every write: "a 204 means durable on a majority of
\* the cluster".
AckedIsDurable == \A c \in Acked : StoredOnMajority(c)

\* A strong read returns every write acknowledged before it began (by answers
\* to requests of the leadership it was proposed to), if the leader that
\* confirmed it had already committed an entry of its own term and led in that
\* term to the end of the round: the quorum of probes rules out every deposed
\* leader, and the commit index taken before the round covers every
\* acknowledged write.
SettledReadIsFresh == read.settled => \A c \in read.missed : ~write[c].steady

\* What handleGet promises of every strong read: it "reflects every write
\* acknowledged before this read started".
StrongReadIsFresh == read.missed = {}
=============================================================================
