-------------------------------- MODULE Raft ---------------------------------
(***************************************************************************)
(* Log replication in raftkv (internal/raft/node.go: Propose, replicateTo, *)
(* advanceCommit, applyCommitted, handleAppendEntries), composed with the  *)
(* elections of module Election over real logs.  What clients see of it    *)
(* is in module Clients.                                                   *)
(*                                                                         *)
(* One action is one critical section of n.mu together with what the same  *)
(* goroutine does before anybody could notice.  Two gaps that somebody     *)
(* could notice are closed here: Propose appends to the log, and           *)
(* replicateTo reads it, after n.mu has been released.  Module RaftGaps    *)
(* opens the first one.                                                    *)
(***************************************************************************)
EXTENDS Cluster, RaftLog, SequencesExt

CONSTANTS
    Command,          \* client commands (wal.Record without term and index)
    Noop,             \* the command {Op: wal.OpNoop}
    Faults,           \* as in module Election; "disk" also fails log writes
    MaxTerm,          \* bound: no node campaigns beyond this term
    MaxLog,           \* bound: a leader appends up to this index
    MaxVoteCalls,     \* bound: RequestVote calls in the network at one time
    MaxAppendCalls    \* bound: AppendEntries calls in the network at one time

ASSUME RaftAssumption ==
    /\ Noop \notin Command
    /\ Faults \subseteq {"disk", "crash", "delay"}
    /\ MaxTerm \in Nat
    /\ MaxLog \in Nat
    /\ MaxVoteCalls \in Nat
    /\ MaxAppendCalls \in Nat

VARIABLES
    currentTerm, votedFor, role, leaderID, disk, campaign, voteCalls,
    elected, topTerm,   \* see module Election
    log,            \* Node.log
    commitIndex,    \* Node.commitIndex
    applied,        \* what the state machine was given: lastApplied entries
    nextIndex,      \* Node.nextIndex
    matchIndex,     \* Node.matchIndex
    requests,       \* AppendEntries requests in the network
    replies,        \* AppendEntries replies in the network
    chosen          \* history: the longest log prefix anybody has applied

electionVars == <<currentTerm, votedFor, role, leaderID, disk, campaign,
                  voteCalls, elected, topTerm>>
leaderVars == <<nextIndex, matchIndex>>
applyVars == <<commitIndex, applied, chosen>>
callVars == <<requests, replies>>
raftVars == <<electionVars, log, leaderVars, applyVars, callVars>>

\* The position a log ends at, all that an election sees of it.
LastOf(l) == [index |-> LastIndex(l), term |-> LastTerm(l)]

E == INSTANCE Election WITH
        last <- [i \in Node |-> LastOf(log[i])],
        LastEntry <- {LastOf(<<>>)} \cup [index : 1..MaxLog, term : 1..MaxTerm],
        probes <- [i \in Node |-> {}],
        Windows <- {}

Entries == [term : 1..MaxTerm, cmd : Command \cup {Noop}]

R == INSTANCE ReplicatedLog WITH Entry <- Entries, MaxBatch <- MaxLog

-----------------------------------------------------------------------------
Init ==
    /\ log = [i \in Node |-> <<>>]
    /\ E!Init
    /\ commitIndex = [i \in Node |-> 0]
    /\ applied = [i \in Node |-> <<>>]
    /\ nextIndex = [i \in Node |-> [p \in Peers(i) |-> 1]]
    /\ matchIndex = [i \in Node |-> [p \in Peers(i) |-> 0]]
    /\ requests = {}
    /\ replies = {}
    /\ chosen = <<>>

-----------------------------------------------------------------------------
(* Elections *)

\* The steps of module Election that touch nothing here.
ElectionStep ==
    /\ UNCHANGED <<log, leaderVars, applyVars, callVars>>
    /\ \/ \E i \in Node : E!Campaign(i)
       \/ \E c \in voteCalls : \/ E!HandleRequestVote(c)
                               \/ E!ReceiveVote(c)
                               \/ E!VoteCallFails(c)

\* winElection; becomeLeaderLocked assumes that every peer is caught up.
WinElection(i) ==
    /\ UNCHANGED <<log, applyVars, callVars>>
    /\ E!WinElection(i)
    /\ IF role'[i] = "Leader"
       THEN /\ nextIndex' = [nextIndex EXCEPT ![i] =
                               [p \in Peers(i) |-> LastIndex(log[i]) + 1]]
            /\ matchIndex' = [matchIndex EXCEPT ![i] = [p \in Peers(i) |-> 0]]
       ELSE UNCHANGED leaderVars

-----------------------------------------------------------------------------
(* Propose, up to the append; the rest of it is replicateTo and advanceCommit *)

AppendToLog(i, term, cmd) ==
    /\ LastIndex(log[i]) < MaxLog
    /\ log' = [log EXCEPT ![i] = Append(@, [term |-> term, cmd |-> cmd])]

\* A write of a client, or one another node forwarded (HandleForward).
Propose(i, cmd) ==
    /\ role[i] = "Leader"
    /\ AppendToLog(i, currentTerm[i], cmd)
    /\ UNCHANGED <<electionVars, leaderVars, applyVars, callVars>>

\* winElection proposes its no-op and returns; somebody may have deposed the
\* node before that, or the log cannot be written.
ProposeNoop(i) ==
    /\ \/ role[i] = "Leader" /\ AppendToLog(i, currentTerm[i], Noop)
       \/ (role[i] # "Leader" \/ "disk" \in Faults) /\ log' = log
    /\ E!ReturnFromWin(i)
    /\ UNCHANGED <<leaderVars, applyVars, callVars>>

-----------------------------------------------------------------------------
(* replicateTo: sending *)

Send(m) ==
    /\ Cardinality(requests) + Cardinality(replies) < MaxAppendCalls
    /\ requests' = requests \cup {m}

Request(i, p, prev, kind) ==
    [from |-> i, to |-> p, term |-> currentTerm[i], kind |-> kind,
     prevIndex |-> prev, prevTerm |-> TermAt(log[i], prev),
     entries |-> EntriesFrom(log[i], prev + 1),
     commit |-> commitIndex[i], waited |-> TRUE]

\* A heartbeat, or the replication of a proposal: one pass of replicateTo's
\* loop, up to the call.  Any leader may get here, at any time: a loop that
\* started under an earlier leadership of the node goes on under a new one.
Replicate(i, p) ==
    /\ role[i] = "Leader"
    /\ Send(Request(i, p, nextIndex[i][p] - 1, "replicate"))
    /\ UNCHANGED <<electionVars, log, leaderVars, applyVars, replies>>

-----------------------------------------------------------------------------
(* HandleAppendEntries *)

\* replyLocked, after the handler's changes.
Reply(m, ok) ==
    /\ requests' = requests \ {m}
    /\ replies' = IF ~m.waited THEN replies
                  ELSE replies \cup
                    {[from |-> m.from, to |-> m.to, term |-> m.term, kind |-> m.kind,
                      upTo |-> m.prevIndex + Len(m.entries),
                      respTerm |-> currentTerm'[m.to], success |-> ok,
                      lastIndex |-> LastIndex(log'[m.to])]}

\* Mutants: no guard against older commit indexes; no cap at all.
CommitAfterAny(i, m) ==
    LET lastNew == m.prevIndex + Len(m.entries)
    IN  IF m.commit <= lastNew THEN m.commit ELSE lastNew

CommitAfterUncapped(i, m) ==
    IF m.commit <= commitIndex[i] THEN commitIndex[i] ELSE m.commit

\* Rule 4: the leader's commit index, capped by what this request covered.
CommitAfter(i, m) ==
    LET lastNew == m.prevIndex + Len(m.entries)
    IN  IF m.commit <= commitIndex[i] THEN commitIndex[i]
        ELSE IF m.commit <= lastNew THEN m.commit ELSE lastNew

\* applyCommitted: everything up to the commit index that has not been
\* applied yet goes to the state machine, in order.
ApplyCommitted(i) ==
    /\ applied' = [applied EXCEPT ![i] =
         @ \o SubSeq(log'[i], Len(@) + 1,
                     IF commitIndex'[i] <= Len(log'[i]) THEN commitIndex'[i]
                                                        ELSE Len(log'[i]))]
    /\ chosen' = IF Len(applied'[i]) > Len(chosen) THEN applied'[i] ELSE chosen

\* Rule 1.
RejectStale(i, m) ==
    /\ m.term < currentTerm[i]
    /\ UNCHANGED <<electionVars, log, applyVars>>
    /\ Reply(m, FALSE)

\* Rule 3 fails: there is no entry to anchor the request to.
RejectGap(i, m) ==
    /\ ~Match(log[i], m.prevIndex, m.prevTerm)
    /\ log' = log
    /\ E!HeedLeader(i, m.term, m.from)
    /\ leaderID'[i] = m.from
    /\ UNCHANGED applyVars
    /\ Reply(m, FALSE)

\* All rules pass.
Accept(i, m) ==
    /\ Match(log[i], m.prevIndex, m.prevTerm)
    /\ log' = [log EXCEPT ![i] = AfterAppend(@, m.prevIndex, m.entries)]
    /\ E!HeedLeader(i, m.term, m.from)
    /\ leaderID'[i] = m.from
    /\ commitIndex' = [commitIndex EXCEPT ![i] = CommitAfter(i, m)]
    /\ ApplyCommitted(i)
    /\ Reply(m, TRUE)

\* Rule 2 cannot persist the newer term: an error, which the caller sees as
\* no reply at all.
FailAppend(i, m) ==
    /\ log' = log
    /\ E!HeedLeader(i, m.term, m.from)
    /\ leaderID'[i] # m.from
    /\ requests' = requests \ {m}
    /\ UNCHANGED <<applyVars, replies>>

\* Rule 3 stops half-way: the log cannot be cut, or only some of the new
\* entries can be stored.  The caller sees an error here, too.
FailStore(i, m) ==
    LET k == SkipCount(log[i], m.prevIndex, m.entries)
        Stored(j) == SubSeq(log[i], 1, m.prevIndex + k) \o SubSeq(m.entries, k + 1, j)
    IN  /\ "disk" \in Faults
        /\ Match(log[i], m.prevIndex, m.prevTerm)
        /\ k < Len(m.entries)
        /\ \E l \in {log[i]} \cup {Stored(j) : j \in k..Len(m.entries) - 1} :
              log' = [log EXCEPT ![i] = l]
        /\ E!HeedLeader(i, m.term, m.from)
        /\ leaderID'[i] = m.from
        /\ requests' = requests \ {m}
        /\ UNCHANGED <<applyVars, replies>>

HandleAppendEntries(m) ==
    /\ \/ RejectStale(m.to, m)
       \/ RejectGap(m.to, m)
       \/ Accept(m.to, m)
       \/ FailAppend(m.to, m)
       \/ FailStore(m.to, m)
    /\ UNCHANGED <<leaderVars>>

-----------------------------------------------------------------------------
(* replicateTo: the reply, or none *)

\* Mutant: any other term will do.
StepDownToAny(r) ==
    /\ r.respTerm # currentTerm[r.from]
    /\ UNCHANGED <<log, leaderVars, campaign, voteCalls, elected, topTerm>>
    /\ E!SetTerm(r.from, r.respTerm)

\* A reply with a newer term: this node is not the leader any more.
StepDown(r) ==
    /\ r.respTerm > currentTerm[r.from]
    /\ UNCHANGED <<log, leaderVars>>
    /\ E!ObserveTerm(r.from, r.respTerm)

\* Mutants: the entry itself is next; the end of the peer's log is a match.
MatchedNoStep(r) ==
    /\ matchIndex' = [matchIndex EXCEPT ![r.from][r.to] = r.upTo]
    /\ nextIndex' = [nextIndex EXCEPT ![r.from][r.to] = r.upTo]

MatchedToEnd(r) ==
    /\ matchIndex' = [matchIndex EXCEPT ![r.from][r.to] = r.lastIndex]
    /\ nextIndex' = [nextIndex EXCEPT ![r.from][r.to] = r.lastIndex + 1]

\* resp.Success
Matched(r) ==
    /\ matchIndex' = [matchIndex EXCEPT ![r.from][r.to] = r.upTo]
    /\ nextIndex' = [nextIndex EXCEPT ![r.from][r.to] = r.upTo + 1]

\* Rejected: jump back to the end of the peer's log, or by one entry.
WalkBack(r) ==
    /\ nextIndex' = [nextIndex EXCEPT ![r.from][r.to] =
          IF r.lastIndex + 1 < @ THEN r.lastIndex + 1
          ELSE IF @ > 1 THEN @ - 1 ELSE @]
    /\ UNCHANGED matchIndex

\* The node may have lost its leadership since it sent the request, and may
\* have won another: nobody asks.
ReceiveReply(r) ==
    /\ r.kind = "replicate"
    /\ replies' = replies \ {r}
    /\ \/ StepDown(r)
       \/ /\ r.respTerm <= currentTerm[r.from]
          /\ UNCHANGED <<log, electionVars>>
          /\ IF r.success THEN Matched(r) ELSE WalkBack(r)
    /\ UNCHANGED <<applyVars, requests>>

\* The call fails; its request may still arrive.
AppendCallFails(m) ==
    /\ m.waited
    /\ requests' = (requests \ {m}) \cup
          (IF "delay" \in Faults
           THEN {[m EXCEPT !.waited = FALSE]} ELSE {})
    /\ UNCHANGED <<electionVars, log, leaderVars, applyVars, replies>>

ReplyLost(r) ==
    /\ replies' = replies \ {r}
    /\ UNCHANGED <<electionVars, log, leaderVars, applyVars, requests>>

-----------------------------------------------------------------------------
\* Mutant: a peer that has the entry before n counts.
ReplicatedBefore(i, n) == {i} \cup {p \in Peers(i) : matchIndex[i][p] + 1 >= n}

\* advanceCommit, at the end of a heartbeat round or of a Propose with a
\* majority of acknowledgements, and applyCommitted after it.
Replicated(i, n) == {i} \cup {p \in Peers(i) : matchIndex[i][p] >= n}

\* Mutant: an entry of any term may be counted.
CommittableAnyTerm(i) ==
    {n \in (commitIndex[i] + 1)..LastIndex(log[i]) : IsMajority(Replicated(i, n))}

Committable(i) ==
    {n \in (commitIndex[i] + 1)..LastIndex(log[i]) :
        /\ \A k \in n..LastIndex(log[i]) : TermAt(log[i], k) = currentTerm[i]
        /\ IsMajority(Replicated(i, n))}

AdvanceCommit(i) ==
    /\ role[i] = "Leader"
    /\ Committable(i) # {}
    /\ log' = log
    /\ commitIndex' = [commitIndex EXCEPT ![i] =
          CHOOSE n \in Committable(i) : \A k \in Committable(i) : k <= n]
    /\ ApplyCommitted(i)
    /\ UNCHANGED <<electionVars, leaderVars, callVars>>

\* A process dies and starts again: the log is recovered from the WAL, the
\* commit index and the state machine start from nothing.
Restart(i) ==
    /\ log' = log
    /\ E!Restart(i)
    /\ commitIndex' = [commitIndex EXCEPT ![i] = 0]
    /\ applied' = [applied EXCEPT ![i] = <<>>]
    /\ nextIndex' = [nextIndex EXCEPT ![i] = [p \in Peers(i) |-> 1]]
    /\ matchIndex' = [matchIndex EXCEPT ![i] = [p \in Peers(i) |-> 0]]
    /\ requests' = {m \in requests : m.from # i}
         \cup {[m EXCEPT !.waited = FALSE] :
                 m \in {q \in requests : q.from = i}}
    /\ replies' = {r \in replies : r.from # i}
    /\ UNCHANGED chosen

-----------------------------------------------------------------------------
\* What happens without a client, a call that answers one, or a crash.
Background ==
    \/ ElectionStep
    \/ \E i \in Node : \/ WinElection(i)
                       \/ ProposeNoop(i)
                       \/ AdvanceCommit(i)
    \/ \E i \in Node : \E p \in Peers(i) : Replicate(i, p)
    \/ \E m \in requests : HandleAppendEntries(m) \/ AppendCallFails(m)
    \/ \E r \in replies : ReplyLost(r)

Next ==
    \/ Background
    \/ \E i \in Node, cmd \in Command : Propose(i, cmd)
    \/ \E r \in replies : ReceiveReply(r)
    \/ \E i \in Node : Restart(i)

Spec == Init /\ [][Next]_raftVars

-----------------------------------------------------------------------------
RequestType ==
    [from : Node, to : Node, term : 1..MaxTerm, kind : {"replicate", "probe"},
     prevIndex : 0..MaxLog, prevTerm : 0..MaxTerm, entries : Seq(Entries),
     commit : 0..MaxLog, waited : BOOLEAN]

ReplyType ==
    [from : Node, to : Node, term : 1..MaxTerm, kind : {"replicate", "probe"},
     upTo : 0..MaxLog, respTerm : 1..MaxTerm, success : BOOLEAN,
     lastIndex : 0..MaxLog]

RaftTypeOK ==
    /\ log \in [Node -> Seq(Entries)]
    /\ \A i \in Node : Len(log[i]) <= MaxLog
    /\ E!TypeOK
    /\ commitIndex \in [Node -> 0..MaxLog]
    /\ applied \in [Node -> Seq(Entries)]
    /\ \A i \in Node : /\ nextIndex[i] \in [Peers(i) -> 1..MaxLog + 1]
                       /\ matchIndex[i] \in [Peers(i) -> 0..MaxLog]
    /\ \A m \in requests : m \in RequestType /\ m.from # m.to
    /\ \A r \in replies : r \in ReplyType /\ r.from # r.to
    /\ chosen \in Seq(Entries)

\* Two logs that agree on the term of an entry agree on everything up to it
\* (Match stands for the comparison of whole prefixes).
LogMatching ==
    \A i, j \in Node : \A k \in DOMAIN log[i] \cap DOMAIN log[j] :
        log[i][k].term = log[j][k].term =>
            SubSeq(log[i], 1, k) = SubSeq(log[j], 1, k)

\* The leader of the newest term has every entry that was ever applied
\* anywhere (logUpToDateLocked and the current-term rule of advanceCommit).
LeaderCompleteness ==
    \A i \in Node :
        role[i] = "Leader" /\ (\A j \in Node : currentTerm[j] <= currentTerm[i])
          => IsPrefix(chosen, log[i])

\* Every state machine has been given the same commands in the same order,
\* also those of nodes that have been restarted since (applyCommitted).
StateMachineSafety == \A i \in Node : IsPrefix(applied[i], chosen)

\* A committed entry is in the log of every node that considers it committed
\* ("committed but not stored: cannot happen").
CommittedIsStored == \A i \in Node : commitIndex[i] <= LastIndex(log[i])

\* matchIndex is "the highest entry we KNOW they have (a fact)" where
\* advanceCommit goes by it: a peer in the leader's term has the entries of that
\* term that it is counted for, and all that the leader has before them.  It is
\* false once a reply has misled the leader (run clients_late_ack).
CountedIsStored ==
    \A i \in Node : role[i] = "Leader" =>
        \A n \in DOMAIN log[i] : log[i][n].term = currentTerm[i] =>
            \A p \in Replicated(i, n) : currentTerm[p] = currentTerm[i] =>
                IsPrefix(SubSeq(log[i], 1, n), log[p])

\* A commit index never decreases while the process lives: rule 4 over requests
\* that reach to the end of a leader's log.  Probes do not, and set it back
\* (AcceptEntries of module ReadPath).
CommitNeverDecreases ==
    [][\A i \in Node : commitIndex'[i] >= commitIndex[i] \/ Restart(i)]_raftVars

\* Elections are those of module Election, whatever replication does.
ElectionSpec == E!Spec

\* The state machines are given what module ReplicatedLog promises: entries
\* of one growing sequence, in order and each of them once (applyCommitted,
\* over everything that decides how far it may go).
ReplicatedLogSpec == R!Spec

-----------------------------------------------------------------------------
(* What the code does not see to, and committed entries depend on: see the *)
(* theorems of module CommitProofs.                                        *)

\* Reply r was meant for an earlier leadership of its node, and speaks of
\* positions that the present one has filled or has yet to fill.
Misleads(r) ==
    /\ r.success
    /\ role[r.from] = "Leader" /\ r.term < currentTerm[r.from]
    /\ \E k \in 1..r.upTo :
          k \in DOMAIN log[r.from] => log[r.from][k].term = currentTerm[r.from]

\* No such reply is taken for an answer to what the present leadership sent.
NobodyIsMisled == [][\A r \in replies : ReceiveReply(r) => ~Misleads(r)]_raftVars

\* No node leads, is replaced by another, and leads again: then nobody can be
\* misled.
NobodyLeadsAgain ==
    \A e, f, g \in elected :
        e.term < f.term /\ f.term < g.term /\ e.leader = g.leader => f.leader = e.leader

\* No node comes back in an earlier term: a process does not die while the
\* term it is in could not be saved.
NoTermIsForgotten == [][\A i \in Node : currentTerm'[i] >= currentTerm[i]]_raftVars
=============================================================================
