------------------------------ MODULE Election -------------------------------
(***************************************************************************)
(* How raftkv nodes move through terms and choose leaders: the election    *)
(* half of internal/raft/node.go and election.go, with the term/vote file  *)
(* of state.go under it.                                                   *)
(*                                                                         *)
(* Every node runs one loop (Node.run) that campaigns when it hears        *)
(* nothing, while HTTP handlers and reply goroutines change the same       *)
(* fields under the mutex n.mu.  One action is one critical section of     *)
(* n.mu, or one event of the network.  Time is left out: an election       *)
(* timeout may expire whenever the code does not rule it out.              *)
(*                                                                         *)
(* The log is only seen through the position of its last entry, which      *)
(* anything may move; module Raft puts the real log in its place.          *)
(***************************************************************************)
EXTENDS Cluster

CONSTANTS
    MaxTerm,        \* bound: no node campaigns beyond this term
    MaxVoteCalls,   \* bound: RequestVote calls in the network at one time
    LastEntry,      \* the [index, term] positions a log may end at
    Faults,         \* what goes wrong besides calls that fail, see below
    Windows         \* unlocked gaps of the code that other threads get into

\* "disk": StateStore.Save may return an error; "crash": a process may die
\* and restart; "delay": the request of a failed call may still arrive.
ASSUME ElectionAssumption ==
    /\ MaxTerm \in Nat
    /\ MaxVoteCalls \in Nat
    /\ LastEntry \subseteq [index : Nat, term : Nat]
    /\ [index |-> 0, term |-> 0] \in LastEntry
    /\ Faults \subseteq {"disk", "crash", "delay"}

VARIABLES
    currentTerm,    \* Node.currentTerm
    votedFor,       \* Node.votedFor, None for ""
    role,           \* Node.role
    leaderID,       \* Node.leaderID, None for ""
    disk,           \* the PersistentState in state.json
    last,           \* LastIndex and LastTerm of the log
    campaign,       \* the local variables of campaign and winElection
    voteCalls,      \* RequestVote calls: requests and replies in the network
    probes,         \* probe goroutines: 0 awaits a reply, t is about to set t
    elected,        \* history: every election won, with the votes counted
    topTerm         \* history: the highest term anybody has campaigned in

memory == <<currentTerm, votedFor, role, leaderID>>
history == <<elected, topTerm>>
electionVars == <<memory, disk, last, campaign, voteCalls, probes, history>>

Terms == 0..MaxTerm

PersistentState == [term : Terms, vote : Node \cup {None}]

\* "idle": not inside campaign; "counting": in its step 3;
\* "leading": in winElection, proposing the no-op.
Campaigns == [phase : {"idle", "counting", "leading"}, term : Terms,
              waiting : SUBSET Node, granted : SUBSET Node]

NoCampaign == [phase |-> "idle", term |-> 0, waiting |-> {}, granted |-> {}]

\* One RequestVote call.  "sent": the candidate waits for it; "orphan": the
\* candidate gave up or died, but the request can still arrive; "answered":
\* the reply is on its way.  An error status is the reply with term 0.
VoteCalls == [from : Node, to : Node, term : Terms, last : LastEntry,
              state : {"sent", "orphan", "answered"},
              respTerm : Terms, granted : BOOLEAN]

-----------------------------------------------------------------------------
\* A brand new cluster: no state file anywhere, every log empty.
Init ==
    /\ currentTerm = [i \in Node |-> 0]
    /\ votedFor = [i \in Node |-> None]
    /\ role = [i \in Node |-> "Follower"]
    /\ leaderID = [i \in Node |-> None]
    /\ disk = [i \in Node |-> [term |-> 0, vote |-> None]]
    /\ last = [i \in Node |-> [index |-> 0, term |-> 0]]
    /\ campaign = [i \in Node |-> NoCampaign]
    /\ voteCalls = {}
    /\ probes = [i \in Node |-> {}]
    /\ elected = {}
    /\ topTerm = 0

-----------------------------------------------------------------------------
(* persistLocked and StateStore.Save *)

\* Mutant: the vote is left out of the file.
SavedWithoutVote(i, t, v) == disk' = [disk EXCEPT ![i] = [term |-> t, vote |-> None]]

Saved(i, t, v) == disk' = [disk EXCEPT ![i] = [term |-> t, vote |-> v]]

\* An error may come before or after the rename took effect.
SaveFails(i, t, v) ==
    /\ "disk" \in Faults
    /\ disk' \in {disk, [disk EXCEPT ![i] = [term |-> t, vote |-> v]]}

\* Mutant: the leader of the old term is kept.
EnterTermKeepsLeader(i, t) ==
    /\ currentTerm' = [currentTerm EXCEPT ![i] = t]
    /\ votedFor' = [votedFor EXCEPT ![i] = None]
    /\ role' = [role EXCEPT ![i] = "Follower"]
    /\ UNCHANGED leaderID

\* setTermLocked, the assignments it makes before it persists them.
EnterTerm(i, t) ==
    /\ currentTerm' = [currentTerm EXCEPT ![i] = t]
    /\ votedFor' = [votedFor EXCEPT ![i] = None]
    /\ leaderID' = [leaderID EXCEPT ![i] = None]
    /\ role' = [role EXCEPT ![i] = "Follower"]

\* setTermLocked where the caller drops the error.
SetTerm(i, t) ==
    /\ EnterTerm(i, t)
    /\ Saved(i, t, None) \/ SaveFails(i, t, None)

-----------------------------------------------------------------------------
(* campaign *)

StandForElection(i) ==
    /\ currentTerm' = [currentTerm EXCEPT ![i] = @ + 1]
    /\ votedFor' = [votedFor EXCEPT ![i] = i]
    /\ role' = [role EXCEPT ![i] = "Candidate"]
    /\ leaderID' = [leaderID EXCEPT ![i] = None]
    /\ topTerm' = IF currentTerm[i] + 1 > topTerm THEN currentTerm[i] + 1
                                                  ELSE topTerm

VoteRequests(i, t) ==
    {[from |-> i, to |-> p, term |-> t, last |-> last[i], state |-> "sent",
      respTerm |-> 0, granted |-> FALSE] : p \in Peers(i)}

\* runFollower finds the node idle for too long and calls campaign.  Either
\* the candidacy reaches the disk and every peer is asked at once, or it does
\* not and campaign returns with only the memory changed.
Campaign(i) ==
    /\ role[i] # "Leader"
    /\ campaign[i].phase = "idle"
    /\ currentTerm[i] < MaxTerm
    /\ Cardinality(voteCalls) + Cardinality(Peers(i)) <= MaxVoteCalls
    /\ StandForElection(i)
    /\ \/ /\ Saved(i, currentTerm[i] + 1, i)
          /\ voteCalls' = voteCalls \cup VoteRequests(i, currentTerm[i] + 1)
          /\ campaign' = [campaign EXCEPT ![i] =
                [phase |-> "counting", term |-> currentTerm[i] + 1,
                 waiting |-> Peers(i), granted |-> {i}]]
       \/ /\ SaveFails(i, currentTerm[i] + 1, i)
          /\ UNCHANGED <<voteCalls, campaign>>
    /\ UNCHANGED <<last, probes, elected>>

\* campaign's step 3 takes peer p's answer off the votes channel.  Nobody
\* counts any more once a majority has been reached.
Counts(i, c) ==
    /\ campaign[i].phase = "counting"
    /\ campaign[i].term = c.term
    /\ c.to \in campaign[i].waiting
    /\ ~IsMajority(campaign[i].granted)

\* Mutant: only granted votes are counted as replies.
TallyGrantsOnly(i, c, ok) ==
    campaign' = IF Counts(i, c) /\ ok
                THEN [campaign EXCEPT ![i].waiting = @ \ {c.to},
                                      ![i].granted = @ \cup {c.to}]
                ELSE campaign

Tally(i, c, ok) ==
    LET waiting == campaign[i].waiting \ {c.to}
        granted == IF ok THEN campaign[i].granted \cup {c.to}
                         ELSE campaign[i].granted
    IN  campaign' =
          IF ~Counts(i, c) THEN campaign
          ELSE IF waiting = {} /\ ~IsMajority(granted)
               THEN [campaign EXCEPT ![i] = NoCampaign]
               ELSE [campaign EXCEPT ![i].waiting = waiting,
                                     ![i].granted = granted]

-----------------------------------------------------------------------------
(* HandleRequestVote *)

Answer(c, t, ok) ==
    voteCalls' = (voteCalls \ {c}) \cup
       (IF c.state = "orphan" THEN {}
        ELSE {[c EXCEPT !.state = "answered", !.respTerm = t, !.granted = ok]})

\* Rule 2 has an effect: the request carries a newer term.
Newer(i, c) == c.term > currentTerm[i]

\* Rule 3 refuses: the vote of this term went to somebody else.
VoteSpent(i, c) ==
    /\ ~Newer(i, c)
    /\ votedFor[i] # None
    /\ votedFor[i] # c.from

\* Mutants: the longer log wins, whatever its last term is; logs that end in
\* the same term are equally good.
LongerLogWins(i, l) == l.index >= last[i].index

LastTermWins(i, l) == l.term >= last[i].term

\* logUpToDateLocked.
LogUpToDate(i, l) ==
    IF l.term # last[i].term THEN l.term > last[i].term
                             ELSE l.index >= last[i].index

\* Rules 2 to 4 all let the vote through, and it reaches the disk before the
\* reply does.
GrantVote(i, c) ==
    /\ c.term >= currentTerm[i]
    /\ ~VoteSpent(i, c)
    /\ LogUpToDate(i, c.last)
    /\ currentTerm' = [currentTerm EXCEPT ![i] = c.term]
    /\ votedFor' = [votedFor EXCEPT ![i] = c.from]
    /\ leaderID' = IF Newer(i, c) THEN [leaderID EXCEPT ![i] = None] ELSE leaderID
    /\ role' = IF Newer(i, c) THEN [role EXCEPT ![i] = "Follower"] ELSE role
    /\ \/ /\ Saved(i, c.term, c.from)
          /\ Answer(c, c.term, TRUE)
       \/ /\ "disk" \in Faults
          /\ disk' \in { IF Newer(i, c)
                         THEN [disk EXCEPT ![i] = [term |-> c.term, vote |-> None]]
                         ELSE disk,
                         [disk EXCEPT ![i] = [term |-> c.term, vote |-> c.from]] }
          /\ Answer(c, 0, FALSE)

\* Rule 1, 3 or 4 refuses; a newer term has been adopted all the same.
DenyVote(i, c) ==
    /\ \/ c.term < currentTerm[i]
       \/ VoteSpent(i, c)
       \/ ~LogUpToDate(i, c.last)
    /\ IF Newer(i, c)
       THEN /\ EnterTerm(i, c.term)
            /\ Saved(i, c.term, None)
            /\ Answer(c, c.term, FALSE)
       ELSE /\ Answer(c, currentTerm[i], FALSE)
            /\ UNCHANGED <<memory, disk>>

\* Rule 2 cannot persist the newer term: an error, and no vote either way.
FailVote(i, c) ==
    /\ Newer(i, c)
    /\ EnterTerm(i, c.term)
    /\ SaveFails(i, c.term, None)
    /\ Answer(c, 0, FALSE)

HandleRequestVote(c) ==
    /\ c.state \in {"sent", "orphan"}
    /\ GrantVote(c.to, c) \/ DenyVote(c.to, c) \/ FailVote(c.to, c)
    /\ UNCHANGED <<last, campaign, probes, history>>

-----------------------------------------------------------------------------
(* The candidate's reply goroutines, and the network *)

\* A reply arrives.  A higher term in it ends the candidacy and is no vote;
\* otherwise the vote is counted as it is.
ReceiveVote(c) ==
    /\ c.state = "answered"
    /\ voteCalls' = voteCalls \ {c}
    /\ \/ /\ c.respTerm > currentTerm[c.from]
          /\ SetTerm(c.from, c.respTerm)
          /\ Tally(c.from, c, FALSE)
       \/ /\ c.respTerm <= currentTerm[c.from]
          /\ Tally(c.from, c, c.granted)
          /\ UNCHANGED <<memory, disk>>
    /\ UNCHANGED <<last, probes, history>>

\* tr.RequestVote returns an error: peer down, connection lost or timeout.
\* The request may be gone, it may still arrive later, or its reply is lost.
VoteCallFails(c) ==
    /\ c.state \in {"sent", "answered"}
    /\ \/ voteCalls' = voteCalls \ {c}
       \/ /\ "delay" \in Faults
          /\ c.state = "sent"
          /\ voteCalls' = (voteCalls \ {c}) \cup {[c EXCEPT !.state = "orphan"]}
    /\ Tally(c.from, c, FALSE)
    /\ UNCHANGED <<memory, disk, last, probes, history>>

-----------------------------------------------------------------------------
(* winElection *)

\* The election that was won is still the current one.
StillCurrent(i) ==
    /\ role[i] = "Candidate"
    /\ currentTerm[i] = campaign[i].term

\* becomeLeaderLocked; the replication bookkeeping belongs to module Raft.
BecomeLeader(i) ==
    /\ role' = [role EXCEPT ![i] = "Leader"]
    /\ leaderID' = [leaderID EXCEPT ![i] = i]
    /\ campaign' = [campaign EXCEPT ![i] = [NoCampaign EXCEPT !.phase = "leading"]]
    /\ elected' = elected \cup {[term |-> campaign[i].term, leader |-> i,
                                 voters |-> campaign[i].granted]}
    /\ UNCHANGED <<currentTerm, votedFor>>

WinElection(i) ==
    /\ campaign[i].phase = "counting"
    /\ IsMajority(campaign[i].granted)
    /\ \/ /\ StillCurrent(i)
          /\ BecomeLeader(i)
       \/ /\ ~StillCurrent(i)
          /\ campaign' = [campaign EXCEPT ![i] = NoCampaign]
          /\ UNCHANGED <<memory, elected>>
    /\ UNCHANGED <<disk, last, voteCalls, probes, topTerm>>

\* The no-op's Propose returned, with an error or without: run goes on.  The
\* log may have moved.
ReturnFromWin(i) ==
    /\ campaign[i].phase = "leading"
    /\ campaign' = [campaign EXCEPT ![i] = NoCampaign]
    /\ UNCHANGED <<memory, disk, voteCalls, probes, history>>

-----------------------------------------------------------------------------
(* Terms learned from everything that is not an election *)

\* A reply in replicateTo, a reply in probe, or a request in HandleReadIndex
\* carries a newer term.
ObserveTerm(i, t) ==
    /\ t > currentTerm[i]
    /\ SetTerm(i, t)
    /\ UNCHANGED <<last, campaign, voteCalls, probes, history>>

\* Mutant: rule 2 enters the term also when it is the current one.
HeedLeaderReenters(i, t, l) ==
    /\ t >= currentTerm[i]
    /\ currentTerm' = [currentTerm EXCEPT ![i] = t]
    /\ votedFor' = [votedFor EXCEPT ![i] = None]
    /\ role' = [role EXCEPT ![i] = "Follower"]
    /\ leaderID' = [leaderID EXCEPT ![i] = l]
    /\ Saved(i, t, None)
    /\ UNCHANGED <<campaign, voteCalls, probes, history>>

\* handleAppendEntries, rules 1 and 2: a request of leader l in term t that
\* is not older than the receiver.  The log may move in the same step.
HeedLeader(i, t, l) ==
    /\ t >= currentTerm[i]
    /\ \/ /\ currentTerm' = [currentTerm EXCEPT ![i] = t]
          /\ role' = [role EXCEPT ![i] = "Follower"]
          /\ leaderID' = [leaderID EXCEPT ![i] = l]
          /\ IF t > currentTerm[i]
             THEN /\ votedFor' = [votedFor EXCEPT ![i] = None]
                  /\ Saved(i, t, None)
             ELSE UNCHANGED <<votedFor, disk>>
       \/ /\ t > currentTerm[i]
          /\ EnterTerm(i, t)
          /\ SaveFails(i, t, None)
    /\ UNCHANGED <<campaign, voteCalls, probes, history>>

\* The log of node i ends somewhere else than before, or not.
LogMoves(i) == \E l \in LastEntry : last' = [last EXCEPT ![i] = l]

\* probe sends a heartbeat to one peer.  With the gap closed, what it does
\* about the reply is one step, ObserveTerm.
Probe(i) ==
    /\ "probe" \in Windows
    /\ role[i] = "Leader"
    /\ probes' = [probes EXCEPT ![i] = @ \cup {0}]
    /\ UNCHANGED <<memory, disk, last, campaign, voteCalls, history>>

\* It compares the reply's term under one acquisition of n.mu (Term()) ...
ProbeCompare(i, t) ==
    /\ 0 \in probes[i]
    /\ probes' = [probes EXCEPT ![i] =
                    IF t > currentTerm[i] THEN (@ \ {0}) \cup {t} ELSE @ \ {0}]
    /\ UNCHANGED <<memory, disk, last, campaign, voteCalls, history>>

\* ... and sets it under another, whatever the term is by then.
ProbeStepDown(i, t) ==
    /\ t \in probes[i]
    /\ SetTerm(i, t)
    /\ probes' = [probes EXCEPT ![i] = @ \ {t}]
    /\ UNCHANGED <<last, campaign, voteCalls, history>>

-----------------------------------------------------------------------------
\* The process dies and starts again: NewNode takes term and vote from the
\* state file, everything else starts from its zero value, and the calls the
\* dead process was waiting for have lost their caller.
Restart(i) ==
    /\ "crash" \in Faults
    /\ currentTerm' = [currentTerm EXCEPT ![i] = disk[i].term]
    /\ votedFor' = [votedFor EXCEPT ![i] = disk[i].vote]
    /\ role' = [role EXCEPT ![i] = "Follower"]
    /\ leaderID' = [leaderID EXCEPT ![i] = None]
    /\ campaign' = [campaign EXCEPT ![i] = NoCampaign]
    /\ probes' = [probes EXCEPT ![i] = {}]
    /\ voteCalls' = {c \in voteCalls : c.from # i}
         \cup {[c EXCEPT !.state = "orphan"] :
                 c \in {d \in voteCalls : d.from = i /\ d.state = "sent"}}
         \cup {c \in voteCalls : c.from = i /\ c.state = "orphan"}
    /\ UNCHANGED <<disk, last, history>>

-----------------------------------------------------------------------------
Next ==
    \/ \E i \in Node : \/ Campaign(i)
                       \/ WinElection(i)
                       \/ ReturnFromWin(i) /\ LogMoves(i)
                       \/ Probe(i)
                       \/ Restart(i)
                       \/ /\ UNCHANGED <<memory, disk, campaign,
                                       voteCalls, probes, history>>
                          /\ LogMoves(i)
    \/ \E c \in voteCalls : \/ HandleRequestVote(c)
                            \/ ReceiveVote(c)
                            \/ VoteCallFails(c)
    \/ \E i \in Node, t \in 1..topTerm : \/ ObserveTerm(i, t)
                                         \/ ProbeCompare(i, t)
                                         \/ ProbeStepDown(i, t)
    \/ \E i \in Node, e \in elected : /\ i # e.leader
                                      /\ HeedLeader(i, e.term, e.leader)
                                      /\ LogMoves(i)

Spec == Init /\ [][Next]_electionVars

\* The HTTP client's timeout ends every call, and the loops that wait for
\* calls go on when they may: no more is assumed of the scheduler.
Fairness ==
    /\ \A i \in Node : WF_electionVars(WinElection(i)) /\ WF_electionVars(ReturnFromWin(i) /\ LogMoves(i))
    /\ \A i, p \in Node : WF_electionVars(\E c \in voteCalls :
          c.from = i /\ c.to = p /\ (ReceiveVote(c) \/ VoteCallFails(c)))

FairSpec == Spec /\ Fairness

-----------------------------------------------------------------------------
TypeOK ==
    /\ currentTerm \in [Node -> Terms]
    /\ votedFor \in [Node -> Node \cup {None}]
    /\ role \in [Node -> {"Follower", "Candidate", "Leader"}]
    /\ leaderID \in [Node -> Node \cup {None}]
    /\ disk \in [Node -> PersistentState]
    /\ last \in [Node -> LastEntry]
    /\ campaign \in [Node -> Campaigns]
    /\ voteCalls \in SUBSET VoteCalls
    /\ probes \in [Node -> SUBSET Terms]
    /\ elected \in SUBSET [term : Terms, leader : Node, voters : SUBSET Node]
    /\ topTerm \in Terms
    /\ \A c \in voteCalls : c.from # c.to

\* At most one node ever wins the election of a term, also counting winners
\* that have since crashed or been deposed (HandleRequestVote, rule 3).
ElectionSafety ==
    \A e, f \in elected : e.term = f.term => e.leader = f.leader

\* A vote a candidate has counted or is about to count is on the voter's disk,
\* or the disk has moved on to a later term (HandleRequestVote persists before
\* it replies): no crash can make the voter vote again in that term.
CountedVotesAreDurable ==
    \A v \in Node, c \in Node, t \in 1..topTerm :
       \/ \E r \in voteCalls : r.from = c /\ r.to = v /\ r.term = t /\ r.granted
       \/ campaign[c].phase = "counting" /\ campaign[c].term = t /\ v \in campaign[c].granted
       => disk[v].term > t \/ disk[v] = [term |-> t, vote |-> c]

\* A node only ever names as leader a node that won the term it is in itself
\* (leaderID, which leaderPeer sends reads and writes to).
LeaderIDWasElected ==
    \A i \in Node : leaderID[i] # None =>
        \E e \in elected : e.term = currentTerm[i] /\ e.leader = leaderID[i]

\* A state file never goes back to an earlier term and never changes a vote
\* cast in the term it stays in (Save, over all of its callers).
DurableStateOnlyGrows ==
    [][\A i \in Node :
         \/ disk'[i].term > disk[i].term
         \/ disk'[i].term = disk[i].term /\ disk[i].vote \in {None, disk'[i].vote}]_electionVars

\* A candidacy ends: campaign and winElection return to the loop of run,
\* whatever happens to the calls they wait for.
CampaignReturns ==
    \A i \in Node : campaign[i].phase # "idle" ~> campaign[i].phase = "idle"
=============================================================================
