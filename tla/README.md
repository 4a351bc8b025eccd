# A TLA+ verification of raftkv

raftkv is a key-value store replicated with Raft: three (or any odd number of)
processes, one log file each, HTTP between them. This directory holds TLA+
models of it, from the file operations of one node to what clients see of the
cluster, the TLC configurations that check them on small instances, and TLAPS
proofs of their safety properties for clusters, logs and numbers of goroutines
of any size. Where the code does not keep a promise, a run shows how it comes to
that (section 4), and the proofs say what they assume instead (section 5).

## 1. Inventory

| component | state | operations | talks to |
|---|---|---|---|
| elections (`raft/election.go`, `node.go`) | `currentTerm`, `votedFor`, `role`, `leaderID`, local variables of `campaign` | `campaign`, `HandleRequestVote`, `winElection`, `setTermLocked`, every place a newer term is noticed | peers by `RequestVote`; state file; log (last entry) |
| term and vote file (`raft/state.go`) | `state.json` | `Save`, `OpenStateStore` | called under `n.mu` by everything that changes term or vote |
| log (`raft/log.go`) | `entries`, `offsets` | `Append`, `AppendAfter`, `EntriesFrom`, `Match`, `At` | WAL below, Node above; has its own lock |
| replication (`raft/node.go`) | `commitIndex`, `lastApplied`, `nextIndex`, `matchIndex` | `Propose`, `Heartbeat`, `replicateTo`, `handleAppendEntries`, `advanceCommit`, `applyCommitted` | peers by `AppendEntries`; log; state machine by `ApplyFunc` |
| read barrier (`raft/read.go`) | `confirmNext`, `confirmRunning` | `ReadIndex`, `ConfirmLeadership`, `confirmRound`, `probe`, `WaitForApplied`, `HandleReadIndex` | peers by `AppendEntries` (probes) and `ReadIndex` |
| write forwarding (`raft/read.go`) | none | `ProposeOrForward`, `HandleForward` | leader by `Forward` |
| transport (`raft/transport.go`, `rpc.go`) | connections | `post`, `PeerHandler` | every RPC; caller timeouts |
| configuration (`raft/config.go`) | the peer list | `Majority`, `Validate`, `ParsePeers` | read by everything |
| WAL (`wal/`) | the log file, `size` | `Append`, `Truncate`, `ReadAll`, `TruncateTo` | log |
| state machine (`engine/`, `store/`) | the map | `Apply`, `Get` | fed by `applyCommitted` |
| client API (`api/`), process (`cmd/kvnode`) | none of their own | HTTP handlers, start-up, shutdown | node, engine |

What is hard here: everything runs concurrently. One goroutine (`run`)
campaigns and heartbeats; each incoming RPC, each outgoing call and each client
request has a goroutine of its own. They share `n.mu`, but several functions
read state under the lock, release it and act afterwards (`Propose`,
`replicateTo`, `probe`, `confirmRound`, `applyCommitted`). Calls are lost, time
out, or are delivered after the caller gave up; processes die between any two
steps; writes fail. `PROJECT.json` lists these hazards by line.

What makes each component correct: one leader per term and durable votes
(elections); a state file that only grows (StateStore); repair that never takes
away what is shared with the leader (log); matching logs, complete leaders, one
sequence of entries for all state machines (replication); no stale strong read,
no read that shares a round older than itself, no missed wake-up (read
barrier); an acknowledged write is never lost (Propose); entries applied once
and in order by whoever comes first (apply loop); recovery of exactly the synced
records, and a state file that is never behind the log (WAL, StateStore).

## 2. Modules

| module | models | built on |
|---|---|---|
| `Cluster` | `Config`: peers and majorities | |
| `Election` | terms, votes and leaders, with the state file as one step | `Cluster` |
| `RaftLog` | the operations of `Log` as operators on sequences | |
| `Raft` | replication, commit and apply over real logs, composed with the actions of `Election` | `Cluster`, `RaftLog`, `Election` (instance `E`), `ReplicatedLog` (instance `R`) |
| `RaftGaps` | `Raft` with other threads between `Propose`'s reading of the term and its append | `Raft` |
| `ReplicatedLog` | abstract: one growing sequence, applied in order everywhere | |
| `Clients` | writes and strong reads as clients see them, with the probes of the read barrier | `Raft` |
| `LogFile` | `Log` over `WAL`, one file operation at a time, crash and recovery | `RaftLog` |
| `StateFile` | `StateStore`, one file operation at a time | |
| `Storage` | both files of one node, how the node uses them, and the start of a process | `LogFile`, `StateFile` |
| `ReadPath` | inside one node: the goroutines of `applyCommitted`, of the confirmation rounds and of waiting reads | |
| `ElectionProofs` | theorems about `Election` | `Election` |
| `RaftLogProofs` | theorems about the operators of `RaftLog` | `RaftLog` |
| `RaftProofs` | types of `Raft`; `Raft` implements `Election`; Log Matching; all of it also with probes | `Raft`, `RaftLogProofs`, `ElectionProofs` (instance `EP`) |
| `LeaderProofs` | lemmas: what leaders and candidates know of their terms, and why a majority's entries stay | `RaftProofs` |
| `CommitProofs` | what is committed stays; `Raft` implements `ReplicatedLog` | `LeaderProofs` |
| `ClientProofs` | what clients are promised, and what probes leave intact | `Clients`, `CommitProofs` |
| `ReadPathProofs` | theorems about `ReadPath` | `ReadPath` |
| `StorageProofs` | theorems about `Storage` | `Storage`, `RaftLogProofs` |
| `MC*` | instances, bounds, views, symmetry for TLC | |

How they fit together: `Election` and `Raft` take a call of `Save` or
`AppendAfter` as one step that succeeds or fails; `Storage` looks at these calls
from inside. `Raft` takes `applyCommitted` as one step, and `Clients` one read
with a round of its own; `ReadPath` looks at how several goroutines share them.
`Raft` uses `AppendAfter` in closed form (`RaftLog!AfterAppend`);
`AppendAfterIsClosedForm` of `LogFile` says that the loop computes it, and
`StorageProofs` proves it.

Operators whose comment begins with *Mutant* are plausible bugs. Nothing uses
them; `PROJECT.json` says which definition each stands in for and which
property then fails.

### Election

One action is one critical section of `n.mu`, or one network event.

* `Campaign` is `runFollower` finding the node idle and `campaign` up to its
  last request; when the candidacy cannot be saved, only memory changes. `n.mu`
  is held from the increment to the save, so this is one step. Time is
  left out: a timeout may expire whenever the node is not leader and `run` is
  not inside an earlier campaign.
* `HandleRequestVote` is `GrantVote`, `DenyVote` or `FailVote`; each includes
  the saves it makes and the outcome when they fail. A failed `Save` may have
  taken effect (error after the rename) or not. Memory keeps the unsaved term
  either way, so a later reply may announce a term that is not on disk, against
  the comment at `node.go:77`; no vote depends on it (section 5).
* `ReceiveVote`, `VoteCallFails` are the goroutine of one call, with the
  receive from the `votes` channel (`Tally`) in the same step: the channel is
  buffered and private to one campaign.
* `WinElection`, `ReturnFromWin` are `winElection` before and after the no-op.
* `ObserveTerm` stands for the three places that adopt a newer term outside of
  elections, `HeedLeader` for rules 1 and 2 of `handleAppendEntries`. In
  `Election` they may happen with any term in use and any elected leader.
* `Probe`, `ProbeCompare`, `ProbeStepDown` are `probe` with other threads
  between its two critical sections. They exist only when `"probe"` is in
  `Windows`; otherwise `ObserveTerm` is all there is.
* `Restart` reads the state file again; calls of the dead process lose their
  caller, their requests may still arrive.
* `last` is where the log ends. Anything may move it.
* `elected` and `topTerm` are history variables.

### Raft

`Raft` adds logs, indexes, `AppendEntries` requests and replies. Its election
steps are the actions of `Election` with the end of the real log as `last`.

* `Propose`, `ProposeNoop`: `Propose` up to its append. What follows in the
  code is `Replicate` to each peer and `AdvanceCommit`; how the caller counts
  acknowledgements is in `Clients`.
* `Replicate`, `ReceiveReply`, `AppendCallFails`, `ReplyLost`: one pass of
  `replicateTo`'s loop. The loop limit of 64 passes is not modelled: the next
  heartbeat starts another loop.
* `HandleAppendEntries` is `RejectStale`, `RejectGap`, `Accept`, `FailAppend`
  (term not saved) or `FailStore` (log written half-way), with
  `applyCommitted` in the step.
* `AdvanceCommit`: `advanceCommit` and `applyCommitted`.
* `Restart`: log and state file survive, indexes and state machine do not.
  `"disk"` and `"crash"` are not combined in a run of `Raft` (section 5); what a
  failed write leaves in the file is the subject of `Storage`.
* A reply is used whenever it comes, as in the code, which does not compare the
  term of the request with its own: `ReceiveReply` has no guard but the
  reply's own term.
* `Misleads`, `NobodyIsMisled`, `NobodyLeadsAgain` and `NoTermIsForgotten`
  describe behaviours; no action uses them. The theorems of section 5 do.

`RaftGaps` splits `Propose` into `ProposeCheck` and `ProposeAppend`. The gap of
`replicateTo`, which reads the log after it has released `n.mu`, stays closed:
header, previous term and entries of a request come from one state.

### Clients

Each command is one write, by a client that gives up on an error; there is one
strong read.

* `ProposeOrForward`: `handlePut` at any node, up to where some leader has
  appended. Forwarding takes no time: a request begins when it reaches the
  leader.
* `ReceiveAck` is `ReceiveReply` together with the `acks` channel of the
  `Propose` that waits for it; `Acknowledges` says which call a reply ends.
* `ProposeReturns`: `advanceCommit`, `applyCommitted`, and the check of the
  commit index. `ProposeFails` is every other end, the client's deadline
  included.
* `LinearizableRead` is `ReadIndex` up to whom it asks. The request may carry
  the term of that moment or a later one (`AskedTerms`), since `Term()` is a
  second acquisition of the lock; `ReadIndexDeposes` is what `HandleReadIndex`
  makes of a term newer than its own, `RoundBegins` the capture of the read
  index. `Probe` and `ReceiveProbeReply` are the calls of the round: `Probe`
  sends the term of the moment its goroutine runs, which may be long after the
  round has returned. `RoundReturns` is the end of the round, `ReadReturns` the
  end of `WaitForApplied` and the read of the state machine at the node asked.
* `must`, `settled` and `missed` are history: what the read owes, whether its
  leader had committed an entry of the term in which it led to the end of the
  round, and what the read did not return. So is `steady`: no answer has been
  counted for a write that a later leadership of its node had asked for. It says
  nothing of whether the node still leads: a write acknowledged after its
  leadership has ended, by answers to that leadership, is steady.

### LogFile, StateFile, Storage

A file is a sequence of pieces, a frame two of them, enough for a frame to be
torn. `file` is what the running system sees, `disk` what was last synced;
`CrashContents` is what a crash may leave: the synced file, any part of what has
been done to it since, or a piece with other contents at its end. A call of
`Append` or `AppendAfter` is `CallLog`, then for each entry `SkipDuplicate`,
`Truncate` and `SyncTruncate`, `Write` and `SyncWrite`, then `LogReturns`; memory
(`size`, `entries`, `offsets`) changes only after the sync, as in the code.
`LogFails` is an operation that fails and changes nothing, `LogFailsHalfway`
one that does. Recovery is `RepairTail`, `SyncRepair`, `OpenLog`, and may crash
in between. `StateFile` has the temporary file, its sync, the rename and the
sync of the directory; `promised` is history.

`Storage` calls them as a node does: a term or a vote is saved, an entry of a
term that the node has won is proposed, and requests of the leader of `MaxTerm`
arrive with any part of its log, in any order and however old. `n.mu` keeps
`Save` and `AppendAfter` apart, but not `Append`. `leader`, the log of that
leader, is chosen at the start from all logs with non-decreasing terms.

### ReadPath

One action is one critical section of `n.mu` or `n.confirmMu`. `AdvanceCommit`
and `AcceptEntries` are goroutines that move (or find moved) the commit index
and call `applyCommitted`. `AcceptEntries` takes any `LeaderCommit` and any end
of the request, a probe's included, and rule 4 (`CommitAfter`) may set the commit
index back; it also makes the node a follower, and `ChangeRole` may make it leader
again while a batch is queued. `applyMu` is the set of holders, so that a mutant without
mutual exclusion can be expressed. Channels: `batches[b].state` in `ok`,
`failed` means that `done` is closed; a channel `applyWait` is the number of
channels before it, and is closed once `wakeups` is past that number.

History: `reached` is the highest the commit index has been; nothing beyond it
is applied (`lastApplied` may be beyond the commit index itself, against the
comment at `node.go:104`, once that has been set back). `need` is the lowest the commit
index has been since the reader joined its batch: a batch may capture less than
what was committed when the read began, if a probe set the commit index back in
between, but never what it was before the read began.

## 3. Runs

| run | instance | shows |
|---|---|---|
| `election_faults` | 3 nodes, 2 terms, 3 calls, all faults | `ElectionSafety`, `CountedVotesAreDurable`, `DurableStateOnlyGrows`, `TypeOK` |
| `election_returns` | crashes, probe gap open, fairness | `LeaderIDWasElected`, `CampaignReturns` (liveness) |
| `raft_crash` | 2 terms, 2 entries, crashes, late requests and replies | `RaftTypeOK`, `CommitNeverDecreases`, refinements of `ReplicatedLog` and `Election` |
| `raft_terms` | 3 terms and the fourth of Figure 8, 3 entries, failing log writes, lost calls, late replies | `LogMatching`, `LeaderCompleteness`, `StateMachineSafety` |
| `clients` | 2 terms, 2 entries, one write, one strong read | `ClientTypeOK`, `CommittedIsStored`, `AckedIsOnMajority`, `SettledReadIsFresh` |
| `storage` | 4 terms, logs of 3 entries, a crash anywhere | `CrashLosesNothing`, `OffsetsAreRight`, `AppendAfterIsClosedForm`, `SavedStateSurvives`, `LogTermIsSaved`, `SharedStaysShared` |
| `read_path` | 2 workers, 2 readers, 2 entries, a commit index that may go back, fairness | `AppliedInOrder`, `BatchIsFresh`, `OneRoundAtATime`, and liveness: `JoinedReaderLeaves`, `AppliedReaderReturns`, `CommittedIsApplied` |
| `election_probe_gap` | probe gap open | **violates** `ElectionSafety` |
| `raft_propose_gap` | propose gap open, 4 terms | **violates** `LeaderCompleteness` |
| `clients_new_leader` | as `clients` | **violates** `StrongReadIsFresh` |
| `clients_late_ack` | 5 nodes, 3 terms, one write | **violates** `AckedIsDurable` |
| `storage_halfway` | 2 terms, 2 entries, writes that fail half-way | **violates** `MemoryIsDurable` |

Bounds. Three nodes are the deployment and the smallest cluster where a majority
can lose a node. Two terms suffice for everything that two competing leaderships
can do to each other, three for a conflict that is repaired by a third leader.
Two entries give a log a prefix to disagree about; `raft_terms` has one for each
leader that sends requests, `storage` three, and four terms, so that a repair may
cut two entries and be followed by another. The Election Restriction only refuses
somebody in the runs of `Raft` and `Clients`, where logs are real. Figure 8 takes
four terms: a leader, a second one with an entry of its own, the first again, and
the second again. A reply that misleads a later leadership takes five nodes.
`MaxVoteCalls` and `MaxAppendCalls` bound what is in the network at once, never
how often something is sent. No commands are needed where the no-ops of the
leaders already conflict. In `clients` the write may be the second entry behind
the no-op, or behind nothing when the no-op has not been proposed yet, and the
read may go through any node before or after the change of leader. Two readers
make every hand-over in `runConfirm` happen (one in the round, one queueing up),
two workers every meeting in `applyCommitted`.

Constraints (in the `MC` modules) cut uninteresting ways on:

* `EveryTermIsWon`: a term is only left behind once somebody has led it, and
  nobody follows a candidate that cannot win any more. An `AppendEntries`
  request whose caller still waits reaches its peer before an election or after
  it: with one call at a time its arrival in the midst of the votes comes to the
  same as one of the two. `QuietElections` in addition: no vote call outlives its
  election, and (in `raft_terms`) the state file is saved. Such elections are
  the subject of the election runs.
* `Rivals` (`raft_terms`): a fourth term only where two nodes have led in turn,
  and then only its election, which is where an entry counted in the third would
  turn out to be lost.
* `LiveCalls`, `QuietRead` (`clients`): a client that got an error and a read that
  owes nothing have no future worth exploring; a round whose node has lost its
  leadership cannot succeed, in two terms. Once the round has begun nobody
  campaigns, and its probes have the network to themselves. A write whose node
  has lost its leadership goes on.
* `NoCallAfterFailure` (`storage`): after a failed `Save` only the state file is
  followed.
* `ProposeGapScript` and `LateAckScript` only serve violation runs: the
  counterexamples are more than 25 and 35 steps long, and the scripts keep the
  search on the way. Each state they admit is a state of the model.

The views leave out what cannot influence later states or the checked
properties: indexes of nodes that do not lead, who won which election (except
in `raft_terms`, whose `Rivals` asks for it), batches that nobody waits for.

Deadlock is checked where crashes are possible and in `read_path`. In the other
runs the bounds on terms and log length bring the system to a stop, hence
`CHECK_DEADLOCK FALSE`; in `raft_crash` because the constraint does.

Fairness. `FairSpec` of `Election`: every `RequestVote` call ends, because the
HTTP client has a timeout and the peer answers or not; and a goroutine that can
go on does. `Spec` of `ReadPath`: every goroutine in `applyCommitted`, in a
round or in a read goes on if it can, and a round ends because its context has a
timeout. Nothing is assumed about timeouts of elections, requests arriving,
elections being won, entries being committed, reads beginning or clients giving
up; and weak fairness of the workers allows one of them to starve at `applyMu`
while others come and go.

## 4. What the violations mean

* `election_probe_gap`: `probe` looks at the term, releases the lock, and sets
  the term later without looking again. A vote cast in between is erased, on
  disk too, and the node votes twice in one term.
* `raft_propose_gap`: a proposal of a deposed leader lands behind newer
  entries, and the log then looks older than it is. It needs a leader to lose
  its leadership, and to be repaired, between two statements: a real
  interleaving of the code, not a frequent one.
* `clients_new_leader`: a strong read at a leader that has just been elected
  may miss a write its predecessor acknowledged, until the no-op of its term is
  committed. `SettledReadIsFresh` shows that nothing is missed afterwards; the
  usual remedy is to let a round wait for that.
* `storage_halfway`: after a write or a sync of the log that failed, memory goes
  on as if the file were unchanged. The next entry may then be the second one
  with its index, and the node cannot start again, or it may lie behind a torn
  frame and be lost. `storage` shows that errors that leave the file alone do
  no harm.
* `clients_late_ack`: `replicateTo` takes the reply to a request of an earlier
  leadership for a match of the new log (`node.go:446`). n1 stores its no-op and a
  write on n3, whose reply is slow; n4 leads the next term and replaces both on n1;
  n1 leads the third, has its no-op where the write was, stores it on n2, and gets the
  reply of n3. `matchIndex` says that n3 has the no-op, which is committed with two
  copies of five, and the `Propose` of the first leadership, whose last check
  (`node.go:372`) compares indexes only, acknowledges the write. `CountedIsStored`
  is false from there on.

How likely is the last one? A call must last until its node leads again. A call
of a heartbeat lasts up to three intervals, 150 ms, which is the shortest election
timeout; a call of a client's `Propose` lasts up to the two seconds of the
transport's timeout (`main.go:70`), in which two elections fit. So the code's
timeouts make it rare and do not exclude it.

Two more places are not covered by a passing property, and none of the
runs shows them:

* Rule 4 of `handleAppendEntries` caps the leader's commit index by the end of the
  request, and its guard compares the index before the cap (`node.go:580`): a probe, whose
  end is 0, that comes from a leader which has committed more sets the follower's
  commit index back to 0. `CommitNeverDecreases` is about `Raft`, without probes;
  it is false of `Clients`. `Clients` and `ReadPath` have such steps, and their other
  properties hold with them: nothing is applied twice or out of order, and the
  commit index grows again with the next heartbeat.
* `confirmRound` asks whether the node is leader at the end (`read.go:208`), not in
  which term, and the probes carry the term they are sent in; so the read index may be
  the one of a deposed leader that leads again. `SettledReadIsFresh` excepts such
  rounds by its condition `settled`.

## 5. Proofs

Every theorem holds for all values of the constants that meet the assumptions
below: clusters of any odd size, any bound on terms, logs and calls.

| module | theorem | says |
|---|---|---|
| `ElectionProofs` | `TypeCorrect` | `Spec => []TypeOK` |
| | `OneLeaderPerTerm` | `Spec => []ElectionSafety` |
| | `VotesAreDurable` | `Spec => []CountedVotesAreDurable` |
| | `StateFileOnlyGrows` | `Spec => DurableStateOnlyGrows` |
| | `NamedLeaderWasElected` | `Spec => []LeaderIDWasElected` |
| `RaftLogProofs` | `AppendAfterStores` | every entry of the request is in the new log, and what is before it is as it was |
| | `AppendAfterCutsConflicts` | an entry is dropped only at or behind a conflict with the request |
| `RaftProofs` | `RaftTypeCorrect` | `Spec => []RaftTypeOK` |
| | `RaftImplementsElection` | `Spec => ElectionSpec` |
| | `LogsMatch` | `Spec => []LogMatching` |
| `LeaderProofs` | `NoTermIsEverForgotten` | `SafeFaults` gives `Spec => NoTermIsForgotten` |
| `CommitProofs` | `StateMachinesAgree` | `Good => []StateMachineSafety` |
| | `LeadersAreComplete` | `Good => []LeaderCompleteness` |
| | `CommittedEntriesAreStored` | `Good => []CommittedIsStored` |
| | `CountedEntriesAreStored` | `Good => []CountedIsStored` |
| | `CommitsNeverDecrease` | `Good => CommitNeverDecreases` |
| | `RaftImplementsReplicatedLog` | `Good => ReplicatedLogSpec` |
| | `WhoIsMisled` | `Spec /\ NoTermIsForgotten /\ []NobodyLeadsAgain => NobodyIsMisled` |
| | `TwoTermsAreSafe` | `SafeFaults` and `MaxTerm <= 2` give all six with `Spec` alone |
| `ClientProofs` | `ClientTypesAreRight` | `ClientSpec => []ClientTypeOK` |
| | `ClientsKeepElections` | `ClientSpec => ElectionSpec` |
| | `ProbesKeepLogs` | `ClientSpec => [](RaftTypeOK /\ LogMatching)` |
| | `AckedWritesAreStored` | `GoodCalls => []AckedIsOnMajority` |
| | `AckedWritesAreApplied` | with `GoodCalls`, a state machine that has come so far has been given each such write at its index |
| | `SettledReadsAreFresh` | `GoodCalls => []SettledReadIsFresh` |
| | `ProbesKeepSafety` | `GoodCalls => []` of `StateMachineSafety`, `LeaderCompleteness`, `CommittedIsStored` and `CountedIsStored` |
| | `ClientsSeeReplicatedLog` | `GoodCalls => ReplicatedLogSpec` |
| | `WhoMisleadsClients` | `ClientSpec /\ []NobodyLeadsAgain => NobodyIsMisled` |
| | `TwoTermsServeClients` | `MaxTerm <= 2` gives `AckedIsOnMajority`, `SettledReadIsFresh`, `CommittedIsStored` and `ReplicatedLogSpec` with `ClientSpec` alone |
| `ReadPathProofs` | `AppliesInOrder` | `Spec => []AppliedInOrder` |
| | `ReadsAreFresh` | `Spec => []BatchIsFresh` |
| | `RoundsAreShared` | `Spec => []OneRoundAtATime` |
| `StorageProofs` | `SavedStatesSurvive` | `Spec => []SavedStateSurvives` |
| | `CrashesLoseNothing` | `Spec => []CrashLosesNothing` |
| | `OffsetsStayRight` | `Spec => []OffsetsAreRight` |
| | `AppendAfterEndsInClosedForm` | `Spec => []AppendAfterIsClosedForm` |
| | `SharedIsNeverLost` | `Spec => SharedStaysShared` |
| | `LogTermsAreSaved` | `Spec => []LogTermIsSaved` |

Here `Good` stands for `Spec /\ NoTermIsForgotten /\ NobodyIsMisled`, and
`GoodCalls` for `ClientSpec /\ NobodyIsMisled`.

### Assumptions

On constants: `ClusterAssumption` (what `Config.Validate` enforces),
`ElectionAssumption`, `RaftAssumption`, `StorageAssumption` (bounds are natural
numbers). Some theorems need more, and say so:

* *The gap of `probe` is closed* (second to fourth theorem of `ElectionProofs`):
  with it they are false, run `election_probe_gap`. `Raft` takes `probe` as one
  step. The gap of `Propose`, which `RaftGaps` opens, is closed in `Raft` for
  the same reason.
* `SafeFaults` (`NoTermIsEverForgotten`, `TwoTermsAreSafe`): state files that fail
  (`"disk"`) and processes that crash (`"crash"`) do not come together. Each kind
  of fault alone is covered.

On behaviours, what the code does not see to:

* `NoTermIsForgotten`: no node comes back in an earlier term. It holds under
  `SafeFaults` (`NoTermIsEverForgotten`). A node whose `Save` failed goes on in the
  new term (`node.go:77`), and stores entries of its leader there, which count; if it then
  crashes it comes back in the earlier term, where an old request may replace
  them and where its vote does not know of them. Vote and election safety
  survive this: `ElectionProofs` assumes nothing of the kind. In `Clients`
  nothing crashes.
* `NobodyIsMisled`: no successful reply to a request of an earlier leadership is
  used by a later leadership of the node, *if* it speaks of an entry of the present
  term or of a position that is still to be filled (`Misleads`). All other
  late replies are used, and covered. It can only be broken by a node that leads, is
  replaced and leads again (`WhoIsMisled`, `WhoMisleadsClients`), and then
  `CountedIsStored` and `AckedIsDurable` are false (run `clients_late_ack`).

With two terms nobody leads again, so `TwoTermsAreSafe` and
`TwoTermsServeClients` assume no behaviour: they say of any number of nodes,
entries, calls and writes what `raft_crash` and `clients` check on
three nodes. `raft_terms` goes beyond: in its instance, of three terms and some of a
fourth with one call at a time, `LeaderCompleteness` and `StateMachineSafety` hold
without any assumption.

### Elections

`ElectionSafety` is not inductive: that two nodes won the same term says
nothing about how. The invariant `IndInv` says that a vote which is counted
somewhere, in a reply, in a candidate's count or in a won election, binds the
voter in memory *and* in the state file (`VotesBind`), that no voter's vote
counts for two candidates of a term (`OneVotePerTerm`), that winners have a
majority of such votes (`ElectedByMajority`), and that the state file is behind
the memory but never contradicts it (`DiskBehind`). The last part is what a
failed save needs: memory may run ahead, and a crash then goes back to a state
that still knows every vote that was announced. The proof shows that every step
*advances* every node (`NextAdvances`), that advancing releases no binding
(`BindingsHold`), and that a step which makes a vote count finds the voter free
(`NextVotes`). Majorities intersect by counting (`QuorumsIntersect`).

### Replication

`RaftInv` (`RaftProofs`) are the types of all variables, and that requests come
from elected leaders and replies have terms somebody has campaigned in; so what
a node learns from them is what `Election` lets it learn, and every step of
`Raft` is a step of `Election` or a stutter. What `ElectionProofs` has shown of
elections then holds in `Raft` (instance `EP`).

The proofs are about `NextOrProbe`, which is `Next` or the sending of any
request a leader may send, a probe included, or the answer to one. A step of
`Raft` is one, and so is a step of `Clients` (`ClientsStepIsNextOrProbe`): what
is proved here need not be proved again for `Clients`.

`MatchingInv` (`RaftProofs`) takes logs, and the requests that are in the
network, as *segments*: a position and the entries behind it. Two segments that
have an entry of one term at one position agree on everything before it that
both cover. `LogMatching` alone, which speaks of logs, is not inductive because
of requests in the network. Half-written requests and late replies do no harm to
it, whoever is misled.

`TermInv` (`LeaderProofs`) orders terms: no entry is of a later term than its
log's node, a request is cut out of the log its leader has now, and what a
candidate has asked with is its log. `Secure(pre, A)` is the heart of the proof:
the nodes of `A` hold the prefix `pre`, and no leader, request, candidate or
more up-to-date log lacks it. It is set up when a leader appends the last entry
of `pre` (`NewestIsSecure`), can take in a node that stores the prefix
(`SecureGrows`), and stays as long as `A`, with the nodes that have not passed
the term, includes a majority (`SecureStays`): a later leader got a vote from
`A`, and the voter compared logs.

`CommitInv` (`CommitProofs`) adds that successful replies are true of the
leadership they were meant for, that the peers a leader counts for an entry of
its term hold what it has up to there, and that this is secure in them, and that there is one
sequence, `chosen`, a safe prefix, of which every state machine has been given a
part; a commit index in a request, or of a node, covers only what has been safe
since a term not later than its own. When `advanceCommit` finds a majority, its
prefix is safe; two safe prefixes never differ (`SafesAgree`), and what is
applied is never cut off. The refinement of `ReplicatedLog` maps its sequence to
`chosen`.

Rule 4 of `handleAppendEntries` compares the follower's commit index with the
leader's, and then takes the smaller of the leader's and the end of the request.
That never lowers it as long as no request carries a commit index beyond the
entries it covers (`CommitsAreCovered`): true of what `replicateTo` sends, which
reaches to the end of the leader's log, and all that `CommitsNeverDecrease` needs
besides `CommitInv`. A probe has no entries and carries the commit index all the
same; so `CommitNeverDecreases` is false of `Clients` (section 4).

### Clients

`ClientInv` (`ClientProofs`) is `CommitInv` and what is known of calls.

*Writes.* `Propose` counts acknowledgements, and advances the commit index from
match indexes. These are two books of one fact, and nothing in the code compares
them. Instead of tying one to the other, the invariant says of each what it
stands for. `Heard(c)` are the nodes that have said to have stored the entry of
`c`, in a reply counted or still under way. While they can still become a
majority, the prefix that ends with the entry is `Secure` in them
(`WaitingPrevail`), whether or not the node that proposed it still leads. Once a
majority has been counted, the prefix is safe, and as the last check of
`Propose` has seen the commit index pass it, it is the one that is chosen at
this index (`AckedIsChosen`): that check compares indexes only, but two safe
prefixes agree. All of it is said of steady writes, whose answers are to requests of
their own leadership (`SteadyAcked` once they are acknowledged); for the others it is
false, run `clients_late_ack`. A write stays steady when its node is deposed.

*The read.* Take a steady write in `must` that the read index does not cover
when the round begins. If the write's entry is of the reader's term, this leader
has committed it before `Propose` returned (`OwnersHaveCommitted`). If it is of an
earlier term, it lies in the leader's log before every entry of the leader's term,
one of which the leader has committed (`settled`). So it is of a later term, and a
majority voted in that term: they have a higher term, and did
not confirm the reader (`Outvoted`), nor will they. Such a round does not end
with a majority in its term (`RoundIsFair`); one that does has an index that
covers the steady writes of `must` (`IndexIsFresh`), and `WaitForApplied` does
the rest (`MissedIsAcked`: what a read misses was acknowledged before it).

*Probes* carry the leader's commit index without entries. A follower that is
behind sets its own index back to 0, and forgets what it knew but claims nothing
false. So all promises hold with them but `CommitNeverDecreases`
(`ProbesKeepSafety`, `ClientsSeeReplicatedLog`).

### One node

`ReadPathProofs!IndInv`: one holder of `applyMu`, and only it is past the lock,
so that the entry it read as the next one still is, whatever has become of the
commit index since; a batch that can be joined has not been started, and the
index it captures is a commit index there has been since its readers joined.

`StorageProofs`: `FileInv` says that the file as last synced is the frames of
the log in memory, and that a file operation under way is the work on the first
entry left to do; after a crash, that file and disk start with the frames of the
same log and what follows is not intact. What a crash may leave is then computed
from the longest common prefix of file and disk. `SaveInv` says which complete
states the two names of the state file have. `CallInv` is the invariant of the
loop of `AppendAfter`: after `d` of the entries the log is the old one, if all
of them were there, or the closed form up to the `d`-th (`Looped`). `SavedInv`
says that no entry on disk, or about to be written, is of a later term than a
state that a crash may bring back. Errors that leave a file half-way changed
(`HalfwaySpec`) are outside of these theorems; with them they are false, run
`storage_halfway`.

Facts of the form "a set of numbers has a least (greatest) element", which stand in
for inductions over data, are proved in `RaftLogProofs` (`LeastNatural`,
`GreatestBounded`) from the well-foundedness of the natural numbers.

### Only model-checked

* Liveness: `CampaignReturns`, and `JoinedReaderLeaves`, `AppliedReaderReturns`,
  `CommittedIsApplied` of `ReadPath`. TLAPS does not prove what follows from
  fairness.
* What `raft_terms` shows of three and four terms although a node may lead
  again: the theorems assume `NobodyIsMisled` there.

Every safety property of a passing run is stated by a theorem.

## 6. Not modelled

Every component of the protocol and of its storage is modelled. Left out, and why:

* Real time: heartbeats that wait for a dead peer against election timeouts,
  `lastHeard`. A timeout may expire at any moment in the models, which covers
  every timing for safety; how long elections take is a matter of measurement.
* The gap of `replicateTo` between its header and its reads of the log: a
  request that mixes two logs takes four terms, too many for an exhaustive run.
* Clients over three terms in an exhaustive run; `clients_late_ack` goes there for
  one counterexample.
* Crashes in `Clients`: a call that dies with its process is a call that fails.
* Failing log writes together with crashes and a cluster: what a failed write
  leaves in the file is only in `Storage`.
* `noReadBatching` (benchmarks only), `BecomeLeader` (tests only), `ParsePeers`,
  JSON, body limits and connection pooling, listeners and graceful shutdown,
  `handleStatus` and `handleHealth`, the load generator and the scripts: input
  and output only.
* `engine` and `store`: a map under one lock. What it is given is modelled.
