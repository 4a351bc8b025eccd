------------------------------ MODULE ReadPath -------------------------------
(***************************************************************************)
(* Inside one node: the goroutines that apply committed entries            *)
(* (applyCommitted in internal/raft/node.go) and the strong reads that     *)
(* share confirmation rounds and wait for entries to be applied            *)
(* (ConfirmLeadership, runConfirm, confirmRound, WaitForApplied in         *)
(* read.go).  An action is one critical section of n.mu or n.confirmMu.    *)
(*                                                                         *)
(* What decides on the commit index, and whether a round succeeds, is up to *)
(* modules Raft and Clients; here both are arbitrary, but for what the two *)
(* places that assign the commit index allow it to do.                     *)
(***************************************************************************)
EXTENDS Naturals, FiniteSets, Sequences, SequencesExt

CONSTANTS Worker,    \* goroutines in Propose, Heartbeat or HandleAppendEntries
          Reader,    \* goroutines in LinearizableRead, one read each
          MaxIndex   \* bound: entries that get committed

ASSUME ReadPathAssumption == MaxIndex \in Nat

VARIABLES
    isLeader,        \* Node.role = Leader
    commitIndex,     \* Node.commitIndex
    reached,         \* history: the highest that commitIndex has been
    lastApplied,     \* Node.lastApplied
    machine,         \* what the state machine was given, by index
    wakeups,         \* how many channels have been n.applyWait before this one
    applyMu,         \* the worker that holds Node.applyMu, if any
    worker,          \* where each worker is
    batches,         \* every confirmBatch there has been
    confirmNext,     \* Node.confirmNext, 0 for nil
    confirmRunning,  \* Node.confirmRunning
    rounds,          \* the batches that runConfirm goroutines have in hand
    reader           \* where each reader is

commitVars == <<commitIndex, reached>>
applyVars == <<lastApplied, machine, wakeups, applyMu, worker>>
batchVars == <<batches, confirmNext, confirmRunning, rounds>>
vars == <<isLeader, commitVars, applyVars, batchVars, reader>>

Indexes == 0..MaxIndex

Nobody == {}

\* next: the local of applyCommitted.
Idle == [pc |-> "idle", next |-> 0]

\* need: history, the lowest commit index there has been since the reader
\* joined its batch.
NewReader == [pc |-> "new", batch |-> 0, index |-> 0, wait |-> 0, need |-> 0]

\* "queued", "started" (the index has been captured), and with done closed
\* "ok" or "failed".
NewBatch == [state |-> "queued", index |-> 0]

Init ==
    /\ isLeader \in BOOLEAN
    /\ commitIndex = 0 /\ reached = 0
    /\ lastApplied = 0 /\ machine = <<>> /\ wakeups = 0
    /\ applyMu = Nobody
    /\ worker = [w \in Worker |-> Idle]
    /\ batches = <<>> /\ confirmNext = 0 /\ confirmRunning = FALSE
    /\ rounds = {}
    /\ reader = [r \in Reader |-> NewReader]

-----------------------------------------------------------------------------
(* Applying *)

\* A new commit index, or the old one; the same goroutine then calls
\* applyCommitted.
CommitTo(w, index) ==
    /\ worker[w].pc = "idle"
    /\ commitIndex' = index
    /\ reached' = IF index > reached THEN index ELSE reached
    /\ worker' = [worker EXCEPT ![w].pc = "call"]
    /\ reader' = [r \in Reader |-> [reader[r] EXCEPT !.need = IF index < @ THEN index ELSE @]]
    /\ UNCHANGED <<lastApplied, machine, wakeups, applyMu, batchVars>>

\* Propose or Heartbeat: advanceCommit finds more on a majority, or does not.
AdvanceCommit(w) ==
    /\ \E index \in commitIndex..MaxIndex : /\ isLeader \/ index = commitIndex
                                           /\ CommitTo(w, index)
    /\ UNCHANGED isLeader

\* handleAppendEntries, rule 4.  The cap may be below the commit index.
CommitAfter(leaderCommit, lastNew) ==
    IF leaderCommit <= commitIndex THEN commitIndex
    ELSE IF leaderCommit <= lastNew THEN leaderCommit ELSE lastNew

\* HandleAppendEntries, with entries, as a heartbeat or as a probe.
AcceptEntries(w) ==
    /\ \E leaderCommit, lastNew \in Indexes : CommitTo(w, CommitAfter(leaderCommit, lastNew))
    /\ isLeader' = FALSE

\* Mutants: nobody waits for the lock; a worker that finds it taken leaves.
LockAlways(w) ==
    /\ applyMu' = {w}
    /\ worker' = [worker EXCEPT ![w].pc = "check"]

LockOrLeave(w) ==
    IF applyMu = Nobody
    THEN applyMu' = {w} /\ worker' = [worker EXCEPT ![w].pc = "check"]
    ELSE applyMu' = applyMu /\ worker' = [worker EXCEPT ![w].pc = "return"]

Lock(w) ==
    /\ applyMu = Nobody
    /\ applyMu' = {w}
    /\ worker' = [worker EXCEPT ![w].pc = "check"]

EnterApply(w) ==
    /\ worker[w].pc = "call"
    /\ Lock(w)
    /\ UNCHANGED <<isLeader, commitVars, lastApplied, machine, wakeups, batchVars, reader>>

\* The head of the loop: the next entry, or nothing left to do.
CheckCommitted(w) ==
    /\ worker[w].pc = "check"
    /\ IF lastApplied + 1 > commitIndex
       THEN worker' = [worker EXCEPT ![w].pc = "return"]
       ELSE worker' = [worker EXCEPT ![w].pc = "apply", ![w].next = lastApplied + 1]
    /\ UNCHANGED <<isLeader, commitVars, lastApplied, machine, wakeups, applyMu, batchVars, reader>>

\* n.apply(entry), outside of n.mu.
Apply(w) ==
    /\ worker[w].pc = "apply"
    /\ machine' = Append(machine, worker[w].next)
    /\ worker' = [worker EXCEPT ![w].pc = "publish"]
    /\ UNCHANGED <<isLeader, commitVars, lastApplied, wakeups, applyMu, batchVars, reader>>

\* Mutant: the channel is not closed.
WokenNot == wakeups

\* close(n.applyWait), and a new channel.
Woken == wakeups + 1

Publish(w) ==
    /\ worker[w].pc = "publish"
    /\ lastApplied' = worker[w].next
    /\ wakeups' = Woken
    /\ worker' = [worker EXCEPT ![w].pc = "check", ![w].next = 0]
    /\ UNCHANGED <<isLeader, commitVars, machine, applyMu, batchVars, reader>>

\* applyMu is released, and the caller tells its client, or its leader.
ApplyReturns(w) ==
    /\ worker[w].pc = "return"
    /\ worker' = [worker EXCEPT ![w] = Idle]
    /\ applyMu' = applyMu \ {w}
    /\ UNCHANGED <<isLeader, commitVars, lastApplied, machine, wakeups, batchVars, reader>>

-----------------------------------------------------------------------------
(* Confirming *)

\* Mutants: join the round that is running; start a round of one's own.
JoinRunning ==
    IF confirmNext # 0 THEN confirmNext
    ELSE IF rounds # {} THEN CHOOSE b \in rounds : TRUE ELSE Len(batches) + 1

StartAlways == TRUE

\* The batch a reader joins: the one that waits, or a new one ...
Join == IF confirmNext # 0 THEN confirmNext ELSE Len(batches) + 1

\* ... and whether the reader has to start it.
StartIt == ~confirmRunning

\* ConfirmLeadership, up to where the reader waits for its batch.
ConfirmLeadership(r) ==
    /\ reader[r].pc = "new"
    /\ isLeader
    /\ batches' = IF Join > Len(batches) THEN Append(batches, NewBatch) ELSE batches
    /\ IF StartIt THEN /\ confirmRunning' = TRUE
                       /\ confirmNext' = 0
                       /\ rounds' = rounds \cup {Join}
                  ELSE /\ confirmNext' = Join
                       /\ UNCHANGED <<confirmRunning, rounds>>
    /\ reader' = [reader EXCEPT ![r].pc = "joined", ![r].batch = Join,
                                ![r].need = commitIndex]
    /\ UNCHANGED <<isLeader, commitVars, applyVars>>

\* confirmRound: the commit index is captured before anybody is asked.
CaptureIndex(b) ==
    /\ b \in rounds
    /\ batches[b].state = "queued"
    /\ batches' = [batches EXCEPT ![b] = IF isLeader
                     THEN [state |-> "started", index |-> commitIndex]
                     ELSE [state |-> "failed", index |-> 0]]
    /\ UNCHANGED <<isLeader, commitVars, applyVars, confirmNext, confirmRunning, rounds, reader>>

\* The round ends, by a majority, too many refusals or its timeout, and done
\* is closed.
RoundEnds(b) ==
    /\ b \in rounds
    /\ batches[b].state = "started"
    /\ \/ isLeader /\ batches' = [batches EXCEPT ![b].state = "ok"]
       \/ batches' = [batches EXCEPT ![b] = [state |-> "failed", index |-> 0]]
    /\ UNCHANGED <<isLeader, commitVars, applyVars, confirmNext, confirmRunning, rounds, reader>>

\* Mutant: the goroutine stops although somebody has queued up.
TakeNone == 0

Take == confirmNext

\* runConfirm takes the batch that has queued up meanwhile, or stops.
NextRound(b) ==
    /\ b \in rounds
    /\ batches[b].state \in {"ok", "failed"}
    /\ IF Take # 0
       THEN /\ rounds' = (rounds \ {b}) \cup {Take}
            /\ confirmNext' = 0
            /\ UNCHANGED confirmRunning
       ELSE /\ rounds' = rounds \ {b}
            /\ confirmRunning' = FALSE
            /\ UNCHANGED confirmNext
    /\ UNCHANGED <<isLeader, commitVars, applyVars, batches, reader>>

-----------------------------------------------------------------------------
(* Waiting *)

\* The batch is done: its index, or an error.
BatchDone(r) ==
    /\ reader[r].pc = "joined"
    /\ LET b == batches[reader[r].batch]
       IN  \/ /\ b.state = "ok"
              /\ reader' = [reader EXCEPT ![r] = [NewReader EXCEPT !.pc = "check", !.index = b.index]]
           \/ /\ b.state = "failed"
              /\ reader' = [reader EXCEPT ![r] = [NewReader EXCEPT !.pc = "done"]]
    /\ UNCHANGED <<isLeader, commitVars, applyVars, batchVars>>

\* On a follower ReadIndex gets the index from the leader, which may be far
\* ahead of this node.
AskLeader(r, index) ==
    /\ reader[r].pc = "new"
    /\ ~isLeader
    /\ reader' = [reader EXCEPT ![r].pc = "check", ![r].index = index]
    /\ UNCHANGED <<isLeader, commitVars, applyVars, batchVars>>

\* WaitForApplied looks at lastApplied and takes the channel, in one critical
\* section.
CheckApplied(r) ==
    /\ reader[r].pc = "check"
    /\ reader' = [reader EXCEPT ![r] =
          IF lastApplied >= @.index THEN [NewReader EXCEPT !.pc = "done"]
          ELSE [@ EXCEPT !.pc = "waiting", !.wait = wakeups]]
    /\ UNCHANGED <<isLeader, commitVars, applyVars, batchVars>>

\* The channel it took has been closed.
WakeUp(r) ==
    /\ reader[r].pc = "waiting"
    /\ wakeups > reader[r].wait
    /\ reader' = [reader EXCEPT ![r].pc = "check", ![r].wait = 0]
    /\ UNCHANGED <<isLeader, commitVars, applyVars, batchVars>>

\* No leader, an error from it, or the client's context ends.
GiveUp(r) ==
    /\ reader[r].pc \in {"new", "joined", "waiting"}
    /\ reader' = [reader EXCEPT ![r] = [NewReader EXCEPT !.pc = "done"]]
    /\ UNCHANGED <<isLeader, commitVars, applyVars, batchVars>>

\* Elections.
ChangeRole ==
    /\ isLeader' = ~isLeader
    /\ UNCHANGED <<commitVars, applyVars, batchVars, reader>>

-----------------------------------------------------------------------------
WorkerStep(w) ==
    EnterApply(w) \/ CheckCommitted(w) \/ Apply(w) \/ Publish(w) \/ ApplyReturns(w)

RoundStep(b) == CaptureIndex(b) \/ RoundEnds(b) \/ NextRound(b)

ReaderStep(r) == BatchDone(r) \/ CheckApplied(r) \/ WakeUp(r)

Next ==
    \/ \E w \in Worker : AdvanceCommit(w) \/ AcceptEntries(w) \/ WorkerStep(w)
    \/ \E b \in rounds : RoundStep(b)
    \/ \E r \in Reader : \/ ConfirmLeadership(r)
                         \/ \E index \in Indexes : AskLeader(r, index)
                         \/ ReaderStep(r)
                         \/ GiveUp(r)
    \/ ChangeRole

\* The scheduler runs every goroutine that can go on, and every round ends, at
\* its timeout at the latest.  Nothing makes entries get committed, reads
\* begin or leaders change, and a worker may starve at applyMu.
Fairness ==
    /\ \A w \in Worker : WF_vars(WorkerStep(w))
    /\ \A b \in 1..Cardinality(Reader) : WF_vars(RoundStep(b))
    /\ \A r \in Reader : WF_vars(ReaderStep(r))

Spec == Init /\ [][Next]_vars /\ Fairness

-----------------------------------------------------------------------------
\* Entries reach the state machine in index order, each exactly once, with
\* any number of goroutines in applyCommitted, and none that has never been
\* below the commit index: also if that is set back while they are at work.
AppliedInOrder ==
    /\ \A k \in DOMAIN machine : machine[k] = k
    /\ lastApplied <= Len(machine) /\ Len(machine) <= reached

\* No read is answered from an index that was captured before the read began:
\* the index its batch gives it covers everything that was committed then and
\* has remained so ("join the batch that has NOT started yet, never the one in
\* flight").
BatchIsFresh ==
    \A r \in Reader :
        reader[r].pc = "joined" /\ batches[reader[r].batch].state = "ok" =>
            batches[reader[r].batch].index >= reader[r].need

\* However many reads there are, they share one round at a time, and
\* confirmRunning says whether there is one.
OneRoundAtATime ==
    /\ Cardinality(rounds) <= 1
    /\ confirmRunning = (rounds # {})

\* Every read that joined a batch gets its result.
JoinedReaderLeaves == \A r \in Reader : reader[r].pc = "joined" ~> reader[r].pc # "joined"

\* A read that waits for an entry that has been applied returns: no wake-up
\* is missed.
AppliedReaderReturns ==
    \A r \in Reader :
        reader[r].pc = "waiting" /\ lastApplied >= reader[r].index ~> reader[r].pc # "waiting"

\* What is committed gets applied, unless the commit index is set back before
\* that, although the goroutine that committed it may find another one at work
\* that has already looked at the commit index.
CommittedIsApplied ==
    \A k \in 1..MaxIndex : commitIndex >= k ~> lastApplied >= k \/ commitIndex < k
=============================================================================
