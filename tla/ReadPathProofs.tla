---------------------------- MODULE ReadPathProofs ----------------------------
(***************************************************************************)
(* Proofs about module ReadPath, for any number of goroutines and reads.   *)
(*                                                                         *)
(* Applying: applyMu has at most one holder, and only the holder is past   *)
(* the lock; so the entry it took for the next one still is the next one   *)
(* when it hands it to the state machine, although n.mu was released.      *)
(*                                                                         *)
(* Confirming: a batch that somebody may still join has not been started,  *)
(* and the index a batch captures when it is started is at least the       *)
(* lowest commit index there has been since any of its readers joined.     *)
(***************************************************************************)
EXTENDS ReadPath, FiniteSetTheorems, SequenceTheorems, TLAPS

WorkerType == [pc : {"idle", "call", "check", "apply", "publish", "return"}, next : Nat]

BatchType == [state : {"queued", "started", "ok", "failed"}, index : Nat]

ReaderType == [pc : {"new", "joined", "check", "waiting", "done"},
               batch : Nat, index : Nat, wait : Nat, need : Nat]

Types ==
    /\ isLeader \in BOOLEAN
    /\ commitIndex \in Indexes
    /\ reached \in Indexes
    /\ lastApplied \in Nat
    /\ machine \in Seq(Nat)
    /\ wakeups \in Nat
    /\ applyMu \in SUBSET Worker
    /\ worker \in [Worker -> WorkerType]
    /\ batches \in Seq(BatchType)
    /\ confirmNext \in Nat
    /\ confirmRunning \in BOOLEAN
    /\ rounds \in SUBSET Nat
    /\ reader \in [Reader -> ReaderType]

\* Who is past EnterApply holds applyMu, and nobody else does.
LockHeld ==
    /\ \A w \in Worker : worker[w].pc \in {"check", "apply", "publish", "return"} <=> w \in applyMu
    /\ \A v, w \in applyMu : v = w

\* What the holder of applyMu remembers is still so.
NextIsNext ==
    \A w \in Worker :
        /\ worker[w].pc = "apply" => /\ worker[w].next = lastApplied + 1
                                     /\ worker[w].next <= reached
        /\ worker[w].pc = "publish" => /\ worker[w].next = lastApplied + 1
                                       /\ worker[w].next = Len(machine)

\* The state machine is ahead of lastApplied only while the entry it was given
\* last is about to be published.
MachineInStep ==
    /\ \A k \in 1..Len(machine) : machine[k] = k
    /\ Len(machine) <= reached /\ commitIndex <= reached
    /\ \/ Len(machine) = lastApplied
       \/ \E w \in Worker : worker[w].pc = "publish"

ApplyInv == LockHeld /\ NextIsNext /\ MachineInStep

\* At most one runConfirm goroutine, and confirmRunning knows.
OneRunner ==
    /\ confirmRunning = (rounds # {})
    /\ \A a, b \in rounds : a = b
    /\ rounds \subseteq 1..Len(batches)

\* confirmNext is a batch nobody has started, behind one that somebody has.
NextIsQueued ==
    confirmNext # 0 => /\ confirmNext \in 1..Len(batches)
                       /\ batches[confirmNext].state = "queued"
                       /\ confirmNext \notin rounds
                       /\ confirmRunning

\* A batch that was started covers everybody who joined it.
JoinedIsCovered ==
    \A r \in Reader : reader[r].pc = "joined" =>
        /\ reader[r].batch \in 1..Len(batches)
        /\ reader[r].need <= commitIndex
        /\ batches[reader[r].batch].state \in {"started", "ok"} =>
              batches[reader[r].batch].index >= reader[r].need

ConfirmInv == OneRunner /\ NextIsQueued /\ JoinedIsCovered

IndInv == Types /\ ApplyInv /\ ConfirmInv

-----------------------------------------------------------------------------
\* The initial state of a node that has just started (NewNode).
LEMMA InitIndInv == Init => IndInv
  <1> SUFFICES ASSUME Init PROVE IndInv
    OBVIOUS
  <1>1. Len(machine) = 0 /\ Len(batches) = 0
    BY DEF Init
  <1>2. Types
    <2>1. Idle \in WorkerType /\ NewReader \in ReaderType /\ 0 \in Indexes
      BY ReadPathAssumption DEF Idle, NewReader, WorkerType, ReaderType, Indexes
    <2>2. machine \in Seq(Nat) /\ batches \in Seq(BatchType)
      BY EmptySeq DEF Init
    <2>3. QED
      BY <2>1, <2>2 DEF Init, Types, Nobody
  <1>3. ApplyInv
    BY <1>1, ReadPathAssumption
       DEF Init, ApplyInv, LockHeld, NextIsNext, MachineInStep, Idle, Nobody
  <1>4. ConfirmInv
    BY <1>1 DEF Init, ConfirmInv, OneRunner, NextIsQueued, JoinedIsCovered, NewReader
  <1>5. QED
    BY <1>2, <1>3, <1>4 DEF IndInv

\* What a worker does to itself leaves it well typed.
LEMMA WorkerTyped ==
    ASSUME Types, NEW w \in Worker, WorkerStep(w)
    PROVE  worker' \in [Worker -> WorkerType]
  <1>1. worker \in [Worker -> WorkerType] /\ lastApplied \in Nat
    BY DEF Types
  <1>3. CASE EnterApply(w)
    BY <1>1, <1>3 DEF EnterApply, Lock, WorkerType
  <1>4. CASE CheckCommitted(w)
    <2>1. CASE worker' = [worker EXCEPT ![w].pc = "return"]
      BY <1>1, <2>1 DEF WorkerType
    <2>2. CASE worker' = [worker EXCEPT ![w].pc = "apply", ![w].next = lastApplied + 1]
      <3>1. lastApplied + 1 \in Nat
        BY <1>1
      <3>2. QED BY <1>1, <2>2, <3>1 DEF WorkerType
    <2>3. QED BY <1>4, <2>1, <2>2 DEF CheckCommitted
  <1>5. CASE Apply(w)
    BY <1>1, <1>5 DEF Apply, WorkerType
  <1>6. CASE Publish(w)
    BY <1>1, <1>6 DEF Publish, WorkerType
  <1>7. CASE ApplyReturns(w)
    BY <1>1, <1>7 DEF ApplyReturns, Idle, WorkerType
  <1>8. QED
    BY <1>3, <1>4, <1>5, <1>6, <1>7 DEF WorkerStep

\* What the numbers of Types are.
LEMMA Numbers ==
    ASSUME Types
    PROVE  /\ commitIndex \in Nat /\ commitIndex <= MaxIndex /\ MaxIndex \in Nat
           /\ reached \in Nat /\ reached <= MaxIndex
           /\ lastApplied \in Nat
           /\ Len(machine) \in Nat
           /\ Len(batches) \in Nat
           /\ \A w \in Worker : worker[w].next \in Nat
           /\ \A b \in 1..Len(batches) : batches[b] \in BatchType
           /\ \A r \in Reader : reader[r].batch \in Nat /\ reader[r].need \in Nat
  <1>1. /\ commitIndex \in Nat /\ commitIndex <= MaxIndex /\ MaxIndex \in Nat
        /\ reached \in Nat /\ reached <= MaxIndex
    BY ReadPathAssumption DEF Types, Indexes
  <1>2. lastApplied \in Nat /\ Len(machine) \in Nat /\ Len(batches) \in Nat
    BY LenProperties DEF Types
  <1>3. \A w \in Worker : worker[w].next \in Nat
    BY DEF Types, WorkerType
  <1>4. \A b \in 1..Len(batches) : batches[b] \in BatchType
    BY ElementOfSeq DEF Types
  <1>5. \A r \in Reader : reader[r].batch \in Nat /\ reader[r].need \in Nat
    BY DEF Types, ReaderType
  <1>6. QED BY <1>1, <1>2, <1>3, <1>4, <1>5

\* A commit index may move either way: nothing that has been applied, and no
\* reader, depends on where it is now.
LEMMA CommitToKeeps ==
    ASSUME IndInv, NEW w \in Worker, NEW index \in Indexes, CommitTo(w, index),
           isLeader' \in BOOLEAN
    PROVE  IndInv'
  <1>1. /\ Types /\ LockHeld /\ NextIsNext /\ MachineInStep
        /\ OneRunner /\ NextIsQueued /\ JoinedIsCovered
    BY DEF IndInv, ApplyInv, ConfirmInv
  <1>2. /\ index \in Nat /\ commitIndex' = index
        /\ reached' \in Indexes /\ reached' >= reached /\ index <= reached'
    BY <1>1, Numbers DEF CommitTo, Indexes
  <1>3. UNCHANGED <<lastApplied, machine, wakeups, applyMu, batchVars>>
    BY DEF CommitTo
  <1>4. /\ worker' \in [Worker -> WorkerType]
        /\ worker[w].pc = "idle" /\ worker'[w].pc = "call"
        /\ \A v \in Worker : v # w => worker'[v] = worker[v]
    BY <1>1 DEF CommitTo, Types, WorkerType
  <1>5. ASSUME NEW r \in Reader
        PROVE  /\ reader'[r] \in ReaderType
               /\ reader'[r].pc = reader[r].pc /\ reader'[r].batch = reader[r].batch
               /\ reader'[r].need <= reader[r].need /\ reader'[r].need <= index
    <2>1. reader[r] \in ReaderType
      BY <1>1 DEF Types
    <2>2. reader'[r] = [reader[r] EXCEPT !.need = IF index < @ THEN index ELSE @]
      BY DEF CommitTo
    <2>3. CASE index < reader[r].need
      <3>1. reader'[r] = [reader[r] EXCEPT !.need = index]
        BY <2>2, <2>3
      <3>2. QED BY <1>2, <2>1, <2>3, <3>1 DEF ReaderType
    <2>4. CASE ~(index < reader[r].need)
      <3>1. reader'[r] = reader[r]
        BY <2>1, <2>2, <2>4 DEF ReaderType
      <3>2. QED BY <1>2, <2>1, <2>4, <3>1 DEF ReaderType
    <2>5. QED BY <2>3, <2>4
  <1>6. reader' \in [Reader -> ReaderType]
    BY <1>5 DEF CommitTo
  <1>7. Types'
    BY <1>1, <1>2, <1>3, <1>4, <1>6 DEF Types, batchVars, commitVars
  <1>8. LockHeld'
    BY <1>1, <1>3, <1>4 DEF LockHeld
  <1>9. NextIsNext'
    BY <1>1, <1>2, <1>3, <1>4, Numbers DEF NextIsNext
  <1>10. MachineInStep'
    BY <1>1, <1>2, <1>3, <1>4, Numbers DEF MachineInStep
  <1>11. OneRunner' /\ NextIsQueued'
    BY <1>1, <1>3 DEF OneRunner, NextIsQueued, batchVars, commitVars
  <1>12. JoinedIsCovered'
    <2>1. ASSUME NEW r \in Reader, reader'[r].pc = "joined"
          PROVE  /\ reader'[r].batch \in 1..Len(batches')
                 /\ reader'[r].need <= commitIndex'
                 /\ batches'[reader'[r].batch].state \in {"started", "ok"} =>
                       batches'[reader'[r].batch].index >= reader'[r].need
      <3>1. reader[r].pc = "joined" /\ reader[r].batch \in 1..Len(batches)
        BY <1>1, <1>5, <2>1 DEF JoinedIsCovered
      <3>2. batches[reader[r].batch].index \in Nat
        BY <1>1, <3>1, Numbers DEF BatchType
      <3>3. reader[r].need \in Nat /\ reader'[r].need \in Nat
        BY <1>1, <1>6 DEF Types, ReaderType
      <3>4. QED BY <1>1, <1>2, <1>3, <1>5, <3>1, <3>2, <3>3 DEF JoinedIsCovered, batchVars
    <2>2. QED BY <2>1 DEF JoinedIsCovered
  <1>13. QED
    BY <1>7, <1>8, <1>9, <1>10, <1>11, <1>12 DEF IndInv, ApplyInv, ConfirmInv

\* The two places that assign the commit index (advanceCommit and
\* handleAppendEntries).
LEMMA CommitStepsKeep ==
    ASSUME IndInv, NEW w \in Worker, AdvanceCommit(w) \/ AcceptEntries(w)
    PROVE  IndInv'
  <1>1. Types /\ MaxIndex \in Nat /\ commitIndex \in Indexes
    BY ReadPathAssumption DEF IndInv, Types
  <1>2. CASE AdvanceCommit(w)
    <2>1. PICK index \in commitIndex..MaxIndex : CommitTo(w, index)
      BY <1>2 DEF AdvanceCommit
    <2>2. index \in Indexes /\ isLeader' \in BOOLEAN
      BY <1>1, <1>2 DEF AdvanceCommit, Indexes, Types
    <2>3. QED BY <2>1, <2>2, CommitToKeeps
  <1>3. CASE AcceptEntries(w)
    <2>1. PICK leaderCommit \in Indexes, lastNew \in Indexes :
             CommitTo(w, CommitAfter(leaderCommit, lastNew))
      BY <1>3 DEF AcceptEntries
    <2>2. CommitAfter(leaderCommit, lastNew) \in Indexes /\ isLeader' \in BOOLEAN
      BY <1>1, <1>3 DEF AcceptEntries, CommitAfter
    <2>3. QED BY <2>1, <2>2, CommitToKeeps
  <1>4. QED BY <1>2, <1>3

\* Steps of the workers in applyCommitted.
LEMMA WorkerStepsKeep ==
    ASSUME IndInv, NEW w \in Worker, WorkerStep(w)
    PROVE  IndInv'
  <1>1. Types /\ LockHeld /\ NextIsNext /\ MachineInStep
    BY DEF IndInv, ApplyInv
  <1>2. worker' \in [Worker -> WorkerType] /\ worker \in [Worker -> WorkerType]
    BY <1>1, WorkerTyped DEF Types
  <1>3. UNCHANGED <<isLeader, commitVars, batchVars, reader>>
    BY DEF WorkerStep, EnterApply, CheckCommitted, Apply, Publish, ApplyReturns
  <1>4. ConfirmInv'
    BY <1>3 DEF IndInv, ConfirmInv, OneRunner, NextIsQueued, JoinedIsCovered, commitVars,
           batchVars
  <1>5. SUFFICES Types' /\ ApplyInv'
    BY <1>4 DEF IndInv
  <1>7. CASE EnterApply(w)
    <2>1. Types'
      BY <1>1, <1>2, <1>3, <1>7 DEF Types, EnterApply, Lock, batchVars, commitVars
    <2>2. ApplyInv'
      BY <1>1, <1>2, <1>7
         DEF EnterApply, Lock, Nobody, ApplyInv, LockHeld, NextIsNext, MachineInStep, commitVars
    <2>3. QED BY <2>1, <2>2
  <1>8. CASE CheckCommitted(w)
    <2>1. Types'
      BY <1>1, <1>2, <1>3, <1>8 DEF Types, CheckCommitted, batchVars, commitVars
    <2>2. \A v \in Worker : v # w => worker'[v] = worker[v]
      BY <1>2, <1>8 DEF CheckCommitted
    <2>3. CASE worker' = [worker EXCEPT ![w].pc = "return"]
      <3>1. worker'[w].pc = "return"
        BY <1>2, <2>3 DEF WorkerType
      <3>2. UNCHANGED <<lastApplied, machine, commitVars, applyMu>> /\ worker[w].pc = "check"
        BY <1>8 DEF CheckCommitted
      <3>3. LockHeld' /\ NextIsNext' /\ MachineInStep'
        BY <1>1, <2>2, <3>1, <3>2 DEF LockHeld, NextIsNext, MachineInStep, commitVars
      <3>4. QED BY <2>1, <3>3 DEF ApplyInv
    <2>4. CASE /\ worker' = [worker EXCEPT ![w].pc = "apply", ![w].next = lastApplied + 1]
               /\ lastApplied + 1 <= commitIndex
      <3>1. worker'[w].pc = "apply" /\ worker'[w].next = lastApplied + 1
        BY <1>2, <2>4 DEF WorkerType
      <3>2. UNCHANGED <<lastApplied, machine, commitVars, applyMu>> /\ worker[w].pc = "check"
        BY <1>8 DEF CheckCommitted
      <3>3. LockHeld' /\ MachineInStep'
        BY <1>1, <2>2, <3>1, <3>2 DEF LockHeld, MachineInStep, commitVars
      <3>4. lastApplied + 1 <= reached
        BY <1>1, <2>4, Numbers DEF MachineInStep
      <3>5. NextIsNext'
        BY <1>1, <2>2, <3>1, <3>2, <3>4 DEF NextIsNext, commitVars
      <3>6. QED BY <3>3, <3>5, <2>1 DEF ApplyInv
    <2>5. QED BY <1>1, <1>8, <2>1, <2>3, <2>4, Numbers DEF CheckCommitted
  <1>9. CASE Apply(w)
    <2>1. /\ machine' \in Seq(Nat)
          /\ Len(machine') = Len(machine) + 1
          /\ \A k \in 1..Len(machine) : machine'[k] = machine[k]
          /\ machine'[Len(machine) + 1] = worker[w].next
      BY <1>1, <1>9, Numbers, AppendProperties DEF Apply, Types
    <2>2. \A v \in Worker : worker[v].pc \in {"apply", "publish"} => v = w
      BY <1>1, <1>9 DEF Apply, LockHeld
    <2>3. /\ worker[w].next = lastApplied + 1 /\ lastApplied = Len(machine)
          /\ worker[w].next <= reached
      BY <1>1, <1>9, <2>2 DEF Apply, NextIsNext, MachineInStep
    <2>4. Types'
      BY <1>1, <1>2, <1>3, <1>9, <2>1 DEF Apply, Types, batchVars, commitVars
    <2>5. LockHeld'
      BY <1>1, <1>2, <1>9 DEF Apply, LockHeld
    <2>6. \A v \in Worker : v # w => worker'[v] = worker[v]
      BY <1>2, <1>9 DEF Apply
    <2>7. worker'[w].pc = "publish" /\ worker'[w].next = worker[w].next
      BY <1>2, <1>9 DEF Apply, WorkerType
    <2>8. NextIsNext'
      BY <1>1, <1>9, <2>1, <2>2, <2>3, <2>6, <2>7, Numbers DEF Apply, NextIsNext
    <2>9. MachineInStep'
      BY <1>1, <1>9, <2>1, <2>3, <2>7, Numbers DEF Apply, MachineInStep, commitVars
    <2>10. QED BY <2>4, <2>5, <2>8, <2>9 DEF ApplyInv
  <1>10. CASE Publish(w)
    <2>1. \A v \in Worker : worker[v].pc \in {"apply", "publish"} => v = w
      BY <1>1, <1>10 DEF Publish, LockHeld
    <2>2. Types'
      BY <1>1, <1>2, <1>3, <1>10, Numbers DEF Types, Publish, Woken, batchVars, commitVars
    <2>3. worker'[w].pc = "check" /\ \A v \in Worker : v # w => worker'[v] = worker[v]
      BY <1>2, <1>10 DEF Publish, WorkerType
    <2>4. LockHeld' /\ NextIsNext' /\ MachineInStep'
      BY <1>1, <1>10, <2>1, <2>3 DEF Publish, LockHeld, NextIsNext, MachineInStep, commitVars
    <2>5. QED BY <2>2, <2>4 DEF ApplyInv
  <1>11. CASE ApplyReturns(w)
    <2>1. Types'
      BY <1>1, <1>2, <1>3, <1>11 DEF Types, ApplyReturns, batchVars, commitVars
    <2>2. worker'[w].pc = "idle" /\ \A v \in Worker : v # w => worker'[v] = worker[v]
      BY <1>2, <1>11 DEF ApplyReturns, Idle
    <2>3. LockHeld' /\ NextIsNext' /\ MachineInStep'
      BY <1>1, <1>11, <2>2 DEF ApplyReturns, LockHeld, NextIsNext, MachineInStep, commitVars
    <2>4. QED BY <2>1, <2>3 DEF ApplyInv
  <1>12. QED
    BY <1>7, <1>8, <1>9, <1>10, <1>11 DEF WorkerStep

\* A batch that is being confirmed moves on, and if it is started or confirmed
\* then with the commit index or with the index it had.
LEMMA BatchMovesOn ==
    ASSUME IndInv, NEW b \in rounds, NEW B \in BatchType,
           batches' = [batches EXCEPT ![b] = B],
           B.state # "queued",
           B.state \in {"started", "ok"} =>
              \/ B.index = commitIndex
              \/ batches[b].state = "started" /\ B.index = batches[b].index,
           UNCHANGED <<commitVars, confirmNext, confirmRunning, rounds, reader>>
    PROVE  ConfirmInv' /\ batches' \in Seq(BatchType)
  <1>1. Types /\ OneRunner /\ NextIsQueued /\ JoinedIsCovered /\ b \in 1..Len(batches)
    BY DEF IndInv, ConfirmInv, OneRunner
  <1>2. /\ batches' \in Seq(BatchType)
        /\ Len(batches') = Len(batches)
        /\ \A a \in 1..Len(batches) : batches'[a] = IF a = b THEN B ELSE batches[a]
    BY <1>1, ExceptSeq DEF Types
  <1>3. OneRunner' /\ NextIsQueued'
    BY <1>1, <1>2 DEF OneRunner, NextIsQueued
  <1>4. JoinedIsCovered'
    BY <1>1, <1>2, Numbers DEF JoinedIsCovered, commitVars
  <1>5. QED BY <1>2, <1>3, <1>4 DEF ConfirmInv, commitVars

\* Steps of the runConfirm goroutine.
LEMMA RoundStepsKeep ==
    ASSUME IndInv, NEW b \in rounds, RoundStep(b)
    PROVE  IndInv'
  <1>1. UNCHANGED <<isLeader, commitVars, applyVars, reader>>
    BY DEF RoundStep, CaptureIndex, RoundEnds, NextRound
  <1>2. ApplyInv'
    BY <1>1 DEF IndInv, ApplyInv, LockHeld, NextIsNext, MachineInStep, applyVars, commitVars
  <1>3. Types /\ OneRunner /\ NextIsQueued /\ JoinedIsCovered /\ b \in 1..Len(batches)
    BY DEF IndInv, ConfirmInv, OneRunner
  <1>4. /\ batches[b] \in BatchType /\ batches[b].index \in Nat
        /\ batches[b] = [state |-> batches[b].state, index |-> batches[b].index]
    BY <1>3, Numbers DEF BatchType
  <1>5. SUFFICES Types' /\ ConfirmInv'
    BY <1>2 DEF IndInv
  <1>6. CASE CaptureIndex(b)
    <2> DEFINE B == IF isLeader THEN [state |-> "started", index |-> commitIndex]
                                ELSE [state |-> "failed", index |-> 0]
    <2>1. /\ B \in BatchType /\ B.state # "queued"
          /\ (B.state \in {"started", "ok"} => B.index = commitIndex)
      BY <1>3, Numbers DEF BatchType
    <2>2. batches' = [batches EXCEPT ![b] = B]
      BY <1>6 DEF CaptureIndex
    <2>3. UNCHANGED <<commitVars, confirmNext, confirmRunning, rounds, reader>>
      BY <1>6 DEF CaptureIndex
    <2> HIDE DEF B
    <2>4. ConfirmInv' /\ batches' \in Seq(BatchType)
      BY <2>1, <2>2, <2>3, BatchMovesOn
    <2>5. QED BY <1>1, <1>3, <2>3, <2>4 DEF Types, applyVars, commitVars
  <1>7. CASE RoundEnds(b)
    <2>1. UNCHANGED <<commitVars, confirmNext, confirmRunning, rounds, reader>>
      BY <1>7 DEF RoundEnds
    <2>2. ConfirmInv' /\ batches' \in Seq(BatchType)
      <3>1. CASE batches' = [batches EXCEPT ![b].state = "ok"]
        <4> DEFINE B == [state |-> "ok", index |-> batches[b].index]
        <4>1. B \in BatchType /\ B.state = "ok" /\ B.index = batches[b].index
          BY <1>4 DEF BatchType
        <4>2. [batches[b] EXCEPT !.state = "ok"] = B
          BY <1>4 DEF BatchType
        <4>3. batches' = [batches EXCEPT ![b] = B]
          BY <3>1, <4>2
        <4> HIDE DEF B
        <4>4. QED
          BY <1>7, <2>1, <4>1, <4>3, BatchMovesOn DEF RoundEnds
      <3>2. CASE batches' = [batches EXCEPT ![b] = [state |-> "failed", index |-> 0]]
        <4> DEFINE B == [state |-> "failed", index |-> 0]
        <4>1. B \in BatchType /\ B.state = "failed"
          BY DEF BatchType
        <4>2. batches' = [batches EXCEPT ![b] = B]
          BY <3>2
        <4> HIDE DEF B
        <4>3. QED
          BY <2>1, <4>1, <4>2, BatchMovesOn
      <3>3. QED BY <1>7, <3>1, <3>2 DEF RoundEnds
    <2>3. QED BY <1>1, <1>3, <2>1, <2>2 DEF Types, applyVars, commitVars
  <1>8. CASE NextRound(b)
    <2>1. /\ batches' = batches /\ rounds' \in SUBSET Nat
          /\ confirmNext' \in Nat /\ confirmRunning' \in BOOLEAN
      <3>1. rounds \in SUBSET Nat /\ confirmNext \in Nat /\ confirmRunning \in BOOLEAN
        BY <1>3 DEF Types
      <3>2. confirmRunning' = confirmRunning \/ confirmRunning' = FALSE
        BY <1>8 DEF NextRound
      <3>3. confirmRunning' \in BOOLEAN
        BY <3>1, <3>2
      <3>4. batches' = batches /\ rounds' \in SUBSET Nat /\ confirmNext' \in Nat
        <4>1. CASE confirmNext # 0
          <5>1. rounds' = (rounds \ {b}) \cup {confirmNext} /\ confirmNext' = 0 /\ batches' = batches
            BY <1>8, <4>1 DEF NextRound, Take
          <5>2. QED BY <3>1, <5>1
        <4>2. CASE confirmNext = 0
          BY <1>8, <3>1, <4>2 DEF NextRound, Take
        <4>3. QED BY <4>1, <4>2
      <3>5. QED BY <3>3, <3>4
    <2>2. Types'
      BY <1>1, <1>3, <2>1 DEF Types, applyVars, commitVars
    <2>3. OneRunner' /\ NextIsQueued'
      BY <1>3, <1>8 DEF NextRound, Take, OneRunner, NextIsQueued
    <2>4. JoinedIsCovered'
      BY <1>1, <1>3, <2>1 DEF JoinedIsCovered, commitVars
    <2>5. QED BY <2>2, <2>3, <2>4 DEF ConfirmInv, commitVars
  <1>9. QED
    BY <1>6, <1>7, <1>8 DEF RoundStep

\* ConfirmLeadership: joining the batch that waits, or opening one.
LEMMA ConfirmLeadershipKeeps ==
    ASSUME IndInv, NEW r \in Reader, ConfirmLeadership(r)
    PROVE  IndInv'
  <1>1. Types /\ OneRunner /\ NextIsQueued /\ JoinedIsCovered
    BY DEF IndInv, ConfirmInv
  <1>2. Len(batches) \in Nat /\ batches \in Seq(BatchType)
    BY <1>1, Numbers DEF Types
  <1>3. NewBatch \in BatchType /\ NewBatch.state = "queued"
    BY DEF NewBatch, BatchType
  <1>4. UNCHANGED <<isLeader, commitVars, applyVars>>
    BY DEF ConfirmLeadership
  <1>5. /\ batches' \in Seq(BatchType)
        /\ Len(batches') \in Nat
        /\ Len(batches') >= Len(batches)
        /\ \A a \in 1..Len(batches) : batches'[a] = batches[a]
        /\ Join \in 1..Len(batches')
        /\ batches'[Join].state = "queued"
        /\ Join \notin rounds
    <2>1. batches' = IF Join > Len(batches) THEN Append(batches, NewBatch) ELSE batches
      BY DEF ConfirmLeadership
    <2>2. CASE confirmNext = 0
      <3>1. Join = Len(batches) + 1
        BY <2>2 DEF Join
      <3>2. batches' = Append(batches, NewBatch)
        BY <1>2, <2>1, <3>1
      <3>3. /\ batches' \in Seq(BatchType)
            /\ Len(batches') = Len(batches) + 1
            /\ \A a \in 1..Len(batches) : batches'[a] = batches[a]
            /\ batches'[Len(batches) + 1] = NewBatch
        BY <1>2, <1>3, <3>2, AppendProperties
      <3>4. QED
        BY <1>1, <1>2, <1>3, <3>1, <3>3 DEF OneRunner
    <2>3. CASE confirmNext # 0
      <3>1. Join = confirmNext /\ confirmNext \in 1..Len(batches)
        BY <1>1, <2>3 DEF Join, NextIsQueued
      <3>2. batches' = batches
        BY <1>2, <2>1, <3>1
      <3>3. QED
        BY <1>1, <1>2, <2>3, <3>1, <3>2 DEF NextIsQueued
    <2>4. QED BY <2>2, <2>3
  <1>6. OneRunner' /\ NextIsQueued'
    <2>1. CASE confirmRunning
      <3>1. confirmNext' = Join /\ rounds' = rounds /\ confirmRunning' = confirmRunning
        BY <2>1 DEF ConfirmLeadership, StartIt
      <3>2. rounds \subseteq 1..Len(batches')
        BY <1>1, <1>2, <1>5 DEF OneRunner
      <3>3. QED
        BY <1>1, <1>5, <2>1, <3>1, <3>2 DEF OneRunner, NextIsQueued
    <2>2. CASE ~confirmRunning
      <3>1. confirmNext' = 0 /\ rounds' = {Join} /\ confirmRunning' = TRUE
        BY <1>1, <2>2 DEF ConfirmLeadership, StartIt, OneRunner
      <3>2. QED
        BY <1>5, <3>1 DEF OneRunner, NextIsQueued
    <2>3. QED BY <2>1, <2>2
  <1>7. reader' = [reader EXCEPT ![r].pc = "joined", ![r].batch = Join, ![r].need = commitIndex]
    BY DEF ConfirmLeadership
  <1>8. Join \in Nat /\ commitIndex \in Nat /\ reader \in [Reader -> ReaderType]
    BY <1>1, <1>5, Numbers DEF Types
  <1>9. reader' \in [Reader -> ReaderType]
    BY <1>7, <1>8, ZenonT(40) DEF ReaderType
  <1>10. Types'
    <2>1. confirmNext' \in Nat /\ confirmRunning' \in BOOLEAN /\ rounds' \in SUBSET Nat
      <3>1. rounds \in SUBSET Nat /\ confirmNext \in Nat /\ confirmRunning \in BOOLEAN
        BY <1>1 DEF Types
      <3>2. confirmRunning' = confirmRunning \/ confirmRunning' = TRUE
        BY DEF ConfirmLeadership
      <3>3. confirmRunning' \in BOOLEAN
        BY <3>1, <3>2
      <3>4. confirmNext' \in Nat /\ rounds' \in SUBSET Nat
        BY <1>8, <3>1 DEF ConfirmLeadership
      <3>5. QED BY <3>3, <3>4
    <2>2. QED BY <1>1, <1>4, <1>5, <1>9, <2>1 DEF Types, applyVars, commitVars
  <1>11. ApplyInv'
    BY <1>4 DEF IndInv, ApplyInv, LockHeld, NextIsNext, MachineInStep, applyVars, commitVars
  <1>12. JoinedIsCovered'
    <2>1. ASSUME NEW q \in Reader, reader'[q].pc = "joined"
          PROVE  /\ reader'[q].batch \in 1..Len(batches')
                 /\ reader'[q].need <= commitIndex'
                 /\ batches'[reader'[q].batch].state \in {"started", "ok"} =>
                       batches'[reader'[q].batch].index >= reader'[q].need
      <3>1. CASE q = r
        <4>1. reader'[q].batch = Join /\ reader'[q].need = commitIndex
          BY <1>7, <1>8, <3>1 DEF ReaderType
        <4>2. QED
          BY <1>4, <1>5, <1>8, <4>1 DEF commitVars
      <3>2. CASE q # r
        <4>1. reader'[q] = reader[q]
          BY <1>7, <1>8, <3>2
        <4>2. reader[q].batch \in 1..Len(batches)
          BY <1>1, <2>1, <4>1 DEF JoinedIsCovered
        <4>3. /\ reader[q].batch \in 1..Len(batches')
              /\ batches'[reader[q].batch] = batches[reader[q].batch]
          BY <1>2, <1>5, <4>2
        <4>4. QED
          BY <1>1, <1>4, <2>1, <4>1, <4>3 DEF JoinedIsCovered, commitVars
      <3>3. QED BY <3>1, <3>2
    <2>2. QED BY <2>1 DEF JoinedIsCovered
  <1>13. QED BY <1>6, <1>10, <1>11, <1>12 DEF IndInv, ConfirmInv

\* The other steps of a read, none of which joins a batch.
LEMMA ReaderStepsKeep ==
    ASSUME IndInv, NEW r \in Reader, NEW index \in Indexes,
           AskLeader(r, index) \/ ReaderStep(r) \/ GiveUp(r)
    PROVE  IndInv'
  <1>1. Types /\ OneRunner /\ NextIsQueued /\ JoinedIsCovered /\ reader \in [Reader -> ReaderType]
    BY DEF IndInv, ConfirmInv, Types
  <1>2. UNCHANGED <<isLeader, commitVars, applyVars, batchVars>>
    BY DEF AskLeader, ReaderStep, BatchDone, CheckApplied, WakeUp, GiveUp
  <1>3. /\ reader' \in [Reader -> ReaderType]
        /\ reader'[r].pc # "joined"
        /\ \A q \in Reader : q # r => reader'[q] = reader[q]
    <2>1. index \in Nat /\ wakeups \in Nat /\ NewReader \in ReaderType
      BY <1>1 DEF Indexes, Types, NewReader, ReaderType
    <2>2. CASE AskLeader(r, index)
      BY <1>1, <2>1, <2>2 DEF AskLeader, ReaderType
    <2>3. CASE BatchDone(r)
      <3>1. reader[r].batch \in 1..Len(batches)
        BY <1>1, <2>3 DEF BatchDone, JoinedIsCovered
      <3>2. batches[reader[r].batch].index \in Nat
        BY <1>1, <3>1, Numbers DEF BatchType
      <3>3. CASE reader' = [reader EXCEPT ![r] = [NewReader EXCEPT
                              !.pc = "check", !.index = batches[reader[r].batch].index]]
        BY <1>1, <2>1, <3>2, <3>3 DEF ReaderType
      <3>4. CASE reader' = [reader EXCEPT ![r] = [NewReader EXCEPT !.pc = "done"]]
        BY <1>1, <2>1, <3>4 DEF ReaderType
      <3>5. QED BY <2>3, <3>3, <3>4 DEF BatchDone
    <2>4. CASE CheckApplied(r)
      <3>1. CASE reader' = [reader EXCEPT ![r] = [NewReader EXCEPT !.pc = "done"]]
        BY <1>1, <2>1, <3>1 DEF ReaderType
      <3>2. CASE reader' = [reader EXCEPT ![r] = [@ EXCEPT !.pc = "waiting", !.wait = wakeups]]
        BY <1>1, <2>1, <3>2 DEF ReaderType
      <3>3. QED BY <2>4, <3>1, <3>2 DEF CheckApplied
    <2>5. CASE WakeUp(r)
      BY <1>1, <2>5 DEF WakeUp, ReaderType
    <2>6. CASE GiveUp(r)
      BY <1>1, <2>1, <2>6 DEF GiveUp, ReaderType
    <2>7. QED BY <2>2, <2>3, <2>4, <2>5, <2>6 DEF ReaderStep
  <1>4. Types'
    BY <1>1, <1>2, <1>3 DEF Types, applyVars, batchVars, commitVars
  <1>5. ApplyInv' /\ OneRunner' /\ NextIsQueued'
    BY <1>1, <1>2 DEF IndInv, ApplyInv, LockHeld, NextIsNext, MachineInStep, OneRunner,
                      NextIsQueued, applyVars, commitVars, batchVars
  <1>6. JoinedIsCovered'
    BY <1>1, <1>2, <1>3 DEF JoinedIsCovered, commitVars,
           batchVars
  <1>7. QED BY <1>4, <1>5, <1>6 DEF IndInv, ConfirmInv

\* Every step keeps the inductive invariant.
LEMMA NextIndInv == IndInv /\ [Next]_vars => IndInv'
  <1> SUFFICES ASSUME IndInv, [Next]_vars PROVE IndInv'
    OBVIOUS
  <1>1. CASE UNCHANGED vars
    BY <1>1 DEF IndInv, Types, ApplyInv, LockHeld, NextIsNext, MachineInStep, ConfirmInv,
                OneRunner, NextIsQueued, JoinedIsCovered, vars, applyVars, batchVars, commitVars
  <1>2. CASE ChangeRole
    BY <1>2 DEF ChangeRole, IndInv, Types, ApplyInv, LockHeld, NextIsNext, MachineInStep,
                ConfirmInv, OneRunner, NextIsQueued, JoinedIsCovered, applyVars, batchVars,
                commitVars
  <1>3. 0 \in Indexes
    BY ReadPathAssumption DEF Indexes
  <1>4. QED
    BY <1>1, <1>2, <1>3, CommitStepsKeep, WorkerStepsKeep, RoundStepsKeep,
       ConfirmLeadershipKeeps, ReaderStepsKeep DEF Next

\* Every reachable state satisfies the inductive invariant.
THEOREM IndInvHolds == Spec => []IndInv
  BY InitIndInv, NextIndInv, PTL DEF Spec

-----------------------------------------------------------------------------
\* Entries reach the state machine in index order, each exactly once, with any
\* number of goroutines in applyCommitted and a commit index that may go back.
THEOREM AppliesInOrder == Spec => []AppliedInOrder
  <1>1. IndInv => AppliedInOrder
    <2> SUFFICES ASSUME IndInv PROVE AppliedInOrder
      OBVIOUS
    <2>1. Len(machine) \in Nat /\ DOMAIN machine = 1..Len(machine) /\ lastApplied \in Nat
      BY LenProperties DEF IndInv, Types
    <2>2. lastApplied <= Len(machine)
      <3>1. CASE Len(machine) = lastApplied
        BY <2>1, <3>1
      <3>2. CASE \E w \in Worker : worker[w].pc = "publish"
        <4>1. PICK w \in Worker : worker[w].pc = "publish"
          BY <3>2
        <4>2. worker[w].next = lastApplied + 1 /\ worker[w].next = Len(machine)
          BY <4>1 DEF IndInv, ApplyInv, NextIsNext
        <4>3. QED BY <2>1, <4>2
      <3>3. QED BY <3>1, <3>2 DEF IndInv, ApplyInv, MachineInStep
    <2>3. QED
      BY <2>1, <2>2 DEF IndInv, ApplyInv, MachineInStep, AppliedInOrder
  <1>2. QED BY <1>1, IndInvHolds, PTL

\* No read is answered from an index captured before the read began, however
\* many reads share a round (ConfirmLeadership, confirmRound).
THEOREM ReadsAreFresh == Spec => []BatchIsFresh
  <1>1. IndInv => BatchIsFresh
    BY DEF IndInv, ConfirmInv, JoinedIsCovered, BatchIsFresh
  <1>2. QED BY <1>1, IndInvHolds, PTL

\* All reads of a node share one round at a time (runConfirm).
THEOREM RoundsAreShared == Spec => []OneRoundAtATime
  <1>1. IndInv => OneRoundAtATime
    <2> SUFFICES ASSUME IndInv PROVE OneRoundAtATime
      OBVIOUS
    <2>1. CASE rounds = {}
      BY <2>1, FS_EmptySet DEF IndInv, ConfirmInv, OneRunner, OneRoundAtATime
    <2>2. CASE rounds # {}
      <3>1. PICK b \in rounds : TRUE
        BY <2>2
      <3>2. rounds = {b}
        BY <3>1 DEF IndInv, ConfirmInv, OneRunner
      <3>3. Cardinality(rounds) = 1
        BY <3>2, FS_Singleton
      <3>4. QED
        BY <3>3 DEF IndInv, ConfirmInv, OneRunner, OneRoundAtATime
    <2>3. QED BY <2>1, <2>2
  <1>2. QED BY <1>1, IndInvHolds, PTL
=============================================================================
