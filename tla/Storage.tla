------------------------------- MODULE Storage -------------------------------
(***************************************************************************)
(* What one process keeps on disk: modules LogFile and StateFile, as a     *)
(* Node uses them (n.mu is held during Save and AppendAfter, but not       *)
(* during Append), as they fail together in a crash, and as main of        *)
(* cmd/kvnode brings them back.                                            *)
(***************************************************************************)
EXTENDS LogFile, StateFile

CONSTANTS MaxTerm,   \* bound: the newest term
          MaxLog     \* bound: the longest log

ASSUME StorageAssumption == MaxTerm \in Nat /\ MaxLog \in Nat

VARIABLE leader      \* the log of the leader of MaxTerm, as long as it gets

vars == <<logVars, stateVars, leader>>

Terms(l) == {l[k].term : k \in DOMAIN l}

\* The logs that exist: terms never decrease along a log.
Logs ==
    {l \in UNION {[1..n -> [term : 1..MaxTerm, index : 1..MaxLog]] : n \in 0..MaxLog} :
        \A k \in DOMAIN l : /\ l[k].index = k
                            /\ k > 1 => l[k - 1].term <= l[k].term}

Init ==
    /\ leader \in Logs
    /\ LogInit
    /\ StateInit

-----------------------------------------------------------------------------
\* Somebody holds n.mu for longer than a step.
NodeLocked == saving # "no" \/ logOp.kind = "after"

\* setTermLocked, campaign or HandleRequestVote: a newer term, or a vote.
ChangeState(st) ==
    /\ mode = "up"
    /\ ~NodeLocked
    /\ \/ st.term > state.term
       \/ st.term = state.term /\ st.vote /\ ~state.vote
    /\ Save(st)
    /\ UNCHANGED <<logVars, leader>>

\* Propose in a term this node has won.  No entry of the other leader's log
\* is from that term.
ProposeHere ==
    /\ state.vote
    /\ ~NodeLocked
    /\ state.term \in 1..(MaxTerm - 1) \ Terms(leader)
    /\ Len(entries) < MaxLog
    /\ CallLog("append", 0, <<[term |-> state.term, index |-> Len(entries) + 1]>>)
    /\ UNCHANGED <<stateVars, leader>>

\* Mutant: the request is handled in whatever term the node is.
InTermAny == TRUE

\* handleAppendEntries has adopted the leader's term.
InTerm == state.term = MaxTerm

\* handleAppendEntries gets a request with n entries of the leader, as old as
\* it may be.
AppendRequest(prevIndex, n) ==
    /\ ~NodeLocked
    /\ InTerm
    /\ Match(entries, prevIndex, TermAt(leader, prevIndex))
    /\ CallLog("after", prevIndex, SubSeq(leader, prevIndex + 1, prevIndex + n))
    /\ UNCHANGED <<stateVars, leader>>

Crash == mode = "up" /\ CrashLog /\ CrashState /\ UNCHANGED leader

\* A crash while OpenLog repairs the file.
CrashAgain == mode = "down" /\ CrashLog /\ UNCHANGED <<stateVars, leader>>

\* main: first the log, then the state, or log.Fatalf.
Start ==
    /\ OpenLog
    /\ IF mode' = "up" THEN OpenStateStore ELSE UNCHANGED stateVars
    /\ UNCHANGED leader

Next ==
    \/ \E t \in 1..MaxTerm, v \in BOOLEAN : ChangeState([term |-> t, vote |-> v])
    \/ ProposeHere
    \/ \E prevIndex \in 0..Len(leader) :
          \E n \in 1..(Len(leader) - prevIndex) : AppendRequest(prevIndex, n)
    \/ LogStep /\ UNCHANGED <<stateVars, leader>>
    \/ StateStep /\ UNCHANGED <<logVars, leader>>
    \/ Crash
    \/ CrashAgain
    \/ RecoverLog /\ UNCHANGED <<stateVars, leader>>
    \/ Start

Spec == Init /\ [][Next]_vars

\* The same with file operations that fail half-way.
FailHalfway ==
    /\ \E e \in ToSet(logOp.todo) : LogFailsHalfway(e)
    /\ UNCHANGED <<stateVars, leader>>

HalfwaySpec == Init /\ [][Next \/ FailHalfway]_vars

-----------------------------------------------------------------------------
\* Whatever a crash leaves, the term that is read back is not older than the
\* entries that are: no entry is stored before its term is (rule 2 before
\* rule 3; "forget it and a restarted node rejoins in an old term").  Not so
\* once a Save has failed: the node goes on in a term that only its memory
\* knows, and stores entries of it.
LogTermIsSaved ==
    ~failed => \A f \in CrashContents, st \in StatesAfterCrash :
                  LastTerm(Records(f)) <= st.term

\* What the disk has in common with the leader's log is never lost again, by
\* no request however old, and by no crash at any point of it ("a delayed
\* duplicate would otherwise chop off newer entries we have already
\* committed").
SharedStaysShared ==
    [][LET Shared(f) == Len(LongestCommonPrefix({Records(f), leader}))
       IN  Shared(disk') >= Shared(disk)]_vars
=============================================================================
