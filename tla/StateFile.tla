------------------------------ MODULE StateFile ------------------------------
(***************************************************************************)
(* The term and the vote on disk: StateStore (internal/raft/state.go),     *)
(* with Save one file operation at a time.                                 *)
(***************************************************************************)
EXTENDS Naturals

CONSTANT NoState   \* what an unfinished state file parses as: an error

VARIABLES
    state,      \* Node.currentTerm and votedFor, in memory
    promised,   \* history: the last state whose Save has returned, and those
                \* that somebody has tried to save since
    failed,     \* history: some Save has returned an error
    tmp,        \* the file state.json.tmp that Save is writing
    named,      \* the file that state.json names
    onDisk,     \* the file that state.json names after a crash
    saving      \* the step Save is in

stateVars == <<state, promised, failed, tmp, named, onDisk, saving>>

\* A missing file: a brand new node.
NewState == [term |-> 0, vote |-> FALSE]

File(st, synced) == [data |-> st, synced |-> synced]

NoFile == File(NoState, TRUE)

StateInit ==
    /\ state = NewState /\ promised = {NewState} /\ failed = FALSE
    /\ tmp = NoFile
    /\ named = File(NewState, TRUE)
    /\ onDisk = File(NewState, TRUE)
    /\ saving = "no"

\* persistLocked, with the memory already changed: the temporary file is
\* created and written.
Save(st) ==
    /\ saving = "no"
    /\ state' = st
    /\ tmp' = File(st, FALSE)
    /\ saving' = "written"
    /\ promised' = promised \cup {st}
    /\ UNCHANGED <<failed, named, onDisk>>

\* Mutant: the temporary file is not synced.
SyncedTmpNot == tmp

SyncedTmp == [tmp EXCEPT !.synced = TRUE]

SaveSync ==
    /\ saving = "written"
    /\ tmp' = SyncedTmp
    /\ saving' = "synced"
    /\ UNCHANGED <<state, promised, failed, named, onDisk>>

SaveRename ==
    /\ saving = "synced"
    /\ named' = tmp
    /\ tmp' = NoFile
    /\ saving' = "renamed"
    /\ UNCHANGED <<state, promised, failed, onDisk>>

\* SyncDir, and Save returns.
SaveSyncDir ==
    /\ saving = "renamed"
    /\ onDisk' = named
    /\ promised' = {state}
    /\ saving' = "no"
    /\ UNCHANGED <<state, failed, tmp, named>>

\* One of the file operations fails and Save returns its error, with what the
\* operations before it have done: the memory is ahead of the disk.  A
\* temporary file that stays behind is never read.
SaveFails ==
    /\ saving # "no"
    /\ saving' = "no"
    /\ failed' = TRUE
    /\ tmp' = NoFile
    /\ UNCHANGED <<state, promised, named, onDisk>>

\* What a crash may leave under the name state.json.
StatesAfterCrash ==
    UNION {IF f.synced THEN {f.data} ELSE {f.data, NoState} : f \in {named, onDisk}}

\* Nothing is in memory until OpenStateStore has read the file.
CrashState ==
    /\ \E st \in StatesAfterCrash :
          /\ named' = File(st, TRUE)
          /\ onDisk' = File(st, TRUE)
    /\ state' = NewState
    /\ saving' = "no"
    /\ tmp' = NoFile
    /\ UNCHANGED <<promised, failed>>

\* OpenStateStore, which refuses a file it cannot parse.
OpenStateStore ==
    /\ named.data # NoState
    /\ state' = named.data
    /\ promised' = {named.data}
    /\ UNCHANGED <<failed, tmp, named, onDisk, saving>>

StateStep == SaveSync \/ SaveRename \/ SaveSyncDir \/ SaveFails

-----------------------------------------------------------------------------
\* Once Save has returned every crash leaves that state; until then, and after
\* a Save that failed, the last one that was saved or one that somebody has
\* tried to save since, complete ("after a crash you have either the complete
\* old file or the complete new one, never a mixture").
SavedStateSurvives == StatesAfterCrash \subseteq promised
=============================================================================
