------------------------------- MODULE LogFile -------------------------------
(***************************************************************************)
(* The log on disk: Log (internal/raft/log.go) over WAL (internal/wal:     *)
(* wal.go, reader.go), step by step as the operating system sees it.       *)
(*                                                                         *)
(* A file is a sequence of pieces; every record is written as a frame of   *)
(* two.  What a crash leaves of pieces that were not synced is arbitrary.  *)
(***************************************************************************)
EXTENDS RaftLog, SequencesExt

VARIABLES
    mode,      \* "up", "down", or "refused": the process would not start
    file,      \* the file as the running system sees it
    disk,      \* the file as it was when it was last synced
    size,      \* WAL.size
    entries,   \* Log.entries without the sentinel
    offsets,   \* Log.offsets, likewise
    logOp      \* the call that holds Log.mu

memoryVars == <<size, entries, offsets>>
logVars == <<mode, file, disk, memoryVars, logOp>>

FrameSize == 2

Frame(r) == <<[rec |-> r, part |-> 1], [rec |-> r, part |-> 2]>>

Junk == [rec |-> [term |-> 0, index |-> 0], part |-> 0]

\* "append" or "after" for Append and AppendAfter; the entries still to do;
\* the step its loop is in; and, for the properties, what it was called with.
NoCall == [kind |-> "none", todo |-> <<>>, step |-> "next",
           before |-> <<>>, prevIndex |-> 0, all |-> <<>>]

-----------------------------------------------------------------------------
(* ReadAll *)

\* The k-th frame is complete and passes its checksum.
Intact(f, k) ==
    /\ FrameSize * k <= Len(f)
    /\ f[FrameSize * k - 1].part = 1
    /\ f[FrameSize * k].part = 2
    /\ f[FrameSize * k].rec = f[FrameSize * k - 1].rec

\* How many frames there are before the first that is damaged.
IntactFrames(f) ==
    CHOOSE n \in 0..Len(f) : /\ \A k \in 1..n : Intact(f, k)
                             /\ ~Intact(f, n + 1)

Records(f) == [k \in 1..IntactFrames(f) |-> f[FrameSize * k].rec]

ValidBytes(f) == FrameSize * IntactFrames(f)

Truncated(f) == Len(f) > ValidBytes(f)

-----------------------------------------------------------------------------
LogInit ==
    /\ mode = "up"
    /\ file = <<>> /\ disk = <<>>
    /\ size = 0 /\ entries = <<>> /\ offsets = <<>>
    /\ logOp = NoCall

(* Append and AppendAfter *)

CallLog(kind, prevIndex, new) ==
    /\ mode = "up"
    /\ logOp.kind = "none"
    /\ logOp' = [kind |-> kind, todo |-> new, step |-> "next",
                 before |-> entries, prevIndex |-> prevIndex, all |-> new]
    /\ UNCHANGED <<mode, file, disk, memoryVars>>

\* The loop looks at entry e.
Looks(e) ==
    /\ logOp.step = "next"
    /\ logOp.todo # <<>>
    /\ e = Head(logOp.todo)

\* Mutants: an entry that is there is in the way; an entry that is there is
\* the right one.
ConflictsAlways(e) == e.index <= Len(entries)

ConflictsNever(e) == FALSE

Conflicts(e) == e.index <= Len(entries) /\ entries[e.index].term # e.term

SkipDuplicate(e) ==
    /\ Looks(e)
    /\ e.index <= Len(entries) /\ ~Conflicts(e)
    /\ logOp' = [logOp EXCEPT !.todo = Tail(@)]
    /\ UNCHANGED <<mode, file, disk, memoryVars>>

\* truncateLocked and WAL.Truncate: first the file ...
Truncate(e) ==
    /\ Looks(e)
    /\ Conflicts(e)
    /\ file' = SubSeq(file, 1, offsets[e.index])
    /\ logOp' = [logOp EXCEPT !.step = "truncated"]
    /\ UNCHANGED <<mode, disk, memoryVars>>

\* Mutant: w.size is not touched.
SizeAfterTruncateKept(offset) == size

SizeAfterTruncate(offset) == offset

\* ... then its sync, and then the memory.
SyncTruncate ==
    LET index == Head(logOp.todo).index
    IN  /\ logOp.step = "truncated"
        /\ disk' = file
        /\ size' = SizeAfterTruncate(offsets[index])
        /\ entries' = SubSeq(entries, 1, index - 1)
        /\ offsets' = SubSeq(offsets, 1, index - 1)
        /\ logOp' = [logOp EXCEPT !.step = "next"]
        /\ UNCHANGED <<mode, file>>

\* storeLocked and WAL.Append: the bytes ...
Write(e) ==
    /\ Looks(e)
    /\ e.index > Len(entries)
    /\ file' = file \o Frame(e)
    /\ logOp' = [logOp EXCEPT !.step = "written"]
    /\ UNCHANGED <<mode, disk, memoryVars>>

\* ... their sync, and then the memory.
SyncWrite ==
    /\ logOp.step = "written"
    /\ disk' = file
    /\ size' = size + FrameSize
    /\ entries' = Append(entries, Head(logOp.todo))
    /\ offsets' = Append(offsets, size)
    /\ logOp' = [logOp EXCEPT !.step = "next", !.todo = Tail(@)]
    /\ UNCHANGED <<mode, file>>

LogReturns ==
    /\ logOp.kind # "none"
    /\ logOp.step = "next" /\ logOp.todo = <<>>
    /\ logOp' = NoCall
    /\ UNCHANGED <<mode, file, disk, memoryVars>>

\* The call returns with an error, and the write or the truncation that
\* failed has changed nothing.
LogFails(e) ==
    /\ Looks(e)
    /\ e.index > Len(entries) \/ Conflicts(e)
    /\ logOp' = NoCall
    /\ UNCHANGED <<mode, file, disk, memoryVars>>

\* The call returns with an error that leaves the file changed: a write stops
\* half-way, or a sync fails, whatever it has done by then.
LogFailsHalfway(e) ==
    /\ \/ /\ Looks(e) /\ e.index > Len(entries)
          /\ file' = Append(file, Frame(e)[1])
          /\ UNCHANGED disk
       \/ /\ logOp.step # "next"
          /\ disk' \in {disk, file}
          /\ UNCHANGED file
    /\ logOp' = NoCall
    /\ UNCHANGED <<mode, memoryVars>>

-----------------------------------------------------------------------------
(* Crash and recovery *)

\* What a crash may leave: the file as last synced, or any part of what has
\* been done to it since, perhaps with a piece that was never filled in.
CrashContents ==
    LET synced == Len(LongestCommonPrefix({file, disk}))
    IN  {disk} \cup {SubSeq(file, 1, k) : k \in synced..Len(file)}
               \cup {Append(SubSeq(file, 1, k), Junk) : k \in synced..Len(file) - 1}

CrashLog ==
    /\ \E f \in CrashContents : file' = f /\ disk' = f
    /\ mode' = "down"
    /\ size' = 0 /\ entries' = <<>> /\ offsets' = <<>>
    /\ logOp' = NoCall

\* TruncateTo cuts off a damaged tail ...
RepairTail ==
    /\ mode = "down"
    /\ Truncated(file)
    /\ file' = SubSeq(file, 1, ValidBytes(file))
    /\ UNCHANGED <<mode, disk, memoryVars, logOp>>

\* ... and makes that durable.
SyncRepair ==
    /\ mode = "down"
    /\ ~Truncated(file) /\ disk # file
    /\ disk' = file
    /\ UNCHANGED <<mode, file, memoryVars, logOp>>

\* Mutant: the damaged tail stays where it is.
RepairedAnyway == TRUE

Repaired == ~Truncated(file) /\ disk = file

\* The index in every record is its position.
IndexesMatch(records) == \A k \in DOMAIN records : records[k].index = k

\* The rest of OpenLog: wal.Open, and the records become the log.
OpenLog ==
    /\ mode = "down"
    /\ Repaired
    /\ IF IndexesMatch(Records(file))
       THEN /\ mode' = "up"
            /\ size' = Len(file)
            /\ entries' = Records(file)
            /\ offsets' = [k \in DOMAIN Records(file) |-> FrameSize * (k - 1)]
       ELSE mode' = "refused" /\ UNCHANGED memoryVars
    /\ UNCHANGED <<file, disk, logOp>>

LogStep ==
    \/ \E e \in ToSet(logOp.todo) : \/ SkipDuplicate(e)
                                    \/ Truncate(e)
                                    \/ Write(e)
                                    \/ LogFails(e)
    \/ SyncTruncate
    \/ SyncWrite
    \/ LogReturns

RecoverLog == RepairTail \/ SyncRepair

-----------------------------------------------------------------------------
\* The logs a crash may leave at this point: the one in memory, or what the
\* file operation that is under way makes of it.
Promised ==
    {entries} \cup
    (IF logOp.step = "written" THEN {Append(entries, Head(logOp.todo))} ELSE {}) \cup
    (IF logOp.step = "truncated" THEN {SubSeq(entries, 1, Head(logOp.todo).index - 1)} ELSE {})

\* Whatever a crash leaves of the file, at any moment of any call, OpenLog
\* makes of it the log that was in memory, or that log with the one step done
\* that was under way; and a crash during the repair of a torn tail, or after
\* it, changes nothing any more.
CrashLosesNothing ==
    \A f \in CrashContents :
        /\ IndexesMatch(Records(f))
        /\ Records(f) \in IF mode = "up" THEN Promised ELSE {Records(file)}

\* What Append says of a store that failed, "disk and memory still agree", and
\* storeLocked, "memory must not claim to hold an entry the disk does not
\* have": after a crash OpenLog still brings back what was in memory.
MemoryIsDurable ==
    mode = "up" => \A f \in CrashContents :
        /\ IndexesMatch(Records(f))
        /\ \E l \in Promised : IsPrefix(l, Records(f))

\* Between calls w.size is the length of the file, and offsets say where the
\* entry really is: what a later truncation will cut is what it means to cut.
OffsetsAreRight ==
    mode = "up" /\ logOp.step = "next" =>
        /\ size = Len(file)
        /\ Len(offsets) = Len(entries)
        /\ \A k \in DOMAIN entries :
              SubSeq(file, offsets[k] + 1, offsets[k] + FrameSize) = Frame(entries[k])

\* The loop of AppendAfter, when it comes to its end, has done what its closed
\* form says that the model of replication uses.
AppendAfterIsClosedForm ==
    logOp.kind = "after" /\ logOp.step = "next" /\ logOp.todo = <<>> =>
        entries = AfterAppend(logOp.before, logOp.prevIndex, logOp.all)
=============================================================================
