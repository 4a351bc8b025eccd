------------------------------- MODULE RaftLog -------------------------------
(***************************************************************************)
(* The operations of Log (internal/raft/log.go) on the in-memory log, as   *)
(* operators on sequences of entries.  An entry is a record with at least  *)
(* a term; its index is its position, which is what OpenLog insists on.    *)
(* The sentinel of the code, entries[0], is the position before the first: *)
(* it has term 0 and is never stored, replicated or applied.               *)
(***************************************************************************)
EXTENDS Naturals, Sequences

LastIndex(log) == Len(log)

\* The term of the entry at index, 0 for the sentinel and for an index the
\* log does not have (the zero Record that At returns).
TermAt(log, index) == IF index \in DOMAIN log THEN log[index].term ELSE 0

LastTerm(log) == TermAt(log, Len(log))

EntriesFrom(log, index) ==
    SubSeq(log, IF index = 0 THEN 1 ELSE index, Len(log))

\* Mutant: the log is long enough, whatever the term of the entry is.
MatchLength(log, prevIndex, prevTerm) == prevIndex <= Len(log)

Match(log, prevIndex, prevTerm) ==
    /\ prevIndex <= Len(log)
    /\ TermAt(log, prevIndex) = prevTerm

\* The incoming entries that AppendAfter skips: the leading ones the log has
\* with the same term.
Known(log, prevIndex, entries) ==
    {k \in 0..Len(entries) : \A j \in 1..k :
        /\ prevIndex + j <= Len(log)
        /\ log[prevIndex + j].term = entries[j].term}

SkipCount(log, prevIndex, entries) ==
    CHOOSE k \in Known(log, prevIndex, entries) :
        \A j \in Known(log, prevIndex, entries) : j <= k

\* Mutant: an entry that is there stays there, in conflict or not.
AfterFill(log, prevIndex, entries) ==
    log \o SubSeq(entries, Len(log) - prevIndex + 1, Len(entries))

\* The log after AppendAfter has accepted the entries.  If all of them are
\* duplicates nothing is cut off; otherwise the log is cut at the first
\* conflict, if there is one, and the rest of the entries follow.  Module
\* LogFile has the loop itself.
AfterAppend(log, prevIndex, entries) ==
    LET k == SkipCount(log, prevIndex, entries)
    IN  IF k = Len(entries) THEN log
        ELSE SubSeq(log, 1, prevIndex + k) \o SubSeq(entries, k + 1, Len(entries))

=============================================================================
