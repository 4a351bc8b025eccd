---------------------------- MODULE ReplicatedLog ----------------------------
(***************************************************************************)
(* What replication promises to the state machines (ApplyFunc in           *)
(* internal/raft/node.go): there is one sequence of entries, it only ever  *)
(* grows, and every state machine is given its entries in order, each one  *)
(* once, from the first one on whenever its process starts.                *)
(***************************************************************************)
EXTENDS Naturals, Sequences, SequencesExt

CONSTANTS Node,      \* the nodes, one state machine each
          Entry,     \* the entries a log may hold
          MaxBatch   \* the most entries that are chosen in one step

VARIABLES chosen,    \* the sequence that has been decided so far
          applied    \* what each state machine has been given

Init ==
    /\ chosen = <<>>
    /\ applied = [i \in Node |-> <<>>]

\* Node i is the first to be given some entries.
Choose(i) ==
    /\ \E new \in BoundedSeq(Entry, MaxBatch) : chosen' = chosen \o new
    /\ applied' = [applied EXCEPT ![i] = chosen']

\* Node i is given entries that others have been given before.
Learn(i) ==
    /\ \E k \in Len(applied[i])..Len(chosen) :
          applied' = [applied EXCEPT ![i] = SubSeq(chosen, 1, k)]
    /\ UNCHANGED chosen

\* Node i restarts with an empty state machine.
Forget(i) ==
    /\ applied' = [applied EXCEPT ![i] = <<>>]
    /\ UNCHANGED chosen

Next == \E i \in Node : Choose(i) \/ Learn(i) \/ Forget(i)

Spec == Init /\ [][Next]_<<chosen, applied>>
=============================================================================
