----------------------------- MODULE MCReadPath ------------------------------
(* The instance of ReadPath for TLC. *)
EXTENDS ReadPath

\* What became of a batch that nobody waits for any more is forgotten.
LiveBatches ==
    [b \in DOMAIN batches |->
        IF b \in rounds \/ \E r \in Reader : reader[r].pc = "joined" /\ reader[r].batch = b
        THEN batches[b] ELSE NewBatch]

MCView ==
    <<isLeader, commitVars, applyVars, LiveBatches, confirmNext, confirmRunning,
      rounds, reader>>
=============================================================================
