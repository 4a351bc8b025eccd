------------------------------ MODULE MCStorage ------------------------------
(* The instance of Storage for TLC. *)
EXTENDS Storage

\* Bound: once a Save has failed only the state file is followed: the log has
\* had its crashes without it, and LogTermIsSaved has no more to say.
NoCallAfterFailure == failed => logOp.kind = "none"
=============================================================================
