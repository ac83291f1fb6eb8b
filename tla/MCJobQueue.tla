----------------------------- MODULE MCJobQueue -----------------------------
(* Model-checking instances of JobQueue. *)
EXTENDS JobQueueLedger, TLC

Symmetry == Permutations(JobIds) \cup Permutations(Workers)
=============================================================================
