------------------------- MODULE MCFileInitialRead -------------------------
(* Model-checking instances of FileInitialRead. *)
EXTENDS FileInitialRead, TLC

Symmetry == Permutations(JobIds) \cup Permutations(Workers)
=============================================================================
