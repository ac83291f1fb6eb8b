-------------------------- MODULE MCFileExtraction --------------------------
(* Model-checking instances of FileExtraction. *)
EXTENDS FileExtraction, TLC

Symmetry == Permutations(JobIds) \cup Permutations(Workers)
=============================================================================
