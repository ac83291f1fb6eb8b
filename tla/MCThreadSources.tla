--------------------------- MODULE MCThreadSources ---------------------------
(* Model-checking instances of ThreadSources. *)
EXTENDS ThreadSources, TLC

Symmetry == Permutations(Turns) \cup Permutations(Files)
=============================================================================
