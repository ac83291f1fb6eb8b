---------------------------- MODULE MCThreadStore ----------------------------
(* Model-checking instances of ThreadStore. *)
EXTENDS ThreadStore

Symmetry == Permutations(Threads \ Earlier) \cup Permutations(Slugs) \cup Permutations(Handlers)
=============================================================================
