--------------------------- MODULE MCRequestGuard ---------------------------
(* Model-checking instances of RequestGuard. *)
EXTENDS RequestGuard, TLC

Symmetry == Permutations(Requests) \cup Permutations(Keys)
=============================================================================
