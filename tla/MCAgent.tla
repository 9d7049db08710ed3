------------------------------ MODULE MCAgent ------------------------------
(* Model values for checking Agent with TLC. *)
EXTENDS Agent, TLC

Symmetry == Permutations(Changes) \cup Permutations(Workers)
=============================================================================
