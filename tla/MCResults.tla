------------------------------ MODULE MCResults ------------------------------
(* Model values for checking Results with TLC. *)
EXTENDS Results, TLC

WorkersAreAlike == Permutations(Workers)
=============================================================================
