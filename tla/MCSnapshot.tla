----------------------------- MODULE MCSnapshot -----------------------------
(* Model values for checking Snapshot with TLC. *)
EXTENDS Snapshot, TLC

HandlersAreAlike == Permutations(Handlers)
=============================================================================
