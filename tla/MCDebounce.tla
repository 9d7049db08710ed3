----------------------------- MODULE MCDebounce -----------------------------
(* Model values for checking Debounce with TLC. *)
EXTENDS Debounce

CONSTANTS r1, r2

TwoRepos == {r1, r2}
=============================================================================
