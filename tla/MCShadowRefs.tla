---------------------------- MODULE MCShadowRefs ----------------------------
(* Model values for checking ShadowRefs with TLC. *)
EXTENDS ShadowRefs

\* x/y and x-y share a ref.
TwoBranches == {<<"x", "/", "y">>, <<"x", "-", "y">>}
OneBranch     == {<<"m">>}
=============================================================================
