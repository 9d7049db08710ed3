---------------------------- MODULE MCAuditChain ----------------------------
(* Model values for checking AuditChain with TLC. *)
EXTENDS AuditChain, TLC

Symmetry == Permutations(Reports) \cup Permutations(Bodies)
=============================================================================
