------------------------------ MODULE MCGateway ------------------------------
(* Model values for checking Gateway with TLC. *)
EXTENDS Gateway, TLC

CONSTANTS w1, w2, c1, c2, c3

TwoWorkers   == {w1, w2}
OneWorker    == {w1}
ThreeChanges == {c1, c2, c3}

\* One triage on each side of every line of the routing rule.
T(relevance, escalate, categories, large) ==
  [force |-> "", relevance |-> relevance, escalate |-> escalate,
   categories |-> categories, large |-> large]

SomeTriages == {T("trivial", TRUE, {"security"}, TRUE),
                T("minor", FALSE, {"docs"}, FALSE),
                T("minor", FALSE, {}, TRUE),
                T("minor", FALSE, {"style"}, TRUE),
                T("minor", FALSE, {"style", "security"}, FALSE),
                T("risky", FALSE, {"style"}, FALSE)}

OneTriage == {T("risky", FALSE, {"style"}, FALSE)}

\* Neither the workers nor the changes are told apart.
Symmetry == Permutations(Workers) \cup Permutations(Changes)
=============================================================================
