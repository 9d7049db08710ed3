----------------------------- MODULE Timestamps -----------------------------
(***************************************************************************)
(* internal/store keeps every time as text, UTC in RFC3339Nano, and SQLite *)
(* compares the texts.  RFC3339Nano drops a zero fraction: of the ticks of *)
(* one second the whole second is written "..05Z" and the others           *)
(* "..05.5Z", and "." sorts before "Z".  One digit of fraction is kept.    *)
(***************************************************************************)
EXTENDS Integers

CONSTANT PerSecond   \* ticks of the clock in a second, at most ten

ASSUME PerSecondAssumption == PerSecond \in 1..10

\* The place of tick t among the texts of all ticks: a whole second comes
\* after the fractions of the same second.
TextKey(t) == IF t % PerSecond = 0 THEN t + PerSecond - 1 ELSE t - 1

\* The comparison a < b of the columns written at ticks a and b.
TextBefore(a, b) == TextKey(a) < TextKey(b)
=============================================================================
