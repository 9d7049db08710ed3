------------------------------ MODULE Debounce ------------------------------
(***************************************************************************)
(* internal/debounce: bursts of file events are coalesced per repository   *)
(* into calls of fn (the agent's handleChange).  A state of the map        *)
(* d.states is known[k], age[k] (time since st.first) and left[k] (what    *)
(* st.timer has left, Off when it is stopped or has expired).  Neither     *)
(* Reset nor Stop of a Go timer takes back a goroutine already started, so *)
(* a timer can outlive its state: those are counted in orphans.            *)
(***************************************************************************)
EXTENDS Integers, Functions

CONSTANTS Keys,     \* repository roots
          Wait,     \* quiet period, in ticks
          MaxWait,  \* ceiling, in ticks; 0 disables it
          MaxLoad   \* bound: no event arrives on a key with more work than this

ASSUME WaitAssumption    == Wait \in Nat \ {0}
ASSUME MaxWaitAssumption == MaxWait \in Nat
ASSUME MaxLoadAssumption == MaxLoad \in Nat

VARIABLES known,    \* key has a state in d.states
          age,      \* ticks since st.first, counted up to AgeCap
          left,     \* ticks st.timer has left, or Off
          orphans,  \* armed timers no state refers to, by ticks left
          firing,   \* goroutines at the entry of fire, before the lock
          calls,    \* calls of fn begun and not returned
          closed,   \* d.closed
          dirty     \* an accepted event has seen no call of fn since

vars == <<known, age, left, orphans, firing, calls, closed, dirty>>

Off    == -1
AgeCap == MaxWait + Wait

TypeOK ==
  /\ known   \in [Keys -> BOOLEAN]
  /\ age     \in [Keys -> 0..AgeCap]
  /\ left    \in [Keys -> {Off} \cup 0..Wait]
  /\ orphans \in [Keys -> [0..Wait -> Nat]]
  /\ firing  \in [Keys -> Nat]
  /\ calls   \in [Keys -> Nat]
  /\ closed  \in BOOLEAN
  /\ dirty   \in [Keys -> BOOLEAN]

Init ==
  /\ known   = [k \in Keys |-> FALSE]
  /\ age     = [k \in Keys |-> 0]
  /\ left    = [k \in Keys |-> Off]
  /\ orphans = [k \in Keys |-> [d \in 0..Wait |-> 0]]
  /\ firing  = [k \in Keys |-> 0]
  /\ calls   = [k \in Keys |-> 0]
  /\ closed  = FALSE
  /\ dirty   = [k \in Keys |-> FALSE]

-----------------------------------------------------------------------------
(* Trigger *)

Load(k) ==
  firing[k] + calls[k] + FoldFunction(LAMBDA a, b : a + b, 0, orphans[k])

\* An event the closed check lets through; the bound is on the environment.
Accepted(k) ==
  /\ ~closed
  /\ Load(k) < MaxLoad
  /\ dirty' = [dirty EXCEPT ![k] = TRUE]
  /\ UNCHANGED <<orphans, calls, closed>>

TriggerNew(k) ==
  /\ Accepted(k)
  /\ ~known[k]
  /\ known' = [known EXCEPT ![k] = TRUE]
  /\ age'   = [age EXCEPT ![k] = 0]
  /\ left'  = [left EXCEPT ![k] = Wait]
  /\ UNCHANGED firing

\* Faulty variant: no ceiling at all.
NoCeiling(k) == FALSE

AtCeiling(k) == MaxWait > 0 /\ age[k] >= MaxWait

\* Faulty variant: the timer is stopped and nothing is started in its place.
CeilingNotStarted(k) ==
  /\ Accepted(k)
  /\ known[k]
  /\ AtCeiling(k)
  /\ left' = [left EXCEPT ![k] = Off]
  /\ UNCHANGED <<known, age, firing>>

\* The state stays in the map until the goroutine started here takes the lock.
TriggerCeiling(k) ==
  /\ Accepted(k)
  /\ known[k]
  /\ AtCeiling(k)
  /\ left'   = [left EXCEPT ![k] = Off]
  /\ firing' = [firing EXCEPT ![k] = @ + 1]
  /\ UNCHANGED <<known, age>>

\* Faulty variant: the timer is reset to the ceiling instead of the quiet period.
ResetToCeiling(k) ==
  /\ Accepted(k)
  /\ known[k]
  /\ ~AtCeiling(k)
  /\ left' = [left EXCEPT ![k] = MaxWait]
  /\ UNCHANGED <<known, age, firing>>

TriggerReset(k) ==
  /\ Accepted(k)
  /\ known[k]
  /\ ~AtCeiling(k)
  /\ left' = [left EXCEPT ![k] = Wait]
  /\ UNCHANGED <<known, age, firing>>

-----------------------------------------------------------------------------
(* The runtime: an expired timer starts a goroutine that runs fire *)

Expire(k) ==
  /\ left[k] = 0
  /\ left'   = [left EXCEPT ![k] = Off]
  /\ firing' = [firing EXCEPT ![k] = @ + 1]
  /\ UNCHANGED <<known, age, orphans, calls, closed, dirty>>

OrphanExpire(k) ==
  /\ orphans[k][0] > 0
  /\ orphans' = [orphans EXCEPT ![k][0] = @ - 1]
  /\ firing'  = [firing EXCEPT ![k] = @ + 1]
  /\ UNCHANGED <<known, age, left, calls, closed, dirty>>

\* fire deletes whatever state the key has by then, also one newer than its
\* own timer; the timer of that state, if armed, is an orphan from now on.
FireOpen(k) ==
  /\ firing[k] > 0
  /\ ~closed
  /\ firing'  = [firing EXCEPT ![k] = @ - 1]
  /\ known'   = [known EXCEPT ![k] = FALSE]
  /\ age'     = [age EXCEPT ![k] = 0]
  /\ left'    = [left EXCEPT ![k] = Off]
  /\ orphans' = IF left[k] = Off THEN orphans
                ELSE [orphans EXCEPT ![k][left[k]] = @ + 1]
  /\ calls'   = [calls EXCEPT ![k] = @ + 1]
  /\ dirty'   = [dirty EXCEPT ![k] = FALSE]
  /\ UNCHANGED closed

\* Faulty variant: fire does not look at closed.
FireAnyway(k) ==
  /\ firing[k] > 0
  /\ closed
  /\ firing' = [firing EXCEPT ![k] = @ - 1]
  /\ calls'  = [calls EXCEPT ![k] = @ + 1]
  /\ dirty'  = [dirty EXCEPT ![k] = FALSE]
  /\ UNCHANGED <<known, age, left, orphans, closed>>

FireClosed(k) ==
  /\ firing[k] > 0
  /\ closed
  /\ firing' = [firing EXCEPT ![k] = @ - 1]
  /\ UNCHANGED <<known, age, left, orphans, calls, closed, dirty>>

Return(k) ==
  /\ calls[k] > 0
  /\ calls' = [calls EXCEPT ![k] = @ - 1]
  /\ UNCHANGED <<known, age, left, orphans, firing, closed, dirty>>

\* Stop reaches the timers of the map only, not the orphans.
Stop ==
  /\ ~closed
  /\ closed' = TRUE
  /\ known'  = [k \in Keys |-> FALSE]
  /\ age'    = [k \in Keys |-> 0]
  /\ left'   = [k \in Keys |-> Off]
  /\ UNCHANGED <<orphans, firing, calls, dirty>>

Tick ==
  /\ age'  = [k \in Keys |-> IF known[k] /\ age[k] < AgeCap
                             THEN age[k] + 1 ELSE age[k]]
  /\ left' = [k \in Keys |-> IF left[k] > 0 THEN left[k] - 1 ELSE left[k]]
  /\ orphans' = [k \in Keys |-> [d \in 0..Wait |->
                   (IF d = 0 THEN orphans[k][0] ELSE 0)
                   + (IF d < Wait THEN orphans[k][d + 1] ELSE 0)]]
  /\ UNCHANGED <<known, firing, calls, closed, dirty>>

-----------------------------------------------------------------------------

Fire(k)    == FireOpen(k) \/ FireClosed(k)
Trigger(k) == TriggerNew(k) \/ TriggerCeiling(k) \/ TriggerReset(k)

Work ==
  \/ \E k \in Keys : Trigger(k) \/ Expire(k) \/ OrphanExpire(k)
                       \/ Fire(k) \/ Return(k)
  \/ Stop

Next == Tick \/ Work

Spec == Init /\ [][Next]_vars

\* Timers and goroutines run, time passes and callbacks return; events and
\* Stop come from outside and are owed nothing.
Fairness ==
  /\ WF_vars(Tick)
  /\ \A k \in Keys : WF_vars(Expire(k)) /\ WF_vars(OrphanExpire(k))
                       /\ WF_vars(Fire(k)) /\ WF_vars(Return(k))

FairSpec == Spec /\ Fairness

\* With a scheduler that is never late: no tick while something is due.
Punctual == \A k \in Keys : left[k] # 0 /\ orphans[k][0] = 0 /\ firing[k] = 0

TimedNext == (Punctual /\ Tick) \/ Work

TimedSpec == Init /\ [][TimedNext]_vars

-----------------------------------------------------------------------------
(* Properties *)

\* Trigger, fire: while the debouncer is open, an event no call of fn has seen
\* yet has an armed timer or a started goroutine that will make that call,
\* however timers, goroutines and later events interleave.
NoLostTrigger ==
  \A k \in Keys : dirty[k] /\ ~closed => left[k] # Off \/ firing[k] > 0

\* Trigger's ceiling as the code enforces it: it is looked at only when an
\* event arrives, so a state lives less than MaxWait + Wait on a scheduler
\* that is never late.
DelayBound ==
  \A k \in Keys : known[k] => age[k] < MaxWait + Wait

\* fire after Stop: timers Stop does not reach (orphans, and goroutines already
\* started) never begin another call of fn.
NoCallAfterStop ==
  [][closed => \A k \in Keys : calls'[k] <= calls[k]]_vars

\* Trigger .. fire: every accepted event is followed by a call of fn, or the
\* debouncer is stopped, also when events keep arriving.
Served ==
  \A k \in Keys : dirty[k] ~> (~dirty[k] \/ closed)
=============================================================================
