---------------------------- MODULE ReviewProofs -----------------------------
(***************************************************************************)
(* What a review is made of and what it costs: the budget gate and the costs *)
(* table (Gateway), for every number of workers, budget and price; and the   *)
(* diff that is reviewed (DiffParse), for every working tree and deny list:  *)
(* its counts, and what is read of the files and hunks git printed.  Costs   *)
(* and counts are sums over a finite set, of which the lemmas on sums speak; *)
(* the position of the parser in the output is a sum as well, of the lengths *)
(* of what was printed before.                                               *)
(***************************************************************************)
EXTENDS Gateway, DiffParse, FiniteSetTheorems, SequenceTheorems,
        WellFoundedInduction, TLAPS

\* The workers between the gate and the charge of their review.
InReview == {w \in Workers : pc[w] \in {"reviewing", "reviewed", "review_saved"}}

\* What the day may still be charged for reviews that are under way.
Coming(d) == IF d = today THEN Cardinality(InReview) * MaxCost ELSE 0

Limit(d) == Budget + lost[d] + (Cardinality(Workers) + blind[d]) * MaxCost

\* The part of the state the argument is about.
Typed ==
  /\ today  \in Days
  /\ spend  \in [Days -> Nat]
  /\ DOMAIN pc = Workers
  /\ cost   \in [Workers -> Costs]
  /\ reviewed \in [Days -> Nat]
  /\ lost     \in [Days -> Nat]
  /\ blind    \in [Days -> Nat]

\* Every review charged to a day is in the table the gate reads, or was lost.
Accounted == \A d \in Days : reviewed[d] <= spend[d] + lost[d]

\* Nothing is charged to a day that has not come.
Ahead == \A d \in Days : d > today => reviewed[d] = 0

\* The bound with the reviews under way counted as if they were charged.
Room == \A d \in Days : reviewed[d] + Coming(d) < Limit(d)

\* There is a budget to keep.
Open == Budget > 0

\* ReviewSpendBounded made inductive.
GateInv == Open /\ Typed /\ Accounted /\ Ahead /\ Room

-----------------------------------------------------------------------------

LEMMA DaysAreNumbers == \A d \in Days : d \in Nat
  BY MaxDayAssumption DEF Days

LEMMA Times ==
  ASSUME NEW m \in Nat
  PROVE  /\ \A a \in Nat : a * m \in Nat
         /\ \A a \in Nat : (a + 1) * m = a * m + m
         /\ \A a, b \in Nat : (a + b) * m = a * m + b * m
         /\ \A a, b \in Nat : a <= b => a * m <= b * m
  OBVIOUS

\* One more review than k, at most n, under way; b of the day's were let in blind.
LEMMA OneMore ==
  ASSUME NEW m \in Nat, NEW n \in Nat, NEW k \in Nat, NEW b \in Nat, NEW c \in Nat,
         c <= n, c <= k + 1
  PROVE  /\ c * m \in Nat /\ k * m \in Nat
         /\ c * m <= k * m + m
         /\ c * m <= (n + b) * m
         /\ (n + b) * m \in Nat
         /\ (n + (b + 1)) * m = (n + b) * m + m
<1>1. /\ n + b \in Nat /\ k + 1 \in Nat
      /\ n + (b + 1) = (n + b) + 1
      /\ c <= n + b
  OBVIOUS
<1>2. /\ c * m \in Nat /\ k * m \in Nat /\ (n + b) * m \in Nat
      /\ (k + 1) * m = k * m + m
      /\ ((n + b) + 1) * m = (n + b) * m + m
  BY <1>1, Times
<1>3. c * m <= (k + 1) * m /\ c * m <= (n + b) * m
  BY <1>1, Times
<1> QED
  BY <1>1, <1>2, <1>3

LEMMA WorkersCounted ==
  ASSUME NEW S \in SUBSET Workers
  PROVE  /\ IsFiniteSet(S)
         /\ Cardinality(S) \in Nat
         /\ Cardinality(Workers) \in Nat
         /\ Cardinality(S) <= Cardinality(Workers)
  BY WorkersAssumption, FS_Subset, FS_CardinalityType

LEMMA InReviewCounted ==
  /\ IsFiniteSet(InReview)
  /\ Cardinality(InReview) \in Nat
  /\ Cardinality(Workers) \in Nat
  /\ Cardinality(InReview) <= Cardinality(Workers)
  BY WorkersCounted DEF InReview

-----------------------------------------------------------------------------

LEMMA GateInit == Budget > 0 /\ Init => GateInv
<1> SUFFICES ASSUME Budget > 0, Init PROVE GateInv
  OBVIOUS
<1> USE MaxCostAssumption, BudgetAssumption
<1>1. Typed
  BY MaxDayAssumption DEF Init, NothingYet, Typed, Days, Costs
<1>2. Accounted /\ Ahead
  BY DEF Init, NothingYet, Accounted, Ahead
<1>3. ASSUME NEW d \in Days PROVE reviewed[d] + Coming(d) < Limit(d)
  <2>1. InReview = {}
    BY DEF InReview, Init
  <2>2. Coming(d) = 0
    BY <2>1, FS_EmptySet DEF Coming
  <2>3. (Cardinality(Workers) + blind[d]) * MaxCost \in Nat
    BY Times, InReviewCounted DEF Init, NothingYet
  <2> QED
    BY <2>2, <2>3 DEF Limit, Init, NothingYet
<1> QED
  BY <1>1, <1>2, <1>3 DEF GateInv, Room, Open

\* A step that lets no review in and charges none.
LEMMA NoReviewMoves ==
  ASSUME GateInv, Typed',
         InReview' \in SUBSET InReview,
         today' = today, reviewed' = reviewed, blind' = blind,
         \A d \in Days : lost[d] <= lost'[d],
         \A d \in Days : spend[d] + lost[d] <= spend'[d] + lost'[d]
  PROVE  GateInv'
<1> USE MaxCostAssumption, BudgetAssumption, DaysAreNumbers DEF Typed
<1>1. Accounted'
  BY DEF GateInv, Accounted
<1>2. Ahead'
  BY DEF GateInv, Ahead
<1>3. Cardinality(InReview') <= Cardinality(InReview)
      /\ Cardinality(InReview') \in Nat
  BY InReviewCounted, FS_Subset, FS_CardinalityType
<1>4. ASSUME NEW d \in Days PROVE reviewed'[d] + Coming(d)' < Limit(d)'
  <2>1. Coming(d)' <= Coming(d) /\ Coming(d)' \in Nat /\ Coming(d) \in Nat
    BY <1>3, InReviewCounted, Times DEF Coming
  <2>a. Cardinality(Workers) + blind[d] \in Nat
    BY InReviewCounted DEF GateInv
  <2>2. (Cardinality(Workers) + blind[d]) * MaxCost \in Nat
    BY <2>a, Times
  <2>3. Limit(d) <= Limit(d)' /\ Limit(d) \in Nat /\ Limit(d)' \in Nat
    BY <2>2 DEF Limit, GateInv
  <2> QED
    BY <2>1, <2>3 DEF GateInv, Room
<1> QED
  BY <1>1, <1>2, <1>4 DEF GateInv, Room, Open

\* The gate lets worker w in: the spend it read is below the budget, or it could
\* not be read and the review is counted as blind.
LEMMA ReviewStarts ==
  ASSUME GateInv, Typed', NEW w \in Workers,
         InReview' = InReview \cup {w},
         today' = today, reviewed' = reviewed, spend' = spend, lost' = lost,
         \/ blind' = blind /\ spend[today] < Budget
         \/ blind' = [blind EXCEPT ![today] = @ + 1]
  PROVE  GateInv'
<1> USE MaxCostAssumption, BudgetAssumption, DaysAreNumbers DEF Typed
<1> DEFINE n == Cardinality(Workers)
           k == Cardinality(InReview)
<1>1. Accounted'
  BY DEF GateInv, Accounted
<1>2. Ahead'
  BY DEF GateInv, Ahead
<1>3. n \in Nat /\ k \in Nat /\ k <= n
  BY InReviewCounted
<1>4. Cardinality(InReview') \in Nat /\ Cardinality(InReview') <= k + 1
      /\ Cardinality(InReview') <= n
  <2>1. InReview' \in SUBSET Workers
    BY DEF InReview
  <2> QED
    BY <2>1, WorkersCounted, InReviewCounted, FS_AddElement
<1>5. ASSUME NEW d \in Days, d # today PROVE reviewed'[d] + Coming(d)' < Limit(d)'
  BY <1>5 DEF GateInv, Room, Coming, Limit
<1>6. reviewed[today] + Cardinality(InReview') * MaxCost < Limit(today)'
  <2> DEFINE b == blind[today]
             c == Cardinality(InReview')
             cm == c * MaxCost
             nbm == (n + b) * MaxCost
  <2>1. b \in Nat /\ lost[today] \in Nat /\ reviewed[today] \in Nat
        /\ spend[today] \in Nat
    BY DEF GateInv
  <2>2. /\ cm \in Nat /\ k * MaxCost \in Nat /\ nbm \in Nat
        /\ cm <= k * MaxCost + MaxCost
        /\ cm <= nbm
        /\ (n + (b + 1)) * MaxCost = nbm + MaxCost
    <3>1. n \in Nat /\ k \in Nat /\ b \in Nat /\ c \in Nat /\ c <= n /\ c <= k + 1
      BY <1>3, <1>4, <2>1
    <3> HIDE DEF n, k, b, c
    <3> QED
      BY <3>1, OneMore
  <2>3. CASE blind' = blind /\ spend[today] < Budget
    <3>1. reviewed[today] < Budget + lost[today]
      BY <2>1, <2>3 DEF GateInv, Accounted
    <3>2. Limit(today)' = Budget + lost[today] + nbm
      BY <2>3 DEF Limit
    <3> HIDE DEF cm, nbm
    <3>3. reviewed[today] + cm < Budget + lost[today] + nbm
      BY <3>1, <2>1, <2>2
    <3> QED
      BY <3>2, <3>3 DEF cm
  <2>4. CASE blind' = [blind EXCEPT ![today] = @ + 1]
    <3>1. reviewed[today] + k * MaxCost < Budget + lost[today] + nbm
      BY DEF GateInv, Room, Coming, Limit
    <3>2. Limit(today)' = Budget + lost[today] + (n + (b + 1)) * MaxCost
      BY <2>4 DEF Limit, GateInv
    <3> HIDE DEF cm, nbm
    <3>3. reviewed[today] + cm < Budget + lost[today] + (nbm + MaxCost)
      BY <3>1, <2>1, <2>2
    <3> QED
      BY <2>2, <3>2, <3>3 DEF cm
  <2> QED
    BY <2>3, <2>4
<1>7. Room'
  BY <1>5, <1>6 DEF Room, Coming
<1> QED
  BY <1>1, <1>2, <1>7 DEF GateInv, Open

\* A review is charged: it is no longer under way.
LEMMA ReviewCharged ==
  ASSUME GateInv, NEW w \in Workers, ChargeReview(w), Typed'
  PROVE  GateInv'
<1> USE MaxCostAssumption, BudgetAssumption, DaysAreNumbers DEF Typed
<1>1. /\ today' = today /\ blind' = blind
      /\ reviewed' = [reviewed EXCEPT ![today] = @ + cost[w]]
      /\ pc[w] = "review_saved" /\ pc' = [pc EXCEPT ![w] = "settling"]
      /\ \/ spend' = [spend EXCEPT ![today] = @ + cost[w]] /\ lost' = lost
         \/ spend' = spend /\ lost' = [lost EXCEPT ![today] = @ + cost[w]]
  BY DEF ChargeReview, Goto, AddCost, AddCostFails
<1>2. cost[w] \in Nat /\ cost[w] <= MaxCost
  BY DEF GateInv, Costs
<1>3. ASSUME NEW d \in Days, d # today
      PROVE  reviewed'[d] = reviewed[d] /\ spend'[d] = spend[d] /\ lost'[d] = lost[d]
  BY <1>1, <1>3 DEF GateInv
<1>4. reviewed'[today] = reviewed[today] + cost[w]
  BY <1>1 DEF GateInv
<1>5. \/ spend'[today] = spend[today] + cost[w] /\ lost'[today] = lost[today]
      \/ spend'[today] = spend[today] /\ lost'[today] = lost[today] + cost[w]
  BY <1>1 DEF GateInv
<1>a. ASSUME NEW d \in Days
      PROVE  /\ reviewed[d] \in Nat /\ spend[d] \in Nat /\ lost[d] \in Nat
             /\ reviewed'[d] \in Nat /\ spend'[d] \in Nat /\ lost'[d] \in Nat
  BY DEF GateInv
<1>b. Accounted'
  <2> SUFFICES ASSUME NEW d \in Days PROVE reviewed'[d] <= spend'[d] + lost'[d]
    BY DEF Accounted
  <2>1. reviewed[d] <= spend[d] + lost[d]
    BY DEF GateInv, Accounted
  <2>2. CASE d = today
    BY <2>1, <2>2, <1>2, <1>4, <1>5, <1>a
  <2>3. CASE d # today
    BY <2>1, <2>3, <1>3, <1>a
  <2> QED
    BY <2>2, <2>3
<1>c. Ahead'
  <2> SUFFICES ASSUME NEW d \in Days, d > today' PROVE reviewed'[d] = 0
    BY DEF Ahead
  <2>0. today \in Nat /\ d \in Nat
    BY DEF GateInv
  <2>1. today' = today
    BY <1>1
  <2>2. d # today /\ d > today
    BY <2>0, <2>1
  <2> QED
    BY <2>2, <1>3 DEF GateInv, Ahead
<1> DEFINE k == Cardinality(InReview)
           j == Cardinality(InReview')
<1>6. k \in Nat /\ j \in Nat /\ k = j + 1
  <2>1. InReview' = InReview \ {w} /\ w \in InReview
    BY <1>1 DEF InReview, GateInv
  <2>2. k \in Nat /\ IsFiniteSet(InReview)
    BY InReviewCounted
  <2>3. IsFiniteSet(InReview') /\ j = k - 1
    BY <2>1, <2>2, FS_RemoveElement
  <2>4. j \in Nat
    BY <2>3, FS_CardinalityType
  <2> QED
    BY <2>2, <2>3, <2>4
<1>7. k * MaxCost = j * MaxCost + MaxCost /\ j * MaxCost \in Nat
  BY <1>6, Times
<1>8. ASSUME NEW d \in Days PROVE reviewed'[d] + Coming(d)' < Limit(d)'
  <2> DEFINE nbm == (Cardinality(Workers) + blind[d]) * MaxCost
             km == k * MaxCost
             jm == j * MaxCost
  <2>1. Limit(d) = Budget + lost[d] + nbm /\ Limit(d)' = Budget + lost'[d] + nbm
    BY <1>1 DEF Limit
  <2>2. nbm \in Nat
    <3>1. blind[d] \in Nat /\ Cardinality(Workers) \in Nat
      BY InReviewCounted DEF GateInv
    <3>2. Cardinality(Workers) + blind[d] \in Nat
      BY <3>1
    <3> QED
      BY <3>2, Times
  <2>3. Coming(d) = (IF d = today THEN km ELSE 0)
        /\ Coming(d)' = (IF d = today THEN jm ELSE 0)
    BY <1>1 DEF Coming
  <2>4. reviewed[d] + Coming(d) < Limit(d)
    BY DEF GateInv, Room
  <2>5. km = jm + MaxCost /\ jm \in Nat
    BY <1>7
  <2> HIDE DEF nbm, km, jm
  <2>6. CASE d = today
    BY <2>1, <2>2, <2>3, <2>4, <2>5, <2>6, <1>2, <1>4, <1>5, <1>a
  <2>7. CASE d # today
    BY <2>1, <2>2, <2>3, <2>4, <2>7, <1>3, <1>a
  <2> QED
    BY <2>6, <2>7
<1> QED
  BY <1>b, <1>c, <1>8 DEF GateInv, Room, Open

\* At midnight the reviews under way move to the new day.
LEMMA DayBegins ==
  ASSUME GateInv, NextDay, Typed'
  PROVE  GateInv'
<1> USE MaxCostAssumption, BudgetAssumption, DaysAreNumbers DEF Typed
<1>1. /\ today' = today + 1
      /\ UNCHANGED <<spend, pc, reviewed, lost, blind>>
  BY DEF NextDay, ghosts, store, worker
<1>2. Accounted'
  BY <1>1 DEF GateInv, Accounted
<1>3. Ahead'
  BY <1>1 DEF GateInv, Ahead
<1>4. ASSUME NEW d \in Days PROVE reviewed'[d] + Coming(d)' < Limit(d)'
  <2> DEFINE km == Cardinality(InReview) * MaxCost
             nbm == (Cardinality(Workers) + blind[d]) * MaxCost
  <2>1. blind[d] \in Nat /\ lost[d] \in Nat /\ reviewed[d] \in Nat
    BY DEF GateInv
  <2>2. km \in Nat /\ nbm \in Nat /\ km <= nbm
    <3> DEFINE n == Cardinality(Workers)
               k == Cardinality(InReview)
               b == blind[d]
    <3>1. n \in Nat /\ k \in Nat /\ b \in Nat /\ k <= n
      BY <2>1, InReviewCounted
    <3> HIDE DEF n, k, b
    <3>2. k * MaxCost \in Nat /\ (n + b) * MaxCost \in Nat
          /\ k * MaxCost <= (n + b) * MaxCost
      BY <3>1, OneMore
    <3> QED
      BY <3>2 DEF n, k, b
  <2>3. Limit(d)' = Budget + lost[d] + nbm /\ Limit(d) = Budget + lost[d] + nbm
    BY <1>1 DEF Limit
  <2>4. InReview' = InReview
    BY <1>1 DEF InReview
  <2>5. Coming(d)' = (IF d = today + 1 THEN km ELSE 0)
        /\ Coming(d) = (IF d = today THEN km ELSE 0)
    BY <1>1, <2>4 DEF Coming
  <2>6. d = today + 1 => reviewed[d] = 0
    BY DEF GateInv, Ahead
  <2>7. reviewed[d] + Coming(d) < Limit(d) /\ Budget > 0
    BY DEF GateInv, Room, Open
  <2> HIDE DEF km, nbm
  <2> QED
    BY <1>1, <2>1, <2>2, <2>3, <2>5, <2>6, <2>7
<1> QED
  BY <1>1, <1>2, <1>3, <1>4 DEF GateInv, Room, Open

-----------------------------------------------------------------------------

LEMMA MinType ==
  ASSUME NEW x \in Nat
  PROVE  Min({x, Budget}) \in 0..Budget
<1> DEFINE S == {x, Budget}
<1>1. \E y \in S : \A z \in S : y <= z
  <2>1. CASE x <= Budget
    BY <2>1, BudgetAssumption
  <2>2. CASE Budget <= x
    BY <2>2, BudgetAssumption
  <2> QED
    BY <2>1, <2>2, BudgetAssumption
<1>2. Min(S) \in S /\ \A z \in S : Min(S) <= z
  BY <1>1 DEF Min
<1> QED
  BY <1>2, BudgetAssumption

LEMMA TypeInit == Init => TypeOK
  BY MaxDayAssumption, MaxCostAssumption, BudgetAssumption
     DEF Init, TypeOK, NothingYet, Days, Costs

LEMMA TypeStep == TypeOK /\ [Next]_vars => TypeOK'
<1> SUFFICES ASSUME TypeOK, [Next]_vars PROVE TypeOK'
  OBVIOUS
<1> USE BudgetAssumption DEF TypeOK
<1>0. 0 \in Costs /\ \A c \in Costs : c \in Nat
  BY MaxCostAssumption DEF Costs
<1>1. ASSUME NEW w \in Workers, WorkerStep(w) PROVE TypeOK'
  <2> USE DEF Goto, ghosts, store, Fault
  <2>1. /\ cost[w] \in Nat
        /\ spend[today] + cost[w] \in Nat /\ lost[today] + cost[w] \in Nat
        /\ reviewed[today] + cost[w] \in Nat /\ saved + cost[w] \in Nat
    <3>1. cost[w] \in Nat
      BY <1>0
    <3>2. spend[today] \in Nat /\ lost[today] \in Nat /\ reviewed[today] \in Nat
      OBVIOUS
    <3> QED
      BY <3>1, <3>2
  <2>a. ASSUME NEW c \in Costs, Billed(c) PROVE paid' \in [Days -> 0..Budget]
    <3>1. c \in Nat /\ paid[today] \in Nat
      BY <1>0, BudgetAssumption
    <3>2. paid[today] + c \in Nat
      BY <3>1
    <3>3. Min({paid[today] + c, Budget}) \in 0..Budget
      BY <3>2, MinType
    <3> QED
      BY <2>a, <3>3 DEF Billed
  <2>2. CASE Begin(w)
    BY <2>2 DEF Begin
  <2>3. CASE TriageAnswered(w)
    <3>1. /\ UNCHANGED <<today, store, job, saved, reviewed, lost, blind, faults, outages>>
          /\ \E c \in Costs : Billed(c) /\ cost' = [cost EXCEPT ![w] = c]
          /\ pc' = [pc EXCEPT ![w] = "triaged"]
          /\ \E t \in Answers : said' = [said EXCEPT ![w] = t]
      BY <2>3 DEF TriageAnswered, Answer, Billed
    <3> QED
      BY <2>a, <3>1
  <2>4. CASE ReviewAnswered(w)
    <3>1. /\ UNCHANGED <<today, store, job, said, saved, reviewed, lost, blind, faults, outages>>
          /\ \E c \in Costs : Billed(c) /\ cost' = [cost EXCEPT ![w] = c]
          /\ pc' = [pc EXCEPT ![w] = "reviewed"]
      BY <2>4 DEF ReviewAnswered, Answer, Billed
    <3> QED
      BY <2>a, <3>1
  <2>5. CASE Unreadable(w)
    BY <2>5, <2>a DEF Unreadable, Billed
  <2>6. CASE NoAnswer(w)
    BY <2>6 DEF NoAnswer
  <2>7. CASE Save(w)
    BY <2>1, <2>7 DEF Save
  <2>8. CASE ChargeTriage(w)
    <3>1. CASE AddCost(w)
      BY <1>0, <2>1, <2>8, <3>1 DEF ChargeTriage, AddCost
    <3>2. CASE AddCostFails(w)
      BY <1>0, <2>1, <2>8, <3>2 DEF ChargeTriage, AddCostFails
    <3> QED
      BY <2>8, <3>1, <3>2 DEF ChargeTriage
  <2>9. CASE ChargeReview(w)
    <3>1. reviewed' \in [Days -> Nat] /\ cost' \in [Workers -> Costs]
      BY <1>0, <2>1, <2>9 DEF ChargeReview
    <3>2. CASE AddCost(w)
      BY <2>1, <2>9, <3>1, <3>2 DEF ChargeReview, AddCost
    <3>3. CASE AddCostFails(w)
      BY <2>1, <2>9, <3>1, <3>3 DEF ChargeReview, AddCostFails
    <3> QED
      BY <2>9, <3>2, <3>3 DEF ChargeReview
  <2>10. CASE PassGate(w)
    BY <2>10 DEF PassGate
  <2>11. CASE BudgetHit(w)
    BY <2>11 DEF BudgetHit
  <2>12. CASE PassGateBlindly(w)
    BY <2>12 DEF PassGateBlindly
  <2>13. CASE Settle(w)
    BY <2>13 DEF Settle
  <2> QED
    BY <1>1, <2>2, <2>3, <2>4, <2>5, <2>6, <2>7, <2>8, <2>9, <2>10, <2>11,
       <2>12, <2>13 DEF WorkerStep
<1>2. CASE NextDay
  <2>1. today' \in Days
    BY <1>2, MaxDayAssumption DEF NextDay, Days
  <2> QED
    BY <1>2, <2>1 DEF NextDay, ghosts, store, worker
<1>3. CASE Outage
  BY <1>0, <1>3 DEF Outage
<1>4. CASE UNCHANGED vars
  BY <1>4 DEF vars, ghosts, store, worker
<1> QED
  BY <1>1, <1>2, <1>3, <1>4 DEF Next

LEMMA GateStep == GateInv /\ TypeOK' /\ [Next]_vars => GateInv'
<1> SUFFICES ASSUME GateInv, TypeOK', [Next]_vars PROVE GateInv'
  OBVIOUS
<1>t. Typed'
  BY BudgetAssumption DEF TypeOK, Typed
<1>d. DOMAIN pc = Workers /\ today \in Days /\ today \in Nat
      /\ \A d \in Days : lost[d] \in Nat /\ spend[d] \in Nat
  BY DaysAreNumbers DEF GateInv, Typed
\* Steps after which no more reviews are under way, and none is charged.
<1>1. ASSUME InReview' \in SUBSET InReview,
             UNCHANGED <<today, spend, reviewed, lost, blind>>
      PROVE  GateInv'
  BY <1>t, <1>d, <1>1, NoReviewMoves
<1>2. ASSUME NEW w \in Workers, WorkerStep(w) PROVE GateInv'
  <2> USE <1>d DEF Goto, ghosts, store
  <2>1. CASE Begin(w)
    BY <2>1, <1>1 DEF Begin, InReview
  <2>2. CASE TriageAnswered(w)
    BY <2>2, <1>1 DEF TriageAnswered, Answer, Billed, InReview
  <2>3. CASE ReviewAnswered(w)
    BY <2>3, <1>1 DEF ReviewAnswered, Answer, Billed, InReview
  <2>4. CASE Unreadable(w)
    BY <2>4, <1>1 DEF Unreadable, Billed, InReview
  <2>5. CASE NoAnswer(w)
    BY <2>5, <1>1 DEF NoAnswer, InReview
  <2>6. CASE Save(w)
    BY <2>6, <1>1 DEF Save, InReview
  <2>7. CASE ChargeTriage(w)
    <3>1. InReview' \in SUBSET InReview
      BY <2>7 DEF ChargeTriage, InReview
    <3>2. cost[w] \in Nat
      BY MaxCostAssumption DEF GateInv, Typed, Costs
    <3>3. ASSUME NEW d \in Days
          PROVE  /\ lost[d] <= lost'[d]
                 /\ spend[d] + lost[d] <= spend'[d] + lost'[d]
      <4>1. CASE AddCost(w)
        BY <2>7, <3>2, <4>1 DEF AddCost, GateInv, Typed
      <4>2. CASE AddCostFails(w)
        BY <2>7, <3>2, <4>2 DEF AddCostFails, GateInv, Typed
      <4> QED
        BY <2>7, <4>1, <4>2 DEF ChargeTriage
    <3>4. UNCHANGED <<today, reviewed, blind>>
      BY <2>7 DEF ChargeTriage
    <3> QED
      BY <1>t, <3>1, <3>3, <3>4, NoReviewMoves
  <2>8. CASE ChargeReview(w)
    BY <2>8, <1>t, ReviewCharged
  <2>9. CASE PassGate(w)
    <3>1. InReview' = InReview \cup {w}
      BY <2>9 DEF PassGate, InReview
    <3>2. spend[today] < Budget
      BY <2>9, BudgetAssumption DEF PassGate, Exhausted, GateInv, Open
    <3>3. UNCHANGED <<today, spend, reviewed, lost, blind>>
      BY <2>9 DEF PassGate
    <3> QED
      BY <1>t, <3>1, <3>2, <3>3, ReviewStarts
  <2>10. CASE BudgetHit(w)
    BY <2>10, <1>1 DEF BudgetHit, InReview
  <2>11. CASE PassGateBlindly(w)
    <3>1. InReview' = InReview \cup {w}
      BY <2>11 DEF PassGateBlindly, InReview
    <3>2. UNCHANGED <<today, spend, reviewed, lost>>
          /\ blind' = [blind EXCEPT ![today] = @ + 1]
      BY <2>11 DEF PassGateBlindly
    <3> QED
      BY <1>t, <3>1, <3>2, ReviewStarts
  <2>12. CASE Settle(w)
    BY <2>12, <1>1 DEF Settle, InReview
  <2> QED
    BY <1>2, <2>1, <2>2, <2>3, <2>4, <2>5, <2>6, <2>7, <2>8, <2>9, <2>10,
       <2>11, <2>12 DEF WorkerStep
<1>3. CASE NextDay
  BY <1>3, <1>t, DayBegins
<1>4. CASE Outage
  BY <1>4, <1>1 DEF Outage, InReview
<1>5. CASE UNCHANGED vars
  BY <1>5, <1>1 DEF vars, ghosts, store, worker, InReview
<1> QED
  BY <1>2, <1>3, <1>4, <1>5 DEF Next

-----------------------------------------------------------------------------

\* Type correctness, and with it that the days' bill never leaves its range.
THEOREM Typing == Spec => []TypeOK
  BY TypeInit, TypeStep, PTL DEF Spec

\* For any number of workers and any price: what a day is charged for reviews
\* stays below the budget and one review more for every worker.
THEOREM BudgetKept == Spec => []ReviewSpendBounded
<1> DEFINE Inv == TypeOK /\ (Budget > 0 => GateInv)
<1>1. Init => Inv
  BY TypeInit, GateInit
<1>2. Inv /\ [Next]_vars => Inv'
  BY TypeStep, GateStep
<1>3. GateInv => ReviewSpendBounded
  <2> SUFFICES ASSUME GateInv, NEW d \in Days
               PROVE  reviewed[d] < Limit(d)
    BY DEF ReviewSpendBounded, Limit
  <2>1. Cardinality(InReview) * MaxCost \in Nat
    BY InReviewCounted, MaxCostAssumption, Times
  <2>2. Coming(d) \in Nat /\ reviewed[d] \in Nat
    BY <2>1 DEF Coming, GateInv, Typed
  <2>3. Limit(d) \in Nat
    <3>1. Cardinality(Workers) \in Nat /\ blind[d] \in Nat /\ lost[d] \in Nat
      BY InReviewCounted DEF GateInv, Typed
    <3>2. Cardinality(Workers) + blind[d] \in Nat
      BY <3>1
    <3>3. (Cardinality(Workers) + blind[d]) * MaxCost \in Nat
      BY <3>2, MaxCostAssumption, Times
    <3> QED
      BY <3>1, <3>3, BudgetAssumption DEF Limit
  <2>4. reviewed[d] + Coming(d) < Limit(d)
    BY DEF GateInv, Room
  <2> QED
    BY <2>2, <2>3, <2>4
<1>4. Inv => ReviewSpendBounded
  BY <1>3 DEF ReviewSpendBounded
<1> QED
  BY <1>1, <1>2, <1>4, PTL DEF Spec

\* The routing rule is the data contract's for every triage, a forced one too.
LEMMA RoutingRule ==
  ASSUME NEW t \in Triages
  PROVE  ShouldEscalate(t) <=> ContractEscalates(t)
<1>1. t.categories \cap Wanted # {} <=> \E c \in t.categories : c \in Wanted
  OBVIOUS
<1>2. t.force \in {"", "triage", "review"}
  BY DEF Triages
<1> QED
  BY <1>1, <1>2 DEF ShouldEscalate, ContractEscalates, IsPureStyle

\* Whatever the providers answer, a triage is sent to the gate if and only if
\* the data contract escalates it.
THEOREM RoutingCorrect == Spec => RoutedAsContracted
<1> DEFINE Routed ==
      \A w \in Workers :
        pc[w] = "triage_saved" /\ pc'[w] \notin {"triage_saved", "idle"} =>
          (pc'[w] = "gate" <=> ContractEscalates(said[w]))
\* A charged triage is one the providers gave.
<1> DEFINE Given == \A w \in Workers :
      pc[w] \in {"triaged", "triage_saved"} => said[w] \in Answers
<1>1. Init => Given
  BY DEF Init
<1>2. TypeOK /\ Given /\ [Next]_vars => Given'
  <2> SUFFICES ASSUME TypeOK, Given, [Next]_vars PROVE Given'
    OBVIOUS
  <2>0. DOMAIN pc = Workers /\ DOMAIN said = Workers
    BY DEF TypeOK
  <2>1. ASSUME NEW v \in Workers, WorkerStep(v) PROVE Given'
    <3> USE <2>0 DEF Goto, ghosts
    <3>1. CASE TriageAnswered(v)
      BY <3>1 DEF TriageAnswered
    <3>2. CASE Begin(v) \/ ReviewAnswered(v) \/ Unreadable(v) \/ NoAnswer(v)
      BY <3>2 DEF Begin, ReviewAnswered, Unreadable, NoAnswer
    <3>3. CASE Save(v) \/ PassGate(v) \/ BudgetHit(v) \/ PassGateBlindly(v)
      BY <3>3 DEF Save, PassGate, BudgetHit, PassGateBlindly
    <3>4. CASE ChargeTriage(v)
      BY <3>4 DEF ChargeTriage
    <3>5. CASE ChargeReview(v) \/ Settle(v)
      BY <3>5 DEF ChargeReview, Settle
    <3> QED
      BY <2>1, <3>1, <3>2, <3>3, <3>4, <3>5 DEF WorkerStep
  <2>2. CASE NextDay \/ Outage
    BY <2>2 DEF NextDay, Outage, worker
  <2>3. CASE UNCHANGED vars
    BY <2>3 DEF vars, worker
  <2> QED
    BY <2>1, <2>2, <2>3 DEF Next
<1>3. TypeOK /\ Given /\ [Next]_vars => [Routed]_vars
  <2> SUFFICES ASSUME TypeOK, Given, Next, NEW w \in Workers,
                      pc[w] = "triage_saved",
                      pc'[w] \notin {"triage_saved", "idle"}
               PROVE  pc'[w] = "gate" <=> ContractEscalates(said[w])
    OBVIOUS
  <2>1. DOMAIN pc = Workers
    BY DEF TypeOK
  <2>2. ~NextDay /\ ~Outage
    BY DEF NextDay, Outage, worker
  <2>3. PICK v \in Workers : WorkerStep(v)
    BY <2>2 DEF Next
  <2>4. v = w
    BY <2>1, <2>3 DEF WorkerStep, Begin, TriageAnswered, ReviewAnswered,
       Unreadable, NoAnswer, Save, ChargeTriage, ChargeReview, PassGate,
       BudgetHit, PassGateBlindly, Settle, Goto
  <2>5. ChargeTriage(w)
    BY <2>3, <2>4 DEF WorkerStep, Begin, TriageAnswered, ReviewAnswered,
       Unreadable, NoAnswer, Save, ChargeReview, PassGate,
       BudgetHit, PassGateBlindly, Settle, Goto
  <2>6. ShouldEscalate(said[w]) <=> ContractEscalates(said[w])
    BY RoutingRule, AnswersAssumption
  <2> QED
    BY <2>1, <2>5, <2>6 DEF ChargeTriage, Goto
<1> QED
  BY <1>1, <1>2, <1>3, TypeInit, TypeStep, PTL DEF Spec, RoutedAsContracted

-----------------------------------------------------------------------------
(* Sums over finite sets.  MapThenSumSet is defined by a recursion over the  *)
(* subsets; that it has a solution, and what the solution does, follows by   *)
(* induction on the size of the subset, in the form of a least number.       *)

\* The element the sum over s takes next.
Pick(s) == CHOOSE x \in s : TRUE

\* t is the recursion MapThenSumSet is defined by, for the values of F over S.
SumsBy(F, S, t) ==
  t = [s \in SUBSET S |-> IF s = {} THEN 0 ELSE F[Pick(s)] + t[s \ {Pick(s)}]]

Total(F, S) == MapThenSumSet(LAMBDA x : F[x], S)

LEMMA LeastNumber ==
  ASSUME NEW T \in SUBSET Nat, T # {}
  PROVE  \E x \in T : \A y \in T : x <= y
<1> DEFINE R == {ss \in Nat \X Nat : ss[1] < ss[2]}
<1>1. IsWellFoundedOn(R, Nat)
  BY NatLessThanWellFounded DEF OpToRel
<1>2. PICK x \in T : \A y \in T : <<y, x>> \notin R
  <2> HIDE DEF R
  <2> QED
    BY <1>1, WFMin
<1>3. \A y \in T : ~(y < x)
  BY <1>2
<1> QED
  BY <1>3

LEMMA PickedOut ==
  ASSUME NEW S, IsFiniteSet(S), NEW s \in SUBSET S, s # {}
  PROVE  /\ Pick(s) \in s /\ s \ {Pick(s)} \in SUBSET S
         /\ Cardinality(s) \in Nat /\ Cardinality(s \ {Pick(s)}) = Cardinality(s) - 1
<1>1. Pick(s) \in s
  BY DEF Pick
<1>2. IsFiniteSet(s)
  BY FS_Subset
<1> QED
  BY <1>1, <1>2, FS_CardinalityType, FS_RemoveElement

\* Induction over the subsets of a finite set, for a set B of them.
LEMMA SubsetsByPicking ==
  ASSUME NEW S, IsFiniteSet(S), NEW B, {} \in B,
         \A s \in SUBSET S : s # {} /\ s \ {Pick(s)} \in B => s \in B
  PROVE  SUBSET S \subseteq B
<1> SUFFICES ASSUME (SUBSET S) \ B # {}
             PROVE  FALSE
  OBVIOUS
<1> DEFINE T == {Cardinality(s) : s \in (SUBSET S) \ B}
<1>1. T \in SUBSET Nat /\ T # {}
  BY FS_Subset, FS_CardinalityType
<1>2. PICK n \in T : \A m \in T : n <= m
  <2> HIDE DEF T
  <2> QED
    BY <1>1, LeastNumber
<1>3. PICK s \in (SUBSET S) \ B : n = Cardinality(s)
  BY <1>2
<1>4. s # {} /\ s \ {Pick(s)} \in (SUBSET S) \ B
  BY <1>3, PickedOut
<1>5. Cardinality(s) \in Nat /\ Cardinality(s \ {Pick(s)}) = Cardinality(s) - 1
  BY <1>4, PickedOut
<1>6. Cardinality(s \ {Pick(s)}) \in T
  BY <1>4
<1>7. Cardinality(s) <= Cardinality(s) - 1
  BY <1>2, <1>3, <1>5, <1>6
<1> QED
  BY <1>5, <1>7

\* The recursion has a solution: it has one for the subsets of every size.
LEMMA SumExists ==
  ASSUME NEW S, IsFiniteSet(S), NEW F
  PROVE  \E t : SumsBy(F, S, t)
<1> DEFINE E(t, s) == IF s = {} THEN 0 ELSE F[Pick(s)] + t[s \ {Pick(s)}]
           Upto(n, t) == t = [s \in SUBSET S |-> t[s]]
                         /\ \A s \in SUBSET S : Cardinality(s) <= n => t[s] = E(t, s)
           Bad == {n \in Nat : ~\E t : Upto(n, t)}
<1>0. \A s \in SUBSET S : IsFiniteSet(s) /\ Cardinality(s) \in Nat /\ Cardinality(s) <= Cardinality(S)
  BY FS_Subset, FS_CardinalityType
<1>1. 0 \notin Bad
  <2>1. Upto(0, [s \in SUBSET S |-> 0])
    BY <1>0, FS_EmptySet
  <2> QED
    BY <2>1
<1>2. ASSUME NEW n \in Nat, n \notin Bad
      PROVE  n + 1 \notin Bad
  <2>1. PICK t : Upto(n, t)
    BY <1>2
  <2> DEFINE u == [s \in SUBSET S |-> E(t, s)]
  <2>2. ASSUME NEW s \in SUBSET S, Cardinality(s) <= n + 1
        PROVE  u[s] = E(u, s)
    <3>1. CASE s = {}
      BY <3>1
    <3>2. CASE s # {}
      <4>1. s \ {Pick(s)} \in SUBSET S /\ Cardinality(s \ {Pick(s)}) <= n
        BY <2>2, <3>2, PickedOut
      <4>2. u[s \ {Pick(s)}] = t[s \ {Pick(s)}]
        BY <2>1, <4>1
      <4> QED
        BY <3>2, <4>2
    <3> QED
      BY <3>1, <3>2
  <2>3. Upto(n + 1, u)
    BY <2>2
  <2> QED
    BY <2>3
<1>3. Bad = {}
  <2> SUFFICES ASSUME Bad # {}
               PROVE  FALSE
    OBVIOUS
  <2>0. Bad \in SUBSET Nat
    OBVIOUS
  <2> HIDE DEF Bad
  <2>1. PICK n \in Bad : \A m \in Bad : n <= m
    BY <2>0, LeastNumber
  <2>2. n # 0 /\ n - 1 \in Nat
    BY <1>1, <2>0, <2>1
  <2>3. n - 1 \notin Bad
    BY <2>0, <2>1, <2>2
  <2>4. (n - 1) + 1 \notin Bad
    BY <1>2, <2>2, <2>3
  <2> QED
    BY <2>0, <2>1, <2>2, <2>4
<1>4. PICK t : Upto(Cardinality(S), t)
  BY <1>0, <1>3
<1>5. \A s \in SUBSET S : t[s] = E(t, s)
  BY <1>0, <1>4
<1>6. t = [s \in SUBSET S |-> E(t, s)]
  BY <1>4, <1>5
<1> QED
  BY <1>6 DEF SumsBy

LEMMA TotalIsSum ==
  ASSUME NEW S, IsFiniteSet(S), NEW F
  PROVE  \E t : SumsBy(F, S, t) /\ Total(F, S) = t[S]
<1> DEFINE t == CHOOSE u : SumsBy(F, S, u)
<1>1. SumsBy(F, S, t)
  BY SumExists
<1>2. Total(F, S) = t[S]
  BY DEF Total, MapThenSumSet, MapThenFoldSet, SumsBy, Pick
<1> QED
  BY <1>1, <1>2

\* One turn of the recursion.
LEMMA SumUnfolds ==
  ASSUME NEW S, NEW F, NEW t, SumsBy(F, S, t)
  PROVE  /\ t[{}] = 0
         /\ \A s \in SUBSET S : s # {} =>
              /\ Pick(s) \in s /\ s \ {Pick(s)} \in SUBSET S
              /\ t[s] = F[Pick(s)] + t[s \ {Pick(s)}]
<1>1. \A s \in SUBSET S : t[s] = IF s = {} THEN 0 ELSE F[Pick(s)] + t[s \ {Pick(s)}]
  BY DEF SumsBy
<1>2. \A s \in SUBSET S : s # {} => Pick(s) \in s
  BY DEF Pick
<1> QED
  BY <1>1, <1>2

LEMMA SumsAreNat ==
  ASSUME NEW S, IsFiniteSet(S), NEW F, \A x \in S : F[x] \in Nat, NEW t, SumsBy(F, S, t)
  PROVE  \A s \in SUBSET S : t[s] \in Nat
<1> DEFINE B == {s \in SUBSET S : t[s] \in Nat}
<1>1. {} \in B
  BY SumUnfolds
<1>2. ASSUME NEW s \in SUBSET S, s # {}, s \ {Pick(s)} \in B
      PROVE  s \in B
  <2>1. t[s] = F[Pick(s)] + t[s \ {Pick(s)}] /\ Pick(s) \in S
    BY <1>2, SumUnfolds
  <2>2. F[Pick(s)] \in Nat /\ t[s \ {Pick(s)}] \in Nat
    BY <1>2, <2>1
  <2> QED
    BY <2>1, <2>2
<1>3. SUBSET S \subseteq B
  <2> HIDE DEF B
  <2> QED
    BY <1>1, <1>2, SubsetsByPicking
<1> QED
  BY <1>3

LEMMA TotalIsNat ==
  ASSUME NEW S, IsFiniteSet(S), NEW F, \A x \in S : F[x] \in Nat
  PROVE  Total(F, S) \in Nat
BY TotalIsSum, SumsAreNat

LEMMA TotalOfNothing ==
  ASSUME NEW S, IsFiniteSet(S), NEW F, \A x \in S : F[x] = 0
  PROVE  Total(F, S) = 0
<1>1. PICK t : SumsBy(F, S, t) /\ Total(F, S) = t[S]
  BY TotalIsSum
<1> DEFINE B == {s \in SUBSET S : t[s] = 0}
<1>2. {} \in B
  BY <1>1, SumUnfolds
<1>3. ASSUME NEW s \in SUBSET S, s # {}, s \ {Pick(s)} \in B
      PROVE  s \in B
  BY <1>1, <1>3, SumUnfolds
<1>4. SUBSET S \subseteq B
  <2> HIDE DEF B
  <2> QED
    BY <1>2, <1>3, SubsetsByPicking
<1> QED
  BY <1>1, <1>4

\* Two functions that differ at one element have totals that differ by as much.
LEMMA TotalOfChange ==
  ASSUME NEW S, IsFiniteSet(S), NEW F \in [S -> Nat], NEW G \in [S -> Nat],
         NEW e \in S, \A x \in S \ {e} : G[x] = F[x]
  PROVE  Total(G, S) + F[e] = Total(F, S) + G[e]
<1>1. PICK t : SumsBy(F, S, t) /\ Total(F, S) = t[S]
  BY TotalIsSum
<1>2. PICK u : SumsBy(G, S, u) /\ Total(G, S) = u[S]
  BY TotalIsSum
<1>3. \A s \in SUBSET S : t[s] \in Nat /\ u[s] \in Nat
  BY <1>1, <1>2, SumsAreNat
<1> DEFINE B == {s \in SUBSET S : IF e \in s THEN u[s] + F[e] = t[s] + G[e]
                                            ELSE u[s] = t[s]}
<1>4. {} \in B
  BY <1>1, <1>2, SumUnfolds
<1>5. ASSUME NEW s \in SUBSET S, s # {}, s \ {Pick(s)} \in B
      PROVE  s \in B
  <2> DEFINE r == s \ {Pick(s)}
  <2>1. /\ Pick(s) \in s /\ r \in SUBSET S
        /\ t[s] = F[Pick(s)] + t[r] /\ u[s] = G[Pick(s)] + u[r]
    BY <1>1, <1>2, <1>5, SumUnfolds
  <2>2. /\ t[r] \in Nat /\ u[r] \in Nat
        /\ F[e] \in Nat /\ G[e] \in Nat /\ F[Pick(s)] \in Nat /\ G[Pick(s)] \in Nat
    BY <1>3, <2>1
  <2>3. CASE Pick(s) = e
    <3>1. u[r] = t[r] /\ e \in s
      BY <1>5, <2>1, <2>3
    <3> HIDE DEF r
    <3>2. u[s] + F[e] = t[s] + G[e]
      BY <2>1, <2>2, <2>3, <3>1
    <3> QED
      BY <3>1, <3>2
  <2>4. CASE Pick(s) # e
    <3>1. G[Pick(s)] = F[Pick(s)] /\ (e \in r <=> e \in s)
      BY <2>1, <2>4
    <3>2. IF e \in r THEN u[r] + F[e] = t[r] + G[e] ELSE u[r] = t[r]
      BY <1>5
    <3> HIDE DEF r
    <3>3. IF e \in s THEN u[s] + F[e] = t[s] + G[e] ELSE u[s] = t[s]
      BY <2>1, <2>2, <3>1, <3>2
    <3> QED
      BY <3>3
  <2> QED
    BY <2>3, <2>4
<1>6. SUBSET S \subseteq B
  <2> HIDE DEF B
  <2> QED
    BY <1>4, <1>5, SubsetsByPicking
<1> QED
  BY <1>1, <1>2, <1>6

-----------------------------------------------------------------------------
(* The costs table and the results that were saved *)

\* What was saved with a result and is still to be charged.
Uncharged ==
  [w \in Workers |-> IF pc[w] \in {"triage_saved", "review_saved"} THEN cost[w] ELSE 0]

\* SpendMatchesResults made inductive: what is to be charged counts as charged.
Balanced ==
  faults = 0 /\ outages = 0 =>
    Total(spend, Days) + Total(Uncharged, Workers) = saved

LEMMA CostsAreNat ==
  ASSUME TypeOK, TypeOK'
  PROVE  /\ \A w \in Workers : cost[w] \in Nat
         /\ Uncharged \in [Workers -> Nat] /\ Uncharged' \in [Workers -> Nat]
<1>1. \A c \in Costs : c \in Nat
  BY MaxCostAssumption DEF Costs
<1>2. \A w \in Workers : cost[w] \in Nat /\ cost'[w] \in Nat
  BY <1>1 DEF TypeOK
<1> QED
  BY <1>2 DEF Uncharged

LEMMA SumsAreFinite == IsFiniteSet(Days) /\ IsFiniteSet(Workers)
  BY MaxDayAssumption, WorkersAssumption, FS_Interval DEF Days

LEMMA BalanceStep ==
  ASSUME TypeOK, TypeOK', Balanced, [Next]_vars
  PROVE  Balanced'
<1> SUFFICES ASSUME faults' = 0, outages' = 0
             PROVE  Total(spend', Days) + Total(Uncharged', Workers) = saved'
  BY DEF Balanced
<1>0. /\ faults \in Nat /\ outages \in Nat /\ today \in Days
      /\ spend \in [Days -> Nat] /\ spend' \in [Days -> Nat] /\ saved \in Nat
  BY DEF TypeOK
<1>a. /\ Total(spend, Days) \in Nat /\ Total(spend', Days) \in Nat
      /\ Total(Uncharged, Workers) \in Nat /\ Total(Uncharged', Workers) \in Nat
  <2>1. Uncharged \in [Workers -> Nat] /\ Uncharged' \in [Workers -> Nat]
    BY CostsAreNat
  <2> QED
    BY <1>0, <2>1, SumsAreFinite, TotalIsNat
<1>1. ASSUME faults = 0, outages = 0
      PROVE  Total(spend, Days) + Total(Uncharged, Workers) = saved
  BY <1>1 DEF Balanced
\* Nothing is saved and nothing is charged.
<1>2. ASSUME UNCHANGED <<spend, saved, faults, outages, Uncharged>>
      PROVE  Total(spend', Days) + Total(Uncharged', Workers) = saved'
  BY <1>1, <1>2
\* A result is saved, or charged.
<1>3. ASSUME NEW w \in Workers, Save(w)
      PROVE  Total(spend', Days) + Total(Uncharged', Workers) = saved'
  <2>1. faults = 0 /\ outages = 0 /\ saved' = saved + cost[w] /\ spend' = spend
    BY <1>0, <1>3 DEF Save, Fault, store
  <2>2. /\ Uncharged[w] = 0 /\ Uncharged'[w] = cost[w]
        /\ \A v \in Workers \ {w} : Uncharged'[v] = Uncharged[v]
    BY <1>3 DEF Save, Goto, Uncharged, TypeOK
  <2>3. Uncharged \in [Workers -> Nat] /\ Uncharged' \in [Workers -> Nat] /\ cost[w] \in Nat
    BY CostsAreNat
  <2>4. Total(Uncharged', Workers) + 0 = Total(Uncharged, Workers) + cost[w]
    BY <2>2, <2>3, SumsAreFinite, TotalOfChange
  <2> QED
    BY <1>0, <1>1, <1>a, <2>1, <2>3, <2>4
<1>4. ASSUME NEW w \in Workers, ChargeTriage(w) \/ ChargeReview(w)
      PROVE  Total(spend', Days) + Total(Uncharged', Workers) = saved'
  <2>1. faults = 0 /\ outages = 0 /\ saved' = saved /\ AddCost(w)
    BY <1>0, <1>4 DEF ChargeTriage, ChargeReview, AddCost, AddCostFails, Fault
  <2>2. /\ Uncharged[w] = cost[w] /\ Uncharged'[w] = 0
        /\ \A v \in Workers \ {w} : Uncharged'[v] = Uncharged[v]
    <3>1. /\ pc[w] \in {"triage_saved", "review_saved"}
          /\ pc'[w] \notin {"triage_saved", "review_saved"}
          /\ \A v \in Workers \ {w} : pc'[v] = pc[v] /\ cost'[v] = cost[v]
      BY <1>4 DEF ChargeTriage, ChargeReview, Goto, TypeOK
    <3> QED
      BY <3>1 DEF Uncharged
  <2>3. Uncharged \in [Workers -> Nat] /\ Uncharged' \in [Workers -> Nat] /\ cost[w] \in Nat
    BY CostsAreNat
  <2>4. Total(Uncharged', Workers) + cost[w] = Total(Uncharged, Workers) + 0
    BY <2>2, <2>3, SumsAreFinite, TotalOfChange
  <2>5. /\ spend'[today] = spend[today] + cost[w]
        /\ \A d \in Days \ {today} : spend'[d] = spend[d]
    BY <1>0, <2>1 DEF AddCost
  <2>6. Total(spend', Days) + spend[today] = Total(spend, Days) + spend'[today]
    BY <1>0, <2>5, SumsAreFinite, TotalOfChange
  <2>7. spend[today] \in Nat
    BY <1>0
  <2> QED
    BY <1>1, <1>a, <2>1, <2>3, <2>4, <2>5, <2>6, <2>7
<1>5. ASSUME NEW w \in Workers, WorkerStep(w), ~Save(w), ~ChargeTriage(w), ~ChargeReview(w)
      PROVE  UNCHANGED <<spend, saved, faults, outages, Uncharged>>
  <2>1. UNCHANGED <<spend, saved, outages>> /\ faults' \in {faults, faults + 1}
    BY <1>5 DEF WorkerStep, Begin, TriageAnswered, ReviewAnswered, Unreadable, NoAnswer,
       PassGate, BudgetHit, PassGateBlindly, Settle, Answer, Billed, Fault, ghosts, store
  <2>2. faults' = faults
    BY <1>0, <2>1
  <2>3. /\ pc[w] \notin {"triage_saved", "review_saved"}
        /\ pc'[w] \notin {"triage_saved", "review_saved"}
        /\ \A v \in Workers \ {w} : pc'[v] = pc[v] /\ cost'[v] = cost[v]
    <3> USE DEF Goto, TypeOK
    <3>1. CASE Begin(w)
      BY <3>1 DEF Begin
    <3>2. CASE TriageAnswered(w) \/ ReviewAnswered(w)
      BY <3>2 DEF TriageAnswered, ReviewAnswered, Answer
    <3>3. CASE Unreadable(w) \/ NoAnswer(w)
      BY <3>3 DEF Unreadable, NoAnswer
    <3>4. CASE PassGate(w) \/ BudgetHit(w) \/ PassGateBlindly(w) \/ Settle(w)
      BY <3>4 DEF PassGate, BudgetHit, PassGateBlindly, Settle, ghosts
    <3> QED
      BY <1>5, <3>1, <3>2, <3>3, <3>4 DEF WorkerStep
  <2>4. Uncharged' = Uncharged
    BY <2>3 DEF Uncharged
  <2> QED
    BY <2>1, <2>2, <2>4
<1>6. NextDay \/ UNCHANGED vars => UNCHANGED <<spend, saved, faults, outages, Uncharged>>
  BY DEF NextDay, vars, store, worker, ghosts, Uncharged
<1>7. ~Outage
  BY <1>0 DEF Outage
<1> QED
  BY <1>2, <1>3, <1>4, <1>5, <1>6, <1>7 DEF Next

\* For any number of workers, days and prices: as long as the store fails nothing
\* and the agent is not stopped, every saved result is charged exactly once, and
\* between analyses the costs table adds up to what was saved.
THEOREM EveryResultChargedOnce == Spec => []SpendMatchesResults
<1>1. Init => Balanced
  <2> SUFFICES ASSUME Init
               PROVE  Balanced
    OBVIOUS
  <2>1. Total(spend, Days) = 0 /\ Total(Uncharged, Workers) = 0
    BY SumsAreFinite, TotalOfNothing DEF Init, NothingYet, Uncharged
  <2> QED
    BY <2>1 DEF Balanced, Init
<1>2. TypeOK /\ TypeOK' /\ Balanced /\ [Next]_vars => Balanced'
  BY BalanceStep
<1>3. TypeOK /\ Balanced => SpendMatchesResults
  <2> SUFFICES ASSUME TypeOK, Balanced, \A w \in Workers : cost[w] = 0,
                      faults = 0, outages = 0
               PROVE  Total(spend, Days) = saved
    BY DEF SpendMatchesResults, Total
  <2>1. Total(Uncharged, Workers) = 0
    BY SumsAreFinite, TotalOfNothing DEF Uncharged
  <2>2. Total(spend, Days) \in Nat
    BY SumsAreFinite, TotalIsNat DEF TypeOK
  <2> QED
    BY <2>1, <2>2 DEF Balanced
<1> QED
  BY <1>1, <1>2, <1>3, Typing, PTL DEF Spec

-----------------------------------------------------------------------------
(* Sums over sequences *)

\* The order in which the elements are taken does not matter.
LEMMA AnyTaken ==
  ASSUME NEW S, IsFiniteSet(S), NEW F, \A x \in S : F[x] \in Nat,
         NEW t, SumsBy(F, S, t), NEW s \in SUBSET S, NEW x \in s
  PROVE  t[s] = F[x] + t[s \ {x}]
<1> DEFINE Holds(r) == \A y \in r : t[r] = F[y] + t[r \ {y}]
           Bad == {Cardinality(r) : r \in {q \in SUBSET S : ~Holds(q)}}
<1>1. \A r \in SUBSET S : t[r] \in Nat
  BY SumsAreNat
<1>2. \A r \in SUBSET S : IsFiniteSet(r) /\ Cardinality(r) \in Nat
  BY FS_Subset, FS_CardinalityType
<1>3. ASSUME NEW r \in SUBSET S, ~Holds(r),
             \A q \in SUBSET S : Cardinality(q) < Cardinality(r) => Holds(q)
      PROVE  FALSE
  <2>1. PICK y \in r : t[r] # F[y] + t[r \ {y}]
    BY <1>3
  <2> DEFINE p == Pick(r)
             q == r \ {p}
             u == r \ {y}
  <2>2. p \in r /\ q \in SUBSET S /\ u \in SUBSET S /\ t[r] = F[p] + t[q]
    BY <2>1, SumUnfolds
  <2>3. p # y
    BY <2>1, <2>2
  <2>4. Cardinality(q) < Cardinality(r) /\ Cardinality(u) < Cardinality(r)
    BY <1>2, <2>1, <2>2, FS_RemoveElement
  <2>5. y \in q /\ p \in u /\ q \ {y} = u \ {p} /\ u \ {p} \in SUBSET S
    BY <2>1, <2>2, <2>3
  <2>6. t[q] = F[y] + t[u \ {p}] /\ t[u] = F[p] + t[u \ {p}]
    <3>1. Holds(q) /\ Holds(u)
      <4> HIDE DEF Holds, q, u
      <4> QED
        BY <1>3, <2>2, <2>4
    <3> QED
      BY <2>5, <3>1
  <2>7. F[p] \in Nat /\ F[y] \in Nat /\ t[u \ {p}] \in Nat
    BY <1>1, <2>1, <2>2, <2>5
  <2> HIDE DEF p, q, u
  <2>8. t[r] = F[y] + t[u]
    BY <2>2, <2>6, <2>7
  <2> QED
    BY <2>1, <2>8 DEF u
<1>4. Bad = {}
  <2> SUFFICES ASSUME Bad # {} PROVE FALSE
    OBVIOUS
  <2>1. Bad \in SUBSET Nat
    BY <1>2
  <2>2. PICK n \in Bad : \A m \in Bad : n <= m
    <3> HIDE DEF Bad
    <3> QED
      BY <2>1, LeastNumber
  <2>3. PICK r \in SUBSET S : ~Holds(r) /\ n = Cardinality(r)
    BY <2>2
  <2>4. ASSUME NEW q \in SUBSET S, Cardinality(q) < Cardinality(r)
        PROVE  Holds(q)
    <3> SUFFICES ASSUME ~Holds(q) PROVE FALSE
      OBVIOUS
    <3>1. Cardinality(q) \in Bad
      OBVIOUS
    <3> HIDE DEF Bad, Holds
    <3> QED
      BY <1>2, <2>2, <2>3, <2>4, <3>1
  <2> HIDE DEF Bad, Holds
  <2> QED
    BY <1>3, <2>3, <2>4
<1>5. Holds(s)
  BY <1>4
<1> QED
  BY <1>5

\* Two sums of the same values are the same, whatever else the functions are
\* defined for.
LEMMA SumsAgree ==
  ASSUME NEW S, NEW R \in SUBSET S, IsFiniteSet(S), NEW F, NEW G,
         \A x \in R : F[x] = G[x],
         NEW t, SumsBy(F, S, t), NEW u, SumsBy(G, R, u)
  PROVE  t[R] = u[R]
<1> DEFINE B == {s \in SUBSET R : t[s] = u[s]}
<1>1. {} \in B
  BY SumUnfolds
<1>2. ASSUME NEW s \in SUBSET R, s # {}, s \ {Pick(s)} \in B
      PROVE  s \in B
  <2>1. t[s] = F[Pick(s)] + t[s \ {Pick(s)}] /\ Pick(s) \in s
    BY <1>2, SumUnfolds
  <2>2. u[s] = G[Pick(s)] + u[s \ {Pick(s)}]
    BY <1>2, SumUnfolds
  <2> QED
    BY <1>2, <2>1, <2>2
<1>3. SUBSET R \subseteq B
  <2>1. IsFiniteSet(R)
    BY FS_Subset
  <2> HIDE DEF B
  <2> QED
    BY <1>1, <1>2, <2>1, SubsetsByPicking
<1> QED
  BY <1>3

LEMMA TotalsAgree ==
  ASSUME NEW S, IsFiniteSet(S), NEW F, NEW G, \A x \in S : F[x] = G[x]
  PROVE  Total(F, S) = Total(G, S)
BY TotalIsSum, SumsAgree

LEMMA TotalOfOneMore ==
  ASSUME NEW S, IsFiniteSet(S), NEW F, \A x \in S : F[x] \in Nat, NEW e \in S
  PROVE  Total(F, S) = Total(F, S \ {e}) + F[e]
<1>1. PICK t : SumsBy(F, S, t) /\ Total(F, S) = t[S]
  BY TotalIsSum
<1>2. IsFiniteSet(S \ {e})
  BY FS_Subset
<1>3. PICK u : SumsBy(F, S \ {e}, u) /\ Total(F, S \ {e}) = u[S \ {e}]
  BY <1>2, TotalIsSum
<1>4. t[S \ {e}] = u[S \ {e}]
  BY <1>1, <1>3, SumsAgree
<1>5. t[S] = F[e] + t[S \ {e}]
  BY <1>1, AnyTaken
<1>6. F[e] \in Nat /\ t[S \ {e}] \in Nat
  BY <1>1, SumsAreNat
<1> QED
  BY <1>1, <1>3, <1>4, <1>5, <1>6

\* The sum of the first n elements.
LEMMA PrefixTotals ==
  ASSUME NEW F, NEW m \in Nat, \A i \in 1..m : F[i] \in Nat
  PROVE  /\ Total(F, 1..0) = 0
         /\ \A n \in 0..m : Total(F, 1..n) \in Nat
         /\ \A n \in 1..m : Total(F, 1..n) = Total(F, 1..(n - 1)) + F[n]
<1>1. \A n \in 0..m : IsFiniteSet(1..n)
  BY FS_Interval
<1>2. 1..0 = {} /\ IsFiniteSet(1..0)
  BY <1>1
<1>3. \A n \in 1..m : n \in 1..n /\ (1..n) \ {n} = 1..(n - 1)
  OBVIOUS
<1>4. Total(F, 1..0) = 0
  BY <1>2, TotalOfNothing
<1>5. ASSUME NEW n \in 0..m PROVE Total(F, 1..n) \in Nat
  BY <1>1, TotalIsNat
<1>6. ASSUME NEW n \in 1..m
      PROVE  Total(F, 1..n) = Total(F, 1..(n - 1)) + F[n]
  <2>1. IsFiniteSet(1..n) /\ \A i \in 1..n : F[i] \in Nat
    BY <1>1
  <2>2. Total(F, 1..n) = Total(F, (1..n) \ {n}) + F[n]
    BY <1>3, <2>1, TotalOfOneMore
  <2> QED
    BY <1>3, <2>2
<1> QED
  BY <1>4, <1>5, <1>6

LEMMA SumIsTotal == \A ns : Sum(ns) = Total(ns, DOMAIN ns)
  BY DEF Sum, FoldSeq, FoldFunction, FoldFunctionOnSet, Total, MapThenSumSet,
         MapThenFoldSet

LEMMA SumOfJoined ==
  ASSUME NEW r \in Seq(Nat), NEW s \in Seq(Nat)
  PROVE  Sum(r \o s) = Sum(r) + Sum(s)
<1> DEFINE f == r \o s
           k == Len(r)
           m == Len(s)
<1>1. /\ k \in Nat /\ m \in Nat /\ f \in Seq(Nat) /\ Len(f) = k + m
      /\ DOMAIN r = 1..k /\ DOMAIN s = 1..m /\ DOMAIN f = 1..(k + m)
      /\ \A i \in 1..k : f[i] = r[i] /\ r[i] \in Nat
      /\ \A i \in 1..m : f[k + i] = s[i] /\ s[i] \in Nat
      /\ \A i \in 1..(k + m) : f[i] \in Nat
  BY ConcatProperties, LenProperties, ElementOfSeq
<1>2. Sum(f) = Total(f, 1..(k + m)) /\ Sum(r) = Total(r, 1..k) /\ Sum(s) = Total(s, 1..m)
  BY <1>1, SumIsTotal
<1> HIDE DEF f, k, m
<1>3. IsFiniteSet(1..k)
  BY <1>1, FS_Interval
<1>4. \A i \in 1..k : f[i] = r[i]
  BY <1>1
<1>5. Total(f, 1..k) = Total(r, 1..k)
  BY <1>3, <1>4, TotalsAgree
<1>6. \A i \in 1..k : r[i] \in Nat
  BY <1>1
<1>7. Total(r, 1..k) \in Nat
  BY <1>3, <1>6, TotalIsNat
<1>8. /\ Total(s, 1..0) = 0
      /\ \A n \in 0..m : Total(s, 1..n) \in Nat
      /\ \A n \in 1..m : Total(s, 1..n) = Total(s, 1..(n - 1)) + s[n]
  <2>1. m \in Nat /\ \A i \in 1..m : s[i] \in Nat
    BY <1>1
  <2> QED
    BY <2>1, PrefixTotals
<1> DEFINE Joined(n) == Total(f, 1..(k + n)) = Total(r, 1..k) + Total(s, 1..n)
           Bad == {n \in 0..m : ~Joined(n)}
<1>9. 0 \notin Bad
  <2>1. k + 0 = k
    BY <1>1
  <2> QED
    BY <1>5, <1>7, <1>8, <2>1
<1>10. \A n \in 1..m : Joined(n - 1) => Joined(n)
  <2> SUFFICES ASSUME NEW n \in 1..m, Joined(n - 1) PROVE Joined(n)
    OBVIOUS
  <2>1. n - 1 \in 0..m /\ k + n \in 1..(k + m) /\ (k + n) - 1 = k + (n - 1)
    BY <1>1
  <2>2. Total(f, 1..(k + n)) = Total(f, 1..(k + (n - 1))) + f[k + n]
    <3>1. k + m \in Nat /\ \A i \in 1..(k + m) : f[i] \in Nat
      BY <1>1
    <3>2. Total(f, 1..(k + n)) = Total(f, 1..((k + n) - 1)) + f[k + n]
      BY <2>1, <3>1, PrefixTotals
    <3> QED
      BY <2>1, <3>2
  <2>3. f[k + n] = s[n] /\ s[n] \in Nat /\ Total(s, 1..(n - 1)) \in Nat
    BY <1>1, <1>8, <2>1
  <2> QED
    BY <1>7, <1>8, <2>2, <2>3
<1>11. Bad = {}
  <2> SUFFICES ASSUME Bad # {} PROVE FALSE
    OBVIOUS
  <2>1. Bad \in SUBSET Nat
    BY <1>1
  <2> HIDE DEF Joined
  <2>2. PICK n \in Bad : \A i \in Bad : n <= i
    <3> HIDE DEF Bad
    <3> QED
      BY <2>1, LeastNumber
  <2>3. n \in 1..m /\ n - 1 \in 0..m
    BY <1>1, <1>9, <2>2
  <2>4. n - 1 \notin Bad
    BY <2>1, <2>2, <2>3
  <2>5. ~Joined(n)
    BY <2>2
  <2>6. Joined(n - 1)
    BY <2>3, <2>4
  <2> HIDE DEF Bad
  <2>7. Joined(n)
    BY <1>10, <2>3, <2>6
  <2> QED
    BY <2>5, <2>7
<1>12. Joined(m)
  <2>1. m \in 0..m
    <3>1. m \in Nat
      BY <1>1
    <3> QED
      BY <3>1
  <2> HIDE DEF Joined
  <2> QED
    BY <1>11, <2>1
<1> QED
  BY <1>2, <1>12 DEF f

-----------------------------------------------------------------------------
(* Sequences of any kind *)

IsSeq(s) == \E S : s \in Seq(S)

LEMMA SeqIs ==
  ASSUME NEW s, IsSeq(s)
  PROVE  Len(s) \in Nat /\ DOMAIN s = 1..Len(s)
BY LenProperties DEF IsSeq

LEMMA NoElements == IsSeq(<<>>) /\ Len(<<>>) = 0 /\ DOMAIN <<>> = {}
<1>1. <<>> \in Seq({}) /\ Len(<<>>) = 0
  BY EmptySeq
<1> QED
  BY <1>1 DEF IsSeq

LEMMA OneElement ==
  ASSUME NEW e
  PROVE  IsSeq(<<e>>) /\ Len(<<e>>) = 1 /\ DOMAIN <<e>> = {1} /\ <<e>>[1] = e
<1> DEFINE s == <<e>>
<1>1. s \in Seq({e}) /\ Len(s) = 1 /\ DOMAIN s = {1} /\ s[1] = e
  OBVIOUS
<1> HIDE DEF s
<1>2. IsSeq(s)
  BY <1>1 DEF IsSeq
<1> QED
  BY <1>1, <1>2 DEF s

LEMMA ListIs ==
  ASSUME NEW n \in Nat, NEW s, DOMAIN s = 1..n, s = [i \in 1..n |-> s[i]]
  PROVE  IsSeq(s) /\ Len(s) = n
<1>1. s \in Seq({s[i] : i \in 1..n})
  OBVIOUS
<1>2. IsSeq(s)
  BY <1>1 DEF IsSeq
<1> QED
  BY <1>1, <1>2, LenProperties

LEMMA JoinedIs ==
  ASSUME NEW r, IsSeq(r), NEW s, IsSeq(s)
  PROVE  /\ IsSeq(r \o s) /\ Len(r \o s) = Len(r) + Len(s)
         /\ \A i \in 1..Len(r) : (r \o s)[i] = r[i]
         /\ \A i \in 1..Len(s) : (r \o s)[Len(r) + i] = s[i]
         /\ \A i \in 1..(Len(r) + Len(s)) :
              \/ i \in 1..Len(r) /\ (r \o s)[i] = r[i]
              \/ i - Len(r) \in 1..Len(s) /\ (r \o s)[i] = s[i - Len(r)]
<1>1. PICK S : r \in Seq(S)
  BY DEF IsSeq
<1>2. PICK T : s \in Seq(T)
  BY DEF IsSeq
<1>3. r \in Seq(S \cup T) /\ s \in Seq(S \cup T)
  BY <1>1, <1>2
<1> DEFINE t == r \o s
<1>4. /\ t \in Seq(S \cup T) /\ Len(t) = Len(r) + Len(s)
      /\ \A i \in 1..(Len(r) + Len(s)) :
           t[i] = IF i <= Len(r) THEN r[i] ELSE s[i - Len(r)]
  BY <1>3, ConcatProperties
<1>5. Len(r) \in Nat /\ Len(s) \in Nat
  BY <1>3
<1> HIDE DEF t
<1>6. IsSeq(t)
  BY <1>4 DEF IsSeq
<1>7. ASSUME NEW i \in 1..Len(r) PROVE t[i] = r[i]
  BY <1>4, <1>5
<1>8. ASSUME NEW i \in 1..Len(s) PROVE t[Len(r) + i] = s[i]
  <2>1. /\ Len(r) + i \in 1..(Len(r) + Len(s)) /\ ~(Len(r) + i <= Len(r))
        /\ (Len(r) + i) - Len(r) = i
    BY <1>5
  <2> QED
    BY <1>4, <2>1
<1>9. ASSUME NEW i \in 1..(Len(r) + Len(s))
      PROVE  \/ i \in 1..Len(r) /\ t[i] = r[i]
             \/ i - Len(r) \in 1..Len(s) /\ t[i] = s[i - Len(r)]
  BY <1>4, <1>5
<1> QED
  BY <1>4, <1>6, <1>7, <1>8, <1>9 DEF t

LEMMA TailIs ==
  ASSUME NEW s, IsSeq(s), s # <<>>
  PROVE  /\ Len(s) \in Nat \ {0} /\ Head(s) = s[1] /\ 1 \in DOMAIN s
         /\ IsSeq(Tail(s)) /\ Len(Tail(s)) = Len(s) - 1
         /\ \A i \in DOMAIN Tail(s) : i + 1 \in DOMAIN s /\ Tail(s)[i] = s[i + 1]
<1>1. PICK S : s \in Seq(S)
  BY DEF IsSeq
<1>2. Len(s) \in Nat \ {0} /\ Head(s) = s[1] /\ DOMAIN s = 1..Len(s)
  BY <1>1
<1>3. /\ Tail(s) \in Seq(S) /\ Len(Tail(s)) = Len(s) - 1
      /\ \A i \in 1..(Len(s) - 1) : Tail(s)[i] = s[i + 1]
  BY <1>1
<1>4. IsSeq(Tail(s)) /\ DOMAIN Tail(s) = 1..(Len(s) - 1)
  BY <1>3 DEF IsSeq
<1> QED
  BY <1>2, <1>3, <1>4

-----------------------------------------------------------------------------
(* The counts of a hunk *)

LEMMA CountIs ==
  ASSUME NEW h, IsSeq(h), NEW sign
  PROVE  Count(h, sign) \in Nat
<1>1. {l \in DOMAIN h : h[l].sign = sign} \in SUBSET (1..Len(h)) /\ Len(h) \in Nat
  BY SeqIs
<1>2. IsFiniteSet(1..Len(h))
  BY <1>1, FS_Interval
<1> QED
  BY <1>1, <1>2, FS_Subset, FS_CardinalityType DEF Count

LEMMA CountOfNothing == \A sign : Count(<<>>, sign) = 0
<1>1. \A sign : {l \in DOMAIN <<>> : <<>>[l].sign = sign} = {}
  BY NoElements
<1> QED
  BY <1>1, FS_EmptySet DEF Count

\* One line more.
LEMMA CountOfOneMore ==
  ASSUME NEW h, IsSeq(h), NEW l, NEW sign
  PROVE  /\ IsSeq(Append(h, l))
         /\ Count(Append(h, l), sign) = Count(h, sign) + (IF l.sign = sign THEN 1 ELSE 0)
<1> DEFINE t == Append(h, l)
           n == Len(h)
           A == {i \in DOMAIN h : h[i].sign = sign}
           B == {i \in DOMAIN t : t[i].sign = sign}
<1>1. PICK S : h \in Seq(S)
  BY DEF IsSeq
<1>2. h \in Seq(S \cup {l}) /\ l \in S \cup {l}
  BY <1>1
<1>3. /\ t \in Seq(S \cup {l}) /\ Len(t) = n + 1 /\ n \in Nat
      /\ DOMAIN h = 1..n /\ DOMAIN t = 1..(n + 1) /\ t[n + 1] = l
      /\ \A i \in 1..n : t[i] = h[i]
  BY <1>2, AppendProperties
<1> HIDE DEF t, n
<1>4. IsSeq(t)
  BY <1>3 DEF IsSeq
<1>5. IsFiniteSet(A)
  <2>1. A \in SUBSET (1..n) /\ IsFiniteSet(1..n)
    BY <1>3, FS_Interval
  <2> QED
    BY <2>1, FS_Subset
<1>6. n + 1 \notin A
  BY <1>3
<1>7. B = IF l.sign = sign THEN A \cup {n + 1} ELSE A
  <2>1. ASSUME NEW i \in B PROVE i \in A \/ (i = n + 1 /\ l.sign = sign)
    BY <1>3
  <2>2. ASSUME NEW i \in A PROVE i \in B
    BY <1>3
  <2>3. l.sign = sign => n + 1 \in B
    BY <1>3
  <2> QED
    BY <2>1, <2>2, <2>3
<1> HIDE DEF A, B
<1>8. Cardinality(B) = Cardinality(A) + (IF l.sign = sign THEN 1 ELSE 0)
  <2>1. Cardinality(A) \in Nat
    BY <1>5, FS_CardinalityType
  <2>2. CASE l.sign = sign
    BY <1>5, <1>6, <1>7, <2>1, <2>2, FS_AddElement
  <2>3. CASE l.sign # sign
    BY <1>7, <2>1, <2>3
  <2> QED
    BY <2>2, <2>3
<1> QED
  BY <1>4, <1>8 DEF A, B, t, Count

\* The hunk made up for an untracked file.
LEMMA CountOfPluses ==
  ASSUME NEW n \in Nat
  PROVE  /\ IsSeq([l \in 1..n |-> Plus])
         /\ Count([l \in 1..n |-> Plus], "+") = n
         /\ Count([l \in 1..n |-> Plus], "-") = 0
<1> DEFINE s == [l \in 1..n |-> Plus]
<1>1. DOMAIN s = 1..n /\ \A l \in 1..n : s[l].sign = "+"
  BY DEF Plus
<1>2. IsSeq(s)
  BY ListIs
<1> HIDE DEF s
<1>3. {l \in DOMAIN s : s[l].sign = "+"} = 1..n /\ {l \in DOMAIN s : s[l].sign = "-"} = {}
  BY <1>1
<1>4. Cardinality(1..n) = n
  BY FS_Interval
<1> QED
  BY <1>2, <1>3, <1>4, FS_EmptySet DEF Count, s

-----------------------------------------------------------------------------
(* The counts of the hunks that were read and of those that are sent *)

\* A hunk with its counts.
Tallied(h) ==
  /\ IsSeq(h.body)
  /\ h.added = Count(h.body, "+") /\ h.removed = Count(h.body, "-")

\* A file with such hunks.
FileTallied(f) ==
  /\ f = [path |-> f.path, change |-> f.change, hunks |-> f.hunks]
  /\ IsSeq(f.hunks) /\ \A i \in DOMAIN f.hunks : Tallied(f.hunks[i])

ParserTallied ==
  /\ IsSeq(hb) /\ \A i \in DOMAIN hb : Tallied(hb[i])
  /\ IsSeq(cur) /\ \A i \in DOMAIN cur : FileTallied(cur[i])
  /\ IsSeq(files) /\ \A i \in DOMAIN files : FileTallied(files[i])

\* The counts of a sequence of hunks, one by one.
Counts(hs, sign) == [i \in DOMAIN hs |-> Count(hs[i].body, sign)]

ResultTallied ==
  /\ res = [hunks |-> res.hunks, changed |-> res.changed, added |-> res.added,
            removed |-> res.removed, truncated |-> res.truncated]
  /\ IsSeq(res.hunks) /\ \A i \in DOMAIN res.hunks : IsSeq(res.hunks[i].body)
  /\ res.added = Sum(Counts(res.hunks, "+"))
  /\ res.removed = Sum(Counts(res.hunks, "-"))
  /\ \A i \in DOMAIN res.hunks : res.hunks[i].path \in res.changed

\* The untracked files still to be looked at have numbers of lines.
OthersCounted == IsSeq(others) /\ \A i \in DOMAIN others : others[i].lines \in Nat

\* TotalsAreOfHunks made inductive: the counts are right from the first line of a
\* hunk on.
TallyInv == ParserTallied /\ ResultTallied /\ OthersCounted

LEMMA CountsAre ==
  ASSUME NEW hs, IsSeq(hs), \A i \in DOMAIN hs : IsSeq(hs[i].body), NEW sign
  PROVE  Counts(hs, sign) \in Seq(Nat) /\ Len(Counts(hs, sign)) = Len(hs)
<1>1. Len(hs) \in Nat /\ DOMAIN hs = 1..Len(hs)
  BY SeqIs
<1>2. \A i \in 1..Len(hs) : Count(hs[i].body, sign) \in Nat
  BY <1>1, CountIs
<1> DEFINE s == [i \in 1..Len(hs) |-> Count(hs[i].body, sign)]
<1>3. s \in Seq(Nat) /\ Len(s) = Len(hs)
  BY <1>1, <1>2
<1> QED
  BY <1>1, <1>3 DEF Counts

LEMMA JoinedNumbers ==
  ASSUME NEW a \in Seq(Nat), NEW b \in Seq(Nat)
  PROVE  /\ \A i \in 1..(Len(a) + Len(b)) :
              (a \o b)[i] = IF i <= Len(a) THEN a[i] ELSE b[i - Len(a)]
         /\ a \o b = [i \in 1..(Len(a) + Len(b)) |-> (a \o b)[i]]
<1> DEFINE d == a \o b
<1>1. /\ d \in Seq(Nat) /\ Len(d) = Len(a) + Len(b)
      /\ \A i \in 1..(Len(a) + Len(b)) : d[i] = IF i <= Len(a) THEN a[i] ELSE b[i - Len(a)]
  BY ConcatProperties
<1> HIDE DEF d
<1>2. d = [i \in 1..(Len(a) + Len(b)) |-> d[i]]
  BY <1>1
<1> QED
  BY <1>1, <1>2 DEF d

\* Hunks that are added add their counts.
LEMMA CountsOfJoined ==
  ASSUME NEW gs, IsSeq(gs), \A i \in DOMAIN gs : IsSeq(gs[i].body),
         NEW hs, IsSeq(hs), \A i \in DOMAIN hs : IsSeq(hs[i].body), NEW sign
  PROVE  Sum(Counts(gs \o hs, sign)) = Sum(Counts(gs, sign)) + Sum(Counts(hs, sign))
<1> DEFINE js == gs \o hs
           a == Counts(gs, sign)
           b == Counts(hs, sign)
           c == Counts(js, sign)
<1>1. /\ a \in Seq(Nat) /\ Len(a) = Len(gs) /\ DOMAIN a = 1..Len(gs)
      /\ b \in Seq(Nat) /\ Len(b) = Len(hs) /\ DOMAIN b = 1..Len(hs)
      /\ Len(gs) \in Nat /\ Len(hs) \in Nat
  BY CountsAre, SeqIs DEF Counts
<1>2. /\ DOMAIN js = 1..(Len(gs) + Len(hs))
      /\ c = [i \in 1..(Len(gs) + Len(hs)) |-> Count(js[i].body, sign)]
  BY JoinedIs, SeqIs DEF Counts
<1>3. a \in Seq(Nat) /\ b \in Seq(Nat) /\ Len(a) = Len(gs) /\ Len(b) = Len(hs)
  BY <1>1
<1> HIDE DEF a, b
<1>4. /\ \A i \in 1..(Len(gs) + Len(hs)) :
           (a \o b)[i] = IF i <= Len(gs) THEN a[i] ELSE b[i - Len(gs)]
      /\ a \o b = [i \in 1..(Len(gs) + Len(hs)) |-> (a \o b)[i]]
  <2>1. a \in Seq(Nat) /\ b \in Seq(Nat)
    BY <1>3
  <2>2. /\ \A i \in 1..(Len(a) + Len(b)) :
             (a \o b)[i] = IF i <= Len(a) THEN a[i] ELSE b[i - Len(a)]
        /\ a \o b = [i \in 1..(Len(a) + Len(b)) |-> (a \o b)[i]]
    BY <2>1, JoinedNumbers
  <2>3. Len(a) = Len(gs) /\ Len(b) = Len(hs)
    BY <1>3
  <2> QED
    BY <2>2, <2>3
<1> USE DEF a, b
<1>5. DOMAIN gs = 1..Len(gs) /\ DOMAIN hs = 1..Len(hs)
  BY SeqIs
<1>6. ASSUME NEW i \in 1..(Len(gs) + Len(hs))
      PROVE  (a \o b)[i] = Count(js[i].body, sign)
  <2>1. CASE i \in 1..Len(gs)
    <3>1. js[i] = gs[i] /\ i <= Len(gs)
      BY <2>1, <1>1, JoinedIs
    <3>2. a[i] = Count(gs[i].body, sign)
      BY <2>1, <1>5 DEF Counts
    <3> QED
      BY <1>4, <3>1, <3>2
  <2>2. CASE i \notin 1..Len(gs)
    <3>1. ~(i <= Len(gs)) /\ i - Len(gs) \in 1..Len(hs) /\ js[i] = hs[i - Len(gs)]
      BY <2>2, <1>1, JoinedIs
    <3>2. b[i - Len(gs)] = Count(hs[i - Len(gs)].body, sign)
      BY <3>1, <1>5 DEF Counts
    <3> QED
      BY <1>4, <3>1, <3>2
  <2> QED
    BY <2>1, <2>2
<1> HIDE DEF a, b, c, js
<1>7. c = a \o b
  BY <1>2, <1>4, <1>6
<1>8. Sum(a \o b) = Sum(a) + Sum(b)
  BY <1>1, SumOfJoined
<1> QED
  BY <1>7, <1>8 DEF a, b, c, js

LEMMA SumOfNothing == Sum(<<>>) = 0
<1>1. Sum(<<>>) = Total(<<>>, DOMAIN <<>>)
  BY SumIsTotal
<1>2. \A F : Total(F, {}) = 0
  BY FS_EmptySet, TotalOfNothing
<1> QED
  BY <1>1, <1>2, NoElements

LEMMA SumOfNumbers ==
  ASSUME NEW s \in Seq(Nat)
  PROVE  Sum(s) \in Nat
<1>1. DOMAIN s = 1..Len(s) /\ Len(s) \in Nat /\ \A i \in DOMAIN s : s[i] \in Nat
  OBVIOUS
<1>2. IsFiniteSet(DOMAIN s)
  BY <1>1, FS_Interval
<1> QED
  BY <1>1, <1>2, SumIsTotal, TotalIsNat

LEMMA SumOfOne ==
  ASSUME NEW s, DOMAIN s = {1}, s[1] \in Nat
  PROVE  Sum(s) = s[1]
<1>1. 1 \in Nat /\ (\A i \in 1..1 : s[i] \in Nat) /\ 1..1 = {1}
  OBVIOUS
<1>2. Total(s, 1..0) = 0 /\ Total(s, 1..1) = Total(s, 1..(1 - 1)) + s[1]
  <2>1. /\ Total(s, 1..0) = 0
        /\ \A n \in 1..1 : Total(s, 1..n) = Total(s, 1..(n - 1)) + s[n]
    BY <1>1, PrefixTotals
  <2> QED
    BY <1>1, <2>1
<1>3. Sum(s) = Total(s, 1..1)
  BY <1>1, SumIsTotal
<1> QED
  BY <1>1, <1>2, <1>3

LEMMA AppendIsJoined ==
  ASSUME NEW r, IsSeq(r), NEW e
  PROVE  Append(r, e) = r \o <<e>>
<1>1. PICK S : r \in Seq(S)
  BY DEF IsSeq
<1>2. r \in Seq(S \cup {e}) /\ e \in S \cup {e}
  BY <1>1
<1> QED
  BY <1>2, AppendIsConcat

\* Hunks joined to hunks with right counts.
LEMMA TalliedJoined ==
  ASSUME NEW r, IsSeq(r), \A i \in DOMAIN r : Tallied(r[i]),
         NEW s, IsSeq(s), \A i \in DOMAIN s : Tallied(s[i])
  PROVE  IsSeq(r \o s) /\ \A i \in DOMAIN (r \o s) : Tallied((r \o s)[i])
<1>1. /\ DOMAIN r = 1..Len(r) /\ DOMAIN s = 1..Len(s)
      /\ IsSeq(r \o s) /\ DOMAIN (r \o s) = 1..(Len(r) + Len(s))
  BY JoinedIs, SeqIs
<1>2. \A i \in 1..(Len(r) + Len(s)) :
        \/ i \in 1..Len(r) /\ (r \o s)[i] = r[i]
        \/ i - Len(r) \in 1..Len(s) /\ (r \o s)[i] = s[i - Len(r)]
  BY JoinedIs
<1> DEFINE t == r \o s
<1> HIDE DEF t
<1>3. \A i \in DOMAIN t : Tallied(t[i])
  BY <1>1, <1>2 DEF t
<1> QED
  BY <1>1, <1>3 DEF t

\* The same of files.
LEMMA FilesJoined ==
  ASSUME NEW r, IsSeq(r), \A i \in DOMAIN r : FileTallied(r[i]),
         NEW s, IsSeq(s), \A i \in DOMAIN s : FileTallied(s[i])
  PROVE  IsSeq(r \o s) /\ \A i \in DOMAIN (r \o s) : FileTallied((r \o s)[i])
<1>1. /\ DOMAIN r = 1..Len(r) /\ DOMAIN s = 1..Len(s)
      /\ IsSeq(r \o s) /\ DOMAIN (r \o s) = 1..(Len(r) + Len(s))
  BY JoinedIs, SeqIs
<1>2. \A i \in 1..(Len(r) + Len(s)) :
        \/ i \in 1..Len(r) /\ (r \o s)[i] = r[i]
        \/ i - Len(r) \in 1..Len(s) /\ (r \o s)[i] = s[i - Len(r)]
  BY JoinedIs
<1> DEFINE t == r \o s
<1> HIDE DEF t
<1>3. \A i \in DOMAIN t : FileTallied(t[i])
  BY <1>1, <1>2 DEF t
<1> QED
  BY <1>1, <1>3 DEF t

LEMMA Flushed ==
  ASSUME ParserTallied
  PROVE  IsSeq(WithHunk) /\ \A i \in DOMAIN WithHunk : FileTallied(WithHunk[i])
<1>1. DOMAIN cur = 1..Len(cur) /\ Len(cur) \in Nat
  BY SeqIs DEF ParserTallied
<1>2. ASSUME NEW i \in DOMAIN cur
      PROVE  FileTallied([cur[i] EXCEPT !.hunks = @ \o hb])
  <2> DEFINE hs == cur[i].hunks \o hb
  <2>1. FileTallied(cur[i])
    BY DEF ParserTallied
  <2>2. IsSeq(hs) /\ \A j \in DOMAIN hs : Tallied(hs[j])
    BY <2>1, TalliedJoined DEF ParserTallied, FileTallied
  <2> HIDE DEF hs
  <2>3. [cur[i] EXCEPT !.hunks = hs]
          = [path |-> cur[i].path, change |-> cur[i].change, hunks |-> hs]
    BY <2>1 DEF FileTallied
  <2>4. FileTallied([cur[i] EXCEPT !.hunks = hs])
    BY <2>2, <2>3 DEF FileTallied
  <2> QED
    BY <2>4 DEF hs
<1> DEFINE s == [i \in DOMAIN cur |-> [cur[i] EXCEPT !.hunks = @ \o hb]]
<1>3. DOMAIN s = 1..Len(cur) /\ s = [i \in 1..Len(cur) |-> s[i]]
  BY <1>1
<1>4. \A i \in DOMAIN s : FileTallied(s[i])
  BY <1>2
<1> HIDE DEF s
<1>5. IsSeq(s)
  BY <1>1, <1>3, ListIs
<1> QED
  BY <1>4, <1>5 DEF s, WithHunk

LEMMA TallyInit == ParseInit => TallyInv
<1> SUFFICES ASSUME ParseInit PROVE TallyInv
  OBVIOUS
<1>1. ParserTallied
  BY NoElements DEF ParseInit, ParserTallied
<1>2. OthersCounted
  <2>1. others \in Seq(Untracked)
    <3>1. tree \in Trees /\ others = tree.untracked
      BY DEF ParseInit
    <3> QED
      BY <3>1, TreesAssumption
  <2>2. \A i \in DOMAIN others : others[i].lines \in Nat
    <3>1. \A u \in Untracked : u.lines \in Nat
      BY DEF Untracked
    <3>2. \A i \in DOMAIN others : others[i] \in Untracked
      BY <2>1
    <3> QED
      BY <3>1, <3>2
  <2> QED
    BY <2>1, <2>2 DEF OthersCounted, IsSeq
<1>3. ResultTallied
  <2>1. /\ res = [hunks |-> <<>>, changed |-> {}, added |-> 0, removed |-> 0,
                  truncated |-> FALSE]
    BY DEF ParseInit, NoResult
  <2>2. res.hunks = <<>> /\ res.changed = {} /\ res.added = 0 /\ res.removed = 0
    BY <2>1
  <2>3. \A sign : Counts(<<>>, sign) = <<>>
    BY NoElements DEF Counts
  <2>4. \A sign : Sum(Counts(res.hunks, sign)) = 0
    BY <2>2, <2>3, SumOfNothing
  <2>5. IsSeq(res.hunks) /\ DOMAIN res.hunks = {}
    BY <2>2, NoElements
  <2> QED
    BY <2>1, <2>2, <2>4, <2>5 DEF ResultTallied
<1> QED
  BY <1>1, <1>2, <1>3 DEF TallyInv

\* The steps that read a line.
LEMMA HunksAreCounted ==
  ASSUME ParserTallied,
         \/ FileHeader \/ NewFile \/ DeletedFile \/ Rename \/ PlusHeader \/ Ignored
         \/ HunkHeader \/ Content \/ ParseEnds
  PROVE  ParserTallied' /\ UNCHANGED <<res, others>>
<1> USE DEF ParserTallied, Case
<1>1. ASSUME IsSeq(files'), \A i \in DOMAIN files' : FileTallied(files'[i]),
             IsSeq(cur'), \A i \in DOMAIN cur' : FileTallied(cur'[i]),
             IsSeq(hb'), \A i \in DOMAIN hb' : Tallied(hb'[i])
      PROVE  ParserTallied'
  BY <1>1 DEF FileTallied, Tallied, IsSeq, Count
<1>2. ASSUME FlushFile PROVE IsSeq(files') /\ \A i \in DOMAIN files' : FileTallied(files'[i])
  BY <1>2, Flushed, FilesJoined DEF FlushFile
<1>3. cur # <<>> => FileTallied(cur[1])
  BY TailIs
<1>4. ASSUME NEW f, FileTallied(f), cur' = <<f>>
      PROVE  IsSeq(cur') /\ \A i \in DOMAIN cur' : FileTallied(cur'[i])
  BY <1>4, OneElement
<1>5. ASSUME NEW h, Tallied(h), hb' = <<h>>
      PROVE  IsSeq(hb') /\ \A i \in DOMAIN hb' : Tallied(hb'[i])
  BY <1>5, OneElement
<1>6. Tallied(NoHunk)
  BY NoElements, CountOfNothing DEF NoHunk, Tallied
<1>7. CASE FileHeader
  <2> DEFINE f == [path |-> Head(lines).path, change |-> "modified", hunks |-> <<>>]
  <2>1. FileTallied(f)
    BY NoElements DEF FileTallied
  <2>2. FlushFile /\ cur' = <<f>> /\ hb' = <<>> /\ UNCHANGED <<res, others>>
    BY <1>7 DEF FileHeader
  <2> HIDE DEF f
  <2> QED
    BY <1>1, <1>2, <1>4, <2>1, <2>2, NoElements
<1>8. ASSUME NEW kind, NEW change, SetChange(kind, change)
      PROVE  ParserTallied' /\ UNCHANGED <<res, others>>
  <2> DEFINE f == [cur[1] EXCEPT !.change = change]
  <2>1. cur' = <<f>> /\ cur # <<>> /\ UNCHANGED <<hb, files, res, others>>
    BY <1>8 DEF SetChange
  <2>2. FileTallied(f)
    BY <1>3, <2>1 DEF FileTallied
  <2> HIDE DEF f
  <2>3. IsSeq(cur') /\ \A i \in DOMAIN cur' : FileTallied(cur'[i])
    BY <1>4, <2>1, <2>2
  <2> QED
    BY <1>1, <2>1, <2>3
<1>9. CASE PlusHeader
  <2> DEFINE p == Head(lines).path
             f == [cur[1] EXCEPT !.path = IF p = "/dev/null" THEN @ ELSE p]
  <2>1. cur' = <<f>> /\ cur # <<>> /\ UNCHANGED <<hb, files, res, others>>
    BY <1>9 DEF PlusHeader
  <2>2. FileTallied(f)
    BY <1>3, <2>1 DEF FileTallied
  <2> HIDE DEF f
  <2>3. IsSeq(cur') /\ \A i \in DOMAIN cur' : FileTallied(cur'[i])
    BY <1>4, <2>1, <2>2
  <2> QED
    BY <1>1, <2>1, <2>3
<1>10. CASE Ignored
  BY <1>1, <1>10 DEF Ignored
<1>11. CASE HunkHeader
  <2>1. cur' = WithHunk /\ hb' = <<NoHunk>> /\ UNCHANGED <<files, res, others>>
    BY <1>11 DEF HunkHeader
  <2>2. IsSeq(cur') /\ \A i \in DOMAIN cur' : FileTallied(cur'[i])
    BY <2>1, Flushed
  <2>3. IsSeq(hb') /\ \A i \in DOMAIN hb' : Tallied(hb'[i])
    BY <1>5, <1>6, <2>1
  <2> QED
    BY <1>1, <2>1, <2>2, <2>3
<1>12. CASE Content
  <2> DEFINE l == Head(lines).body
             h == [body    |-> Append(hb[1].body, l),
                   added   |-> hb[1].added + (IF l.sign = "+" THEN 1 ELSE 0),
                   removed |-> hb[1].removed + (IF l.sign = "-" THEN 1 ELSE 0)]
  <2>1. hb # <<>> /\ hb' = <<h>> /\ UNCHANGED <<cur, files, res, others>>
    BY <1>12 DEF Content
  <2>2. Tallied(hb[1])
    BY <2>1, TailIs
  <2>3. Tallied(h)
    <3>1. h.body = Append(hb[1].body, l) /\ h.added = hb[1].added + (IF l.sign = "+" THEN 1 ELSE 0)
          /\ h.removed = hb[1].removed + (IF l.sign = "-" THEN 1 ELSE 0)
      OBVIOUS
    <3> HIDE DEF h, l
    <3>2. IsSeq(Append(hb[1].body, l))
          /\ \A sign : Count(Append(hb[1].body, l), sign)
                        = Count(hb[1].body, sign) + (IF l.sign = sign THEN 1 ELSE 0)
      BY <2>2, CountOfOneMore DEF Tallied
    <3> QED
      BY <2>2, <3>1, <3>2 DEF Tallied
  <2> HIDE DEF h
  <2>4. IsSeq(hb') /\ \A i \in DOMAIN hb' : Tallied(hb'[i])
    BY <1>5, <2>1, <2>3
  <2> QED
    BY <1>1, <2>1, <2>4
<1>13. CASE ParseEnds
  <2>1. FlushFile /\ cur' = <<>> /\ hb' = <<>> /\ UNCHANGED <<res, others>>
    BY <1>13 DEF ParseEnds
  <2> QED
    BY <1>1, <1>2, <2>1, NoElements
<1> QED
  BY <1>7, <1>8, <1>9, <1>10, <1>11, <1>12, <1>13 DEF NewFile, DeletedFile, Rename

\* What is added to the result: hunks hs of one path, of so many lines.
LEMMA ResultGrows ==
  ASSUME ResultTallied, NEW hs, IsSeq(hs), \A i \in DOMAIN hs : IsSeq(hs[i].body),
         NEW p, \A i \in DOMAIN hs : hs[i].path = p, NEW cut,
         NEW added, added = Sum(Counts(hs, "+")), NEW removed, removed = Sum(Counts(hs, "-")),
         res' = [hunks   |-> res.hunks \o hs,   changed |-> res.changed \cup {p},
                 added   |-> res.added + added, removed |-> res.removed + removed,
                 truncated |-> cut]
  PROVE  ResultTallied'
<1> DEFINE gs == res.hunks
           js == res.hunks \o hs
           now == res.changed \cup {p}
           a == res.added + added
           r == res.removed + removed
<1>1. /\ IsSeq(gs) /\ \A i \in DOMAIN gs : IsSeq(gs[i].body) /\ gs[i].path \in res.changed
  BY DEF ResultTallied
<1>2. /\ DOMAIN gs = 1..Len(gs) /\ DOMAIN hs = 1..Len(hs)
      /\ IsSeq(js) /\ DOMAIN js = 1..(Len(gs) + Len(hs))
      /\ \A i \in 1..(Len(gs) + Len(hs)) :
           \/ i \in 1..Len(gs) /\ js[i] = gs[i]
           \/ i - Len(gs) \in 1..Len(hs) /\ js[i] = hs[i - Len(gs)]
  <2>1. DOMAIN gs = 1..Len(gs) /\ DOMAIN hs = 1..Len(hs)
    BY <1>1, SeqIs
  <2>2. /\ IsSeq(js) /\ Len(js) = Len(gs) + Len(hs)
        /\ \A i \in 1..(Len(gs) + Len(hs)) :
             \/ i \in 1..Len(gs) /\ js[i] = gs[i]
             \/ i - Len(gs) \in 1..Len(hs) /\ js[i] = hs[i - Len(gs)]
    BY <1>1, JoinedIs
  <2> HIDE DEF js, gs
  <2>3. DOMAIN js = 1..(Len(gs) + Len(hs))
    BY <2>2, SeqIs
  <2> QED
    BY <2>1, <2>2, <2>3
<1>3. \A sign : Sum(Counts(js, sign)) = Sum(Counts(gs, sign)) + Sum(Counts(hs, sign))
  BY <1>1, CountsOfJoined
<1>4. res.added = Sum(Counts(gs, "+")) /\ res.removed = Sum(Counts(gs, "-"))
  BY DEF ResultTallied
<1> HIDE DEF js, gs
<1>5. \A i \in DOMAIN js : IsSeq(js[i].body) /\ js[i].path \in now
  BY <1>1, <1>2
<1>6. a = Sum(Counts(js, "+")) /\ r = Sum(Counts(js, "-"))
  BY <1>3, <1>4
<1> HIDE DEF now, a, r
<1>7. /\ res'.hunks = js /\ res'.changed = now /\ res'.added = a /\ res'.removed = r
      /\ res' = [hunks |-> res'.hunks, changed |-> res'.changed, added |-> res'.added,
                  removed |-> res'.removed, truncated |-> res'.truncated]
  BY DEF js, now, a, r
<1>8. res'.added = Sum(Counts(js, "+")) /\ res'.removed = Sum(Counts(js, "-"))
  BY <1>7, <1>6
<1>9. /\ IsSeq(res'.hunks)
      /\ \A i \in DOMAIN res'.hunks :
           IsSeq(res'.hunks[i].body) /\ res'.hunks[i].path \in res'.changed
  BY <1>2, <1>5, <1>7
<1>10. res'.added = Sum(Counts(res'.hunks, "+")) /\ res'.removed = Sum(Counts(res'.hunks, "-"))
  BY <1>7, <1>8
<1> QED
  BY <1>7, <1>9, <1>10 DEF ResultTallied

\* The hunks of a file that was read.
LEMMA FileIsCounted ==
  ASSUME TallyInv, CollectFile
  PROVE  ParserTallied' /\ ResultTallied'
<1> DEFINE f == Head(files)
           hs == [h \in DOMAIN f.hunks |-> NamedHunk(f.path, f.change, f.hunks[h].body)]
<1>1. /\ FileTallied(f) /\ IsSeq(Tail(files))
      /\ \A i \in DOMAIN Tail(files) : FileTallied(Tail(files)[i])
  BY TailIs DEF CollectFile, TallyInv, ParserTallied
<1>2. ParserTallied'
  <2>1. files' = Tail(files) /\ hb' = hb /\ cur' = cur
    BY DEF CollectFile
  <2>2. IsSeq(files') /\ \A i \in DOMAIN files' : FileTallied(files'[i])
    BY <1>1, <2>1
  <2>3. /\ IsSeq(hb') /\ \A i \in DOMAIN hb' : Tallied(hb'[i])
        /\ IsSeq(cur') /\ \A i \in DOMAIN cur' : FileTallied(cur'[i])
    BY <2>1 DEF TallyInv, ParserTallied
  <2> QED
    BY <2>2, <2>3 DEF ParserTallied, FileTallied, Tallied, IsSeq, Count
<1>3. CASE f.path \in Denied
  <2>1. res' = res
    BY <1>3 DEF CollectFile
  <2> QED
    BY <1>2, <2>1 DEF TallyInv, ResultTallied
<1>4. CASE f.path \notin Denied
  <2>1. DOMAIN f.hunks = 1..Len(f.hunks) /\ Len(f.hunks) \in Nat
    BY <1>1, SeqIs DEF FileTallied
  <2>2. /\ DOMAIN hs = DOMAIN f.hunks
        /\ \A h \in DOMAIN f.hunks : hs[h].path = f.path /\ hs[h].body = f.hunks[h].body
    BY DEF NamedHunk
  <2>3. \A h \in DOMAIN f.hunks : Tallied(f.hunks[h])
    BY <1>1 DEF FileTallied
  <2>4. IsSeq(hs)
    <3>1. DOMAIN hs = 1..Len(f.hunks) /\ hs = [h \in 1..Len(f.hunks) |-> hs[h]]
      BY <2>1
    <3> HIDE DEF hs
    <3> QED
      BY <2>1, <3>1, ListIs
  <2> DEFINE added == Sum([h \in DOMAIN f.hunks |-> f.hunks[h].added])
             removed == Sum([h \in DOMAIN f.hunks |-> f.hunks[h].removed])
  <2>5. res' = [res EXCEPT !.hunks   = res.hunks \o hs,
                           !.changed = res.changed \cup {f.path},
                           !.added   = res.added + added,
                           !.removed = res.removed + removed]
    BY <1>4 DEF CollectFile
  <2>6. added = Sum(Counts(hs, "+")) /\ removed = Sum(Counts(hs, "-"))
    <3> HIDE DEF hs, f
    <3>1. /\ Counts(hs, "+") = [h \in DOMAIN f.hunks |-> f.hunks[h].added]
          /\ Counts(hs, "-") = [h \in DOMAIN f.hunks |-> f.hunks[h].removed]
      BY <2>2, <2>3 DEF Counts, Tallied
    <3> QED
      BY <3>1
  <2>7. (\A i \in DOMAIN hs : IsSeq(hs[i].body)) /\ (\A i \in DOMAIN hs : hs[i].path = f.path)
    <3> HIDE DEF hs, f
    <3> QED
      BY <2>2, <2>3 DEF Tallied
  <2>8. ResultTallied
    BY DEF TallyInv
  <2> HIDE DEF hs, f, added, removed
  <2>9. res' = [hunks |-> res.hunks \o hs, changed |-> res.changed \cup {f.path},
                added |-> res.added + added, removed |-> res.removed + removed,
                truncated |-> res.truncated]
    BY <2>5, <2>8 DEF ResultTallied
  <2>10. ResultTallied'
    BY <2>4, <2>6, <2>7, <2>8, <2>9, ResultGrows
  <2> QED
    BY <1>2, <2>10
<1> QED
  BY <1>3, <1>4, <1>2

\* The hunk made up for an untracked file.
LEMMA UntrackedIsCounted ==
  ASSUME TallyInv, CollectUntracked
  PROVE  OthersCounted' /\ ResultTallied'
<1> DEFINE u == Head(others)
           cut == TooLong(Split(u.lines))
           n == Cut(Split(u.lines))
           body == [l \in 1..n |-> Plus]
           e == UntrackedHunk(u)
<1>1. /\ u.lines \in Nat /\ IsSeq(Tail(others))
      /\ \A i \in DOMAIN Tail(others) : Tail(others)[i].lines \in Nat
  BY TailIs DEF CollectUntracked, TallyInv, OthersCounted
<1>2. OthersCounted'
  <2>1. others' = Tail(others)
    BY DEF CollectUntracked
  <2> QED
    BY <1>1, <2>1 DEF OthersCounted
<1>3. n \in Nat
  BY <1>1, MaxUntrackedLinesAssumption DEF Split, Cut, TooLong
<1>4. CASE Printed(u.path) \in Denied \/ ~Rendered(u)
  <2>1. res' = res
    BY <1>4 DEF CollectUntracked
  <2> QED
    BY <1>2, <2>1 DEF TallyInv, ResultTallied
<1>5. CASE ~(Printed(u.path) \in Denied \/ ~Rendered(u))
  <2>1. res' = [res EXCEPT !.hunks     = Append(res.hunks, e),
                           !.changed   = res.changed \cup {u.path},
                           !.added     = res.added + n,
                           !.truncated = res.truncated \/ cut]
    BY <1>5 DEF CollectUntracked
  <2>2. ResultTallied
    BY DEF TallyInv
  <2>3. IsSeq(body) /\ Count(body, "+") = n /\ Count(body, "-") = 0
    <3> HIDE DEF n
    <3> QED
      BY <1>3, CountOfPluses
  <2>4. e.path = u.path /\ e.body = body
    BY DEF UntrackedHunk, NamedHunk
  <2> DEFINE hs == <<e>>
             truncated == res.truncated \/ cut
  <2> HIDE DEF e, body, n, cut, u
  <2>5. IsSeq(hs) /\ DOMAIN hs = {1} /\ hs[1] = e
    BY OneElement
  <2>6. Append(res.hunks, e) = res.hunks \o hs
    BY <2>2, AppendIsJoined DEF ResultTallied
  <2> HIDE DEF hs
  <2>7. n = Sum(Counts(hs, "+")) /\ 0 = Sum(Counts(hs, "-"))
    <3>1. DOMAIN Counts(hs, "+") = {1} /\ Counts(hs, "+")[1] = n
      BY <2>3, <2>4, <2>5 DEF Counts
    <3>2. DOMAIN Counts(hs, "-") = {1} /\ Counts(hs, "-")[1] = 0
      BY <2>3, <2>4, <2>5 DEF Counts
    <3> QED
      BY <1>3, <3>1, <3>2, SumOfOne
  <2>8. res.removed \in Nat
    <3>1. Counts(res.hunks, "-") \in Seq(Nat)
      BY <2>2, CountsAre DEF ResultTallied
    <3> QED
      BY <2>2, <3>1, SumOfNumbers DEF ResultTallied
  <2> DEFINE js == res.hunks \o hs
             now == res.changed \cup {u.path}
  <2> HIDE DEF js, now, truncated
  <2>9. res' = [hunks |-> js, changed |-> now,
                added |-> res.added + n, removed |-> res.removed + 0, truncated |-> truncated]
    <3>1. res' = [res EXCEPT !.hunks = js, !.changed = now, !.added = res.added + n,
                             !.truncated = truncated]
      BY <2>1, <2>6 DEF js, now, truncated
    <3>2. res.removed + 0 = res.removed
      BY <2>8
    <3> QED
      BY <3>1, <3>2, <2>2 DEF ResultTallied
  <2>10. (\A i \in DOMAIN hs : IsSeq(hs[i].body)) /\ (\A i \in DOMAIN hs : hs[i].path = u.path)
    BY <2>3, <2>4, <2>5
  <2>11. ResultTallied'
    <3>1. res' = [hunks |-> res.hunks \o hs, changed |-> res.changed \cup {u.path},
                  added |-> res.added + n, removed |-> res.removed + 0, truncated |-> truncated]
      BY <2>9 DEF js, now
    <3> QED
      BY <2>2, <2>5, <2>7, <2>10, <3>1, ResultGrows
  <2> QED
    BY <1>2, <2>11
<1> QED
  BY <1>4, <1>5

LEMMA TallyStep == TallyInv /\ [ParseNext]_parseVars => TallyInv'
<1> SUFFICES ASSUME TallyInv, [ParseNext]_parseVars PROVE TallyInv'
  OBVIOUS
<1> USE DEF TallyInv
<1>1. ASSUME UNCHANGED <<res, others>> PROVE ResultTallied' /\ OthersCounted'
  <2>1. res' = res /\ others' = others
    BY <1>1
  <2>2. ResultTallied'
    BY <2>1 DEF ResultTallied
  <2>3. OthersCounted'
    BY <2>1 DEF OthersCounted
  <2> QED
    BY <2>2, <2>3
<1>2. ASSUME UNCHANGED <<cur, hb, files>> PROVE ParserTallied'
  <2>1. cur' = cur /\ hb' = hb /\ files' = files
    BY <1>2
  <2>2. /\ IsSeq(hb') /\ \A i \in DOMAIN hb' : Tallied(hb'[i])
        /\ IsSeq(cur') /\ \A i \in DOMAIN cur' : FileTallied(cur'[i])
        /\ IsSeq(files') /\ \A i \in DOMAIN files' : FileTallied(files'[i])
    BY <2>1 DEF ParserTallied
  <2> QED
    BY <2>2 DEF ParserTallied, FileTallied, Tallied, IsSeq, Count
<1>3. CASE \/ FileHeader \/ NewFile \/ DeletedFile \/ Rename \/ PlusHeader \/ Ignored
           \/ HunkHeader \/ Content \/ ParseEnds
  BY <1>1, <1>3, HunksAreCounted
<1>4. CASE CollectFile
  <2>1. OthersCounted'
    BY <1>4 DEF CollectFile, OthersCounted
  <2> QED
    BY <1>4, <2>1, FileIsCounted
<1>5. CASE CollectUntracked
  <2>1. UNCHANGED <<cur, hb, files>>
    BY <1>5 DEF CollectUntracked, parser
  <2> QED
    BY <1>2, <1>5, <2>1, UntrackedIsCounted
<1>6. CASE Return
  BY <1>1, <1>2, <1>6 DEF Return, parser
<1>7. CASE Done \/ UNCHANGED parseVars
  BY <1>1, <1>2, <1>7 DEF Done, parseVars, parser
<1> QED
  BY <1>3, <1>4, <1>5, <1>6, <1>7 DEF ParseNext

\* TotalsAreOfHunks (DiffParse): WorkingTreeDiff's counts are those of the hunks
\* that it returns, for every tree, deny list and limit on untracked files.
THEOREM TotalsAgreeWithHunks == ParseSpec => []TotalsAreOfHunks
<1>1. TallyInv => TotalsAreOfHunks
  BY DEF TallyInv, ResultTallied, TotalsAreOfHunks, Counts
<1> QED
  BY <1>1, TallyInit, TallyStep, PTL DEF ParseSpec

-----------------------------------------------------------------------------
(* Where the elements of joined sequences come to stand *)

\* What holds of 0, and of m + 1 if it does of m, holds up to n.
LEMMA CountingUp ==
  ASSUME NEW n \in Nat, NEW T, 0 \in T, \A m \in 0..(n - 1) : m \in T => m + 1 \in T
  PROVE  \A m \in 0..n : m \in T
<1> DEFINE Bad == {m \in 0..n : m \notin T}
<1> SUFFICES ASSUME Bad # {} PROVE FALSE
  OBVIOUS
<1>1. Bad \in SUBSET Nat
  OBVIOUS
<1> HIDE DEF Bad
<1>2. PICK m \in Bad : \A j \in Bad : m <= j
  BY <1>1, LeastNumber
<1>3. m \in 0..n /\ m \notin T
  BY <1>2 DEF Bad
<1>4. m # 0 /\ m - 1 \in 0..(n - 1) /\ (m - 1) + 1 = m
  BY <1>3
<1>5. m - 1 \notin Bad
  BY <1>2, <1>3, <1>4
<1> QED
  BY <1>3, <1>4, <1>5 DEF Bad

\* Sequence t is r and then s.
Joined(t, r, s) ==
  /\ IsSeq(t) /\ Len(t) = Len(r) + Len(s)
  /\ \A i \in 1..Len(r) : t[i] = r[i]
  /\ \A i \in 1..Len(s) : t[Len(r) + i] = s[i]

LEMMA JoinIs ==
  ASSUME NEW r, IsSeq(r), NEW s, IsSeq(s)
  PROVE  Joined(r \o s, r, s)
BY JoinedIs DEF Joined

\* The length of the first i sequences of s together.
Off(s, i) == Total([j \in DOMAIN s |-> Len(s[j])], 1..i)

LEMMA OffIs ==
  ASSUME NEW s, IsSeq(s), \A j \in DOMAIN s : IsSeq(s[j])
  PROVE  /\ Off(s, 0) = 0
         /\ \A i \in 0..Len(s) : Off(s, i) \in Nat
         /\ \A i \in 1..Len(s) : Off(s, i) = Off(s, i - 1) + Len(s[i])
         /\ \A i, j \in 0..Len(s) : i <= j => Off(s, i) <= Off(s, j)
<1> DEFINE F == [j \in DOMAIN s |-> Len(s[j])]
           n == Len(s)
<1>1. n \in Nat /\ DOMAIN s = 1..n
  BY SeqIs
<1>2. \A i \in 1..n : F[i] = Len(s[i]) /\ F[i] \in Nat
  BY <1>1, SeqIs
<1> HIDE DEF F
<1>3. /\ Off(s, 0) = 0
      /\ \A i \in 0..n : Off(s, i) \in Nat
      /\ \A i \in 1..n : Off(s, i) = Off(s, i - 1) + Len(s[i])
  <2>1. \A i : Off(s, i) = Total(F, 1..i)
    BY DEF Off, F
  <2>2. /\ Total(F, 1..0) = 0
        /\ \A i \in 0..n : Total(F, 1..i) \in Nat
        /\ \A i \in 1..n : Total(F, 1..i) = Total(F, 1..(i - 1)) + F[i]
    BY <1>1, <1>2, PrefixTotals
  <2> QED
    BY <1>2, <2>1, <2>2
<1> HIDE DEF n
<1>4. ASSUME NEW i \in 0..n PROVE \A j \in 0..n : i <= j => Off(s, i) <= Off(s, j)
  <2> DEFINE T == {m \in 0..n : i <= m => Off(s, i) <= Off(s, m)}
  <2>1. 0 \in T
    BY <1>1, <1>3
  <2>2. ASSUME NEW m \in 0..(n - 1), m \in T PROVE m + 1 \in T
    <3>1. m + 1 \in 1..n /\ m + 1 \in 0..n /\ (m + 1) - 1 = m /\ m \in 0..n
      BY <1>1
    <3>2. Off(s, m + 1) = Off(s, m) + Len(s[m + 1])
      BY <1>3, <3>1
    <3>3. Len(s[m + 1]) \in Nat /\ Off(s, m) \in Nat /\ Off(s, i) \in Nat
      BY <1>2, <1>3, <3>1
    <3>4. i <= m => Off(s, i) <= Off(s, m)
      BY <2>2
    <3>5. i <= m + 1 => i <= m \/ i = m + 1
      BY <3>1
    <3> QED
      BY <3>1, <3>2, <3>3, <3>4, <3>5
  <2>3. \A m \in 0..n : m \in T
    <3> HIDE DEF T
    <3> QED
      BY <1>1, <2>1, <2>2, CountingUp
  <2> QED
    BY <2>3
<1> QED
  BY <1>3, <1>4 DEF n

\* FlattenSeq's recursion has a solution.
LEMMA JoinsExist ==
  ASSUME NEW n \in Nat, NEW s
  PROVE  \E f : f = [i \in 1..n |-> IF i = 1 THEN s[i] ELSE f[i - 1] \o s[i]]
<1> DEFINE E(f, i) == IF i = 1 THEN s[i] ELSE f[i - 1] \o s[i]
           Upto(f, m) == f = [i \in 1..n |-> f[i]] /\ \A i \in 1..m : f[i] = E(f, i)
           T == {m \in 0..n : \E f : Upto(f, m)}
<1>1. 0 \in T
  <2> DEFINE g == [i \in 1..n |-> s[i]]
  <2>1. g = [i \in 1..n |-> g[i]] /\ \A i \in 1..0 : g[i] = E(g, i)
    OBVIOUS
  <2> HIDE DEF g, E
  <2> QED
    BY <2>1
<1>2. ASSUME NEW m \in 0..(n - 1), m \in T PROVE m + 1 \in T
  <2>1. PICK f : Upto(f, m)
    BY <1>2
  <2> DEFINE g == [i \in 1..n |-> E(f, i)]
  <2>2. ASSUME NEW i \in 1..(m + 1) PROVE g[i] = E(g, i)
    <3>1. CASE i = 1
      BY <3>1
    <3>2. CASE i # 1
      <4>1. i - 1 \in 1..m /\ i \in 1..n /\ i - 1 \in 1..n
        BY <3>2
      <4>2. g[i - 1] = f[i - 1]
        BY <2>1, <4>1
      <4> QED
        BY <3>2, <4>1, <4>2
    <3> QED
      BY <3>1, <3>2
  <2>3. g = [i \in 1..n |-> g[i]]
    OBVIOUS
  <2>4. m + 1 \in 0..n
    OBVIOUS
  <2>5. Upto(g, m + 1)
    BY <2>2, <2>3
  <2> QED
    BY <2>4, <2>5
<1>3. \A m \in 0..n : m \in T
  <2> HIDE DEF T
  <2> QED
    BY <1>1, <1>2, CountingUp
<1>4. PICK f : Upto(f, n)
  BY <1>3
<1>5. f = [i \in 1..n |-> E(f, i)]
  BY <1>4
<1> QED
  BY <1>5

\* Element k of sequence i.
LEMMA FlatIs ==
  ASSUME NEW s, IsSeq(s), \A i \in DOMAIN s : IsSeq(s[i])
  PROVE  /\ IsSeq(FlattenSeq(s)) /\ Len(FlattenSeq(s)) = Off(s, Len(s))
         /\ \A i \in DOMAIN s : \A k \in DOMAIN s[i] :
              FlattenSeq(s)[Off(s, i - 1) + k] = s[i][k]
<1> DEFINE n == Len(s)
           G(f) == f = [i \in 1..n |-> IF i = 1 THEN s[i] ELSE f[i - 1] \o s[i]]
           f == CHOOSE g : G(g)
<1>1. n \in Nat /\ DOMAIN s = 1..n
  BY SeqIs
<1>2. /\ Off(s, 0) = 0
      /\ \A i \in 0..n : Off(s, i) \in Nat
      /\ \A i \in 1..n : Off(s, i) = Off(s, i - 1) + Len(s[i])
  BY OffIs
<1>3. CASE n = 0
  <2>1. s = <<>>
    BY <1>3, EmptySeq DEF IsSeq
  <2>2. FlattenSeq(s) = s
    BY <1>3 DEF FlattenSeq
  <2>3. DOMAIN s = {}
    BY <1>1, <1>3
  <2> QED
    BY <1>2, <1>3, <2>2, <2>3
<1>4. CASE n # 0
  <2>1. FlattenSeq(s) = f[n]
    BY <1>4 DEF FlattenSeq
  <2>2. \E g : G(g)
    BY <1>1, JoinsExist
  <2> HIDE DEF G
  <2>3. G(f)
    BY <2>2
  <2> HIDE DEF f
  <2>4. \A i \in 1..n : f[i] = IF i = 1 THEN s[i] ELSE f[i - 1] \o s[i]
    <3>1. f = [i \in 1..n |-> IF i = 1 THEN s[i] ELSE f[i - 1] \o s[i]]
      BY <2>3 DEF G
    <3> QED
      BY <3>1
  <2> HIDE DEF n
  <2> DEFINE At(m) == /\ IsSeq(f[m]) /\ Len(f[m]) = Off(s, m)
                      /\ \A i \in 1..m : \A k \in 1..Len(s[i]) :
                           f[m][Off(s, i - 1) + k] = s[i][k]
             T == {m \in 0..n : m # 0 => At(m)}
  <2>5. 0 \in T
    BY <1>1
  <2>6. ASSUME NEW m \in 0..(n - 1), m \in T PROVE m + 1 \in T
    <3>1. m + 1 \in 1..n /\ m \in Nat /\ (m + 1) - 1 = m
      BY <1>1
    <3>2. IsSeq(s[m + 1]) /\ Len(s[m + 1]) \in Nat /\ Off(s, m + 1) = Off(s, m) + Len(s[m + 1])
      <4>1. IsSeq(s[m + 1])
        BY <1>1, <3>1
      <4>2. Len(s[m + 1]) \in Nat
        BY <4>1, SeqIs
      <4> QED
        BY <1>2, <3>1, <4>1, <4>2
    <3>3. CASE m = 0
      <4>1. f[1] = s[1]
        BY <2>4, <3>1, <3>3
      <4>2. At(1)
        BY <1>2, <3>2, <3>3, <4>1
      <4> QED
        BY <3>1, <3>3, <4>2
    <3>4. CASE m # 0
      <4>1. f[m + 1] = f[m] \o s[m + 1]
        <5>1. m + 1 # 1
          BY <3>4
        <5>2. f[m + 1] = IF m + 1 = 1 THEN s[m + 1] ELSE f[(m + 1) - 1] \o s[m + 1]
          BY <2>4, <3>1
        <5> QED
          BY <3>1, <5>1, <5>2
      <4>2. At(m)
        BY <2>6, <3>4
      <4> DEFINE a == f[m]
                 b == s[m + 1]
                 t == a \o b
      <4>3. /\ IsSeq(t) /\ Len(t) = Len(a) + Len(b)
            /\ \A p \in 1..Len(a) : t[p] = a[p]
            /\ \A k \in 1..Len(b) : t[Len(a) + k] = b[k]
        <5>1. IsSeq(a) /\ IsSeq(b)
          BY <3>2, <4>2
        <5> HIDE DEF a, b
        <5> QED
          BY <5>1, JoinedIs
      <4> HIDE DEF t
      <4>4. IsSeq(t) /\ Len(t) = Off(s, m + 1)
        BY <3>2, <4>2, <4>3
      <4>5. ASSUME NEW i \in 1..(m + 1), NEW k \in 1..Len(s[i])
            PROVE  t[Off(s, i - 1) + k] = s[i][k]
        <5>1. CASE i = m + 1
          BY <3>1, <4>2, <4>3, <5>1
        <5>2. CASE i # m + 1
          <6>1. i \in 1..m /\ i - 1 \in 0..m /\ i \in 1..n /\ i - 1 \in 0..n /\ m \in 0..n
            <7>1. m \in 1..n /\ i \in 1..m
              BY <1>1, <3>4, <5>2
            <7> QED
              BY <1>1, <7>1
          <6>2. Off(s, i - 1) \in Nat /\ Off(s, i) = Off(s, i - 1) + Len(s[i]) /\ Len(s[i]) \in Nat
            BY <1>1, <1>2, <6>1, SeqIs
          <6>3. Off(s, i) <= Off(s, m)
            <7>1. \A x, y \in 0..n : x <= y => Off(s, x) <= Off(s, y)
              BY OffIs DEF n
            <7>2. i \in 0..n /\ i <= m
              BY <6>1
            <7> QED
              BY <6>1, <7>1, <7>2
          <6>4. Off(s, i - 1) + k \in 1..Len(f[m])
            BY <4>2, <6>2, <6>3, <6>1, <1>2
          <6> QED
            BY <4>2, <4>3, <6>1, <6>4
        <5> QED
          BY <5>1, <5>2
      <4>6. At(m + 1)
        BY <4>1, <4>4, <4>5 DEF t
      <4> QED
        BY <3>1, <4>6
    <3> QED
      BY <3>3, <3>4
  <2>7. \A m \in 0..n : m \in T
    <3> HIDE DEF T
    <3> QED
      BY <1>1, <2>5, <2>6, CountingUp
  <2>8. At(n)
    BY <1>1, <1>4, <2>7
  <2>9. \A i \in 1..n : DOMAIN s[i] = 1..Len(s[i])
    BY <1>1, SeqIs
  <2> QED
    BY <1>1, <2>1, <2>8, <2>9 DEF n
<1> QED
  BY <1>3, <1>4

-----------------------------------------------------------------------------
(* How far the parser has come, in the lines git printed for changes d *)

HunksLines(f) == [h \in DOMAIN f.hunks |-> HunkLines(f.hunks[h])]

FilesLines(d) == [i \in DOMAIN d |-> FileLines(d[i])]

\* What is printed before the output is trimmed.
AllLines(d) == FlattenSeq(FilesLines(d))

\* The lines of a file before its hunk h, and those before file i.
Start(f, h)  == Len(HeaderLines(f)) + Off(HunksLines(f), h - 1)
Before(d, i) == Off(FilesLines(d), i - 1)

\* After c lines, ls are left: all but blank ones at the end.
Left(d, ls, c) ==
  /\ IsSeq(ls) /\ c + Len(ls) <= Len(AllLines(d))
  /\ \A j \in 1..Len(ls) : ls[j] = AllLines(d)[c + j]
  /\ \A p \in (c + Len(ls) + 1)..Len(AllLines(d)) : IsBlank(AllLines(d)[p])

\* The first l lines of hunk h were read, and only these.
BodyUpto(body, h, l) ==
  /\ IsSeq(body) /\ Len(body) = Place(h, l)
  /\ \A j \in 1..l : ~LooksLikeHeader(h[j]) => body[Place(h, j)] = h[j]

\* What was read of file f as far as its hunk n.
FileUpto(g, f, n) ==
  /\ g.path = Printed(f.path) \/ TakesPath(f)
  /\ IsSeq(g.hunks) /\ Len(g.hunks) = n
  /\ \A h \in 1..n : BodyOfOthers(g.hunks[h].body, f.hunks[h])

FileRead(g, f) == FileUpto(g, f, Len(f.hunks)) /\ g.change = f.change

FilesRead(fs, d, n) == IsSeq(fs) /\ Len(fs) = n /\ \A i \in 1..n : FileRead(fs[i], d[i])

SetsChange(l) == l.kind \in {"new file", "deleted file", "rename"}

\* The change, after k lines of the header.
ChangeUpto(f, k) ==
  IF \E j \in 2..k : SetsChange(HeaderLines(f)[j]) THEN f.change ELSE "modified"

Outside(c, cu, hu, fs) == c = 0 /\ cu = <<>> /\ hu = <<>> /\ fs = <<>>

\* After line k of the header of file i.
InHeader(d, c, cu, hu, fs, i, k) ==
  /\ c = Before(d, i) + k
  /\ FilesRead(fs, d, i - 1)
  /\ cu = <<cu[1]>> /\ FileUpto(cu[1], d[i], 0) /\ cu[1].change = ChangeUpto(d[i], k)
  /\ hu = <<>>

\* After line l of hunk h of file i.
InHunk(d, c, cu, hu, fs, i, h, l) ==
  /\ c = Before(d, i) + Start(d[i], h) + 1 + l
  /\ FilesRead(fs, d, i - 1)
  /\ cu = <<cu[1]>> /\ FileUpto(cu[1], d[i], h - 1) /\ cu[1].change = d[i].change
  /\ hu = <<hu[1]>> /\ BodyUpto(hu[1].body, d[i].hunks[h], l)

Reading(d, ls, cu, hu, fs) ==
  \E c \in 0..Len(AllLines(d)) :
    /\ Left(d, ls, c)
    /\ \/ Outside(c, cu, hu, fs)
       \/ \E i \in DOMAIN d : \E k \in 1..Len(HeaderLines(d[i])) :
            InHeader(d, c, cu, hu, fs, i, k)
       \/ \E i \in DOMAIN d : \E h \in DOMAIN d[i].hunks : \E l \in 0..Len(d[i].hunks[h]) :
            InHunk(d, c, cu, hu, fs, i, h, l)

\* A hunk of the result is the one that is due.
Matches(e, due) == e.path = due.path /\ e.change = due.change /\ SameBody(e.body, due.body)

DueOfFiles  == [i \in DOMAIN diff |-> FileHunks(diff[i])]
DueOfOthers == [i \in DOMAIN tree.untracked |-> OtherHunks(tree.untracked[i])]

\* Hunks rs are the first p that are due.
DueUpto(rs, p) == IsSeq(rs) /\ Len(rs) = p /\ \A q \in 1..Len(rs) : Matches(rs[q], DueHunks[q])

\* The first k files and the first m untracked ones are in the result.
Collected(k, m) ==
  /\ Len(files) = Len(diff) - k
  /\ \A i \in 1..Len(files) : FileRead(files[i], diff[k + i])
  /\ Len(others) = Len(tree.untracked) - m
  /\ \A i \in 1..Len(others) : others[i] = tree.untracked[m + i]
  /\ m > 0 => k = Len(diff)
  /\ Plain => DueUpto(res.hunks, Off(DueOfFiles, k) + Off(DueOfOthers, m))

\* OnlyLookalikesAreLost made inductive: what was read is right at every line.
ReadInv ==
  /\ tree \in Trees
  /\ phase \in {"parsing", "collecting", "done"}
  /\ phase = "parsing" =>
       Reading(diff, lines, cur, hb, files) /\ res.hunks = <<>> /\ others = tree.untracked
  /\ phase # "parsing" =>
       /\ lines = <<>>
       /\ \E k \in 0..Len(diff) : \E m \in 0..Len(tree.untracked) : Collected(k, m)
  /\ phase = "done" => files = <<>> /\ others = <<>>

-----------------------------------------------------------------------------
(* The lines of a file *)

LEMMA LineIs ==
  /\ \A kind : Line(kind).kind = kind
  /\ \A kind, p : PathLine(kind, p).kind = kind /\ PathLine(kind, p).path = p
  /\ \A l : ContentLine(l).kind = ContentKind(l) /\ ContentLine(l).path = "text"
            /\ ContentLine(l).body = l
BY DEF Line, PathLine, ContentLine

LEMMA KindOfContent ==
  ASSUME NEW l \in Contents
  PROVE  /\ ContentKind(l) \in {"---", "+++", "content"}
         /\ LooksLikeHeader(l) <=> ContentKind(l) \in {"---", "+++"}
         /\ ContentKind(l) = "---" => l.sign = "-"
         /\ ContentKind(l) = "+++" => l.sign = "+"
BY DEF ContentKind, LooksLikeHeader

LEMMA HunkLinesAre ==
  ASSUME NEW h, IsSeq(h)
  PROVE  /\ IsSeq(HunkLines(h)) /\ Len(HunkLines(h)) = Len(h) + 1
         /\ HunkLines(h)[1] = Line("@@")
         /\ \A l \in DOMAIN h : HunkLines(h)[1 + l] = ContentLine(h[l])
<1> DEFINE a == <<Line("@@")>>
           b == [i \in DOMAIN h |-> ContentLine(h[i])]
           t == HunkLines(h)
<1>1. Len(h) \in Nat /\ DOMAIN h = 1..Len(h)
  BY SeqIs
<1>2. IsSeq(a) /\ Len(a) = 1 /\ a[1] = Line("@@")
  BY OneElement
<1>3. DOMAIN b = 1..Len(h) /\ \A i \in DOMAIN h : b[i] = ContentLine(h[i])
  BY <1>1
<1>4. b = [i \in 1..Len(h) |-> b[i]]
  BY <1>1
<1> HIDE DEF a, b
<1>5. IsSeq(b) /\ Len(b) = Len(h)
  BY <1>1, <1>3, <1>4, ListIs
<1>6. t = a \o b
  BY DEF HunkLines, a, b
<1> HIDE DEF t
<1>7. Joined(t, a, b)
  <2>1. IsSeq(a) /\ IsSeq(b)
    BY <1>2, <1>5
  <2> QED
    BY <1>6, <2>1, JoinIs
<1>8. /\ IsSeq(t) /\ Len(t) = Len(h) + 1 /\ t[1] = Line("@@")
      /\ \A l \in DOMAIN h : t[1 + l] = ContentLine(h[l])
  BY <1>1, <1>2, <1>3, <1>5, <1>7 DEF Joined
<1> QED
  BY <1>8 DEF t

\* Kinds of the lines of a header after the first.
HeaderKinds == {"new file", "deleted file", "similarity", "rename", "index", "---", "+++"}

\* Such a line, of file f.
HeaderLineOf(f, l) ==
  /\ l.kind \in HeaderKinds
  /\ l.kind = "new file" => f.change = "added"
  /\ l.kind = "deleted file" => f.change = "deleted"
  /\ l.kind = "rename" => f.change = "renamed"
  /\ l.kind = "+++" => l.path \in {"/dev/null", Printed(f.path)}

LEMMA ThreeElements ==
  ASSUME NEW x, NEW y, NEW z
  PROVE  /\ IsSeq(<<x, y, z>>) /\ Len(<<x, y, z>>) = 3
         /\ <<x, y, z>>[1] = x /\ <<x, y, z>>[2] = y /\ <<x, y, z>>[3] = z
<1> DEFINE s == <<x, y, z>>
<1>1. s \in Seq({x, y, z}) /\ Len(s) = 3 /\ s[1] = x /\ s[2] = y /\ s[3] = z
  OBVIOUS
<1> HIDE DEF s
<1>2. IsSeq(s)
  BY <1>1 DEF IsSeq
<1> QED
  BY <1>1, <1>2 DEF s

LEMMA HeaderIs ==
  ASSUME NEW f \in Changed
  PROVE  LET H == HeaderLines(f)
         IN  /\ IsSeq(H) /\ Len(H) \in Nat \ {0}
             /\ H[1].kind = "diff --git" /\ H[1].path = Printed(f.path)
             /\ \A k \in 2..Len(H) : HeaderLineOf(f, H[k])
             /\ f.change # "modified" => \E k \in 2..Len(H) : SetsChange(H[k])
<1> DEFINE a == <<PathLine("diff --git", Printed(f.path))>>
           b == CASE f.change = "added"   -> <<Line("new file")>>
                  [] f.change = "deleted" -> <<Line("deleted file")>>
                  [] f.change = "renamed" -> <<Line("similarity"), Line("rename"), Line("rename")>>
                  [] OTHER -> <<>>
           p == IF f.change = "deleted" THEN "/dev/null" ELSE Printed(f.path)
           e == IF f.hunks = <<>> THEN <<>>
                ELSE <<Line("index"), Line("---"), PathLine("+++", p)>>
           t == a \o b
           H == t \o e
<1>1. IsSeq(a) /\ Len(a) = 1 /\ a[1] = PathLine("diff --git", Printed(f.path))
  BY OneElement
<1>2. f.change \in {"modified", "added", "deleted", "renamed"}
  BY DEF Changed
<1>3. /\ IsSeq(b) /\ \A i \in 1..Len(b) : HeaderLineOf(f, b[i])
      /\ f.change # "modified" => \E i \in 1..Len(b) : SetsChange(b[i])
  <2>1. CASE f.change = "modified"
    <3>1. b = <<>>
      BY <2>1
    <3> QED
      BY <2>1, <3>1, NoElements
  <2>2. CASE f.change = "added"
    <3>1. b = <<Line("new file")>>
      BY <2>2
    <3> HIDE DEF b
    <3>2. IsSeq(b) /\ Len(b) = 1
      BY <3>1, OneElement
    <3>6. b[1] = Line("new file")
      BY <3>1, OneElement
    <3>5. b[1].kind = "new file"
      BY <3>6, LineIs
    <3>3. 1 \in 1..Len(b) /\ \A i \in 1..Len(b) : i = 1
      BY <3>2
    <3>4. HeaderLineOf(f, b[1]) /\ SetsChange(b[1])
      BY <2>2, <3>5 DEF HeaderLineOf, HeaderKinds, SetsChange
    <3> QED
      BY <3>2, <3>3, <3>4
  <2>3. CASE f.change = "deleted"
    <3>1. b = <<Line("deleted file")>>
      BY <2>3
    <3> HIDE DEF b
    <3>2. IsSeq(b) /\ Len(b) = 1
      BY <3>1, OneElement
    <3>6. b[1] = Line("deleted file")
      BY <3>1, OneElement
    <3>5. b[1].kind = "deleted file"
      BY <3>6, LineIs
    <3>3. 1 \in 1..Len(b) /\ \A i \in 1..Len(b) : i = 1
      BY <3>2
    <3>4. HeaderLineOf(f, b[1]) /\ SetsChange(b[1])
      BY <2>3, <3>5 DEF HeaderLineOf, HeaderKinds, SetsChange
    <3> QED
      BY <3>2, <3>3, <3>4
  <2>4. CASE f.change = "renamed"
    <3>1. b = <<Line("similarity"), Line("rename"), Line("rename")>>
      BY <2>4
    <3> HIDE DEF b
    <3>2. IsSeq(b) /\ Len(b) = 3 /\ b[1].kind = "similarity" /\ b[2].kind = "rename"
          /\ b[3].kind = "rename"
      BY <3>1, ThreeElements, LineIs
    <3>3. 2 \in 1..Len(b) /\ \A i \in 1..Len(b) : i \in {1, 2, 3}
      BY <3>2
    <3>4. HeaderLineOf(f, b[1]) /\ HeaderLineOf(f, b[2]) /\ HeaderLineOf(f, b[3])
          /\ SetsChange(b[2])
      BY <2>4, <3>2 DEF HeaderLineOf, HeaderKinds, SetsChange
    <3> QED
      BY <3>2, <3>3, <3>4
  <2> QED
    BY <1>2, <2>1, <2>2, <2>3, <2>4
<1>4. IsSeq(e) /\ \A i \in 1..Len(e) : HeaderLineOf(f, e[i])
  <2>1. CASE f.hunks = <<>>
    BY <2>1, NoElements
  <2>2. CASE f.hunks # <<>>
    <3>0. p \in {"/dev/null", Printed(f.path)}
      OBVIOUS
    <3> HIDE DEF p
    <3>1. e = <<Line("index"), Line("---"), PathLine("+++", p)>>
      BY <2>2
    <3> HIDE DEF e
    <3>2. IsSeq(e) /\ Len(e) = 3 /\ e[1].kind = "index" /\ e[2].kind = "---"
          /\ e[3].kind = "+++" /\ e[3].path = p
      BY <3>1, ThreeElements, LineIs
    <3>3. \A i \in 1..Len(e) : i \in {1, 2, 3}
      BY <3>2
    <3>4. HeaderLineOf(f, e[1]) /\ HeaderLineOf(f, e[2]) /\ HeaderLineOf(f, e[3])
      BY <3>0, <3>2 DEF HeaderLineOf, HeaderKinds
    <3> QED
      BY <3>2, <3>3, <3>4
  <2> QED
    BY <2>1, <2>2
<1>5. HeaderLines(f) = H
  BY DEF HeaderLines
<1>a. t = a \o b /\ H = t \o e
  OBVIOUS
<1> HIDE DEF a, b, e, t, H
<1>b. IsSeq(a) /\ IsSeq(b) /\ IsSeq(e)
  BY <1>1, <1>3, <1>4
<1>6. Joined(t, a, b)
  BY <1>a, <1>b, JoinIs
<1>7. Joined(H, t, e)
  <2>1. IsSeq(t)
    BY <1>6 DEF Joined
  <2> QED
    BY <1>a, <1>b, <2>1, JoinIs
<1>8. Len(a) = 1 /\ Len(b) \in Nat /\ Len(e) \in Nat
  BY <1>1, <1>b, SeqIs
<1>9. /\ H[1] = a[1]
      /\ \A i \in 1..Len(b) : H[1 + i] = b[i]
      /\ \A i \in 1..Len(e) : H[1 + Len(b) + i] = e[i]
      /\ Len(H) = 1 + Len(b) + Len(e)
  BY <1>6, <1>7, <1>8 DEF Joined
<1>10. ASSUME NEW k \in 2..Len(H) PROVE HeaderLineOf(f, H[k])
  <2>1. CASE k <= 1 + Len(b)
    <3>1. k - 1 \in 1..Len(b) /\ k = 1 + (k - 1)
      BY <1>8, <2>1
    <3>2. H[k] = b[k - 1]
      BY <1>9, <3>1
    <3> QED
      BY <1>3, <3>1, <3>2
  <2>2. CASE k > 1 + Len(b)
    <3>1. k - 1 - Len(b) \in 1..Len(e) /\ k = 1 + Len(b) + (k - 1 - Len(b))
      BY <1>8, <1>9, <2>2
    <3>2. H[k] = e[k - 1 - Len(b)]
      BY <1>9, <3>1
    <3> QED
      BY <1>4, <3>1, <3>2
  <2> QED
    BY <1>8, <2>1, <2>2
<1>11. ASSUME f.change # "modified" PROVE \E k \in 2..Len(H) : SetsChange(H[k])
  <2>1. PICK i \in 1..Len(b) : SetsChange(b[i])
    BY <1>3, <1>11
  <2>2. 1 + i \in 2..Len(H)
    BY <1>8, <1>9
  <2>3. H[1 + i] = b[i]
    BY <1>9
  <2> QED
    BY <2>1, <2>2, <2>3
<1>12. H[1].kind = "diff --git" /\ H[1].path = Printed(f.path)
  <2>1. H[1] = PathLine("diff --git", Printed(f.path))
    BY <1>1, <1>9
  <2>2. /\ PathLine("diff --git", Printed(f.path)).kind = "diff --git"
        /\ PathLine("diff --git", Printed(f.path)).path = Printed(f.path)
    BY LineIs
  <2> QED
    BY <2>1, <2>2
<1>13. IsSeq(H) /\ Len(H) \in Nat \ {0}
  BY <1>7, <1>8, <1>9 DEF Joined
<1> QED
  BY <1>5, <1>10, <1>11, <1>12, <1>13

LEMMA HunksAre ==
  ASSUME NEW f \in Changed
  PROVE  /\ IsSeq(f.hunks) /\ Len(f.hunks) \in Nat /\ DOMAIN f.hunks = 1..Len(f.hunks)
         /\ f.hunks # <<>> <=> Len(f.hunks) # 0
         /\ \A h \in 1..Len(f.hunks) :
              LET b == f.hunks[h]
              IN  /\ IsSeq(b) /\ Len(b) \in Nat /\ DOMAIN b = 1..Len(b)
                  /\ \A l \in 1..Len(b) : b[l] \in Contents
<1> DEFINE hs == f.hunks
           C == Seq(Contents)
<1>1. hs \in Seq(C)
  BY DEF Changed
<1> HIDE DEF hs, C
<1>2. /\ IsSeq(hs) /\ Len(hs) \in Nat /\ DOMAIN hs = 1..Len(hs)
      /\ \A h \in 1..Len(hs) : hs[h] \in C
  BY <1>1 DEF IsSeq
<1>3. hs # <<>> <=> Len(hs) # 0
  BY <1>1, EmptySeq
<1>4. ASSUME NEW h \in 1..Len(hs)
      PROVE  LET b == hs[h]
             IN  /\ IsSeq(b) /\ Len(b) \in Nat /\ DOMAIN b = 1..Len(b)
                 /\ \A l \in 1..Len(b) : b[l] \in Contents
  <2> DEFINE b == hs[h]
  <2>1. b \in Seq(Contents)
    BY <1>2 DEF C
  <2> HIDE DEF b
  <2> DEFINE D == Contents
  <2>2. b \in Seq(D)
    BY <2>1
  <2> HIDE DEF D
  <2>3. IsSeq(b) /\ Len(b) \in Nat /\ DOMAIN b = 1..Len(b) /\ \A l \in 1..Len(b) : b[l] \in D
    BY <2>2 DEF IsSeq
  <2> QED
    BY <2>3 DEF b, D
<1> QED
  BY <1>2, <1>3, <1>4 DEF hs

LEMMA HunksLinesAre ==
  ASSUME NEW f \in Changed
  PROVE  LET S == HunksLines(f)
         IN  /\ IsSeq(S) /\ Len(S) = Len(f.hunks)
             /\ \A h \in 1..Len(f.hunks) :
                  S[h] = HunkLines(f.hunks[h]) /\ IsSeq(S[h]) /\ Len(S[h]) = Len(f.hunks[h]) + 1
<1> DEFINE n == Len(f.hunks)
           S == HunksLines(f)
<1>1. n \in Nat /\ DOMAIN f.hunks = 1..n
  BY HunksAre
<1>2. DOMAIN S = 1..n /\ \A h \in 1..n : S[h] = HunkLines(f.hunks[h])
  BY <1>1 DEF HunksLines
<1>3. S = [h \in 1..n |-> S[h]]
  BY <1>1 DEF HunksLines
<1> HIDE DEF S
<1>4. IsSeq(S) /\ Len(S) = n
  BY <1>1, <1>2, <1>3, ListIs
<1>5. ASSUME NEW h \in 1..n PROVE IsSeq(S[h]) /\ Len(S[h]) = Len(f.hunks[h]) + 1
  <2>1. IsSeq(f.hunks[h])
    BY HunksAre
  <2> QED
    BY <1>2, <2>1, HunkLinesAre
<1> QED
  BY <1>2, <1>4, <1>5 DEF S

\* Where the lines of a file stand in it.
LEMMA StartIs ==
  ASSUME NEW f \in Changed
  PROVE  /\ Start(f, 1) = Len(HeaderLines(f))
         /\ \A h \in 1..(Len(f.hunks) + 1) : Start(f, h) \in Nat
         /\ \A h \in 1..Len(f.hunks) : Start(f, h + 1) = Start(f, h) + 1 + Len(f.hunks[h])
<1> DEFINE n == Len(f.hunks)
           S == HunksLines(f)
           c == Len(HeaderLines(f))
<1>1. n \in Nat /\ c \in Nat
  BY HunksAre, HeaderIs
<1>2. /\ IsSeq(S) /\ Len(S) = n
      /\ \A h \in 1..n : IsSeq(S[h]) /\ Len(S[h]) = Len(f.hunks[h]) + 1
  BY HunksLinesAre
<1>3. \A h \in 1..n : Len(f.hunks[h]) \in Nat
  BY HunksAre
<1> HIDE DEF S
<1>4. DOMAIN S = 1..n
  BY <1>2, SeqIs
<1>5. /\ Off(S, 0) = 0
      /\ \A i \in 0..n : Off(S, i) \in Nat
      /\ \A i \in 1..n : Off(S, i) = Off(S, i - 1) + Len(S[i])
  BY <1>2, <1>4, OffIs
<1>6. \A h : Start(f, h) = c + Off(S, h - 1)
  BY DEF Start, S
<1> HIDE DEF c, n
<1>7. Start(f, 1) = c
  <2>1. 1 - 1 = 0
    OBVIOUS
  <2> QED
    BY <1>1, <1>5, <1>6, <2>1
<1>8. ASSUME NEW h \in 1..(n + 1) PROVE Start(f, h) \in Nat
  <2>1. h - 1 \in 0..n
    BY <1>1
  <2> QED
    BY <1>1, <1>5, <1>6, <2>1
<1>9. ASSUME NEW h \in 1..n PROVE Start(f, h + 1) = Start(f, h) + 1 + Len(f.hunks[h])
  <2>1. h - 1 \in 0..n /\ (h + 1) - 1 = h
    BY <1>1
  <2>2. Off(S, h) = Off(S, h - 1) + (Len(f.hunks[h]) + 1) /\ Off(S, h - 1) \in Nat
    BY <1>2, <1>5, <2>1
  <2>3. Start(f, h + 1) = c + Off(S, h) /\ Start(f, h) = c + Off(S, h - 1)
    BY <1>6, <2>1
  <2> QED
    BY <1>1, <1>3, <2>2, <2>3
<1> QED
  BY <1>7, <1>8, <1>9 DEF c, n

LEMMA FileLinesAre ==
  ASSUME NEW f \in Changed
  PROVE  LET F == FileLines(f)
         IN  /\ IsSeq(F) /\ Len(F) = Start(f, Len(f.hunks) + 1)
             /\ \A k \in 1..Len(HeaderLines(f)) : F[k] = HeaderLines(f)[k]
             /\ \A h \in 1..Len(f.hunks) :
                  /\ F[Start(f, h) + 1] = Line("@@")
                  /\ \A l \in 1..Len(f.hunks[h]) :
                       F[Start(f, h) + 1 + l] = ContentLine(f.hunks[h][l])
<1> DEFINE n == Len(f.hunks)
           S == HunksLines(f)
           H == HeaderLines(f)
           T == FlattenSeq(S)
           F == FileLines(f)
<1>1. n \in Nat /\ Len(H) \in Nat /\ IsSeq(H)
  BY HunksAre, HeaderIs
<1>2. IsSeq(S) /\ Len(S) = n
  BY HunksLinesAre
<1>3. \A h \in 1..n : S[h] = HunkLines(f.hunks[h]) /\ IsSeq(S[h]) /\ Len(S[h]) = Len(f.hunks[h]) + 1
  BY HunksLinesAre
<1>4. F = H \o T
  BY DEF FileLines, HunksLines
<1> HIDE DEF S, H, F
<1>5. DOMAIN S = 1..n
  BY <1>2, SeqIs
<1>6. /\ IsSeq(T) /\ Len(T) = Off(S, n)
      /\ \A h \in 1..n : \A k \in DOMAIN S[h] : T[Off(S, h - 1) + k] = S[h][k]
  <2>1. \A h \in DOMAIN S : IsSeq(S[h])
    BY <1>3, <1>5
  <2>2. /\ IsSeq(T) /\ Len(T) = Off(S, Len(S))
        /\ \A h \in DOMAIN S : \A k \in DOMAIN S[h] : T[Off(S, h - 1) + k] = S[h][k]
    BY <1>2, <2>1, FlatIs
  <2> HIDE DEF T
  <2> QED
    BY <1>2, <1>5, <2>2
<1> HIDE DEF T
<1>7. Joined(F, H, T)
  BY <1>1, <1>4, <1>6, JoinIs
<1>8. /\ \A i \in 0..n : Off(S, i) \in Nat
      /\ \A i \in 1..n : Off(S, i) = Off(S, i - 1) + Len(S[i])
      /\ \A i, j \in 0..n : i <= j => Off(S, i) <= Off(S, j)
  BY <1>2, <1>3, <1>5, OffIs
<1>9. \A h : Start(f, h) = Len(H) + Off(S, h - 1)
  BY DEF Start, S, H
<1>10. IsSeq(F) /\ Len(F) = Start(f, n + 1)
  <2>1. (n + 1) - 1 = n
    BY <1>1
  <2> QED
    BY <1>6, <1>7, <1>9, <2>1 DEF Joined
<1>11. \A k \in 1..Len(H) : F[k] = H[k]
  BY <1>7 DEF Joined
<1>12. ASSUME NEW h \in 1..n, NEW k \in 1..(Len(f.hunks[h]) + 1)
       PROVE  F[Start(f, h) + k] = HunkLines(f.hunks[h])[k]
  <2>1. DOMAIN S[h] = 1..Len(S[h]) /\ k \in DOMAIN S[h]
    BY <1>3, SeqIs
  <2>2. T[Off(S, h - 1) + k] = S[h][k]
    BY <1>6, <2>1
  <2>3. h - 1 \in 0..n /\ h \in 0..n /\ n \in 0..n /\ h <= n
    BY <1>1
  <2>4. /\ Off(S, h - 1) \in Nat /\ Off(S, h) \in Nat /\ Off(S, n) \in Nat
        /\ Off(S, h) = Off(S, h - 1) + Len(S[h]) /\ Off(S, h) <= Off(S, n)
    BY <1>8, <2>3
  <2>a. Len(S[h]) \in Nat /\ k \in 1..Len(S[h])
    BY <1>3, <2>1, SeqIs
  <2>5. Off(S, h - 1) + k \in 1..Len(T)
    BY <1>6, <2>a, <2>4
  <2>6. F[Len(H) + (Off(S, h - 1) + k)] = T[Off(S, h - 1) + k]
    BY <1>7, <2>5 DEF Joined
  <2>7. Start(f, h) + k = Len(H) + (Off(S, h - 1) + k)
    BY <1>1, <1>9, <2>4
  <2> QED
    BY <1>3, <2>2, <2>6, <2>7
<1>13. ASSUME NEW h \in 1..n
       PROVE  /\ F[Start(f, h) + 1] = Line("@@")
              /\ \A l \in 1..Len(f.hunks[h]) :
                   F[Start(f, h) + 1 + l] = ContentLine(f.hunks[h][l])
  <2> DEFINE b == f.hunks[h]
             B == HunkLines(b)
  <2>1. IsSeq(b) /\ Len(b) \in Nat /\ DOMAIN b = 1..Len(b)
    BY HunksAre
  <2> HIDE DEF b
  <2>2. B[1] = Line("@@") /\ \A l \in 1..Len(b) : B[1 + l] = ContentLine(b[l])
    BY <2>1, HunkLinesAre
  <2> HIDE DEF B
  <2>3. Start(f, h) \in Nat
    <3>1. h \in 1..(n + 1)
      BY <1>1
    <3> QED
      BY <3>1, StartIs
  <2>4. \A k \in 1..(Len(b) + 1) : F[Start(f, h) + k] = B[k]
    BY <1>12 DEF b, B
  <2>5. F[Start(f, h) + 1] = B[1]
    BY <2>1, <2>4
  <2>6. ASSUME NEW l \in 1..Len(b) PROVE F[Start(f, h) + 1 + l] = ContentLine(b[l])
    <3>1. 1 + l \in 1..(Len(b) + 1) /\ Start(f, h) + 1 + l = Start(f, h) + (1 + l)
      BY <2>1, <2>3
    <3>2. F[Start(f, h) + (1 + l)] = B[1 + l]
      BY <2>4, <3>1
    <3> QED
      BY <2>2, <3>1, <3>2
  <2> QED
    BY <2>2, <2>5, <2>6 DEF b
<1> QED
  BY <1>10, <1>11, <1>13 DEF F, H

LEMMA StartsWithin ==
  ASSUME NEW f \in Changed
  PROVE  /\ Len(FileLines(f)) \in Nat
         /\ Len(HeaderLines(f)) <= Len(FileLines(f))
         /\ \A h \in 1..Len(f.hunks) : Start(f, h + 1) <= Len(FileLines(f))
<1> DEFINE n == Len(f.hunks)
           S == HunksLines(f)
           c == Len(HeaderLines(f))
<1>1. n \in Nat /\ c \in Nat
  BY HunksAre, HeaderIs
<1>2. IsSeq(S) /\ Len(S) = n /\ \A h \in 1..n : IsSeq(S[h])
  BY HunksLinesAre
<1>3. \A h : Start(f, h) = c + Off(S, h - 1)
  BY DEF Start
<1>4. Len(FileLines(f)) = Start(f, n + 1)
  BY FileLinesAre
<1> HIDE DEF S, c, n
<1>5. \A h \in DOMAIN S : IsSeq(S[h])
  BY <1>2, SeqIs
<1>6. /\ \A i \in 0..n : Off(S, i) \in Nat
      /\ \A i, j \in 0..n : i <= j => Off(S, i) <= Off(S, j)
      /\ Off(S, 0) = 0
  BY <1>2, <1>5, OffIs
<1>7. Len(FileLines(f)) = c + Off(S, n) /\ Off(S, n) \in Nat
  <2>1. (n + 1) - 1 = n /\ n \in 0..n
    BY <1>1
  <2> QED
    BY <1>3, <1>4, <1>6, <2>1
<1>8. ASSUME NEW h \in 1..n PROVE Start(f, h + 1) <= Len(FileLines(f))
  <2>1. (h + 1) - 1 = h /\ h \in 0..n /\ n \in 0..n /\ h <= n
    BY <1>1
  <2>2. Off(S, h) <= Off(S, n) /\ Off(S, h) \in Nat /\ Start(f, h + 1) = c + Off(S, h)
    BY <1>3, <1>6, <2>1
  <2> QED
    BY <1>1, <1>7, <2>2
<1> QED
  BY <1>1, <1>7, <1>8 DEF c, n

\* Where the files stand in the output.
LEMMA AllLinesAre ==
  ASSUME NEW d \in Seq(Changed)
  PROVE  LET A == AllLines(d)
         IN  /\ IsSeq(A) /\ Len(A) \in Nat /\ Len(A) = Before(d, Len(d) + 1)
             /\ Before(d, 1) = 0
             /\ \A i \in 1..(Len(d) + 1) : Before(d, i) \in Nat
             /\ \A i \in 1..Len(d) :
                  /\ Before(d, i + 1) = Before(d, i) + Len(FileLines(d[i]))
                  /\ Before(d, i + 1) <= Len(A)
                  /\ \A k \in 1..Len(FileLines(d[i])) :
                       A[Before(d, i) + k] = FileLines(d[i])[k]
<1> DEFINE n == Len(d)
           S == FilesLines(d)
           A == AllLines(d)
           F(i) == FileLines(d[i])
<1>1. n \in Nat /\ DOMAIN d = 1..n /\ \A i \in 1..n : d[i] \in Changed
  <2> DEFINE C == Changed
  <2> HIDE DEF C
  <2>1. \A s \in Seq(C) : Len(s) \in Nat /\ DOMAIN s = 1..Len(s) /\ \A i \in 1..Len(s) : s[i] \in C
    OBVIOUS
  <2> QED
    BY <2>1 DEF C
<1>2. \A i \in 1..n : IsSeq(F(i)) /\ Len(F(i)) \in Nat
  BY <1>1, FileLinesAre, StartsWithin
<1>3. DOMAIN S = 1..n /\ \A i \in 1..n : S[i] = F(i)
  BY <1>1 DEF FilesLines
<1>4. S = [i \in 1..n |-> S[i]]
  BY <1>1 DEF FilesLines
<1>5. A = FlattenSeq(S)
  BY DEF AllLines
<1>6. \A i : Before(d, i) = Off(S, i - 1)
  BY DEF Before
<1> HIDE DEF S, A, F
<1>7. IsSeq(S) /\ Len(S) = n
  BY <1>1, <1>3, <1>4, ListIs
<1>8. \A i \in DOMAIN S : IsSeq(S[i])
  BY <1>2, <1>3
<1>9. /\ Off(S, 0) = 0
      /\ \A i \in 0..n : Off(S, i) \in Nat
      /\ \A i \in 1..n : Off(S, i) = Off(S, i - 1) + Len(S[i])
      /\ \A i, j \in 0..n : i <= j => Off(S, i) <= Off(S, j)
  BY <1>7, <1>8, OffIs
<1>10. /\ IsSeq(A) /\ Len(A) = Off(S, n)
       /\ \A i \in DOMAIN S : \A k \in DOMAIN S[i] : A[Off(S, i - 1) + k] = S[i][k]
  <2> DEFINE T == FlattenSeq(S)
  <2>1. /\ IsSeq(T) /\ Len(T) = Off(S, Len(S))
        /\ \A i \in DOMAIN S : \A k \in DOMAIN S[i] : T[Off(S, i - 1) + k] = S[i][k]
    BY <1>7, <1>8, FlatIs
  <2> HIDE DEF T
  <2>2. A = T
    BY <1>5 DEF T
  <2> QED
    BY <1>7, <2>1, <2>2
<1> HIDE DEF n
<1>11. Len(A) \in Nat /\ Len(A) = Before(d, n + 1) /\ Before(d, 1) = 0
  <2>1. (n + 1) - 1 = n /\ 1 - 1 = 0 /\ n \in 0..n
    BY <1>1
  <2> QED
    BY <1>6, <1>9, <1>10, <2>1
<1>12. ASSUME NEW i \in 1..(n + 1) PROVE Before(d, i) \in Nat
  <2>1. i - 1 \in 0..n
    BY <1>1
  <2> QED
    BY <1>6, <1>9, <2>1
<1>13. ASSUME NEW i \in 1..n
       PROVE  /\ Before(d, i + 1) = Before(d, i) + Len(F(i))
              /\ Before(d, i + 1) <= Len(A)
  <2>1. (i + 1) - 1 = i /\ i \in 0..n /\ n \in 0..n /\ i <= n
    BY <1>1
  <2> QED
    BY <1>3, <1>6, <1>9, <1>10, <2>1
<1>14. ASSUME NEW i \in 1..n, NEW k \in 1..Len(F(i))
       PROVE  A[Before(d, i) + k] = F(i)[k]
  <2>1. DOMAIN S[i] = 1..Len(S[i])
    BY <1>3, <1>8, SeqIs
  <2> QED
    BY <1>3, <1>6, <1>10, <2>1
<1> QED
  BY <1>10, <1>11, <1>12, <1>13, <1>14 DEF n, A, F

\* What is cut off the end of a list of lines is blank.
LEMMA TrimmedIs ==
  ASSUME NEW A, IsSeq(A)
  PROVE  LET t == Trimmed(A)
         IN  /\ IsSeq(t) /\ Len(t) \in 0..Len(A)
             /\ \A j \in 1..Len(t) : t[j] = A[j]
             /\ \A p \in (Len(t) + 1)..Len(A) : IsBlank(A[p])
<1> DEFINE N == Len(A)
           Ok(n) == /\ \A i \in (n + 1)..N : IsBlank(A[i])
                    /\ n = 0 \/ ~IsBlank(A[n])
           T == {n \in 0..N : \A i \in (n + 1)..N : IsBlank(A[i])}
           m == CHOOSE n \in 0..N : Ok(n)
           t == Trimmed(A)
<1>1. N \in Nat
  BY SeqIs
<1>2. \E n \in 0..N : Ok(n)
  <2>1. N \in T /\ T \in SUBSET Nat
    BY <1>1
  <2> HIDE DEF T
  <2>2. PICK n \in T : \A j \in T : n <= j
    BY <2>1, LeastNumber
  <2>3. n \in 0..N /\ \A i \in (n + 1)..N : IsBlank(A[i])
    BY <2>2 DEF T
  <2>4. ASSUME n # 0, IsBlank(A[n]) PROVE FALSE
    <3>1. n - 1 \in 0..N /\ (n - 1) + 1 = n
      BY <2>3, <2>4, <1>1
    <3>2. \A i \in n..N : i = n \/ i \in (n + 1)..N
      BY <2>3, <1>1
    <3>3. n - 1 \in T
      BY <2>3, <2>4, <3>1, <3>2 DEF T
    <3>4. n <= n - 1
      BY <2>2, <3>3
    <3> QED
      BY <2>3, <3>4
  <2> QED
    BY <2>3, <2>4
<1>3. m \in 0..N /\ Ok(m)
  <2> HIDE DEF Ok
  <2> QED
    BY <1>2
<1>4. t = SubSeq(A, 1, m)
  BY DEF Trimmed
<1> HIDE DEF m, t
<1>5. PICK R : A \in Seq(R)
  BY DEF IsSeq
<1>6. \A i \in 1..m : A[i] \in R
  BY <1>1, <1>3, <1>5
<1>7. /\ t \in Seq(R) /\ Len(t) = m /\ \A i \in 1..m : t[i] = A[i]
  <2>1. /\ SubSeq(A, 1, m) \in Seq(R)
        /\ Len(SubSeq(A, 1, m)) = IF 1 <= m THEN m - 1 + 1 ELSE 0
        /\ \A i \in 1..(m - 1 + 1) : SubSeq(A, 1, m)[i] = A[1 + i - 1]
    <3>1. 1 \in Int /\ m \in Int
      BY <1>1, <1>3
    <3> QED
      BY <1>6, <3>1, SubSeqProperties
  <2>2. m \in Nat /\ m - 1 + 1 = m /\ \A i \in 1..m : 1 + i - 1 = i
    BY <1>1, <1>3
  <2> HIDE DEF N
  <2> QED
    BY <1>4, <2>1, <2>2
<1>8. IsSeq(t)
  BY <1>7 DEF IsSeq
<1> QED
  BY <1>3, <1>7, <1>8 DEF t

LEMMA GitOutputIs ==
  ASSUME NEW d \in Seq(Changed)
  PROVE  Left(d, GitOutput(d), 0)
<1> DEFINE A == AllLines(d)
           t == Trimmed(A)
<1>1. IsSeq(A) /\ Len(A) \in Nat
  BY AllLinesAre
<1>2. GitOutput(d) = t
  BY DEF GitOutput, AllLines, FilesLines
<1> HIDE DEF A
<1>3. /\ IsSeq(t) /\ Len(t) \in 0..Len(A)
      /\ \A j \in 1..Len(t) : t[j] = A[j]
      /\ \A p \in (Len(t) + 1)..Len(A) : IsBlank(A[p])
  BY <1>1, TrimmedIs
<1> HIDE DEF t
<1>4. /\ 0 + Len(t) <= Len(A)
      /\ \A j \in 1..Len(t) : t[j] = A[0 + j]
      /\ \A p \in (0 + Len(t) + 1)..Len(A) : IsBlank(A[p])
  BY <1>1, <1>3
<1> QED
  BY <1>2, <1>3, <1>4 DEF Left, A

\* One line is read.
LEMMA LineRead ==
  ASSUME NEW d \in Seq(Changed), NEW ls, NEW c \in 0..Len(AllLines(d)), Left(d, ls, c)
  PROVE  /\ ls # <<>> => /\ c + 1 \in 0..Len(AllLines(d)) /\ Left(d, Tail(ls), c + 1)
                         /\ Head(ls) = AllLines(d)[c + 1]
         /\ ls = <<>> => \A p \in (c + 1)..Len(AllLines(d)) : IsBlank(AllLines(d)[p])
<1> DEFINE A == AllLines(d)
<1>1. Len(A) \in Nat /\ c \in 0..Len(A)
  BY AllLinesAre
<1>2. /\ IsSeq(ls) /\ c + Len(ls) <= Len(A)
      /\ \A j \in 1..Len(ls) : ls[j] = A[c + j]
      /\ \A p \in (c + Len(ls) + 1)..Len(A) : IsBlank(A[p])
  BY DEF Left
<1> HIDE DEF A
<1>3. CASE ls = <<>>
  <2>1. Len(ls) = 0
    BY <1>3, NoElements
  <2> QED
    BY <1>1, <1>2, <1>3, <2>1 DEF A
<1>4. CASE ls # <<>>
  <2> DEFINE t == Tail(ls)
  <2>1. /\ Len(ls) \in Nat \ {0} /\ Head(ls) = ls[1]
        /\ IsSeq(t) /\ Len(t) = Len(ls) - 1
        /\ \A i \in DOMAIN t : t[i] = ls[i + 1]
    BY <1>2, <1>4, TailIs
  <2>2. DOMAIN t = 1..Len(t)
    BY <2>1, SeqIs
  <2> HIDE DEF t
  <2>3. c + 1 \in 0..Len(A) /\ Head(ls) = A[c + 1]
    BY <1>1, <1>2, <2>1
  <2>4. c + 1 + Len(t) <= Len(A)
    BY <1>1, <1>2, <2>1
  <2>5. ASSUME NEW j \in 1..Len(t) PROVE t[j] = A[c + 1 + j]
    <3>1. j + 1 \in 1..Len(ls) /\ c + (j + 1) = c + 1 + j
      BY <1>1, <2>1
    <3>2. t[j] = ls[j + 1]
      BY <2>1, <2>2
    <3> QED
      BY <1>2, <3>1, <3>2
  <2>6. ASSUME NEW p \in (c + 1 + Len(t) + 1)..Len(A) PROVE IsBlank(A[p])
    <3>1. c + 1 + Len(t) + 1 = c + Len(ls) + 1
      BY <1>1, <2>1
    <3> QED
      BY <1>2, <3>1
  <2>7. Left(d, t, c + 1)
    BY <2>1, <2>4, <2>5, <2>6 DEF Left, A
  <2> QED
    BY <1>4, <2>3, <2>7 DEF A, t
<1> QED
  BY <1>3, <1>4

LEMMA ChangesAre ==
  ASSUME NEW d \in Seq(Changed)
  PROVE  /\ IsSeq(d) /\ Len(d) \in Nat /\ DOMAIN d = 1..Len(d)
         /\ \A i \in 1..Len(d) : d[i] \in Changed
<1> DEFINE C == Changed
<1> HIDE DEF C
<1>1. \A s \in Seq(C) : /\ Len(s) \in Nat /\ DOMAIN s = 1..Len(s)
                        /\ \A i \in 1..Len(s) : s[i] \in C
  OBVIOUS
<1>2. d \in Seq(C)
  BY DEF C
<1>3. IsSeq(d)
  BY <1>2 DEF IsSeq
<1> QED
  BY <1>1, <1>2, <1>3 DEF C

\* Where a line of the header and the lines of a hunk stand in the output.
LEMMA HeaderStands ==
  ASSUME NEW d \in Seq(Changed), NEW i \in 1..Len(d),
         NEW k \in 1..Len(HeaderLines(d[i]))
  PROVE  /\ Before(d, i) + k \in 1..Len(AllLines(d))
         /\ AllLines(d)[Before(d, i) + k] = HeaderLines(d[i])[k]
<1> DEFINE A == AllLines(d)
           f == d[i]
           F == FileLines(f)
           H == HeaderLines(f)
<1>1. f \in Changed /\ Len(d) \in Nat
  BY ChangesAre
<1>2. /\ Len(A) \in Nat /\ Before(d, i + 1) = Before(d, i) + Len(F)
      /\ Before(d, i + 1) <= Len(A)
      /\ \A j \in 1..Len(F) : A[Before(d, i) + j] = F[j]
  BY AllLinesAre
<1>3. Before(d, i) \in Nat
  <2>1. i \in 1..(Len(d) + 1)
    BY <1>1
  <2> QED
    BY <2>1, AllLinesAre
<1>4. Len(F) \in Nat /\ Len(H) <= Len(F) /\ \A j \in 1..Len(H) : F[j] = H[j]
  BY <1>1, StartsWithin, FileLinesAre
<1>5. Len(H) \in Nat
  BY <1>1, HeaderIs
<1> HIDE DEF A, F
<1>6. k \in 1..Len(F) /\ k \in 1..Len(H)
  BY <1>4, <1>5
<1>7. Before(d, i) + k \in 1..Len(A)
  BY <1>2, <1>3, <1>4, <1>6
<1>8. A[Before(d, i) + k] = F[k] /\ F[k] = H[k]
  BY <1>2, <1>4, <1>6
<1> QED
  BY <1>7, <1>8 DEF A, F

LEMMA HunkStands ==
  ASSUME NEW d \in Seq(Changed), NEW i \in 1..Len(d), NEW h \in 1..Len(d[i].hunks)
  PROVE  LET p == Before(d, i) + Start(d[i], h) + 1
             b == d[i].hunks[h]
         IN  /\ p \in 1..Len(AllLines(d)) /\ AllLines(d)[p] = Line("@@")
             /\ \A l \in 1..Len(b) :
                  p + l \in 1..Len(AllLines(d)) /\ AllLines(d)[p + l] = ContentLine(b[l])
<1> DEFINE A == AllLines(d)
           f == d[i]
           F == FileLines(f)
           b == f.hunks[h]
           s == Start(f, h)
           c == Before(d, i)
           p == c + s + 1
<1>1. f \in Changed /\ Len(d) \in Nat
  BY ChangesAre
<1>2. /\ Len(A) \in Nat /\ Before(d, i + 1) = c + Len(F)
      /\ Before(d, i + 1) <= Len(A)
      /\ \A j \in 1..Len(F) : A[c + j] = F[j]
  BY AllLinesAre
<1>3. c \in Nat
  <2>1. i \in 1..(Len(d) + 1)
    BY <1>1
  <2> QED
    BY <2>1, AllLinesAre
<1>4. Len(F) \in Nat /\ Start(f, h + 1) <= Len(F)
  BY <1>1, StartsWithin
<1>5. F[s + 1] = Line("@@") /\ \A l \in 1..Len(b) : F[s + 1 + l] = ContentLine(b[l])
  BY <1>1, FileLinesAre
<1>6. Start(f, h + 1) = s + 1 + Len(b)
  BY <1>1, StartIs
<1>7. s \in Nat /\ Len(b) \in Nat
  <2>1. Len(f.hunks) \in Nat /\ Len(b) \in Nat
    BY <1>1, HunksAre
  <2>2. h \in 1..(Len(f.hunks) + 1)
    BY <2>1
  <2> QED
    BY <1>1, <2>1, <2>2, StartIs
<1> HIDE DEF A, F, b, s, c
<1>8. s + 1 \in 1..Len(F) /\ c + (s + 1) = p /\ p \in 1..Len(A)
  BY <1>2, <1>3, <1>4, <1>6, <1>7
<1>9. A[p] = Line("@@")
  <2>1. A[c + (s + 1)] = F[s + 1]
    BY <1>2, <1>8
  <2> QED
    BY <1>5, <1>8, <2>1
<1>10. ASSUME NEW l \in 1..Len(b) PROVE p + l \in 1..Len(A) /\ A[p + l] = ContentLine(b[l])
  <2>1. s + 1 + l \in 1..Len(F) /\ c + (s + 1 + l) = p + l /\ p + l \in 1..Len(A)
    BY <1>2, <1>3, <1>4, <1>6, <1>7
  <2>2. A[c + (s + 1 + l)] = F[s + 1 + l]
    BY <1>2, <2>1
  <2> QED
    BY <1>5, <2>1, <2>2
<1> QED
  BY <1>8, <1>9, <1>10 DEF A, b, s, c

\* The end of a file is where the next one begins.
LEMMA FileEnds ==
  ASSUME NEW d \in Seq(Changed), NEW i \in 1..Len(d)
  PROVE  Before(d, i + 1) = Before(d, i) + Start(d[i], Len(d[i].hunks) + 1)
<1>1. d[i] \in Changed
  BY ChangesAre
<1> QED
  BY <1>1, AllLinesAre, FileLinesAre

\* A line of a header and the line before a hunk are not blank.
LEMMA NotBlank ==
  ASSUME NEW f \in Changed
  PROVE  /\ \A k \in 1..Len(HeaderLines(f)) : ~IsBlank(HeaderLines(f)[k])
         /\ ~IsBlank(Line("@@"))
<1> DEFINE H == HeaderLines(f)
<1>1. H[1].kind = "diff --git" /\ Len(H) \in Nat
  BY HeaderIs
<1>2. \A k \in 2..Len(H) : HeaderLineOf(f, H[k])
  BY HeaderIs
<1> HIDE DEF H
<1>3. ~IsBlank(H[1])
  BY <1>1 DEF IsBlank
<1>4. ASSUME NEW l, HeaderLineOf(f, l) PROVE ~IsBlank(l)
  BY <1>4 DEF IsBlank, HeaderLineOf, HeaderKinds
<1>5. \A k \in 1..Len(H) : k = 1 \/ k \in 2..Len(H)
  OBVIOUS
<1>6. ~IsBlank(Line("@@"))
  BY LineIs DEF IsBlank
<1>7. \A k \in 1..Len(H) : ~IsBlank(H[k])
  <2>1. \A k \in 2..Len(H) : ~IsBlank(H[k])
    BY <1>2, <1>4
  <2> QED
    BY <1>3, <1>5, <2>1
<1> QED
  BY <1>6, <1>7 DEF H

\* The next line, where a file begins: the first one of its header.
LEMMA NextOfFiles ==
  ASSUME NEW d \in Seq(Changed), NEW ls, NEW c \in 0..Len(AllLines(d)), Left(d, ls, c),
         NEW i \in 1..(Len(d) + 1), c = Before(d, i)
  PROVE  /\ ls # <<>> => i \in 1..Len(d) /\ Head(ls) = HeaderLines(d[i])[1]
         /\ ls = <<>> => i = Len(d) + 1
<1>1. Len(d) \in Nat
  BY ChangesAre
<1>2. ASSUME i \in 1..Len(d)
      PROVE  /\ c + 1 \in 1..Len(AllLines(d))
             /\ AllLines(d)[c + 1] = HeaderLines(d[i])[1]
             /\ ~IsBlank(AllLines(d)[c + 1])
  <2>1. d[i] \in Changed
    BY <1>2, ChangesAre
  <2>2. 1 \in 1..Len(HeaderLines(d[i]))
    <3>1. Len(HeaderLines(d[i])) \in Nat \ {0}
      BY <2>1, HeaderIs
    <3> QED
      BY <3>1
  <2> QED
    BY <1>2, <2>1, <2>2, HeaderStands, NotBlank
<1>3. CASE ls = <<>>
  <2>1. \A p \in (c + 1)..Len(AllLines(d)) : IsBlank(AllLines(d)[p])
    BY <1>3, LineRead
  <2>2. Len(AllLines(d)) \in Nat
    BY AllLinesAre
  <2>3. ASSUME i \in 1..Len(d) PROVE FALSE
    <3>1. c + 1 \in (c + 1)..Len(AllLines(d))
      BY <1>2, <2>2, <2>3
    <3> QED
      BY <1>2, <2>1, <2>3, <3>1
  <2> QED
    BY <1>1, <1>3, <2>3
<1>4. CASE ls # <<>>
  <2>1. c + 1 \in 0..Len(AllLines(d)) /\ Head(ls) = AllLines(d)[c + 1]
    BY <1>4, LineRead
  <2>2. ASSUME i = Len(d) + 1 PROVE FALSE
    <3>1. c = Len(AllLines(d)) /\ c \in Nat
      BY <2>2, AllLinesAre
    <3> QED
      BY <2>1, <3>1
  <2>3. i \in 1..Len(d)
    BY <1>1, <2>2
  <2> QED
    BY <1>2, <1>4, <2>1, <2>3
<1> QED
  BY <1>3, <1>4

\* The next line after line k of a header.
LEMMA NextOfHeader ==
  ASSUME NEW d \in Seq(Changed), NEW ls, NEW c \in 0..Len(AllLines(d)), Left(d, ls, c),
         NEW i \in 1..Len(d), NEW k \in 1..Len(HeaderLines(d[i])), c = Before(d, i) + k
  PROVE  \/ /\ k + 1 \in 2..Len(HeaderLines(d[i]))
            /\ ls # <<>> /\ Head(ls) = HeaderLines(d[i])[k + 1]
         \/ /\ k = Len(HeaderLines(d[i])) /\ 1 \in 1..Len(d[i].hunks)
            /\ c = Before(d, i) + Start(d[i], 1)
            /\ ls # <<>> /\ Head(ls) = Line("@@")
         \/ /\ k = Len(HeaderLines(d[i])) /\ Len(d[i].hunks) = 0
            /\ c = Before(d, i + 1)
<1> DEFINE A == AllLines(d)
           f == d[i]
           K == Len(HeaderLines(f))
<1>1. f \in Changed /\ K \in Nat /\ Len(A) \in Nat /\ Len(f.hunks) \in Nat
  BY ChangesAre, HeaderIs, AllLinesAre, HunksAre
<1>2. Before(d, i) \in Nat
  <2>1. i \in 1..(Len(d) + 1)
    BY ChangesAre
  <2> QED
    BY <2>1, AllLinesAre
<1>3. Start(f, 1) = K
  BY <1>1, StartIs
<1>4. ASSUME c + 1 \in 1..Len(A), ~IsBlank(A[c + 1])
      PROVE  ls # <<>> /\ Head(ls) = A[c + 1]
  <2>1. c + 1 \in (c + 1)..Len(A)
    BY <1>1, <1>4
  <2> QED
    BY <1>4, <2>1, LineRead
<1>5. CASE k < K
  <2>1. k + 1 \in 1..K /\ k + 1 \in 2..K /\ c + 1 = Before(d, i) + (k + 1)
    BY <1>1, <1>2, <1>5
  <2>2. c + 1 \in 1..Len(A) /\ A[c + 1] = HeaderLines(f)[k + 1]
    BY <2>1, HeaderStands
  <2>3. ~IsBlank(A[c + 1])
    BY <1>1, <2>1, <2>2, NotBlank
  <2> QED
    BY <1>4, <2>1, <2>2, <2>3
<1>6. CASE k = K /\ Len(f.hunks) # 0
  <2>1. 1 \in 1..Len(f.hunks) /\ c = Before(d, i) + Start(f, 1)
    BY <1>1, <1>3, <1>6
  <2>2. c + 1 \in 1..Len(A) /\ A[c + 1] = Line("@@")
    <3> DEFINE q == Before(d, i) + Start(f, 1) + 1
    <3>1. q \in 1..Len(A) /\ A[q] = Line("@@")
      BY <2>1, HunkStands
    <3>2. q = c + 1
      BY <2>1
    <3> HIDE DEF q, A
    <3> QED
      BY <3>1, <3>2
  <2>3. ~IsBlank(A[c + 1])
    BY <1>1, <2>2, NotBlank
  <2> QED
    BY <1>4, <1>6, <2>1, <2>2, <2>3
<1>7. CASE k = K /\ Len(f.hunks) = 0
  <2>1. Before(d, i + 1) = Before(d, i) + Start(f, Len(f.hunks) + 1)
    BY FileEnds
  <2>2. Len(f.hunks) + 1 = 1
    BY <1>7
  <2> QED
    BY <1>3, <1>7, <2>1, <2>2
<1>8. k < K \/ k = K
  BY <1>1
<1> QED
  BY <1>5, <1>6, <1>7, <1>8

\* The next line after line l of a hunk.
LEMMA NextOfHunk ==
  ASSUME NEW d \in Seq(Changed), NEW ls, NEW c \in 0..Len(AllLines(d)), Left(d, ls, c),
         NEW i \in 1..Len(d), NEW h \in 1..Len(d[i].hunks),
         NEW l \in 0..Len(d[i].hunks[h]), c = Before(d, i) + Start(d[i], h) + 1 + l
  PROVE  \/ /\ l + 1 \in 1..Len(d[i].hunks[h])
            /\ ls # <<>> /\ Head(ls) = ContentLine(d[i].hunks[h][l + 1])
         \/ /\ l = Len(d[i].hunks[h]) /\ h + 1 \in 1..Len(d[i].hunks)
            /\ c = Before(d, i) + Start(d[i], h + 1)
            /\ ls # <<>> /\ Head(ls) = Line("@@")
         \/ /\ l = Len(d[i].hunks[h]) /\ h = Len(d[i].hunks)
            /\ c = Before(d, i + 1)
         \/ /\ ls = <<>> /\ h = Len(d[i].hunks) /\ i = Len(d)
            /\ \A j \in (l + 1)..Len(d[i].hunks[h]) : IsBlank(ContentLine(d[i].hunks[h][j]))
<1> DEFINE A == AllLines(d)
           f == d[i]
           n == Len(f.hunks)
           b == f.hunks[h]
           s == Start(f, h)
           p == Before(d, i) + s + 1
<1>1. f \in Changed /\ Len(A) \in Nat /\ n \in Nat /\ Len(b) \in Nat /\ Len(d) \in Nat
  BY ChangesAre, AllLinesAre, HunksAre
<1>2. Before(d, i) \in Nat
  <2>1. i \in 1..(Len(d) + 1)
    BY <1>1
  <2> QED
    BY <2>1, AllLinesAre
<1>3. s \in Nat /\ Start(f, h + 1) = s + 1 + Len(b)
  <2>1. h \in 1..(n + 1)
    BY <1>1
  <2> QED
    BY <1>1, <2>1, StartIs
<1>4. \A j \in 1..Len(b) : p + j \in 1..Len(A) /\ A[p + j] = ContentLine(b[j])
  BY HunkStands
<1>a. c = p + l /\ l \in 0..Len(b) /\ h \in 1..n
  OBVIOUS
<1> HIDE DEF n, b, s
<1>b. p \in Nat /\ Before(d, i) + Start(f, h + 1) = p + Len(b)
  <2> DEFINE y == Len(b)
             x == Before(d, i)
  <2>1. x \in Nat /\ y \in Nat /\ s \in Nat /\ Start(f, h + 1) = s + 1 + y
    BY <1>1, <1>2, <1>3
  <2>2. p = x + s + 1
    OBVIOUS
  <2> HIDE DEF x, y, p
  <2>3. p \in Nat /\ x + Start(f, h + 1) = p + y
    BY <2>1, <2>2
  <2> QED
    BY <2>3 DEF x, y
<1> HIDE DEF p
<1>c. l \in Nat /\ Len(b) \in Nat /\ l <= Len(b)
  BY <1>a, <1>1
<1>d. c + 1 = p + (l + 1)
  BY <1>a, <1>b, <1>c, SMTT(30)
<1>5. CASE ls # <<>> /\ l < Len(b)
  <2>1. l + 1 \in 1..Len(b) /\ c + 1 = p + (l + 1)
    <3>1. l + 1 \in 1..Len(b)
      BY <1>c, <1>5
    <3>2. c + 1 = p + (l + 1)
      BY <1>d
    <3> QED
      BY <3>1, <3>2
  <2>2. Head(ls) = A[c + 1]
    BY <1>5, LineRead
  <2>3. A[c + 1] = ContentLine(b[l + 1])
    BY <1>4, <2>1
  <2> QED
    BY <1>5, <2>1, <2>2, <2>3 DEF b
<1>6. CASE l = Len(b) /\ h < n
  <2>1. h + 1 \in 1..n /\ c = Before(d, i) + Start(f, h + 1)
    <3>1. h + 1 \in 1..n
      BY <1>a, <1>1, <1>6
    <3>2. c = Before(d, i) + Start(f, h + 1)
      BY <1>a, <1>b, <1>6
    <3> QED
      BY <3>1, <3>2
  <2>2. c + 1 \in 1..Len(A) /\ A[c + 1] = Line("@@")
    <3>1. Before(d, i) + Start(f, h + 1) + 1 = c + 1
      BY <2>1
    <3> QED
      BY <2>1, <3>1, HunkStands DEF n
  <2>3. ~IsBlank(A[c + 1])
    BY <1>1, <2>2, NotBlank
  <2>4. c + 1 \in (c + 1)..Len(A)
    BY <1>1, <2>2
  <2>5. ls # <<>> /\ Head(ls) = A[c + 1]
    BY <2>3, <2>4, LineRead
  <2> QED
    BY <1>6, <2>1, <2>2, <2>5 DEF b, n
<1>7. CASE l = Len(b) /\ h = n
  <2>1. Before(d, i + 1) = Before(d, i) + Start(f, n + 1)
    BY FileEnds DEF n
  <2>2. c = Before(d, i + 1)
    <3>1. c = Before(d, i) + Start(f, h + 1)
      BY <1>a, <1>b, <1>7
    <3> QED
      BY <1>7, <2>1, <3>1
  <2> QED
    BY <1>7, <2>2 DEF b, n
<1>8. CASE ls = <<>> /\ l < Len(b)
  <2>1. \A q \in (c + 1)..Len(A) : IsBlank(A[q])
    BY <1>8, LineRead
  <2>a. c < p + Len(b)
    BY <1>a, <1>b, <1>c, <1>8
  <2>2. h = n
    <3>1. SUFFICES ASSUME h < n PROVE FALSE
      BY <1>a, <1>1
    <3>2. h + 1 \in 1..n
      BY <1>a, <1>1, <3>1
    <3> DEFINE q == Before(d, i) + Start(f, h + 1) + 1
    <3>3. q \in 1..Len(A) /\ A[q] = Line("@@")
      BY <3>2, HunkStands DEF n
    <3>4. ~IsBlank(A[q])
      BY <1>1, <3>3, NotBlank
    <3>5. q = (p + Len(b)) + 1
      BY <1>b
    <3> HIDE DEF q
    <3>6. q \in (c + 1)..Len(A)
      BY <1>b, <1>1, <2>a, <3>3, <3>5
    <3> QED
      BY <2>1, <3>4, <3>6
  <2>3. i = Len(d)
    <3>1. SUFFICES ASSUME i < Len(d) PROVE FALSE
      BY <1>1
    <3>2. i + 1 \in 1..Len(d)
      BY <1>1, <3>1
    <3> DEFINE q == Before(d, i + 1) + 1
    <3>3. d[i + 1] \in Changed
      BY <3>2, ChangesAre
    <3>4. 1 \in 1..Len(HeaderLines(d[i + 1]))
      <4>1. Len(HeaderLines(d[i + 1])) \in Nat \ {0}
        BY <3>3, HeaderIs
      <4> QED
        BY <4>1
    <3>5. q \in 1..Len(A) /\ A[q] = HeaderLines(d[i + 1])[1]
      BY <3>2, <3>4, HeaderStands
    <3>6. ~IsBlank(A[q])
      BY <3>3, <3>4, <3>5, NotBlank
    <3>7. Before(d, i + 1) = Before(d, i) + Start(f, h + 1)
      BY <2>2, FileEnds DEF n
    <3>8. q = (p + Len(b)) + 1
      BY <1>b, <3>7
    <3> HIDE DEF q
    <3>9. q \in (c + 1)..Len(A)
      BY <1>b, <1>1, <2>a, <3>5, <3>8
    <3> QED
      BY <2>1, <3>6, <3>9
  <2>4. ASSUME NEW j \in (l + 1)..Len(b) PROVE IsBlank(ContentLine(b[j]))
    <3>0. j \in 1..Len(b) /\ l + 1 <= j
      BY <1>c
    <3>1. j \in 1..Len(b) /\ c + 1 <= p + j
      <4>1. p \in Nat /\ l \in Nat
        BY <1>b, <1>c
      <4>2. c + 1 = p + (l + 1)
        BY <1>d
      <4> QED
        BY <3>0, <4>1, <4>2
    <3>2. p + j \in 1..Len(A) /\ A[p + j] = ContentLine(b[j])
      BY <1>4, <3>1
    <3>3. p + j \in (c + 1)..Len(A)
      BY <1>b, <1>1, <3>1, <3>2
    <3> QED
      BY <2>1, <3>2, <3>3
  <2> QED
    BY <1>8, <2>2, <2>3, <2>4 DEF b, n
<1>9. l < Len(b) \/ l = Len(b)
  BY <1>a, <1>1
<1>10. h < n \/ h = n
  BY <1>a, <1>1
<1> QED
  BY <1>5, <1>6, <1>7, <1>8, <1>9, <1>10

-----------------------------------------------------------------------------
(* The lines of a hunk *)

LEMMA PlaceIs ==
  ASSUME NEW h, NEW l \in Nat
  PROVE  /\ Place(h, l) \in Nat
         /\ l = 0 => Place(h, l) = 0
         /\ Place(h, l + 1) = Place(h, l) + (IF LooksLikeHeader(h[l + 1]) THEN 0 ELSE 1)
<1> DEFINE P(n) == {k \in 1..n : ~LooksLikeHeader(h[k])}
<1>1. \A n \in Nat : P(n) \in SUBSET (1..n) /\ IsFiniteSet(1..n)
  BY FS_Interval
<1>2. \A n \in Nat : IsFiniteSet(P(n)) /\ Cardinality(P(n)) \in Nat
  BY <1>1, FS_Subset, FS_CardinalityType
<1>3. l = 0 => Cardinality(P(l)) = 0
  <2>1. l = 0 => P(l) = {}
    OBVIOUS
  <2> QED
    BY <2>1, FS_EmptySet
<1>4. CASE LooksLikeHeader(h[l + 1])
  <2>1. P(l + 1) = P(l)
    BY <1>4
  <2> QED
    BY <1>2, <1>3, <1>4, <2>1 DEF Place
<1>5. CASE ~LooksLikeHeader(h[l + 1])
  <2>1. P(l + 1) = P(l) \cup {l + 1} /\ l + 1 \notin P(l)
    BY <1>5
  <2> HIDE DEF P
  <2>2. Cardinality(P(l + 1)) = Cardinality(P(l)) + 1
    BY <1>2, <2>1, FS_AddElement
  <2> QED
    BY <1>2, <1>3, <1>5, <2>2 DEF Place, P
<1> QED
  BY <1>4, <1>5

LEMMA PlacesGrow ==
  ASSUME NEW h, NEW n \in Nat, NEW j \in 0..n
  PROVE  Place(h, j) <= Place(h, n)
<1> DEFINE T == {m \in 0..n : j <= m => Place(h, j) <= Place(h, m)}
<1>0. \A m \in Nat : Place(h, m) \in Nat
  BY PlaceIs
<1>1. 0 \in T
  BY <1>0
<1>2. ASSUME NEW m \in 0..(n - 1), m \in T PROVE m + 1 \in T
  <2>1. Place(h, m + 1) = Place(h, m) + (IF LooksLikeHeader(h[m + 1]) THEN 0 ELSE 1)
    BY PlaceIs
  <2>2. Place(h, m) <= Place(h, m + 1)
    BY <1>0, <2>1
  <2>3. j <= m + 1 => j <= m \/ j = m + 1
    OBVIOUS
  <2>4. Place(h, m) \in Nat /\ Place(h, m + 1) \in Nat /\ Place(h, j) \in Nat
    BY <1>0
  <2> QED
    BY <1>2, <2>2, <2>3, <2>4
<1>3. \A m \in 0..n : m \in T
  <2> HIDE DEF T
  <2> QED
    BY <1>1, <1>2, CountingUp
<1>4. n \in T
  BY <1>3
<1> QED
  BY <1>4

\* A line that does not look like a header comes after all the lines before it.
LEMMA PlaceOfOther ==
  ASSUME NEW h, NEW l \in Nat, NEW j \in Nat, l < j, ~LooksLikeHeader(h[j])
  PROVE  Place(h, l) < Place(h, j)
<1>1. j - 1 \in Nat /\ (j - 1) + 1 = j /\ l \in 0..(j - 1)
  OBVIOUS
<1>2. Place(h, j) = Place(h, j - 1) + 1
  <2> DEFINE k == j - 1
  <2>1. k \in Nat /\ k + 1 = j
    BY <1>1
  <2> HIDE DEF k
  <2>2. Place(h, k + 1) = Place(h, k) + (IF LooksLikeHeader(h[k + 1]) THEN 0 ELSE 1)
    BY <2>1, PlaceIs
  <2> QED
    BY <2>1, <2>2 DEF k
<1>3. Place(h, l) <= Place(h, j - 1)
  BY <1>1, PlacesGrow
<1>4. Place(h, l) \in Nat /\ Place(h, j - 1) \in Nat
  BY <1>1, PlaceIs
<1> QED
  BY <1>2, <1>3, <1>4

LEMMA BodyBegins ==
  ASSUME NEW h
  PROVE  BodyUpto(<<>>, h, 0)
<1>1. Place(h, 0) = 0
  BY PlaceIs
<1> QED
  BY <1>1, NoElements DEF BodyUpto

LEMMA BodySkips ==
  ASSUME NEW h, NEW l \in Nat, NEW body, BodyUpto(body, h, l), LooksLikeHeader(h[l + 1])
  PROVE  BodyUpto(body, h, l + 1)
<1>1. Place(h, l + 1) = Place(h, l)
  BY PlaceIs
<1>2. \A j \in 1..(l + 1) : j \in 1..l \/ j = l + 1
  OBVIOUS
<1> QED
  BY <1>1, <1>2 DEF BodyUpto

LEMMA BodyTakes ==
  ASSUME NEW h, NEW l \in Nat, NEW body, BodyUpto(body, h, l), ~LooksLikeHeader(h[l + 1])
  PROVE  BodyUpto(Append(body, h[l + 1]), h, l + 1)
<1> DEFINE e == h[l + 1]
           t == Append(body, e)
<1>1. Place(h, l + 1) = Place(h, l) + 1 /\ Place(h, l) \in Nat
  BY PlaceIs
<1>2. IsSeq(body) /\ Len(body) = Place(h, l)
  BY DEF BodyUpto
<1>3. t = body \o <<e>>
  BY <1>2, AppendIsJoined
<1> DEFINE r == <<e>>
<1>4. IsSeq(r) /\ Len(r) = 1 /\ r[1] = e
  BY OneElement
<1> HIDE DEF r, t
<1>5. Joined(t, body, r)
  BY <1>2, <1>3, <1>4, JoinIs DEF r
<1>6. IsSeq(t) /\ Len(t) = Place(h, l + 1)
  BY <1>1, <1>2, <1>4, <1>5 DEF Joined
<1>7. ASSUME NEW j \in 1..(l + 1), ~LooksLikeHeader(h[j]) PROVE t[Place(h, j)] = h[j]
  <2>1. CASE j = l + 1
    <3>1. t[Len(body) + 1] = e
      BY <1>4, <1>5 DEF Joined
    <3> QED
      BY <1>1, <1>2, <2>1, <3>1
  <2>2. CASE j \in 1..l
    <3>1. body[Place(h, j)] = h[j]
      BY <1>7, <2>2 DEF BodyUpto
    <3>2. Place(h, j) \in 1..Len(body)
      <4>1. Place(h, j) <= Place(h, l)
        <5>1. j \in 0..l
          BY <2>2
        <5> QED
          BY <5>1, PlacesGrow
      <4>2. Place(h, 0) < Place(h, j)
        <5>1. 0 \in Nat /\ j \in Nat /\ 0 < j
          BY <2>2
        <5> QED
          BY <1>7, <5>1, PlaceOfOther
      <4>3. Place(h, 0) = 0 /\ Place(h, j) \in Nat
        BY PlaceIs
      <4> QED
        BY <1>1, <1>2, <4>1, <4>2, <4>3
    <3> QED
      BY <1>5, <3>1, <3>2 DEF Joined
  <2> QED
    BY <2>1, <2>2
<1>8. BodyUpto(t, h, l + 1)
  BY <1>6, <1>7 DEF BodyUpto
<1> QED
  BY <1>8 DEF t

\* A hunk is read when there is nothing left of it but blank lines.
LEMMA BodyEnds ==
  ASSUME NEW h, IsSeq(h), NEW l \in 0..Len(h), NEW body, BodyUpto(body, h, l),
         \A j \in (l + 1)..Len(h) : IsBlank(ContentLine(h[j]))
  PROVE  BodyOfOthers(body, h)
<1>1. Len(h) \in Nat /\ DOMAIN h = 1..Len(h)
  BY SeqIs
<1>2. Len(body) = Place(h, l)
  BY DEF BodyUpto
<1>3. Len(body) <= Place(h, Len(h))
  BY <1>1, <1>2, PlacesGrow
<1>4. ASSUME NEW j \in DOMAIN h, ~LooksLikeHeader(h[j])
      PROVE  IF Place(h, j) <= Len(body) THEN body[Place(h, j)] = h[j]
             ELSE h[j].sign = " " /\ h[j].text = "blank"
  <2>1. CASE j <= l
    <3>1. j \in 1..l /\ j \in 0..l /\ l \in Nat
      BY <1>1, <2>1
    <3>2. Place(h, j) <= Len(body)
      BY <1>2, <3>1, PlacesGrow
    <3>3. body[Place(h, j)] = h[j]
      BY <1>4, <3>1 DEF BodyUpto
    <3> QED
      BY <3>2, <3>3
  <2>2. CASE l < j
    <3>1. j \in Nat /\ l \in Nat /\ j \in (l + 1)..Len(h)
      BY <1>1, <2>2
    <3>2. Place(h, l) < Place(h, j)
      BY <1>4, <2>2, <3>1, PlaceOfOther
    <3>3. Place(h, l) \in Nat /\ Place(h, j) \in Nat
      BY <3>1, PlaceIs
    <3>4. ~(Place(h, j) <= Len(body))
      BY <1>2, <3>2, <3>3
    <3>5. IsBlank(ContentLine(h[j]))
      BY <3>1
    <3>6. h[j].sign = " " /\ h[j].text = "blank"
      BY <3>5 DEF IsBlank, ContentLine
    <3> QED
      BY <3>4, <3>6
  <2>3. j <= l \/ l < j
    BY <1>1
  <2> QED
    BY <2>1, <2>2, <2>3
<1> QED
  BY <1>3, <1>4 DEF BodyOfOthers

-----------------------------------------------------------------------------
(* The hunks of a file *)

FileShaped(g) == g = [path |-> g.path, change |-> g.change, hunks |-> g.hunks]

\* flushHunk: hunks hs go to file g, which makes it k.
Gets(k, g, hs) == k = [g EXCEPT !.hunks = @ \o hs]

LEMMA HunkKept ==
  ASSUME NEW f, NEW n \in Nat, NEW g, FileShaped(g), FileUpto(g, f, n),
         NEW x, BodyOfOthers(x.body, f.hunks[n + 1]),
         NEW k, Gets(k, g, <<x>>)
  PROVE  FileShaped(k) /\ FileUpto(k, f, n + 1) /\ k.change = g.change
<1> DEFINE hs == g.hunks
           r == <<x>>
           t == hs \o r
<1>1. IsSeq(hs) /\ Len(hs) = n /\ \A h \in 1..n : BodyOfOthers(hs[h].body, f.hunks[h])
  BY DEF FileUpto
<1>2. IsSeq(r) /\ Len(r) = 1 /\ r[1] = x
  BY OneElement
<1>3. k = [path |-> g.path, change |-> g.change, hunks |-> t]
  BY DEF FileShaped, Gets
<1> HIDE DEF hs, r
<1>4. Joined(t, hs, r)
  BY <1>1, <1>2, JoinIs
<1> HIDE DEF t
<1>5. /\ IsSeq(t) /\ Len(t) = n + 1 /\ t[n + 1] = x
      /\ \A h \in 1..n : t[h] = hs[h]
  BY <1>1, <1>2, <1>4 DEF Joined
<1>6. \A h \in 1..(n + 1) : BodyOfOthers(t[h].body, f.hunks[h])
  <2>1. \A h \in 1..(n + 1) : h \in 1..n \/ h = n + 1
    OBVIOUS
  <2> QED
    BY <1>1, <1>5, <2>1
<1>7. k.path = g.path /\ k.change = g.change /\ k.hunks = t
  BY <1>3
<1>8. g.path = Printed(f.path) \/ TakesPath(f)
  BY DEF FileUpto
<1>9. FileShaped(k)
  BY <1>3 DEF FileShaped
<1> QED
  BY <1>5, <1>6, <1>7, <1>8, <1>9 DEF FileUpto

\* flushHunk without a hunk.
LEMMA NoHunkKept ==
  ASSUME NEW f, NEW n, NEW g, FileShaped(g), FileUpto(g, f, n),
         NEW k, Gets(k, g, <<>>)
  PROVE  k = g
<1>1. IsSeq(g.hunks)
  BY DEF FileUpto
<1>2. PICK S : g.hunks \in Seq(S)
  BY <1>1 DEF IsSeq
<1>3. g.hunks \o <<>> = g.hunks
  BY <1>2, ConcatEmptySeq
<1> QED
  BY <1>3 DEF FileShaped, Gets

\* WithHunk, for no file and for one.
LEMMA WithHunkIs ==
  /\ cur = <<>> => WithHunk = <<>>
  /\ cur = <<cur[1]>> => WithHunk = <<[cur[1] EXCEPT !.hunks = @ \o hb]>>
<1>1. ASSUME cur = <<>> PROVE WithHunk = <<>>
  <2>1. DOMAIN cur = {}
    BY <1>1, NoElements
  <2>2. IsSeq(WithHunk) /\ Len(WithHunk) = 0
    <3>1. DOMAIN WithHunk = 1..0 /\ WithHunk = [i \in 1..0 |-> WithHunk[i]]
      BY <2>1 DEF WithHunk
    <3> QED
      BY <3>1, ListIs
  <2> QED
    BY <2>2, EmptySeq DEF IsSeq
<1>2. ASSUME cur = <<cur[1]>> PROVE WithHunk = <<[cur[1] EXCEPT !.hunks = @ \o hb]>>
  <2> DEFINE e == [cur[1] EXCEPT !.hunks = @ \o hb]
             s == <<e>>
  <2>1. DOMAIN cur = {1}
    BY <1>2, OneElement
  <2>2. WithHunk = [i \in {1} |-> e]
    BY <2>1 DEF WithHunk
  <2> HIDE DEF e
  <2>3. s = [i \in {1} |-> e]
    OBVIOUS
  <2> QED
    BY <2>2, <2>3 DEF e
<1> QED
  BY <1>1, <1>2

-----------------------------------------------------------------------------
(* Which line is next *)

\* The next line of a header, the line before the first hunk or another one, a
\* line of a hunk, and the end of a file, of which i - 1 were read.
HeaderNext(d, ls, c, cu, hu, fs) ==
  \E i \in 1..Len(d) : \E k \in 1..Len(HeaderLines(d[i])) :
    /\ InHeader(d, c, cu, hu, fs, i, k)
    /\ k + 1 \in 2..Len(HeaderLines(d[i])) /\ Head(ls) = HeaderLines(d[i])[k + 1]

FirstHunkNext(d, ls, c, cu, hu, fs) ==
  \E i \in 1..Len(d) :
    /\ InHeader(d, c, cu, hu, fs, i, Len(HeaderLines(d[i])))
    /\ 1 \in 1..Len(d[i].hunks) /\ c = Before(d, i) + Start(d[i], 1)
    /\ Head(ls) = Line("@@")

HunkNext(d, ls, c, cu, hu, fs) ==
  \E i \in 1..Len(d) : \E h \in 1..Len(d[i].hunks) :
    /\ InHunk(d, c, cu, hu, fs, i, h, Len(d[i].hunks[h]))
    /\ h + 1 \in 1..Len(d[i].hunks) /\ c = Before(d, i) + Start(d[i], h + 1)
    /\ Head(ls) = Line("@@")

ContentNext(d, ls, c, cu, hu, fs) ==
  \E i \in 1..Len(d) : \E h \in 1..Len(d[i].hunks) : \E l \in 0..Len(d[i].hunks[h]) :
    /\ InHunk(d, c, cu, hu, fs, i, h, l)
    /\ l + 1 \in 1..Len(d[i].hunks[h]) /\ Head(ls) = ContentLine(d[i].hunks[h][l + 1])

FileNext(d, c, cu, hu, fs) ==
  \/ /\ c = Before(d, 1)
     /\ cu = <<>> /\ fs = <<>>
  \/ \E i \in 1..Len(d) :
       /\ InHeader(d, c, cu, hu, fs, i, Len(HeaderLines(d[i])))
       /\ Len(d[i].hunks) = 0 /\ c = Before(d, i + 1)
  \/ \E i \in 1..Len(d) : \E h \in 1..Len(d[i].hunks) :
       /\ InHunk(d, c, cu, hu, fs, i, h, Len(d[i].hunks[h]))
       /\ h = Len(d[i].hunks) /\ c = Before(d, i + 1)

\* No line is left, of the last hunk.
CutNext(d, c, cu, hu, fs) ==
  \E h \in 1..Len(d[Len(d)].hunks) : \E l \in 0..Len(d[Len(d)].hunks[h]) :
    /\ Len(d) # 0
    /\ InHunk(d, c, cu, hu, fs, Len(d), h, l)
    /\ h = Len(d[Len(d)].hunks)
    /\ \A j \in (l + 1)..Len(d[Len(d)].hunks[h]) :
         IsBlank(ContentLine(d[Len(d)].hunks[h][j]))

LEMMA WhatIsNext ==
  ASSUME NEW d \in Seq(Changed), NEW ls, NEW cu, NEW hu, NEW fs, Reading(d, ls, cu, hu, fs)
  PROVE  \E c \in 0..Len(AllLines(d)) :
           /\ Left(d, ls, c)
           /\ \/ FileNext(d, c, cu, hu, fs)
              \/ ls = <<>> /\ CutNext(d, c, cu, hu, fs)
              \/ /\ ls # <<>>
                 /\ \/ HeaderNext(d, ls, c, cu, hu, fs) \/ FirstHunkNext(d, ls, c, cu, hu, fs)
                    \/ HunkNext(d, ls, c, cu, hu, fs) \/ ContentNext(d, ls, c, cu, hu, fs)
<1>1. PICK c \in 0..Len(AllLines(d)) :
        /\ Left(d, ls, c)
        /\ \/ Outside(c, cu, hu, fs)
           \/ \E i \in DOMAIN d : \E k \in 1..Len(HeaderLines(d[i])) :
                InHeader(d, c, cu, hu, fs, i, k)
           \/ \E i \in DOMAIN d : \E h \in DOMAIN d[i].hunks : \E l \in 0..Len(d[i].hunks[h]) :
                InHunk(d, c, cu, hu, fs, i, h, l)
  BY DEF Reading
<1> SUFFICES \/ FileNext(d, c, cu, hu, fs)
             \/ ls = <<>> /\ CutNext(d, c, cu, hu, fs)
             \/ /\ ls # <<>>
                /\ \/ HeaderNext(d, ls, c, cu, hu, fs) \/ FirstHunkNext(d, ls, c, cu, hu, fs)
                   \/ HunkNext(d, ls, c, cu, hu, fs) \/ ContentNext(d, ls, c, cu, hu, fs)
  BY <1>1
<1>0. Left(d, ls, c)
  BY <1>1
<1>2. DOMAIN d = 1..Len(d) /\ Len(d) \in Nat /\ \A i \in 1..Len(d) : d[i] \in Changed
  BY ChangesAre
<1>3. CASE Outside(c, cu, hu, fs)
  BY <1>3, AllLinesAre DEF Outside, FileNext
<1>4. ASSUME NEW i \in 1..Len(d), NEW k \in 1..Len(HeaderLines(d[i])),
             InHeader(d, c, cu, hu, fs, i, k)
      PROVE  \/ FileNext(d, c, cu, hu, fs)
             \/ ls # <<>> /\ HeaderNext(d, ls, c, cu, hu, fs)
             \/ ls # <<>> /\ FirstHunkNext(d, ls, c, cu, hu, fs)
  <2>1. c = Before(d, i) + k
    BY <1>4 DEF InHeader
  <2>2. \/ /\ k + 1 \in 2..Len(HeaderLines(d[i]))
           /\ ls # <<>> /\ Head(ls) = HeaderLines(d[i])[k + 1]
        \/ /\ k = Len(HeaderLines(d[i])) /\ 1 \in 1..Len(d[i].hunks)
           /\ c = Before(d, i) + Start(d[i], 1)
           /\ ls # <<>> /\ Head(ls) = Line("@@")
        \/ /\ k = Len(HeaderLines(d[i])) /\ Len(d[i].hunks) = 0
           /\ c = Before(d, i + 1)
    BY <1>0, <2>1, NextOfHeader
  <2> QED
    BY <1>4, <2>2 DEF FileNext, HeaderNext, FirstHunkNext
<1>5. ASSUME NEW i \in 1..Len(d), NEW h \in 1..Len(d[i].hunks),
             NEW l \in 0..Len(d[i].hunks[h]), InHunk(d, c, cu, hu, fs, i, h, l)
      PROVE  \/ FileNext(d, c, cu, hu, fs)
             \/ ls = <<>> /\ CutNext(d, c, cu, hu, fs)
             \/ ls # <<>> /\ HunkNext(d, ls, c, cu, hu, fs)
             \/ ls # <<>> /\ ContentNext(d, ls, c, cu, hu, fs)
  <2>1. c = Before(d, i) + Start(d[i], h) + 1 + l
    BY <1>5 DEF InHunk
  <2>2. \/ /\ l + 1 \in 1..Len(d[i].hunks[h])
           /\ ls # <<>> /\ Head(ls) = ContentLine(d[i].hunks[h][l + 1])
        \/ /\ l = Len(d[i].hunks[h]) /\ h + 1 \in 1..Len(d[i].hunks)
           /\ c = Before(d, i) + Start(d[i], h + 1)
           /\ ls # <<>> /\ Head(ls) = Line("@@")
        \/ /\ l = Len(d[i].hunks[h]) /\ h = Len(d[i].hunks)
           /\ c = Before(d, i + 1)
        \/ /\ ls = <<>> /\ h = Len(d[i].hunks) /\ i = Len(d)
           /\ \A j \in (l + 1)..Len(d[i].hunks[h]) : IsBlank(ContentLine(d[i].hunks[h][j]))
    BY <1>0, <2>1, NextOfHunk
  <2>3. CASE /\ ls = <<>> /\ h = Len(d[i].hunks) /\ i = Len(d)
             /\ \A j \in (l + 1)..Len(d[i].hunks[h]) : IsBlank(ContentLine(d[i].hunks[h][j]))
    <3>1. Len(d) # 0
      BY <1>2
    <3> QED
      BY <1>5, <2>3, <3>1 DEF CutNext
  <2>4. CASE /\ l + 1 \in 1..Len(d[i].hunks[h])
             /\ ls # <<>> /\ Head(ls) = ContentLine(d[i].hunks[h][l + 1])
    BY <1>5, <2>4 DEF ContentNext
  <2>5. CASE /\ l = Len(d[i].hunks[h]) /\ h + 1 \in 1..Len(d[i].hunks)
             /\ c = Before(d, i) + Start(d[i], h + 1)
             /\ ls # <<>> /\ Head(ls) = Line("@@")
    BY <1>5, <2>5 DEF HunkNext
  <2>6. CASE /\ l = Len(d[i].hunks[h]) /\ h = Len(d[i].hunks)
             /\ c = Before(d, i + 1)
    BY <1>5, <2>6 DEF FileNext
  <2> QED
    BY <2>2, <2>3, <2>4, <2>5, <2>6
<1>6. CASE \E i \in DOMAIN d : \E k \in 1..Len(HeaderLines(d[i])) :
             InHeader(d, c, cu, hu, fs, i, k)
  <2>1. PICK i \in 1..Len(d) : \E k \in 1..Len(HeaderLines(d[i])) :
             InHeader(d, c, cu, hu, fs, i, k)
    BY <1>2, <1>6
  <2>2. PICK k \in 1..Len(HeaderLines(d[i])) : InHeader(d, c, cu, hu, fs, i, k)
    BY <2>1
  <2> QED
    BY <1>4, <2>2
<1>7. CASE \E i \in DOMAIN d : \E h \in DOMAIN d[i].hunks : \E l \in 0..Len(d[i].hunks[h]) :
             InHunk(d, c, cu, hu, fs, i, h, l)
  <2>1. PICK i \in 1..Len(d) : \E h \in DOMAIN d[i].hunks : \E l \in 0..Len(d[i].hunks[h]) :
             InHunk(d, c, cu, hu, fs, i, h, l)
    BY <1>2, <1>7
  <2>2. DOMAIN d[i].hunks = 1..Len(d[i].hunks)
    BY <1>2, HunksAre
  <2>3. PICK h \in 1..Len(d[i].hunks) : \E l \in 0..Len(d[i].hunks[h]) :
             InHunk(d, c, cu, hu, fs, i, h, l)
    BY <2>1, <2>2
  <2>4. PICK l \in 0..Len(d[i].hunks[h]) : InHunk(d, c, cu, hu, fs, i, h, l)
    BY <2>3
  <2> QED
    BY <1>5, <2>4
<1> QED
  BY <1>1, <1>3, <1>6, <1>7

\* The kind of the next line tells which of these it is.
LEMMA KindOfNext ==
  ASSUME NEW d \in Seq(Changed), NEW ls, NEW c, NEW cu, NEW hu, NEW fs
  PROVE  /\ HeaderNext(d, ls, c, cu, hu, fs) => Head(ls).kind \in HeaderKinds
         /\ FirstHunkNext(d, ls, c, cu, hu, fs) => Head(ls).kind = "@@"
         /\ HunkNext(d, ls, c, cu, hu, fs) => Head(ls).kind = "@@"
         /\ ContentNext(d, ls, c, cu, hu, fs) => Head(ls).kind \in {"---", "+++", "content"}
<1>1. \A i \in 1..Len(d) : d[i] \in Changed
  BY ChangesAre
<1>2. Line("@@").kind = "@@"
  BY LineIs
<1>3. ASSUME HeaderNext(d, ls, c, cu, hu, fs) PROVE Head(ls).kind \in HeaderKinds
  <2>1. PICK i \in 1..Len(d) : \E k \in 1..Len(HeaderLines(d[i])) :
          k + 1 \in 2..Len(HeaderLines(d[i])) /\ Head(ls) = HeaderLines(d[i])[k + 1]
    BY <1>3 DEF HeaderNext
  <2>2. HeaderLineOf(d[i], Head(ls))
    BY <1>1, <2>1, HeaderIs
  <2> QED
    BY <2>2 DEF HeaderLineOf
<1>4. ASSUME ContentNext(d, ls, c, cu, hu, fs) PROVE Head(ls).kind \in {"---", "+++", "content"}
  <2>a. PICK i \in 1..Len(d) : \E h \in 1..Len(d[i].hunks) : \E l \in 0..Len(d[i].hunks[h]) :
          l + 1 \in 1..Len(d[i].hunks[h]) /\ Head(ls) = ContentLine(d[i].hunks[h][l + 1])
    BY <1>4 DEF ContentNext
  <2>b. PICK h \in 1..Len(d[i].hunks) : \E l \in 0..Len(d[i].hunks[h]) :
          l + 1 \in 1..Len(d[i].hunks[h]) /\ Head(ls) = ContentLine(d[i].hunks[h][l + 1])
    BY <2>a
  <2>1. PICK l \in 0..Len(d[i].hunks[h]) :
          l + 1 \in 1..Len(d[i].hunks[h]) /\ Head(ls) = ContentLine(d[i].hunks[h][l + 1])
    BY <2>b
  <2> DEFINE e == d[i].hunks[h][l + 1]
  <2>2. e \in Contents
    BY <1>1, <2>1, HunksAre
  <2> HIDE DEF e
  <2>3. Head(ls).kind = ContentKind(e)
    <3>1. Head(ls) = ContentLine(e)
      BY <2>1 DEF e
    <3>2. ContentLine(e).kind = ContentKind(e)
      BY LineIs
    <3> QED
      BY <3>1, <3>2
  <2> QED
    BY <2>2, <2>3, KindOfContent
<1> QED
  BY <1>2, <1>3, <1>4 DEF FirstHunkNext, HunkNext

-----------------------------------------------------------------------------
(* What one line more makes of what was read *)

LEMMA ReadsHeader ==
  ASSUME NEW d \in Seq(Changed), NEW ls, NEW cu, NEW hu, NEW fs,
         NEW c \in 0..Len(AllLines(d)), Left(d, ls, c),
         NEW i \in 1..Len(d), NEW k \in 1..Len(HeaderLines(d[i])),
         InHeader(d, c, cu, hu, fs, i, k)
  PROVE  Reading(d, ls, cu, hu, fs)
<1>1. i \in DOMAIN d
  BY ChangesAre
<1> QED
  BY <1>1 DEF Reading

LEMMA ReadsHunk ==
  ASSUME NEW d \in Seq(Changed), NEW ls, NEW cu, NEW hu, NEW fs,
         NEW c \in 0..Len(AllLines(d)), Left(d, ls, c),
         NEW i \in 1..Len(d), NEW h \in 1..Len(d[i].hunks), NEW l \in 0..Len(d[i].hunks[h]),
         InHunk(d, c, cu, hu, fs, i, h, l)
  PROVE  Reading(d, ls, cu, hu, fs)
<1>1. i \in DOMAIN d /\ d[i] \in Changed
  BY ChangesAre
<1>2. h \in DOMAIN d[i].hunks
  BY <1>1, HunksAre
<1> QED
  BY <1>1, <1>2 DEF Reading

\* File g is what line l makes of the file was: it may set the path and the change.
Took(g, was, l) ==
  /\ g.hunks = was.hunks
  /\ \/ g.path = was.path
     \/ l.kind = "+++" /\ l.path # "/dev/null" /\ g.path = l.path
  /\ \/ l.kind = "new file" /\ g.change = "added"
     \/ l.kind = "deleted file" /\ g.change = "deleted"
     \/ l.kind = "rename" /\ g.change = "renamed"
     \/ ~SetsChange(l) /\ g.change = was.change

\* The same of a hunk.
TookContent(x, was, l) ==
  x.body = IF l.kind = "content" THEN Append(was.body, l.body) ELSE was.body

\* A line of a header after the first: it sets the change, gives the path or does
\* nothing.
LEMMA HeaderReads ==
  ASSUME NEW d \in Seq(Changed), NEW ls, ls # <<>>, NEW cu, NEW hu, NEW fs,
         NEW c \in 0..Len(AllLines(d)), Left(d, ls, c),
         HeaderNext(d, ls, c, cu, hu, fs),
         NEW g, Took(g, cu[1], Head(ls))
  PROVE  Reading(d, Tail(ls), <<g>>, hu, fs)
<1> DEFINE e == Head(ls)
<1>1. PICK i \in 1..Len(d) : \E k \in 1..Len(HeaderLines(d[i])) :
        /\ InHeader(d, c, cu, hu, fs, i, k)
        /\ k + 1 \in 2..Len(HeaderLines(d[i])) /\ e = HeaderLines(d[i])[k + 1]
  BY DEF HeaderNext
<1>2. PICK k \in 1..Len(HeaderLines(d[i])) :
        /\ InHeader(d, c, cu, hu, fs, i, k)
        /\ k + 1 \in 2..Len(HeaderLines(d[i])) /\ e = HeaderLines(d[i])[k + 1]
  BY <1>1
<1> DEFINE f == d[i]
           H == HeaderLines(f)
<1>3. f \in Changed
  BY ChangesAre
<1>4. HeaderLineOf(f, e)
  BY <1>2, <1>3, HeaderIs
<1>5. c + 1 \in 0..Len(AllLines(d)) /\ Left(d, Tail(ls), c + 1)
  BY LineRead
<1>6. /\ c = Before(d, i) + k /\ FilesRead(fs, d, i - 1)
      /\ FileUpto(cu[1], f, 0) /\ cu[1].change = ChangeUpto(f, k) /\ hu = <<>>
  BY <1>2 DEF InHeader
<1> HIDE DEF e
<1>7. g.path = Printed(f.path) \/ TakesPath(f)
  <2>1. CASE g.path = cu[1].path
    BY <1>6, <2>1 DEF FileUpto
  <2>2. CASE e.kind = "+++" /\ e.path # "/dev/null" /\ g.path = e.path
    <3>1. e.path \in {"/dev/null", Printed(f.path)}
      BY <1>4, <2>2 DEF HeaderLineOf
    <3> QED
      BY <2>2, <3>1
  <2> QED
    BY <2>1, <2>2 DEF e, Took
<1>8. FileUpto(g, f, 0)
  <2>1. g.hunks = cu[1].hunks
    BY DEF Took
  <2> QED
    BY <1>6, <1>7, <2>1 DEF FileUpto
<1>9. g.change = ChangeUpto(f, k + 1)
  <2>0. H[k + 1] = e /\ k + 1 \in 2..(k + 1)
    BY <1>2
  <2>1. CASE SetsChange(e)
    <3>1. g.change = f.change
      <4>1. \/ e.kind = "new file" /\ g.change = "added"
            \/ e.kind = "deleted file" /\ g.change = "deleted"
            \/ e.kind = "rename" /\ g.change = "renamed"
        BY <2>1 DEF Took, e
      <4>2. /\ e.kind = "new file" => f.change = "added"
            /\ e.kind = "deleted file" => f.change = "deleted"
            /\ e.kind = "rename" => f.change = "renamed"
        BY <1>4 DEF HeaderLineOf
      <4>3. CASE e.kind = "new file" /\ g.change = "added"
        BY <4>2, <4>3
      <4>4. CASE e.kind = "deleted file" /\ g.change = "deleted"
        BY <4>2, <4>4
      <4>5. CASE e.kind = "rename" /\ g.change = "renamed"
        BY <4>2, <4>5
      <4> QED
        BY <4>1, <4>3, <4>4, <4>5
    <3>2. \E j \in 2..(k + 1) : SetsChange(H[j])
      BY <2>0, <2>1
    <3> QED
      BY <3>1, <3>2 DEF ChangeUpto
  <2>2. CASE ~SetsChange(e)
    <3>1. g.change = cu[1].change
      BY <2>2 DEF SetsChange, Took, e
    <3>2. \A j \in 2..(k + 1) : j \in 2..k \/ j = k + 1
      OBVIOUS
    <3>3. \A j \in 2..k : j \in 2..(k + 1)
      OBVIOUS
    <3>4. (\E j \in 2..(k + 1) : SetsChange(H[j])) <=> (\E j \in 2..k : SetsChange(H[j]))
      BY <2>0, <2>2, <3>2, <3>3
    <3> QED
      BY <1>6, <3>1, <3>4 DEF ChangeUpto
  <2> QED
    BY <2>1, <2>2
<1>10. c + 1 = Before(d, i) + (k + 1)
  <2>1. i \in 1..(Len(d) + 1)
    BY ChangesAre
  <2>2. Before(d, i) \in Nat
    BY <2>1, AllLinesAre
  <2> QED
    BY <1>6, <2>2
<1> DEFINE cv == <<g>>
<1>11. cv[1] = g /\ cv = <<cv[1]>>
  BY OneElement
<1>12. k + 1 \in 1..Len(H)
  BY <1>2
<1> HIDE DEF cv
<1>13. InHeader(d, c + 1, cv, hu, fs, i, k + 1)
  BY <1>6, <1>8, <1>9, <1>10, <1>11 DEF InHeader
<1>14. Reading(d, Tail(ls), cv, hu, fs)
  BY <1>5, <1>12, <1>13, ReadsHeader
<1> QED
  BY <1>14 DEF cv

LEMMA OneLineMore ==
  ASSUME NEW p \in Nat, NEW q \in Nat, NEW l \in Nat, NEW c, c = p + q + 1 + l
  PROVE  c + 1 = p + q + 1 + (l + 1)
OBVIOUS

\* A line of a hunk: one that looks like a header is left out, and may be taken
\* for the path.
LEMMA ContentReads ==
  ASSUME NEW d \in Seq(Changed), NEW ls, ls # <<>>, NEW cu, NEW hu, NEW fs,
         NEW c \in 0..Len(AllLines(d)), Left(d, ls, c),
         ContentNext(d, ls, c, cu, hu, fs),
         NEW g, Took(g, cu[1], Head(ls)), NEW x, TookContent(x, hu[1], Head(ls))
  PROVE  Reading(d, Tail(ls), <<g>>, <<x>>, fs)
<1>1. PICK i \in 1..Len(d) : \E h \in 1..Len(d[i].hunks) : \E l \in 0..Len(d[i].hunks[h]) :
        /\ InHunk(d, c, cu, hu, fs, i, h, l)
        /\ l + 1 \in 1..Len(d[i].hunks[h]) /\ Head(ls) = ContentLine(d[i].hunks[h][l + 1])
  BY DEF ContentNext
<1>2. PICK h \in 1..Len(d[i].hunks) : \E l \in 0..Len(d[i].hunks[h]) :
        /\ InHunk(d, c, cu, hu, fs, i, h, l)
        /\ l + 1 \in 1..Len(d[i].hunks[h]) /\ Head(ls) = ContentLine(d[i].hunks[h][l + 1])
  BY <1>1
<1>3. PICK l \in 0..Len(d[i].hunks[h]) :
        /\ InHunk(d, c, cu, hu, fs, i, h, l)
        /\ l + 1 \in 1..Len(d[i].hunks[h]) /\ Head(ls) = ContentLine(d[i].hunks[h][l + 1])
  BY <1>2
<1> DEFINE f == d[i]
           b == f.hunks[h]
           e == b[l + 1]
<1>4. /\ f \in Changed /\ IsSeq(b) /\ DOMAIN b = 1..Len(b) /\ DOMAIN f.hunks = 1..Len(f.hunks)
      /\ Len(b) \in Nat
  BY ChangesAre, HunksAre
<1>5. c + 1 \in 0..Len(AllLines(d)) /\ Left(d, Tail(ls), c + 1)
  BY LineRead
<1>6. /\ c = Before(d, i) + Start(f, h) + 1 + l /\ FilesRead(fs, d, i - 1)
      /\ FileUpto(cu[1], f, h - 1) /\ cu[1].change = f.change
      /\ BodyUpto(hu[1].body, b, l)
  BY <1>3 DEF InHunk
<1>7. Head(ls).kind = ContentKind(e) /\ Head(ls).body = e
  <2> DEFINE z == e
  <2>1. Head(ls) = ContentLine(z)
    BY <1>3
  <2> HIDE DEF z
  <2>2. ContentLine(z).kind = ContentKind(z) /\ ContentLine(z).body = z
    BY LineIs
  <2>3. Head(ls).kind = ContentKind(z) /\ Head(ls).body = z
    BY <2>1, <2>2
  <2> QED
    BY <2>3 DEF z
<1>8. l + 1 \in DOMAIN b /\ h \in DOMAIN f.hunks
  BY <1>3, <1>4
<1>9. FileUpto(g, f, h - 1)
  <2>a. g.hunks = cu[1].hunks /\ (g.path = cu[1].path \/ Head(ls).kind = "+++")
    BY DEF Took
  <2>1. g.path = Printed(f.path) \/ TakesPath(f)
    <3>1. CASE g.path = cu[1].path
      BY <1>6, <3>1 DEF FileUpto
    <3>2. CASE Head(ls).kind = "+++"
      <4>1. ContentKind(f.hunks[h][l + 1]) = "+++"
        BY <1>7, <3>2
      <4>2. TakesPath(f)
        BY <1>8, <4>1 DEF TakesPath
      <4> QED
        BY <4>2
    <3> QED
      BY <2>a, <3>1, <3>2
  <2> QED
    BY <1>6, <2>a, <2>1 DEF FileUpto
<1>10. BodyUpto(x.body, b, l + 1)
  <2>0. LooksLikeHeader(e) <=> Head(ls).kind # "content"
    BY <1>7 DEF LooksLikeHeader
  <2>1. CASE LooksLikeHeader(e)
    <3>1. x.body = hu[1].body
      BY <2>0, <2>1 DEF TookContent
    <3> QED
      BY <1>6, <2>1, <3>1, BodySkips
  <2>2. CASE ~LooksLikeHeader(e)
    <3>1. x.body = Append(hu[1].body, e)
      BY <1>7, <2>0, <2>2 DEF TookContent
    <3>2. BodyUpto(hu[1].body, b, l) /\ l \in Nat
      BY <1>4, <1>6
    <3> DEFINE y == hu[1].body
    <3>3. BodyUpto(Append(y, e), b, l + 1)
      <4> HIDE DEF b, y
      <4> QED
        BY <2>2, <3>2, BodyTakes DEF y
    <3> QED
      BY <3>1, <3>3
  <2> QED
    BY <2>1, <2>2
<1>a. g.change = f.change
  <2>1. Head(ls).kind \in {"---", "+++", "content"}
    BY KindOfNext
  <2> QED
    BY <1>6, <2>1 DEF Took, SetsChange
<1>11. c + 1 = Before(d, i) + Start(f, h) + 1 + (l + 1)
  <2>1. i \in 1..(Len(d) + 1) /\ h \in 1..(Len(f.hunks) + 1)
    BY <1>4, ChangesAre, HunksAre
  <2>2. Before(d, i) \in Nat /\ Start(f, h) \in Nat
    BY <1>4, <2>1, AllLinesAre, StartIs
  <2>3. l \in Nat
    BY <1>4
  <2>4. c = Before(d, i) + Start(f, h) + 1 + l
    BY <1>6
  <2>5. \A p, q \in Nat : c = p + q + 1 + l => c + 1 = p + q + 1 + (l + 1)
    BY <2>3, OneLineMore
  <2> QED
    BY <2>2, <2>4, <2>5, Zenon
<1> DEFINE cv == <<g>>
           hv == <<x>>
<1>12. cv[1] = g /\ cv = <<cv[1]>> /\ hv[1] = x /\ hv = <<hv[1]>>
  BY OneElement
<1>13. l + 1 \in 0..Len(b)
  BY <1>3
<1> HIDE DEF cv, hv
<1>14. InHunk(d, c + 1, cv, hv, fs, i, h, l + 1)
  BY <1>a, <1>6, <1>9, <1>10, <1>11, <1>12 DEF InHunk
<1>15. Reading(d, Tail(ls), cv, hv, fs)
  BY <1>5, <1>13, <1>14, ReadsHunk
<1> QED
  BY <1>15 DEF cv, hv

\* The change is set by the end of the header.
LEMMA ChangeIsSet ==
  ASSUME NEW f \in Changed
  PROVE  ChangeUpto(f, Len(HeaderLines(f))) = f.change
<1>1. f.change # "modified" => \E k \in 2..Len(HeaderLines(f)) : SetsChange(HeaderLines(f)[k])
  BY HeaderIs
<1> QED
  BY <1>1 DEF ChangeUpto

\* A file at the end of its hunk h, with the hunk flushed.
LEMMA FlushedAfter ==
  ASSUME NEW d \in Seq(Changed), NEW c, NEW cu, NEW hu, NEW fs,
         NEW i \in 1..Len(d), NEW h \in 1..Len(d[i].hunks), NEW l \in 0..Len(d[i].hunks[h]),
         InHunk(d, c, cu, hu, fs, i, h, l), FileShaped(cu[1]),
         \A j \in (l + 1)..Len(d[i].hunks[h]) : IsBlank(ContentLine(d[i].hunks[h][j])),
         NEW g, Gets(g, cu[1], hu)
  PROVE  FileUpto(g, d[i], h) /\ g.change = d[i].change
<1> DEFINE f == d[i]
           b == f.hunks[h]
<1>1. f \in Changed /\ IsSeq(b)
  BY ChangesAre, HunksAre
<1>2. /\ FileUpto(cu[1], f, h - 1) /\ cu[1].change = f.change
      /\ hu = <<hu[1]>> /\ BodyUpto(hu[1].body, b, l)
  BY DEF InHunk
<1> HIDE DEF b
<1>3. BodyOfOthers(hu[1].body, b)
  <2>1. l \in 0..Len(b) /\ \A j \in (l + 1)..Len(b) : IsBlank(ContentLine(b[j]))
    BY DEF b
  <2> QED
    BY <1>1, <1>2, <2>1, BodyEnds
<1>4. h - 1 \in Nat /\ (h - 1) + 1 = h
  OBVIOUS
<1> DEFINE x == hu[1]
           n == h - 1
           w == cu[1]
<1>5. Gets(g, w, <<x>>)
  BY <1>2
<1>6. BodyOfOthers(x.body, f.hunks[n + 1])
  BY <1>3, <1>4 DEF b
<1>7. FileUpto(w, f, n) /\ n \in Nat /\ FileShaped(w)
  BY <1>2, <1>4
<1> HIDE DEF x, n, f, w
<1>8. FileUpto(g, f, n + 1) /\ g.change = w.change
  BY <1>5, <1>6, <1>7, HunkKept
<1>9. n + 1 = h /\ w.change = f.change
  BY <1>2, <1>4 DEF n, w, f
<1> QED
  BY <1>8, <1>9 DEF f

-----------------------------------------------------------------------------
(* The beginning of a hunk *)

LEMMA PlaceAfter ==
  ASSUME NEW p \in Nat, NEW q \in Nat, NEW c, c = p + q
  PROVE  c + 1 = p + q + 1 + 0
OBVIOUS

\* The @@ line of hunk h, when file i was read up to it.
LEMMA HunkOpens ==
  ASSUME NEW d \in Seq(Changed), NEW ls, ls # <<>>, NEW fs,
         NEW c \in 0..Len(AllLines(d)), Left(d, ls, c),
         NEW i \in 1..Len(d), NEW h \in 1..Len(d[i].hunks),
         c = Before(d, i) + Start(d[i], h), FilesRead(fs, d, i - 1),
         NEW g, FileUpto(g, d[i], h - 1), g.change = d[i].change, NEW x, x.body = <<>>
  PROVE  Reading(d, Tail(ls), <<g>>, <<x>>, fs)
<1> DEFINE f == d[i]
           cv == <<g>>
           hv == <<x>>
<1>1. f \in Changed /\ Len(f.hunks[h]) \in Nat
  BY ChangesAre, HunksAre
<1>2. c + 1 \in 0..Len(AllLines(d)) /\ Left(d, Tail(ls), c + 1)
  BY LineRead
<1>3. cv[1] = g /\ cv = <<cv[1]>> /\ hv[1] = x /\ hv = <<hv[1]>>
  BY OneElement
<1>4. Before(d, i) \in Nat /\ Start(f, h) \in Nat
  <2>1. i \in 1..(Len(d) + 1) /\ h \in 1..(Len(f.hunks) + 1)
    BY <1>1, ChangesAre, HunksAre
  <2> QED
    BY <1>1, <2>1, AllLinesAre, StartIs
<1>5. c + 1 = Before(d, i) + Start(f, h) + 1 + 0
  BY <1>4, PlaceAfter
<1>6. BodyUpto(x.body, f.hunks[h], 0)
  BY BodyBegins
<1>7. 0 \in 0..Len(d[i].hunks[h])
  BY <1>1
<1> HIDE DEF cv, hv
<1>8. InHunk(d, c + 1, cv, hv, fs, i, h, 0)
  BY <1>3, <1>5, <1>6 DEF InHunk
<1>9. Reading(d, Tail(ls), cv, hv, fs)
  BY <1>2, <1>7, <1>8, ReadsHunk
<1> QED
  BY <1>9 DEF cv, hv

LEMMA FirstHunkOpens ==
  ASSUME NEW d \in Seq(Changed), NEW ls, ls # <<>>, NEW cu, NEW hu, NEW fs,
         NEW c \in 0..Len(AllLines(d)), Left(d, ls, c),
         FirstHunkNext(d, ls, c, cu, hu, fs), FileShaped(cu[1]),
         NEW g, Gets(g, cu[1], hu), NEW x, x.body = <<>>
  PROVE  Reading(d, Tail(ls), <<g>>, <<x>>, fs)
<1>1. PICK i \in 1..Len(d) :
        /\ InHeader(d, c, cu, hu, fs, i, Len(HeaderLines(d[i])))
        /\ 1 \in 1..Len(d[i].hunks) /\ c = Before(d, i) + Start(d[i], 1)
  BY DEF FirstHunkNext
<1>2. d[i] \in Changed
  BY ChangesAre
<1>3. /\ FilesRead(fs, d, i - 1) /\ FileUpto(cu[1], d[i], 0) /\ hu = <<>>
      /\ cu[1].change = ChangeUpto(d[i], Len(HeaderLines(d[i])))
  BY <1>1 DEF InHeader
<1>4. cu[1].change = d[i].change
  BY <1>2, <1>3, ChangeIsSet
<1>5. g = cu[1]
  BY <1>3, NoHunkKept
<1>6. FileUpto(g, d[i], 1 - 1) /\ g.change = d[i].change
  BY <1>3, <1>4, <1>5
<1> QED
  BY <1>1, <1>3, <1>6, HunkOpens

LEMMA NextHunkOpens ==
  ASSUME NEW d \in Seq(Changed), NEW ls, ls # <<>>, NEW cu, NEW hu, NEW fs,
         NEW c \in 0..Len(AllLines(d)), Left(d, ls, c),
         HunkNext(d, ls, c, cu, hu, fs), FileShaped(cu[1]),
         NEW g, Gets(g, cu[1], hu), NEW x, x.body = <<>>
  PROVE  Reading(d, Tail(ls), <<g>>, <<x>>, fs)
<1>1. PICK i \in 1..Len(d) : \E h \in 1..Len(d[i].hunks) :
        /\ InHunk(d, c, cu, hu, fs, i, h, Len(d[i].hunks[h]))
        /\ h + 1 \in 1..Len(d[i].hunks) /\ c = Before(d, i) + Start(d[i], h + 1)
  BY DEF HunkNext
<1>2. PICK h \in 1..Len(d[i].hunks) :
        /\ InHunk(d, c, cu, hu, fs, i, h, Len(d[i].hunks[h]))
        /\ h + 1 \in 1..Len(d[i].hunks) /\ c = Before(d, i) + Start(d[i], h + 1)
  BY <1>1
<1>3. d[i] \in Changed
  BY ChangesAre
<1>4. /\ Len(d[i].hunks[h]) \in 0..Len(d[i].hunks[h])
      /\ \A j \in (Len(d[i].hunks[h]) + 1)..Len(d[i].hunks[h]) :
           IsBlank(ContentLine(d[i].hunks[h][j]))
  <2> DEFINE z == Len(d[i].hunks[h])
  <2>1. z \in Nat
    BY <1>3, HunksAre
  <2> HIDE DEF z
  <2>2. z \in 0..z /\ (z + 1)..z = {}
    BY <2>1
  <2> QED
    BY <2>2 DEF z
<1>5. FileUpto(g, d[i], h) /\ g.change = d[i].change
  <2> DEFINE z == Len(d[i].hunks[h])
  <2>1. z \in 0..z /\ InHunk(d, c, cu, hu, fs, i, h, z)
        /\ \A j \in (z + 1)..Len(d[i].hunks[h]) : IsBlank(ContentLine(d[i].hunks[h][j]))
    BY <1>2, <1>4
  <2> HIDE DEF z
  <2>2. z \in 0..Len(d[i].hunks[h])
    BY <2>1 DEF z
  <2> QED
    BY <1>2, <2>1, <2>2, FlushedAfter
<1>6. FilesRead(fs, d, i - 1)
  BY <1>2 DEF InHunk
<1>7. (h + 1) - 1 = h
  OBVIOUS
<1>8. FileUpto(g, d[i], (h + 1) - 1)
  BY <1>5, <1>7
<1> QED
  BY <1>2, <1>5, <1>6, <1>8, HunkOpens

-----------------------------------------------------------------------------
(* The end of a file *)

\* flushFile: the files that come of the file being read.
Finishes(gs, cu, hu) ==
  IF cu = <<>> THEN gs = <<>> ELSE \E g : Gets(g, cu[1], hu) /\ gs = <<g>>

LEMMA FilesJoin ==
  ASSUME NEW d, NEW i \in Nat \ {0}, NEW fs, FilesRead(fs, d, i - 1),
         NEW g, FileRead(g, d[i])
  PROVE  FilesRead(fs \o <<g>>, d, i)
<1> DEFINE r == <<g>>
           t == fs \o r
<1>1. IsSeq(fs) /\ Len(fs) = i - 1 /\ \A j \in 1..(i - 1) : FileRead(fs[j], d[j])
  BY DEF FilesRead
<1>2. IsSeq(r) /\ Len(r) = 1 /\ r[1] = g
  BY OneElement
<1> HIDE DEF r
<1>3. Joined(t, fs, r)
  BY <1>1, <1>2, JoinIs
<1> HIDE DEF t
<1>4. IsSeq(t) /\ Len(t) = i /\ t[i] = g /\ \A j \in 1..(i - 1) : t[j] = fs[j]
  BY <1>1, <1>2, <1>3 DEF Joined
<1>5. \A j \in 1..i : j \in 1..(i - 1) \/ j = i
  OBVIOUS
<1>6. FilesRead(t, d, i)
  BY <1>1, <1>4, <1>5 DEF FilesRead
<1> QED
  BY <1>6 DEF t, r

LEMMA NoFilesRead ==
  ASSUME NEW d
  PROVE  FilesRead(<<>> \o <<>>, d, 0)
<1>1. <<>> \o <<>> = <<>>
  OBVIOUS
<1> QED
  BY <1>1, NoElements DEF FilesRead

LEMMA FileIsRead ==
  ASSUME NEW d \in Seq(Changed), NEW c, NEW cu, NEW hu, NEW fs,
         NEW i \in 1..Len(d), FilesRead(fs, d, i - 1),
         NEW g, FileRead(g, d[i]), cu # <<>>, Gets(g, cu[1], hu),
         NEW gs, Finishes(gs, cu, hu)
  PROVE  FilesRead(fs \o gs, d, i)
<1>1. PICK k : Gets(k, cu[1], hu) /\ gs = <<k>>
  BY DEF Finishes
<1>2. k = g
  BY <1>1 DEF Gets
<1>3. FilesRead(fs \o <<g>>, d, i)
  BY FilesJoin
<1> QED
  BY <1>1, <1>2, <1>3

LEMMA OneIsSome == \A x : <<x>> # <<>>
<1> TAKE x
<1>1. Len(<<x>>) = 1 /\ Len(<<>>) = 0
  BY OneElement, NoElements
<1> QED
  BY <1>1

\* The end of a file whose lines are read, but for blank ones.
LEMMA HunksEnd ==
  ASSUME NEW d \in Seq(Changed), NEW c, NEW cu, NEW hu, NEW fs,
         NEW i \in 1..Len(d), NEW h \in 1..Len(d[i].hunks), NEW l \in 0..Len(d[i].hunks[h]),
         InHunk(d, c, cu, hu, fs, i, h, l), FileShaped(cu[1]),
         \A j \in (l + 1)..Len(d[i].hunks[h]) : IsBlank(ContentLine(d[i].hunks[h][j])),
         NEW gs, Finishes(gs, cu, hu)
  PROVE  h = Len(d[i].hunks) => FilesRead(fs \o gs, d, i)
<1>1. FilesRead(fs, d, i - 1) /\ cu = <<cu[1]>>
  BY DEF InHunk
<1>2. cu # <<>>
  BY <1>1, OneIsSome
<1>3. PICK g : Gets(g, cu[1], hu)
  BY <1>2 DEF Finishes
<1>4. FileUpto(g, d[i], h) /\ g.change = d[i].change
  <2>1. \A k : Gets(k, cu[1], hu) => FileUpto(k, d[i], h) /\ k.change = d[i].change
    BY FlushedAfter
  <2> QED
    BY <1>3, <2>1
<1>5. h = Len(d[i].hunks) => FileRead(g, d[i])
  BY <1>4 DEF FileRead
<1> QED
  BY <1>1, <1>2, <1>3, <1>5, FileIsRead

LEMMA HeaderEnds ==
  ASSUME NEW d \in Seq(Changed), NEW c, NEW cu, NEW hu, NEW fs,
         NEW i \in 1..Len(d), Len(d[i].hunks) = 0,
         InHeader(d, c, cu, hu, fs, i, Len(HeaderLines(d[i]))), FileShaped(cu[1]),
         NEW gs, Finishes(gs, cu, hu)
  PROVE  FilesRead(fs \o gs, d, i)
<1>1. /\ FilesRead(fs, d, i - 1) /\ cu = <<cu[1]>> /\ FileUpto(cu[1], d[i], 0) /\ hu = <<>>
      /\ cu[1].change = ChangeUpto(d[i], Len(HeaderLines(d[i])))
  BY DEF InHeader
<1>2. cu # <<>>
  BY <1>1, OneIsSome
<1>3. PICK g : Gets(g, cu[1], hu)
  BY <1>2 DEF Finishes
<1>4. g = cu[1]
  BY <1>1, <1>3, NoHunkKept
<1>5. cu[1].change = d[i].change
  BY <1>1, ChangesAre, ChangeIsSet
<1>6. FileRead(g, d[i])
  BY <1>1, <1>4, <1>5 DEF FileRead
<1> QED
  BY <1>1, <1>2, <1>3, <1>6, FileIsRead

LEMMA FilesDone ==
  ASSUME NEW d \in Seq(Changed), NEW c, NEW cu, NEW hu, NEW fs,
         FileNext(d, c, cu, hu, fs), cu # <<>> => FileShaped(cu[1]),
         NEW gs, Finishes(gs, cu, hu)
  PROVE  \E i \in 1..(Len(d) + 1) : c = Before(d, i) /\ FilesRead(fs \o gs, d, i - 1)
<1>0. Len(d) \in Nat /\ \A i \in 1..Len(d) : i + 1 \in 1..(Len(d) + 1) /\ (i + 1) - 1 = i
  BY ChangesAre
<1>1. CASE c = Before(d, 1) /\ cu = <<>> /\ fs = <<>>
  <2>1. gs = <<>>
    BY <1>1 DEF Finishes
  <2>2. FilesRead(fs \o gs, d, 1 - 1)
    BY <1>1, <2>1, NoFilesRead
  <2>3. 1 \in 1..(Len(d) + 1)
    BY <1>0
  <2> QED
    BY <1>1, <2>2, <2>3
<1>2. ASSUME NEW i \in 1..Len(d), Len(d[i].hunks) = 0, c = Before(d, i + 1),
             InHeader(d, c, cu, hu, fs, i, Len(HeaderLines(d[i])))
      PROVE  \E j \in 1..(Len(d) + 1) : c = Before(d, j) /\ FilesRead(fs \o gs, d, j - 1)
  <2>1. cu = <<cu[1]>>
    BY <1>2 DEF InHeader
  <2>2. FileShaped(cu[1])
    BY <2>1, OneIsSome
  <2>3. FilesRead(fs \o gs, d, i)
    BY <1>2, <2>2, HeaderEnds
  <2> QED
    BY <1>0, <1>2, <2>3
<1>3. ASSUME NEW i \in 1..Len(d), NEW h \in 1..Len(d[i].hunks),
             h = Len(d[i].hunks), c = Before(d, i + 1),
             InHunk(d, c, cu, hu, fs, i, h, Len(d[i].hunks[h]))
      PROVE  \E j \in 1..(Len(d) + 1) : c = Before(d, j) /\ FilesRead(fs \o gs, d, j - 1)
  <2>1. cu = <<cu[1]>>
    BY <1>3 DEF InHunk
  <2>2. FileShaped(cu[1])
    BY <2>1, OneIsSome
  <2>3. Len(d[i].hunks[h]) \in Nat
    BY ChangesAre, HunksAre
  <2>4. /\ Len(d[i].hunks[h]) \in 0..Len(d[i].hunks[h])
        /\ \A j \in (Len(d[i].hunks[h]) + 1)..Len(d[i].hunks[h]) :
             IsBlank(ContentLine(d[i].hunks[h][j]))
    BY <2>3
  <2>5. FilesRead(fs \o gs, d, i)
    BY <1>3, <2>2, <2>4, HunksEnd
  <2> QED
    BY <1>0, <1>3, <2>5
<1> QED
  BY <1>1, <1>2, <1>3 DEF FileNext

\* No line is left, and the files are read.
LEMMA FilesEnd ==
  ASSUME NEW d \in Seq(Changed), NEW cu, NEW hu, NEW fs, Reading(d, <<>>, cu, hu, fs),
         cu # <<>> => FileShaped(cu[1]), NEW gs, Finishes(gs, cu, hu)
  PROVE  FilesRead(fs \o gs, d, Len(d))
<1>1. PICK c \in 0..Len(AllLines(d)) :
        Left(d, <<>>, c) /\ (FileNext(d, c, cu, hu, fs) \/ CutNext(d, c, cu, hu, fs))
  BY WhatIsNext
<1>2. CASE FileNext(d, c, cu, hu, fs)
  <2>1. PICK i \in 1..(Len(d) + 1) : c = Before(d, i) /\ FilesRead(fs \o gs, d, i - 1)
    BY <1>2, FilesDone
  <2>2. i = Len(d) + 1
    BY <1>1, <2>1, NextOfFiles
  <2>3. i - 1 = Len(d)
    BY <2>2, ChangesAre
  <2> QED
    BY <2>1, <2>3
<1>3. CASE CutNext(d, c, cu, hu, fs)
  <2> DEFINE i == Len(d)
  <2>1. i \in 1..Len(d)
    BY <1>3, ChangesAre DEF CutNext
  <2>2. PICK h \in 1..Len(d[i].hunks) : \E l \in 0..Len(d[i].hunks[h]) :
          /\ InHunk(d, c, cu, hu, fs, i, h, l) /\ h = Len(d[i].hunks)
          /\ \A j \in (l + 1)..Len(d[i].hunks[h]) : IsBlank(ContentLine(d[i].hunks[h][j]))
    BY <1>3 DEF CutNext
  <2>3. PICK l \in 0..Len(d[i].hunks[h]) :
          /\ InHunk(d, c, cu, hu, fs, i, h, l) /\ h = Len(d[i].hunks)
          /\ \A j \in (l + 1)..Len(d[i].hunks[h]) : IsBlank(ContentLine(d[i].hunks[h][j]))
    BY <2>2
  <2>4. cu = <<cu[1]>>
    BY <2>3 DEF InHunk
  <2>5. FileShaped(cu[1])
    BY <2>4, OneIsSome
  <2> HIDE DEF i
  <2>6. FilesRead(fs \o gs, d, i)
    BY <2>1, <2>3, <2>5, HunksEnd
  <2> QED
    BY <2>6 DEF i
<1> QED
  BY <1>1, <1>2, <1>3

\* The first line of a file.
LEMMA FileOpens ==
  ASSUME NEW d \in Seq(Changed), NEW ls, ls # <<>>, NEW fs,
         NEW c \in 0..Len(AllLines(d)), Left(d, ls, c),
         NEW i \in 1..(Len(d) + 1), c = Before(d, i), FilesRead(fs, d, i - 1),
         NEW g, g = [path |-> Head(ls).path, change |-> "modified", hunks |-> <<>>]
  PROVE  Reading(d, Tail(ls), <<g>>, <<>>, fs)
<1> DEFINE cv == <<g>>
<1>1. i \in 1..Len(d) /\ Head(ls) = HeaderLines(d[i])[1]
  BY NextOfFiles
<1>2. d[i] \in Changed
  BY <1>1, ChangesAre
<1>3. c + 1 \in 0..Len(AllLines(d)) /\ Left(d, Tail(ls), c + 1)
  BY LineRead
<1>4. Len(HeaderLines(d[i])) \in Nat \ {0} /\ HeaderLines(d[i])[1].path = Printed(d[i].path)
  BY <1>2, HeaderIs
<1>5. g.path = Printed(d[i].path) /\ g.change = "modified" /\ g.hunks = <<>>
  BY <1>1, <1>4
<1>6. FileUpto(g, d[i], 0)
  BY <1>5, NoElements DEF FileUpto
<1>7. g.change = ChangeUpto(d[i], 1)
  BY <1>5 DEF ChangeUpto
<1>8. cv[1] = g /\ cv = <<cv[1]>>
  BY OneElement
<1>9. 1 \in 1..Len(HeaderLines(d[i]))
  BY <1>4
<1> DEFINE none == <<>>
<1> HIDE DEF cv
<1>10. InHeader(d, c + 1, cv, none, fs, i, 1)
  BY <1>6, <1>7, <1>8 DEF InHeader
<1> HIDE DEF none
<1>11. Reading(d, Tail(ls), cv, none, fs)
  BY <1>1, <1>3, <1>9, <1>10, ReadsHeader
<1> QED
  BY <1>11 DEF cv, none

LEMMA FileBegins ==
  ASSUME NEW d \in Seq(Changed), NEW ls, ls # <<>>, Head(ls).kind = "diff --git",
         NEW cu, NEW hu, NEW fs, Reading(d, ls, cu, hu, fs),
         cu # <<>> => FileShaped(cu[1]), NEW gs, Finishes(gs, cu, hu),
         NEW g, g = [path |-> Head(ls).path, change |-> "modified", hunks |-> <<>>]
  PROVE  Reading(d, Tail(ls), <<g>>, <<>>, fs \o gs)
<1>1. PICK c \in 0..Len(AllLines(d)) :
        /\ Left(d, ls, c)
        /\ \/ FileNext(d, c, cu, hu, fs)
           \/ HeaderNext(d, ls, c, cu, hu, fs) \/ FirstHunkNext(d, ls, c, cu, hu, fs)
           \/ HunkNext(d, ls, c, cu, hu, fs) \/ ContentNext(d, ls, c, cu, hu, fs)
  BY WhatIsNext
<1>2. FileNext(d, c, cu, hu, fs)
  BY <1>1, KindOfNext DEF HeaderKinds
<1>3. PICK i \in 1..(Len(d) + 1) : c = Before(d, i) /\ FilesRead(fs \o gs, d, i - 1)
  BY <1>2, FilesDone
<1> QED
  BY <1>1, <1>3, FileOpens

-----------------------------------------------------------------------------
(* What each case of the switch makes of the line it takes *)

\* Where a line that does not begin a file stands.
Within(d, ls, c, cu, hu, fs) ==
  \/ HeaderNext(d, ls, c, cu, hu, fs) \/ FirstHunkNext(d, ls, c, cu, hu, fs)
  \/ HunkNext(d, ls, c, cu, hu, fs) \/ ContentNext(d, ls, c, cu, hu, fs)

LEMMA WithinFile ==
  ASSUME NEW d, NEW ls, NEW c, NEW cu, NEW hu, NEW fs, Within(d, ls, c, cu, hu, fs)
  PROVE  cu = <<cu[1]>> /\ (ContentNext(d, ls, c, cu, hu, fs) => hu = <<hu[1]>>)
<1>1. HeaderNext(d, ls, c, cu, hu, fs) => cu = <<cu[1]>>
  BY DEF HeaderNext, InHeader
<1>2. FirstHunkNext(d, ls, c, cu, hu, fs) => cu = <<cu[1]>>
  BY DEF FirstHunkNext, InHeader
<1>3. HunkNext(d, ls, c, cu, hu, fs) => cu = <<cu[1]>>
  BY DEF HunkNext, InHunk
<1>4. ContentNext(d, ls, c, cu, hu, fs) => cu = <<cu[1]>> /\ hu = <<hu[1]>>
  BY DEF ContentNext, InHunk
<1> QED
  BY <1>1, <1>2, <1>3, <1>4 DEF Within

LEMMA FileStands ==
  ASSUME NEW d \in Seq(Changed), NEW c, NEW cu, NEW hu, NEW fs, FileNext(d, c, cu, hu, fs)
  PROVE  \E i \in 1..(Len(d) + 1) : c = Before(d, i)
<1>1. Len(d) \in Nat
  BY ChangesAre
<1>2. 1 \in 1..(Len(d) + 1) /\ \A i \in 1..Len(d) : i + 1 \in 1..(Len(d) + 1)
  BY <1>1
<1> QED
  BY <1>2 DEF FileNext

LEMMA LineWithin ==
  ASSUME NEW d \in Seq(Changed), NEW ls, ls # <<>>, Head(ls).kind # "diff --git",
         NEW cu, NEW hu, NEW fs, Reading(d, ls, cu, hu, fs)
  PROVE  \E c \in 0..Len(AllLines(d)) : Left(d, ls, c) /\ Within(d, ls, c, cu, hu, fs)
<1>1. PICK c \in 0..Len(AllLines(d)) :
        Left(d, ls, c) /\ (FileNext(d, c, cu, hu, fs) \/ Within(d, ls, c, cu, hu, fs))
  BY WhatIsNext DEF Within
<1>2. ASSUME FileNext(d, c, cu, hu, fs) PROVE FALSE
  <2>2. PICK i \in 1..(Len(d) + 1) : c = Before(d, i)
    BY <1>2, FileStands
  <2>3. i \in 1..Len(d) /\ Head(ls) = HeaderLines(d[i])[1]
    BY <1>1, <2>2, NextOfFiles
  <2>4. d[i] \in Changed
    BY <2>3, ChangesAre
  <2>5. HeaderLines(d[i])[1].kind = "diff --git"
    BY <2>4, HeaderIs
  <2> QED
    BY <2>3, <2>5
<1> QED
  BY <1>1, <1>2

\* Cases that take a line without a hunk: in the header, or of a hunk that looks so.
LEMMA LineTaken ==
  ASSUME NEW d \in Seq(Changed), NEW ls, ls # <<>>, Head(ls).kind \in HeaderKinds,
         NEW cu, NEW hu, NEW fs, Reading(d, ls, cu, hu, fs),
         NEW g, Took(g, cu[1], Head(ls))
  PROVE  Reading(d, Tail(ls), <<g>>, hu, fs) /\ cu = <<cu[1]>>
<1>0. Head(ls).kind \notin {"diff --git", "@@", "content"}
  BY DEF HeaderKinds
<1>1. PICK c \in 0..Len(AllLines(d)) : Left(d, ls, c) /\ Within(d, ls, c, cu, hu, fs)
  BY <1>0, LineWithin
<1>2. HeaderNext(d, ls, c, cu, hu, fs) \/ ContentNext(d, ls, c, cu, hu, fs)
  BY <1>0, <1>1, KindOfNext DEF Within
<1>3. CASE HeaderNext(d, ls, c, cu, hu, fs)
  BY <1>1, <1>3, HeaderReads, WithinFile
<1>4. CASE ContentNext(d, ls, c, cu, hu, fs)
  <2>1. hu = <<hu[1]>> /\ cu = <<cu[1]>>
    BY <1>1, <1>4, WithinFile
  <2>2. TookContent(hu[1], hu[1], Head(ls))
    BY <1>0 DEF TookContent
  <2>3. Reading(d, Tail(ls), <<g>>, <<hu[1]>>, fs)
    BY <1>1, <1>4, <2>2, ContentReads
  <2> QED
    BY <2>1, <2>3
<1> QED
  BY <1>2, <1>3, <1>4

LEMMA ContentTaken ==
  ASSUME NEW d \in Seq(Changed), NEW ls, ls # <<>>, Head(ls).kind = "content",
         NEW cu, NEW hu, NEW fs, Reading(d, ls, cu, hu, fs),
         NEW x, x.body = Append(hu[1].body, Head(ls).body)
  PROVE  Reading(d, Tail(ls), cu, <<x>>, fs)
<1>1. PICK c \in 0..Len(AllLines(d)) : Left(d, ls, c) /\ Within(d, ls, c, cu, hu, fs)
  BY LineWithin
<1>2. ContentNext(d, ls, c, cu, hu, fs)
  BY <1>1, KindOfNext DEF Within, HeaderKinds
<1>3. cu = <<cu[1]>>
  BY <1>1, WithinFile
<1>4. Took(cu[1], cu[1], Head(ls)) /\ TookContent(x, hu[1], Head(ls))
  BY DEF Took, TookContent, SetsChange
<1>5. Reading(d, Tail(ls), <<cu[1]>>, <<x>>, fs)
  BY <1>1, <1>2, <1>4, ContentReads
<1> QED
  BY <1>3, <1>5

LEMMA HunkTaken ==
  ASSUME NEW d \in Seq(Changed), NEW ls, ls # <<>>, Head(ls).kind = "@@",
         NEW cu, NEW hu, NEW fs, Reading(d, ls, cu, hu, fs), FileShaped(cu[1]),
         NEW g, Gets(g, cu[1], hu), NEW x, x.body = <<>>
  PROVE  Reading(d, Tail(ls), <<g>>, <<x>>, fs) /\ cu = <<cu[1]>>
<1>1. PICK c \in 0..Len(AllLines(d)) : Left(d, ls, c) /\ Within(d, ls, c, cu, hu, fs)
  BY LineWithin
<1>2. FirstHunkNext(d, ls, c, cu, hu, fs) \/ HunkNext(d, ls, c, cu, hu, fs)
  BY <1>1, KindOfNext DEF Within, HeaderKinds
<1>3. cu = <<cu[1]>>
  BY <1>1, WithinFile
<1>4. CASE FirstHunkNext(d, ls, c, cu, hu, fs)
  BY <1>1, <1>3, <1>4, FirstHunkOpens
<1>5. CASE HunkNext(d, ls, c, cu, hu, fs)
  BY <1>1, <1>3, <1>5, NextHunkOpens
<1> QED
  BY <1>2, <1>4, <1>5

\* flushFile in the parser.
LEMMA FileFinishes ==
  ASSUME NEW d, NEW ls, NEW fs, Reading(d, ls, cur, hb, fs)
  PROVE  Finishes(WithHunk, cur, hb)
<1>1. cur = <<>> \/ cur = <<cur[1]>>
  BY DEF Reading, Outside, InHeader, InHunk
<1>2. CASE cur = <<>>
  BY <1>2, WithHunkIs DEF Finishes
<1>3. CASE cur = <<cur[1]>>
  <2> DEFINE g == [cur[1] EXCEPT !.hunks = @ \o hb]
  <2>1. cur # <<>>
    BY <1>3, OneIsSome
  <2>2. Gets(g, cur[1], hb) /\ WithHunk = <<g>>
    BY <1>3, WithHunkIs DEF Gets
  <2> HIDE DEF g
  <2> QED
    BY <2>1, <2>2 DEF Finishes
<1> QED
  BY <1>1, <1>2, <1>3

-----------------------------------------------------------------------------
(* The steps that read a line *)

LEMMA TreeIs ==
  ASSUME tree \in Trees
  PROVE  diff \in Seq(Changed) /\ tree.untracked \in Seq(Untracked)
BY TreesAssumption DEF diff

LEMMA FilesShaped ==
  ASSUME TallyInv, cur # <<>>
  PROVE  FileShaped(cur[1])
<1>1. IsSeq(cur) /\ \A i \in DOMAIN cur : FileTallied(cur[i])
  BY DEF TallyInv, ParserTallied
<1>2. FileTallied(cur[1])
  BY <1>1, TailIs
<1> QED
  BY <1>2 DEF FileTallied, FileShaped

\* A case of the switch, in terms of the line it takes.
LEMMA CaseTaken ==
  ASSUME TallyInv, NEW kind, Case(kind)
  PROVE  /\ lines # <<>> /\ Head(lines).kind = kind /\ lines' = Tail(lines)
         /\ cur # <<>> /\ FileShaped(cur[1])
BY FilesShaped DEF Case

LEMMA ChangeRead ==
  ASSUME TallyInv, tree \in Trees, Reading(diff, lines, cur, hb, files),
         NewFile \/ DeletedFile \/ Rename
  PROVE  Reading(diff, lines', cur', hb', files')
<1>1. PICK kind, change :
        /\ SetChange(kind, change)
        /\ \/ kind = "new file" /\ change = "added"
           \/ kind = "deleted file" /\ change = "deleted"
           \/ kind = "rename" /\ change = "renamed"
  BY DEF NewFile, DeletedFile, Rename
<1> DEFINE g == [cur[1] EXCEPT !.change = change]
<1>2. Case(kind) /\ cur' = <<g>> /\ UNCHANGED <<hb, files>>
  BY <1>1 DEF SetChange
<1>3. /\ lines # <<>> /\ Head(lines).kind = kind /\ lines' = Tail(lines)
      /\ FileShaped(cur[1])
  BY <1>2, CaseTaken
<1>4. Head(lines).kind \in HeaderKinds
  BY <1>1, <1>3 DEF HeaderKinds
<1>5. Took(g, cur[1], Head(lines))
  <2>1. g.path = cur[1].path /\ g.hunks = cur[1].hunks /\ g.change = change
    BY <1>3 DEF FileShaped
  <2> HIDE DEF g
  <2> QED
    BY <1>1, <1>3, <2>1 DEF Took
<1>6. diff \in Seq(Changed)
  BY TreeIs
<1> HIDE DEF g
<1>7. Reading(diff, Tail(lines), <<g>>, hb, files)
  BY <1>3, <1>4, <1>5, <1>6, LineTaken
<1> QED
  BY <1>2, <1>3, <1>7

LEMMA PlusRead ==
  ASSUME TallyInv, tree \in Trees, Reading(diff, lines, cur, hb, files), PlusHeader
  PROVE  Reading(diff, lines', cur', hb', files')
<1> DEFINE p == Head(lines).path
           g == [cur[1] EXCEPT !.path = IF p = "/dev/null" THEN @ ELSE p]
<1>2. Case("+++") /\ cur' = <<g>> /\ UNCHANGED <<hb, files>>
  BY DEF PlusHeader
<1>3. /\ lines # <<>> /\ Head(lines).kind = "+++" /\ lines' = Tail(lines)
      /\ FileShaped(cur[1])
  BY <1>2, CaseTaken
<1>4. Head(lines).kind \in HeaderKinds
  BY <1>3 DEF HeaderKinds
<1>5. Took(g, cur[1], Head(lines))
  <2>1. /\ g.path = IF p = "/dev/null" THEN cur[1].path ELSE p
        /\ g.hunks = cur[1].hunks /\ g.change = cur[1].change
    BY <1>3 DEF FileShaped
  <2> HIDE DEF g
  <2> QED
    BY <1>3, <2>1 DEF Took, SetsChange
<1>6. diff \in Seq(Changed)
  BY TreeIs
<1> HIDE DEF g
<1>7. Reading(diff, Tail(lines), <<g>>, hb, files)
  BY <1>3, <1>4, <1>5, <1>6, LineTaken
<1> QED
  BY <1>2, <1>3, <1>7

LEMMA IgnoredRead ==
  ASSUME TallyInv, tree \in Trees, Reading(diff, lines, cur, hb, files), Ignored
  PROVE  Reading(diff, lines', cur', hb', files')
<1>1. PICK kind : Case(kind) /\ kind \in {"---", "index", "similarity"}
  BY DEF Ignored
<1>2. UNCHANGED <<cur, hb, files>>
  BY DEF Ignored
<1>3. lines # <<>> /\ Head(lines).kind = kind /\ lines' = Tail(lines)
  BY <1>1, CaseTaken
<1>4. Head(lines).kind \in HeaderKinds
  BY <1>1, <1>3 DEF HeaderKinds
<1>5. Took(cur[1], cur[1], Head(lines))
  BY <1>1, <1>3 DEF Took, SetsChange
<1>6. diff \in Seq(Changed)
  BY TreeIs
<1>7. Reading(diff, Tail(lines), <<cur[1]>>, hb, files) /\ cur = <<cur[1]>>
  BY <1>3, <1>4, <1>5, <1>6, LineTaken
<1> QED
  BY <1>2, <1>3, <1>7

LEMMA HunkRead ==
  ASSUME TallyInv, tree \in Trees, Reading(diff, lines, cur, hb, files), HunkHeader
  PROVE  Reading(diff, lines', cur', hb', files')
<1> DEFINE g == [cur[1] EXCEPT !.hunks = @ \o hb]
<1>2. Case("@@") /\ cur' = WithHunk /\ hb' = <<NoHunk>> /\ UNCHANGED files
  BY DEF HunkHeader
<1>3. /\ lines # <<>> /\ Head(lines).kind = "@@" /\ lines' = Tail(lines)
      /\ FileShaped(cur[1])
  BY <1>2, CaseTaken
<1>4. Gets(g, cur[1], hb) /\ NoHunk.body = <<>>
  BY DEF Gets, NoHunk
<1>5. diff \in Seq(Changed)
  BY TreeIs
<1>6. cur = <<cur[1]>> => WithHunk = <<g>>
  BY WithHunkIs
<1> HIDE DEF g
<1>7. Reading(diff, Tail(lines), <<g>>, <<NoHunk>>, files) /\ cur = <<cur[1]>>
  BY <1>3, <1>4, <1>5, HunkTaken
<1> QED
  BY <1>2, <1>3, <1>6, <1>7

LEMMA ContentRead ==
  ASSUME TallyInv, tree \in Trees, Reading(diff, lines, cur, hb, files), Content
  PROVE  Reading(diff, lines', cur', hb', files')
<1>1. PICK x : hb' = <<x>> /\ x.body = Append(hb[1].body, Head(lines).body)
  <2> DEFINE l == Head(lines).body
             x == [body    |-> Append(hb[1].body, l),
                   added   |-> hb[1].added + (IF l.sign = "+" THEN 1 ELSE 0),
                   removed |-> hb[1].removed + (IF l.sign = "-" THEN 1 ELSE 0)]
  <2>1. hb' = <<x>>
    BY DEF Content
  <2>2. x.body = Append(hb[1].body, l)
    OBVIOUS
  <2> HIDE DEF x
  <2> QED
    BY <2>1, <2>2
<1>2. Case("content") /\ UNCHANGED <<cur, files>>
  BY DEF Content
<1>3. lines # <<>> /\ Head(lines).kind = "content" /\ lines' = Tail(lines)
  BY <1>2, CaseTaken
<1>4. diff \in Seq(Changed)
  BY TreeIs
<1>5. Reading(diff, Tail(lines), cur, <<x>>, files)
  BY <1>1, <1>3, <1>4, ContentTaken
<1> QED
  BY <1>1, <1>2, <1>3, <1>5

LEMMA FileHeaderRead ==
  ASSUME TallyInv, tree \in Trees, Reading(diff, lines, cur, hb, files), FileHeader
  PROVE  Reading(diff, lines', cur', hb', files')
<1> DEFINE g == [path |-> Head(lines).path, change |-> "modified", hunks |-> <<>>]
<1>1. /\ lines # <<>> /\ Head(lines).kind = "diff --git" /\ lines' = Tail(lines)
      /\ files' = files \o WithHunk /\ cur' = <<g>> /\ hb' = <<>>
  BY DEF FileHeader, FlushFile
<1>2. diff \in Seq(Changed)
  BY TreeIs
<1>3. cur # <<>> => FileShaped(cur[1])
  BY FilesShaped
<1>4. Finishes(WithHunk, cur, hb)
  BY FileFinishes
<1>5. Reading(diff, Tail(lines), <<g>>, <<>>, files \o WithHunk)
  BY <1>1, <1>2, <1>3, <1>4, FileBegins
<1> HIDE DEF g
<1> QED
  BY <1>1, <1>5

-----------------------------------------------------------------------------
(* The hunks that are due *)

LEMMA FileHunksAre ==
  ASSUME NEW f \in Changed
  PROVE  LET hs == FileHunks(f)
         IN  /\ IsSeq(hs)
             /\ f.path \in Denied => hs = <<>>
             /\ f.path \notin Denied =>
                  /\ Len(hs) = Len(f.hunks)
                  /\ \A h \in 1..Len(f.hunks) :
                       hs[h] = NamedHunk(f.path, f.change, f.hunks[h])
<1> DEFINE n == Len(f.hunks)
           hs == [h \in DOMAIN f.hunks |-> NamedHunk(f.path, f.change, f.hunks[h])]
<1>1. CASE f.path \in Denied
  BY <1>1, NoElements DEF FileHunks
<1>2. CASE f.path \notin Denied
  <2>1. FileHunks(f) = hs
    BY <1>2 DEF FileHunks
  <2>2. n \in Nat /\ DOMAIN f.hunks = 1..n
    BY HunksAre
  <2>3. /\ DOMAIN hs = 1..n /\ hs = [h \in 1..n |-> hs[h]]
        /\ \A h \in 1..n : hs[h] = NamedHunk(f.path, f.change, f.hunks[h])
    BY <2>2
  <2> HIDE DEF hs
  <2>4. IsSeq(hs) /\ Len(hs) = n
    BY <2>2, <2>3, ListIs
  <2> QED
    BY <1>2, <2>1, <2>3, <2>4
<1> QED
  BY <1>1, <1>2

LEMMA OtherHunksAre == \A u : IsSeq(OtherHunks(u))
BY NoElements, OneElement DEF OtherHunks

\* Sequences of hunks for the elements of s.
LEMMA DueOfIs ==
  ASSUME NEW S, NEW s \in Seq(S), NEW a, a = [i \in DOMAIN s |-> a[i]],
         \A i \in DOMAIN s : IsSeq(a[i])
  PROVE  /\ IsSeq(a) /\ Len(a) = Len(s) /\ DOMAIN a = 1..Len(s) /\ Len(s) \in Nat
         /\ \A i \in DOMAIN a : IsSeq(a[i])
<1>1. Len(s) \in Nat /\ DOMAIN s = 1..Len(s)
  BY LenProperties
<1>2. DOMAIN a = 1..Len(s) /\ a = [i \in 1..Len(s) |-> a[i]]
  BY <1>1
<1>3. IsSeq(a) /\ Len(a) = Len(s)
  BY <1>1, <1>2, ListIs
<1> QED
  BY <1>1, <1>2, <1>3

LEMMA DueIs ==
  ASSUME tree \in Trees
  PROVE  LET A == DueOfFiles
             B == DueOfOthers
             n == Len(diff)
             m == Len(tree.untracked)
         IN  /\ IsSeq(A) /\ Len(A) = n /\ DOMAIN A = 1..n /\ n \in Nat
             /\ \A i \in DOMAIN A : IsSeq(A[i])
             /\ \A i \in 1..n : A[i] = FileHunks(diff[i])
             /\ IsSeq(B) /\ Len(B) = m /\ DOMAIN B = 1..m /\ m \in Nat
             /\ \A i \in DOMAIN B : IsSeq(B[i])
             /\ \A i \in 1..m : B[i] = OtherHunks(tree.untracked[i])
<1> DEFINE A == DueOfFiles
           B == DueOfOthers
           u == tree.untracked
<1>1. diff \in Seq(Changed) /\ u \in Seq(Untracked)
  BY TreeIs
<1>2. DOMAIN diff = 1..Len(diff) /\ DOMAIN u = 1..Len(u)
  BY <1>1, LenProperties
<1>3. A = [i \in DOMAIN diff |-> A[i]] /\ \A i \in DOMAIN diff : A[i] = FileHunks(diff[i])
  BY DEF DueOfFiles
<1>4. B = [i \in DOMAIN u |-> B[i]] /\ \A i \in DOMAIN u : B[i] = OtherHunks(u[i])
  BY DEF DueOfOthers
<1>5. \A i \in DOMAIN diff : IsSeq(A[i])
  BY <1>1, <1>2, <1>3, ChangesAre, FileHunksAre
<1>6. \A i \in DOMAIN u : IsSeq(B[i])
  BY <1>4, OtherHunksAre
<1> HIDE DEF A, B, u
<1>7. /\ IsSeq(A) /\ Len(A) = Len(diff) /\ DOMAIN A = 1..Len(diff) /\ Len(diff) \in Nat
      /\ \A i \in DOMAIN A : IsSeq(A[i])
  BY <1>1, <1>3, <1>5, DueOfIs
<1>8. /\ IsSeq(B) /\ Len(B) = Len(u) /\ DOMAIN B = 1..Len(u) /\ Len(u) \in Nat
      /\ \A i \in DOMAIN B : IsSeq(B[i])
  BY <1>1, <1>4, <1>6, DueOfIs
<1> QED
  BY <1>2, <1>3, <1>4, <1>7, <1>8 DEF A, B, u

\* Where the hunks of file i stand among them, and those of untracked file i.
LEMMA DueStand ==
  ASSUME tree \in Trees
  PROVE  LET A == DueOfFiles
             B == DueOfOthers
             n == Len(diff)
             m == Len(tree.untracked)
         IN  /\ Len(DueHunks) = Off(A, n) + Off(B, m) /\ Off(A, n) \in Nat
             /\ DOMAIN DueHunks = 1..Len(DueHunks)
             /\ Off(A, 0) = 0 /\ Off(B, 0) = 0
             /\ \A i \in 1..n :
                  /\ Off(A, i - 1) \in Nat
                  /\ Off(A, i) = Off(A, i - 1) + Len(A[i])
                  /\ \A k \in 1..Len(A[i]) : DueHunks[Off(A, i - 1) + k] = A[i][k]
             /\ \A i \in 1..m :
                  /\ Off(B, i - 1) \in Nat
                  /\ Off(B, i) = Off(B, i - 1) + Len(B[i])
                  /\ \A k \in 1..Len(B[i]) : DueHunks[Off(A, n) + Off(B, i - 1) + k] = B[i][k]
<1> DEFINE A == DueOfFiles
           B == DueOfOthers
           n == Len(diff)
           m == Len(tree.untracked)
           a == FlattenSeq(A)
           b == FlattenSeq(B)
           t == a \o b
<1>1. /\ IsSeq(A) /\ Len(A) = n /\ DOMAIN A = 1..n /\ n \in Nat
      /\ \A i \in DOMAIN A : IsSeq(A[i])
      /\ IsSeq(B) /\ Len(B) = m /\ DOMAIN B = 1..m /\ m \in Nat
      /\ \A i \in DOMAIN B : IsSeq(B[i])
  BY DueIs
<1>2. DueHunks = t
  BY DEF DueHunks, DueOfFiles, DueOfOthers
<1> HIDE DEF A, B, n, m
<1>3. /\ IsSeq(a) /\ Len(a) = Off(A, n)
      /\ \A i \in DOMAIN A : \A k \in DOMAIN A[i] : a[Off(A, i - 1) + k] = A[i][k]
  BY <1>1, FlatIs
<1>4. /\ IsSeq(b) /\ Len(b) = Off(B, m)
      /\ \A i \in DOMAIN B : \A k \in DOMAIN B[i] : b[Off(B, i - 1) + k] = B[i][k]
  BY <1>1, FlatIs
<1>5. /\ Off(A, 0) = 0
      /\ \A i \in 0..n : Off(A, i) \in Nat
      /\ \A i \in 1..n : Off(A, i) = Off(A, i - 1) + Len(A[i])
      /\ \A i, j \in 0..n : i <= j => Off(A, i) <= Off(A, j)
  BY <1>1, OffIs
<1>6. /\ Off(B, 0) = 0
      /\ \A i \in 0..m : Off(B, i) \in Nat
      /\ \A i \in 1..m : Off(B, i) = Off(B, i - 1) + Len(B[i])
      /\ \A i, j \in 0..m : i <= j => Off(B, i) <= Off(B, j)
  BY <1>1, OffIs
<1>7. /\ \A i \in 1..n : DOMAIN A[i] = 1..Len(A[i]) /\ Len(A[i]) \in Nat
      /\ \A i \in 1..m : DOMAIN B[i] = 1..Len(B[i]) /\ Len(B[i]) \in Nat
  BY <1>1, SeqIs
<1> HIDE DEF a, b
<1>8. Joined(t, a, b)
  BY <1>3, <1>4, JoinIs
<1> HIDE DEF t
<1>9. ASSUME NEW i \in 1..n, NEW k \in 1..Len(A[i]) PROVE t[Off(A, i - 1) + k] = A[i][k]
  <2>1. i - 1 \in 0..n /\ i \in 0..n /\ n \in 0..n /\ i <= n
    BY <1>1
  <2>2. Off(A, i - 1) \in Nat /\ Len(A[i]) \in Nat /\ Off(A, i) <= Off(A, n) /\ Off(A, n) \in Nat
        /\ Off(A, i) = Off(A, i - 1) + Len(A[i])
    BY <1>5, <1>7, <2>1
  <2>3. Off(A, i - 1) + k \in 1..Len(a)
    BY <1>3, <2>2
  <2>4. a[Off(A, i - 1) + k] = A[i][k]
    BY <1>1, <1>3, <1>7
  <2> QED
    BY <1>8, <2>3, <2>4 DEF Joined
<1>10. ASSUME NEW i \in 1..m, NEW k \in 1..Len(B[i])
       PROVE  t[Off(A, n) + Off(B, i - 1) + k] = B[i][k]
  <2>1. i - 1 \in 0..m /\ i \in 0..m /\ m \in 0..m /\ i <= m /\ n \in 0..n
    BY <1>1
  <2>2. Off(B, i - 1) \in Nat /\ Len(B[i]) \in Nat /\ Off(B, i) <= Off(B, m) /\ Off(B, m) \in Nat
        /\ Off(B, i) = Off(B, i - 1) + Len(B[i]) /\ Off(A, n) \in Nat
    BY <1>5, <1>6, <1>7, <2>1
  <2>3. Off(B, i - 1) + k \in 1..Len(b)
    BY <1>4, <2>2
  <2>4. b[Off(B, i - 1) + k] = B[i][k]
    BY <1>1, <1>4, <1>7
  <2>5. Len(a) + (Off(B, i - 1) + k) = Off(A, n) + Off(B, i - 1) + k
    BY <1>3, <2>2
  <2>6. t[Len(a) + (Off(B, i - 1) + k)] = b[Off(B, i - 1) + k]
    BY <1>8, <2>3 DEF Joined
  <2> QED
    BY <2>4, <2>5, <2>6
<1>11. Len(t) = Off(A, n) + Off(B, m) /\ DOMAIN t = 1..Len(t) /\ Off(A, n) \in Nat
  <2>1. IsSeq(t) /\ Len(t) = Len(a) + Len(b)
    BY <1>8 DEF Joined
  <2>2. n \in 0..n
    BY <1>1
  <2> QED
    BY <1>3, <1>4, <1>5, <2>1, <2>2, SeqIs
<1>12. /\ \A i \in 1..n : Off(A, i - 1) \in Nat
       /\ \A i \in 1..m : Off(B, i - 1) \in Nat
  <2>1. /\ \A i \in 1..n : i - 1 \in 0..n
        /\ \A i \in 1..m : i - 1 \in 0..m
    BY <1>1
  <2> QED
    BY <1>5, <1>6, <2>1
<1>13. /\ Len(t) = Off(A, n) + Off(B, m) /\ Off(A, n) \in Nat
       /\ DOMAIN t = 1..Len(t)
       /\ Off(A, 0) = 0 /\ Off(B, 0) = 0
       /\ \A i \in 1..n :
            /\ Off(A, i - 1) \in Nat
            /\ Off(A, i) = Off(A, i - 1) + Len(A[i])
            /\ \A k \in 1..Len(A[i]) : t[Off(A, i - 1) + k] = A[i][k]
       /\ \A i \in 1..m :
            /\ Off(B, i - 1) \in Nat
            /\ Off(B, i) = Off(B, i - 1) + Len(B[i])
            /\ \A k \in 1..Len(B[i]) : t[Off(A, n) + Off(B, i - 1) + k] = B[i][k]
  BY <1>5, <1>6, <1>9, <1>10, <1>11, <1>12
<1> QED
  BY <1>2, <1>13 DEF A, B, n, m

-----------------------------------------------------------------------------
(* The hunks that come of a file, and of an untracked one *)

LEMMA PlainPlaces ==
  ASSUME NEW h, IsSeq(h), PlainHunk(h)
  PROVE  \A l \in 0..Len(h) : Place(h, l) = l
<1>1. Len(h) \in Nat /\ DOMAIN h = 1..Len(h)
  BY SeqIs
<1>2. \A l \in 1..Len(h) : ~LooksLikeHeader(h[l])
  BY <1>1 DEF PlainHunk
<1> DEFINE n == Len(h)
           T == {l \in 0..n : Place(h, l) = l}
<1>3. 0 \in T
  BY <1>1, PlaceIs
<1>4. ASSUME NEW l \in 0..(n - 1), l \in T PROVE l + 1 \in T
  <2>1. l \in Nat /\ l + 1 \in 1..n /\ l + 1 \in 0..n
    BY <1>1
  <2>2. Place(h, l + 1) = Place(h, l) + (IF LooksLikeHeader(h[l + 1]) THEN 0 ELSE 1)
    BY <2>1, PlaceIs
  <2>3. ~LooksLikeHeader(h[l + 1])
    BY <1>2, <2>1
  <2>4. Place(h, l) = l
    BY <1>4
  <2> QED
    BY <2>1, <2>2, <2>3, <2>4
<1>5. \A l \in 0..n : l \in T
  <2> HIDE DEF T
  <2> QED
    BY <1>1, <1>3, <1>4, CountingUp
<1> QED
  BY <1>5

LEMMA PlainBody ==
  ASSUME NEW h, IsSeq(h), PlainHunk(h), NEW body, BodyOfOthers(body, h)
  PROVE  SameBody(body, h)
<1>1. Len(h) \in Nat /\ DOMAIN h = 1..Len(h)
  BY SeqIs
<1>2. \A l \in 1..Len(h) : ~LooksLikeHeader(h[l])
  BY <1>1 DEF PlainHunk
<1>3. Len(h) \in 0..Len(h) /\ \A l \in 1..Len(h) : l \in 0..Len(h)
  BY <1>1
<1>4. \A l \in 0..Len(h) : Place(h, l) = l
  BY PlainPlaces
<1>5. Len(body) <= Len(h)
  BY <1>3, <1>4 DEF BodyOfOthers
<1>6. \A l \in 1..Len(h) :
        IF l <= Len(body) THEN body[l] = h[l] ELSE h[l].sign = " " /\ h[l].text = "blank"
  BY <1>1, <1>2, <1>3, <1>4 DEF BodyOfOthers
<1> QED
  BY <1>1, <1>5, <1>6 DEF SameBody

LEMMA PlainFile ==
  ASSUME tree \in Trees, Plain, NEW i \in 1..Len(diff), NEW g, FileRead(g, diff[i])
  PROVE  /\ g.path = diff[i].path /\ g.change = diff[i].change
         /\ IsSeq(g.hunks) /\ Len(g.hunks) = Len(diff[i].hunks)
         /\ \A h \in 1..Len(diff[i].hunks) : SameBody(g.hunks[h].body, diff[i].hunks[h])
<1> DEFINE f == diff[i]
<1>1. diff \in Seq(Changed)
  BY TreeIs
<1>2. f \in Changed /\ i \in DOMAIN diff
  BY <1>1, ChangesAre
<1>3. DOMAIN f.hunks = 1..Len(f.hunks) /\ \A h \in 1..Len(f.hunks) : IsSeq(f.hunks[h])
  BY <1>2, HunksAre
<1>4. f.path \notin Quoted /\ \A h \in 1..Len(f.hunks) : PlainHunk(f.hunks[h])
  BY <1>2, <1>3 DEF Plain
<1> HIDE DEF f
<1>5. /\ g.path = Printed(f.path) \/ TakesPath(f)
      /\ IsSeq(g.hunks) /\ Len(g.hunks) = Len(f.hunks) /\ g.change = f.change
      /\ \A h \in 1..Len(f.hunks) : BodyOfOthers(g.hunks[h].body, f.hunks[h])
  BY DEF FileRead, FileUpto, f
<1>6. Printed(f.path) = f.path
  BY <1>4 DEF Printed
<1>7. ~TakesPath(f)
  <2>1. \A l : ContentKind(l) = "+++" => LooksLikeHeader(l)
    BY DEF LooksLikeHeader
  <2> QED
    BY <1>3, <1>4, <2>1 DEF TakesPath, PlainHunk
<1>8. \A h \in 1..Len(f.hunks) : SameBody(g.hunks[h].body, f.hunks[h])
  BY <1>3, <1>4, <1>5, PlainBody
<1> QED
  BY <1>5, <1>6, <1>7, <1>8 DEF f

LEMMA MoreDue ==
  ASSUME NEW p \in Nat, NEW rs, DueUpto(rs, p), NEW hs, IsSeq(hs),
         \A q \in 1..Len(hs) : Matches(hs[q], DueHunks[p + q])
  PROVE  DueUpto(rs \o hs, p + Len(hs))
<1> DEFINE t == rs \o hs
<1>1. IsSeq(rs) /\ Len(rs) = p /\ \A q \in 1..p : Matches(rs[q], DueHunks[q])
  BY DEF DueUpto
<1>2. Len(hs) \in Nat
  BY SeqIs
<1>3. Joined(t, rs, hs)
  BY <1>1, JoinIs
<1> HIDE DEF t
<1>4. ASSUME NEW q \in 1..(p + Len(hs)) PROVE Matches(t[q], DueHunks[q])
  <2>1. CASE q <= p
    BY <1>1, <1>3, <2>1 DEF Joined
  <2>2. CASE p < q
    <3>1. q - p \in 1..Len(hs) /\ p + (q - p) = q
      BY <1>2, <2>2
    <3>2. t[q] = hs[q - p]
      BY <1>1, <1>3, <3>1 DEF Joined
    <3>3. Matches(hs[q - p], DueHunks[p + (q - p)])
      BY <3>1
    <3> QED
      BY <3>1, <3>2, <3>3
  <2>3. q <= p \/ p < q
    BY <1>2
  <2> QED
    BY <2>1, <2>2, <2>3
<1>5. IsSeq(t) /\ Len(t) = p + Len(hs)
  BY <1>1, <1>3 DEF Joined
<1>6. DueUpto(t, p + Len(hs))
  BY <1>4, <1>5 DEF DueUpto
<1> QED
  BY <1>6 DEF t

\* What CollectFile adds.
LEMMA FileIsDue ==
  ASSUME tree \in Trees, Plain, NEW i \in 1..Len(diff), NEW f, FileRead(f, diff[i]),
         NEW rs, DueUpto(rs, Off(DueOfFiles, i - 1))
  PROVE  DueUpto(IF f.path \in Denied THEN rs
                 ELSE rs \o [h \in DOMAIN f.hunks |-> NamedHunk(f.path, f.change, f.hunks[h].body)],
                 Off(DueOfFiles, i))
<1> DEFINE A == DueOfFiles
           e == diff[i]
           hs == [h \in DOMAIN f.hunks |-> NamedHunk(f.path, f.change, f.hunks[h].body)]
           n == Len(e.hunks)
<1>1. /\ f.path = e.path /\ f.change = e.change
      /\ IsSeq(f.hunks) /\ Len(f.hunks) = n
      /\ \A h \in 1..n : SameBody(f.hunks[h].body, e.hunks[h])
  BY PlainFile
<1>2. /\ Off(A, i - 1) \in Nat /\ Off(A, i) = Off(A, i - 1) + Len(A[i])
      /\ \A k \in 1..Len(A[i]) : DueHunks[Off(A, i - 1) + k] = A[i][k]
  BY DueStand
<1>3. A[i] = FileHunks(e)
  BY DueIs
<1>4. e \in Changed
  BY TreeIs, ChangesAre
<1>5. CASE f.path \in Denied
  <2>1. A[i] = <<>>
    BY <1>1, <1>3, <1>4, <1>5, FileHunksAre
  <2>2. Off(A, i) = Off(A, i - 1)
    BY <1>2, <2>1, NoElements
  <2> QED
    BY <1>5, <2>2
<1>6. CASE f.path \notin Denied
  <2>1. Len(A[i]) = n /\ \A h \in 1..n : A[i][h] = NamedHunk(e.path, e.change, e.hunks[h])
    BY <1>1, <1>3, <1>4, <1>6, FileHunksAre
  <2>2. n \in Nat /\ DOMAIN f.hunks = 1..n
    BY <1>1, SeqIs
  <2>3. /\ DOMAIN hs = 1..n /\ hs = [h \in 1..n |-> hs[h]]
        /\ \A h \in 1..n : hs[h] = NamedHunk(f.path, f.change, f.hunks[h].body)
    BY <2>2
  <2> HIDE DEF hs, A, e, n
  <2>4. IsSeq(hs) /\ Len(hs) = n
    BY <2>2, <2>3, ListIs
  <2>5. ASSUME NEW q \in 1..n PROVE Matches(hs[q], DueHunks[Off(A, i - 1) + q])
    <3>1. DueHunks[Off(A, i - 1) + q] = NamedHunk(e.path, e.change, e.hunks[q])
      BY <1>2, <2>1
    <3>2. hs[q] = NamedHunk(f.path, f.change, f.hunks[q].body)
      BY <2>3
    <3>3. SameBody(f.hunks[q].body, e.hunks[q])
      BY <1>1
    <3> QED
      BY <1>1, <3>1, <3>2, <3>3 DEF NamedHunk, Matches
  <2> DEFINE p == Off(A, i - 1)
  <2>6. p \in Nat /\ DueUpto(rs, p) /\ \A q \in 1..Len(hs) : Matches(hs[q], DueHunks[p + q])
    BY <1>2, <2>4, <2>5 DEF A
  <2>7. Off(A, i) = p + Len(hs)
    BY <1>2, <2>1, <2>4
  <2> HIDE DEF p
  <2>8. DueUpto(rs \o hs, p + Len(hs))
    BY <2>4, <2>6, MoreDue
  <2>9. DueUpto(rs \o hs, Off(A, i))
    BY <2>7, <2>8
  <2> QED
    BY <1>6, <2>9 DEF A, hs
<1> QED
  BY <1>5, <1>6

\* What CollectUntracked adds.
LEMMA UntrackedIsDue ==
  ASSUME tree \in Trees, NEW i \in 1..Len(tree.untracked), NEW u, u = tree.untracked[i],
         NEW rs, DueUpto(rs, Off(DueOfFiles, Len(diff)) + Off(DueOfOthers, i - 1))
  PROVE  DueUpto(IF Printed(u.path) \in Denied \/ ~Rendered(u) THEN rs
                 ELSE Append(rs, UntrackedHunk(u)),
                 Off(DueOfFiles, Len(diff)) + Off(DueOfOthers, i))
<1> DEFINE A == DueOfFiles
           B == DueOfOthers
           p == Off(A, Len(diff)) + Off(B, i - 1)
           e == UntrackedHunk(u)
           hs == <<e>>
<1>1. /\ Off(A, Len(diff)) \in Nat
      /\ Off(B, i - 1) \in Nat /\ Off(B, i) = Off(B, i - 1) + Len(B[i])
      /\ \A k \in 1..Len(B[i]) : DueHunks[Off(A, Len(diff)) + Off(B, i - 1) + k] = B[i][k]
  BY DueStand
<1>2. B[i] = OtherHunks(u)
  BY DueIs
<1>3. CASE Printed(u.path) \in Denied \/ ~Rendered(u)
  <2>1. B[i] = <<>>
    BY <1>2, <1>3 DEF OtherHunks
  <2>2. Off(B, i) = Off(B, i - 1)
    BY <1>1, <2>1, NoElements
  <2> QED
    BY <1>3, <2>2
<1>4. CASE ~(Printed(u.path) \in Denied \/ ~Rendered(u))
  <2>1. B[i] = hs
    BY <1>2, <1>4 DEF OtherHunks
  <2>2. IsSeq(hs) /\ Len(hs) = 1 /\ hs[1] = e
    BY OneElement
  <2>3. Matches(e, e)
    <3> DEFINE n == Cut(Split(u.lines))
               body == [l \in 1..n |-> Plus]
    <3>1. u.lines \in Nat
      <4>1. tree.untracked \in Seq(Untracked)
        BY TreeIs
      <4>2. u \in Untracked
        BY <4>1
      <4> QED
        BY <4>2 DEF Untracked
    <3>2. n \in Nat
      BY <3>1, MaxUntrackedLinesAssumption DEF Split, Cut, TooLong
    <3>3. e.body = body
      BY DEF UntrackedHunk, NamedHunk
    <3>4. DOMAIN body = 1..n /\ body = [l \in 1..n |-> body[l]]
      OBVIOUS
    <3> HIDE DEF body, n
    <3>5. Len(body) = n
      BY <3>2, <3>4, ListIs
    <3>6. SameBody(body, body)
      BY <3>2, <3>4, <3>5 DEF SameBody
    <3> QED
      BY <3>3, <3>6 DEF Matches
  <2>4. p \in Nat /\ DueUpto(rs, p)
    BY <1>1
  <2> HIDE DEF e
  <2>5. DueHunks[p + 1] = e /\ Off(A, Len(diff)) + Off(B, i) = p + 1
    <3> HIDE DEF A, B, hs
    <3> QED
      BY <1>1, <2>1, <2>2
  <2>6. Append(rs, e) = rs \o hs
    BY <2>4, AppendIsJoined DEF DueUpto
  <2> HIDE DEF p, hs
  <2>7. \A q \in 1..Len(hs) : Matches(hs[q], DueHunks[p + q])
    BY <2>2, <2>3, <2>5
  <2>8. DueUpto(rs \o hs, p + Len(hs))
    BY <2>2, <2>4, <2>7, MoreDue
  <2>9. DueUpto(Append(rs, e), Off(A, Len(diff)) + Off(B, i))
    BY <2>2, <2>5, <2>6, <2>8
  <2> QED
    BY <1>4, <2>9 DEF e
<1> QED
  BY <1>3, <1>4

-----------------------------------------------------------------------------
(* The steps *)

LEMMA ReadInit == ParseInit => ReadInv
<1> SUFFICES ASSUME ParseInit PROVE ReadInv
  OBVIOUS
<1>1. /\ tree \in Trees /\ others = tree.untracked /\ res = NoResult /\ phase = "parsing"
      /\ lines = GitOutput(diff) /\ cur = <<>> /\ hb = <<>> /\ files = <<>>
  BY DEF ParseInit
<1>2. diff \in Seq(Changed)
  BY <1>1, TreeIs
<1>3. Left(diff, lines, 0) /\ 0 \in 0..Len(AllLines(diff))
  BY <1>1, <1>2, GitOutputIs, AllLinesAre
<1>4. Outside(0, cur, hb, files)
  BY <1>1 DEF Outside
<1>5. Reading(diff, lines, cur, hb, files)
  BY <1>3, <1>4 DEF Reading
<1>6. res.hunks = <<>>
  BY <1>1 DEF NoResult
<1> QED
  BY <1>1, <1>5, <1>6 DEF ReadInv

LEMMA LinesAreRead ==
  ASSUME TallyInv, ReadInv,
         \/ FileHeader \/ NewFile \/ DeletedFile \/ Rename \/ PlusHeader \/ Ignored
         \/ HunkHeader \/ Content
  PROVE  ReadInv'
<1>1. lines # <<>> /\ UNCHANGED <<tree, others, res, phase>>
  BY DEF FileHeader, NewFile, DeletedFile, Rename, SetChange, PlusHeader, Ignored,
         HunkHeader, Content, Case
<1>2. phase = "parsing"
  BY <1>1 DEF ReadInv
<1>3. /\ tree \in Trees /\ Reading(diff, lines, cur, hb, files)
      /\ res.hunks = <<>> /\ others = tree.untracked
  BY <1>2 DEF ReadInv
<1>4. Reading(diff, lines', cur', hb', files')
  BY <1>3, ChangeRead, PlusRead, IgnoredRead, HunkRead, ContentRead, FileHeaderRead
<1>5. Reading(diff, lines, cur, hb, files)'
  BY <1>1, <1>4 DEF diff
<1> QED
  BY <1>1, <1>2, <1>3, <1>5 DEF ReadInv

\* The same hunks are due in the next state.
LEMMA DueKept ==
  ASSUME tree' = tree
  PROVE  /\ diff' = diff /\ DueHunks' = DueHunks /\ (Plain' <=> Plain)
         /\ DueOfFiles' = DueOfFiles /\ DueOfOthers' = DueOfOthers
BY DEF diff, DueHunks, Plain, DueOfFiles, DueOfOthers

LEMMA CollectedThen ==
  ASSUME tree' = tree, NEW k, NEW m,
         Len(files') = Len(diff) - k,
         \A i \in 1..Len(files') : FileRead(files'[i], diff[k + i]),
         Len(others') = Len(tree.untracked) - m,
         \A i \in 1..Len(others') : others'[i] = tree.untracked[m + i],
         m > 0 => k = Len(diff),
         Plain => DueUpto(res'.hunks, Off(DueOfFiles, k) + Off(DueOfOthers, m))
  PROVE  Collected(k, m)'
<1>1. /\ diff' = diff /\ DueHunks' = DueHunks /\ (Plain' <=> Plain)
      /\ DueOfFiles' = DueOfFiles /\ DueOfOthers' = DueOfOthers
  BY DueKept
<1>2. ASSUME Plain
      PROVE  /\ IsSeq(res'.hunks) /\ Len(res'.hunks) = Off(DueOfFiles, k) + Off(DueOfOthers, m)
             /\ \A q \in 1..Len(res'.hunks) : Matches(res'.hunks[q], DueHunks[q])
  BY <1>2 DEF DueUpto
<1> QED
  BY <1>1, <1>2 DEF Collected, DueUpto

LEMMA ParsingEnds ==
  ASSUME TallyInv, ReadInv, ParseEnds
  PROVE  ReadInv'
<1>1. /\ phase = "parsing" /\ lines = <<>> /\ files' = files \o WithHunk
      /\ phase' = "collecting" /\ UNCHANGED <<tree, lines, others, res>>
  BY DEF ParseEnds, FlushFile
<1>2. /\ tree \in Trees /\ Reading(diff, lines, cur, hb, files)
      /\ res.hunks = <<>> /\ others = tree.untracked
  BY <1>1 DEF ReadInv
<1>3. diff \in Seq(Changed) /\ tree.untracked \in Seq(Untracked)
  BY <1>2, TreeIs
<1>4. cur # <<>> => FileShaped(cur[1])
  BY FilesShaped
<1>5. Finishes(WithHunk, cur, hb)
  BY <1>2, FileFinishes
<1>6. FilesRead(files', diff, Len(diff))
  <2>1. Reading(diff, <<>>, cur, hb, files)
    BY <1>1, <1>2
  <2> QED
    BY <1>1, <1>3, <1>4, <1>5, <2>1, FilesEnd
<1>7. Len(diff) \in Nat /\ Len(tree.untracked) \in Nat
  BY <1>3, LenProperties
<1>8. Len(files') = Len(diff) - 0 /\ \A i \in 1..Len(files') : FileRead(files'[i], diff[0 + i])
  BY <1>6, <1>7 DEF FilesRead
<1>9. /\ Len(others') = Len(tree.untracked) - 0
      /\ \A i \in 1..Len(others') : others'[i] = tree.untracked[0 + i]
  <2>1. others' = tree.untracked
    BY <1>1, <1>2
  <2> HIDE DEF ParseEnds
  <2> QED
    BY <1>7, <2>1
<1>10. DueUpto(res'.hunks, Off(DueOfFiles, 0) + Off(DueOfOthers, 0))
  <2>1. Off(DueOfFiles, 0) = 0 /\ Off(DueOfOthers, 0) = 0
    BY <1>2, DueStand
  <2>2. Off(DueOfFiles, 0) + Off(DueOfOthers, 0) = 0
    BY <2>1
  <2>3. res'.hunks = <<>>
    BY <1>1, <1>2
  <2> QED
    BY <2>2, <2>3, NoElements DEF DueUpto
<1>11. tree' = tree
  BY <1>1
<1>12. Collected(0, 0)'
  BY <1>8, <1>9, <1>10, <1>11, CollectedThen
<1>13. 0 \in 0..Len(diff') /\ 0 \in 0..Len(tree'.untracked)
  BY <1>7, <1>11, DueKept
<1>14. \E k \in 0..Len(diff') : \E m \in 0..Len(tree'.untracked) : Collected(k, m)'
  BY <1>12, <1>13
<1> QED
  BY <1>1, <1>2, <1>11, <1>14 DEF ReadInv

LEMMA FileCollected ==
  ASSUME TallyInv, ReadInv, CollectFile
  PROVE  ReadInv'
<1> DEFINE f == Head(files)
           hs == [h \in DOMAIN f.hunks |-> NamedHunk(f.path, f.change, f.hunks[h].body)]
<1>1. /\ phase = "collecting" /\ files # <<>> /\ files' = Tail(files)
      /\ UNCHANGED <<tree, lines, others, phase>>
  BY DEF CollectFile
<1>2. res'.hunks = IF f.path \in Denied THEN res.hunks ELSE res.hunks \o hs
  <2>1. res = [hunks |-> res.hunks, changed |-> res.changed, added |-> res.added,
               removed |-> res.removed, truncated |-> res.truncated]
    BY DEF TallyInv, ResultTallied
  <2> QED
    BY <2>1 DEF CollectFile
<1>3. tree \in Trees /\ lines = <<>>
  BY <1>1 DEF ReadInv
<1>4. PICK k \in 0..Len(diff) : \E m \in 0..Len(tree.untracked) : Collected(k, m)
  BY <1>1 DEF ReadInv
<1>5. PICK m \in 0..Len(tree.untracked) : Collected(k, m)
  BY <1>4
<1>6. diff \in Seq(Changed) /\ tree.untracked \in Seq(Untracked)
  BY <1>3, TreeIs
<1>7. Len(diff) \in Nat /\ Len(tree.untracked) \in Nat
  BY <1>6, LenProperties
<1>8. IsSeq(files)
  BY DEF TallyInv, ParserTallied
<1>9. /\ Len(files) \in Nat \ {0} /\ f = files[1] /\ Len(Tail(files)) = Len(files) - 1
      /\ \A i \in 1..(Len(files) - 1) : Tail(files)[i] = files[i + 1]
  <2>1. /\ Len(files) \in Nat \ {0} /\ f = files[1] /\ Len(Tail(files)) = Len(files) - 1
        /\ IsSeq(Tail(files)) /\ \A i \in DOMAIN Tail(files) : Tail(files)[i] = files[i + 1]
    BY <1>1, <1>8, TailIs
  <2>2. DOMAIN Tail(files) = 1..(Len(files) - 1)
    BY <2>1, SeqIs
  <2> QED
    BY <2>1, <2>2
<1>10. /\ Len(files) = Len(diff) - k
       /\ \A i \in 1..Len(files) : FileRead(files[i], diff[k + i])
       /\ Len(others) = Len(tree.untracked) - m
       /\ \A i \in 1..Len(others) : others[i] = tree.untracked[m + i]
       /\ m > 0 => k = Len(diff)
       /\ Plain => DueUpto(res.hunks, Off(DueOfFiles, k) + Off(DueOfOthers, m))
  BY <1>5 DEF Collected
<1>11. k + 1 \in 1..Len(diff) /\ m = 0 /\ (k + 1) - 1 = k /\ k + 1 \in 0..Len(diff)
  BY <1>7, <1>9, <1>10
<1>12. FileRead(f, diff[k + 1])
  BY <1>9, <1>10
<1> HIDE DEF f, hs
<1>13. Len(files') = Len(diff) - (k + 1)
  BY <1>1, <1>7, <1>9, <1>10
<1>14. ASSUME NEW i \in 1..Len(files') PROVE FileRead(files'[i], diff[(k + 1) + i])
  <2>1. i \in 1..(Len(files) - 1) /\ i + 1 \in 1..Len(files) /\ k + (i + 1) = (k + 1) + i
    BY <1>1, <1>9
  <2>2. files'[i] = files[i + 1]
    BY <1>1, <1>9, <2>1
  <2>3. FileRead(files[i + 1], diff[k + (i + 1)])
    BY <1>10, <2>1
  <2> QED
    BY <2>1, <2>2, <2>3
<1>15. ASSUME Plain PROVE DueUpto(res'.hunks, Off(DueOfFiles, k + 1) + Off(DueOfOthers, m))
  <2> DEFINE n == k + 1
  <2>0. n \in 1..Len(diff) /\ n - 1 = k
    BY <1>11
  <2>1. /\ Off(DueOfOthers, m) = 0 /\ Off(DueOfFiles, n - 1) \in Nat
        /\ Off(DueOfFiles, n) = Off(DueOfFiles, n - 1) + Len(DueOfFiles[n])
    BY <1>3, <1>11, <2>0, DueStand
  <2>2. Len(DueOfFiles[n]) \in Nat
    <3>1. IsSeq(DueOfFiles[n])
      BY <1>3, <2>0, DueIs
    <3> QED
      BY <3>1, SeqIs
  <2>3. DueUpto(res.hunks, Off(DueOfFiles, n - 1))
    <3>1. Off(DueOfFiles, k) + Off(DueOfOthers, m) = Off(DueOfFiles, n - 1)
      BY <2>0, <2>1
    <3> QED
      BY <1>10, <1>15, <3>1
  <2>4. FileRead(f, diff[n])
    BY <1>12
  <2> HIDE DEF n
  <2>5. DueUpto(IF f.path \in Denied THEN res.hunks
                ELSE res.hunks \o [h \in DOMAIN f.hunks |->
                                     NamedHunk(f.path, f.change, f.hunks[h].body)],
                Off(DueOfFiles, n))
    BY <1>3, <1>15, <2>0, <2>3, <2>4, FileIsDue
  <2>6. DueUpto(res'.hunks, Off(DueOfFiles, n))
    BY <1>2, <2>5 DEF hs
  <2>7. Off(DueOfFiles, n) + Off(DueOfOthers, m) = Off(DueOfFiles, n)
    BY <2>1, <2>2
  <2>8. DueUpto(res'.hunks, Off(DueOfFiles, n) + Off(DueOfOthers, m))
    BY <2>6, <2>7
  <2> QED
    BY <2>8 DEF n
<1>16. tree' = tree /\ others' = others
  BY <1>1
<1>17. Collected(k + 1, m)'
  <2> DEFINE n == k + 1
  <2>1. m > 0 => n = Len(diff)
    BY <1>11
  <2> HIDE DEF n
  <2>2. /\ Len(files') = Len(diff) - n
        /\ \A i \in 1..Len(files') : FileRead(files'[i], diff[n + i])
        /\ Len(others') = Len(tree.untracked) - m
        /\ \A i \in 1..Len(others') : others'[i] = tree.untracked[m + i]
        /\ Plain => DueUpto(res'.hunks, Off(DueOfFiles, n) + Off(DueOfOthers, m))
    BY <1>10, <1>13, <1>14, <1>15, <1>16 DEF n
  <2>3. Collected(n, m)'
    BY <1>16, <2>1, <2>2, CollectedThen
  <2> QED
    BY <2>3 DEF n
<1>18. k + 1 \in 0..Len(diff') /\ m \in 0..Len(tree'.untracked)
  BY <1>11, <1>16, DueKept
<1>19. \E n \in 0..Len(diff') : \E j \in 0..Len(tree'.untracked) : Collected(n, j)'
  BY <1>17, <1>18
<1> QED
  BY <1>1, <1>3, <1>16, <1>19 DEF ReadInv

LEMMA UntrackedCollected ==
  ASSUME TallyInv, ReadInv, CollectUntracked
  PROVE  ReadInv'
<1> DEFINE u == Head(others)
<1>1. /\ phase = "collecting" /\ files = <<>> /\ others # <<>> /\ others' = Tail(others)
      /\ UNCHANGED <<tree, lines, files, phase>>
  BY DEF CollectUntracked, parser
<1>2. res'.hunks = IF Printed(u.path) \in Denied \/ ~Rendered(u) THEN res.hunks
                   ELSE Append(res.hunks, UntrackedHunk(u))
  <2>1. res = [hunks |-> res.hunks, changed |-> res.changed, added |-> res.added,
               removed |-> res.removed, truncated |-> res.truncated]
    BY DEF TallyInv, ResultTallied
  <2> QED
    BY <2>1 DEF CollectUntracked
<1>3. tree \in Trees /\ lines = <<>>
  BY <1>1 DEF ReadInv
<1>4. PICK k \in 0..Len(diff) : \E m \in 0..Len(tree.untracked) : Collected(k, m)
  BY <1>1 DEF ReadInv
<1>5. PICK m \in 0..Len(tree.untracked) : Collected(k, m)
  BY <1>4
<1>6. diff \in Seq(Changed) /\ tree.untracked \in Seq(Untracked)
  BY <1>3, TreeIs
<1>7. Len(diff) \in Nat /\ Len(tree.untracked) \in Nat
  BY <1>6, LenProperties
<1>8. IsSeq(others)
  BY DEF TallyInv, OthersCounted
<1>9. /\ Len(others) \in Nat \ {0} /\ u = others[1] /\ Len(Tail(others)) = Len(others) - 1
      /\ \A i \in 1..(Len(others) - 1) : Tail(others)[i] = others[i + 1]
  <2>1. /\ Len(others) \in Nat \ {0} /\ u = others[1] /\ Len(Tail(others)) = Len(others) - 1
        /\ IsSeq(Tail(others)) /\ \A i \in DOMAIN Tail(others) : Tail(others)[i] = others[i + 1]
    BY <1>1, <1>8, TailIs
  <2>2. DOMAIN Tail(others) = 1..(Len(others) - 1)
    BY <2>1, SeqIs
  <2> QED
    BY <2>1, <2>2
<1>10. /\ Len(files) = Len(diff) - k
       /\ Len(others) = Len(tree.untracked) - m
       /\ \A i \in 1..Len(others) : others[i] = tree.untracked[m + i]
       /\ Plain => DueUpto(res.hunks, Off(DueOfFiles, k) + Off(DueOfOthers, m))
  BY <1>5 DEF Collected
<1>11. /\ k = Len(diff) /\ m + 1 \in 1..Len(tree.untracked) /\ (m + 1) - 1 = m
       /\ m + 1 \in 0..Len(tree.untracked)
  <2>1. Len(files) = 0
    BY <1>1, NoElements
  <2>2. k = Len(diff)
    BY <1>7, <1>10, <2>1
  <2>3. m \in Nat /\ Len(tree.untracked) \in Nat
    BY <1>7
  <2>4. Len(others) = Len(tree.untracked) - m /\ Len(others) \in Nat \ {0}
    BY <1>9, <1>10
  <2>5. m + 1 \in 1..Len(tree.untracked)
    BY <2>3, <2>4
  <2> QED
    BY <2>2, <2>3, <2>5
<1>12. u = tree.untracked[m + 1]
  BY <1>9, <1>10
<1> HIDE DEF u
<1>13. Len(others') = Len(tree.untracked) - (m + 1)
  BY <1>1, <1>7, <1>9, <1>10
<1>14. ASSUME NEW i \in 1..Len(others') PROVE others'[i] = tree.untracked[(m + 1) + i]
  <2>1. i \in 1..(Len(others) - 1) /\ i + 1 \in 1..Len(others) /\ m + (i + 1) = (m + 1) + i
    BY <1>1, <1>9
  <2>2. others'[i] = others[i + 1]
    BY <1>1, <1>9, <2>1
  <2>3. others[i + 1] = tree.untracked[m + (i + 1)]
    BY <1>10, <2>1
  <2> QED
    BY <2>1, <2>2, <2>3
<1>15. ASSUME Plain PROVE DueUpto(res'.hunks, Off(DueOfFiles, k) + Off(DueOfOthers, m + 1))
  <2> DEFINE n == m + 1
  <2>1. n \in 1..Len(tree.untracked) /\ n - 1 = m /\ u = tree.untracked[n]
    BY <1>11, <1>12
  <2>2. DueUpto(res.hunks, Off(DueOfFiles, Len(diff)) + Off(DueOfOthers, n - 1))
    BY <1>10, <1>11, <1>15, <2>1
  <2> HIDE DEF n
  <2>3. DueUpto(IF Printed(u.path) \in Denied \/ ~Rendered(u) THEN res.hunks
                ELSE Append(res.hunks, UntrackedHunk(u)),
                Off(DueOfFiles, Len(diff)) + Off(DueOfOthers, n))
    BY <1>3, <2>1, <2>2, UntrackedIsDue
  <2>4. DueUpto(res'.hunks, Off(DueOfFiles, k) + Off(DueOfOthers, n))
    BY <1>2, <1>11, <2>3
  <2> QED
    BY <2>4 DEF n
<1>16. tree' = tree /\ files' = files
  BY <1>1
<1>17. Collected(k, m + 1)'
  <2> DEFINE n == m + 1
  <2>1. \A i \in 1..Len(files') : FileRead(files'[i], diff[k + i])
    BY <1>5, <1>16 DEF Collected
  <2> HIDE DEF n
  <2>2. /\ Len(files') = Len(diff) - k
        /\ Len(others') = Len(tree.untracked) - n
        /\ \A i \in 1..Len(others') : others'[i] = tree.untracked[n + i]
        /\ n > 0 => k = Len(diff)
        /\ Plain => DueUpto(res'.hunks, Off(DueOfFiles, k) + Off(DueOfOthers, n))
    BY <1>10, <1>11, <1>13, <1>14, <1>15, <1>16 DEF n
  <2>3. Collected(k, n)'
    BY <1>16, <2>1, <2>2, CollectedThen
  <2> QED
    BY <2>3 DEF n
<1>18. k \in 0..Len(diff') /\ m + 1 \in 0..Len(tree'.untracked)
  BY <1>11, <1>16, DueKept
<1>19. \E n \in 0..Len(diff') : \E j \in 0..Len(tree'.untracked) : Collected(n, j)'
  BY <1>17, <1>18
<1> QED
  BY <1>1, <1>3, <1>16, <1>19 DEF ReadInv

LEMMA NothingIsRead ==
  ASSUME ReadInv, UNCHANGED <<tree, parser, others, res>>,
         phase' = phase \/ Return
  PROVE  ReadInv'
<1>1. tree' = tree /\ lines' = lines /\ cur' = cur /\ hb' = hb /\ files' = files
      /\ others' = others /\ res' = res
  BY DEF parser
<1>2. \A k, m : Collected(k, m) => Collected(k, m)'
  <2> TAKE k, m
  <2> HAVE Collected(k, m)
  <2>1. /\ Len(files') = Len(diff) - k
        /\ \A i \in 1..Len(files') : FileRead(files'[i], diff[k + i])
        /\ Len(others') = Len(tree.untracked) - m
        /\ \A i \in 1..Len(others') : others'[i] = tree.untracked[m + i]
        /\ m > 0 => k = Len(diff)
        /\ Plain => DueUpto(res'.hunks, Off(DueOfFiles, k) + Off(DueOfOthers, m))
    BY <1>1 DEF Collected
  <2> QED
    BY <1>1, <2>1, CollectedThen
<1>3. diff' = diff
  BY <1>1, DueKept
<1>4. Reading(diff, lines, cur, hb, files) => Reading(diff, lines, cur, hb, files)'
  BY <1>1, <1>3
<1>5. CASE phase' = phase
  BY <1>1, <1>2, <1>3, <1>4, <1>5 DEF ReadInv
<1>6. CASE Return
  <2>1. phase = "collecting" /\ phase' = "done" /\ files = <<>> /\ others = <<>>
    BY <1>6 DEF Return
  <2> QED
    BY <1>1, <1>2, <1>3, <2>1 DEF ReadInv
<1> QED
  BY <1>5, <1>6

LEMMA ReadStep == TallyInv /\ ReadInv /\ [ParseNext]_parseVars => ReadInv'
<1> SUFFICES ASSUME TallyInv, ReadInv, [ParseNext]_parseVars PROVE ReadInv'
  OBVIOUS
<1>1. CASE \/ FileHeader \/ NewFile \/ DeletedFile \/ Rename \/ PlusHeader \/ Ignored
           \/ HunkHeader \/ Content
  BY <1>1, LinesAreRead
<1>2. CASE ParseEnds
  BY <1>2, ParsingEnds
<1>3. CASE CollectFile
  BY <1>3, FileCollected
<1>4. CASE CollectUntracked
  BY <1>4, UntrackedCollected
<1>5. CASE Return
  BY <1>5, NothingIsRead DEF Return
<1>6. CASE Done \/ UNCHANGED parseVars
  BY <1>6, NothingIsRead DEF Done, parseVars
<1> QED
  BY <1>1, <1>2, <1>3, <1>4, <1>5, <1>6 DEF ParseNext

-----------------------------------------------------------------------------

\* Every file was read as it should be when the first one is looked at.
LEMMA ParsedRight ==
  ASSUME ReadInv, Parsed
  PROVE  \A i \in DOMAIN diff :
           /\ files[i].change = diff[i].change
           /\ files[i].path = Printed(diff[i].path) \/ TakesPath(diff[i])
           /\ Len(files[i].hunks) = Len(diff[i].hunks)
           /\ \A h \in DOMAIN diff[i].hunks :
                BodyOfOthers(files[i].hunks[h].body, diff[i].hunks[h])
<1>1. phase = "collecting" /\ Len(files) = Len(diff)
  BY DEF Parsed
<1>2. diff \in Seq(Changed)
  BY TreeIs DEF ReadInv
<1>3. PICK k \in 0..Len(diff) : \E m \in 0..Len(tree.untracked) : Collected(k, m)
  BY <1>1 DEF ReadInv
<1>4. Len(files) = Len(diff) - k /\ \A i \in 1..Len(files) : FileRead(files[i], diff[k + i])
  BY <1>3 DEF Collected
<1>5. /\ Len(diff) \in Nat /\ DOMAIN diff = 1..Len(diff)
      /\ \A i \in 1..Len(diff) : diff[i] \in Changed
  BY <1>2, ChangesAre
<1>6. k = 0
  <2> HIDE DEF Parsed
  <2>1. Len(diff) = Len(diff) - k /\ k \in Nat
    BY <1>1, <1>4, <1>5
  <2> QED
    BY <1>5, <2>1
<1>7. ASSUME NEW i \in DOMAIN diff
      PROVE  FileRead(files[i], diff[i]) /\ DOMAIN diff[i].hunks = 1..Len(diff[i].hunks)
  <2>1. i \in 1..Len(files) /\ k + i = i
    BY <1>1, <1>5, <1>6
  <2>2. FileRead(files[i], diff[i])
    BY <1>4, <2>1
  <2> QED
    BY <1>5, <2>2, HunksAre
<1> QED
  BY <1>7 DEF FileRead, FileUpto

\* The diff is exact at the end, if there is nothing that looks like a header.
LEMMA PlainDiffIsExact ==
  ASSUME ReadInv, phase = "done", Plain
  PROVE  ExactDiff
<1>1. tree \in Trees /\ files = <<>> /\ others = <<>>
  BY DEF ReadInv
<1>2. PICK k \in 0..Len(diff) : \E m \in 0..Len(tree.untracked) : Collected(k, m)
  BY DEF ReadInv
<1>3. PICK m \in 0..Len(tree.untracked) : Collected(k, m)
  BY <1>2
<1>4. /\ Len(files) = Len(diff) - k /\ Len(others) = Len(tree.untracked) - m
      /\ DueUpto(res.hunks, Off(DueOfFiles, k) + Off(DueOfOthers, m))
  BY <1>3 DEF Collected
<1>5. Len(diff) \in Nat /\ Len(tree.untracked) \in Nat
  BY <1>1, DueIs
<1>6. k = Len(diff) /\ m = Len(tree.untracked)
  <2>1. Len(files) = 0 /\ Len(others) = 0
    BY <1>1, NoElements
  <2> QED
    BY <1>4, <1>5, <2>1
<1>7. Len(DueHunks) = Off(DueOfFiles, k) + Off(DueOfOthers, m) /\ DOMAIN DueHunks = 1..Len(DueHunks)
  BY <1>1, <1>6, DueStand
<1>8. Len(res.hunks) = Len(DueHunks) /\ \A q \in DOMAIN DueHunks : Matches(res.hunks[q], DueHunks[q])
  BY <1>4, <1>7 DEF DueUpto
<1> QED
  BY <1>8 DEF ExactDiff, Matches

\* OnlyLookalikesAreLost (DiffParse): splitFileDiffs reads every file and every
\* hunk that git printed, with the lines that do not look like headers, and
\* WorkingTreeDiff returns each of them once and in order if none does, for every
\* working tree, deny list and limit on untracked files.
THEOREM FilesReadAsPrinted == ParseSpec => []OnlyLookalikesAreLost
<1>1. ReadInv => OnlyLookalikesAreLost
  BY ParsedRight, PlainDiffIsExact DEF OnlyLookalikesAreLost
<1> QED
  BY <1>1, TallyInit, TallyStep, ReadInit, ReadStep, PTL DEF ParseSpec
=============================================================================
