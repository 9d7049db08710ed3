------------------------------- MODULE Gateway -------------------------------
(***************************************************************************)
(* internal/ai: what one analysis does (Gateway.Analyze), run by several    *)
(* workers that share the costs table of the store.  Every call of a        *)
(* provider and every statement of the store is a step of its own; the      *)
(* store's errors are dropped by the code.  Costs are counted in a unit     *)
(* small enough to make them integers.                                      *)
(***************************************************************************)
EXTENDS Integers, FiniteSets, FiniteSetsExt

CONSTANTS Workers,
          Changes,
          NoChange,
          Answers,    \* the triages the providers answer with
          NoTriage,
          Budget,     \* dailyUSD; 0 switches the gate off
          MaxCost,    \* the most one answer costs
          MaxDay,     \* bound on the days
          MaxFaults,  \* bound on the store's errors
          MaxOutages  \* bound on stops and restarts of the agent

ASSUME BudgetAssumption  == Budget \in Nat
ASSUME MaxCostAssumption == MaxCost \in Nat
ASSUME MaxDayAssumption  == MaxDay \in Nat \ {0}
ASSUME WorkersAssumption == IsFiniteSet(Workers)

VARIABLES today,
          spend,    \* the costs table: usd by day
          row,      \* state of the change in the queue
          pc,       \* progress of each worker through Analyze
          job,      \* the change it analyzes, NoChange if none
          cost,     \* CostUSD of the answer it holds
          said,     \* its triage until it is routed
          saved,    \* total cost in the results that were saved
          paid,     \* what the providers billed by day, counted up to Budget
          reviewed, \* costs of reviews the agent went to charge, by day
          lost,     \* costs AddCost failed to add, by day
          blind,    \* reviews let through although the spend was not read
          faults,
          outages

store  == <<spend, row>>
worker == <<pc, job, cost, said>>
ghosts == <<saved, paid, reviewed, lost, blind, faults, outages>>
vars   == <<today, store, worker, ghosts>>

Days  == 1..MaxDay
Costs == 0..MaxCost

TypeOK ==
  /\ today  \in Days
  /\ spend  \in [Days -> Nat]
  /\ row    \in [Changes -> {"pending", "analyzing", "settled"}]
  /\ pc     \in [Workers -> {"idle", "triaging", "triaged", "triage_saved",
                             "gate", "reviewing", "reviewed", "review_saved",
                             "settling"}]
  /\ job    \in [Workers -> Changes \cup {NoChange}]
  /\ cost   \in [Workers -> Costs]
  /\ said   \in [Workers -> Answers \cup {NoTriage}]
  /\ saved    \in Nat
  /\ paid     \in [Days -> 0..Budget]
  /\ reviewed \in [Days -> Nat]
  /\ lost     \in [Days -> Nat]
  /\ blind    \in [Days -> Nat]
  /\ faults  \in Nat
  /\ outages \in Nat

NothingYet == [d \in Days |-> 0]

Init ==
  /\ today  = 1
  /\ spend  = NothingYet
  /\ row    = [c \in Changes |-> "pending"]
  /\ pc     = [w \in Workers |-> "idle"]
  /\ job    = [w \in Workers |-> NoChange]
  /\ cost   = [w \in Workers |-> 0]
  /\ said   = [w \in Workers |-> NoTriage]
  /\ saved = 0
  /\ paid = NothingYet /\ reviewed = NothingYet
  /\ lost = NothingYet /\ blind = NothingYet
  /\ faults = 0 /\ outages = 0

-----------------------------------------------------------------------------
(* Routing *)

\* A triage as the routing rule sees it, with the event it is of: categories
\* in lower case, the wanted ones those of the configuration; large if there is
\* a line threshold and the event exceeds it.
Triages == [force      : {"", "triage", "review"},
            relevance  : {"trivial", "minor", "notable", "risky"},
            escalate   : BOOLEAN,
            categories : SUBSET {"security", "docs", "style"},
            large      : BOOLEAN]

Wanted == {"security"}

\* Faulty variant: a triage without a category counts as style.
IsPureStyleOrNone(t) == t.categories \subseteq {"style"}

IsPureStyle(t) == t.categories = {"style"}

ShouldEscalate(t) ==
  \/ t.force = "review"
  \/ /\ t.force # "triage"
     /\ t.relevance # "trivial"
     /\ \/ t.escalate
        \/ t.relevance \in {"notable", "risky"}
        \/ t.categories \cap Wanted # {}
        \/ t.large /\ ~IsPureStyle(t)

\* The events are the builder's: it forces no stage.
ASSUME AnswersAssumption ==
  Answers \subseteq Triages /\ \A t \in Answers : t.force = ""

-----------------------------------------------------------------------------
(* The store *)

Fault == faults < MaxFaults /\ faults' = faults + 1

\* Faulty variant: the statement replaces the day's row.
AddCostReplacing(w) ==
  /\ spend' = [spend EXCEPT ![today] = cost[w]]
  /\ UNCHANGED <<lost, faults>>

AddCost(w) ==
  /\ spend' = [spend EXCEPT ![today] = @ + cost[w]]
  /\ UNCHANGED <<lost, faults>>

AddCostFails(w) ==
  /\ Fault
  /\ lost' = [lost EXCEPT ![today] = @ + cost[w]]
  /\ UNCHANGED spend

-----------------------------------------------------------------------------
(* Analyze *)

Goto(w, from, to) == pc[w] = from /\ pc' = [pc EXCEPT ![w] = to]

\* processEvent claims a change and calls Analyze.
Begin(w) ==
  /\ Goto(w, "idle", "triaging")
  /\ \E c \in Changes :
       /\ row[c] = "pending"
       /\ row' = [row EXCEPT ![c] = "analyzing"]
       /\ job' = [job EXCEPT ![w] = c]
  /\ UNCHANGED <<today, spend, cost, said, ghosts>>

\* runTriage, runReview: an answer of the provider or of the fallback, which is
\* paid for; one that is no JSON is an error, and its cost is forgotten.
Billed(c) ==
  /\ paid' = [paid EXCEPT ![today] = Min({@ + c, Budget})]
  /\ UNCHANGED <<today, store, job, saved, reviewed, lost, blind, faults,
                 outages>>

Answer(w, c) == Billed(c) /\ cost' = [cost EXCEPT ![w] = c]

TriageAnswered(w) ==
  /\ Goto(w, "triaging", "triaged")
  /\ \E c \in Costs : Answer(w, c)
  /\ \E t \in Answers : said' = [said EXCEPT ![w] = t]

ReviewAnswered(w) ==
  /\ Goto(w, "reviewing", "reviewed")
  /\ \E c \in Costs : Answer(w, c)
  /\ UNCHANGED said

Unreadable(w) ==
  /\ pc[w] \in {"triaging", "reviewing"}
  /\ pc' = [pc EXCEPT ![w] = "settling"]
  /\ \E c \in Costs : Billed(c)
  /\ UNCHANGED <<cost, said>>

\* Neither the provider nor the fallback answers.
NoAnswer(w) ==
  /\ pc[w] \in {"triaging", "reviewing"}
  /\ pc' = [pc EXCEPT ![w] = "settling"]
  /\ UNCHANGED <<today, store, job, cost, said, ghosts>>

\* SaveTriage, SaveReview: an error is dropped.
Save(w) ==
  /\ \/ Goto(w, "triaged", "triage_saved")
     \/ Goto(w, "reviewed", "review_saved")
  /\ \/ saved' = saved + cost[w] /\ UNCHANGED faults
     \/ Fault /\ UNCHANGED saved
  /\ UNCHANGED <<today, store, job, cost, said,
                 paid, reviewed, lost, blind, outages>>

\* charge: the error of AddCost is dropped too, and the cost with it.
ChargeTriage(w) ==
  /\ Goto(w, "triage_saved",
             IF ShouldEscalate(said[w]) THEN "gate" ELSE "settling")
  /\ AddCost(w) \/ AddCostFails(w)
  /\ cost' = [cost EXCEPT ![w] = 0]
  /\ said' = [said EXCEPT ![w] = NoTriage]
  /\ UNCHANGED <<today, row, job, saved, paid, reviewed, blind, outages>>

ChargeReview(w) ==
  /\ Goto(w, "review_saved", "settling")
  /\ AddCost(w) \/ AddCostFails(w)
  /\ reviewed' = [reviewed EXCEPT ![today] = @ + cost[w]]
  /\ cost' = [cost EXCEPT ![w] = 0]
  /\ UNCHANGED <<today, row, job, said, saved, paid, blind, outages>>

\* Faulty variant: a spend that has reached the budget still lets a review in.
ExhaustedOver == Budget > 0 /\ spend[today] > Budget

Exhausted == Budget > 0 /\ spend[today] >= Budget

\* The budget gate: a review starts, or the change is left with its triage.
PassGate(w) ==
  /\ Goto(w, "gate", "reviewing")
  /\ ~Exhausted
  /\ UNCHANGED <<today, store, job, cost, said, ghosts>>

BudgetHit(w) ==
  /\ Goto(w, "gate", "settling")
  /\ Exhausted
  /\ UNCHANGED <<today, store, job, cost, said, ghosts>>

\* An error of SpendForDay reads as no spend.
PassGateBlindly(w) ==
  /\ Budget > 0
  /\ Goto(w, "gate", "reviewing")
  /\ Fault
  /\ blind' = [blind EXCEPT ![today] = @ + 1]
  /\ UNCHANGED <<today, store, job, cost, said,
                 saved, paid, reviewed, lost, outages>>

\* Faulty variant: the change is taken out of the queue for good.
SettleDropping(w) ==
  /\ Goto(w, "settling", "idle")
  /\ row' = [c \in Changes \ {job[w]} |-> row[c]]
  /\ job' = [job EXCEPT ![w] = NoChange]
  /\ UNCHANGED <<today, spend, cost, said, ghosts>>

\* Complete or Fail, in processEvent.
Settle(w) ==
  /\ Goto(w, "settling", "idle")
  /\ row' = [row EXCEPT ![job[w]] = "settled"]
  /\ job' = [job EXCEPT ![w] = NoChange]
  /\ UNCHANGED <<today, spend, cost, said, ghosts>>

-----------------------------------------------------------------------------

NextDay ==
  /\ today < MaxDay
  /\ today' = today + 1
  /\ UNCHANGED <<store, worker, ghosts>>

\* The agent is stopped and started: what it was analyzing is queued again.
Outage ==
  /\ outages < MaxOutages
  /\ outages' = outages + 1
  /\ pc'  = [w \in Workers |-> "idle"]
  /\ row' = [c \in Changes |->
               IF row[c] = "analyzing" THEN "pending" ELSE row[c]]
  /\ job' = [w \in Workers |-> NoChange]
  /\ cost' = [w \in Workers |-> 0]
  /\ said' = [w \in Workers |-> NoTriage]
  /\ UNCHANGED <<today, spend, saved, paid, reviewed, lost, blind, faults>>

WorkerStep(w) ==
  \/ Begin(w)
  \/ TriageAnswered(w) \/ ReviewAnswered(w) \/ Unreadable(w) \/ NoAnswer(w)
  \/ Save(w) \/ ChargeTriage(w) \/ ChargeReview(w)
  \/ PassGate(w) \/ BudgetHit(w) \/ PassGateBlindly(w)
  \/ Settle(w)

Next == (\E w \in Workers : WorkerStep(w)) \/ NextDay \/ Outage

Spec == Init /\ [][Next]_vars

-----------------------------------------------------------------------------
(* Properties *)

\* The gate reads the spend before the review it lets in is charged, so every
\* worker may be in a review by the time the budget is reached, also one that
\* began the day before; no day is charged more than that, beyond what the store
\* failed to add or to read.
ReviewSpendBounded ==
  Budget > 0 => \A d \in Days :
    reviewed[d] < Budget + lost[d] + (Cardinality(Workers) + blind[d]) * MaxCost

\* Analyze saves a result and then charges it: with no worker in between, the
\* costs table holds the cost of each saved result once, whatever day it fell
\* on and whichever worker charged it.
SpendMatchesResults ==
  (\A w \in Workers : cost[w] = 0) /\ faults = 0 /\ outages = 0
    => MapThenSumSet(LAMBDA d : spend[d], Days) = saved

\* docs/data-contract.md:41-50, and router_test.go:50-61 for a forced stage.
ContractEscalates(t) ==
  CASE t.force = "review" -> TRUE
    [] t.force = "triage" -> FALSE
    [] OTHER -> /\ t.relevance # "trivial"
                /\ \/ t.relevance \in {"notable", "risky"}
                   \/ t.escalate
                   \/ \E c \in t.categories : c \in Wanted
                   \/ t.large /\ t.categories # {"style"}

\* Analyze: a triage that was charged goes on to the gate if the data contract
\* escalates it and nowhere else; a stop of the agent apart.
RoutedAsContracted ==
  [][\A w \in Workers :
       pc[w] = "triage_saved" /\ pc'[w] \notin {"triage_saved", "idle"} =>
         (pc'[w] = "gate" <=> ContractEscalates(said[w]))]_vars

\* skill/SKILL.md:101 calls daily_usd the daily ceiling after which there is
\* triage only: no review starts once the day's answers have cost that much.
TriageOnlyOverBudget ==
  [][\A w \in Workers :
       pc[w] = "gate" /\ pc'[w] = "reviewing" => paid[today] < Budget]_vars
=============================================================================
