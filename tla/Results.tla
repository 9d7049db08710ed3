------------------------------- MODULE Results -------------------------------
(***************************************************************************)
(* What becomes of the results of an analysis: the record (internal/store), *)
(* the status of the commit (internal/status), the report for the hub       *)
(* (internal/audit) and what krennic gc --days leaves of them, while the    *)
(* agent is killed and restarted.  All changes are of one HEAD commit and   *)
(* numbered in the order of the queue; each analysis of a change has a      *)
(* number, so that what is left of an earlier one can be told.              *)
(***************************************************************************)
EXTENDS Integers

CONSTANTS N,          \* changes
          Workers,
          MaxOutages, \* bound on kills
          MaxFaults,  \* bound on statements the store fails
          MaxSweeps   \* bound on runs of krennic gc

ASSUME NAssumption          == N \in Nat
ASSUME MaxOutagesAssumption == MaxOutages \in Nat

VARIABLES sent,     \* changes enqueued so far
          queue,    \* queue.state, "none" where there is no row
          record,   \* the records row: status, analysis its triage is of, review
          aged,     \* records not updated for longer than gc's days
          runs,     \* analyses of the change that came to a triage
          pc,       \* progress of each worker
          job,      \* the change it has claimed
          verdict,  \* the review its analysis came to, or "none"
          shown,    \* the provider's status of the commit
          late,     \* posts the client gave up on, still on their way
          report,   \* the outbox row by change
          disturbed,\* changes with a failed statement or post
          killed,   \* changes the agent was killed over
          shared,   \* changes two workers held at the same time
          wiped,    \* changes gc --days 0 met
          outages, faults, sweeps

worker == <<pc, job, verdict>>
ghosts == <<disturbed, killed, shared, wiped, outages, faults, sweeps>>
vars   == <<sent, queue, record, aged, runs, worker, shown, late, report, ghosts>>

Changes  == 1..N
Verdicts == {"approve", "request-changes"}
NoReview == [run |-> 0, verdict |-> "none"]
NoRecord == [status |-> "none", triage |-> 0, review |-> NoReview]
NoPost   == [change |-> 0, state |-> "none"]

Reviews == [run : 0..(MaxOutages + 1), verdict : Verdicts \cup {"none"}]
Records == [status : {"none", "pending", "analyzing", "done", "failed"},
            triage : 0..(MaxOutages + 1), review : Reviews]
Posts   == [change : 0..N, state : {"none", "success", "failure"}]

TypeOK ==
  /\ sent \in 0..N
  /\ queue  \in [Changes -> {"none", "pending", "analyzing", "failed"}]
  /\ record \in [Changes -> Records]
  /\ aged \subseteq Changes
  /\ runs \in [Changes -> 0..(MaxOutages + 1)]
  /\ pc \in [Workers -> {"idle", "claimed", "triaged", "escalated", "answered",
                         "posted", "deleted", "completed", "erred", "marked"}]
  /\ job \in [Workers -> 0..N]
  /\ verdict \in [Workers -> Verdicts \cup {"none"}]
  /\ shown \in Posts /\ late \subseteq Posts
  /\ report \in [Changes -> Records]
  /\ disturbed \subseteq Changes /\ killed \subseteq Changes
  /\ shared \subseteq Changes /\ wiped \subseteq Changes
  /\ outages \in 0..MaxOutages /\ faults \in Nat /\ sweeps \in Nat

Init ==
  /\ sent = 0
  /\ queue  = [c \in Changes |-> "none"]
  /\ record = [c \in Changes |-> NoRecord]
  /\ aged = {}
  /\ runs = [c \in Changes |-> 0]
  /\ pc = [w \in Workers |-> "idle"]
  /\ job = [w \in Workers |-> 0]
  /\ verdict = [w \in Workers |-> "none"]
  /\ shown = NoPost
  /\ late = {}
  /\ report = [c \in Changes |-> NoRecord]
  /\ disturbed = {} /\ killed = {} /\ shared = {} /\ wiped = {}
  /\ outages = 0 /\ faults = 0 /\ sweeps = 0

-----------------------------------------------------------------------------
(* The records table *)

\* UPDATE records ... WHERE change_id: without the row nothing happens.
Update(c, rec) ==
  IF record[c].status = "none" THEN UNCHANGED <<record, aged>>
  ELSE record' = [record EXCEPT ![c] = rec] /\ aged' = aged \ {c}

\* Faulty variant: a triage that is there is kept.
SaveTriageOnce(c, run) ==
  Update(c, [record[c] EXCEPT !.triage = IF @ = 0 THEN run ELSE @])

SaveTriage(c, run)    == Update(c, [record[c] EXCEPT !.triage = run])
SaveReview(c, rv)     == Update(c, [record[c] EXCEPT !.review = rv])
SetStatus(c, status)  == Update(c, [record[c] EXCEPT !.status = status])

\* A statement of the store fails; every caller here drops the error.
Fault(c) ==
  /\ faults < MaxFaults
  /\ faults' = faults + 1
  /\ disturbed' = disturbed \cup {c}

Works(action, c) ==
  \/ action /\ UNCHANGED <<faults, disturbed>>
  \/ Fault(c) /\ UNCHANGED <<record, aged>>

Enqueue(c) ==
  /\ c = sent + 1
  /\ sent' = c
  /\ queue'  = [queue EXCEPT ![c] = "pending"]
  /\ record' = [record EXCEPT ![c] = [NoRecord EXCEPT !.status = "pending"]]
  /\ UNCHANGED <<aged, runs, worker, shown, late, report, ghosts>>

-----------------------------------------------------------------------------
(* processEvent *)

Goes(w, from, to) == pc[w] = from /\ pc' = [pc EXCEPT ![w] = to]

Take(w, c) ==
  /\ Goes(w, "idle", "claimed")
  /\ queue[c] = "pending"
  /\ queue' = [queue EXCEPT ![c] = "analyzing"]
  /\ SetStatus(c, "analyzing")
  /\ job' = [job EXCEPT ![w] = c]
  /\ verdict' = [verdict EXCEPT ![w] = "none"]
  /\ shared' = shared \cup
       UNION {{c, job[v]} : v \in {u \in Workers \ {w} : pc[u] # "idle"}}
  /\ UNCHANGED <<sent, runs, shown, late, report, disturbed, killed, wiped, outages,
                 faults, sweeps>>

\* Faulty variant: the change queued last is claimed first.
ClaimNewest(w) ==
  \E c \in Changes : Take(w, c) /\ \A d \in (c + 1)..N : queue[d] # "pending"

Claim(w) ==
  \E c \in Changes : Take(w, c) /\ \A d \in 1..(c - 1) : queue[d] # "pending"

\* The triage is there and saved.
Triage(w) ==
  LET c == job[w] IN
  /\ Goes(w, "claimed", "triaged")
  /\ runs' = [runs EXCEPT ![c] = @ + 1]
  /\ Works(SaveTriage(c, runs[c] + 1), c)
  /\ UNCHANGED <<sent, queue, job, verdict, shown, late, report, killed, shared,
                 wiped, outages, sweeps>>

\* Not escalated or over the budget, or on to the review: Gateway has the rule.
Route(w) ==
  /\ Goes(w, "triaged", "answered") \/ Goes(w, "triaged", "escalated")
  /\ UNCHANGED <<sent, queue, record, aged, runs, job, verdict, shown, late, report,
                 ghosts>>

Review(w, v) ==
  LET c == job[w] IN
  /\ Goes(w, "escalated", "answered")
  /\ verdict' = [verdict EXCEPT ![w] = v]
  /\ Works(SaveReview(c, [run |-> runs[c], verdict |-> v]), c)
  /\ UNCHANGED <<sent, queue, runs, job, shown, late, report, killed, shared, wiped,
                 outages, sweeps>>

\* A provider fails, or its answer is no JSON.
AnalysisFails(w) ==
  /\ Goes(w, "claimed", "erred") \/ Goes(w, "escalated", "erred")
  /\ UNCHANGED <<sent, queue, record, aged, runs, job, verdict, shown, late, report,
                 ghosts>>

\* Fail, first and second statement: a failed first one skips the second.
FailQueue(w) ==
  LET c == job[w] IN
  /\ \/ /\ Goes(w, "erred", "marked")
        /\ queue' = [queue EXCEPT ![c] = "failed"]
        /\ UNCHANGED <<faults, disturbed>>
     \/ Goes(w, "erred", "idle") /\ Fault(c) /\ UNCHANGED queue
  /\ UNCHANGED <<sent, record, aged, runs, job, verdict, shown, late, report,
                 killed, shared, wiped, outages, sweeps>>

FailRecord(w) ==
  /\ Goes(w, "marked", "idle")
  /\ Works(SetStatus(job[w], "failed"), job[w])
  /\ UNCHANGED <<sent, queue, runs, job, verdict, shown, late, report, killed,
                 shared, wiped, outages, sweeps>>

\* verdict: without a review the state is of the triage, success.
VerdictState(v) == IF v = "request-changes" THEN "failure" ELSE "success"

\* Publish posts to the commit of the event; an error is only logged.  A post
\* that timed out after 30 s may still arrive.
Publish(w) ==
  LET post == [change |-> job[w], state |-> VerdictState(verdict[w])] IN
  /\ Goes(w, "answered", "posted")
  /\ \/ shown' = post /\ UNCHANGED <<late, faults, disturbed>>
     \/ Fault(job[w]) /\ late' \in {late, late \cup {post}} /\ UNCHANGED shown
  /\ UNCHANGED <<sent, queue, record, aged, runs, job, verdict, report, killed,
                 shared, wiped, outages, sweeps>>

LatePost ==
  /\ \E post \in late :
       /\ late' = late \ {post}
       /\ shown' = post
       /\ disturbed' = disturbed \cup Changes
  /\ UNCHANGED <<sent, queue, record, aged, runs, worker, report, killed, shared,
                 wiped, outages, faults, sweeps>>

\* Complete, first and second statement; enqueueReport follows in any case.
DeleteRow(w) ==
  LET c == job[w] IN
  /\ \/ /\ Goes(w, "posted", "deleted")
        /\ queue' = [queue EXCEPT ![c] = "none"]
        /\ UNCHANGED <<faults, disturbed>>
     \/ Goes(w, "posted", "completed") /\ Fault(c) /\ UNCHANGED queue
  /\ UNCHANGED <<sent, record, aged, runs, job, verdict, shown, late, report,
                 killed, shared, wiped, outages, sweeps>>

\* Faulty variant: no report follows.
MarkDoneOnly(w) ==
  /\ Goes(w, "deleted", "idle")
  /\ Works(SetStatus(job[w], "done"), job[w])
  /\ UNCHANGED <<sent, queue, runs, job, verdict, shown, late, report, killed,
                 shared, wiped, outages, sweeps>>

MarkDone(w) ==
  /\ Goes(w, "deleted", "completed")
  /\ Works(SetStatus(job[w], "done"), job[w])
  /\ UNCHANGED <<sent, queue, runs, job, verdict, shown, late, report, killed,
                 shared, wiped, outages, sweeps>>

\* Faulty variant: the report is made of the record without its review.
BuildReportOfTriage(rec) == [rec EXCEPT !.review = NoReview]

\* scanRecord and BuildReport: whatever the record has.
BuildReport(rec) == rec

EnqueueReport(w) ==
  LET c == job[w] IN
  /\ Goes(w, "completed", "idle")
  /\ \/ /\ report' = IF record[c].status = "none" THEN report
                     ELSE [report EXCEPT ![c] = BuildReport(record[c])]
        /\ UNCHANGED <<faults, disturbed>>
     \/ Fault(c) /\ UNCHANGED report
  /\ UNCHANGED <<sent, queue, record, aged, runs, job, verdict, shown, late,
                 killed, shared, wiped, outages, sweeps>>

-----------------------------------------------------------------------------
(* Kill and restart, and krennic gc *)

Held == {job[w] : w \in {v \in Workers : pc[v] # "idle"}}

\* ResetInflight takes back what was being analyzed.
Outage ==
  /\ outages < MaxOutages
  /\ outages' = outages + 1
  /\ killed' = killed \cup Held
  /\ queue' = [c \in Changes |-> IF queue[c] = "analyzing" THEN "pending" ELSE queue[c]]
  /\ pc' = [w \in Workers |-> "idle"]
  /\ UNCHANGED <<sent, record, aged, runs, job, verdict, shown, late, report,
                 disturbed, shared, wiped, faults, sweeps>>

\* Days go by; no worker is in the middle of a change that long.
DaysPass ==
  /\ sweeps < MaxSweeps
  /\ \A w \in Workers : pc[w] = "idle"
  /\ aged' = {c \in Changes : record[c].status # "none"}
  /\ UNCHANGED <<sent, queue, record, runs, worker, shown, late, report, ghosts>>

Prunable(c) == record[c].status \in {"done", "failed"}

\* PruneOlderThan, by another process; with --days 0 the cutoff is now.
Prune(old) ==
  LET gone == {c \in old : Prunable(c)} IN
  /\ sweeps < MaxSweeps
  /\ sweeps' = sweeps + 1
  /\ record' = [c \in Changes |-> IF c \in gone THEN NoRecord ELSE record[c]]
  /\ aged' = aged \ gone
  /\ wiped' = wiped \cup (gone \ aged)
  /\ UNCHANGED <<sent, queue, runs, worker, shown, late, report, disturbed, killed,
                 shared, outages, faults>>

-----------------------------------------------------------------------------

WorkerStep(w) ==
  \/ Claim(w) \/ Triage(w) \/ Route(w) \/ AnalysisFails(w)
  \/ \E v \in Verdicts : Review(w, v)
  \/ FailQueue(w) \/ FailRecord(w)
  \/ Publish(w) \/ DeleteRow(w) \/ MarkDone(w) \/ EnqueueReport(w)

Next ==
  \/ \E c \in Changes : Enqueue(c)
  \/ \E w \in Workers : WorkerStep(w)
  \/ LatePost \/ Outage \/ DaysPass
  \/ Prune(aged) \/ Prune(Changes)

Spec == Init /\ [][Next]_vars

-----------------------------------------------------------------------------
(* Properties *)

AtRest == \A w \in Workers : pc[w] = "idle"

\* Analyze, ResetInflight and enqueueReport: also after a kill and a restart a
\* report is of the last analysis and of a finished change; its review is of an
\* earlier one only if the change was cut off.
ReportIsOfLastAnalysis ==
  \A c \in Changes : report[c].status # "none" /\ c \notin disturbed =>
    /\ report[c].status = "done"
    /\ report[c].triage = runs[c]
    /\ report[c].review.run \in {0, runs[c]} \/ c \in killed

\* publish and BuildReport: the commit's status and the report of its newest
\* change agree: a failure is shown if and only if the report asks for changes.
StatusAgreesWithReport ==
  \A c \in Changes : shown.change = c /\ report[c].status # "none" /\ c \notin disturbed \cup killed =>
    (shown.state = "failure" <=> report[c].review.verdict = "request-changes")

\* Workers and Publish: at rest the commit has the status of the newest change
\* that was analyzed, unless two workers held changes at once, a post or a
\* statement failed or the agent was killed.
SerialStatusIsCurrent ==
  AtRest /\ shared \cup disturbed \cup killed = {} =>
    \A c \in Changes : queue[c] = "none" /\ runs[c] > 0 => shown.change >= c

\* enqueueReport and PruneOlderThan: a change that was completed undisturbed has
\* its report, whatever gc did, unless gc ran with --days 0 in between.
DoneIsReported ==
  \A c \in Changes \ (disturbed \cup killed \cup wiped) :
    c \notin Held /\ runs[c] > 0 /\ queue[c] = "none" => report[c].status = "done"

\* agent.go:107-108 says every change is reported: also one whose analysis
\* failed (audit.go:34 says a report may be sent even if the AI failed).
EveryChangeIsReported ==
  \A c \in Changes \ (disturbed \cup killed \cup wiped) :
    record[c].status \in {"done", "failed"} /\ c \notin Held =>
      report[c].status # "none"

\* audit.go:16-17 says a report is how the AI judged one change: triage and
\* review of it are of one analysis, also after a restart, if no statement failed.
ReportIsOfOneAnalysis ==
  \A c \in Changes : report[c].status # "none" /\ faults = 0 =>
    report[c].review.run \in {0, report[c].triage}
=============================================================================
