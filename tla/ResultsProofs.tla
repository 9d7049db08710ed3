---------------------------- MODULE ResultsProofs ----------------------------
(***************************************************************************)
(* What becomes of the results, for any number of changes and workers and   *)
(* every bound: the report is of the last analysis, agrees with the status  *)
(* of the commit, is not lost to krennic gc, and without overlap the commit *)
(* has the status of the newest change.                                     *)
(***************************************************************************)
EXTENDS Results, TLAPS

Busy(w) == pc[w] # "idle"

Analyzing == {"claimed", "triaged", "escalated", "answered", "posted", "erred"}
Triaged   == {"triaged", "escalated", "answered", "posted", "deleted", "completed"}
Answered  == {"answered", "posted", "deleted", "completed"}
Posted    == {"posted", "deleted", "completed"}

\* A worker at work holds a change, it alone, and has brought its row to where it
\* is itself; without a failed statement no row is left behind.
Holding ==
  /\ \A w \in Workers : Busy(w) => job[w] \in 1..sent
  /\ \A v, w \in Workers : Busy(v) /\ Busy(w) /\ job[v] = job[w] => v = w
  /\ \A w \in Workers :
       /\ pc[w] \in Analyzing => queue[job[w]] = "analyzing"
       /\ pc[w] = "marked"    => queue[job[w]] = "failed"
       /\ pc[w] = "deleted"   => queue[job[w]] = "none"
       /\ pc[w] = "completed" => queue[job[w]] = "none" \/ job[w] \in disturbed
       /\ pc[w] = "completed" => queue[job[w]] \in {"none", "analyzing"}
  /\ \A c \in Changes : queue[c] = "analyzing" => c \in disturbed \cup Held

\* Nothing is known of a change that was not enqueued.
Unsent ==
  \A c \in Changes : c > sent =>
    /\ queue[c] = "none" /\ record[c] = NoRecord /\ runs[c] = 0 /\ report[c] = NoRecord

\* The record of a change at work is there, and gc does not find it old.
Recorded ==
  /\ \A c \in Changes : queue[c] \in {"pending", "analyzing"} =>
       record[c].status \in {"pending", "analyzing"}
  /\ \A w \in Workers :
       /\ pc[w] \in Analyzing \cup {"marked", "deleted"} => record[job[w]].status = "analyzing"
       /\ pc[w] = "completed" =>
            job[w] \in disturbed
            \/ record[job[w]].status = "done"
            \/ (record[job[w]].status = "none" /\ job[w] \in wiped)
       /\ Busy(w) => job[w] \notin aged

\* A change is analyzed again only after a restart.
Bounded ==
  /\ \A c \in Changes : runs[c] <= outages + 1
  /\ \A c \in Changes : queue[c] = "pending" => runs[c] <= outages
  /\ \A w \in Workers : pc[w] = "claimed" => runs[job[w]] <= outages

\* The record has the triage of the last analysis.
Judged ==
  \A w \in Workers :
    job[w] \notin disturbed /\ pc[w] \in Triaged /\ record[job[w]].status # "none" =>
      /\ record[job[w]].triage = runs[job[w]]
      /\ record[job[w]].review.run \in {0, runs[job[w]]} \/ job[w] \in killed

\* And until the agent is killed over the change its review is the verdict.
Reviewed ==
  /\ \A c \in Changes \ (disturbed \cup killed) : queue[c] = "pending" =>
       runs[c] = 0 /\ record[c].review = NoReview
  /\ \A w \in Workers : Busy(w) /\ job[w] \notin disturbed \cup killed =>
       /\ pc[w] = "claimed" => runs[job[w]] = 0
       /\ pc[w] \in {"claimed", "triaged", "escalated"} =>
            record[job[w]].review = NoReview /\ verdict[w] = "none"
       /\ pc[w] \in Answered /\ record[job[w]].status # "none" =>
            record[job[w]].review.verdict = verdict[w]

\* ReportIsOfLastAnalysis, and that a reported change is done with.
Reported ==
  \A c \in Changes : report[c].status # "none" /\ c \notin disturbed =>
    /\ report[c].status = "done"
    /\ report[c].triage = runs[c]
    /\ report[c].review.run \in {0, runs[c]} \/ c \in killed
    /\ queue[c] = "none" /\ c \notin Held /\ c <= sent

\* A shown status is the verdict of the worker that is about to report it, or of
\* a change no worker has any more.
Agreeing ==
  \A c \in Changes \ (disturbed \cup killed) : shown.change = c =>
    /\ queue[c] # "pending" /\ c <= sent
    /\ \A w \in Workers : Busy(w) /\ job[w] = c =>
         pc[w] \in Posted /\ shown.state = VerdictState(verdict[w])
    /\ report[c].status # "none" =>
         (shown.state = "failure" <=> report[c].review.verdict = "request-changes")

\* One change at a time, in the order of the queue.
Serial ==
  shared \cup disturbed \cup killed = {} =>
    /\ \A v, w \in Workers : Busy(v) /\ Busy(w) => v = w
    /\ shown.change <= sent
    /\ \A c \in Changes : queue[c] = "pending" => shown.change < c
    /\ \A w \in Workers : Busy(w) =>
         /\ \A c \in Changes : queue[c] = "pending" => job[w] < c
         /\ pc[w] \notin Posted => shown.change < job[w]
         /\ pc[w] \in Posted    => shown.change = job[w]
    /\ \A c \in Changes : queue[c] = "none" /\ runs[c] > 0 => shown.change >= c

\* DoneIsReported, with the change that is about to be reported.
Reporting ==
  \A c \in Changes \ (disturbed \cup killed \cup wiped) :
    runs[c] > 0 /\ queue[c] = "none" =>
      report[c].status = "done" \/ c \in Held

ResultsInv ==
  /\ TypeOK /\ Holding /\ Unsent /\ Recorded /\ Bounded /\ Judged /\ Reviewed
  /\ Reported /\ Agreeing /\ Serial /\ Reporting

-----------------------------------------------------------------------------
(* The steps of a worker at work *)

WorkStep(w) ==
  \/ Triage(w) \/ Route(w) \/ AnalysisFails(w)
  \/ \E v \in Verdicts : Review(w, v)
  \/ FailQueue(w) \/ FailRecord(w)
  \/ Publish(w) \/ DeleteRow(w) \/ MarkDone(w) \/ EnqueueReport(w)

\* The kinds of steps.
LEMMA StepKinds ==
  ASSUME [Next]_vars
  PROVE  \/ \E c \in Changes : Enqueue(c)
         \/ \E w \in Workers : \E c \in Changes :
              Take(w, c) /\ \A d \in 1..(c - 1) : queue[d] # "pending"
         \/ \E w \in Workers : WorkStep(w)
         \/ LatePost \/ Outage \/ DaysPass \/ Prune(aged) \/ Prune(Changes)
         \/ UNCHANGED vars
BY DEF Next, WorkerStep, WorkStep, Claim

\* UPDATE records is about one row, and leaves a row that is not there alone.
LEMMA UpdateRow ==
  ASSUME TypeOK, NEW c \in Changes, NEW rec \in Records, Update(c, rec)
  PROVE  /\ record' \in [Changes -> Records]
         /\ record'[c] = IF record[c].status = "none" THEN record[c] ELSE rec
         /\ \A d \in Changes \ {c} : record'[d] = record[d]
         /\ aged' \subseteq aged
         /\ record[c].status # "none" => c \notin aged'
BY DEF TypeOK, Update

\* The rows the statements of a worker write.
LEMMA RowsWritten ==
  ASSUME TypeOK, NEW c \in Changes
  PROVE  /\ record[c] \in Records
         /\ \A n \in 0..(MaxOutages + 1) : [record[c] EXCEPT !.triage = n] \in Records
         /\ \A rv \in Reviews : [record[c] EXCEPT !.review = rv] \in Records
         /\ \A st \in {"pending", "analyzing", "done", "failed"} :
              [record[c] EXCEPT !.status = st] \in Records
<1>1. record[c] \in Records
  BY DEF TypeOK
<1>2. ASSUME NEW r \in Records, NEW n \in 0..(MaxOutages + 1)
      PROVE  [r EXCEPT !.triage = n] \in Records
  BY DEF Records
<1>3. ASSUME NEW r \in Records, NEW rv \in Reviews
      PROVE  [r EXCEPT !.review = rv] \in Records
  BY DEF Records
<1>4. ASSUME NEW r \in Records, NEW st \in {"pending", "analyzing", "done", "failed"}
      PROVE  [r EXCEPT !.status = st] \in Records
  BY DEF Records
<1> QED
  BY <1>1, <1>2, <1>3, <1>4

\* What a step of w leaves alone: all but its own change.
LEMMA WorkFrame ==
  ASSUME TypeOK, Holding, NEW w \in Workers, WorkStep(w)
  PROVE  /\ UNCHANGED <<sent, job, killed, shared, wiped, outages, sweeps>>
         /\ Busy(w) /\ job[w] \in 1..sent /\ job[w] \in Changes
         /\ pc' \in [Workers -> {"idle", "claimed", "triaged", "escalated", "answered",
                                 "posted", "deleted", "completed", "erred", "marked"}]
         /\ \A v \in Workers \ {w} : pc'[v] = pc[v] /\ verdict'[v] = verdict[v]
         /\ disturbed \subseteq disturbed' /\ disturbed' \subseteq disturbed \cup {job[w]}
<1>1. UNCHANGED <<sent, job, killed, shared, wiped, outages, sweeps>>
  BY DEF WorkStep, Triage, Route, AnalysisFails, Review, FailQueue, FailRecord, Publish,
         DeleteRow, MarkDone, EnqueueReport, worker, ghosts
<1>2. Busy(w) /\ \E to \in {"idle", "triaged", "escalated", "answered",
                            "posted", "deleted", "completed", "erred", "marked"} :
        pc' = [pc EXCEPT ![w] = to]
  BY DEF WorkStep, Triage, Route, AnalysisFails, Review, FailQueue, FailRecord, Publish,
         DeleteRow, MarkDone, EnqueueReport, Goes, Busy
<1>3. job[w] \in 1..sent /\ job[w] \in Changes
  BY <1>2, NAssumption DEF Holding, TypeOK, Changes
<1>4. \A v \in Workers \ {w} : verdict'[v] = verdict[v]
  BY DEF WorkStep, Triage, Route, AnalysisFails, Review, FailQueue, FailRecord, Publish,
         DeleteRow, MarkDone, EnqueueReport, worker, TypeOK
<1>5. disturbed \subseteq disturbed' /\ disturbed' \subseteq disturbed \cup {job[w]}
  BY DEF WorkStep, Triage, Route, AnalysisFails, Review, FailQueue, FailRecord, Publish,
         DeleteRow, MarkDone, EnqueueReport, ghosts, Works, Fault
<1> QED
  BY <1>1, <1>2, <1>3, <1>4, <1>5 DEF TypeOK

LEMMA WorkRows ==
  ASSUME TypeOK, Holding, Bounded, NEW w \in Workers, WorkStep(w)
  PROVE  /\ \A c \in Changes \ {job[w]} :
              /\ queue'[c] = queue[c] /\ record'[c] = record[c] /\ runs'[c] = runs[c]
              /\ report'[c] = report[c]
         /\ record' \in [Changes -> Records] /\ aged' \subseteq aged
         /\ runs' \in [Changes -> 0..(MaxOutages + 1)]
         /\ queue' \in [Changes -> {"none", "pending", "analyzing", "failed"}]
         /\ report' \in [Changes -> Records]
<1>0. Busy(w) /\ job[w] \in Changes
  BY WorkFrame
<1>1. /\ queue' \in [Changes -> {"none", "pending", "analyzing", "failed"}]
      /\ \A c \in Changes \ {job[w]} : queue'[c] = queue[c]
  BY DEF WorkStep, Triage, Route, AnalysisFails, Review, FailQueue, FailRecord, Publish,
         DeleteRow, MarkDone, EnqueueReport, TypeOK
<1>2. /\ runs' \in [Changes -> 0..(MaxOutages + 1)]
      /\ \A c \in Changes \ {job[w]} : runs'[c] = runs[c]
  <2>1. CASE Triage(w)
    <3>1. runs[job[w]] <= outages /\ runs[job[w]] \in Nat /\ outages \in 0..MaxOutages
      BY <1>0, <2>1, MaxOutagesAssumption DEF Triage, Goes, Bounded, TypeOK
    <3>2. runs[job[w]] + 1 \in 0..(MaxOutages + 1)
      BY <3>1, MaxOutagesAssumption
    <3> QED
      BY <1>0, <2>1, <3>2 DEF Triage, TypeOK
  <2>2. CASE UNCHANGED runs
    BY <2>2 DEF TypeOK
  <2> QED
    BY <2>1, <2>2 DEF WorkStep, Route, AnalysisFails, Review, FailQueue, FailRecord, Publish,
                      DeleteRow, MarkDone, EnqueueReport
<1>3. /\ record' \in [Changes -> Records] /\ aged' \subseteq aged
      /\ \A c \in Changes \ {job[w]} : record'[c] = record[c]
  <2>1. CASE UNCHANGED <<record, aged>>
    BY <2>1 DEF TypeOK
  <2>2. ASSUME NEW rec \in Records, Update(job[w], rec)
        PROVE  /\ record' \in [Changes -> Records] /\ aged' \subseteq aged
               /\ \A c \in Changes \ {job[w]} : record'[c] = record[c]
    BY <1>0, <2>2, UpdateRow
  <2>3. CASE Triage(w)
    <3>1. runs[job[w]] + 1 \in 0..(MaxOutages + 1)
      <4>1. runs[job[w]] <= outages /\ runs[job[w]] \in Nat /\ outages \in 0..MaxOutages
        BY <1>0, <2>3, MaxOutagesAssumption DEF Triage, Goes, Bounded, TypeOK
      <4> QED
        BY <4>1, MaxOutagesAssumption
    <3> QED
      BY <1>0, <2>1, <2>2, <2>3, <3>1, RowsWritten DEF Triage, Works, SaveTriage
  <2>4. ASSUME NEW v \in Verdicts, Review(w, v)
        PROVE  /\ record' \in [Changes -> Records] /\ aged' \subseteq aged
               /\ \A c \in Changes \ {job[w]} : record'[c] = record[c]
    <3>1. [run |-> runs[job[w]], verdict |-> v] \in Reviews
      BY <1>0 DEF Reviews, TypeOK
    <3> QED
      BY <1>0, <2>1, <2>2, <2>4, <3>1, RowsWritten DEF Review, Works, SaveReview
  <2>5. CASE FailRecord(w) \/ MarkDone(w)
    BY <1>0, <2>1, <2>2, <2>5, RowsWritten DEF FailRecord, MarkDone, Works, SetStatus
  <2> QED
    BY <2>1, <2>3, <2>4, <2>5 DEF WorkStep, Route, AnalysisFails, FailQueue, Publish,
                                  DeleteRow, EnqueueReport
<1>4. /\ report' \in [Changes -> Records]
      /\ \A c \in Changes \ {job[w]} : report'[c] = report[c]
  <2>1. CASE EnqueueReport(w)
    BY <1>0, <2>1, RowsWritten DEF EnqueueReport, BuildReport, TypeOK
  <2>2. CASE UNCHANGED report
    BY <2>2 DEF TypeOK
  <2> QED
    BY <2>1, <2>2 DEF WorkStep, Triage, Route, AnalysisFails, Review, FailQueue, FailRecord,
                      Publish, DeleteRow, MarkDone
<1> QED
  BY <1>1, <1>2, <1>3, <1>4

\* What is not a step of a worker.
LEMMA OtherFrame ==
  ASSUME TypeOK, LatePost \/ DaysPass \/ Prune(aged) \/ Prune(Changes) \/ UNCHANGED vars
  PROVE  /\ UNCHANGED <<sent, queue, runs, worker, report, killed, shared, outages>>
         /\ disturbed \subseteq disturbed' /\ wiped \subseteq wiped'
         /\ ~LatePost => UNCHANGED <<shown, late, disturbed>>
         /\ LatePost  => disturbed' = Changes /\ UNCHANGED <<record, aged, wiped>>
<1>1. UNCHANGED <<sent, queue, runs, worker, report, killed, shared, outages>>
  BY DEF LatePost, DaysPass, Prune, vars, ghosts
<1>2. disturbed \subseteq disturbed' /\ wiped \subseteq wiped'
  BY DEF LatePost, DaysPass, Prune, vars, ghosts
<1>3. ~LatePost => UNCHANGED <<shown, late, disturbed>>
  BY DEF DaysPass, Prune, vars, ghosts
<1>4. LatePost  => disturbed' = Changes /\ UNCHANGED <<record, aged, wiped>>
  BY DEF LatePost, TypeOK
<1> QED
  BY <1>1, <1>2, <1>3, <1>4

LEMMA HeldType == TypeOK /\ Holding => Held \subseteq Changes
BY NAssumption DEF TypeOK, Holding, Held, Busy, Changes

-----------------------------------------------------------------------------
(* Types, and who holds which change *)

LEMMA TypeStep ==
  ASSUME TypeOK, Holding, Bounded, [Next]_vars
  PROVE  TypeOK'
<1>1. ASSUME NEW c \in Changes, Enqueue(c)
      PROVE  TypeOK'
  <2>1. [NoRecord EXCEPT !.status = "pending"] \in Records
    BY MaxOutagesAssumption DEF NoRecord, NoReview, Records, Reviews
  <2>2. sent' \in 0..N
    BY <1>1, NAssumption DEF Enqueue, Changes
  <2> QED
    BY <1>1, <2>1, <2>2 DEF Enqueue, TypeOK, worker, ghosts
<1>2. ASSUME NEW w \in Workers, NEW c \in Changes, Take(w, c)
      PROVE  TypeOK'
  <2>1. record' \in [Changes -> Records] /\ aged' \subseteq aged
    BY <1>2, UpdateRow, RowsWritten DEF Take, SetStatus
  <2>2. shared' \subseteq Changes
    <3>1. \A v \in Workers : pc[v] # "idle" => job[v] \in Changes
      BY HeldType DEF Held
    <3> QED
      BY <1>2, <3>1 DEF Take, TypeOK
  <2>3. job' \in [Workers -> 0..N]
    BY <1>2, NAssumption DEF Take, TypeOK, Changes
  <2> QED
    BY <1>2, <2>1, <2>2, <2>3 DEF Take, Goes, TypeOK
<1>3. ASSUME NEW w \in Workers, WorkStep(w)
      PROVE  TypeOK'
  <2>1. verdict' \in [Workers -> Verdicts \cup {"none"}]
    BY <1>3 DEF WorkStep, Triage, Route, AnalysisFails, Review, FailQueue, FailRecord, Publish,
                DeleteRow, MarkDone, EnqueueReport, worker, TypeOK
  <2>2. shown' \in Posts /\ late' \subseteq Posts
    <3>1. CASE Publish(w)
      <4>1. [change |-> job[w], state |-> VerdictState(verdict[w])] \in Posts
        BY DEF Posts, TypeOK, VerdictState
      <4> QED
        BY <3>1, <4>1 DEF Publish, TypeOK
    <3>2. CASE UNCHANGED <<shown, late>>
      BY <3>2 DEF TypeOK
    <3> QED
      BY <1>3, <3>1, <3>2
         DEF WorkStep, Triage, Route, AnalysisFails, Review, FailQueue, FailRecord,
             DeleteRow, MarkDone, EnqueueReport
  <2>3. faults' \in Nat
    <3>1. UNCHANGED faults \/ faults' = faults + 1
      BY <1>3 DEF WorkStep, Triage, Route, AnalysisFails, Review, FailQueue, FailRecord,
                  Publish, DeleteRow, MarkDone, EnqueueReport, ghosts, Works, Fault
    <3> QED
      BY <3>1 DEF TypeOK
  <2> QED
    BY <1>3, <2>1, <2>2, <2>3, WorkFrame, WorkRows DEF TypeOK
<1>4. CASE Outage
  <2>1. outages' \in 0..MaxOutages
    BY <1>4, MaxOutagesAssumption DEF Outage, TypeOK
  <2>2. killed' \subseteq Changes
    BY <1>4, HeldType DEF Outage, TypeOK
  <2>3. pc' = [w \in Workers |-> "idle"] /\ queue' \in [Changes -> {"none", "pending", "analyzing", "failed"}]
    BY <1>4 DEF Outage, TypeOK
  <2>4. UNCHANGED <<sent, record, aged, runs, job, verdict, shown, late, report,
                    disturbed, shared, wiped, faults, sweeps>>
    BY <1>4 DEF Outage
  <2> QED
    BY <2>1, <2>2, <2>3, <2>4 DEF TypeOK
<1>5. CASE LatePost
  BY <1>5 DEF LatePost, TypeOK, worker
<1>6. CASE DaysPass
  BY <1>6 DEF DaysPass, TypeOK, worker, ghosts
<1>7. ASSUME NEW old \in SUBSET Changes, Prune(old)
      PROVE  TypeOK'
  <2>1. NoRecord \in Records
    BY MaxOutagesAssumption DEF NoRecord, NoReview, Records, Reviews
  <2> QED
    BY <1>7, <2>1 DEF Prune, TypeOK, worker
<1>8. CASE UNCHANGED vars
  BY <1>8 DEF vars, worker, ghosts, TypeOK
<1>9. aged \in SUBSET Changes
  BY DEF TypeOK
<1> QED
  BY <1>1, <1>2, <1>3, <1>4, <1>5, <1>6, <1>7, <1>8, <1>9, StepKinds

LEMMA HoldingStep ==
  ASSUME TypeOK, Holding, Unsent, [Next]_vars
  PROVE  Holding'
<1>a. /\ \A w \in Workers : Busy(w) => job[w] \in 1..sent /\ job[w] \in Changes /\ job[w] \in Held
      /\ \A w \in Workers : Busy(w) => queue[job[w]] # "pending"
  <2>1. \A w \in Workers : pc[w] \in Analyzing \cup {"marked", "deleted", "completed", "idle"}
    BY DEF TypeOK, Analyzing
  <2>2. \A w \in Workers : Busy(w) => job[w] \in 1..sent /\ job[w] \in Held
    BY DEF Holding, Busy, Held
  <2>3. \A w \in Workers : Busy(w) => queue[job[w]] \in {"analyzing", "failed", "none"}
    BY <2>1 DEF Holding, Busy
  <2> QED
    BY <2>2, <2>3, HeldType
<1>1. ASSUME NEW c \in Changes, Enqueue(c)
      PROVE  Holding'
  <2>1. /\ c = sent + 1 /\ sent' = c /\ UNCHANGED <<pc, job, disturbed>>
        /\ queue' = [queue EXCEPT ![c] = "pending"] /\ sent \in Nat
    BY <1>1 DEF Enqueue, worker, ghosts, TypeOK
  <2>2. \A w \in Workers : Busy(w) => job[w] # c /\ job[w] \in 1..sent'
    BY <1>a, <2>1
  <2>3. \A d \in Changes \ {c} : queue'[d] = queue[d]
    BY <2>1 DEF TypeOK
  <2>4. queue'[c] = "pending"
    BY <2>1 DEF TypeOK
  <2>5. \A w \in Workers : pc[w] # "idle" => queue'[job[w]] = queue[job[w]]
    BY <1>a, <2>2, <2>3 DEF Busy
  <2> QED
    BY <2>1, <2>2, <2>3, <2>4, <2>5 DEF Holding, Busy, Held, Analyzing
<1>2. ASSUME NEW w \in Workers, NEW c \in Changes, Take(w, c)
      PROVE  Holding'
  <2>1. /\ pc[w] = "idle" /\ queue[c] = "pending" /\ UNCHANGED <<sent, disturbed>>
        /\ pc'[w] = "claimed" /\ job'[w] = c /\ queue'[c] = "analyzing"
        /\ \A v \in Workers \ {w} : pc'[v] = pc[v] /\ job'[v] = job[v]
        /\ \A d \in Changes \ {c} : queue'[d] = queue[d]
    BY <1>2 DEF Take, Goes, TypeOK
  <2>2. c \in 1..sent
    BY <2>1 DEF Unsent, Changes, TypeOK
  <2>3. \A v \in Workers \ {w} : Busy(v) => job[v] # c
    BY <1>a, <2>1
  <2>4. ASSUME NEW v \in Workers, v # w
        PROVE  /\ Busy(v)' => Busy(v) /\ job'[v] \in 1..sent'
               /\ pc'[v] \in Analyzing => queue'[job'[v]] = "analyzing"
               /\ pc'[v] = "marked"    => queue'[job'[v]] = "failed"
               /\ pc'[v] = "deleted"   => queue'[job'[v]] = "none"
               /\ pc'[v] = "completed" => queue'[job'[v]] = "none" \/ job'[v] \in disturbed'
               /\ pc'[v] = "completed" => queue'[job'[v]] \in {"none", "analyzing"}
    <3>1. CASE Busy(v)
      <4>1. queue'[job'[v]] = queue[job[v]] /\ pc'[v] = pc[v] /\ job'[v] = job[v]
        BY <1>a, <2>1, <2>3, <2>4, <3>1
      <4> QED
        BY <1>a, <2>1, <3>1, <4>1 DEF Holding
    <3>2. CASE ~Busy(v)
      BY <2>1, <2>4, <3>2 DEF Busy, Analyzing
    <3> QED
      BY <3>1, <3>2
  <2>5. Held' = Held \cup {c}
    BY <2>1 DEF Held
  <2>6. \A u, v \in Workers : Busy(u)' /\ Busy(v)' /\ job'[u] = job'[v] => u = v
    BY <2>1, <2>3, <2>4 DEF Holding
  <2>7. \A d \in Changes : queue'[d] = "analyzing" => d \in disturbed' \cup Held'
    BY <2>1, <2>5 DEF Holding
  <2> QED
    BY <2>1, <2>2, <2>4, <2>6, <2>7 DEF Holding, Busy, Analyzing
<1>3. ASSUME NEW w \in Workers, WorkStep(w)
      PROVE  Holding'
  <2>1. /\ UNCHANGED <<sent, job>> /\ Busy(w) /\ job[w] \in 1..sent /\ job[w] \in Changes
        /\ \A v \in Workers \ {w} : pc'[v] = pc[v]
        /\ disturbed \subseteq disturbed'
    BY <1>3, WorkFrame
  <2>2. \A c \in Changes \ {job[w]} : queue'[c] = queue[c]
    BY <1>3 DEF WorkStep, Triage, Route, AnalysisFails, Review, FailQueue, FailRecord, Publish,
                DeleteRow, MarkDone, EnqueueReport, TypeOK
  <2>3. /\ pc'[w] \in Analyzing => queue'[job[w]] = "analyzing"
        /\ pc'[w] = "marked"    => queue'[job[w]] = "failed"
        /\ pc'[w] = "deleted"   => queue'[job[w]] = "none"
        /\ pc'[w] = "completed" => queue'[job[w]] = "none" \/ job[w] \in disturbed'
        /\ pc'[w] = "completed" => queue'[job[w]] \in {"none", "analyzing"}
        /\ pc'[w] = "idle" => job[w] \in disturbed' \/ queue'[job[w]] # "analyzing"
    <3>0. /\ pc[w] \in Analyzing => queue[job[w]] = "analyzing"
          /\ pc[w] = "marked"    => queue[job[w]] = "failed"
          /\ pc[w] = "deleted"   => queue[job[w]] = "none"
          /\ pc[w] = "completed" => queue[job[w]] = "none" \/ job[w] \in disturbed
          /\ pc[w] = "completed" => queue[job[w]] \in {"none", "analyzing"}
      BY DEF Holding
    <3>1. CASE Triage(w) \/ Route(w) \/ AnalysisFails(w) \/ Publish(w) \/ \E v \in Verdicts : Review(w, v)
      <4>1. pc[w] \in Analyzing /\ pc'[w] \in Analyzing /\ UNCHANGED queue
        BY <3>1 DEF Triage, Route, AnalysisFails, Publish, Review, Goes, TypeOK, Analyzing
      <4> QED
        BY <3>0, <4>1 DEF Analyzing
    <3>2. CASE FailQueue(w)
      BY <2>1, <3>0, <3>2 DEF FailQueue, Goes, Fault, TypeOK, Analyzing
    <3>3. CASE FailRecord(w)
      BY <2>1, <3>0, <3>3 DEF FailRecord, Goes, TypeOK, Analyzing
    <3>4. CASE DeleteRow(w)
      BY <2>1, <3>0, <3>4 DEF DeleteRow, Goes, Fault, TypeOK, Analyzing
    <3>5. CASE MarkDone(w)
      BY <2>1, <3>0, <3>5 DEF MarkDone, Goes, TypeOK, Analyzing
    <3>6. CASE EnqueueReport(w)
      BY <2>1, <3>0, <3>6 DEF EnqueueReport, Goes, TypeOK, Analyzing
    <3> QED
      BY <1>3, <3>1, <3>2, <3>3, <3>4, <3>5, <3>6 DEF WorkStep
  <2>4. \A v \in Workers : Busy(v)' => Busy(v)
    BY <2>1 DEF Busy
  <2>5. ASSUME NEW v \in Workers, v # w
        PROVE  /\ pc'[v] \in Analyzing => queue'[job'[v]] = "analyzing"
               /\ pc'[v] = "marked"    => queue'[job'[v]] = "failed"
               /\ pc'[v] = "deleted"   => queue'[job'[v]] = "none"
               /\ pc'[v] = "completed" => queue'[job'[v]] = "none" \/ job'[v] \in disturbed'
               /\ pc'[v] = "completed" => queue'[job'[v]] \in {"none", "analyzing"}
    <3>1. CASE Busy(v)
      <4>1. job[v] # job[w]
        BY <2>1, <2>5, <3>1 DEF Holding
      <4>2. queue'[job'[v]] = queue[job[v]]
        BY <1>a, <2>1, <2>2, <3>1, <4>1
      <4> QED
        BY <2>1, <2>5, <4>2 DEF Holding
    <3>2. CASE ~Busy(v)
      BY <2>1, <2>5, <3>2 DEF Busy, Analyzing
    <3> QED
      BY <3>1, <3>2
  <2>6. ASSUME NEW c \in Changes, queue'[c] = "analyzing"
        PROVE  c \in disturbed' \cup Held'
    <3>1. CASE c = job[w]
      BY <2>1, <2>3, <2>6, <3>1 DEF Held
    <3>2. CASE c # job[w]
      <4>1. c \in disturbed \cup Held
        BY <2>2, <2>6, <3>2 DEF Holding
      <4> QED
        BY <2>1, <3>2, <4>1 DEF Held
    <3> QED
      BY <3>1, <3>2
  <2> QED
    BY <2>1, <2>3, <2>4, <2>5, <2>6 DEF Holding
<1>4. CASE Outage
  BY <1>4 DEF Outage, Holding, Busy, TypeOK, Analyzing
<1>5. CASE LatePost \/ DaysPass \/ Prune(aged) \/ Prune(Changes) \/ UNCHANGED vars
  <2>1. UNCHANGED <<sent, queue, pc, job>> /\ disturbed \subseteq disturbed'
    BY <1>5, OtherFrame DEF worker
  <2> QED
    BY <2>1 DEF Holding, Busy, Held
<1> QED
  BY <1>1, <1>2, <1>3, <1>4, <1>5, StepKinds

LEMMA UnsentStep ==
  ASSUME TypeOK, Holding, Unsent, Bounded, [Next]_vars
  PROVE  Unsent'
<1> SUFFICES ASSUME NEW c \in Changes, c > sent'
             PROVE  /\ queue'[c] = "none" /\ record'[c] = NoRecord /\ runs'[c] = 0
                    /\ report'[c] = NoRecord
  BY DEF Unsent
<1>a. sent <= sent' /\ sent \in Int /\ sent' \in Int /\ c \in Int
  <2>1. UNCHANGED sent \/ sent' = sent + 1
    BY StepKinds, WorkFrame, OtherFrame DEF Enqueue, Take, Outage
  <2> QED
    BY <2>1 DEF TypeOK, Changes
<1>b. queue[c] = "none" /\ record[c] = NoRecord /\ runs[c] = 0 /\ report[c] = NoRecord
  BY <1>a DEF Unsent
<1>1. ASSUME NEW b \in Changes, Enqueue(b)
      PROVE  /\ queue'[c] = "none" /\ record'[c] = NoRecord /\ runs'[c] = 0
             /\ report'[c] = NoRecord
  <2>1. b # c
    BY <1>1, <1>a DEF Enqueue
  <2> QED
    BY <1>1, <1>b, <2>1 DEF Enqueue, TypeOK
<1>2. ASSUME NEW w \in Workers, NEW b \in Changes, Take(w, b)
      PROVE  /\ queue'[c] = "none" /\ record'[c] = NoRecord /\ runs'[c] = 0
             /\ report'[c] = NoRecord
  <2>1. b # c
    BY <1>2, <1>b DEF Take
  <2>2. record'[c] = record[c]
    BY <1>2, <2>1, UpdateRow, RowsWritten DEF Take, SetStatus
  <2> QED
    BY <1>2, <1>b, <2>1, <2>2 DEF Take, TypeOK
<1>3. ASSUME NEW w \in Workers, WorkStep(w)
      PROVE  /\ queue'[c] = "none" /\ record'[c] = NoRecord /\ runs'[c] = 0
             /\ report'[c] = NoRecord
  <2>1. job[w] # c
    BY <1>3, <1>a, WorkFrame
  <2> QED
    BY <1>3, <1>b, <2>1, WorkRows
<1>4. CASE Outage
  BY <1>4, <1>b DEF Outage
<1>5. CASE LatePost \/ DaysPass \/ Prune(aged) \/ Prune(Changes) \/ UNCHANGED vars
  <2>1. UNCHANGED <<queue, runs, report>>
    BY <1>5, OtherFrame
  <2>2. record'[c] = NoRecord
    BY <1>5, <1>b DEF LatePost, DaysPass, Prune, vars
  <2> QED
    BY <1>b, <2>1, <2>2
<1> QED
  BY <1>1, <1>2, <1>3, <1>4, <1>5, StepKinds

\* What w's step makes of the record of its change.
LEMMA RecordWritten ==
  ASSUME TypeOK, Holding, Recorded, Bounded, NEW w \in Workers, WorkStep(w),
         pc[w] \in Analyzing \cup {"marked", "deleted"}
  PROVE  /\ job[w] \notin aged'
         /\ \/ Triage(w) /\ record'[job[w]] = [record[job[w]] EXCEPT !.triage = runs[job[w]] + 1]
            \/ \E v \in Verdicts : Review(w, v) /\
                 record'[job[w]] = [record[job[w]] EXCEPT !.review = [run |-> runs[job[w]], verdict |-> v]]
            \/ FailRecord(w) /\ record'[job[w]] = [record[job[w]] EXCEPT !.status = "failed"]
            \/ MarkDone(w) /\ record'[job[w]] = [record[job[w]] EXCEPT !.status = "done"]
            \/ record'[job[w]] = record[job[w]] /\
                 \/ job[w] \in disturbed'
                 \/ Route(w) \/ AnalysisFails(w) \/ FailQueue(w) \/ Publish(w) \/ DeleteRow(w)
<1>1. /\ record[job[w]].status = "analyzing" /\ job[w] \in Changes /\ job[w] \notin aged
      /\ aged' \subseteq aged
  BY WorkFrame, WorkRows DEF Recorded
<1>2. ASSUME NEW rec \in Records, Update(job[w], rec)
      PROVE  record'[job[w]] = rec
  BY <1>1, <1>2, UpdateRow
<1>3. CASE Triage(w)
  <2>1. runs[job[w]] <= outages /\ runs[job[w]] \in Nat /\ outages \in 0..MaxOutages
    BY <1>1, <1>3, MaxOutagesAssumption DEF Triage, Goes, Bounded, TypeOK
  <2>2. runs[job[w]] + 1 \in 0..(MaxOutages + 1)
    BY <2>1, MaxOutagesAssumption
  <2> QED
    BY <1>1, <1>2, <1>3, <2>2, RowsWritten DEF Triage, Works, Fault, SaveTriage
<1>4. ASSUME NEW v \in Verdicts, Review(w, v)
      PROVE  \/ record'[job[w]] = [record[job[w]] EXCEPT !.review = [run |-> runs[job[w]], verdict |-> v]]
             \/ record'[job[w]] = record[job[w]] /\ job[w] \in disturbed'
  <2>1. [run |-> runs[job[w]], verdict |-> v] \in Reviews
    BY <1>1 DEF Reviews, TypeOK
  <2> QED
    BY <1>1, <1>2, <1>4, <2>1, RowsWritten DEF Review, Works, Fault, SaveReview
<1>5. CASE FailRecord(w) \/ MarkDone(w)
  BY <1>1, <1>2, <1>5, RowsWritten DEF FailRecord, MarkDone, Works, Fault, SetStatus
<1>6. CASE Route(w) \/ AnalysisFails(w) \/ FailQueue(w) \/ Publish(w) \/ DeleteRow(w)
  BY <1>1, <1>6 DEF Route, AnalysisFails, FailQueue, Publish, DeleteRow
<1>7. ~EnqueueReport(w)
  BY DEF EnqueueReport, Goes, Analyzing
<1> QED
  BY <1>1, <1>3, <1>4, <1>5, <1>6, <1>7 DEF WorkStep

LEMMA RecordedStep ==
  ASSUME TypeOK, Holding, Unsent, Recorded, Bounded, [Next]_vars
  PROVE  Recorded'
<1>a. \A w \in Workers : pc[w] \in Analyzing \cup {"marked", "deleted", "completed", "idle"}
  BY DEF TypeOK, Analyzing
<1>b. \A w \in Workers : Busy(w) => job[w] \in Changes /\ queue[job[w]] # "pending"
  <2>1. \A w \in Workers : Busy(w) => job[w] \in Changes
    BY HeldType DEF Held, Busy
  <2> QED
    BY <1>a, <2>1 DEF Holding, Busy
<1>1. ASSUME NEW c \in Changes, Enqueue(c)
      PROVE  Recorded'
  <2>1. /\ UNCHANGED <<pc, job, aged, disturbed, wiped>>
        /\ \A d \in Changes \ {c} : queue'[d] = queue[d] /\ record'[d] = record[d]
        /\ record'[c].status = "pending" /\ c = sent + 1
    BY <1>1 DEF Enqueue, worker, ghosts, TypeOK, NoRecord
  <2>2. \A w \in Workers : Busy(w) => record'[job[w]] = record[job[w]]
    BY <1>b, <2>1 DEF Holding, TypeOK
  <2> QED
    BY <2>1, <2>2 DEF Recorded, Busy, Analyzing
<1>2. ASSUME NEW w \in Workers, NEW c \in Changes, Take(w, c)
      PROVE  Recorded'
  <2>1. /\ pc[w] = "idle" /\ queue[c] = "pending" /\ UNCHANGED <<disturbed, wiped>>
        /\ pc'[w] = "claimed" /\ job'[w] = c
        /\ \A v \in Workers \ {w} : pc'[v] = pc[v] /\ job'[v] = job[v]
        /\ \A d \in Changes \ {c} : queue'[d] = queue[d]
    BY <1>2 DEF Take, Goes, TypeOK
  <2>2. /\ record'[c].status = "analyzing" /\ c \notin aged' /\ aged' \subseteq aged
        /\ \A d \in Changes \ {c} : record'[d] = record[d]
    <3>1. record[c].status \in {"pending", "analyzing"}
      BY <2>1 DEF Recorded
    <3>2. record'[c] = [record[c] EXCEPT !.status = "analyzing"] /\ record[c] \in Records
      BY <1>2, <3>1, UpdateRow, RowsWritten DEF Take, SetStatus
    <3> QED
      BY <1>2, <3>1, <3>2, UpdateRow, RowsWritten DEF Take, SetStatus, Records
  <2>3. \A v \in Workers \ {w} : Busy(v) => record'[job[v]] = record[job[v]]
    BY <1>b, <2>1, <2>2
  <2> QED
    BY <2>1, <2>2, <2>3 DEF Recorded, Busy, Analyzing
<1>3. ASSUME NEW w \in Workers, WorkStep(w)
      PROVE  Recorded'
  <2>1. /\ UNCHANGED <<job, wiped>> /\ Busy(w) /\ job[w] \in Changes
        /\ \A v \in Workers \ {w} : pc'[v] = pc[v]
        /\ disturbed \subseteq disturbed'
    BY <1>3, WorkFrame
  <2>2. /\ \A c \in Changes \ {job[w]} : queue'[c] = queue[c] /\ record'[c] = record[c]
        /\ aged' \subseteq aged
    BY <1>3, WorkRows
  <2>3. ASSUME NEW v \in Workers, v # w
        PROVE  /\ pc'[v] \in Analyzing \cup {"marked", "deleted"} =>
                    record'[job'[v]].status = "analyzing"
               /\ pc'[v] = "completed" =>
                    job'[v] \in disturbed'
                    \/ record'[job'[v]].status = "done"
                    \/ (record'[job'[v]].status = "none" /\ job'[v] \in wiped')
               /\ Busy(v)' => job'[v] \notin aged'
    <3>1. CASE Busy(v)
      <4>1. job[v] # job[w]
        BY <2>1, <2>3, <3>1 DEF Holding
      <4>2. record'[job[v]] = record[job[v]] /\ pc'[v] = pc[v] /\ job'[v] = job[v]
        BY <1>b, <2>1, <2>2, <2>3, <3>1, <4>1
      <4> QED
        BY <2>1, <2>2, <3>1, <4>2 DEF Recorded
    <3>2. CASE ~Busy(v)
      BY <2>1, <2>3, <3>2 DEF Busy, Analyzing
    <3> QED
      BY <3>1, <3>2
  <2>4. record[job[w]] \in Records
    BY <2>1 DEF TypeOK
  <2>5. job[w] \notin aged'
    BY <2>1, <2>2 DEF Recorded
  <2>6. CASE pc[w] = "completed"
    <3>1. pc'[w] = "idle" /\ UNCHANGED <<queue, record>>
      BY <1>3, <2>6 DEF WorkStep, Triage, Route, AnalysisFails, Review, FailQueue, FailRecord,
                        Publish, DeleteRow, MarkDone, EnqueueReport, Goes, TypeOK
    <3> QED
      BY <2>3, <3>1 DEF Recorded, Busy, Analyzing
  <2>7. CASE pc[w] # "completed"
    <3>1. pc[w] \in Analyzing \cup {"marked", "deleted"} /\ record[job[w]].status = "analyzing"
      BY <1>a, <2>1, <2>7 DEF Busy, Recorded
    <3>2. CASE MarkDone(w)
      <4>1. pc'[w] = "completed" /\ queue'[job[w]] = "none"
        BY <2>1, <3>2 DEF MarkDone, Goes, Holding, TypeOK
      <4>2. job[w] \in disturbed' \/ record'[job[w]].status = "done"
        <5>1. CASE UNCHANGED <<faults, disturbed>> /\ SetStatus(job[w], "done")
          BY <2>1, <2>4, <3>1, <5>1, UpdateRow, RowsWritten DEF SetStatus, Records
        <5> QED
          BY <3>2, <5>1 DEF MarkDone, Works, Fault
      <4> QED
        BY <2>1, <2>2, <2>3, <2>5, <4>1, <4>2 DEF Recorded, Busy, Analyzing
    <3>3. CASE FailRecord(w)
      <4>1. pc'[w] = "idle" /\ queue'[job[w]] = "failed"
        BY <2>1, <3>3 DEF FailRecord, Goes, Holding, TypeOK
      <4> QED
        BY <2>1, <2>2, <2>3, <4>1 DEF Recorded, Busy, Analyzing
    <3>4. CASE ~MarkDone(w) /\ ~FailRecord(w)
      <4>1. record'[job[w]].status = "analyzing"
        BY <1>3, <2>4, <3>1, <3>4, RecordWritten DEF Records
      <4>2. pc'[w] = "completed" => job[w] \in disturbed'
        BY <1>3, <2>7, <3>4 DEF WorkStep, Triage, Route, AnalysisFails, Review, FailQueue,
             Publish, DeleteRow, EnqueueReport, Goes, Fault, TypeOK
      <4> QED
        BY <2>1, <2>2, <2>3, <2>5, <4>1, <4>2 DEF Recorded, Busy
    <3> QED
      BY <3>2, <3>3, <3>4
  <2> QED
    BY <2>6, <2>7
<1>4. CASE Outage
  BY <1>4 DEF Outage, Recorded, Busy, TypeOK, Analyzing
<1>5. CASE LatePost \/ UNCHANGED vars
  <2>1. UNCHANGED <<queue, pc, job, record, aged, wiped>> /\ disturbed \subseteq disturbed'
    BY <1>5 DEF LatePost, vars, worker, ghosts
  <2> QED
    BY <2>1 DEF Recorded, Busy
<1>6. CASE DaysPass
  <2>1. UNCHANGED <<queue, pc, job, record, wiped, disturbed>> /\ \A w \in Workers : pc[w] = "idle"
    BY <1>6 DEF DaysPass, worker, ghosts
  <2> QED
    BY <2>1 DEF Recorded, Busy, Analyzing
<1>7. ASSUME NEW old, old = aged \/ old = Changes, Prune(old)
      PROVE  Recorded'
  <2>1. /\ UNCHANGED <<queue, pc, job, disturbed>> /\ aged' \subseteq aged
        /\ \A c \in Changes : ~Prunable(c) => record'[c] = record[c]
        /\ wiped \subseteq wiped'
    BY <1>7 DEF Prune, worker
  <2>2. \A c \in Changes : c \notin aged =>
          record'[c] = record[c] \/ (record'[c] = NoRecord /\ c \in wiped')
    BY <1>7 DEF Prune
  <2>3. \A w \in Workers : Busy(w) => job[w] \in Changes /\ job[w] \notin aged
    BY <1>b DEF Recorded
  <2>4. \A w \in Workers : pc[w] \in Analyzing \cup {"marked", "deleted"} =>
          record'[job[w]] = record[job[w]]
    BY <2>1, <2>3 DEF Recorded, Prunable, Busy, Analyzing
  <2>5. \A c \in Changes : queue[c] \in {"pending", "analyzing"} => record'[c] = record[c]
    BY <2>1 DEF Recorded, Prunable
  <2>6. \A w \in Workers : pc[w] = "completed" =>
             job[w] \in disturbed
             \/ record'[job[w]].status = "done"
             \/ (record'[job[w]].status = "none" /\ job[w] \in wiped')
    BY <2>1, <2>2, <2>3 DEF Recorded, Busy, NoRecord
  <2> QED
    BY <2>1, <2>3, <2>4, <2>5, <2>6 DEF Recorded, Busy
<1> QED
  BY <1>1, <1>2, <1>3, <1>4, <1>5, <1>6, <1>7, StepKinds

LEMMA BoundedStep ==
  ASSUME TypeOK, Holding, Unsent, Bounded, [Next]_vars
  PROVE  Bounded'
<1>a. outages \in Nat /\ \A c \in Changes : runs[c] \in Nat
  BY MaxOutagesAssumption DEF TypeOK
<1>b. \A w \in Workers : Busy(w) => job[w] \in Changes
  BY HeldType DEF Held, Busy
<1>1. ASSUME NEW c \in Changes, Enqueue(c)
      PROVE  Bounded'
  <2>1. /\ UNCHANGED <<pc, job, runs, outages>> /\ runs[c] = 0
        /\ \A d \in Changes \ {c} : queue'[d] = queue[d]
    BY <1>1 DEF Enqueue, worker, ghosts, TypeOK, Unsent
  <2> QED
    BY <1>a, <2>1 DEF Bounded
<1>2. ASSUME NEW w \in Workers, NEW c \in Changes, Take(w, c)
      PROVE  Bounded'
  BY <1>2, <1>a DEF Take, Goes, TypeOK, Bounded
<1>3. ASSUME NEW w \in Workers, WorkStep(w)
      PROVE  Bounded'
  <2>1. /\ UNCHANGED <<job, outages>> /\ Busy(w) /\ job[w] \in Changes
        /\ \A v \in Workers \ {w} : pc'[v] = pc[v]
        /\ \A c \in Changes \ {job[w]} : queue'[c] = queue[c] /\ runs'[c] = runs[c]
    BY <1>3, WorkFrame, WorkRows
  <2>2. pc'[w] # "claimed"
    BY <1>3 DEF WorkStep, Triage, Route, AnalysisFails, Review, FailQueue, FailRecord,
         Publish, DeleteRow, MarkDone, EnqueueReport, Goes, TypeOK
  <2>3. queue'[job[w]] # "pending"
    <3>1. queue[job[w]] # "pending"
      <4>1. pc[w] \in Analyzing \cup {"marked", "deleted", "completed"}
        BY <2>1 DEF TypeOK, Analyzing, Busy
      <4> QED
        BY <4>1 DEF Holding
    <3> QED
      BY <1>3, <2>1, <3>1
         DEF WorkStep, Triage, Route, AnalysisFails, Review, FailQueue, FailRecord,
             Publish, DeleteRow, MarkDone, EnqueueReport, Goes, TypeOK
  <2>4. runs'[job[w]] <= outages + 1
    <3>1. CASE Triage(w)
      <4>1. runs[job[w]] <= outages /\ runs'[job[w]] = runs[job[w]] + 1
        BY <2>1, <3>1 DEF Triage, Goes, Bounded, TypeOK
      <4> QED
        BY <1>a, <2>1, <4>1
    <3>2. CASE UNCHANGED runs
      BY <2>1, <3>2 DEF Bounded
    <3> QED
      BY <1>3, <3>1, <3>2
         DEF WorkStep, Route, AnalysisFails, Review, FailQueue, FailRecord, Publish,
             DeleteRow, MarkDone, EnqueueReport
  <2>5. ASSUME NEW v \in Workers, pc'[v] = "claimed"
        PROVE  runs'[job'[v]] <= outages'
    <3>1. v # w /\ Busy(v) /\ pc[v] = "claimed"
      BY <2>1, <2>2, <2>5 DEF Busy
    <3>2. job[v] # job[w] /\ job[v] \in Changes
      BY <1>b, <2>1, <3>1 DEF Holding
    <3> QED
      BY <2>1, <3>1, <3>2 DEF Bounded
  <2> QED
    BY <2>1, <2>3, <2>4, <2>5 DEF Bounded
<1>4. CASE Outage
  <2>1. UNCHANGED runs /\ outages' = outages + 1 /\ pc' = [w \in Workers |-> "idle"]
    BY <1>4 DEF Outage
  <2> QED
    BY <1>a, <2>1 DEF Bounded
<1>5. CASE LatePost \/ DaysPass \/ Prune(aged) \/ Prune(Changes) \/ UNCHANGED vars
  BY <1>5, OtherFrame DEF worker, Bounded
<1> QED
  BY <1>1, <1>2, <1>3, <1>4, <1>5, StepKinds

-----------------------------------------------------------------------------
(* Record, report and status *)

\* Ghosts only grow.
LEMMA GhostsGrow ==
  ASSUME TypeOK, Holding, [Next]_vars
  PROVE  /\ disturbed \subseteq disturbed' /\ killed \subseteq killed'
         /\ shared \subseteq shared' /\ wiped \subseteq wiped'
<1>1. ASSUME NEW w \in Workers, WorkStep(w)
      PROVE  /\ disturbed \subseteq disturbed' /\ killed \subseteq killed'
             /\ shared \subseteq shared' /\ wiped \subseteq wiped'
  BY <1>1, WorkFrame
<1>2. ASSUME LatePost \/ DaysPass \/ Prune(aged) \/ Prune(Changes) \/ UNCHANGED vars
      PROVE  /\ disturbed \subseteq disturbed' /\ killed \subseteq killed'
             /\ shared \subseteq shared' /\ wiped \subseteq wiped'
  BY <1>2, OtherFrame
<1> QED
  BY <1>1, <1>2, StepKinds DEF Enqueue, Take, Outage, ghosts

\* A step that is no worker's leaves the changes at work alone.
LEMMA OthersKeep ==
  ASSUME TypeOK, Holding, Recorded,
         LatePost \/ DaysPass \/ Prune(aged) \/ Prune(Changes) \/ UNCHANGED vars,
         NEW c \in Changes
  PROVE  record'[c] = record[c]
         \/ (record'[c] = NoRecord /\ record[c].status \in {"done", "failed"})
BY DEF LatePost, DaysPass, Prune, Prunable, vars

LEMMA HeldChange ==
  ASSUME TypeOK, Holding
  PROVE  \A w \in Workers : Busy(w) =>
           job[w] \in Changes /\ job[w] \in Held /\ queue[job[w]] # "pending"
<1>1. \A w \in Workers : pc[w] \in Analyzing \cup {"marked", "deleted", "completed", "idle"}
  BY DEF TypeOK, Analyzing
<1>2. \A w \in Workers : Busy(w) => job[w] \in Held
  BY DEF Held, Busy
<1>3. \A w \in Workers : Busy(w) => queue[job[w]] # "pending"
  BY <1>1 DEF Holding, Busy
<1> QED
  BY <1>2, <1>3, HeldType

\* A claim: w alone changes, and the status of the record.
LEMMA TakeFrame ==
  ASSUME TypeOK, Holding, Recorded, NEW w \in Workers, NEW c \in Changes, Take(w, c)
  PROVE  /\ pc[w] = "idle" /\ pc'[w] = "claimed" /\ job'[w] = c /\ verdict'[w] = "none"
         /\ \A v \in Workers \ {w} :
              pc'[v] = pc[v] /\ job'[v] = job[v] /\ verdict'[v] = verdict[v]
         /\ queue[c] = "pending" /\ queue'[c] = "analyzing"
         /\ \A d \in Changes \ {c} : queue'[d] = queue[d] /\ record'[d] = record[d]
         /\ record'[c].triage = record[c].triage /\ record'[c].review = record[c].review
         /\ UNCHANGED <<sent, runs, shown, report, disturbed, killed, wiped>>
         /\ \A v \in Workers : Busy(v) => job[v] # c
<1>1. record[c].status \in {"pending", "analyzing"} /\ record[c] \in Records
  BY DEF Take, Recorded, TypeOK
<1>2. /\ record'[c] = [record[c] EXCEPT !.status = "analyzing"]
      /\ \A d \in Changes \ {c} : record'[d] = record[d]
  BY <1>1, UpdateRow, RowsWritten DEF Take, SetStatus
<1>3. \A v \in Workers : Busy(v) => job[v] # c
  BY HeldChange DEF Take
<1>4. /\ pc[w] = "idle" /\ pc'[w] = "claimed" /\ job'[w] = c /\ verdict'[w] = "none"
      /\ \A v \in Workers \ {w} :
           pc'[v] = pc[v] /\ job'[v] = job[v] /\ verdict'[v] = verdict[v]
  BY DEF Take, Goes, TypeOK
<1>5. /\ queue[c] = "pending" /\ queue'[c] = "analyzing"
      /\ \A d \in Changes \ {c} : queue'[d] = queue[d]
  BY DEF Take, TypeOK
<1>6. UNCHANGED <<sent, runs, shown, report, disturbed, killed, wiped>>
  BY DEF Take
<1>7. record'[c].triage = record[c].triage /\ record'[c].review = record[c].review
  BY <1>1, <1>2 DEF Records
<1> QED
  BY <1>2, <1>3, <1>4, <1>5, <1>6, <1>7

\* The step of a worker at work, seen from another one.
LEMMA WorkElsewhere ==
  ASSUME TypeOK, Holding, Bounded, NEW v \in Workers, WorkStep(v),
         NEW w \in Workers \ {v}, Busy(w)
  PROVE  /\ pc'[w] = pc[w] /\ job'[w] = job[w] /\ verdict'[w] = verdict[w] /\ job[w] # job[v]
         /\ record'[job[w]] = record[job[w]] /\ runs'[job[w]] = runs[job[w]]
         /\ report'[job[w]] = report[job[w]] /\ queue'[job[w]] = queue[job[w]]
<1>1. /\ UNCHANGED job /\ Busy(v) /\ job[v] \in Changes
      /\ pc'[w] = pc[w] /\ verdict'[w] = verdict[w]
  BY WorkFrame
<1>2. job[w] # job[v] /\ job[w] \in Changes
  BY <1>1, HeldChange DEF Holding
<1> QED
  BY <1>1, <1>2, WorkRows

LEMMA JudgedStep ==
  ASSUME TypeOK, Holding, Recorded, Bounded, Judged, Reviewed, [Next]_vars
  PROVE  Judged'
<1> SUFFICES ASSUME NEW w \in Workers, job'[w] \notin disturbed', pc'[w] \in Triaged,
                    record'[job'[w]].status # "none"
             PROVE  /\ record'[job'[w]].triage = runs'[job'[w]]
                    /\ record'[job'[w]].review.run \in {0, runs'[job'[w]]} \/ job'[w] \in killed'
  BY DEF Judged
<1>1. CASE /\ pc'[w] = pc[w] /\ job'[w] = job[w]
           /\ record'[job[w]] = record[job[w]] /\ runs'[job[w]] = runs[job[w]]
  BY <1>1, GhostsGrow DEF Judged
<1>2. ASSUME NEW c \in Changes, Enqueue(c)
      PROVE  record'[job[w]] = record[job[w]] /\ UNCHANGED <<pc, job, runs>>
  <2>1. c = sent + 1 /\ UNCHANGED <<pc, job, runs>> /\ sent \in Nat
    BY <1>2 DEF Enqueue, worker, TypeOK
  <2>2. Busy(w) /\ job[w] \in 1..sent
    BY <2>1 DEF Triaged, Busy, Holding
  <2>3. job[w] # c
    BY <2>1, <2>2
  <2> QED
    BY <1>2, <2>1, <2>2, <2>3, HeldChange DEF Enqueue, TypeOK
<1>3. ASSUME NEW v \in Workers, NEW c \in Changes, Take(v, c)
      PROVE  /\ record'[job[w]] = record[job[w]] /\ pc'[w] = pc[w] /\ job'[w] = job[w]
             /\ UNCHANGED runs
  <2>1. w # v
    BY <1>3, TakeFrame DEF Triaged
  <2>2. Busy(w)
    BY <1>3, <2>1, TakeFrame DEF Triaged, Busy
  <2>3. job[w] \in Changes /\ job[w] # c
    BY <1>3, <2>2, TakeFrame, HeldChange
  <2>4. \A d \in Changes \ {c} : record'[d] = record[d]
    BY <1>3, TakeFrame
  <2>5. pc'[w] = pc[w] /\ job'[w] = job[w] /\ UNCHANGED runs
    BY <1>3, <2>1, TakeFrame
  <2> QED
    BY <2>3, <2>4, <2>5
<1>4. ASSUME NEW v \in Workers, WorkStep(v), v # w
      PROVE  /\ record'[job[w]] = record[job[w]] /\ pc'[w] = pc[w] /\ job'[w] = job[w]
             /\ runs'[job[w]] = runs[job[w]]
  <2>1. Busy(w)
    BY <1>4, WorkFrame DEF Triaged, Busy
  <2> QED
    BY <1>4, <2>1, WorkElsewhere
<1>5. CASE WorkStep(w)
  <2>1. /\ UNCHANGED <<job, killed>> /\ Busy(w) /\ job[w] \in Changes
        /\ job[w] \notin disturbed
    BY <1>5, WorkFrame
  <2>2. record[job[w]] \in Records
    BY <2>1 DEF TypeOK
  <2>3. CASE Triage(w)
    <3>1. pc[w] = "claimed" /\ runs'[job[w]] = runs[job[w]] + 1 /\ pc[w] \in Analyzing
      BY <2>1, <2>3 DEF Triage, Goes, TypeOK, Analyzing
    <3>2. record'[job[w]] = [record[job[w]] EXCEPT !.triage = runs[job[w]] + 1]
      <4>1. ~Route(w) /\ ~AnalysisFails(w) /\ ~FailQueue(w) /\ ~Publish(w) /\ ~DeleteRow(w)
            /\ ~FailRecord(w) /\ ~MarkDone(w) /\ \A v \in Verdicts : ~Review(w, v)
        <5>1. pc'[w] = "triaged"
          BY <2>3 DEF Triage, Goes, TypeOK
        <5> QED
          BY <3>1, <5>1 DEF Route, AnalysisFails, FailQueue, Publish, DeleteRow, FailRecord,
                            MarkDone, Review, Goes, TypeOK
      <4> QED
        BY <1>5, <2>1, <3>1, <4>1, RecordWritten
    <3>3. job[w] \in killed \/ record[job[w]].review.run = 0
      BY <2>1, <3>1 DEF Reviewed, NoReview
    <3> QED
      BY <2>1, <2>2, <3>1, <3>2, <3>3 DEF Records
  <2>4. ASSUME NEW v \in Verdicts, Review(w, v)
        PROVE  /\ record'[job[w]].triage = runs'[job[w]]
               /\ record'[job[w]].review.run = runs'[job[w]]
    <3>1. pc[w] = "escalated" /\ UNCHANGED runs /\ pc[w] \in Analyzing /\ pc'[w] = "answered"
      BY <2>4 DEF Review, Goes, TypeOK, Analyzing
    <3>2. ~Triage(w) /\ ~FailRecord(w) /\ ~MarkDone(w) /\ ~Route(w) /\ ~AnalysisFails(w)
          /\ ~FailQueue(w) /\ ~Publish(w) /\ ~DeleteRow(w)
      BY <3>1 DEF Triage, FailRecord, MarkDone, Route, AnalysisFails, FailQueue, Publish,
                  DeleteRow, Goes, TypeOK
    <3>3. PICK u \in Verdicts :
            record'[job[w]] = [record[job[w]] EXCEPT !.review = [run |-> runs[job[w]], verdict |-> u]]
      BY <1>5, <2>1, <3>1, <3>2, RecordWritten
    <3>4. record[job[w]].status # "none"
      BY <3>1 DEF Recorded
    <3> QED
      BY <2>1, <2>2, <3>1, <3>3, <3>4 DEF Records, Judged, Triaged
  <2>5. CASE Route(w) \/ Publish(w) \/ DeleteRow(w)
    <3>1. pc[w] \in Triaged /\ UNCHANGED <<record, runs>>
      BY <2>5 DEF Route, Publish, DeleteRow, Goes, Triaged
    <3> QED
      BY <2>1, <3>1 DEF Judged
  <2>6. CASE MarkDone(w)
    <3>1. pc[w] \in Triaged /\ pc[w] = "deleted" /\ UNCHANGED runs
      BY <2>6 DEF MarkDone, Goes, Triaged
    <3>2. record'[job[w]] = [record[job[w]] EXCEPT !.status = "done"]
      <4>1. ~Triage(w) /\ ~FailRecord(w) /\ ~Route(w) /\ ~AnalysisFails(w)
            /\ ~FailQueue(w) /\ ~Publish(w) /\ ~DeleteRow(w) /\ \A v \in Verdicts : ~Review(w, v)
        BY <3>1 DEF Triage, FailRecord, Review, Route, AnalysisFails, FailQueue, Publish,
                    DeleteRow, Goes
      <4> QED
        BY <1>5, <2>1, <3>1, <4>1, RecordWritten
    <3>3. record[job[w]].status # "none"
      BY <3>1 DEF Recorded
    <3> QED
      BY <2>1, <2>2, <3>1, <3>2, <3>3 DEF Records, Judged
  <2>7. CASE AnalysisFails(w) \/ FailQueue(w) \/ FailRecord(w) \/ EnqueueReport(w)
    BY <2>7 DEF AnalysisFails, FailQueue, FailRecord, EnqueueReport, Goes, Triaged, TypeOK
  <2> QED
    BY <1>5, <2>1, <2>3, <2>4, <2>5, <2>6, <2>7 DEF WorkStep
<1>6. CASE Outage
  BY <1>6 DEF Outage, Triaged
<1>7. CASE LatePost \/ DaysPass \/ Prune(aged) \/ Prune(Changes) \/ UNCHANGED vars
  <2>1. UNCHANGED <<pc, job, runs>>
    BY <1>7, OtherFrame DEF worker
  <2>2. job[w] \in Changes
    BY <2>1, HeldChange DEF Triaged, Busy
  <2>3. record'[job[w]] = record[job[w]]
    BY <1>7, <2>1, <2>2, OthersKeep DEF NoRecord
  <2> QED
    BY <1>1, <2>1, <2>3
<1> QED
  BY <1>1, <1>2, <1>3, <1>4, <1>5, <1>6, <1>7, StepKinds

\* What w's step makes of the review and of its own verdict.
LEMMA ReviewWritten ==
  ASSUME TypeOK, Holding, Recorded, Bounded, NEW w \in Workers, WorkStep(w),
         job[w] \notin disturbed'
  PROVE  \/ \E v \in Verdicts :
              /\ pc[w] = "escalated" /\ pc'[w] = "answered" /\ verdict'[w] = v
              /\ record'[job[w]].review.verdict = v
         \/ /\ verdict'[w] = verdict[w] /\ record'[job[w]].review = record[job[w]].review
            /\ record'[job[w]].status # "none" => record[job[w]].status # "none"
            /\ \/ pc[w] = "claimed" /\ pc'[w] \in {"triaged", "erred"}
               \/ pc[w] = "triaged" /\ pc'[w] \in {"escalated", "answered"}
               \/ pc[w] \in Answered /\ pc'[w] \in Posted \cup {"idle"}
               \/ pc'[w] \in {"erred", "marked", "idle"}
<1>1. Busy(w) /\ job[w] \in Changes /\ record[job[w]] \in Records
  BY WorkFrame DEF TypeOK
<1>2. CASE Triage(w)
  <2>1. /\ pc[w] = "claimed" /\ pc'[w] = "triaged" /\ pc[w] \in Analyzing
        /\ UNCHANGED verdict
    BY <1>2 DEF Triage, Goes, TypeOK, Analyzing
  <2>2. record'[job[w]] = [record[job[w]] EXCEPT !.triage = runs[job[w]] + 1]
    <3>1. ~Route(w) /\ ~AnalysisFails(w) /\ ~FailQueue(w) /\ ~Publish(w) /\ ~DeleteRow(w)
          /\ ~FailRecord(w) /\ ~MarkDone(w) /\ \A v \in Verdicts : ~Review(w, v)
      BY <2>1 DEF Route, AnalysisFails, FailQueue, Publish, DeleteRow, FailRecord,
                  MarkDone, Review, Goes, TypeOK
    <3> QED
      BY <1>1, <2>1, <3>1, RecordWritten
  <2> QED
    BY <1>1, <2>1, <2>2 DEF Records
<1>3. ASSUME NEW v \in Verdicts, Review(w, v)
      PROVE  /\ pc[w] = "escalated" /\ pc'[w] = "answered" /\ verdict'[w] = v
             /\ record'[job[w]].review.verdict = v
  <2>1. /\ pc[w] = "escalated" /\ pc'[w] = "answered" /\ pc[w] \in Analyzing
        /\ verdict'[w] = v /\ record[job[w]].status = "analyzing"
    BY <1>3 DEF Review, Goes, TypeOK, Analyzing, Recorded
  <2>2. SaveReview(job[w], [run |-> runs[job[w]], verdict |-> v])
    BY <1>3 DEF Review, Works, Fault
  <2>3. [run |-> runs[job[w]], verdict |-> v] \in Reviews
    BY <1>1 DEF Reviews, TypeOK
  <2>4. record'[job[w]] = [record[job[w]] EXCEPT !.review = [run |-> runs[job[w]], verdict |-> v]]
    BY <1>1, <2>1, <2>2, <2>3, UpdateRow, RowsWritten DEF SaveReview
  <2> QED
    BY <1>1, <2>1, <2>4 DEF Records
<1>4. CASE MarkDone(w) \/ FailRecord(w)
  <2>1. /\ (pc[w] = "deleted" /\ pc'[w] = "completed") \/ pc'[w] = "idle"
        /\ pc[w] \in {"deleted", "marked"} /\ UNCHANGED verdict
        /\ record[job[w]].status = "analyzing"
    BY <1>4 DEF MarkDone, FailRecord, Goes, TypeOK, Recorded
  <2>2. /\ record'[job[w]].review = record[job[w]].review
    <3>1. \/ record'[job[w]] = [record[job[w]] EXCEPT !.status = "failed"]
          \/ record'[job[w]] = [record[job[w]] EXCEPT !.status = "done"]
          \/ record'[job[w]] = record[job[w]]
      BY <1>1, <1>4, <2>1, UpdateRow, RowsWritten DEF MarkDone, FailRecord, Works, SetStatus, Update
    <3> QED
      BY <1>1, <3>1 DEF Records
  <2> QED
    BY <2>1, <2>2 DEF Answered, Posted
<1>5. CASE Route(w) \/ AnalysisFails(w) \/ FailQueue(w) \/ Publish(w) \/ DeleteRow(w) \/ EnqueueReport(w)
  <2>1. UNCHANGED <<record, verdict>>
    BY <1>5 DEF Route, AnalysisFails, FailQueue, Publish, DeleteRow, EnqueueReport, worker
  <2>2. \/ pc[w] = "claimed" /\ pc'[w] \in {"triaged", "erred"}
        \/ pc[w] = "triaged" /\ pc'[w] \in {"escalated", "answered"}
        \/ pc[w] \in Answered /\ pc'[w] \in Posted \cup {"idle"}
        \/ pc'[w] \in {"erred", "marked", "idle"}
    BY <1>5 DEF Route, AnalysisFails, FailQueue, Publish, DeleteRow, EnqueueReport, Goes,
                TypeOK, Answered, Posted
  <2> QED
    BY <2>1, <2>2
<1> QED
  BY <1>2, <1>3, <1>4, <1>5 DEF WorkStep

LEMMA ReviewedStep ==
  ASSUME TypeOK, Holding, Unsent, Recorded, Bounded, Reviewed, [Next]_vars
  PROVE  Reviewed'
<1>a. disturbed \subseteq disturbed' /\ killed \subseteq killed'
  BY GhostsGrow
<1>1. ASSUME NEW c \in Changes \ (disturbed' \cup killed'), queue'[c] = "pending"
      PROVE  runs'[c] = 0 /\ record'[c].review = NoReview
  <2>0. queue[c] = "pending" => runs[c] = 0 /\ record[c].review = NoReview
    BY <1>1, <1>a DEF Reviewed
  <2>1. ASSUME NEW b \in Changes, Enqueue(b)
        PROVE  runs'[c] = 0 /\ record'[c].review = NoReview
    <3>1. CASE b = c
      <4>1. runs[c] = 0
        BY <2>1, <3>1 DEF Enqueue, Unsent, TypeOK
      <4> QED
        BY <2>1, <3>1, <4>1 DEF Enqueue, TypeOK, NoRecord
    <3>2. CASE b # c
      BY <1>1, <2>0, <2>1, <3>2 DEF Enqueue, TypeOK
    <3> QED
      BY <3>1, <3>2
  <2>2. ASSUME NEW w \in Workers, NEW b \in Changes, Take(w, b)
        PROVE  runs'[c] = 0 /\ record'[c].review = NoReview
    <3>1. b # c
      BY <1>1, <2>2, TakeFrame
    <3> QED
      BY <1>1, <2>0, <2>2, <3>1, TakeFrame
  <2>3. ASSUME NEW w \in Workers, WorkStep(w)
        PROVE  runs'[c] = 0 /\ record'[c].review = NoReview
    <3>1. Busy(w) /\ job[w] \in Changes /\ queue[job[w]] # "pending"
      BY <2>3, WorkFrame, HeldChange
    <3>2. queue'[job[w]] # "pending"
      BY <2>3, <3>1 DEF WorkStep, Triage, Route, AnalysisFails, Review, FailQueue, FailRecord,
           Publish, DeleteRow, MarkDone, EnqueueReport, TypeOK
    <3> QED
      BY <1>1, <2>0, <2>3, <3>2, WorkRows
  <2>4. CASE Outage
    <3>1. queue[c] # "analyzing"
      BY <1>1, <1>a, <2>4 DEF Outage, Holding
    <3> QED
      BY <1>1, <2>0, <2>4, <3>1 DEF Outage
  <2>5. CASE LatePost \/ DaysPass \/ Prune(aged) \/ Prune(Changes) \/ UNCHANGED vars
    <3>1. UNCHANGED <<queue, runs>>
      BY <2>5, OtherFrame
    <3>2. record'[c] = record[c]
      BY <1>1, <2>5, <3>1, OthersKeep DEF Recorded
    <3> QED
      BY <1>1, <2>0, <3>1, <3>2
  <2> QED
    BY <2>1, <2>2, <2>3, <2>4, <2>5, StepKinds
<1>2. ASSUME NEW w \in Workers, Busy(w)', job'[w] \notin disturbed' \cup killed'
      PROVE  /\ pc'[w] = "claimed" => runs'[job'[w]] = 0
             /\ pc'[w] \in {"claimed", "triaged", "escalated"} =>
                  record'[job'[w]].review = NoReview /\ verdict'[w] = "none"
             /\ pc'[w] \in Answered /\ record'[job'[w]].status # "none" =>
                  record'[job'[w]].review.verdict = verdict'[w]
  <2>0. CASE /\ pc'[w] = pc[w] /\ job'[w] = job[w] /\ verdict'[w] = verdict[w]
             /\ runs'[job[w]] = runs[job[w]]
             /\ \/ record'[job[w]] = record[job[w]]
                \/ record'[job[w]].status = "none" /\ pc[w] \notin {"claimed", "triaged", "escalated"}
    BY <1>2, <1>a, <2>0 DEF Reviewed, Busy
  <2>1. ASSUME NEW b \in Changes, Enqueue(b)
        PROVE  UNCHANGED <<pc, job, verdict, runs>> /\ record'[job[w]] = record[job[w]]
    <3>1. UNCHANGED <<pc, job, verdict, runs>> /\ b = sent + 1 /\ sent \in Nat
      BY <2>1 DEF Enqueue, worker, TypeOK
    <3>2. job[w] \in 1..sent /\ job[w] \in Changes
      BY <1>2, <3>1, HeldChange DEF Holding, Busy
    <3>3. job[w] # b
      BY <3>1, <3>2
    <3> QED
      BY <2>1, <3>1, <3>2, <3>3 DEF Enqueue, TypeOK
  <2>2. ASSUME NEW v \in Workers, NEW b \in Changes, Take(v, b)
        PROVE  /\ pc'[w] = "claimed" => runs'[job'[w]] = 0
               /\ pc'[w] \in {"claimed", "triaged", "escalated"} =>
                    record'[job'[w]].review = NoReview /\ verdict'[w] = "none"
               /\ pc'[w] \in Answered /\ record'[job'[w]].status # "none" =>
                    record'[job'[w]].review.verdict = verdict'[w]
    <3>1. CASE v = w
      <4>1. /\ pc'[w] = "claimed" /\ job'[w] = b /\ verdict'[w] = "none" /\ UNCHANGED runs
            /\ record'[b].review = record[b].review /\ queue[b] = "pending"
            /\ UNCHANGED <<disturbed, killed>>
        BY <2>2, <3>1, TakeFrame
      <4>2. runs[b] = 0 /\ record[b].review = NoReview
        BY <1>2, <4>1 DEF Reviewed
      <4> QED
        BY <4>1, <4>2 DEF Answered
    <3>2. CASE v # w
      <4>1. pc'[w] = pc[w] /\ job'[w] = job[w] /\ verdict'[w] = verdict[w] /\ UNCHANGED runs
        BY <2>2, <3>2, TakeFrame
      <4>2. job[w] \in Changes \ {b}
        BY <1>2, <2>2, <4>1, TakeFrame, HeldChange DEF Busy
      <4>3. record'[job[w]] = record[job[w]]
        BY <2>2, <4>2, TakeFrame
      <4> QED
        BY <2>0, <4>1, <4>3
    <3> QED
      BY <3>1, <3>2
  <2>3. ASSUME NEW v \in Workers, WorkStep(v)
        PROVE  /\ pc'[w] = "claimed" => runs'[job'[w]] = 0
               /\ pc'[w] \in {"claimed", "triaged", "escalated"} =>
                    record'[job'[w]].review = NoReview /\ verdict'[w] = "none"
               /\ pc'[w] \in Answered /\ record'[job'[w]].status # "none" =>
                    record'[job'[w]].review.verdict = verdict'[w]
    <3>1. CASE v = w
      <4>1. UNCHANGED job /\ Busy(w) /\ job[w] \notin disturbed' /\ job[w] \notin disturbed \cup killed
        BY <1>2, <1>a, <2>3, <3>1, WorkFrame
      <4>2. /\ pc[w] \in {"claimed", "triaged", "escalated"} =>
                 record[job[w]].review = NoReview /\ verdict[w] = "none"
            /\ pc[w] \in Answered /\ record[job[w]].status # "none" =>
                 record[job[w]].review.verdict = verdict[w]
        BY <4>1 DEF Reviewed
      <4>3. CASE \E u \in Verdicts :
                   /\ pc[w] = "escalated" /\ pc'[w] = "answered" /\ verdict'[w] = u
                   /\ record'[job[w]].review.verdict = u
        BY <4>1, <4>3
      <4>4. CASE /\ verdict'[w] = verdict[w] /\ record'[job[w]].review = record[job[w]].review
                 /\ record'[job[w]].status # "none" => record[job[w]].status # "none"
                 /\ \/ pc[w] = "claimed" /\ pc'[w] \in {"triaged", "erred"}
                    \/ pc[w] = "triaged" /\ pc'[w] \in {"escalated", "answered"}
                    \/ pc[w] \in Answered /\ pc'[w] \in Posted \cup {"idle"}
                    \/ pc'[w] \in {"erred", "marked", "idle"}
        <5>1. CASE pc[w] = "claimed" /\ pc'[w] \in {"triaged", "erred"}
          BY <4>1, <4>2, <4>4, <5>1 DEF Answered
        <5>2. CASE pc[w] = "triaged" /\ pc'[w] \in {"escalated", "answered"}
          BY <4>1, <4>2, <4>4, <5>2 DEF Answered, NoReview
        <5>3. CASE pc[w] \in Answered /\ pc'[w] \in Posted \cup {"idle"}
          BY <4>1, <4>2, <4>4, <5>3 DEF Answered, Posted
        <5>4. CASE pc'[w] \in {"erred", "marked", "idle"}
          BY <5>4 DEF Answered
        <5> QED
          BY <4>4, <5>1, <5>2, <5>3, <5>4
      <4> QED
        BY <2>3, <3>1, <4>1, <4>3, <4>4, ReviewWritten
    <3>2. CASE v # w
      <4>1. Busy(w)
        BY <1>2, <2>3, <3>2, WorkFrame DEF Busy
      <4> QED
        BY <2>0, <2>3, <3>2, <4>1, WorkElsewhere
    <3> QED
      BY <3>1, <3>2
  <2>4. CASE Outage
    BY <1>2, <2>4 DEF Outage, Busy
  <2>5. CASE LatePost \/ DaysPass \/ Prune(aged) \/ Prune(Changes) \/ UNCHANGED vars
    <3>1. UNCHANGED <<pc, job, verdict, runs>> /\ Busy(w) /\ job[w] \in Changes
      BY <1>2, <2>5, OtherFrame, HeldChange DEF worker, Busy
    <3>2. \/ record'[job[w]] = record[job[w]]
          \/ record'[job[w]].status = "none" /\ record[job[w]].status \in {"done", "failed"}
      BY <2>5, <3>1, OthersKeep DEF NoRecord
    <3>3. pc[w] \in {"claimed", "triaged", "escalated"} => record[job[w]].status = "analyzing"
      BY DEF Recorded, Analyzing
    <3> QED
      BY <2>0, <3>1, <3>2, <3>3
  <2> QED
    BY <2>0, <2>1, <2>2, <2>3, <2>4, <2>5, StepKinds
<1> QED
  BY <1>1, <1>2 DEF Reviewed

\* EnqueueReport of a change nothing went wrong with: the row of the queue is gone,
\* and if the record is there it is what the report says.
LEMMA ReportWritten ==
  ASSUME TypeOK, Holding, Recorded, NEW w \in Workers, EnqueueReport(w),
         job[w] \notin disturbed'
  PROVE  /\ pc[w] = "completed" /\ pc'[w] = "idle" /\ queue[job[w]] = "none"
         /\ UNCHANGED <<queue, record, runs, shown, verdict, disturbed>>
         /\ \/ /\ record[job[w]].status = "done"
               /\ report'[job[w]] = record[job[w]]
            \/ /\ record[job[w]].status = "none" /\ job[w] \in wiped
               /\ report' = report
<1>1. pc[w] = "completed" /\ pc'[w] = "idle" /\ job[w] \in Changes
  BY HeldChange DEF EnqueueReport, Goes, TypeOK, Busy
<1>2. /\ report' = IF record[job[w]].status = "none" THEN report
                   ELSE [report EXCEPT ![job[w]] = record[job[w]]]
      /\ UNCHANGED <<queue, record, runs, shown, verdict, disturbed>>
  BY DEF EnqueueReport, BuildReport, Fault
<1>3. queue[job[w]] = "none"
  BY <1>1, <1>2 DEF Holding
<1>4. \/ record[job[w]].status = "done"
      \/ record[job[w]].status = "none" /\ job[w] \in wiped
  BY <1>1, <1>2 DEF Recorded
<1> QED
  BY <1>1, <1>2, <1>3, <1>4 DEF TypeOK

\* Who holds a change after a step.
LEMMA HeldAfter ==
  ASSUME TypeOK, Holding, [Next]_vars
  PROVE  /\ \A w \in Workers, c \in Changes : Take(w, c) => Held' = Held \cup {c}
         /\ \A w \in Workers : WorkStep(w) =>
              Held' = IF pc'[w] = "idle" THEN Held \ {job[w]} ELSE Held
         /\ (LatePost \/ DaysPass \/ Prune(aged) \/ Prune(Changes) \/ UNCHANGED vars
              \/ \E c \in Changes : Enqueue(c)) => Held' = Held
         /\ Outage => Held' = {}
<1>1. ASSUME NEW w \in Workers, NEW c \in Changes, Take(w, c)
      PROVE  Held' = Held \cup {c}
  BY <1>1 DEF Take, Goes, Held, TypeOK
<1>2. ASSUME NEW w \in Workers, WorkStep(w)
      PROVE  Held' = IF pc'[w] = "idle" THEN Held \ {job[w]} ELSE Held
  <2>1. /\ UNCHANGED job /\ Busy(w) /\ \A v \in Workers \ {w} : pc'[v] = pc[v]
    BY <1>2, WorkFrame
  <2>2. \A v \in Workers \ {w} : Busy(v) => job[v] # job[w]
    BY <2>1 DEF Holding
  <2> QED
    BY <2>1, <2>2 DEF Held, Busy
<1>3. ASSUME LatePost \/ DaysPass \/ Prune(aged) \/ Prune(Changes) \/ UNCHANGED vars
              \/ \E c \in Changes : Enqueue(c)
      PROVE  Held' = Held
  <2>1. UNCHANGED <<pc, job>>
    BY <1>3, OtherFrame DEF worker, Enqueue
  <2> QED
    BY <2>1 DEF Held
<1>4. Outage => Held' = {}
  BY DEF Outage, Held
<1> QED
  BY <1>1, <1>2, <1>3, <1>4

LEMMA ReportedStep ==
  ASSUME TypeOK, Holding, Unsent, Recorded, Bounded, Judged, Reported, [Next]_vars
  PROVE  Reported'
<1> SUFFICES ASSUME NEW c \in Changes, report'[c].status # "none", c \notin disturbed'
             PROVE  /\ report'[c].status = "done"
                    /\ report'[c].triage = runs'[c]
                    /\ report'[c].review.run \in {0, runs'[c]} \/ c \in killed'
                    /\ queue'[c] = "none" /\ c \notin Held' /\ c <= sent'
  BY DEF Reported
<1>a. c \notin disturbed /\ killed \subseteq killed'
  BY GhostsGrow
<1>b. report[c].status # "none" =>
        /\ report[c].status = "done"
        /\ report[c].triage = runs[c]
        /\ report[c].review.run \in {0, runs[c]} \/ c \in killed
        /\ queue[c] = "none" /\ c \notin Held /\ c <= sent
  BY <1>a DEF Reported
<1>1. ASSUME NEW b \in Changes, Enqueue(b)
      PROVE  /\ report'[c] = report[c] /\ runs'[c] = runs[c] /\ queue'[c] = queue[c]
             /\ c \notin Held' /\ c <= sent'
  <2>1. UNCHANGED <<report, runs>> /\ b = sent + 1 /\ sent' = b /\ sent \in Nat /\ c \in Nat
    BY <1>1 DEF Enqueue, TypeOK, Changes
  <2>2. c <= sent /\ c # b /\ c \notin Held
    BY <1>b, <2>1
  <2>3. queue'[c] = queue[c]
    BY <1>1, <2>2 DEF Enqueue, TypeOK
  <2>4. Held' = Held
    BY <1>1, HeldAfter
  <2> QED
    BY <2>1, <2>2, <2>3, <2>4
<1>2. ASSUME NEW w \in Workers, NEW b \in Changes, Take(w, b)
      PROVE  /\ report'[c] = report[c] /\ runs'[c] = runs[c] /\ queue'[c] = queue[c]
             /\ c \notin Held' /\ c <= sent'
  <2>1. UNCHANGED <<report, runs, sent>> /\ queue[b] = "pending"
    BY <1>2, TakeFrame
  <2>2. c # b /\ c \notin Held /\ c <= sent
    BY <1>b, <2>1
  <2> QED
    BY <1>2, <2>1, <2>2, TakeFrame, HeldAfter
<1>3. ASSUME NEW w \in Workers, WorkStep(w)
      PROVE  /\ report'[c].status = "done"
             /\ report'[c].triage = runs'[c]
             /\ report'[c].review.run \in {0, runs'[c]} \/ c \in killed'
             /\ queue'[c] = "none" /\ c \notin Held' /\ c <= sent'
  <2>1. /\ UNCHANGED <<sent, job>> /\ Busy(w) /\ job[w] \in 1..sent /\ job[w] \in Held
        /\ job[w] \in Changes
    BY <1>3, WorkFrame, HeldChange
  <2>2. Held' = IF pc'[w] = "idle" THEN Held \ {job[w]} ELSE Held
    BY <1>3, HeldAfter
  <2>3. CASE c # job[w]
    <3>1. report'[c] = report[c] /\ runs'[c] = runs[c] /\ queue'[c] = queue[c]
      BY <1>3, <2>3, WorkRows
    <3> QED
      BY <1>a, <1>b, <2>1, <2>2, <3>1
  <2>4. CASE c = job[w]
    <3>1. report[c].status = "none"
      BY <1>b, <2>1, <2>4
    <3>2. EnqueueReport(w)
      BY <1>3, <3>1 DEF WorkStep, Triage, Route, AnalysisFails, Review, FailQueue, FailRecord,
           Publish, DeleteRow, MarkDone
    <3>3. /\ pc[w] = "completed" /\ pc'[w] = "idle" /\ queue[c] = "none"
          /\ UNCHANGED <<queue, record, runs>>
          /\ record[c].status = "done" /\ report'[c] = record[c]
      BY <2>4, <3>1, <3>2, ReportWritten
    <3>4. record[c].triage = runs[c] /\ (record[c].review.run \in {0, runs[c]} \/ c \in killed)
      BY <1>a, <2>4, <3>3 DEF Judged, Triaged
    <3> QED
      BY <1>a, <2>1, <2>2, <2>4, <3>3, <3>4
  <2> QED
    BY <2>3, <2>4
<1>4. CASE Outage
  <2>1. UNCHANGED <<report, runs, sent>> /\ queue[c] = "none" => queue'[c] = "none"
    BY <1>4 DEF Outage
  <2> QED
    BY <1>a, <1>b, <1>4, <2>1, HeldAfter DEF Outage
<1>5. CASE LatePost \/ DaysPass \/ Prune(aged) \/ Prune(Changes) \/ UNCHANGED vars
  BY <1>a, <1>b, <1>5, OtherFrame, HeldAfter
<1> QED
  BY <1>a, <1>b, <1>1, <1>2, <1>3, <1>4, <1>5, StepKinds

LEMMA AgreeingStep ==
  ASSUME TypeOK, Holding, Unsent, Recorded, Bounded, Reviewed, Reported, Agreeing, [Next]_vars
  PROVE  Agreeing'
<1> SUFFICES ASSUME NEW c \in Changes, c \notin disturbed', c \notin killed', shown'.change = c
             PROVE  /\ queue'[c] # "pending" /\ c <= sent'
                    /\ \A w \in Workers : Busy(w)' /\ job'[w] = c =>
                         pc'[w] \in Posted /\ shown'.state = VerdictState(verdict'[w])
                    /\ report'[c].status # "none" =>
                         (shown'.state = "failure" <=> report'[c].review.verdict = "request-changes")
  BY DEF Agreeing, VerdictState
<1> DEFINE Agrees ==
             /\ queue'[c] # "pending" /\ c <= sent'
             /\ \A w \in Workers : Busy(w)' /\ job'[w] = c =>
                  pc'[w] \in Posted /\ shown'.state = VerdictState(verdict'[w])
             /\ report'[c].status # "none" =>
                  (shown'.state = "failure" <=> report'[c].review.verdict = "request-changes")
<1>a. c \notin disturbed /\ c \notin killed
  BY GhostsGrow
<1>b. shown.change = c =>
        /\ queue[c] # "pending" /\ c <= sent
        /\ \A w \in Workers : Busy(w) /\ job[w] = c =>
             pc[w] \in Posted /\ shown.state = VerdictState(verdict[w])
        /\ report[c].status # "none" =>
             (shown.state = "failure" <=> report[c].review.verdict = "request-changes")
  BY <1>a DEF Agreeing
<1>1. ASSUME NEW b \in Changes, Enqueue(b)
      PROVE  Agrees
  <2>1. UNCHANGED <<report, shown, pc, job, verdict>> /\ b = sent + 1 /\ sent' = b /\ sent \in Nat
    BY <1>1 DEF Enqueue, TypeOK, worker
  <2>2. c <= sent /\ c \in Nat
    BY <1>b, <2>1 DEF Changes
  <2>3. queue'[c] = queue[c]
    BY <1>1, <2>1, <2>2 DEF Enqueue, TypeOK
  <2> QED
    BY <1>b, <2>1, <2>2, <2>3 DEF Busy
<1>2. ASSUME NEW v \in Workers, NEW b \in Changes, Take(v, b)
      PROVE  Agrees
  <2>1. /\ UNCHANGED <<report, shown, sent>> /\ queue[b] = "pending" /\ job'[v] = b
        /\ \A w \in Workers \ {v} : pc'[w] = pc[w] /\ job'[w] = job[w] /\ verdict'[w] = verdict[w]
    BY <1>2, TakeFrame
  <2>2. c # b
    BY <1>b, <2>1
  <2>3. queue'[c] = queue[c]
    BY <1>2, <2>2, TakeFrame
  <2> QED
    BY <1>b, <2>1, <2>2, <2>3 DEF Busy
<1>3. ASSUME NEW v \in Workers, WorkStep(v)
      PROVE  Agrees
  <2>1. /\ UNCHANGED <<sent, job>> /\ Busy(v) /\ job[v] \in 1..sent /\ job[v] \in Held
        /\ job[v] \in Changes
        /\ \A w \in Workers \ {v} : pc'[w] = pc[w] /\ verdict'[w] = verdict[w]
    BY <1>3, WorkFrame, HeldChange
  <2>2. \A w \in Workers \ {v} : Busy(w)' /\ job'[w] = c => Busy(w) /\ job[w] = c /\ c # job[v]
    <3>1. \A w \in Workers \ {v} : Busy(w) => job[w] # job[v]
      BY <2>1 DEF Holding
    <3> QED
      BY <2>1, <3>1 DEF Busy
  <2>3. CASE shown' = shown /\ c # job[v]
    <3>1. report'[c] = report[c] /\ queue'[c] = queue[c]
      BY <1>3, <2>3, WorkRows
    <3> QED
      BY <1>b, <2>1, <2>2, <2>3, <3>1
  <2>4. CASE shown' = shown /\ c = job[v]
    <3>1. pc[v] \in Posted /\ shown.state = VerdictState(verdict[v])
      BY <1>b, <2>1, <2>4
    <3>2. report[c].status = "none"
      BY <1>a, <2>1, <2>4 DEF Reported
    <3>3. CASE EnqueueReport(v)
      <4>1. /\ pc[v] = "completed" /\ pc'[v] = "idle" /\ UNCHANGED queue
            /\ (report'[c] = record[c] /\ record[c].status = "done") \/ report' = report
        BY <2>4, <3>3, ReportWritten
      <4>2. report'[c].status # "none" => report'[c].review.verdict = verdict[v]
        BY <1>a, <2>1, <2>4, <3>2, <4>1 DEF Reviewed, Answered
      <4>3. shown'.state = "failure" <=> verdict[v] = "request-changes"
        BY <2>4, <3>1 DEF VerdictState
      <4>4. ~Busy(v)'
        BY <4>1 DEF Busy
      <4> QED
        BY <1>b, <2>1, <2>2, <2>4, <4>1, <4>2, <4>3, <4>4
    <3>4. CASE ~EnqueueReport(v)
      <4>1. UNCHANGED report /\ pc'[v] \in Posted \cup {"idle"} /\ verdict'[v] = verdict[v]
        BY <1>3, <3>1, <3>4
           DEF WorkStep, Triage, Route, AnalysisFails, Review, FailQueue, FailRecord, Publish,
               DeleteRow, MarkDone, Goes, Posted, TypeOK, worker
      <4>2. queue'[c] # "pending"
        BY <1>3, <1>b, <2>4, <3>1, <3>4
           DEF WorkStep, Triage, Route, AnalysisFails, Review, FailQueue, FailRecord, Publish,
               DeleteRow, MarkDone, Goes, Posted, TypeOK, worker
      <4> QED
        BY <1>b, <2>1, <2>2, <2>4, <3>1, <3>2, <4>1, <4>2 DEF Busy
    <3> QED
      BY <3>3, <3>4
  <2>5. CASE shown' # shown
    <3>1. Publish(v)
      BY <1>3, <2>5 DEF WorkStep, Triage, Route, AnalysisFails, Review, FailQueue, FailRecord,
           DeleteRow, MarkDone, EnqueueReport
    <3>2. /\ shown' = [change |-> job[v], state |-> VerdictState(verdict[v])]
          /\ pc'[v] = "posted" /\ verdict' = verdict /\ UNCHANGED <<queue, report>>
          /\ pc[v] = "answered"
      BY <2>5, <3>1 DEF Publish, Goes, TypeOK
    <3>3. c = job[v] /\ shown'.state = VerdictState(verdict[v])
      BY <3>2
    <3>4. queue[c] # "pending" /\ report[c].status = "none"
      BY <1>a, <2>1, <3>3, HeldChange DEF Reported
    <3> QED
      BY <2>1, <2>2, <3>2, <3>3, <3>4 DEF Posted
  <2> QED
    BY <2>3, <2>4, <2>5
<1>4. CASE Outage
  <2>1. /\ UNCHANGED <<sent, shown, report>> /\ \A w \in Workers : pc'[w] = "idle"
        /\ Held \subseteq killed'
    BY <1>4 DEF Outage
  <2>2. queue[c] # "analyzing"
    BY <1>a, <2>1 DEF Holding
  <2>3. queue'[c] = queue[c]
    BY <1>4, <2>2 DEF Outage
  <2> QED
    BY <1>b, <2>1, <2>3 DEF Busy
<1>5. CASE LatePost \/ DaysPass \/ Prune(aged) \/ Prune(Changes) \/ UNCHANGED vars
  <2>1. ~LatePost
    BY OtherFrame
  <2>2. UNCHANGED <<sent, queue, pc, job, verdict, report, shown>>
    BY <1>5, <2>1, OtherFrame DEF worker
  <2> QED
    BY <1>b, <2>2 DEF Busy
<1> QED
  BY <1>1, <1>2, <1>3, <1>4, <1>5, StepKinds

-----------------------------------------------------------------------------
(* One change at a time, and none unreported *)

LEMMA SerialStep ==
  ASSUME TypeOK, Holding, Unsent, Recorded, Bounded, Serial, [Next]_vars
  PROVE  Serial'
<1> SUFFICES ASSUME shared' \cup disturbed' \cup killed' = {}
             PROVE  /\ \A v, w \in Workers : Busy(v)' /\ Busy(w)' => v = w
                    /\ shown'.change <= sent'
                    /\ \A c \in Changes : queue'[c] = "pending" => shown'.change < c
                    /\ \A w \in Workers : Busy(w)' =>
                         /\ \A c \in Changes : queue'[c] = "pending" => job'[w] < c
                         /\ pc'[w] \notin Posted => shown'.change < job'[w]
                         /\ pc'[w] \in Posted    => shown'.change = job'[w]
                    /\ \A c \in Changes : queue'[c] = "none" /\ runs'[c] > 0 => shown'.change >= c
  BY DEF Serial
<1> DEFINE Goal == /\ \A v, w \in Workers : Busy(v)' /\ Busy(w)' => v = w
                   /\ shown'.change <= sent'
                   /\ \A c \in Changes : queue'[c] = "pending" => shown'.change < c
                   /\ \A w \in Workers : Busy(w)' =>
                        /\ \A c \in Changes : queue'[c] = "pending" => job'[w] < c
                        /\ pc'[w] \notin Posted => shown'.change < job'[w]
                        /\ pc'[w] \in Posted    => shown'.change = job'[w]
                   /\ \A c \in Changes : queue'[c] = "none" /\ runs'[c] > 0 => shown'.change >= c
<1>a. shared = {} /\ disturbed = {} /\ killed = {}
  BY GhostsGrow
<1>b. /\ \A v, w \in Workers : Busy(v) /\ Busy(w) => v = w
      /\ shown.change <= sent
      /\ \A c \in Changes : queue[c] = "pending" => shown.change < c
      /\ \A w \in Workers : Busy(w) =>
           /\ \A c \in Changes : queue[c] = "pending" => job[w] < c
           /\ pc[w] \notin Posted => shown.change < job[w]
           /\ pc[w] \in Posted    => shown.change = job[w]
      /\ \A c \in Changes : queue[c] = "none" /\ runs[c] > 0 => shown.change >= c
  BY <1>a DEF Serial
<1>c. /\ sent \in Nat /\ shown.change \in Nat /\ \A c \in Changes : c \in Nat /\ runs[c] \in Nat
      /\ \A w \in Workers : Busy(w) => job[w] \in 1..sent /\ job[w] \in Nat
  <2>1. sent \in Nat /\ \A c \in Changes : c \in Nat
    BY NAssumption DEF TypeOK, Changes
  <2>2. shown.change \in Nat
    BY NAssumption DEF TypeOK, Posts
  <2>3. \A c \in Changes : runs[c] \in Nat
    BY MaxOutagesAssumption DEF TypeOK
  <2>4. \A w \in Workers : Busy(w) => job[w] \in 1..sent
    BY DEF Holding
  <2>5. \A k \in 1..sent : k \in Nat
    BY <2>1
  <2> QED
    BY <2>1, <2>2, <2>3, <2>4, <2>5
<1>1. ASSUME NEW b \in Changes, Enqueue(b)
      PROVE  Goal
  <2>1. UNCHANGED <<shown, pc, job, runs>> /\ b = sent + 1 /\ sent' = b
    BY <1>1 DEF Enqueue, worker
  <2>2. queue'[b] = "pending" /\ \A c \in Changes \ {b} : queue'[c] = queue[c]
    BY <1>1 DEF Enqueue, TypeOK
  <2>3. \A c \in Changes : queue'[c] = "pending" => shown'.change < c
    BY <1>b, <1>c, <2>1, <2>2
  <2>4. \A w \in Workers : Busy(w) => job[w] < b
    BY <1>c, <2>1
  <2>5. shown'.change <= sent'
    BY <1>b, <1>c, <2>1
  <2> QED
    BY <1>b, <2>1, <2>2, <2>3, <2>4, <2>5 DEF Busy
<1>2. ASSUME NEW w \in Workers, NEW b \in Changes, Take(w, b),
             \A d \in 1..(b - 1) : queue[d] # "pending"
      PROVE  Goal
  <2>1. \A v \in Workers \ {w} : ~Busy(v)
    BY <1>2 DEF Take, Busy
  <2>2. /\ UNCHANGED <<runs, shown, sent>> /\ queue[b] = "pending" /\ queue'[b] = "analyzing"
        /\ pc'[w] = "claimed" /\ job'[w] = b
        /\ \A v \in Workers \ {w} : pc'[v] = pc[v]
    BY <1>2, TakeFrame
  <2>3. \A c \in Changes \ {b} : queue'[c] = queue[c]
    BY <1>2, TakeFrame
  <2>4. \A v \in Workers : Busy(v)' => v = w
    BY <2>1, <2>2 DEF Busy
  <2>5. \A c \in Changes : queue'[c] = "pending" => b < c
    <3> SUFFICES ASSUME NEW c \in Changes, queue'[c] = "pending" PROVE b < c
      OBVIOUS
    <3>1. c # b /\ queue[c] = "pending"
      BY <2>2, <2>3
    <3>2. c \notin 1..(b - 1)
      BY <1>2, <3>1
    <3> QED
      BY <3>1, <3>2 DEF Changes
  <2>6. \A c \in Changes : queue'[c] = "pending" => shown'.change < c
    BY <1>b, <2>2, <2>3
  <2>7. \A c \in Changes : queue'[c] = "none" /\ runs'[c] > 0 => shown'.change >= c
    BY <1>b, <2>2, <2>3
  <2>8. shown'.change < b /\ pc'[w] \notin Posted /\ shown'.change <= sent'
    BY <1>b, <2>2 DEF Posted
  <2> QED
    BY <2>2, <2>4, <2>5, <2>6, <2>7, <2>8
<1>3. ASSUME NEW w \in Workers, WorkStep(w)
      PROVE  Goal
  <2>1. /\ UNCHANGED <<sent, job>> /\ Busy(w) /\ job[w] \in 1..sent /\ job[w] \in Changes
        /\ \A v \in Workers \ {w} : pc'[v] = pc[v]
    BY <1>3, WorkFrame
  <2>2. \A c \in Changes \ {job[w]} : queue'[c] = queue[c] /\ runs'[c] = runs[c]
    BY <1>3, WorkRows
  <2>3. \A v \in Workers : Busy(v)' => v = w
    BY <1>b, <2>1 DEF Busy
  <2>4. queue'[job[w]] # "pending"
    <3>1. queue[job[w]] # "pending"
      BY <2>1, HeldChange
    <3> QED
      BY <1>3, <2>1, <3>1
         DEF WorkStep, Triage, Route, AnalysisFails, Review, FailQueue, FailRecord, Publish,
             DeleteRow, MarkDone, EnqueueReport, TypeOK
  <2>5. \A c \in Changes : queue'[c] = "pending" => job[w] < c
    BY <1>b, <2>1, <2>2, <2>4
  <2>6. shown'.change \in {shown.change, job[w]} /\ shown.change <= job[w]
        /\ (pc'[w] \notin Posted /\ pc'[w] # "idle" => shown'.change < job[w])
        /\ (pc'[w] \in Posted => shown'.change = job[w])
        /\ (queue'[job[w]] = "none" => shown'.change = job[w])
    <3>0. /\ pc[w] \notin Posted => shown.change < job[w]
          /\ pc[w] \in Posted    => shown.change = job[w]
      BY <1>b, <2>1
    <3>1. CASE Publish(w)
      <4>1. /\ shown' = [change |-> job[w], state |-> VerdictState(verdict[w])]
            /\ pc'[w] = "posted" /\ pc[w] = "answered"
        BY <1>a, <3>1 DEF Publish, Goes, TypeOK, Fault
      <4> QED
        BY <1>c, <2>1, <3>0, <4>1 DEF Posted
    <3>2. CASE Triage(w) \/ Route(w) \/ AnalysisFails(w) \/ FailQueue(w) \/ FailRecord(w)
               \/ \E v \in Verdicts : Review(w, v)
      <4>1. /\ UNCHANGED shown /\ pc'[w] \notin Posted
            /\ pc[w] \in Analyzing \ {"posted"} \/ pc[w] = "marked"
        BY <3>2 DEF Triage, Route, AnalysisFails, FailQueue, FailRecord, Review, Goes, TypeOK,
                    Posted, Analyzing
      <4>2. pc[w] \notin Posted /\ queue[job[w]] \in {"analyzing", "failed"}
        BY <4>1 DEF Holding, Posted, Analyzing
      <4>3. queue'[job[w]] # "none"
        BY <2>1, <3>2, <4>2 DEF Triage, Route, AnalysisFails, FailQueue, FailRecord, Review, TypeOK
      <4> QED
        BY <1>c, <2>1, <3>0, <4>1, <4>2, <4>3
    <3>3. CASE DeleteRow(w) \/ MarkDone(w) \/ EnqueueReport(w)
      <4>1. UNCHANGED shown /\ pc[w] \in Posted /\ pc'[w] \in Posted \cup {"idle"}
        BY <3>3 DEF DeleteRow, MarkDone, EnqueueReport, Goes, TypeOK, Posted
      <4> QED
        BY <1>c, <2>1, <3>0, <4>1
    <3> QED
      BY <1>3, <3>1, <3>2, <3>3 DEF WorkStep
  <2>7. shown'.change <= job[w] /\ shown.change <= shown'.change /\ shown'.change <= sent'
    BY <1>c, <2>1, <2>6
  <2>8. \A c \in Changes : queue'[c] = "pending" => shown'.change < c
    BY <1>c, <2>1, <2>5, <2>6, <2>7
  <2>9. \A c \in Changes : queue'[c] = "none" /\ runs'[c] > 0 => shown'.change >= c
    <3> SUFFICES ASSUME NEW c \in Changes, queue'[c] = "none", runs'[c] > 0
                 PROVE  shown'.change >= c
      OBVIOUS
    <3>1. CASE c = job[w]
      BY <1>c, <2>6, <3>1
    <3>2. CASE c # job[w]
      <4>1. shown.change >= c
        BY <1>b, <2>2, <3>2
      <4>2. shown.change \in Nat /\ shown'.change \in Nat /\ c \in Nat
        BY <1>c, <2>1, <2>6
      <4> QED
        BY <2>7, <4>1, <4>2
    <3> QED
      BY <3>1, <3>2
  <2>10. Busy(w)' => pc'[w] # "idle"
    BY DEF Busy
  <2> QED
    BY <2>1, <2>3, <2>5, <2>6, <2>7, <2>8, <2>9, <2>10
<1>4. CASE Outage
  <2>1. /\ UNCHANGED <<sent, shown, runs>> /\ \A w \in Workers : pc'[w] = "idle" /\ Held = {}
    BY <1>4 DEF Outage
  <2>2. Held = {}
    BY <1>4 DEF Outage
  <2>3. \A c \in Changes : queue'[c] = queue[c]
    BY <1>4, <1>a, <2>2 DEF Outage, Holding
  <2> QED
    BY <1>b, <2>1, <2>3 DEF Busy
<1>5. CASE LatePost \/ DaysPass \/ Prune(aged) \/ Prune(Changes) \/ UNCHANGED vars
  <2>1. CASE LatePost
    <3>1. Changes = {} /\ late # {} /\ sent = 0
      BY <2>1, NAssumption DEF LatePost, Changes, TypeOK
    <3>2. UNCHANGED <<sent, pc, job>> /\ shown' \in late
      BY <2>1 DEF LatePost, worker
    <3>3. \A w \in Workers : ~Busy(w)
      BY <3>1, HeldChange
    <3>4. shown'.change = 0
      <4>1. N = 0
        BY <3>1, NAssumption DEF Changes
      <4>2. shown' \in Posts
        BY <3>2 DEF TypeOK
      <4> QED
        BY <4>1, <4>2 DEF Posts
    <3> QED
      BY <3>1, <3>2, <3>3, <3>4 DEF Busy
  <2>2. CASE ~LatePost
    <3>1. UNCHANGED <<sent, queue, pc, job, runs, shown>>
      BY <1>5, <2>2, OtherFrame DEF worker
    <3> QED
      BY <1>b, <3>1 DEF Busy
  <2> QED
    BY <2>1, <2>2
<1> QED
  BY <1>1, <1>2, <1>3, <1>4, <1>5, StepKinds

LEMMA ReportingStep ==
  ASSUME TypeOK, Holding, Unsent, Recorded, Bounded, Reporting, [Next]_vars
  PROVE  Reporting'
<1> SUFFICES ASSUME NEW c \in Changes, c \notin disturbed', c \notin killed', c \notin wiped',
                    runs'[c] > 0, queue'[c] = "none", c \notin Held'
             PROVE  report'[c].status = "done"
  BY DEF Reporting
<1>a. c \notin disturbed /\ c \notin killed /\ c \notin wiped
  BY GhostsGrow
<1>b. runs[c] > 0 /\ queue[c] = "none" /\ c \notin Held => report[c].status = "done"
  BY <1>a DEF Reporting
<1>1. ASSUME NEW b \in Changes, Enqueue(b)
      PROVE  report'[c].status = "done"
  <2>1. UNCHANGED <<runs, report>> /\ queue[c] = "none" /\ Held' = Held
    BY <1>1, HeldAfter DEF Enqueue, TypeOK
  <2> QED
    BY <1>b, <2>1
<1>2. ASSUME NEW w \in Workers, NEW b \in Changes, Take(w, b)
      PROVE  report'[c].status = "done"
  <2>1. UNCHANGED <<runs, report>> /\ Held' = Held \cup {b}
    BY <1>2, TakeFrame, HeldAfter
  <2>2. queue[c] = "none"
    BY <1>2, <2>1, TakeFrame
  <2> QED
    BY <1>b, <2>1, <2>2
<1>3. ASSUME NEW w \in Workers, WorkStep(w)
      PROVE  report'[c].status = "done"
  <2>1. Busy(w) /\ job[w] \in Changes /\ UNCHANGED job
    BY <1>3, WorkFrame
  <2>2. Held' = IF pc'[w] = "idle" THEN Held \ {job[w]} ELSE Held
    BY <1>3, HeldAfter
  <2>3. CASE c # job[w]
    BY <1>3, <1>b, <2>2, <2>3, WorkRows
  <2>4. CASE c = job[w]
    <3>1. pc'[w] = "idle"
      BY <2>1, <2>2, <2>4, HeldChange
    <3>2. ~FailRecord(w)
      <4> SUFFICES ASSUME FailRecord(w) PROVE FALSE
        OBVIOUS
      <4>1. pc[w] = "marked" /\ UNCHANGED queue
        BY DEF FailRecord, Goes
      <4> QED
        BY <2>4, <4>1 DEF Holding
    <3>3. EnqueueReport(w)
      BY <1>3, <2>1, <2>4, <3>1, <3>2
         DEF WorkStep, Triage, Route, AnalysisFails, Review, FailQueue, Publish, DeleteRow,
             MarkDone, Goes, Fault, TypeOK
    <3> QED
      BY <1>a, <2>4, <3>3, ReportWritten
  <2> QED
    BY <2>3, <2>4
<1>4. CASE Outage
  <2>1. UNCHANGED <<runs, report>> /\ Held \subseteq killed' /\ queue[c] = "none"
    BY <1>4 DEF Outage
  <2> QED
    BY <1>b, <2>1
<1>5. CASE LatePost \/ DaysPass \/ Prune(aged) \/ Prune(Changes) \/ UNCHANGED vars
  BY <1>5, <1>b, OtherFrame, HeldAfter
<1> QED
  BY <1>1, <1>2, <1>3, <1>4, <1>5, StepKinds

-----------------------------------------------------------------------------
(* Theorems *)

LEMMA ResultsInvInit == Init => ResultsInv
<1> SUFFICES ASSUME Init PROVE ResultsInv
  OBVIOUS
<1>1. TypeOK
  <2>1. NoRecord \in Records /\ NoPost \in Posts
    BY NAssumption, MaxOutagesAssumption
       DEF NoRecord, NoReview, NoPost, Records, Reviews, Posts
  <2> QED
    BY <2>1, NAssumption, MaxOutagesAssumption DEF Init, TypeOK
<1>2. Holding /\ Unsent /\ Recorded /\ Bounded
  BY MaxOutagesAssumption
     DEF Init, Holding, Unsent, Recorded, Bounded, Busy, Held, Analyzing, NoRecord
<1>3. Judged /\ Reviewed /\ Reported /\ Reporting
  BY DEF Init, Judged, Reviewed, Reported, Reporting, Busy, Triaged, NoRecord
<1>4. Agreeing /\ Serial
  BY DEF Init, Agreeing, Serial, NoPost, Busy, Changes
<1> QED
  BY <1>1, <1>2, <1>3, <1>4 DEF ResultsInv

LEMMA ResultsInvariant == Spec => []ResultsInv
<1>1. ResultsInv /\ [Next]_vars => ResultsInv'
  <2> SUFFICES ASSUME ResultsInv, [Next]_vars PROVE ResultsInv'
    OBVIOUS
  <2> QED
    BY TypeStep, HoldingStep, UnsentStep, RecordedStep, BoundedStep, JudgedStep, ReviewedStep,
       ReportedStep, AgreeingStep, SerialStep, ReportingStep DEF ResultsInv
<1> QED
  BY <1>1, ResultsInvInit, PTL DEF Spec

\* Every variable of Results keeps its type: no change is analyzed more often
\* than the agent was started.
THEOREM TypeCorrect == Spec => []TypeOK
<1>1. ResultsInv => TypeOK
  BY DEF ResultsInv
<1> QED
  BY <1>1, ResultsInvariant, PTL

\* Analyze, ResetInflight and enqueueReport: whatever was killed, restarted or
\* pruned, a report is of the last analysis of a change that is done.
THEOREM LastAnalysisReported == Spec => []ReportIsOfLastAnalysis
<1>1. ResultsInv => ReportIsOfLastAnalysis
  BY DEF ResultsInv, Reported, ReportIsOfLastAnalysis
<1> QED
  BY <1>1, ResultsInvariant, PTL

\* publish and BuildReport: the status of the commit and the report of its change
\* say the same of it.
THEOREM StatusIsReported == Spec => []StatusAgreesWithReport
<1>1. ResultsInv => StatusAgreesWithReport
  BY DEF ResultsInv, Agreeing, StatusAgreesWithReport
<1> QED
  BY <1>1, ResultsInvariant, PTL

\* Claim and Publish: without overlap, faults and kills the commit shows the
\* newest change that was analyzed.
THEOREM NewestIsShown == Spec => []SerialStatusIsCurrent
<1>1. ResultsInv => SerialStatusIsCurrent
  BY DEF ResultsInv, Serial, SerialStatusIsCurrent
<1> QED
  BY <1>1, ResultsInvariant, PTL

\* enqueueReport and PruneOlderThan: gc by days takes no record away before it is
\* reported.
THEOREM PruneSparesReports == Spec => []DoneIsReported
<1>1. ResultsInv => DoneIsReported
  BY DEF ResultsInv, Reporting, DoneIsReported
<1> QED
  BY <1>1, ResultsInvariant, PTL

=============================================================================
