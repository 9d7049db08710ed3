----------------------------- MODULE AgentProofs -----------------------------
(***************************************************************************)
(* The agent and its store for any number of changes, contents and         *)
(* workers, and any number of outages and failed statements.               *)
(***************************************************************************)
EXTENDS Agent, TLAPS

\* Type correctness of the agent: rows, threads and the process stay in the
\* states the code names.
THEOREM Typing == Spec => []TypeOK
<1>1. Init => TypeOK
  BY NoChangeAssumption DEF Init, StoreInit, TypeOK, StoreTypeOK, Never, InHandler
<1>2. TypeOK /\ [Next]_vars => TypeOK'
  <2> SUFFICES ASSUME TypeOK, [Next]_vars PROVE TypeOK'
    OBVIOUS
  <2> USE DEF TypeOK, StoreTypeOK, Statuses, Never, InHandler, Outcomes, Busy,
              tables, process, threads, workers
  <2>1. CASE Start
    BY <2>1 DEF Start, ResetInflight, Fault
  <2>2. CASE Cancel \/ StopDebouncer
    BY <2>2 DEF Cancel, StopDebouncer
  <2>3. CASE Exit \/ Crash
    BY <2>3 DEF Exit, Crash, ProcessEnds
  <2>4. CASE Pause
    BY <2>4, PauseTimesAssumption DEF Pause
  <2>5. CASE Resume \/ Tick
    BY <2>5 DEF Resume, Tick
  <2>6. ASSUME NEW c \in Changes, HandlerStep(c) PROVE TypeOK'
    <3>1. CASE BeginChange(c)
      BY <3>1 DEF BeginChange, Handling
    <3>2. CASE Build(c)
      BY <3>2 DEF Build, Handling
    <3>3. CASE CheckSeen(c)
      BY <3>3 DEF CheckSeen, Handling
    <3>4. CASE EnqueueChange(c)
      BY <3>4 DEF EnqueueChange, Handling, Enqueue
    <3>5. CASE CheckSeenFails(c) \/ EnqueueFails(c)
      BY <3>5 DEF CheckSeenFails, EnqueueFails, Fault
    <3> QED
      BY <2>6, <3>1, <3>2, <3>3, <3>4, <3>5 DEF HandlerStep
  <2>7. ASSUME NEW w \in Workers, WorkerStep(w) PROVE TypeOK'
    <3> USE DEF Goes
    <3>1. CASE Wake(w) \/ ClaimNone(w) \/ StartCall(w) \/ Answer(w)
      BY <3>1 DEF Wake, ClaimNone, StartCall, Answer
    <3>2. CASE ClaimNext(w)
      BY <3>2 DEF ClaimNext, Claim
    <3>3. CASE RefuseCall(w)
      BY <3>3 DEF RefuseCall
    <3>4. CASE CallFails(w)
      BY <3>4 DEF CallFails
    <3>5. CASE Complete(w)
      BY <3>5 DEF Complete, CompleteQueue, CompleteRecord
    <3>6. CASE Report(w)
      <4>1. CASE HubEnabled
        <5>1. outbox' = [outbox EXCEPT ![job[w]] = status[job[w]]]
          BY <3>6, <4>1 DEF Report, EnqueueOutbox
        <5>2. outbox' \in [Changes -> {"none"} \cup Statuses]
          BY <5>1
        <5> QED
          BY <3>6, <4>1, <5>2 DEF Report, EnqueueOutbox
      <4>2. CASE ~HubEnabled
        BY <3>6, <4>2 DEF Report
      <4> QED
        BY <4>1, <4>2
    <3>7. CASE Fail(w)
      BY <3>7 DEF Fail, FailQueue, FailRecord
    <3> QED
      BY <2>7, <3>1, <3>2, <3>3, <3>4, <3>5, <3>6, <3>7 DEF WorkerStep
  <2>8. ASSUME NEW w \in Workers, Leave(w) \/ StatementFails(w) PROVE TypeOK'
    BY <2>8 DEF Leave, Goes, StatementFails, Fault, AfterFault
  <2>9. CASE UNCHANGED vars
    BY <2>9 DEF vars
  <2> QED
    BY <2>1, <2>2, <2>3, <2>4, <2>5, <2>6, <2>7, <2>8, <2>9 DEF Next
<1> QED
  BY <1>1, <1>2, PTL DEF Spec

-----------------------------------------------------------------------------
(* Who holds a change, and what its row says then *)

\* The queue row of the job of a worker at each point of processEvent; after
\* "completed" the row is still there if the store failed to delete it.
RowAt ==
  [claimed |-> {"analyzing"}, calling |-> {"analyzing"},
   answered |-> {"analyzing"}, erred |-> {"analyzing"},
   deleted |-> {"none"}, completed |-> {"none", "analyzing"},
   marked |-> {"failed"}]

DownIsQuiet == phase = "down" => \A w \in Workers : pc[w] = "off"

JobsMatchRows ==
  \A w \in Workers : pc[w] \in Busy =>
    /\ job[w] \in Changes
    /\ handler[job[w]] = "queued"
    /\ queue[job[w]] \in RowAt[pc[w]]

RowsWereQueued ==
  \A c \in Changes :
    /\ queue[c] # "none" \/ status[c] # "none" => handler[c] = "queued"
    /\ status[c] = "done" => queue[c] = "none"

Ownership == DownIsQuiet /\ JobsMatchRows /\ OneOwner /\ RowsWereQueued

LEMMA OwnershipStep == TypeOK /\ Ownership /\ [Next]_vars => Ownership'
<1> SUFFICES ASSUME TypeOK, Ownership, [Next]_vars PROVE Ownership'
  OBVIOUS
<1> USE DEF Ownership, DownIsQuiet, JobsMatchRows, OneOwner, RowsWereQueued,
            TypeOK, StoreTypeOK, Busy, RowAt, InHandler, Outcomes, Statuses,
            tables, process, threads, workers
<1>1. CASE Start
  BY <1>1 DEF Start, ResetInflight, Fault
<1>2. CASE Cancel \/ StopDebouncer
  BY <1>2 DEF Cancel, StopDebouncer
<1>3. CASE Exit \/ Crash
  BY <1>3 DEF Exit, Crash, ProcessEnds
<1>4. CASE Pause \/ Resume \/ Tick
  BY <1>4 DEF Pause, Resume, Tick
<1>5. ASSUME NEW c \in Changes, HandlerStep(c) PROVE Ownership'
  <2>1. CASE BeginChange(c) \/ Build(c) \/ CheckSeen(c)
              \/ CheckSeenFails(c) \/ EnqueueFails(c)
    BY <2>1 DEF BeginChange, Build, CheckSeen, CheckSeenFails, EnqueueFails,
       Fault, Handling
  <2>2. CASE EnqueueChange(c)
    <3>1. queue[c] = "none" /\ status[c] = "none"
      BY <2>2 DEF EnqueueChange, Handling
    <3>2. \A w \in Workers : pc[w] \in Busy => job[w] # c
      BY <2>2 DEF EnqueueChange, Handling
    <3> QED
      BY <2>2, <3>1, <3>2 DEF EnqueueChange, Handling, Enqueue
  <2> QED
    BY <1>5, <2>1, <2>2 DEF HandlerStep
<1>6. ASSUME NEW w \in Workers, WorkerStep(w) PROVE Ownership'
  <2> USE DEF Goes
  <2>1. CASE Wake(w) \/ ClaimNone(w) \/ StartCall(w) \/ Answer(w)
    BY <2>1 DEF Wake, ClaimNone, StartCall, Answer
  <2>2. CASE ClaimNext(w)
    <3>1. PICK c \in Changes : Claim(c) /\ job' = [job EXCEPT ![w] = c]
      BY <2>2 DEF ClaimNext
    <3>2. queue[c] = "pending" /\ handler[c] = "queued"
      BY <3>1 DEF Claim, FirstPending
    <3>3. \A v \in Workers : pc[v] \in Busy => job[v] # c
      BY <3>2
    <3> QED
      BY <2>2, <3>1, <3>2, <3>3 DEF ClaimNext, Claim
  <2>3. CASE RefuseCall(w) \/ CallFails(w)
    BY <2>3 DEF RefuseCall, CallFails
  <2>4. CASE Complete(w)
    BY <2>4 DEF Complete, CompleteQueue, CompleteRecord
  <2>5. CASE Report(w)
    BY <2>5 DEF Report, EnqueueOutbox
  <2>6. CASE Fail(w)
    BY <2>6 DEF Fail, FailQueue, FailRecord
  <2> QED
    BY <1>6, <2>1, <2>2, <2>3, <2>4, <2>5, <2>6 DEF WorkerStep
<1>7. ASSUME NEW w \in Workers, Leave(w) \/ StatementFails(w) PROVE Ownership'
  BY <1>7 DEF Leave, Goes, StatementFails, Fault, AfterFault
<1>8. CASE UNCHANGED vars
  BY <1>8 DEF vars
<1> QED
  BY <1>1, <1>2, <1>3, <1>4, <1>5, <1>6, <1>7, <1>8 DEF Next

LEMMA OwnershipHolds == Spec => []Ownership
<1>1. Init => Ownership
  BY DEF Init, StoreInit, Ownership, DownIsQuiet, JobsMatchRows, OneOwner,
         RowsWereQueued, Busy
<1> QED
  BY <1>1, OwnershipStep, Typing, PTL DEF Spec

\* No change is ever in the hands of two workers, whatever is started, stopped,
\* killed or fails in between.
THEOREM OneOwnerHolds == Spec => []OneOwner
<1>1. Ownership => OneOwner
  BY DEF Ownership
<1> QED
  BY <1>1, OwnershipHolds, PTL

-----------------------------------------------------------------------------
(* Rows in analyzing *)

\* A worker that will settle the change.
Settler(w, c) ==
  job[w] = c /\ pc[w] \in {"claimed", "calling", "answered", "erred"}

LEMMA AbandonStep ==
  ASSUME TypeOK, Ownership, NoRowAbandoned, [Next]_vars
  PROVE  NoRowAbandoned'
<1> SUFFICES ASSUME phase' # "down", faults' = 0, NEW c \in Changes,
                    queue'[c] = "analyzing"
             PROVE  \E w \in Workers : Settler(w, c)'
  BY DEF NoRowAbandoned, Settler
<1> USE DEF TypeOK, StoreTypeOK, Settler, tables, process, threads, workers
<1>1. CASE Start
  BY <1>1 DEF Start, ResetInflight, Fault
<1>2. CASE Exit \/ Crash
  BY <1>2 DEF Exit, Crash, ProcessEnds
<1>3. ASSUME phase # "down", UNCHANGED <<pc, job>>, queue[c] = "analyzing"
      PROVE  \E w \in Workers : Settler(w, c)'
  <2>1. faults = 0
    BY DEF Next, vars, Start, Cancel, StopDebouncer, Exit, Crash, ProcessEnds,
           Pause, Resume, Tick, HandlerStep, BeginChange, Build, CheckSeen,
           CheckSeenFails, EnqueueChange, EnqueueFails, Fault, Handling,
           WorkerStep, Wake, ClaimNext,
           ClaimNone, StartCall, RefuseCall, Answer, CallFails, Complete,
           Report, Fail, Leave, StatementFails, Goes
  <2>2. PICK w \in Workers : Settler(w, c)
    BY <1>3, <2>1 DEF NoRowAbandoned
  <2> QED
    BY <1>3, <2>2
<1>4. CASE Cancel \/ StopDebouncer \/ Pause \/ Resume \/ Tick
  BY <1>3, <1>4 DEF Cancel, StopDebouncer, Pause, Resume, Tick, Serving
<1>5. ASSUME NEW d \in Changes, HandlerStep(d)
      PROVE  \E w \in Workers : Settler(w, c)'
  BY <1>3, <1>5 DEF HandlerStep, BeginChange, Build, CheckSeen,
     CheckSeenFails, EnqueueChange, EnqueueFails, Fault, Handling, Enqueue, Serving
<1>6. ASSUME NEW v \in Workers, WorkerStep(v)
      PROVE  \E w \in Workers : Settler(w, c)'
  <2> USE DEF Goes
  <2>1. CASE ClaimNext(v) /\ queue[c] # "analyzing"
    BY <2>1 DEF ClaimNext, Claim
  <2>2. CASE queue[c] = "analyzing"
    <3>1. phase # "down" /\ faults = 0
      BY <1>6 DEF WorkerStep, Wake, ClaimNext, ClaimNone, StartCall, RefuseCall,
         Answer, CallFails, Complete, Report, Fail, Ownership, DownIsQuiet
    <3>2. PICK w \in Workers : Settler(w, c)
      BY <2>2, <3>1 DEF NoRowAbandoned
    <3>3. CASE w # v
      BY <1>6, <3>2, <3>3 DEF WorkerStep, Wake, ClaimNext, ClaimNone, StartCall,
         RefuseCall, Answer, CallFails, Complete, Report, Fail
    <3>4. CASE w = v
      BY <1>6, <2>2, <3>2, <3>4 DEF WorkerStep, Wake, ClaimNext, ClaimNone,
         StartCall, RefuseCall, Answer, CallFails, Complete, CompleteQueue,
         CompleteRecord, Report, Fail, FailQueue, FailRecord
    <3> QED
      BY <3>3, <3>4
  <2>3. CASE queue[c] # "analyzing" /\ ~ClaimNext(v)
    BY <1>6, <2>3 DEF WorkerStep, Wake, ClaimNone, StartCall, RefuseCall, Answer,
       CallFails, Complete, CompleteQueue, CompleteRecord, Report,
       EnqueueOutbox, Fail, FailQueue, FailRecord
  <2> QED
    BY <2>1, <2>2, <2>3
<1>7. ASSUME NEW v \in Workers, Leave(v) \/ StatementFails(v)
      PROVE  \E w \in Workers : Settler(w, c)'
  <2>1. Leave(v) /\ faults = 0 /\ phase # "down" /\ queue[c] = "analyzing"
    BY <1>7 DEF Leave, Goes, StatementFails, Fault
  <2>2. PICK w \in Workers : Settler(w, c)
    BY <2>1 DEF NoRowAbandoned
  <2> QED
    BY <2>1, <2>2 DEF Leave, Goes
<1>8. CASE UNCHANGED vars
  BY <1>3, <1>8 DEF vars
<1> QED
  BY <1>1, <1>2, <1>4, <1>5, <1>6, <1>7, <1>8 DEF Next

\* While the agent is up every row in analyzing has the worker that settles it,
\* unless the store failed a statement: ResetInflight leaves none behind.
THEOREM NoRowAbandonedHolds == Spec => []NoRowAbandoned
<1>1. Init => NoRowAbandoned
  BY DEF Init, NoRowAbandoned
<1> QED
  BY <1>1, AbandonStep, OwnershipHolds, Typing, PTL DEF Spec

-----------------------------------------------------------------------------
(* Settled changes stay settled *)

LEMMA SettledStep ==
  ASSUME TypeOK, Ownership, Next, NEW c \in Changes
  PROVE  /\ status[c] = "done"  => status'[c] = "done"
         /\ queue[c] = "failed" => queue'[c] = "failed"
<1> USE DEF TypeOK, StoreTypeOK, Ownership, JobsMatchRows, RowsWereQueued, RowAt,
            Busy, tables
<1>1. CASE UNCHANGED <<queue, status>>
  BY <1>1
<1>2. CASE Start
  BY <1>2 DEF Start, ResetInflight, Fault
<1>3. ASSUME NEW d \in Changes, EnqueueChange(d)
      PROVE  /\ status[c] = "done"  => status'[c] = "done"
             /\ queue[c] = "failed" => queue'[c] = "failed"
  BY <1>3 DEF EnqueueChange, Handling, Enqueue
<1>4. ASSUME NEW w \in Workers, ClaimNext(w) \/ Complete(w) \/ Fail(w)
      PROVE  /\ status[c] = "done"  => status'[c] = "done"
             /\ queue[c] = "failed" => queue'[c] = "failed"
  <2>1. CASE ClaimNext(w)
    BY <2>1 DEF ClaimNext, Claim, FirstPending
  <2>2. CASE Complete(w)
    BY <2>2 DEF Complete, Goes, CompleteQueue, CompleteRecord
  <2>3. CASE Fail(w)
    BY <2>3 DEF Fail, Goes, FailQueue, FailRecord
  <2> QED
    BY <1>4, <2>1, <2>2, <2>3
<1> QED
  BY <1>1, <1>2, <1>3, <1>4 DEF Next, Cancel, StopDebouncer, Exit, Crash,
     ProcessEnds, Pause, Resume, Tick, HandlerStep, BeginChange, Build,
     CheckSeen, CheckSeenFails, EnqueueFails, WorkerStep, Wake, ClaimNone,
     StartCall,
     RefuseCall, Answer, CallFails, Report, EnqueueOutbox, Leave,
     StatementFails

\* A done change is never analyzed again and a failed row is never revived,
\* across any number of restarts.
THEOREM SettledForGoodHolds == Spec => SettledForGood
<1>1. TypeOK /\ Ownership /\ [Next]_vars
        => [\A c \in Changes :
              /\ status[c] = "done"  => status'[c] = "done"
              /\ queue[c] = "failed" => queue'[c] = "failed"]_vars
  BY SettledStep
<1> QED
  BY <1>1, OwnershipHolds, Typing, PTL DEF Spec, SettledForGood

-----------------------------------------------------------------------------
(* Skipped changes *)

\* Some queued change has content h.
Queued(h) == \E d \in Changes : hash[d] = h /\ status[d] # "none"

Coverage ==
  /\ \A h \in Hashes : seenAt[h] # Never => Queued(h)
  /\ \A c \in Changes :
       /\ handler[c] \in {"built", "cleared"} => hash[c] \in Hashes
       /\ handler[c] = "duplicate" => Queued(hash[c])

LEMMA QueuedStays ==
  ASSUME TypeOK, Ownership, [Next]_vars, NEW h, Queued(h)
  PROVE  Queued(h)'
<1>1. PICK d \in Changes : hash[d] = h /\ status[d] # "none"
  BY DEF Queued
<1>2. handler[d] = "queued"
  BY <1>1 DEF Ownership, RowsWereQueued
<1>3. hash'[d] = hash[d]
  <2>1. ASSUME NEW c \in Changes, Build(c) PROVE hash'[d] = hash[d]
    BY <1>2, <2>1 DEF Build, Handling, TypeOK
  <2>2. CASE hash' = hash
    BY <2>2
  <2> QED
    BY <2>1, <2>2 DEF Next, vars, threads, Start, Cancel, StopDebouncer, Exit,
       Crash, ProcessEnds, Pause, Resume, Tick, HandlerStep, BeginChange,
       CheckSeen, CheckSeenFails, EnqueueChange, EnqueueFails, WorkerStep, Wake,
       ClaimNext,
       ClaimNone, StartCall, RefuseCall, Answer, CallFails, Complete, Report,
       Fail, Leave, StatementFails, Goes
<1>4. status'[d] # "none"
  BY <1>1 DEF TypeOK, StoreTypeOK, Next, vars, tables, Start, ResetInflight,
     Cancel, StopDebouncer, Exit, Crash, ProcessEnds, Pause, Resume, Tick,
     HandlerStep, BeginChange, Build, CheckSeen, CheckSeenFails, EnqueueChange,
     Enqueue, EnqueueFails, Handling, WorkerStep, Wake, ClaimNext, Claim, ClaimNone,
     StartCall, RefuseCall, Answer, CallFails, Complete, CompleteQueue,
     CompleteRecord, Report, EnqueueOutbox, Fail, FailQueue, FailRecord, Leave,
     StatementFails, Goes
<1> QED
  BY <1>1, <1>3, <1>4 DEF Queued

LEMMA CoverageStep ==
  ASSUME TypeOK, Ownership, Coverage, [Next]_vars
  PROVE  Coverage'
<1>1. ASSUME NEW h, Queued(h) PROVE Queued(h)'
  BY <1>1, QueuedStays
<1> HIDE DEF Queued
<1> USE DEF Coverage, TypeOK, StoreTypeOK, threads, tables
<1>2. ASSUME UNCHANGED <<handler, hash, seenAt>> PROVE Coverage'
  BY <1>1, <1>2
<1>3. CASE Exit \/ Crash
  BY <1>1, <1>3 DEF Exit, Crash, ProcessEnds, InHandler
<1>4. ASSUME NEW c \in Changes, BeginChange(c) PROVE Coverage'
  BY <1>1, <1>4 DEF BeginChange, Handling
<1>5. ASSUME NEW c \in Changes, Build(c) PROVE Coverage'
  BY <1>1, <1>5 DEF Build, Handling
<1>6. ASSUME NEW c \in Changes, CheckSeen(c) PROVE Coverage'
  BY <1>1, <1>6 DEF CheckSeen, Handling, SeenRecently
<1>7. ASSUME NEW c \in Changes, EnqueueChange(c) PROVE Coverage'
  <2>1. Queued(hash[c])'
    BY <1>7 DEF Queued, EnqueueChange, Handling, Enqueue
  <2> QED
    BY <1>1, <1>7, <2>1 DEF EnqueueChange, Handling, Enqueue
<1>8. ASSUME NEW c \in Changes, CheckSeenFails(c) \/ EnqueueFails(c)
      PROVE  Coverage'
  BY <1>1, <1>8 DEF CheckSeenFails, EnqueueFails, Fault
<1> QED
  BY <1>2, <1>3, <1>4, <1>5, <1>6, <1>7, <1>8 DEF Next, vars, Start,
     ResetInflight, Cancel, StopDebouncer, Pause, Resume, Tick, HandlerStep,
     WorkerStep, Wake, ClaimNext, Claim, ClaimNone, StartCall, RefuseCall,
     Answer, CallFails, Complete, CompleteQueue, CompleteRecord, Report,
     EnqueueOutbox, Fail, FailQueue, FailRecord, Leave, StatementFails, Goes

\* Every change skipped as already seen repeats the content of one that was
\* queued: dedup rows are only ever written together with the queue row.
THEOREM SkippedIsCoveredHolds == Spec => []SkippedIsCovered
<1>1. Init => Coverage
  BY DEF Init, StoreInit, Coverage
<1>2. Coverage => SkippedIsCovered
  BY DEF Coverage, SkippedIsCovered, Queued
<1> QED
  BY <1>1, <1>2, CoverageStep, OwnershipHolds, Typing, PTL DEF Spec

-----------------------------------------------------------------------------
(* Reports *)

Reporting ==
  /\ ReportOfFinished
  /\ \A w \in Workers : pc[w] = "completed" /\ faults = 0 => status[job[w]] = "done"

LEMMA ReportingStep ==
  ASSUME TypeOK, Ownership, Reporting, [Next]_vars
  PROVE  Reporting'
<1> USE DEF Reporting, ReportOfFinished, TypeOK, StoreTypeOK, Ownership, OneOwner,
            JobsMatchRows, RowsWereQueued, RowAt, Busy, tables, workers, process
<1>1. ASSUME UNCHANGED <<outbox, status, job>>, faults' = 0 => faults = 0,
             \A w \in Workers : pc'[w] = "completed" => pc[w] = "completed"
      PROVE  Reporting'
  BY <1>1
<1>2. CASE Start \/ Exit \/ Crash
  BY <1>1, <1>2 DEF Start, ResetInflight, Fault, Exit, Crash, ProcessEnds
<1>3. CASE Cancel \/ StopDebouncer \/ Pause \/ Resume \/ Tick
  BY <1>1, <1>3 DEF Cancel, StopDebouncer, Pause, Resume, Tick
<1>4. ASSUME NEW c \in Changes, BeginChange(c) \/ Build(c) \/ CheckSeen(c)
      PROVE  Reporting'
  BY <1>1, <1>4 DEF BeginChange, Build, CheckSeen, Handling
<1>5. ASSUME NEW c \in Changes, EnqueueChange(c) PROVE Reporting'
  <2>1. \A w \in Workers : pc[w] = "completed" => job[w] # c
    BY <1>5 DEF EnqueueChange, Handling
  <2>2. status[c] # "done"
    BY <1>5 DEF EnqueueChange, Handling
  <2> QED
    BY <1>5, <2>1, <2>2 DEF EnqueueChange, Handling, Enqueue
<1>6. ASSUME NEW c \in Changes, CheckSeenFails(c) \/ EnqueueFails(c)
      PROVE  Reporting'
  BY <1>1, <1>6 DEF CheckSeenFails, EnqueueFails, Fault
<1>7. ASSUME NEW w \in Workers, WorkerStep(w) PROVE Reporting'
  <2> USE DEF Goes
  <2>1. CASE Wake(w) \/ ClaimNone(w) \/ StartCall(w) \/ RefuseCall(w)
               \/ Answer(w) \/ CallFails(w)
    BY <1>1, <2>1 DEF Wake, ClaimNone, StartCall, RefuseCall, Answer, CallFails
  <2>2. CASE ClaimNext(w)
    <3>1. PICK c \in Changes : Claim(c) /\ job' = [job EXCEPT ![w] = c]
      BY <2>2 DEF ClaimNext
    <3>2. status[c] # "done" /\ queue[c] = "pending"
      BY <3>1 DEF Claim, FirstPending
    <3>3. \A v \in Workers : pc[v] = "completed" => job[v] # c
      BY <3>2
    <3> QED
      BY <2>2, <3>1, <3>2, <3>3 DEF ClaimNext, Claim
  <2>3. CASE Complete(w)
    BY <2>3 DEF Complete, CompleteQueue, CompleteRecord
  <2>4. CASE Report(w)
    BY <2>4 DEF Report, EnqueueOutbox
  <2>5. CASE Fail(w)
    BY <2>5 DEF Fail, FailQueue, FailRecord
  <2> QED
    BY <1>7, <2>1, <2>2, <2>3, <2>4, <2>5 DEF WorkerStep
<1>8. ASSUME NEW w \in Workers, Leave(w) \/ StatementFails(w) PROVE Reporting'
  BY <1>1, <1>8 DEF Leave, Goes, StatementFails, Fault
<1>9. CASE UNCHANGED vars
  BY <1>1, <1>9 DEF vars
<1> QED
  BY <1>2, <1>3, <1>4, <1>5, <1>6, <1>7, <1>8, <1>9 DEF Next, HandlerStep

\* As long as the store has failed no statement, only finished changes are
\* reported, and as finished.
THEOREM ReportOfFinishedHolds == Spec => []ReportOfFinished
<1>1. Init => Reporting
  BY DEF Init, StoreInit, Reporting, ReportOfFinished
<1>2. Reporting => ReportOfFinished
  BY DEF Reporting
<1> QED
  BY <1>1, <1>2, ReportingStep, OwnershipHolds, Typing, PTL DEF Spec

-----------------------------------------------------------------------------
(* The two tables *)

\* A worker between the two statements of Complete or Fail for the change.
Between(w, c) == job[w] = c /\ pc[w] \in {"deleted", "marked"}

Agrees(c) ==
  \/ queue[c] = status[c]
  \/ queue[c] = "none" /\ status[c] = "done"
  \/ \E w \in Workers : Between(w, c)

\* Before the first outage the agent has been down only before its first start.
FirstRun ==
  outages = 0 => /\ phase \in {"down", "running"}
                 /\ phase = "down" => \A c \in Changes : queue[c] = "none"

LEMMA FirstRunStep ==
  ASSUME TypeOK, Ownership, FirstRun, [Next]_vars
  PROVE  FirstRun'
<1> USE DEF FirstRun, TypeOK, process, tables, vars
<1>1. CASE Start \/ Cancel \/ StopDebouncer \/ Exit \/ Crash
  BY <1>1 DEF Start, Cancel, StopDebouncer, Exit, Crash, ProcessEnds
<1>2. CASE Pause \/ Resume \/ Tick
  BY <1>2 DEF Pause, Resume, Tick
<1>3. ASSUME NEW c \in Changes, HandlerStep(c) PROVE FirstRun'
  BY <1>3 DEF HandlerStep, BeginChange, Build, CheckSeen, CheckSeenFails,
     EnqueueChange, EnqueueFails, Handling
<1>4. ASSUME NEW w \in Workers, WorkerStep(w) \/ Leave(w) PROVE FirstRun'
  <2>1. phase # "down"
    BY <1>4 DEF Ownership, DownIsQuiet, WorkerStep, Wake, ClaimNext, ClaimNone,
       StartCall, RefuseCall, Answer, CallFails, Complete, Report, Fail, Leave,
       Goes
  <2> QED
    BY <1>4, <2>1 DEF WorkerStep, Wake, ClaimNext, ClaimNone, StartCall,
       RefuseCall, Answer, CallFails, Complete, Report, Fail, Leave, Goes
<1>5. ASSUME NEW w \in Workers, StatementFails(w) PROVE FirstRun'
  BY <1>5 DEF StatementFails
<1>6. CASE UNCHANGED vars
  BY <1>6
<1> QED
  BY <1>1, <1>2, <1>3, <1>4, <1>5, <1>6 DEF Next

LEMMA AgreementStep ==
  ASSUME TypeOK, Ownership, FirstRun, RecordsFollowQueue, [Next]_vars
  PROVE  RecordsFollowQueue'
<1> SUFFICES ASSUME outages' = 0, faults' = 0, NEW c \in Changes
             PROVE  Agrees(c)'
  BY DEF RecordsFollowQueue, Agrees, Between
<1> USE DEF TypeOK, StoreTypeOK, tables, process, threads, workers
<1>1. outages = 0 /\ faults = 0
  BY DEF Next, vars, Start, Fault, Cancel, StopDebouncer, Exit, Crash, ProcessEnds,
     Pause, Resume, Tick, HandlerStep, BeginChange, Build, CheckSeen,
     CheckSeenFails, EnqueueChange, EnqueueFails, Handling, WorkerStep, Wake,
     ClaimNext, ClaimNone, StartCall, RefuseCall, Answer, CallFails, Complete,
     Report, Fail, Leave, StatementFails, Goes
<1>2. Agrees(c)
  BY <1>1 DEF RecordsFollowQueue, Agrees, Between
<1>3. ASSUME UNCHANGED <<queue, status>>,
             \A w \in Workers : Between(w, c) => Between(w, c)'
      PROVE  Agrees(c)'
  BY <1>2, <1>3 DEF Agrees
<1>4. CASE Start
  <2>1. queue[c] = "none"
    BY <1>1, <1>4 DEF Start, FirstRun
  <2>2. queue'[c] = "none" /\ status'[c] = status[c]
    BY <2>1, <1>4 DEF Start, ResetInflight
  <2>3. ~\E w \in Workers : Between(w, c)
    BY <1>4 DEF Start, Ownership, DownIsQuiet, Between
  <2> QED
    BY <1>2, <2>1, <2>2, <2>3 DEF Agrees
<1>5. CASE Cancel \/ StopDebouncer \/ Exit \/ Crash
  BY <1>1, <1>5 DEF Cancel, StopDebouncer, Exit, Crash, FirstRun
<1>6. CASE Pause \/ Resume \/ Tick
  BY <1>3, <1>6 DEF Pause, Resume, Tick, Between
<1>7. ASSUME NEW d \in Changes, HandlerStep(d) PROVE Agrees(c)'
  <2>1. CASE EnqueueChange(d)
    BY <1>2, <2>1 DEF EnqueueChange, Handling, Enqueue, Agrees, Between
  <2>2. CASE ~EnqueueChange(d)
    BY <1>3, <1>7, <2>2 DEF HandlerStep, BeginChange, Build, CheckSeen,
       CheckSeenFails, EnqueueFails, Handling, Between
  <2> QED
    BY <2>1, <2>2
<1>8. ASSUME NEW w \in Workers, WorkerStep(w) PROVE Agrees(c)'
  <2> USE DEF Goes
  <2>1. CASE Wake(w) \/ ClaimNone(w) \/ StartCall(w) \/ RefuseCall(w)
               \/ Answer(w) \/ CallFails(w)
    BY <1>3, <2>1 DEF Wake, ClaimNone, StartCall, RefuseCall, Answer, CallFails,
       Between
  <2>2. CASE ClaimNext(w)
    BY <1>2, <2>2 DEF ClaimNext, Claim, Agrees, Between
  <2>3. CASE Report(w)
    BY <1>3, <2>3 DEF Report, EnqueueOutbox, Between
  <2>4. CASE Complete(w)
    BY <1>2, <2>4 DEF Complete, CompleteQueue, CompleteRecord, Agrees, Between,
       Ownership, JobsMatchRows, RowAt, Busy
  <2>5. CASE Fail(w)
    BY <1>2, <2>5 DEF Fail, FailQueue, FailRecord, Agrees, Between,
       Ownership, JobsMatchRows, RowAt, Busy
  <2> QED
    BY <1>8, <2>1, <2>2, <2>3, <2>4, <2>5 DEF WorkerStep
<1>9. ASSUME NEW w \in Workers, Leave(w) \/ StatementFails(w) PROVE Agrees(c)'
  BY <1>1, <1>3, <1>9 DEF Leave, Goes, StatementFails, Fault, Between
<1>10. CASE UNCHANGED vars
  BY <1>3, <1>10 DEF vars, Between
<1> QED
  BY <1>4, <1>5, <1>6, <1>7, <1>8, <1>9, <1>10 DEF Next

\* Without an outage or a failed statement the record of a change says what its
\* queue row says, but for the worker between the two statements that settle it.
THEOREM RecordsFollowQueueHolds == Spec => []RecordsFollowQueue
<1>1. Init => FirstRun /\ RecordsFollowQueue
  BY DEF Init, StoreInit, FirstRun, RecordsFollowQueue
<1> QED
  BY <1>1, FirstRunStep, AgreementStep, OwnershipHolds, Typing, PTL DEF Spec

-----------------------------------------------------------------------------
(* The order of claims *)

\* What the texts of two times say of the times: the order of two seconds, and
\* within one second nothing.
LEMMA TextOrder ==
  ASSUME NEW s \in Nat, NEW t \in Nat, ~TextBefore(t, s)
  PROVE  s <= t \/ s \div PerSecond = t \div PerSecond
<1>1. PerSecond \in {1, 2, 3, 4, 5, 6, 7, 8, 9, 10}
  BY PerSecondAssumption
<1>2. SUFFICES ASSUME t < s PROVE s \div PerSecond = t \div PerSecond
  OBVIOUS
<1>3. TextKey(s) <= TextKey(t)
  BY <1>1 DEF TextBefore, TextKey
<1>4. ASSUME NEW n \in {1, 2, 3, 4, 5}, PerSecond = n
      PROVE  s \div PerSecond = t \div PerSecond
  BY <1>2, <1>3, <1>4 DEF TextKey
<1>5. ASSUME NEW n \in {6, 7, 8, 9, 10}, PerSecond = n
      PROVE  s \div PerSecond = t \div PerSecond
  BY <1>2, <1>3, <1>5 DEF TextKey
<1> QED
  BY <1>1, <1>4, <1>5

\* Only Claim makes a row analyzing, and the row it takes is the first of the
\* pending ones.
LEMMA OnlyFirstIsClaimed ==
  ASSUME TypeOK, [Next]_vars, NEW c \in Changes,
         queue[c] = "pending", queue'[c] = "analyzing"
  PROVE  FirstPending(c)
<1> USE DEF TypeOK, StoreTypeOK
<1>1. CASE UNCHANGED queue
  BY <1>1
<1>2. CASE Start
  BY <1>2 DEF Start, ResetInflight, Fault, tables
<1>3. ASSUME NEW d \in Changes, EnqueueChange(d) PROVE FALSE
  BY <1>3 DEF EnqueueChange, Handling, Enqueue
<1>4. ASSUME NEW w \in Workers, ClaimNext(w) PROVE FirstPending(c)
  <2>1. PICK d \in Changes : Claim(d)
    BY <1>4 DEF ClaimNext
  <2>2. d = c
    BY <2>1 DEF Claim
  <2> QED
    BY <2>1, <2>2 DEF Claim
<1>5. ASSUME NEW w \in Workers, Complete(w) \/ Fail(w) PROVE FALSE
  <2>1. CASE Complete(w)
    BY <2>1 DEF Complete, Goes, CompleteQueue, CompleteRecord
  <2>2. CASE Fail(w)
    BY <2>2 DEF Fail, Goes, FailQueue, FailRecord
  <2> QED
    BY <1>5, <2>1, <2>2
<1> QED
  BY <1>1, <1>2, <1>3, <1>4, <1>5 DEF Next, vars, tables, Cancel, StopDebouncer,
     Exit, Crash, ProcessEnds, Pause, Resume, Tick, HandlerStep, BeginChange,
     Build, CheckSeen, CheckSeenFails, EnqueueFails, Handling, WorkerStep, Wake,
     ClaimNone, StartCall, RefuseCall, Answer, CallFails, Report, EnqueueOutbox,
     Leave, StatementFails

\* Claim: a younger row is taken before an older one only within one second,
\* for any resolution of the clock of at most ten ticks in a second.
THEOREM OldestFirstHolds == Spec => OldestFirst
<1>1. TypeOK /\ [Next]_vars
        => [\A c, d \in Changes :
              /\ queue[c] = "pending" /\ queue'[c] = "analyzing"
              /\ queue[d] = "pending"
              => \/ enqueuedAt[c] <= enqueuedAt[d]
                 \/ enqueuedAt[c] \div PerSecond = enqueuedAt[d] \div PerSecond]_vars
  <2> SUFFICES ASSUME TypeOK, [Next]_vars, NEW c \in Changes, NEW d \in Changes,
                      queue[c] = "pending", queue'[c] = "analyzing", queue[d] = "pending"
               PROVE  \/ enqueuedAt[c] <= enqueuedAt[d]
                      \/ enqueuedAt[c] \div PerSecond = enqueuedAt[d] \div PerSecond
    OBVIOUS
  <2>1. ~TextBefore(enqueuedAt[d], enqueuedAt[c])
    BY OnlyFirstIsClaimed DEF FirstPending
  <2>2. enqueuedAt[c] \in Nat /\ enqueuedAt[d] \in Nat
    BY DEF TypeOK, StoreTypeOK
  <2> QED
    BY <2>1, <2>2, TextOrder
<1> QED
  BY <1>1, Typing, PTL DEF Spec, OldestFirst
=============================================================================
