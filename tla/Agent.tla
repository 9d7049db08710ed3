-------------------------------- MODULE Agent --------------------------------
(***************************************************************************)
(* internal/agent over internal/store: debounced callbacks enqueue         *)
(* changes, workers claim, analyze and settle them, and the process is     *)
(* started, paused, stopped by a signal, or killed at any point.           *)
(***************************************************************************)
EXTENDS Store

CONSTANTS Workers,     \* agent.ai_workers goroutines
          NoChange,    \* a worker's job before its first claim
          NoHash,      \* the hash of a change that was never built
          HubEnabled,  \* hub.url is set
          PauseTimes,  \* durations a pause may ask for, in ticks
          MaxNow,      \* bound on the clock
          MaxOutages,  \* bound on signals and kills
          MaxFaults    \* bound on statements the store fails

ASSUME NoChangeAssumption   == NoChange \notin Changes
ASSUME NoHashAssumption     == NoHash \notin Hashes
ASSUME HubEnabledAssumption == HubEnabled \in BOOLEAN
ASSUME PauseTimesAssumption == PauseTimes \subseteq Nat

VARIABLES phase,       \* of Run: down, running, cancelled (the context is), or
                       \* draining (the debouncer is stopped, wg.Wait)
          pausedUntil,
          handler,     \* progress of handleChange for the change, or its outcome
          hash,        \* ContentHash of the change
          pc,          \* progress of each worker
          job,         \* the event the worker claimed last
          err,         \* error Analyze returned to the worker
          outages,     \* signals and kills so far
          faults       \* failed statements so far

process == <<phase, pausedUntil, outages>>
threads == <<handler, hash>>
workers == <<pc, job, err>>
vars    == <<now, tables, process, threads, workers, faults>>

InHandler == {"building", "built", "cleared"}
Outcomes  == {"queued", "paused", "clean", "duplicate", "dropped", "lost"}

\* A worker between Claim and the end of processEvent.
Busy == {"claimed", "calling", "answered", "deleted", "completed",
         "erred", "marked"}

TypeOK ==
  /\ StoreTypeOK
  /\ phase       \in {"down", "running", "cancelled", "draining"}
  /\ pausedUntil \in Nat
  /\ handler     \in [Changes -> {"idle"} \cup InHandler \cup Outcomes]
  /\ hash        \in [Changes -> Hashes \cup {NoHash}]
  /\ pc          \in [Workers -> {"off", "select", "claim", "exited"} \cup Busy]
  /\ job         \in [Workers -> Changes \cup {NoChange}]
  /\ err         \in [Workers -> {"none", "provider", "cancelled"}]
  /\ outages     \in Nat
  /\ faults      \in Nat

Init ==
  /\ StoreInit
  /\ phase       = "down"
  /\ pausedUntil = 0
  /\ handler     = [c \in Changes |-> "idle"]
  /\ hash        = [c \in Changes |-> NoHash]
  /\ pc          = [w \in Workers |-> "off"]
  /\ job         = [w \in Workers |-> NoChange]
  /\ err         = [w \in Workers |-> "none"]
  /\ outages     = 0
  /\ faults      = 0

-----------------------------------------------------------------------------
(* Run: start, stop and crash *)

\* A statement of the store fails.
Fault == faults < MaxFaults /\ faults' = faults + 1

\* An error of ResetInflight is dropped: the agent runs all the same.
Start ==
  /\ phase = "down"
  /\ \/ ResetInflight /\ UNCHANGED faults
     \/ Fault /\ UNCHANGED <<now, tables>>
  /\ phase' = "running"
  /\ pausedUntil' = 0
  /\ pc' = [w \in Workers |-> "select"]
  /\ UNCHANGED <<threads, job, err, outages>>

Cancel ==
  /\ phase = "running"
  /\ outages < MaxOutages
  /\ outages' = outages + 1
  /\ phase' = "cancelled"
  /\ UNCHANGED <<now, tables, pausedUntil, threads, workers, faults>>

\* watcher.Close and deb.Stop; callbacks past the debouncer's lock go on.
StopDebouncer ==
  /\ phase = "cancelled"
  /\ phase' = "draining"
  /\ UNCHANGED <<now, tables, pausedUntil, outages, threads, workers, faults>>

\* What the end of the process does to everything that is not a row.
ProcessEnds ==
  /\ phase' = "down"
  /\ pc' = [w \in Workers |-> "off"]
  /\ handler' = [c \in Changes |->
                   IF handler[c] \in InHandler THEN "lost" ELSE handler[c]]
  /\ UNCHANGED <<now, tables, pausedUntil, hash, job, err, faults>>

\* wg.Wait covers the workers, not the callbacks of the debouncer.
Exit ==
  /\ phase = "draining"
  /\ \A w \in Workers : pc[w] = "exited"
  /\ ProcessEnds
  /\ UNCHANGED outages

Crash ==
  /\ phase # "down"
  /\ outages < MaxOutages
  /\ outages' = outages + 1
  /\ ProcessEnds

Serving == phase \in {"running", "cancelled"}

Pause ==
  /\ Serving
  /\ \E d \in PauseTimes : pausedUntil' = now + d
  /\ UNCHANGED <<now, tables, phase, outages, threads, workers, faults>>

Resume ==
  /\ Serving
  /\ pausedUntil' = 0
  /\ UNCHANGED <<now, tables, phase, outages, threads, workers, faults>>

IsPaused == now < pausedUntil

Tick ==
  /\ now < MaxNow
  /\ now' = now + 1
  /\ UNCHANGED <<tables, process, threads, workers, faults>>

-----------------------------------------------------------------------------
(* handleChange, one goroutine per call of the debouncer *)

Handling(c, from, to) ==
  /\ phase # "down"
  /\ handler[c] = from
  /\ handler' = [handler EXCEPT ![c] = to]
  /\ UNCHANGED <<process, workers, faults>>

\* A callback past the debouncer's lock may begin after Stop.
BeginChange(c) ==
  /\ Handling(c, "idle", IF IsPaused THEN "paused" ELSE "building")
  /\ UNCHANGED <<now, tables, hash>>

Build(c) ==
  \/ /\ Handling(c, "building", "built")
     /\ \E h \in Hashes : hash' = [hash EXCEPT ![c] = h]
     /\ UNCHANGED <<now, tables>>
  \/ /\ Handling(c, "building", "clean")
     /\ UNCHANGED <<now, tables, hash>>

CheckSeen(c) ==
  /\ Handling(c, "built",
              IF SeenRecently(hash[c]) THEN "duplicate" ELSE "cleared")
  /\ UNCHANGED <<now, tables, hash>>

\* An error counts as not seen.
CheckSeenFails(c) ==
  /\ Fault
  /\ phase # "down"
  /\ handler[c] = "built"
  /\ handler' = [handler EXCEPT ![c] = "cleared"]
  /\ UNCHANGED <<now, tables, process, hash, workers>>

EnqueueChange(c) ==
  /\ Handling(c, "cleared", "queued")
  /\ Enqueue(c, hash[c])
  /\ UNCHANGED hash

\* Faulty variant: no transaction, and only the dedup row is written.
EnqueueHalf(c) ==
  /\ Fault
  /\ phase # "down"
  /\ handler[c] = "cleared"
  /\ handler' = [handler EXCEPT ![c] = "dropped"]
  /\ seenAt' = [seenAt EXCEPT ![hash[c]] = now]
  /\ UNCHANGED <<now, queue, enqueuedAt, status, failure, outbox,
                 process, hash, workers>>

EnqueueFails(c) ==
  /\ Fault
  /\ phase # "down"
  /\ handler[c] = "cleared"
  /\ handler' = [handler EXCEPT ![c] = "dropped"]
  /\ UNCHANGED <<now, tables, process, hash, workers>>

-----------------------------------------------------------------------------
(* worker and processEvent *)

Goes(w, from, to) ==
  /\ pc[w] = from
  /\ pc' = [pc EXCEPT ![w] = to]
  /\ UNCHANGED <<process, threads, faults>>

\* The wake channel or the poll timer: select may prefer either to ctx.Done.
Wake(w) == Goes(w, "select", "claim") /\ UNCHANGED <<now, tables, job, err>>

Leave(w) ==
  /\ phase # "running"
  /\ Goes(w, "select", "exited")
  /\ UNCHANGED <<now, tables, job, err>>

\* The inner loop never looks at the context.
ClaimNext(w) ==
  /\ Goes(w, "claim", "claimed")
  /\ \E c \in Changes : Claim(c) /\ job' = [job EXCEPT ![w] = c]
  /\ UNCHANGED err

ClaimNone(w) ==
  /\ \A c \in Changes : queue[c] # "pending"
  /\ Goes(w, "claim", "select")
  /\ UNCHANGED <<now, tables, job, err>>

\* publishShadow is over; a call under a cancelled context fails at once.
StartCall(w) ==
  /\ phase = "running"
  /\ Goes(w, "claimed", "calling")
  /\ UNCHANGED <<now, tables, job, err>>

\* Faulty variant: work refused during a shutdown is put back in the queue,
\* where the inner loop finds it again.
Requeue(w) ==
  /\ phase # "running"
  /\ Goes(w, "claimed", "claim")
  /\ queue' = [queue EXCEPT ![job[w]] = "pending"]
  /\ UNCHANGED <<now, enqueuedAt, status, failure, seenAt, outbox, job, err>>

RefuseCall(w) ==
  /\ phase # "running"
  /\ Goes(w, "claimed", "erred")
  /\ \E e \in {"provider", "cancelled"} : err' = [err EXCEPT ![w] = e]
  /\ UNCHANGED <<now, tables, job>>

\* Analyze returns: a result, an error of the providers or of parsing what they
\* said, or the cancellation of the context.
Answer(w) == Goes(w, "calling", "answered") /\ UNCHANGED <<now, tables, job, err>>

CallFails(w) ==
  /\ Goes(w, "calling", "erred")
  /\ \E e \in {"provider"} \cup (IF phase = "running" THEN {} ELSE {"cancelled"}) :
       err' = [err EXCEPT ![w] = e]
  /\ UNCHANGED <<now, tables, job>>

Complete(w) ==
  /\ \/ Goes(w, "answered", "deleted")  /\ CompleteQueue(job[w])
     \/ Goes(w, "deleted", "completed") /\ CompleteRecord(job[w])
  /\ UNCHANGED <<job, err>>

Report(w) ==
  /\ Goes(w, "completed", "claim")
  /\ IF HubEnabled THEN EnqueueOutbox(job[w]) ELSE UNCHANGED <<now, tables>>
  /\ UNCHANGED <<job, err>>

\* Faulty variant: failed changes are reported as finished ones are.
FailReported(w) ==
  /\ \/ Goes(w, "erred", "marked") /\ FailQueue(job[w])
     \/ Goes(w, "marked", "completed") /\ FailRecord(job[w], err[w])
  /\ UNCHANGED <<job, err>>

Fail(w) ==
  /\ \/ Goes(w, "erred", "marked") /\ FailQueue(job[w])
     \/ Goes(w, "marked", "claim") /\ FailRecord(job[w], err[w])
  /\ UNCHANGED <<job, err>>

\* Where a worker goes on when the statement it is at fails: errors of
\* Complete and Fail are dropped, and the report is made all the same.
AfterFault ==
  [claim |-> "select", answered |-> "completed", deleted |-> "completed",
   completed |-> "claim", erred |-> "claim", marked |-> "claim"]

StatementFails(w) ==
  /\ Fault
  /\ pc[w] \in DOMAIN AfterFault
  /\ pc' = [pc EXCEPT ![w] = AfterFault[@]]
  /\ UNCHANGED <<now, tables, process, threads, job, err>>

-----------------------------------------------------------------------------

HandlerStep(c) ==
  \/ BeginChange(c) \/ Build(c) \/ CheckSeen(c) \/ CheckSeenFails(c)
  \/ EnqueueChange(c) \/ EnqueueFails(c)

WorkerStep(w) ==
  \/ Wake(w) \/ ClaimNext(w) \/ ClaimNone(w)
  \/ StartCall(w) \/ RefuseCall(w) \/ Answer(w) \/ CallFails(w)
  \/ Complete(w) \/ Report(w) \/ Fail(w)

Next ==
  \/ Start \/ Cancel \/ StopDebouncer \/ Exit \/ Crash
  \/ Pause \/ Resume \/ Tick
  \/ \E c \in Changes : HandlerStep(c)
  \/ \E w \in Workers : WorkerStep(w) \/ Leave(w) \/ StatementFails(w)

Spec == Init /\ [][Next]_vars

\* Goroutines run and calls return (every HTTP client has a timeout); the agent
\* is started again after an outage; a select with a closed ctx.Done takes it
\* once the wake tokens, at most 64, are used up.
Fairness ==
  /\ WF_vars(Start) /\ WF_vars(StopDebouncer) /\ WF_vars(Exit)
  /\ \A w \in Workers : WF_vars(WorkerStep(w)) /\ SF_vars(Leave(w))

FairSpec == Spec /\ Fairness

-----------------------------------------------------------------------------
(* Properties *)

\* Claim against Claim, ResetInflight against a worker still running: no change
\* is in the hands of two workers.
OneOwner ==
  \A v, w \in Workers :
    v # w /\ pc[v] \in Busy /\ pc[w] \in Busy => job[v] # job[w]

\* ResetInflight, Complete, Fail: while the agent is up and no statement has
\* failed, a row in analyzing belongs to a worker that will settle it; rows
\* cut off by an outage were all taken back at the start.
NoRowAbandoned ==
  phase # "down" /\ faults = 0 =>
    \A c \in Changes : queue[c] = "analyzing" =>
      \E w \in Workers :
        job[w] = c /\ pc[w] \in {"claimed", "calling", "answered", "erred"}

\* Complete, Fail, ResetInflight: across restarts a change once done is never
\* analyzed again, and a failed row stays failed.
SettledForGood ==
  [][\A c \in Changes :
       /\ status[c] = "done"  => status'[c] = "done"
       /\ queue[c] = "failed" => queue'[c] = "failed"]_vars

\* SeenRecently, Enqueue: a change skipped as already seen has a queued change
\* of the same content behind it, whatever crashed in between.
SkippedIsCovered ==
  \A c \in Changes : handler[c] = "duplicate" =>
    \E d \in Changes : hash[d] = hash[c] /\ status[d] # "none"

\* enqueueReport: a report that waits for the hub tells of a finished change,
\* as long as no statement has failed.
ReportOfFinished ==
  \A c \in Changes : outbox[c] # "none" /\ faults = 0 =>
    outbox[c] = "done" /\ status[c] = "done"

\* Claim, Complete, Fail: queue and records say the same of a change, but for
\* the worker between the two statements of Complete or Fail; so a record is
\* left unfinished without a row only where an outage or a fault fell there.
RecordsFollowQueue ==
  outages = 0 /\ faults = 0 =>
    \A c \in Changes :
      \/ queue[c] = status[c]
      \/ queue[c] = "none" /\ status[c] = "done"
      \/ \E w \in Workers : job[w] = c /\ pc[w] \in {"deleted", "marked"}

\* Claim orders the pending rows by the texts of their times: a younger row is
\* taken before an older one only within one second.
OldestFirst ==
  [][\A c, d \in Changes :
       /\ queue[c] = "pending" /\ queue'[c] = "analyzing"
       /\ queue[d] = "pending"
       => \/ enqueuedAt[c] <= enqueuedAt[d]
          \/ enqueuedAt[c] \div PerSecond = enqueuedAt[d] \div PerSecond]_vars

\* ResetInflight and the workers: every change that was queued leaves the
\* queue or is marked failed, through crashes and shutdowns.
EveryChangeSettles ==
  \A c \in Changes :
    queue[c] = "pending" ~> queue[c] \in {"none", "failed"}

\* Run after ctx.Done: wg.Wait ends, also with work left in the queue.
ShutdownEnds == phase = "cancelled" ~> phase = "down"

\* README.md:52 says interrupted work is finished after a restart: no change is
\* given up for good because the agent was told to stop.
InterruptedWorkIsKept ==
  \A c \in Changes : ~(queue[c] = "failed" /\ failure[c] = "cancelled")

\* agent.go:300-301 says the report of a finished change is never lost: a done
\* record has its report, or a worker about to queue it.
FinishedIsReported ==
  \A c \in Changes : HubEnabled /\ status[c] = "done" =>
    \/ outbox[c] # "none"
    \/ \E w \in Workers : pc[w] = "completed" /\ job[w] = c
=============================================================================
