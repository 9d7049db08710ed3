-------------------------------- MODULE Store --------------------------------
(***************************************************************************)
(* internal/store: the agent's SQLite file.  One connection, so a          *)
(* transaction is one step; a method that runs two statements outside a    *)
(* transaction is two.  The rows survive a crash, nothing else does.       *)
(***************************************************************************)
EXTENDS Timestamps

CONSTANTS Changes,  \* change_id of the events the agent may ever build
          Hashes,   \* content hashes
          Window    \* dedupWindow, in ticks

ASSUME WindowAssumption == Window \in Nat

VARIABLES now,        \* the clock behind nowFn
          queue,      \* queue.state by change, "none" where there is no row
          enqueuedAt, \* queue.enqueued_at
          status,     \* records.status by change, "none" where there is no row
          failure,    \* records.error
          seenAt,     \* dedup.seen_at by hash, Never where there is no row
          outbox      \* status in the report waiting for the hub, or "none"

tables == <<queue, enqueuedAt, status, failure, seenAt, outbox>>

Never    == -1
Statuses == {"pending", "analyzing", "done", "failed"}

StoreTypeOK ==
  /\ now        \in Nat
  /\ queue      \in [Changes -> {"none", "pending", "analyzing", "failed"}]
  /\ enqueuedAt \in [Changes -> Nat]
  /\ status     \in [Changes -> {"none"} \cup Statuses]
  /\ failure    \in [Changes -> {"none", "provider", "cancelled"}]
  /\ seenAt     \in [Hashes -> {Never} \cup Nat]
  /\ outbox     \in [Changes -> {"none"} \cup Statuses]

StoreInit ==
  /\ now        = 0
  /\ queue      = [c \in Changes |-> "none"]
  /\ enqueuedAt = [c \in Changes |-> 0]
  /\ status     = [c \in Changes |-> "none"]
  /\ failure    = [c \in Changes |-> "none"]
  /\ seenAt     = [h \in Hashes |-> Never]
  /\ outbox     = [c \in Changes |-> "none"]

SeenRecently(h) == seenAt[h] # Never /\ now - seenAt[h] < Window

\* One transaction over queue, records and dedup.
Enqueue(c, h) ==
  /\ queue'      = [queue EXCEPT ![c] = "pending"]
  /\ enqueuedAt' = [enqueuedAt EXCEPT ![c] = now]
  /\ status'     = [status EXCEPT ![c] = "pending"]
  /\ seenAt'     = [seenAt EXCEPT ![h] = now]
  /\ UNCHANGED <<now, failure, outbox>>

\* ORDER BY enqueued_at LIMIT 1 over the pending rows.
\* Faulty variants: any pending row is taken; rows another worker has claimed
\* are offered too.
AnyPending(c) == queue[c] = "pending"
FirstUnsettled(c) ==
  /\ queue[c] \in {"pending", "analyzing"}
  /\ \A d \in Changes : queue[d] = "pending" =>
       ~TextBefore(enqueuedAt[d], enqueuedAt[c])

FirstPending(c) ==
  /\ queue[c] = "pending"
  /\ \A d \in Changes : queue[d] = "pending" =>
       ~TextBefore(enqueuedAt[d], enqueuedAt[c])

\* Faulty variant: the record is forgotten.
ClaimRow(c) ==
  /\ FirstPending(c)
  /\ queue' = [queue EXCEPT ![c] = "analyzing"]
  /\ UNCHANGED <<now, enqueuedAt, status, failure, seenAt, outbox>>

Claim(c) ==
  /\ FirstPending(c)
  /\ queue'  = [queue EXCEPT ![c] = "analyzing"]
  /\ status' = [status EXCEPT ![c] = "analyzing"]
  /\ UNCHANGED <<now, enqueuedAt, failure, seenAt, outbox>>

\* Faulty variant: the row is marked done and kept.
CompleteKeeping(c) ==
  /\ queue' = [queue EXCEPT ![c] = "done"]
  /\ UNCHANGED <<now, enqueuedAt, status, failure, seenAt, outbox>>

\* Complete, first and second statement.
CompleteQueue(c) ==
  /\ queue' = [queue EXCEPT ![c] = "none"]
  /\ UNCHANGED <<now, enqueuedAt, status, failure, seenAt, outbox>>

CompleteRecord(c) ==
  /\ status' = [status EXCEPT ![c] = "done"]
  /\ UNCHANGED <<now, queue, enqueuedAt, failure, seenAt, outbox>>

\* Fail, first and second statement.
FailQueue(c) ==
  /\ queue' = [queue EXCEPT ![c] = "failed"]
  /\ UNCHANGED <<now, enqueuedAt, status, failure, seenAt, outbox>>

FailRecord(c, err) ==
  /\ status'  = [status EXCEPT ![c] = "failed"]
  /\ failure' = [failure EXCEPT ![c] = err]
  /\ UNCHANGED <<now, queue, enqueuedAt, seenAt, outbox>>

\* Faulty variants: nothing is taken back; failed rows are taken back too.
ResetNothing == UNCHANGED <<now, tables>>
ResetFailedToo ==
  /\ queue' = [c \in Changes |->
                 IF queue[c] = "none" THEN "none" ELSE "pending"]
  /\ UNCHANGED <<now, enqueuedAt, status, failure, seenAt, outbox>>

\* Rows are moved back, their records keep what they say.
ResetInflight ==
  /\ queue' = [c \in Changes |->
                 IF queue[c] = "analyzing" THEN "pending" ELSE queue[c]]
  /\ UNCHANGED <<now, enqueuedAt, status, failure, seenAt, outbox>>

\* GetRecord, BuildReport and EnqueueOutbox: the report carries the status the
\* record has by then.
EnqueueOutbox(c) ==
  /\ outbox' = [outbox EXCEPT ![c] = status[c]]
  /\ UNCHANGED <<now, queue, enqueuedAt, status, failure, seenAt>>
=============================================================================
