----------------------------- MODULE HubDelivery -----------------------------
(***************************************************************************)
(* Reports on their way from the outboxes of the agents to the hub:         *)
(* outboxSender, Client.Send, handleReport and Append.  A call may fail     *)
(* before or after the hub acted on it, and one the client gave up on may   *)
(* still reach the hub later.                                               *)
(***************************************************************************)
EXTENDS HubLog, FiniteSets, SequencesExt

CONSTANTS Agents,
          Reports,     \* report ids; report_id = change_id
          Origin,      \* the agent a report comes from
          Limit,       \* rows ListOutbox returns
          MaxQueued,   \* bound on queued
          MaxCrashes,  \* bound on stops of an agent
          MaxLate      \* bound on calls given up on that are under way

ASSUME OriginAssumption     == Origin \in [Reports -> Agents]
ASSUME LimitAssumption      == Limit \in Nat \ {0}
ASSUME MaxQueuedAssumption  == MaxQueued \in Nat
ASSUME MaxCrashesAssumption == MaxCrashes \in Nat

VARIABLES outbox,   \* report ids of each agent's outbox, by the text of created_at
          second,   \* the second of created_at, counted from the row that found
                    \* the outbox empty (0 of a report with no row)
          version,  \* the payload a report was last queued with, 0 before
          up,       \* agents that run
          batch,    \* rows outboxSender has listed and not delivered
          call,     \* the call Send waits for: none, sent, ok or error
          late,     \* requests no client waits for any more
          log,      \* the hub's audit table
          queued,   \* how often reports were queued, in all
          crashes

vars == <<outbox, second, version, up, batch, call, late, log, queued, crashes>>

Body == 1..MaxQueued
Item == [id : Reports, body : Body]
Row  == [id : Reports, body : Body, prev : Seq(Body), hash : Seq(Body)]

TypeOK ==
  /\ outbox  \in [Agents -> Seq(Reports)]
  /\ second  \in [Reports -> Nat]
  /\ version \in [Reports -> 0..MaxQueued]
  /\ up      \in [Agents -> BOOLEAN]
  /\ batch   \in [Agents -> Seq(Item)]
  /\ call    \in [Agents -> {"none", "sent", "ok", "error"}]
  /\ late    \in SUBSET Item
  /\ log     \in Seq(Row)
  /\ queued  \in 0..MaxQueued
  /\ crashes \in 0..MaxCrashes

Init ==
  /\ outbox  = [a \in Agents |-> <<>>]
  /\ second  = [r \in Reports |-> 0]
  /\ version = [r \in Reports |-> 0]
  /\ up      = [a \in Agents |-> TRUE]
  /\ batch   = [a \in Agents |-> <<>>]
  /\ call    = [a \in Agents |-> "none"]
  /\ late    = {}
  /\ log     = <<>>
  /\ queued  = 0
  /\ crashes = 0

-----------------------------------------------------------------------------
(* The agent *)

\* A new row stands behind those of earlier seconds.  Among the rows of its own
\* second it may stand anywhere: RFC3339Nano drops the zeros a fraction ends in,
\* and "Z" sorts after the digits ("05.12Z" is listed before "05.1Z").
Clock(a) ==
  IF outbox[a] = <<>> THEN {0}
  ELSE LET latest == second[Last(outbox[a])] IN {latest, latest + 1}

Insert(a, r) ==
  \E now \in Clock(a), k \in 1..(Len(outbox[a]) + 1) :
    /\ \A i \in k..Len(outbox[a]) : second[outbox[a][i]] = now
    /\ second' = [second EXCEPT ![r] = now]
    /\ outbox' = [outbox EXCEPT ![a] = InsertAt(@, k, r)]

\* EnqueueOutbox: a report that waits is queued again in place, with the new payload.
Queue(r) ==
  /\ up[Origin[r]]
  /\ queued < MaxQueued
  /\ queued'  = queued + 1
  /\ version' = [version EXCEPT ![r] = @ + 1]
  /\ IF Contains(outbox[Origin[r]], r)
     THEN UNCHANGED <<outbox, second>>
     ELSE Insert(Origin[r], r)
  /\ UNCHANGED <<up, batch, call, late, log, crashes>>

\* report_id is the key of the table: at most one row goes.
DeleteOutbox(rows, r) ==
  IF Contains(rows, r)
  THEN RemoveAt(rows, CHOOSE i \in 1..Len(rows) : rows[i] = r)
  ELSE rows

\* A tick of the sender: the payloads are read now and sent later.
List(a) ==
  /\ up[a]
  /\ batch[a] = <<>>
  /\ outbox[a] # <<>>
  /\ LET n == IF Len(outbox[a]) < Limit THEN Len(outbox[a]) ELSE Limit IN
     batch' = [batch EXCEPT ![a] = [i \in 1..n |->
                 [id |-> outbox[a][i], body |-> version[outbox[a][i]]]]]
  /\ UNCHANGED <<outbox, second, version, up, call, late, log, queued, crashes>>

Send(a) ==
  /\ up[a]
  /\ batch[a] # <<>>
  /\ call[a] = "none"
  /\ call' = [call EXCEPT ![a] = "sent"]
  /\ UNCHANGED <<outbox, second, version, up, batch, late, log, queued, crashes>>

\* Faulty variants: the row is deleted without waiting for the answer; it is
\* not deleted at all.
DeliveredUnanswered(a) ==
  /\ call[a] \in {"sent", "ok"}
  /\ outbox' = [outbox EXCEPT ![a] = DeleteOutbox(@, Head(batch[a]).id)]
  /\ second' = [second EXCEPT ![Head(batch[a]).id] = 0]
  /\ batch'  = [batch EXCEPT ![a] = Tail(@)]
  /\ call'   = [call EXCEPT ![a] = "none"]
  /\ UNCHANGED <<version, up, late, log, queued, crashes>>
DeliveredKept(a) ==
  /\ call[a] = "ok"
  /\ batch'  = [batch EXCEPT ![a] = Tail(@)]
  /\ call'   = [call EXCEPT ![a] = "none"]
  /\ UNCHANGED <<outbox, second, version, up, late, log, queued, crashes>>

\* Send succeeded: the row is deleted and the next one is sent.
Delivered(a) ==
  /\ call[a] = "ok"
  /\ outbox' = [outbox EXCEPT ![a] = DeleteOutbox(@, Head(batch[a]).id)]
  /\ second' = [second EXCEPT ![Head(batch[a]).id] = 0]
  /\ batch'  = [batch EXCEPT ![a] = Tail(@)]
  /\ call'   = [call EXCEPT ![a] = "none"]
  /\ UNCHANGED <<version, up, late, log, queued, crashes>>

\* The request of a call given up on is lost, or still under way.
Abandon(a) ==
  \/ UNCHANGED late
  \/ /\ call[a] = "sent"
     /\ Cardinality(late) < MaxLate
     /\ late' = late \cup {Head(batch[a])}

\* Faulty variant: after a failure the sender goes on with the next row.
SkipFailed(a) ==
  /\ call[a] # "none"
  /\ Abandon(a)
  /\ batch' = [batch EXCEPT ![a] = Tail(@)]
  /\ call'  = [call EXCEPT ![a] = "none"]
  /\ UNCHANGED <<outbox, second, version, up, log, queued, crashes>>

\* Send failed: the hub was not reached, did not answer in time, its answer was
\* lost or was an error.  The rest of the batch waits for the next tick.
SendFails(a) ==
  /\ call[a] # "none"
  /\ Abandon(a)
  /\ batch' = [batch EXCEPT ![a] = <<>>]
  /\ call'  = [call EXCEPT ![a] = "none"]
  /\ UNCHANGED <<outbox, second, version, up, log, queued, crashes>>

\* DeleteOutbox fails, which the sender ignores: the report is sent again.
DeleteFails(a) ==
  /\ call[a] = "ok"
  /\ batch' = [batch EXCEPT ![a] = Tail(@)]
  /\ call'  = [call EXCEPT ![a] = "none"]
  /\ UNCHANGED <<outbox, second, version, up, late, log, queued, crashes>>

\* A stop, a kill or a cancelled context: only the outbox is left.
Crash(a) ==
  /\ up[a]
  /\ crashes < MaxCrashes
  /\ crashes' = crashes + 1
  /\ up' = [up EXCEPT ![a] = FALSE]
  /\ Abandon(a)
  /\ batch' = [batch EXCEPT ![a] = <<>>]
  /\ call'  = [call EXCEPT ![a] = "none"]
  /\ UNCHANGED <<outbox, second, version, log, queued>>

Restart(a) ==
  /\ ~up[a]
  /\ up' = [up EXCEPT ![a] = TRUE]
  /\ UNCHANGED <<outbox, second, version, batch, call, late, log, queued, crashes>>

-----------------------------------------------------------------------------
(* The hub: handleReport *)

HubAccepts(a) ==
  /\ call[a] = "sent"
  /\ LET m == Head(batch[a]) IN log' = AppendReport(log, m.id, m.body)
  /\ call' = [call EXCEPT ![a] = "ok"]
  /\ UNCHANGED <<outbox, second, version, up, batch, late, queued, crashes>>

\* Faulty variant: Send does not look at the status of the answer.
RefusalUnseen(a) ==
  /\ call[a] = "sent"
  /\ call' = [call EXCEPT ![a] = "ok"]
  /\ UNCHANGED <<outbox, second, version, up, batch, late, log, queued, crashes>>

\* A status of 300 or more: the token, the body or the store is at fault.
HubRefuses(a) ==
  /\ call[a] = "sent"
  /\ call' = [call EXCEPT ![a] = "error"]
  /\ UNCHANGED <<outbox, second, version, up, batch, late, log, queued, crashes>>

HubAcceptsLate(m) ==
  /\ m \in late
  /\ late' = late \ {m}
  /\ log'  = AppendReport(log, m.id, m.body)
  /\ UNCHANGED <<outbox, second, version, up, batch, call, queued, crashes>>

LoseLate(m) ==
  /\ m \in late
  /\ late' = late \ {m}
  /\ UNCHANGED <<outbox, second, version, up, batch, call, log, queued, crashes>>

-----------------------------------------------------------------------------

Next ==
  \/ \E r \in Reports : Queue(r)
  \/ \E a \in Agents :
       \/ List(a) \/ Send(a) \/ Delivered(a) \/ SendFails(a) \/ DeleteFails(a)
       \/ Crash(a) \/ Restart(a) \/ HubAccepts(a) \/ HubRefuses(a)
  \/ \E m \in late : HubAcceptsLate(m) \/ LoseLate(m)

Spec == Init /\ [][Next]_vars

\* The sender ticks; agents are started again; a client does not wait for ever;
\* and a hub that is called again and again accepts, answers in time, and its
\* answer is acted on, again and again.
Fairness ==
  \A a \in Agents :
    /\ WF_vars(List(a)) /\ WF_vars(Send(a)) /\ WF_vars(Restart(a))
    /\ WF_vars(SendFails(a))
    /\ SF_vars(HubAccepts(a)) /\ SF_vars(Delivered(a))

FairSpec == Spec /\ Fairness

-----------------------------------------------------------------------------
(* Properties *)

\* EnqueueOutbox .. DeleteOutbox: a queued report is in the outbox until it is
\* in the audit, through every crash and lost answer.
NothingLost ==
  \A r \in Reports : version[r] > 0 =>
    Contains(outbox[Origin[r]], r) \/ Logged(log, r)

\* The break after a failed Send: reports of one agent enter the audit by the
\* seconds they were queued in, so whatever is ahead of a logged report in the
\* outbox is logged too.  Within one second the text of created_at does not keep
\* the order; and a report queued again takes a new place.
InOrder ==
  \A a \in Agents : \A i, j \in DOMAIN outbox[a] :
    LET x == outbox[a][i]
        y == outbox[a][j]
    IN  i < j /\ second[x] # second[y] /\ version[y] = 1 /\ Logged(log, y)
          => Logged(log, x)

\* outboxSender's retries: every queued report is in the audit in the end.
EventuallyLogged ==
  \A r \in Reports : version[r] > 0 ~> Logged(log, r)

\* DeleteOutbox: the outbox does not keep what was delivered.
OutboxDrains ==
  \A a \in Agents : []<>(outbox[a] = <<>>)

\* outboxSender and Append implement the append-only log of AuditLog.
Audit == INSTANCE AuditLog WITH
  Bodies    <- Body,
  submitted <- {m \in Item : m.body <= version[m.id]},
  entries   <- [i \in DOMAIN log |-> [id |-> log[i].id, body |-> log[i].body]]

ImplementsAuditLog == Audit!Spec
=============================================================================
