----------------------------- MODULE AuditChain -----------------------------
(***************************************************************************)
(* The audit table over the life of the hub's database, rows that went bad *)
(* or missing included, and what Verify says of it.                         *)
(***************************************************************************)
EXTENDS HubLog

CONSTANTS Reports,    \* report ids
          Bodies,     \* what a report may say
          MaxRows,    \* bound on the reports received
          MaxDamage,  \* bound on the rows damaged
          TailMayGo   \* the last row may go missing, as in an older copy

ASSUME TailMayGoAssumption == TailMayGo \in BOOLEAN
ASSUME MaxDamageAssumption == MaxDamage \in Nat

VARIABLES log,      \* the table as it is; nth is the place a row was given
          history,  \* bodies of all rows ever appended
          damage    \* rows damaged so far

vars == <<log, history, damage>>

Row == [id : Reports, body : Bodies, prev : Seq(Bodies), hash : Seq(Bodies),
        nth : Nat \ {0}]

TypeOK ==
  /\ log     \in Seq(Row)
  /\ history \in Seq(Bodies)
  /\ damage  \in 0..MaxDamage

Init == log = <<>> /\ history = <<>> /\ damage = 0

\* handleReport: a report new to the table becomes its last row.
Receive(id, body) ==
  /\ Len(history) < MaxRows
  /\ ~Logged(log, id)
  /\ history' = Append(history, body)
  /\ LET row == AppendReport(log, id, body)[Len(log) + 1] IN
     log' = Append(log, [id |-> row.id, body |-> row.body, prev |-> row.prev,
                         hash |-> row.hash, nth |-> Len(history) + 1])
  /\ UNCHANGED damage

\* The payload of a row no longer is what was received.
Alter(i, body) ==
  /\ damage < MaxDamage
  /\ damage' = damage + 1
  /\ body # log[i].body
  /\ log' = [log EXCEPT ![i].body = body]
  /\ UNCHANGED history

Lose(i) ==
  /\ damage < MaxDamage
  /\ damage' = damage + 1
  /\ TailMayGo \/ i < Len(log)
  /\ log' = SubSeq(log, 1, i - 1) \o SubSeq(log, i + 1, Len(log))
  /\ UNCHANGED history

Next ==
  \/ \E id \in Reports, body \in Bodies : Receive(id, body)
  \/ \E i \in DOMAIN log : Lose(i) \/ \E body \in Bodies : Alter(i, body)

Spec == Init /\ [][Next]_vars

-----------------------------------------------------------------------------
(* Properties *)

\* The first n rows are the first n ever received, as they were received.
Intact(n) == \A i \in 1..n : log[i].nth = i /\ log[i].body = history[i]

\* Append, Verify: a table nothing happened to passes, with all its rows; rows
\* changed, or missing before the last one, never go unnoticed, also when rows
\* are appended behind the damage or two damages meet.
VerifyIsExact ==
  /\ damage = 0 => Verify(log) = [ok |-> TRUE, count |-> Len(history)]
  /\ Verify(log).ok => Intact(Len(log))

\* Verify stops at the first row that is wrong or follows a missing one: all
\* it counted before is as it was received, and the row it names is not.
FirstBreakIsNamed ==
  LET n == Verify(log).count IN
  /\ Intact(n)
  /\ n < Len(log) => ~Intact(n + 1)

\* hub.go:136 says audit verify checks the audit was "not shortened"; hub.md:22
\* that the loss of any row breaks the chain: a table that passes has every row.
ShorteningIsNoticed == Verify(log).ok => Len(log) = Len(history)
=============================================================================
