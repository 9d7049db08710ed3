------------------------------ MODULE AuditLog ------------------------------
(***************************************************************************)
(* What the hub promises the agents: an append-only log of the reports      *)
(* they submit, each report_id in it once, and every one in the end.        *)
(***************************************************************************)
EXTENDS Integers, Sequences

CONSTANTS Reports,  \* report ids
          Bodies    \* what a report may say

VARIABLES submitted,  \* reports handed over for delivery
          entries     \* the log

vars == <<submitted, entries>>

Report == [id : Reports, body : Bodies]

Recorded(r) == \E i \in DOMAIN entries : entries[i].id = r

Init == submitted = {} /\ entries = <<>>

Submit(m) ==
  /\ submitted' = submitted \cup {m}
  /\ UNCHANGED entries

Record(m) ==
  /\ m \in submitted
  /\ ~Recorded(m.id)
  /\ entries' = Append(entries, m)
  /\ UNCHANGED submitted

RecordReport(r) == \E m \in Report : m.id = r /\ Record(m)

Next == \E m \in Report : Submit(m) \/ Record(m)

Spec == Init /\ [][Next]_vars /\ \A r \in Reports : WF_vars(RecordReport(r))
=============================================================================
