------------------------------- MODULE HubLog -------------------------------
(***************************************************************************)
(* The audit table of internal/hub/store.go: rows in the order of seq, each *)
(* with the hash of the row before it.  SHA-256 is taken as collision free: *)
(* a hash is the history it was computed from.                              *)
(***************************************************************************)
EXTENDS Integers, Sequences

Genesis == <<>>

ChainHash(prev, body) == Append(prev, body)

Logged(log, id) == \E i \in DOMAIN log : log[i].id = id

LastHash(log) == IF log = <<>> THEN Genesis ELSE log[Len(log)].hash

\* Faulty variant: no look for the report_id.
AppendBlindly(log, id, body) ==
  Append(log, [id |-> id, body |-> body, prev |-> LastHash(log),
               hash |-> ChainHash(LastHash(log), body)])

\* One transaction, and the store has one connection: a report_id already in
\* the table is answered with the row it has.
AppendReport(log, id, body) ==
  IF Logged(log, id) THEN log
  ELSE Append(log, [id |-> id, body |-> body, prev |-> LastHash(log),
                    hash |-> ChainHash(LastHash(log), body)])

\* The hash Verify carries when it comes to row i.
Carried(log, i) == IF i = 1 THEN Genesis ELSE log[i - 1].hash

\* Faulty variant: the links are compared, the hashes are not computed again.
BrokenLink(log, i) == log[i].prev # Carried(log, i)

Broken(log, i) ==
  \/ log[i].prev # Carried(log, i)
  \/ log[i].hash # ChainHash(Carried(log, i), log[i].body)

\* Faulty variant: the broken row is counted.
VerifyCountsBroken(log) ==
  [ok    |-> \A i \in DOMAIN log : ~Broken(log, i),
   count |-> CHOOSE n \in 0..Len(log) :
               /\ \A i \in 1..(n - 1) : ~Broken(log, i)
               /\ n = Len(log) \/ (n > 0 /\ Broken(log, n))]

\* VerifyResult: ok, and count, the rows before the first break.
Verify(log) ==
  [ok    |-> \A i \in DOMAIN log : ~Broken(log, i),
   count |-> CHOOSE n \in 0..Len(log) :
               /\ \A i \in 1..n : ~Broken(log, i)
               /\ n = Len(log) \/ Broken(log, n + 1)]
=============================================================================
