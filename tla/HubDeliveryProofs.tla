-------------------------- MODULE HubDeliveryProofs --------------------------
(***************************************************************************)
(* Delivery to the hub, for every set of agents and reports and every       *)
(* bound: what is queued is not lost, the audit keeps the order of the      *)
(* outbox, and the two together implement the append-only log of AuditLog.  *)
(***************************************************************************)
EXTENDS HubDelivery, SequenceTheorems, TLAPS

\* The rows of one table have keys.
Distinct(s) == \A i, j \in DOMAIN s : s[i] = s[j] => i = j

\* x stands before y in s.
Before(s, x, y) == \E i, j \in DOMAIN s : i < j /\ s[i] = x /\ s[j] = y

\* An outbox holds each report of its agent once, and only what was queued.
Keyed ==
  \A a \in Agents :
    /\ Distinct(outbox[a])
    /\ \A i \in DOMAIN outbox[a] : Origin[outbox[a][i]] = a
                                   /\ version[outbox[a][i]] > 0

\* A payload that is under way, or logged, was queued at some time.
Known ==
  /\ \A a \in Agents : \A k \in DOMAIN batch[a] :
       /\ Origin[batch[a][k].id] = a
       /\ batch[a][k].body <= version[batch[a][k].id]
  /\ \A m \in late : m.body <= version[m.id]
  /\ \A i \in DOMAIN log : log[i].body <= version[log[i].id]

\* A call is about the head of the batch, and ok is said of a logged report.
Answered ==
  \A a \in Agents :
    /\ call[a] # "none" => batch[a] # <<>>
    /\ call[a] = "ok" => Logged(log, Head(batch[a]).id)

\* The row of x stands before that of r and is of another second.
Ahead(x, r) == Before(outbox[Origin[r]], x, r) /\ second[x] # second[r]

\* Whatever is ahead of r is logged or in S, unless r was queued again, which may
\* have given it a new place.
Clear(r, S) ==
  version[r] = 1 => \A x \in Reports : Ahead(x, r) => Logged(log, x) \/ x \in S

\* The rows listed with row k of a batch and sent before it.
SentBefore(a, k) == {batch[a][l].id : l \in 1..(k - 1)}

\* InOrder with the reports under way: nothing overtakes, also not a request
\* that arrives late or a row whose turn in the batch is still to come.
Ordered ==
  /\ \A r \in Reports : Logged(log, r) => Clear(r, {})
  /\ \A m \in late : Clear(m.id, {})
  /\ \A a \in Agents : \A k \in DOMAIN batch[a] : Clear(batch[a][k].id, SentBefore(a, k))

\* queued counts every queueing of every report.
Counted == \A r \in Reports : version[r] <= queued

\* NothingLost and InOrder made inductive.
DeliveryInv == TypeOK /\ Counted /\ Keyed /\ Known /\ Answered /\ NothingLost /\ Ordered

-----------------------------------------------------------------------------
(* Sequences without repetition *)

LEMMA DeleteOutboxRows ==
  ASSUME NEW S, NEW s \in Seq(S), NEW r, Distinct(s)
  PROVE  /\ DeleteOutbox(s, r) \in Seq(S)
         /\ Distinct(DeleteOutbox(s, r))
         /\ \A i \in DOMAIN DeleteOutbox(s, r) :
              \E j \in DOMAIN s : DeleteOutbox(s, r)[i] = s[j]
         /\ \A x : Contains(s, x) /\ x # r => Contains(DeleteOutbox(s, r), x)
         /\ \A x, y : Before(DeleteOutbox(s, r), x, y) => Before(s, x, y) /\ x # r /\ y # r
<1>1. CASE ~Contains(s, r)
  BY <1>1 DEF DeleteOutbox, Contains, Before
<1>2. CASE Contains(s, r)
  <2> DEFINE k == CHOOSE i \in 1..Len(s) : s[i] = r
             t == DeleteOutbox(s, r)
  <2>1. k \in 1..Len(s) /\ s[k] = r
    BY <1>2 DEF Contains
  <2>2. t = SubSeq(s, 1, k - 1) \o SubSeq(s, k + 1, Len(s))
    BY <1>2 DEF DeleteOutbox, RemoveAt
  <2> HIDE DEF k, t
  <2>3. /\ t \in Seq(S)
        /\ Len(t) = Len(s) - 1
        /\ \A i \in 1..Len(t) : t[i] = IF i < k THEN s[i] ELSE s[i + 1]
    <3> DEFINE u == SubSeq(s, 1, k - 1)
               v == SubSeq(s, k + 1, Len(s))
    <3>1. u \in Seq(S) /\ Len(u) = k - 1 /\ \A i \in 1..(k - 1) : u[i] = s[i]
      BY <2>1, SubSeqProperties
    <3>2. /\ v \in Seq(S) /\ Len(v) = Len(s) - k
          /\ \A i \in 1..(Len(s) - k) : v[i] = s[i + k]
      BY <2>1, SubSeqProperties
    <3>3. t = u \o v
      BY <2>2
    <3> HIDE DEF u, v
    <3>4. /\ t \in Seq(S) /\ Len(t) = Len(u) + Len(v)
          /\ \A i \in 1..(Len(u) + Len(v)) :
               t[i] = IF i <= Len(u) THEN u[i] ELSE v[i - Len(u)]
      BY <3>1, <3>2, <3>3, ConcatProperties
    <3>5. Len(t) = Len(s) - 1 /\ k \in Int /\ Len(s) \in Int
      BY <2>1, <3>1, <3>2, <3>4
    <3>6. ASSUME NEW i \in 1..Len(t)
          PROVE  t[i] = IF i < k THEN s[i] ELSE s[i + 1]
      <4>1. CASE i < k
        BY <3>1, <3>2, <3>4, <3>5, <4>1
      <4>2. CASE ~(i < k)
        <5>1. i - (k - 1) \in 1..(Len(s) - k) /\ (i - (k - 1)) + k = i + 1
          BY <2>1, <3>5, <4>2
        <5>2. t[i] = v[i - (k - 1)]
          BY <2>1, <3>1, <3>2, <3>4, <3>5, <4>2
        <5> QED
          BY <3>2, <4>2, <5>1, <5>2
      <4> QED
        BY <4>1, <4>2
    <3> QED
      BY <3>4, <3>5, <3>6
  <2>4. \A i \in DOMAIN t : \E j \in DOMAIN s : t[i] = s[j]
    BY <2>1, <2>3
  <2>7. Distinct(t)
    <3> SUFFICES ASSUME NEW i \in DOMAIN t, NEW j \in DOMAIN t, t[i] = t[j]
                 PROVE  i = j
      BY DEF Distinct
    <3> DEFINE f(n) == IF n < k THEN n ELSE n + 1
    <3>1. /\ f(i) \in DOMAIN s /\ f(j) \in DOMAIN s
          /\ s[f(i)] = s[f(j)] /\ i \in Int /\ j \in Int /\ k \in Int
      BY <2>1, <2>3
    <3>2. f(i) = f(j)
      BY <3>1 DEF Distinct
    <3> QED
      BY <3>1, <3>2
  <2>5. ASSUME NEW x, Contains(s, x), x # r
        PROVE  Contains(t, x)
    <3>1. PICK i \in 1..Len(s) : s[i] = x
      BY <2>5 DEF Contains
    <3>2. CASE i < k
      BY <2>1, <2>3, <3>1, <3>2 DEF Contains
    <3>3. CASE i > k
      <4>1. i - 1 \in 1..Len(t) /\ t[i - 1] = x
        BY <2>1, <2>3, <3>1, <3>3
      <4> QED
        BY <4>1 DEF Contains
    <3> QED
      BY <2>1, <2>5, <3>1, <3>2, <3>3
  <2>6. ASSUME NEW x, NEW y, Before(t, x, y)
        PROVE  Before(s, x, y) /\ x # r /\ y # r
    <3>1. PICK i \in DOMAIN t, j \in DOMAIN t : i < j /\ t[i] = x /\ t[j] = y
      BY <2>6 DEF Before
    <3> DEFINE f(n) == IF n < k THEN n ELSE n + 1
    <3>2. /\ f(i) \in DOMAIN s /\ f(j) \in DOMAIN s
          /\ f(i) < f(j) /\ s[f(i)] = x /\ s[f(j)] = y
          /\ f(i) # k /\ f(j) # k
      BY <2>1, <2>3, <3>1
    <3> QED
      BY <2>1, <3>2 DEF Before, Distinct
  <2> QED
    BY <2>3, <2>4, <2>5, <2>6, <2>7 DEF t
<1> QED
  BY <1>1, <1>2

LEMMA InsertedRows ==
  ASSUME NEW S, NEW s \in Seq(S), NEW r \in S, Distinct(s), ~Contains(s, r),
         NEW k \in 1..(Len(s) + 1)
  PROVE  /\ InsertAt(s, k, r) \in Seq(S)
         /\ Distinct(InsertAt(s, k, r))
         /\ Contains(InsertAt(s, k, r), r)
         /\ \A x : Contains(s, x) => Contains(InsertAt(s, k, r), x)
         /\ \A i \in DOMAIN InsertAt(s, k, r) :
              (\E j \in DOMAIN s : InsertAt(s, k, r)[i] = s[j]) \/ InsertAt(s, k, r)[i] = r
         /\ \A x, y : Before(InsertAt(s, k, r), x, y) =>
              \/ Before(s, x, y) /\ x # r /\ y # r
              \/ y = r
              \/ x = r /\ \E i \in k..Len(s) : s[i] = y
<1> DEFINE t == InsertAt(s, k, r)
<1>1. /\ t \in Seq(S)
      /\ Len(t) = Len(s) + 1
      /\ \A i \in 1..Len(t) : t[i] = IF i < k THEN s[i] ELSE IF i = k THEN r ELSE s[i - 1]
      /\ Len(s) \in Nat
  <2> DEFINE u == SubSeq(s, 1, k - 1)
             v == SubSeq(s, k, Len(s))
  <2>1. u \in Seq(S) /\ Len(u) = k - 1 /\ \A i \in 1..(k - 1) : u[i] = s[i]
    BY SubSeqProperties
  <2>2. /\ v \in Seq(S) /\ Len(v) = Len(s) - k + 1
        /\ \A i \in 1..(Len(s) - k + 1) : v[i] = s[i + k - 1]
    BY SubSeqProperties
  <2>3. t = (u \o <<r>>) \o v
    BY DEF InsertAt
  <2> HIDE DEF u, v, t
  <2> DEFINE w == u \o <<r>>
  <2>4. /\ w \in Seq(S) /\ Len(w) = k
        /\ \A i \in 1..k : w[i] = IF i < k THEN s[i] ELSE r
    BY <2>1
  <2>5. t = w \o v
    BY <2>3
  <2> HIDE DEF w
  <2>6. /\ t \in Seq(S) /\ Len(t) = Len(s) + 1
        /\ \A i \in 1..Len(t) : t[i] = IF i <= k THEN w[i] ELSE v[i - k]
    <3>1. /\ t \in Seq(S) /\ Len(t) = Len(w) + Len(v)
          /\ \A i \in 1..(Len(w) + Len(v)) :
               t[i] = IF i <= Len(w) THEN w[i] ELSE v[i - Len(w)]
      BY <2>2, <2>4, <2>5, ConcatProperties
    <3>2. Len(w) + Len(v) = Len(s) + 1
      BY <2>2, <2>4
    <3> QED
      BY <2>4, <3>1, <3>2
  <2>7. ASSUME NEW i \in 1..Len(t), i > k
        PROVE  t[i] = s[i - 1]
    <3>1. i - k \in 1..(Len(s) - k + 1) /\ (i - k) + k - 1 = i - 1
      BY <2>6, <2>7
    <3>2. t[i] = v[i - k]
      BY <2>6, <2>7
    <3> QED
      BY <2>2, <3>1, <3>2
  <2> QED
    BY <2>4, <2>6, <2>7
<1> HIDE DEF t
<1>2. \A j \in 1..Len(s) : s[j] # r
  BY DEF Contains
<1>3. Distinct(t)
  <2> SUFFICES ASSUME NEW i \in 1..Len(t), NEW j \in 1..Len(t), t[i] = t[j]
               PROVE  i = j
    BY <1>1 DEF Distinct
  <2> DEFINE f(n) == IF n < k THEN n ELSE n - 1
  <2>1. ASSUME NEW n \in 1..Len(t), n # k
        PROVE  f(n) \in 1..Len(s) /\ t[n] = s[f(n)] /\ t[n] # t[k]
    <3>1. f(n) \in 1..Len(s) /\ t[n] = s[f(n)] /\ t[k] = r
      BY <1>1, <2>1
    <3> QED
      BY <1>2, <3>1
  <2>2. CASE i # k /\ j # k
    <3>1. f(i) \in DOMAIN s /\ f(j) \in DOMAIN s /\ s[f(i)] = s[f(j)]
      BY <2>1, <2>2
    <3>2. f(i) = f(j)
      BY <3>1 DEF Distinct
    <3> QED
      BY <2>2, <3>2
  <2> QED
    BY <2>1, <2>2
<1>4. Contains(t, r)
  <2>1. k \in 1..Len(t) /\ t[k] = r
    BY <1>1
  <2> QED
    BY <2>1 DEF Contains
<1>5. ASSUME NEW x, Contains(s, x)
      PROVE  Contains(t, x)
  <2>1. PICK i \in 1..Len(s) : s[i] = x
    BY <1>5 DEF Contains
  <2>2. CASE i < k
    <3>1. i \in 1..Len(t) /\ t[i] = x
      BY <1>1, <2>1, <2>2
    <3> QED
      BY <3>1 DEF Contains
  <2>3. CASE ~(i < k)
    <3>1. i + 1 \in 1..Len(t) /\ t[i + 1] = x
      BY <1>1, <2>1, <2>3
    <3> QED
      BY <3>1 DEF Contains
  <2> QED
    BY <2>2, <2>3
<1>6. \A i \in DOMAIN t : (\E j \in DOMAIN s : t[i] = s[j]) \/ t[i] = r
  BY <1>1
<1>7. ASSUME NEW x, NEW y, Before(t, x, y)
      PROVE  \/ Before(s, x, y) /\ x # r /\ y # r
             \/ y = r
             \/ x = r /\ \E i \in k..Len(s) : s[i] = y
  <2>1. PICK i \in 1..Len(t), j \in 1..Len(t) : i < j /\ t[i] = x /\ t[j] = y
    BY <1>1, <1>7 DEF Before
  <2> DEFINE f(n) == IF n < k THEN n ELSE n - 1
  <2>2. CASE j = k
    BY <1>1, <2>1, <2>2
  <2>3. CASE i = k
    <3>1. j - 1 \in k..Len(s) /\ s[j - 1] = y /\ x = r
      BY <1>1, <2>1, <2>3
    <3> QED
      BY <3>1
  <2>4. CASE i # k /\ j # k
    <3>1. /\ f(i) \in DOMAIN s /\ f(j) \in DOMAIN s /\ f(i) < f(j)
          /\ s[f(i)] = x /\ s[f(j)] = y
      BY <1>1, <2>1, <2>4
    <3> QED
      BY <1>2, <3>1 DEF Before
  <2> QED
    BY <2>2, <2>3, <2>4
<1> QED
  BY <1>1, <1>3, <1>4, <1>5, <1>6, <1>7 DEF t

LEMMA HeadAndTail ==
  ASSUME NEW S, NEW s \in Seq(S), s # <<>>
  PROVE  /\ Head(s) = s[1] /\ 1 \in DOMAIN s
         /\ Tail(s) \in Seq(S)
         /\ \A k \in DOMAIN Tail(s) : k \in 1..Len(Tail(s)) /\ k + 1 \in DOMAIN s
                                      /\ Tail(s)[k] = s[k + 1]
BY HeadTailProperties

-----------------------------------------------------------------------------
(* The log *)

LEMMA AppendReportRows ==
  ASSUME NEW rows \in Seq(Row), NEW id \in Reports, NEW body \in Body
  PROVE  LET new == AppendReport(rows, id, body) IN
         /\ new \in Seq(Row)
         /\ \A r : Logged(new, r) <=> Logged(rows, r) \/ r = id
         /\ \A i \in DOMAIN new : \/ i \in DOMAIN rows /\ new[i] = rows[i]
                                  \/ new[i].id = id /\ new[i].body = body
         /\ Logged(rows, id) => new = rows
         /\ ~Logged(rows, id) => /\ Len(new) = Len(rows) + 1
                                 /\ \A i \in 1..Len(rows) : new[i] = rows[i]
                                 /\ new[Len(rows) + 1].id = id
                                 /\ new[Len(rows) + 1].body = body
<1> DEFINE row == [id |-> id, body |-> body, prev |-> LastHash(rows),
                   hash |-> ChainHash(LastHash(rows), body)]
           new == AppendReport(rows, id, body)
<1>1. LastHash(rows) \in Seq(Body)
  <2>1. CASE rows = <<>>
    BY <2>1 DEF LastHash, Genesis
  <2>2. CASE rows # <<>>
    <3>1. rows[Len(rows)] \in Row
      BY <2>2, EmptySeq, ElementOfSeq
    <3> QED
      BY <2>2, <3>1 DEF LastHash, Row
  <2> QED
    BY <2>1, <2>2
<1>2. row \in Row
  BY <1>1 DEF Row, ChainHash
<1>3. CASE Logged(rows, id)
  <2>1. new = rows
    BY <1>3 DEF AppendReport
  <2> QED
    BY <1>3, <2>1
<1>4. CASE ~Logged(rows, id)
  <2>1. new = Append(rows, row)
    BY <1>4 DEF AppendReport
  <2>2. row.id = id /\ row.body = body
    OBVIOUS
  <2> HIDE DEF row, new
  <2>3. /\ new \in Seq(Row)
        /\ Len(new) = Len(rows) + 1
        /\ \A i \in 1..Len(rows) : new[i] = rows[i]
        /\ new[Len(rows) + 1] = row
        /\ Len(rows) \in Nat
    BY <1>2, <2>1, AppendProperties
  <2>4. \A r : Logged(new, r) <=> Logged(rows, r) \/ r = id
    BY <2>2, <2>3 DEF Logged
  <2>5. \A i \in DOMAIN new : \/ i \in DOMAIN rows /\ new[i] = rows[i]
                              \/ new[i].id = id /\ new[i].body = body
    BY <2>2, <2>3
  <2> QED
    BY <1>4, <2>2, <2>3, <2>4, <2>5 DEF new
<1> QED
  BY <1>3, <1>4

-----------------------------------------------------------------------------
(* What no step does *)

\* The audit forgets nothing, and a report queued once and only once gets no
\* new row ahead of it.
Kept ==
  /\ \A r : Logged(log, r) => Logged(log', r)
  /\ \A r \in Reports : version[r] > 0 /\ version'[r] = 1 =>
       /\ version[r] = 1
       /\ \A x \in Reports : Ahead(x, r)' => Ahead(x, r)

LEMMA KeptClear ==
  ASSUME Kept, NEW r \in Reports, version[r] > 0, NEW S, Clear(r, S),
         NEW T, \A x \in S : x \in T \/ Logged(log', x)
  PROVE  version'[r] = 1 =>
           \A x \in Reports : Ahead(x, r)' => Logged(log', x) \/ x \in T
BY DEF Kept, Clear

\* A report that is logged, late or in a batch was queued.
LEMMA WasQueued ==
  ASSUME TypeOK, Known
  PROVE  /\ \A r : Logged(log, r) => r \in Reports /\ version[r] > 0
         /\ \A m \in late : m.id \in Reports /\ version[m.id] > 0
         /\ \A a \in Agents : \A k \in DOMAIN batch[a] :
              batch[a][k].id \in Reports /\ version[batch[a][k].id] > 0
<1>1. \A m \in Item : m.id \in Reports /\ m.body \in Nat /\ m.body > 0
  BY MaxQueuedAssumption DEF Item, Body
<1>2. \A r \in Reports : version[r] \in Int
  BY DEF TypeOK
<1>3. ASSUME NEW r, Logged(log, r)
      PROVE  r \in Reports /\ version[r] > 0
  <2>1. PICK i \in DOMAIN log : log[i].id = r
    BY <1>3 DEF Logged
  <2>2. log[i] \in Row
    BY DEF TypeOK
  <2>3. log[i].id \in Reports /\ log[i].body \in Nat /\ log[i].body > 0
    BY <2>2, MaxQueuedAssumption DEF Row, Body
  <2>4. log[i].body <= version[log[i].id]
    BY DEF Known
  <2> QED
    BY <1>2, <2>1, <2>3, <2>4
<1>4. ASSUME NEW m \in late
      PROVE  m.id \in Reports /\ version[m.id] > 0
  <2>1. m \in Item /\ m.body <= version[m.id]
    BY DEF TypeOK, Known
  <2> QED
    BY <1>1, <1>2, <2>1
<1>5. ASSUME NEW a \in Agents, NEW k \in DOMAIN batch[a]
      PROVE  batch[a][k].id \in Reports /\ version[batch[a][k].id] > 0
  <2>1. batch[a][k] \in Item /\ batch[a][k].body <= version[batch[a][k].id]
    BY DEF TypeOK, Known
  <2> QED
    BY <1>1, <1>2, <2>1
<1> QED
  BY <1>3, <1>4, <1>5

\* Every row of a batch after the step is clear but for rows sent before it, or
\* logged by now.
BatchClear ==
  \A a \in Agents : \A k \in DOMAIN batch'[a] :
    LET r == batch'[a][k].id IN
    /\ r \in Reports /\ version[r] > 0
    /\ \E S : Clear(r, S) /\ \A x \in S : x \in SentBefore(a, k)' \/ Logged(log', x)

LEMMA KeptOrdered ==
  ASSUME TypeOK, Known, Ordered, Kept, BatchClear,
         \A r : Logged(log', r) => Logged(log, r) \/ /\ r \in Reports /\ version[r] > 0
                                                     /\ Clear(r, {}),
         \A m \in late' : m \in late \/ /\ m.id \in Reports /\ version[m.id] > 0
                                        /\ Clear(m.id, {})
  PROVE  Ordered'
<1>1. ASSUME NEW r \in Reports, Logged(log', r)
      PROVE  Clear(r, {})'
  <2>1. version[r] > 0 /\ Clear(r, {})
    BY <1>1, WasQueued DEF Ordered
  <2>2. \A x \in {} : x \in {} \/ Logged(log', x)
    OBVIOUS
  <2>3. version'[r] = 1 =>
          \A x \in Reports : Ahead(x, r)' => Logged(log', x) \/ x \in {}
    BY <2>1, <2>2, KeptClear
  <2> QED
    BY <2>3 DEF Clear
<1>2. ASSUME NEW m \in late'
      PROVE  Clear(m.id, {})'
  <2>1. m.id \in Reports /\ version[m.id] > 0 /\ Clear(m.id, {})
    BY <1>2, WasQueued DEF Ordered
  <2>2. \A x \in {} : x \in {} \/ Logged(log', x)
    OBVIOUS
  <2>3. version'[m.id] = 1 =>
          \A x \in Reports : Ahead(x, m.id)' => Logged(log', x) \/ x \in {}
    BY <2>1, <2>2, KeptClear
  <2> QED
    BY <2>3 DEF Clear
<1>3. ASSUME NEW a \in Agents, NEW k \in DOMAIN batch'[a]
      PROVE  Clear(batch[a][k].id, SentBefore(a, k))'
  <2>1. batch'[a][k].id \in Reports /\ version[batch'[a][k].id] > 0
    BY DEF BatchClear
  <2>2. PICK S : /\ Clear(batch'[a][k].id, S)
                 /\ \A x \in S : x \in SentBefore(a, k)' \/ Logged(log', x)
    BY DEF BatchClear
  <2> QED
    BY <2>1, <2>2, KeptClear DEF Clear
<1> QED
  BY <1>1, <1>2, <1>3 DEF Ordered

LEMMA BatchUnchanged ==
  ASSUME TypeOK, Known, Ordered, UNCHANGED batch
  PROVE  BatchClear
<1> SUFFICES ASSUME NEW a \in Agents, NEW k \in DOMAIN batch'[a]
             PROVE  /\ batch[a][k].id \in Reports /\ version[batch[a][k].id] > 0
                    /\ Clear(batch[a][k].id, SentBefore(a, k))
                    /\ SentBefore(a, k)' = SentBefore(a, k)
  BY DEF BatchClear
<1> QED
  BY WasQueued DEF Ordered, SentBefore

\* A batch is given up.
LEMMA BatchDropped ==
  ASSUME TypeOK, Known, Ordered, NEW a \in Agents,
         batch' = [batch EXCEPT ![a] = <<>>]
  PROVE  /\ BatchClear
         /\ batch' \in [Agents -> Seq(Item)]
         /\ \A b \in Agents : \A k \in DOMAIN batch'[b] :
              k \in DOMAIN batch[b] /\ batch'[b][k] = batch[b][k]
<1>1. batch' \in [Agents -> Seq(Item)] /\ batch'[a] = <<>>
      /\ \A b \in Agents : b # a => batch'[b] = batch[b]
  BY DEF TypeOK
<1>2. BatchClear
  <2> SUFFICES ASSUME NEW b \in Agents, NEW k \in DOMAIN batch'[b]
               PROVE  /\ batch'[b][k].id \in Reports /\ version[batch'[b][k].id] > 0
                      /\ Clear(batch'[b][k].id, SentBefore(b, k))
                      /\ SentBefore(b, k)' = SentBefore(b, k)
    BY DEF BatchClear
  <2>1. b # a /\ batch'[b] = batch[b]
    BY <1>1
  <2> QED
    BY <2>1, WasQueued DEF Ordered, SentBefore
<1> QED
  BY <1>1, <1>2

\* The head of a batch is done with, and logged.
LEMMA BatchTail ==
  ASSUME TypeOK, Known, Ordered, NEW a \in Agents, batch[a] # <<>>,
         Logged(log', Head(batch[a]).id),
         batch' = [batch EXCEPT ![a] = Tail(@)]
  PROVE  /\ BatchClear
         /\ batch' \in [Agents -> Seq(Item)]
         /\ \A b \in Agents : \A k \in DOMAIN batch'[b] :
              \E l \in DOMAIN batch[b] : batch'[b][k] = batch[b][l]
<1>1. /\ batch[a] \in Seq(Item)
      /\ batch' \in [Agents -> Seq(Item)] /\ batch'[a] = Tail(batch[a])
      /\ \A b \in Agents : b # a => batch'[b] = batch[b]
  BY HeadAndTail DEF TypeOK
<1>2. /\ Head(batch[a]) = batch[a][1]
      /\ \A k \in DOMAIN batch'[a] : /\ k \in 1..Len(batch'[a])
                                     /\ k + 1 \in DOMAIN batch[a]
                                     /\ batch'[a][k] = batch[a][k + 1]
  BY <1>1, HeadAndTail
<1>3. ASSUME NEW b \in Agents, NEW k \in DOMAIN batch'[b]
      PROVE  /\ batch'[b][k].id \in Reports /\ version[batch'[b][k].id] > 0
             /\ \E S : /\ Clear(batch'[b][k].id, S)
                       /\ \A x \in S : x \in SentBefore(b, k)' \/ Logged(log', x)
  <2>1. CASE b # a
    <3>1. batch'[b] = batch[b] /\ SentBefore(b, k)' = SentBefore(b, k)
      BY <1>1, <2>1 DEF SentBefore
    <3>2. Clear(batch[b][k].id, SentBefore(b, k))
      BY <3>1 DEF Ordered
    <3> QED
      BY <3>1, <3>2, WasQueued
  <2>2. CASE b = a
    <3>1. /\ k \in 1..Len(batch'[a]) /\ k + 1 \in DOMAIN batch[a]
          /\ batch'[a][k] = batch[a][k + 1]
      BY <1>2, <2>2
    <3>2. Clear(batch[a][k + 1].id, SentBefore(a, k + 1))
      BY <3>1 DEF Ordered
    <3>3. ASSUME NEW x \in SentBefore(a, k + 1)
          PROVE  x \in SentBefore(a, k)' \/ Logged(log', x)
      <4>1. PICK l \in 1..((k + 1) - 1) : x = batch[a][l].id
        BY DEF SentBefore
      <4>2. CASE l = 1
        BY <1>2, <4>1, <4>2
      <4>3. CASE l # 1
        <5>1. l - 1 \in 1..(k - 1) /\ l - 1 \in DOMAIN batch'[a] /\ (l - 1) + 1 = l
          BY <1>1, <3>1, <4>1, <4>3
        <5>2. x = batch'[a][l - 1].id
          BY <1>2, <4>1, <5>1
        <5> QED
          BY <5>1, <5>2 DEF SentBefore
      <4> QED
        BY <4>2, <4>3
    <3> QED
      BY <2>2, <3>1, <3>2, <3>3, WasQueued
  <2> QED
    BY <2>1, <2>2
<1>4. BatchClear
  BY <1>3 DEF BatchClear
<1> QED
  BY <1>1, <1>2, <1>4

-----------------------------------------------------------------------------
(* One lemma per action, or per group of actions that do the same *)

LEMMA QueueStep ==
  ASSUME DeliveryInv, NEW r \in Reports, Queue(r)
  PROVE  DeliveryInv'
<1> DEFINE a == Origin[r]
<1> USE DEF DeliveryInv
<1>1. /\ a \in Agents
      /\ version' = [version EXCEPT ![r] = @ + 1]
      /\ queued < MaxQueued /\ queued' = queued + 1
      /\ UNCHANGED <<up, batch, call, late, log, crashes>>
  BY OriginAssumption DEF Queue
<1>2. /\ \A q \in Reports : version[q] \in Nat /\ version[q] <= queued
      /\ queued \in Nat /\ MaxQueued \in Nat
      /\ outbox \in [Agents -> Seq(Reports)] /\ outbox[a] \in Seq(Reports)
      /\ Distinct(outbox[a])
  BY <1>1, MaxQueuedAssumption DEF TypeOK, Counted, Keyed
<1>3. /\ version'[r] = version[r] + 1
      /\ \A q \in Reports : q # r => version'[q] = version[q]
      /\ \A q \in Reports : version'[q] >= version[q] /\ version'[q] \in 0..MaxQueued
      /\ version' \in [Reports -> 0..MaxQueued]
  BY <1>1, <1>2 DEF TypeOK
<1>4. /\ outbox' \in [Agents -> Seq(Reports)]
      /\ \A b \in Agents : /\ Distinct(outbox'[b])
                           /\ \A x : Contains(outbox[b], x) => Contains(outbox'[b], x)
                           /\ \A i \in DOMAIN outbox'[b] :
                                \/ \E j \in DOMAIN outbox[b] : outbox'[b][i] = outbox[b][j]
                                \/ b = a /\ outbox'[b][i] = r
      /\ Contains(outbox'[a], r)
      /\ second' \in [Reports -> Nat]
      /\ \A q \in Reports, x \in Reports : q # r /\ Ahead(x, q)' => Ahead(x, q)
  <2>1. CASE Contains(outbox[a], r)
    <3>1. outbox' = outbox /\ second' = second
      BY <2>1 DEF Queue
    <3>2. \A q \in Reports, x \in Reports : Ahead(x, q)' => Ahead(x, q)
      BY <3>1 DEF Ahead
    <3> QED
      BY <1>2, <2>1, <3>1, <3>2 DEF Keyed, TypeOK
  <2>2. CASE ~Contains(outbox[a], r)
    <3>1. PICK now \in Clock(a), k \in 1..(Len(outbox[a]) + 1) :
            /\ \A i \in k..Len(outbox[a]) : second[outbox[a][i]] = now
            /\ second' = [second EXCEPT ![r] = now]
            /\ outbox' = [outbox EXCEPT ![a] = InsertAt(@, k, r)]
      BY <2>2 DEF Queue, Insert
    <3> DEFINE t == InsertAt(outbox[a], k, r)
    <3>2. /\ t \in Seq(Reports) /\ Distinct(t) /\ Contains(t, r)
          /\ \A x : Contains(outbox[a], x) => Contains(t, x)
          /\ \A i \in DOMAIN t : (\E j \in DOMAIN outbox[a] : t[i] = outbox[a][j]) \/ t[i] = r
          /\ \A x, y : Before(t, x, y) =>
               \/ Before(outbox[a], x, y) /\ x # r /\ y # r
               \/ y = r
               \/ x = r /\ \E i \in k..Len(outbox[a]) : outbox[a][i] = y
      <4>1. /\ outbox[a] \in Seq(Reports) /\ r \in Reports /\ Distinct(outbox[a])
            /\ ~Contains(outbox[a], r) /\ k \in 1..(Len(outbox[a]) + 1)
        BY <1>2, <2>2
      <4> HIDE DEF a
      <4> QED
        BY <4>1, InsertedRows
    <3>3. now \in Nat
      <4>1. CASE outbox[a] = <<>>
        BY <4>1 DEF Clock
      <4>2. CASE outbox[a] # <<>>
        <5>1. Last(outbox[a]) \in Reports
          BY <1>2, <4>2, EmptySeq, ElementOfSeq DEF Last
        <5> QED
          BY <4>2, <5>1 DEF Clock, TypeOK
      <4> QED
        BY <4>1, <4>2
    <3>4. /\ outbox' \in [Agents -> Seq(Reports)] /\ outbox'[a] = t
          /\ \A b \in Agents : b # a => outbox'[b] = outbox[b]
      BY <1>1, <1>2, <3>1, <3>2
    <3>5. /\ second' \in [Reports -> Nat] /\ second'[r] = now
          /\ \A q \in Reports : q # r => second'[q] = second[q]
      BY <3>1, <3>3 DEF TypeOK
    <3>6. ASSUME NEW q \in Reports, NEW x \in Reports, q # r, Ahead(x, q)'
          PROVE  Ahead(x, q)
      <4>1. Before(outbox'[Origin[q]], x, q) /\ second'[x] # second'[q] /\ Origin[q] \in Agents
        BY <3>6, OriginAssumption DEF Ahead
      <4>2. CASE Origin[q] = a
        <5>1. CASE Before(outbox[a], x, q) /\ x # r
          BY <3>5, <3>6, <4>1, <4>2, <5>1 DEF Ahead
        <5>2. ASSUME x = r, NEW i \in k..Len(outbox[a]), outbox[a][i] = q
              PROVE  FALSE
          BY <3>1, <3>5, <3>6, <4>1, <5>2
        <5>3. Before(t, x, q)
          BY <3>4, <4>1, <4>2
        <5> HIDE DEF t
        <5> QED
          BY <3>2, <3>6, <5>1, <5>2, <5>3
      <4>3. CASE Origin[q] # a
        <5>1. Before(outbox[Origin[q]], x, q)
          BY <3>4, <4>1, <4>3
        <5>2. x # r
          BY <4>1, <4>3, <5>1 DEF Before, Keyed
        <5> QED
          BY <3>5, <3>6, <4>1, <5>1, <5>2 DEF Ahead
      <4> QED
        BY <4>2, <4>3
    <3> HIDE DEF t, a
    <3> QED
      BY <1>1, <3>2, <3>4, <3>5, <3>6 DEF Keyed
  <2> QED
    BY <2>1, <2>2
<1> HIDE DEF a
<1>5. TypeOK'
  BY <1>1, <1>2, <1>3, <1>4 DEF TypeOK
<1>6. Counted'
  BY <1>1, <1>2, <1>3 DEF Counted
<1>7. Keyed'
  <2> SUFFICES ASSUME NEW b \in Agents, NEW i \in DOMAIN outbox'[b]
               PROVE  Origin[outbox'[b][i]] = b /\ version'[outbox'[b][i]] > 0
    BY <1>4 DEF Keyed
  <2>1. CASE b = a /\ outbox'[b][i] = r
    BY <1>2, <1>3, <2>1 DEF a
  <2>2. ASSUME NEW j \in DOMAIN outbox[b], outbox'[b][i] = outbox[b][j]
        PROVE  Origin[outbox'[b][i]] = b /\ version'[outbox'[b][i]] > 0
    <3>1. outbox[b][j] \in Reports
      BY <1>2
    <3>2. Origin[outbox[b][j]] = b /\ version[outbox[b][j]] > 0
      BY DEF Keyed
    <3> QED
      BY <1>2, <1>3, <2>2, <3>1, <3>2
  <2> QED
    BY <1>4, <2>1, <2>2
<1>8. Known'
  <2>1. \A m \in Item : m.id \in Reports /\ m.body \in Int
    BY MaxQueuedAssumption DEF Item, Body
  <2>2. \A m \in Row : m.id \in Reports /\ m.body \in Int
    BY MaxQueuedAssumption DEF Row, Body
  <2>3. \A b \in Agents : \A k \in DOMAIN batch[b] : batch[b][k] \in Item
    BY DEF TypeOK
  <2>4. \A i \in DOMAIN log : log[i] \in Row
    BY DEF TypeOK
  <2>5. \A m \in late : m \in Item
    BY DEF TypeOK
  <2>6. \A q \in Reports : version[q] \in Int /\ version'[q] \in Int /\ version'[q] >= version[q]
    BY <1>2, <1>3
  <2>7. \A q \in Reports, n \in Int : n <= version[q] => n <= version'[q]
    BY <2>6
  <2> QED
    BY <1>1, <2>1, <2>2, <2>3, <2>4, <2>5, <2>7 DEF Known
<1>9. Answered'
  BY <1>1 DEF Answered
<1>10. NothingLost'
  <2> SUFFICES ASSUME NEW q \in Reports, version'[q] > 0
               PROVE  Contains(outbox'[Origin[q]], q) \/ Logged(log', q)
    BY DEF NothingLost
  <2>1. CASE q = r
    BY <1>4, <2>1 DEF a
  <2>2. CASE q # r
    <3>1. version[q] > 0 /\ Origin[q] \in Agents
      BY <1>3, <2>2, OriginAssumption
    <3>2. Contains(outbox[Origin[q]], q) \/ Logged(log, q)
      BY <3>1 DEF NothingLost
    <3> QED
      BY <1>1, <1>4, <3>1, <3>2
  <2> QED
    BY <2>1, <2>2
<1>11. Kept
  <2>1. \A q : Logged(log, q) => Logged(log', q)
    BY <1>1
  <2>2. ASSUME NEW q \in Reports, version[q] > 0, version'[q] = 1
        PROVE  /\ version[q] = 1
               /\ \A x \in Reports : Ahead(x, q)' => Ahead(x, q)
    <3>1. q # r
      BY <1>2, <1>3, <2>2
    <3> QED
      BY <1>3, <1>4, <2>2, <3>1
  <2> QED
    BY <2>1, <2>2 DEF Kept
<1>12. Ordered'
  BY <1>1, <1>11, BatchUnchanged, KeptOrdered
<1> QED
  BY <1>5, <1>6, <1>7, <1>8, <1>9, <1>10, <1>12

LEMMA OutboxUntouched ==
  ASSUME DeliveryInv, UNCHANGED <<outbox, second, version, queued>>,
         \A r : Logged(log, r) => Logged(log', r)
  PROVE  Counted' /\ Keyed' /\ NothingLost' /\ Kept
<1> USE DEF DeliveryInv
<1>1. Counted' /\ Keyed'
  BY DEF Counted, Keyed
<1>2. NothingLost'
  BY DEF NothingLost
<1>3. Kept
  BY DEF Kept, Ahead
<1> QED
  BY <1>1, <1>2, <1>3

LEMMA ListStep ==
  ASSUME DeliveryInv, NEW a \in Agents, List(a)
  PROVE  DeliveryInv'
<1> USE DEF DeliveryInv
<1> DEFINE n == IF Len(outbox[a]) < Limit THEN Len(outbox[a]) ELSE Limit
           rows == [i \in 1..n |-> [id |-> outbox[a][i], body |-> version[outbox[a][i]]]]
<1>1. /\ batch' = [batch EXCEPT ![a] = rows]
      /\ batch[a] = <<>> /\ outbox[a] # <<>>
      /\ UNCHANGED <<outbox, second, version, up, call, late, log, queued, crashes>>
  BY DEF List
<1>2. /\ outbox[a] \in Seq(Reports)
      /\ n \in Nat /\ n <= Len(outbox[a]) /\ n > 0
      /\ \A i \in 1..n : i \in DOMAIN outbox[a] /\ outbox[a][i] \in Reports
  <2>1. outbox[a] \in Seq(Reports)
    BY DEF TypeOK
  <2>2. Len(outbox[a]) \in Nat /\ Len(outbox[a]) > 0
    BY <1>1, <2>1, EmptySeq
  <2>3. n \in Nat /\ n <= Len(outbox[a]) /\ n > 0
    BY <2>2, LimitAssumption
  <2> HIDE DEF n
  <2> QED
    BY <2>1, <2>3
<1> HIDE DEF n
<1>3. \A i \in 1..n : /\ version[outbox[a][i]] \in Body
                      /\ Origin[outbox[a][i]] = a /\ version[outbox[a][i]] > 0
  BY <1>2, MaxQueuedAssumption DEF TypeOK, Keyed, Body
<1>4. /\ rows \in Seq(Item) /\ DOMAIN rows = 1..n
      /\ \A i \in 1..n : /\ rows[i].id = outbox[a][i]
                         /\ rows[i].body = version[outbox[a][i]]
  <2>1. rows \in [1..n -> Item]
    BY <1>2, <1>3 DEF Item
  <2>2. rows \in Seq(Item)
    BY <1>2, <2>1, SeqDef
  <2> QED
    BY <2>1, <2>2
<1> HIDE DEF rows
<1>5. /\ batch' \in [Agents -> Seq(Item)] /\ batch'[a] = rows
      /\ \A b \in Agents : b # a => batch'[b] = batch[b]
  BY <1>1, <1>4 DEF TypeOK
<1>6. Counted' /\ Keyed' /\ NothingLost' /\ Kept
  BY <1>1, OutboxUntouched
<1>7. TypeOK'
  BY <1>1, <1>5 DEF TypeOK
<1>8. Known'
  <2>1. \A b \in Agents : \A k \in DOMAIN batch'[b] :
          Origin[batch'[b][k].id] = b /\ batch'[b][k].body <= version[batch'[b][k].id]
    <3> SUFFICES ASSUME NEW b \in Agents, NEW k \in DOMAIN batch'[b]
                 PROVE  Origin[batch'[b][k].id] = b /\ batch'[b][k].body <= version[batch'[b][k].id]
      OBVIOUS
    <3>1. CASE b = a
      <4>1. version[outbox[a][k]] \in Int /\ Origin[outbox[a][k]] = a
        BY <1>3, <1>4, <1>5, <3>1 DEF Body
      <4> QED
        BY <1>4, <1>5, <3>1, <4>1
    <3>2. CASE b # a
      BY <1>5, <3>2 DEF Known
    <3> QED
      BY <3>1, <3>2
  <2> QED
    BY <1>1, <2>1 DEF Known
<1>9. Answered'
  <2>1. call[a] = "none"
    BY <1>1 DEF Answered
  <2> QED
    BY <1>1, <1>5, <2>1 DEF Answered
<1>10. BatchClear
  <2> SUFFICES ASSUME NEW b \in Agents, NEW k \in DOMAIN batch'[b]
               PROVE  /\ batch'[b][k].id \in Reports /\ version[batch'[b][k].id] > 0
                      /\ Clear(batch'[b][k].id, SentBefore(b, k)')
    BY DEF BatchClear
  <2>1. CASE b = a
    <3>1. k \in 1..n /\ batch'[a][k].id = outbox[a][k]
      BY <1>4, <1>5, <2>1
    <3>2. ASSUME NEW x, Before(outbox[a], x, outbox[a][k])
          PROVE  x \in SentBefore(a, k)'
      <4>1. PICK i \in DOMAIN outbox[a], j \in DOMAIN outbox[a] :
              i < j /\ outbox[a][i] = x /\ outbox[a][j] = outbox[a][k]
        BY <3>2 DEF Before
      <4>2. j = k
        BY <1>2, <3>1, <4>1 DEF Keyed, Distinct
      <4>3. i \in 1..(k - 1) /\ i \in 1..n
        BY <1>2, <3>1, <4>1, <4>2
      <4>4. batch'[a][i].id = x
        BY <1>4, <1>5, <4>1, <4>3
      <4> QED
        BY <4>3, <4>4 DEF SentBefore
    <3>3. Origin[outbox[a][k]] = a /\ version[outbox[a][k]] > 0 /\ outbox[a][k] \in Reports
      BY <1>2, <1>3, <3>1
    <3> QED
      BY <2>1, <3>1, <3>2, <3>3 DEF Clear, Ahead
  <2>2. CASE b # a
    <3>1. batch'[b] = batch[b] /\ SentBefore(b, k)' = SentBefore(b, k)
      BY <1>5, <2>2 DEF SentBefore
    <3> QED
      BY <3>1, WasQueued DEF Ordered
  <2> QED
    BY <2>1, <2>2
<1>11. Ordered'
  BY <1>1, <1>6, <1>10, KeptOrdered
<1> QED
  BY <1>6, <1>7, <1>8, <1>9, <1>11

\* Steps that only say how a call or an agent stands.
LEMMA CallStep ==
  ASSUME DeliveryInv, NEW a \in Agents, Send(a) \/ Restart(a) \/ HubRefuses(a)
  PROVE  DeliveryInv'
<1> USE DEF DeliveryInv
<1>1. UNCHANGED <<outbox, second, version, batch, late, log, queued, crashes>>
  BY DEF Send, Restart, HubRefuses
<1>2. Counted' /\ Keyed' /\ NothingLost' /\ Kept
  BY <1>1, OutboxUntouched
<1>3. TypeOK'
  BY DEF TypeOK, Send, Restart, HubRefuses
<1>4. Known'
  BY <1>1 DEF Known
<1>5. Answered'
  BY DEF Answered, TypeOK, Send, Restart, HubRefuses
<1>6. Ordered'
  BY <1>1, <1>2, BatchUnchanged, KeptOrdered
<1> QED
  BY <1>2, <1>3, <1>4, <1>5, <1>6

\* The request that may reach the hub later is the head of the batch.
LEMMA AbandonedLate ==
  ASSUME DeliveryInv, NEW a \in Agents, Abandon(a)
  PROVE  /\ late' \in SUBSET Item
         /\ \A m \in late' : m.body <= version[m.id]
         /\ \A m \in late' : m \in late \/ /\ m.id \in Reports /\ version[m.id] > 0
                                           /\ Clear(m.id, {})
<1> USE DEF DeliveryInv
<1>1. CASE UNCHANGED late
  BY <1>1 DEF TypeOK, Known
<1>2. CASE call[a] = "sent" /\ late' = late \cup {Head(batch[a])}
  <2>1. batch[a] \in Seq(Item) /\ batch[a] # <<>>
    BY <1>2 DEF TypeOK, Answered
  <2>2. Head(batch[a]) = batch[a][1] /\ 1 \in DOMAIN batch[a] /\ batch[a][1] \in Item
    BY <2>1, HeadAndTail
  <2>3. SentBefore(a, 1) = {}
    BY DEF SentBefore
  <2>4. /\ batch[a][1].body <= version[batch[a][1].id]
        /\ batch[a][1].id \in Reports /\ version[batch[a][1].id] > 0
        /\ Clear(batch[a][1].id, {})
    BY <2>2, <2>3, WasQueued DEF Known, Ordered
  <2> QED
    BY <1>2, <2>2, <2>4 DEF TypeOK, Known
<1> QED
  BY <1>1, <1>2 DEF Abandon

LEMMA GiveUpStep ==
  ASSUME DeliveryInv, NEW a \in Agents, SendFails(a) \/ Crash(a)
  PROVE  DeliveryInv'
<1> USE DEF DeliveryInv
<1>1. /\ Abandon(a)
      /\ batch' = [batch EXCEPT ![a] = <<>>]
      /\ call' = [call EXCEPT ![a] = "none"]
      /\ UNCHANGED <<outbox, second, version, log, queued>>
  BY DEF SendFails, Crash
<1>2. Counted' /\ Keyed' /\ NothingLost' /\ Kept
  BY <1>1, OutboxUntouched
<1>3. /\ BatchClear
      /\ batch' \in [Agents -> Seq(Item)]
      /\ \A b \in Agents : \A k \in DOMAIN batch'[b] :
           k \in DOMAIN batch[b] /\ batch'[b][k] = batch[b][k]
  BY <1>1, BatchDropped
<1>4. /\ late' \in SUBSET Item
      /\ \A m \in late' : m.body <= version[m.id]
      /\ \A m \in late' : m \in late \/ /\ m.id \in Reports /\ version[m.id] > 0
                                        /\ Clear(m.id, {})
  BY <1>1, AbandonedLate
<1>5. TypeOK'
  <2>1. up' \in [Agents -> BOOLEAN] /\ crashes' \in 0..MaxCrashes
    <3>1. up \in [Agents -> BOOLEAN] /\ crashes \in 0..MaxCrashes
      BY DEF TypeOK
    <3>2. CASE SendFails(a)
      BY <3>1, <3>2 DEF SendFails
    <3>3. CASE Crash(a)
      <4>1. up' = [up EXCEPT ![a] = FALSE] /\ crashes < MaxCrashes /\ crashes' = crashes + 1
        BY <3>3 DEF Crash
      <4> QED
        BY <3>1, <4>1, MaxCrashesAssumption
    <3> QED
      BY <3>2, <3>3
  <2>2. call' \in [Agents -> {"none", "sent", "ok", "error"}]
    BY <1>1 DEF TypeOK
  <2> QED
    BY <1>1, <1>3, <1>4, <2>1, <2>2 DEF TypeOK
<1>6. Known'
  BY <1>1, <1>3, <1>4 DEF Known
<1>7. Answered'
  BY <1>1 DEF Answered, TypeOK
<1>8. Ordered'
  BY <1>1, <1>2, <1>3, <1>4, KeptOrdered
<1> QED
  BY <1>2, <1>5, <1>6, <1>7, <1>8

LEMMA DeleteFailsStep ==
  ASSUME DeliveryInv, NEW a \in Agents, DeleteFails(a)
  PROVE  DeliveryInv'
<1> USE DEF DeliveryInv
<1>1. /\ call[a] = "ok"
      /\ batch' = [batch EXCEPT ![a] = Tail(@)]
      /\ call' = [call EXCEPT ![a] = "none"]
      /\ UNCHANGED <<outbox, second, version, up, late, log, queued, crashes>>
  BY DEF DeleteFails
<1>2. Counted' /\ Keyed' /\ NothingLost' /\ Kept
  BY <1>1, OutboxUntouched
<1>3. batch[a] # <<>> /\ Logged(log', Head(batch[a]).id)
  BY <1>1 DEF Answered
<1>4. /\ BatchClear
      /\ batch' \in [Agents -> Seq(Item)]
      /\ \A b \in Agents : \A k \in DOMAIN batch'[b] :
           \E l \in DOMAIN batch[b] : batch'[b][k] = batch[b][l]
  BY <1>1, <1>3, BatchTail
<1>5. TypeOK'
  BY <1>1, <1>4 DEF TypeOK
<1>6. Known'
  BY <1>1, <1>4 DEF Known
<1>7. Answered'
  BY <1>1 DEF Answered, TypeOK
<1>8. Ordered'
  BY <1>1, <1>2, <1>4, KeptOrdered
<1> QED
  BY <1>2, <1>5, <1>6, <1>7, <1>8

LEMMA DeliveredStep ==
  ASSUME DeliveryInv, NEW a \in Agents, Delivered(a)
  PROVE  DeliveryInv'
<1> USE DEF DeliveryInv
<1> DEFINE r == Head(batch[a]).id
           t == DeleteOutbox(outbox[a], r)
<1>1. /\ call[a] = "ok"
      /\ outbox' = [outbox EXCEPT ![a] = t]
      /\ batch' = [batch EXCEPT ![a] = Tail(@)]
      /\ call' = [call EXCEPT ![a] = "none"]
      /\ second' = [second EXCEPT ![r] = 0]
      /\ UNCHANGED <<version, up, late, log, queued, crashes>>
  BY DEF Delivered
<1>2. batch[a] # <<>> /\ Logged(log', r)
  BY <1>1 DEF Answered
<1>3. /\ t \in Seq(Reports) /\ Distinct(t)
      /\ \A i \in DOMAIN t : \E j \in DOMAIN outbox[a] : t[i] = outbox[a][j]
      /\ \A x : Contains(outbox[a], x) /\ x # r => Contains(t, x)
      /\ \A x, y : Before(t, x, y) => Before(outbox[a], x, y) /\ x # r /\ y # r
  BY DeleteOutboxRows DEF TypeOK, Keyed
<1> HIDE DEF r, t
<1>4. /\ outbox' \in [Agents -> Seq(Reports)] /\ outbox'[a] = t
      /\ \A b \in Agents : b # a => outbox'[b] = outbox[b]
  BY <1>1, <1>3 DEF TypeOK
<1>5. /\ BatchClear
      /\ batch' \in [Agents -> Seq(Item)]
      /\ \A b \in Agents : \A k \in DOMAIN batch'[b] :
           \E l \in DOMAIN batch[b] : batch'[b][k] = batch[b][l]
  BY <1>1, <1>2, BatchTail DEF r
<1>6. TypeOK'
  BY <1>1, <1>4, <1>5 DEF TypeOK
<1>7. Counted' /\ Known'
  BY <1>1, <1>5 DEF Counted, Known
<1>8. Keyed'
  <2> SUFFICES ASSUME NEW b \in Agents
               PROVE  /\ Distinct(outbox'[b])
                      /\ \A i \in DOMAIN outbox'[b] : Origin[outbox'[b][i]] = b
                                                      /\ version[outbox'[b][i]] > 0
    BY <1>1 DEF Keyed
  <2>1. CASE b = a
    BY <1>3, <1>4, <2>1 DEF Keyed
  <2>2. CASE b # a
    BY <1>4, <2>2 DEF Keyed
  <2> QED
    BY <2>1, <2>2
<1>9. Answered'
  BY <1>1 DEF Answered, TypeOK
<1>10. NothingLost'
  <2> SUFFICES ASSUME NEW q \in Reports, version[q] > 0
               PROVE  Contains(outbox'[Origin[q]], q) \/ Logged(log', q)
    BY <1>1 DEF NothingLost
  <2>1. Contains(outbox[Origin[q]], q) \/ Logged(log, q)
    BY DEF NothingLost
  <2>2. Origin[q] \in Agents /\ log' = log
    BY <1>1, OriginAssumption
  <2>3. CASE Origin[q] = a
    BY <1>2, <1>3, <1>4, <2>1, <2>2, <2>3
  <2>4. CASE Origin[q] # a
    BY <1>4, <2>1, <2>2, <2>4
  <2> QED
    BY <2>3, <2>4
<1>11. Kept
  <2> SUFFICES ASSUME NEW q \in Reports, NEW x \in Reports, Ahead(x, q)'
               PROVE  Ahead(x, q)
    BY <1>1 DEF Kept
  <2>1. Before(outbox'[Origin[q]], x, q) /\ second'[x] # second'[q] /\ Origin[q] \in Agents
    BY OriginAssumption DEF Ahead
  <2>2. Before(outbox[Origin[q]], x, q) /\ x # r /\ q # r
    <3>1. CASE Origin[q] = a
      BY <1>3, <1>4, <2>1, <3>1
    <3>2. CASE Origin[q] # a
      <4>1. Before(outbox[Origin[q]], x, q)
        BY <1>4, <2>1, <3>2
      <4>2. Origin[r] = a
        BY <1>2, HeadAndTail DEF r, TypeOK, Known
      <4>3. Origin[x] = Origin[q]
        BY <2>1, <4>1 DEF Before, Keyed
      <4> QED
        BY <3>2, <4>1, <4>2, <4>3
    <3> QED
      BY <3>1, <3>2
  <2>3. second'[x] = second[x] /\ second'[q] = second[q]
    BY <1>1, <2>2 DEF TypeOK
  <2> QED
    BY <2>1, <2>2, <2>3 DEF Ahead
<1>12. Ordered'
  BY <1>1, <1>5, <1>11, KeptOrdered
<1> QED
  BY <1>6, <1>7, <1>8, <1>9, <1>10, <1>12

\* A payload that was queued, and with nothing to overtake, enters the audit.
LEMMA ReportLogged ==
  ASSUME DeliveryInv, NEW m \in Item,
         m.body <= version[m.id], Clear(m.id, {}),
         log' = AppendReport(log, m.id, m.body),
         late' \subseteq late,
         UNCHANGED <<outbox, second, version, batch, queued>>
  PROVE  /\ log' \in Seq(Row)
         /\ Logged(log', m.id)
         /\ \A r : Logged(log, r) => Logged(log', r)
         /\ Counted' /\ Keyed' /\ NothingLost' /\ Known' /\ Ordered'
<1> USE DEF DeliveryInv
<1>1. m.id \in Reports /\ m.body \in Body
  BY DEF Item
<1>2. /\ log' \in Seq(Row)
      /\ \A r : Logged(log', r) <=> Logged(log, r) \/ r = m.id
      /\ \A i \in DOMAIN log' : \/ i \in DOMAIN log /\ log'[i] = log[i]
                                \/ log'[i].id = m.id /\ log'[i].body = m.body
  BY <1>1, AppendReportRows DEF TypeOK
<1>3. Counted' /\ Keyed' /\ NothingLost' /\ Kept
  BY <1>2, OutboxUntouched
<1>4. Known'
  <2>1. \A i \in DOMAIN log' : log'[i].body <= version[log'[i].id]
    BY <1>2 DEF Known
  <2> QED
    BY <2>1 DEF Known
<1>5. version[m.id] > 0
  <2>1. version[m.id] \in Int /\ m.body \in Int /\ m.body > 0
    BY <1>1, MaxQueuedAssumption DEF TypeOK, Body
  <2> QED
    BY <2>1
<1>6. Ordered'
  BY <1>1, <1>2, <1>3, <1>5, BatchUnchanged, KeptOrdered
<1> QED
  BY <1>2, <1>3, <1>4, <1>6

LEMMA HubAcceptsStep ==
  ASSUME DeliveryInv, NEW a \in Agents, HubAccepts(a)
  PROVE  DeliveryInv'
<1> USE DEF DeliveryInv
<1> DEFINE m == Head(batch[a])
<1>1. /\ call[a] = "sent"
      /\ log' = AppendReport(log, m.id, m.body)
      /\ call' = [call EXCEPT ![a] = "ok"]
      /\ UNCHANGED <<outbox, second, version, up, batch, late, queued, crashes>>
  BY DEF HubAccepts
<1>2. batch[a] \in Seq(Item) /\ batch[a] # <<>>
  BY <1>1 DEF TypeOK, Answered
<1>3. m = batch[a][1] /\ 1 \in DOMAIN batch[a] /\ m \in Item
  BY <1>2, HeadAndTail
<1> HIDE DEF m
<1>4. SentBefore(a, 1) = {}
  BY DEF SentBefore
<1>5. m.body <= version[m.id] /\ Clear(m.id, {})
  BY <1>3, <1>4 DEF Known, Ordered
<1>6. /\ log' \in Seq(Row)
      /\ Logged(log', m.id)
      /\ \A r : Logged(log, r) => Logged(log', r)
      /\ Counted' /\ Keyed' /\ NothingLost' /\ Known' /\ Ordered'
  BY <1>1, <1>3, <1>5, ReportLogged
<1>7. TypeOK'
  BY <1>1, <1>6 DEF TypeOK
<1>8. Answered'
  <2> SUFFICES ASSUME NEW b \in Agents
               PROVE  /\ call'[b] # "none" => batch[b] # <<>>
                      /\ call'[b] = "ok" => Logged(log', Head(batch[b]).id)
    BY <1>1 DEF Answered
  <2>1. CASE b = a
    BY <1>2, <1>6, <2>1 DEF m
  <2>2. CASE b # a
    <3>1. call'[b] = call[b]
      BY <1>1, <2>2 DEF TypeOK
    <3> QED
      BY <1>6, <3>1 DEF Answered
  <2> QED
    BY <2>1, <2>2
<1> QED
  BY <1>6, <1>7, <1>8

LEMMA LateStep ==
  ASSUME DeliveryInv, NEW m \in late, HubAcceptsLate(m) \/ LoseLate(m)
  PROVE  DeliveryInv'
<1> USE DEF DeliveryInv
<1>1. /\ late' = late \ {m} /\ late' \in SUBSET Item
      /\ UNCHANGED <<outbox, second, version, up, batch, call, queued, crashes>>
  BY DEF HubAcceptsLate, LoseLate, TypeOK
<1>2. CASE HubAcceptsLate(m)
  <2>1. m \in Item /\ m.body <= version[m.id] /\ Clear(m.id, {})
    BY DEF TypeOK, Known, Ordered
  <2>2. log' = AppendReport(log, m.id, m.body)
    BY <1>2 DEF HubAcceptsLate
  <2>3. /\ log' \in Seq(Row)
        /\ \A r : Logged(log, r) => Logged(log', r)
        /\ Counted' /\ Keyed' /\ NothingLost' /\ Known' /\ Ordered'
    BY <1>1, <2>1, <2>2, ReportLogged
  <2>4. TypeOK' /\ Answered'
    BY <1>1, <2>3 DEF TypeOK, Answered
  <2> QED
    BY <2>3, <2>4
<1>3. CASE LoseLate(m)
  <2>1. log' = log
    BY <1>3 DEF LoseLate
  <2>2. Counted' /\ Keyed' /\ NothingLost' /\ Kept
    BY <1>1, <2>1, OutboxUntouched
  <2>3. TypeOK' /\ Known' /\ Answered'
    BY <1>1, <2>1 DEF TypeOK, Known, Answered
  <2>4. Ordered'
    BY <1>1, <2>1, <2>2, BatchUnchanged, KeptOrdered
  <2> QED
    BY <2>2, <2>3, <2>4
<1> QED
  BY <1>2, <1>3

-----------------------------------------------------------------------------
(* The invariant and what follows from it *)

LEMMA DeliveryInit == Init => DeliveryInv
<1> SUFFICES ASSUME Init PROVE DeliveryInv
  OBVIOUS
<1>1. TypeOK
  BY MaxQueuedAssumption, MaxCrashesAssumption DEF Init, TypeOK
<1>2. Counted /\ Keyed /\ Known /\ Answered /\ NothingLost
  BY DEF Init, Counted, Keyed, Distinct, Known, Answered, NothingLost
<1>3. Ordered
  BY DEF Init, Ordered, Logged
<1> QED
  BY <1>1, <1>2, <1>3 DEF DeliveryInv

LEMMA DeliveryStep == DeliveryInv /\ [Next]_vars => DeliveryInv'
<1> SUFFICES ASSUME DeliveryInv, [Next]_vars
             PROVE  DeliveryInv'
  OBVIOUS
<1>1. ASSUME NEW r \in Reports, Queue(r)
      PROVE  DeliveryInv'
  BY <1>1, QueueStep
<1>2. ASSUME NEW a \in Agents,
             \/ List(a) \/ Send(a) \/ Delivered(a) \/ SendFails(a) \/ DeleteFails(a)
             \/ Crash(a) \/ Restart(a) \/ HubAccepts(a) \/ HubRefuses(a)
      PROVE  DeliveryInv'
  BY <1>2, ListStep, CallStep, DeliveredStep, GiveUpStep, DeleteFailsStep, HubAcceptsStep
<1>3. ASSUME NEW m \in late, HubAcceptsLate(m) \/ LoseLate(m)
      PROVE  DeliveryInv'
  BY <1>3, LateStep
<1>4. CASE UNCHANGED vars
  <2>1. TypeOK' /\ Counted' /\ Keyed' /\ Known' /\ Answered' /\ NothingLost'
    BY <1>4 DEF vars, DeliveryInv, TypeOK, Counted, Keyed, Known, Answered, NothingLost
  <2>2. Ordered'
    BY <1>4 DEF vars, DeliveryInv, Ordered, Clear, Ahead, SentBefore
  <2> QED
    BY <2>1, <2>2 DEF DeliveryInv
<1> QED
  BY <1>1, <1>2, <1>3, <1>4 DEF Next

LEMMA DeliveryInvariant == Spec => []DeliveryInv
  BY DeliveryInit, DeliveryStep, PTL DEF Spec

\* Types, for every number of agents, reports, crashes and requests in flight.
THEOREM TypeCorrect == Spec => []TypeOK
<1>1. DeliveryInv => TypeOK
  BY DEF DeliveryInv
<1> QED
  BY <1>1, DeliveryInvariant, PTL

\* EnqueueOutbox .. DeleteOutbox: through crashes, lost answers and failed
\* deletes a queued report stays in the outbox until it is in the audit.
THEOREM NothingIsLost == Spec => []NothingLost
<1>1. DeliveryInv => NothingLost
  BY DEF DeliveryInv
<1> QED
  BY <1>1, DeliveryInvariant, PTL

\* The break after a failed Send keeps the order of the outbox in the audit, from
\* one second to the next, also when a request given up on arrives after the ones
\* sent later.
THEOREM OrderIsKept == Spec => []InOrder
<1>1. DeliveryInv => InOrder
  <2> SUFFICES ASSUME DeliveryInv, NEW a \in Agents,
                      NEW i \in DOMAIN outbox[a], NEW j \in DOMAIN outbox[a],
                      i < j, second[outbox[a][i]] # second[outbox[a][j]],
                      version[outbox[a][j]] = 1, Logged(log, outbox[a][j])
               PROVE  Logged(log, outbox[a][i])
    BY DEF InOrder
  <2>1. Origin[outbox[a][j]] = a /\ outbox[a][j] \in Reports /\ outbox[a][i] \in Reports
    BY DEF DeliveryInv, TypeOK, Keyed
  <2>2. Clear(outbox[a][j], {})
    BY <2>1 DEF DeliveryInv, Ordered
  <2>3. Ahead(outbox[a][i], outbox[a][j])
    BY <2>1 DEF Ahead, Before
  <2> QED
    BY <2>1, <2>2, <2>3 DEF Clear
<1> QED
  BY <1>1, DeliveryInvariant, PTL

-----------------------------------------------------------------------------
(* The refinement: each step submits, records or does nothing the log shows *)

\* The log as AuditLog sees it, and what was handed over for delivery.
Entries(rows) == [i \in DOMAIN rows |-> [id |-> rows[i].id, body |-> rows[i].body]]

Submitted == {m \in Item : m.body <= version[m.id]}

LEMMA EntriesOfAppend ==
  ASSUME NEW rows \in Seq(Row), NEW m \in Item, ~Logged(rows, m.id)
  PROVE  Entries(AppendReport(rows, m.id, m.body)) = Append(Entries(rows), m)
<1> DEFINE new == AppendReport(rows, m.id, m.body)
           old == Entries(rows)
<1>1. m.id \in Reports /\ m.body \in Body /\ m = [id |-> m.id, body |-> m.body]
  BY DEF Item
<1>2. /\ new \in Seq(Row)
      /\ Len(new) = Len(rows) + 1
      /\ \A i \in 1..Len(rows) : new[i] = rows[i]
      /\ new[Len(rows) + 1].id = m.id
      /\ new[Len(rows) + 1].body = m.body
  BY <1>1, AppendReportRows
<1>3. old \in Seq(Item) /\ Len(old) = Len(rows)
      /\ \A i \in 1..Len(rows) : old[i] = [id |-> rows[i].id, body |-> rows[i].body]
  <2>1. \A i \in 1..Len(rows) : rows[i] \in Row
    OBVIOUS
  <2>2. Len(rows) \in Nat /\ DOMAIN rows = 1..Len(rows)
    BY LenProperties
  <2>3. old \in [1..Len(rows) -> Item]
    BY <2>1, <2>2 DEF Entries, Row, Item
  <2>4. old \in Seq(Item)
    BY <2>2, <2>3, SeqDef
  <2> QED
    BY <2>2, <2>3, <2>4 DEF Entries
<1> HIDE DEF new, old
<1>4. /\ Append(old, m) \in Seq(Item)
      /\ Len(Append(old, m)) = Len(rows) + 1
      /\ \A i \in 1..Len(rows) : Append(old, m)[i] = old[i]
      /\ Append(old, m)[Len(rows) + 1] = m
  BY <1>3, AppendProperties
<1>5. Entries(new) \in Seq(Item) /\ Len(Entries(new)) = Len(rows) + 1
      /\ \A i \in 1..(Len(rows) + 1) : Entries(new)[i] = [id |-> new[i].id, body |-> new[i].body]
  <2>1. \A i \in 1..Len(new) : new[i] \in Row
    BY <1>2
  <2>2. Len(new) \in Nat /\ DOMAIN new = 1..Len(new)
    BY <1>2, LenProperties
  <2>3. Entries(new) \in [1..Len(new) -> Item]
    BY <2>1, <2>2 DEF Entries, Row, Item
  <2>4. Entries(new) \in Seq(Item)
    BY <2>2, <2>3, SeqDef
  <2> QED
    BY <1>2, <2>2, <2>3, <2>4 DEF Entries
<1>6. \A i \in 1..(Len(rows) + 1) : Entries(new)[i] = Append(old, m)[i]
  BY <1>1, <1>2, <1>3, <1>4, <1>5
<1>7. Entries(new) = Append(old, m)
  BY <1>4, <1>5, <1>6, SeqEqual
<1> QED
  BY <1>7 DEF new, old

LEMMA RecordOrStutter ==
  ASSUME DeliveryInv, NEW m \in Item, m.body <= version[m.id],
         log' = AppendReport(log, m.id, m.body), version' = version
  PROVE  [Audit!Next]_(Audit!vars)
<1>1. log \in Seq(Row) /\ m.id \in Reports /\ m.body \in Body
  BY DEF DeliveryInv, TypeOK, Item
<1>2. CASE Logged(log, m.id)
  <2>1. log' = log
    BY <1>1, <1>2, AppendReportRows
  <2> QED
    BY <2>1 DEF Audit!vars
<1>3. CASE ~Logged(log, m.id)
  <2>1. Entries(log') = Append(Entries(log), m)
    BY <1>1, <1>3, EntriesOfAppend
  <2>2. m \in Submitted /\ Submitted' = Submitted
    BY DEF Submitted
  <2>3. ~Audit!Recorded(m.id)
    BY <1>1, <1>3 DEF Audit!Recorded, Logged
  <2>4. Audit!Record(m)
    BY <2>1, <2>2, <2>3 DEF Audit!Record, Entries, Submitted
  <2>5. m \in Audit!Report
    BY DEF Audit!Report, Item
  <2> QED
    BY <2>4, <2>5 DEF Audit!Next
<1> QED
  BY <1>2, <1>3

LEMMA QueueSubmits ==
  ASSUME DeliveryInv, NEW r \in Reports, Queue(r), DeliveryInv'
  PROVE  [Audit!Next]_(Audit!vars)
<1>1. version' = [version EXCEPT ![r] = @ + 1] /\ log' = log
  BY DEF Queue
<1>2. version \in [Reports -> Nat] /\ version' \in [Reports -> 0..MaxQueued]
  BY MaxQueuedAssumption DEF DeliveryInv, TypeOK
<1>3. PICK m \in Item : m = [id |-> r, body |-> version[r] + 1]
  <2>1. version[r] + 1 = version'[r] /\ version[r] + 1 \in Body
    BY <1>1, <1>2, MaxQueuedAssumption DEF Body
  <2> QED
    BY <2>1 DEF Item
<1>4. Submitted' = Submitted \cup {m}
  <2>1. ASSUME NEW n \in Item
        PROVE  n.body <= version'[n.id] <=> n.body <= version[n.id] \/ n = m
    <3>1. n.id \in Reports /\ n.body \in Nat /\ n = [id |-> n.id, body |-> n.body]
      BY MaxQueuedAssumption DEF Item, Body
    <3>2. CASE n.id = r
      BY <1>1, <1>2, <1>3, <3>1, <3>2
    <3>3. CASE n.id # r
      BY <1>1, <1>2, <1>3, <3>1, <3>3
    <3> QED
      BY <3>2, <3>3
  <2> QED
    BY <1>3, <2>1 DEF Submitted
<1>5. Audit!Submit(m)
  BY <1>1, <1>4 DEF Audit!Submit, Submitted
<1>6. m \in Audit!Report
  BY <1>3 DEF Audit!Report, Item
<1> QED
  BY <1>5, <1>6 DEF Audit!Next

LEMMA AuditStep == DeliveryInv /\ DeliveryInv' /\ [Next]_vars => [Audit!Next]_(Audit!vars)
<1> SUFFICES ASSUME DeliveryInv, DeliveryInv', [Next]_vars
             PROVE  [Audit!Next]_(Audit!vars)
  OBVIOUS
<1>1. ASSUME NEW r \in Reports, Queue(r)
      PROVE  [Audit!Next]_(Audit!vars)
  BY <1>1, QueueSubmits
<1>2. ASSUME NEW a \in Agents, HubAccepts(a)
      PROVE  [Audit!Next]_(Audit!vars)
  <2>1. batch[a] \in Seq(Item) /\ batch[a] # <<>>
    BY <1>2 DEF HubAccepts, DeliveryInv, TypeOK, Answered
  <2>2. Head(batch[a]) = batch[a][1] /\ 1 \in DOMAIN batch[a] /\ Head(batch[a]) \in Item
    BY <2>1, HeadAndTail
  <2>3. Head(batch[a]).body <= version[Head(batch[a]).id]
    BY <2>2 DEF DeliveryInv, Known
  <2> QED
    BY <1>2, <2>2, <2>3, RecordOrStutter DEF HubAccepts
<1>3. ASSUME NEW m \in late, HubAcceptsLate(m)
      PROVE  [Audit!Next]_(Audit!vars)
  <2>1. m \in Item /\ m.body <= version[m.id]
    BY DEF DeliveryInv, TypeOK, Known
  <2> QED
    BY <1>3, <2>1, RecordOrStutter DEF HubAcceptsLate
<1>4. CASE UNCHANGED <<version, log>>
  BY <1>4 DEF Audit!vars
<1>5. ASSUME NEW a \in Agents,
             \/ List(a) \/ Send(a) \/ Delivered(a) \/ SendFails(a) \/ DeleteFails(a)
             \/ Crash(a) \/ Restart(a) \/ HubRefuses(a)
      PROVE  UNCHANGED <<version, log>>
  BY <1>5 DEF List, Send, Delivered, SendFails, DeleteFails, Crash, Restart, HubRefuses
<1>6. ASSUME NEW m \in late, LoseLate(m)
      PROVE  UNCHANGED <<version, log>>
  BY <1>6 DEF LoseLate
<1>7. CASE UNCHANGED vars
  BY <1>4, <1>7 DEF vars
<1> QED
  BY <1>1, <1>2, <1>3, <1>4, <1>5, <1>6, <1>7 DEF Next

\* outboxSender, handleReport and Append implement the log that is only appended
\* to and has each report once: every step submits a report, records one that was
\* submitted and is not in the log, or leaves the log's view as it is.
THEOREM ImplementsLog == Spec => Audit!Init /\ [][Audit!Next]_(Audit!vars)
<1>1. Init => Audit!Init
  <2> SUFFICES ASSUME Init PROVE Audit!Init
    OBVIOUS
  <2>1. {m \in Item : m.body <= version[m.id]} = {}
    BY MaxQueuedAssumption DEF Init, Item, Body
  <2>2. [i \in DOMAIN log |-> [id |-> log[i].id, body |-> log[i].body]] = <<>>
    BY DEF Init
  <2> QED
    BY <2>1, <2>2 DEF Audit!Init
<1> QED
  BY <1>1, AuditStep, DeliveryInvariant, PTL DEF Spec

=============================================================================
