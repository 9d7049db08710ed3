-------------------------- MODULE AuditChainProofs --------------------------
(***************************************************************************)
(* The hash chain, for a table of any length and any number of damaged      *)
(* rows: what Verify says is what happened, as long as no last row goes.    *)
(***************************************************************************)
EXTENDS AuditChain, SequenceTheorems, WellFoundedInduction, TLAPS

\* The first n bodies ever received, which is the hash of the n-th row.
Upto(n) == SubSeq(history, 1, n)

\* Each row carries the hash of all that was received up to it: no damage to a
\* payload touches it.
Chained ==
  \A i \in DOMAIN log :
    /\ log[i].nth <= Len(history)
    /\ log[i].prev = Upto(log[i].nth - 1)
    /\ log[i].hash = Upto(log[i].nth)

\* The last row ever received is there, so the next one is chained to it.
Ended ==
  history # <<>> => log # <<>> /\ log[Len(log)].nth = Len(history)

\* A table nothing happened to.
Undamaged ==
  damage = 0 => Len(log) = Len(history) /\ Intact(Len(log))

\* VerifyIsExact and FirstBreakIsNamed made inductive.
ChainInv == TypeOK /\ Chained /\ Ended /\ Undamaged

-----------------------------------------------------------------------------
(* Numbers and sequences *)

\* What stands in for induction over the rows: a first one that is otherwise.
LEMMA LeastNumber ==
  ASSUME NEW T \in SUBSET Nat, T # {}
  PROVE  \E x \in T : \A y \in T : x <= y
<1> DEFINE R == {ss \in Nat \X Nat : ss[1] < ss[2]}
<1>1. IsWellFoundedOn(R, Nat)
  BY NatLessThanWellFounded DEF OpToRel
<1>2. PICK x \in T : \A y \in T : <<y, x>> \notin R
  <2> HIDE DEF R
  <2> QED
    BY <1>1, WFMin
<1>3. \A y \in T : ~(y < x)
  BY <1>2
<1> QED
  BY <1>3

LEMMA PrefixRows ==
  ASSUME NEW S, NEW s \in Seq(S), NEW n \in 0..Len(s)
  PROVE  /\ SubSeq(s, 1, n) \in Seq(S)
         /\ Len(SubSeq(s, 1, n)) = n
         /\ \A i \in 1..n : SubSeq(s, 1, n)[i] = s[i]
BY SubSeqProperties

LEMMA PrefixOfAppend ==
  ASSUME NEW S, NEW s \in Seq(S), NEW e \in S, NEW n \in 0..Len(s)
  PROVE  /\ SubSeq(Append(s, e), 1, n) = SubSeq(s, 1, n)
         /\ SubSeq(Append(s, e), 1, Len(s) + 1) = Append(s, e)
<1> DEFINE t == Append(s, e)
<1>1. t \in Seq(S) /\ Len(t) = Len(s) + 1 /\ \A i \in 1..Len(s) : t[i] = s[i]
  BY AppendProperties
<1> HIDE DEF t
<1>2. SubSeq(t, 1, Len(s) + 1) = t
  BY <1>1, SubSeqFull
<1>3. n \in 0..Len(t) /\ Len(s) \in Nat
  BY <1>1
<1>4. /\ SubSeq(t, 1, n) \in Seq(S) /\ Len(SubSeq(t, 1, n)) = n
      /\ \A i \in 1..n : SubSeq(t, 1, n)[i] = t[i]
  BY <1>1, <1>3, PrefixRows
<1>5. /\ SubSeq(s, 1, n) \in Seq(S) /\ Len(SubSeq(s, 1, n)) = n
      /\ \A i \in 1..n : SubSeq(s, 1, n)[i] = s[i]
  BY PrefixRows
<1>6. \A i \in 1..n : SubSeq(t, 1, n)[i] = SubSeq(s, 1, n)[i]
  BY <1>1, <1>3, <1>4, <1>5
<1>7. SubSeq(t, 1, n) = SubSeq(s, 1, n)
  BY <1>4, <1>5, <1>6, SeqEqual
<1> QED
  BY <1>2, <1>7 DEF t

LEMMA PrefixGrows ==
  ASSUME NEW S, NEW s \in Seq(S), NEW n \in 1..Len(s)
  PROVE  SubSeq(s, 1, n) = Append(SubSeq(s, 1, n - 1), s[n])
<1> DEFINE p == SubSeq(s, 1, n - 1)
<1>1. /\ p \in Seq(S) /\ Len(p) = n - 1 /\ \A i \in 1..(n - 1) : p[i] = s[i]
      /\ s[n] \in S
  BY PrefixRows
<1>2. /\ SubSeq(s, 1, n) \in Seq(S) /\ Len(SubSeq(s, 1, n)) = n
      /\ \A i \in 1..n : SubSeq(s, 1, n)[i] = s[i]
  BY PrefixRows
<1> HIDE DEF p
<1>3. /\ Append(p, s[n]) \in Seq(S) /\ Len(Append(p, s[n])) = n
      /\ \A i \in 1..(n - 1) : Append(p, s[n])[i] = p[i]
      /\ Append(p, s[n])[n] = s[n]
  BY <1>1, AppendProperties
<1>4. \A i \in 1..n : SubSeq(s, 1, n)[i] = Append(p, s[n])[i]
  BY <1>1, <1>2, <1>3
<1> QED
  BY <1>2, <1>3, <1>4, SeqEqual DEF p

LEMMA WithoutRow ==
  ASSUME NEW S, NEW s \in Seq(S), NEW k \in 1..Len(s)
  PROVE  LET t == SubSeq(s, 1, k - 1) \o SubSeq(s, k + 1, Len(s)) IN
         /\ t \in Seq(S)
         /\ Len(t) = Len(s) - 1
         /\ \A i \in 1..Len(t) : t[i] = IF i < k THEN s[i] ELSE s[i + 1]
<1> DEFINE u == SubSeq(s, 1, k - 1)
           v == SubSeq(s, k + 1, Len(s))
           t == u \o v
<1>1. u \in Seq(S) /\ Len(u) = k - 1 /\ \A i \in 1..(k - 1) : u[i] = s[i]
  BY SubSeqProperties
<1>2. /\ v \in Seq(S) /\ Len(v) = Len(s) - k
      /\ \A i \in 1..(Len(s) - k) : v[i] = s[i + k]
  BY SubSeqProperties
<1>3. t = u \o v
  OBVIOUS
<1> HIDE DEF u, v, t
<1>4. /\ t \in Seq(S) /\ Len(t) = Len(u) + Len(v)
      /\ \A i \in 1..(Len(u) + Len(v)) :
           t[i] = IF i <= Len(u) THEN u[i] ELSE v[i - Len(u)]
  BY <1>1, <1>2, <1>3, ConcatProperties
<1>5. Len(t) = Len(s) - 1 /\ k \in Int /\ Len(s) \in Int
  BY <1>1, <1>2, <1>4
<1>6. ASSUME NEW i \in 1..Len(t)
      PROVE  t[i] = IF i < k THEN s[i] ELSE s[i + 1]
  <2>1. CASE i < k
    BY <1>1, <1>2, <1>4, <1>5, <2>1
  <2>2. CASE ~(i < k)
    <3>1. i - (k - 1) \in 1..(Len(s) - k) /\ (i - (k - 1)) + k = i + 1
      BY <1>5, <2>2
    <3>2. t[i] = v[i - (k - 1)]
      BY <1>1, <1>2, <1>4, <1>5, <2>2
    <3> QED
      BY <1>2, <2>2, <3>1, <3>2
  <2> QED
    BY <2>1, <2>2
<1> QED
  BY <1>4, <1>5, <1>6 DEF t, u, v

-----------------------------------------------------------------------------
(* What Verify can tell from rows that are chained *)

LEMMA RowTypes ==
  ASSUME TypeOK, Chained, NEW i \in DOMAIN log
  PROVE  /\ i \in 1..Len(log) /\ Len(log) \in Nat
         /\ log[i].nth \in 1..Len(history) /\ log[i].body \in Bodies
         /\ Upto(log[i].nth) \in Seq(Bodies) /\ Len(Upto(log[i].nth)) = log[i].nth
         /\ Upto(log[i].nth - 1) \in Seq(Bodies)
         /\ Len(Upto(log[i].nth - 1)) = log[i].nth - 1
<1>1. log[i] \in Row /\ Len(history) \in Nat /\ log[i].nth <= Len(history)
  BY DEF TypeOK, Chained
<1>2. log[i].nth \in 1..Len(history) /\ log[i].body \in Bodies
  BY <1>1 DEF Row
<1>3. /\ Upto(log[i].nth) \in Seq(Bodies) /\ Len(Upto(log[i].nth)) = log[i].nth
      /\ Upto(log[i].nth - 1) \in Seq(Bodies)
      /\ Len(Upto(log[i].nth - 1)) = log[i].nth - 1
  BY <1>2, PrefixRows DEF Upto, TypeOK
<1>4. i \in 1..Len(log) /\ Len(log) \in Nat
  BY DEF TypeOK
<1> QED
  BY <1>2, <1>3, <1>4

\* Links that hold from the first row on put every row in its place.
LEMMA LinksPlaceRows ==
  ASSUME TypeOK, Chained, NEW n \in 0..Len(log), \A i \in 1..n : ~Broken(log, i)
  PROVE  \A i \in 1..n : log[i].nth = i
<1>0. Len(log) \in Nat /\ DOMAIN log = 1..Len(log)
  BY DEF TypeOK
<1> DEFINE T == {i \in 1..n : log[i].nth # i}
<1> SUFFICES ASSUME T # {} PROVE FALSE
  OBVIOUS
<1>1. PICK x \in T : \A y \in T : x <= y
  <2>1. T \in SUBSET Nat
    BY <1>0
  <2> HIDE DEF T
  <2> QED
    BY <2>1, LeastNumber
<1>2. x \in 1..n /\ x \in DOMAIN log /\ log[x].nth # x /\ log[x].prev = Carried(log, x)
  BY <1>0 DEF Broken
<1>3. log[x].prev = Upto(log[x].nth - 1) /\ log[x].nth \in Nat
      /\ Len(Upto(log[x].nth - 1)) = log[x].nth - 1
  BY <1>2, RowTypes DEF Chained
<1>4. CASE x = 1
  <2>1. Len(Carried(log, x)) = 0
    BY <1>4 DEF Carried, Genesis
  <2>2. log[x].nth - 1 = 0
    BY <1>2, <1>3, <2>1
  <2> QED
    BY <1>2, <1>3, <1>4, <2>2
<1>5. CASE x # 1
  <2>1. x - 1 \in 1..n /\ x - 1 \notin T /\ x - 1 \in DOMAIN log
    BY <1>0, <1>1, <1>2, <1>5
  <2>2. log[x - 1].nth = x - 1
    BY <2>1
  <2>3. Len(log[x - 1].hash) = x - 1
    <3>1. log[x - 1].hash = Upto(x - 1)
      BY <2>1, <2>2 DEF Chained
    <3>2. Len(Upto(x - 1)) = x - 1
      BY <2>1, <2>2, RowTypes
    <3> QED
      BY <3>1, <3>2
  <2>4. Carried(log, x) = log[x - 1].hash
    BY <1>5 DEF Carried
  <2>5. log[x].nth - 1 = x - 1
    BY <1>2, <1>3, <2>3, <2>4
  <2> QED
    BY <1>0, <1>2, <1>3, <2>5
<1> QED
  BY <1>4, <1>5

\* In a row that is in its place, Verify sees exactly whether the body is the
\* one received.
LEMMA RowVerified ==
  ASSUME TypeOK, Chained, NEW i \in DOMAIN log, log[i].nth = i,
         i > 1 => log[i - 1].nth = i - 1
  PROVE  ~Broken(log, i) <=> log[i].body = history[i]
<1>1. /\ i \in 1..Len(log) /\ Len(log) \in Nat /\ i \in 1..Len(history)
      /\ log[i].body \in Bodies /\ history[i] \in Bodies
      /\ history \in Seq(Bodies)
  BY RowTypes DEF TypeOK
<1>2. log[i].prev = Upto(i - 1) /\ log[i].hash = Upto(i)
      /\ Upto(i - 1) \in Seq(Bodies) /\ Len(Upto(i - 1)) = i - 1
  BY RowTypes DEF Chained
<1>3. Carried(log, i) = Upto(i - 1)
  <2>1. CASE i = 1
    BY <2>1, <1>2 DEF Carried, Genesis, Upto
  <2>2. CASE i # 1
    <3>1. i - 1 \in DOMAIN log /\ i > 1
      BY <1>1, <2>2
    <3>2. log[i - 1].hash = Upto(i - 1)
      BY <3>1 DEF Chained
    <3> QED
      BY <2>2, <3>2 DEF Carried
  <2> QED
    BY <2>1, <2>2
<1>4. Upto(i) = Append(Upto(i - 1), history[i])
  BY <1>1, PrefixGrows DEF Upto
<1>5. Append(Upto(i - 1), history[i]) = Append(Upto(i - 1), log[i].body)
        <=> log[i].body = history[i]
  BY <1>1, <1>2, AppendInjective
<1> QED
  BY <1>2, <1>3, <1>4, <1>5 DEF Broken, ChainHash

LEMMA IntactOrBroken ==
  ASSUME TypeOK, Chained, NEW n \in 0..Len(log)
  PROVE  Intact(n) <=> \A i \in 1..n : ~Broken(log, i)
<1>0. Len(log) \in Nat /\ DOMAIN log = 1..Len(log)
  BY DEF TypeOK
<1>1. ASSUME Intact(n), NEW i \in 1..n
      PROVE  ~Broken(log, i)
  <2>1. i \in DOMAIN log /\ log[i].nth = i /\ log[i].body = history[i]
    BY <1>0, <1>1 DEF Intact
  <2>2. i > 1 => log[i - 1].nth = i - 1
    BY <1>1 DEF Intact
  <2> QED
    BY <2>1, <2>2, RowVerified
<1>2. ASSUME \A i \in 1..n : ~Broken(log, i)
      PROVE  Intact(n)
  <2>1. \A i \in 1..n : log[i].nth = i
    BY <1>2, LinksPlaceRows
  <2>2. ASSUME NEW i \in 1..n
        PROVE  log[i].body = history[i]
    <3>1. i \in DOMAIN log /\ log[i].nth = i /\ (i > 1 => log[i - 1].nth = i - 1)
      BY <1>0, <2>1
    <3> QED
      BY <1>2, <3>1, RowVerified
  <2> QED
    BY <2>1, <2>2 DEF Intact
<1> QED
  BY <1>1, <1>2

\* There is a first break or none: count is well defined, and unique.
LEMMA CountIsFirstBreak ==
  ASSUME TypeOK
  PROVE  LET n == Verify(log).count IN
         /\ n \in 0..Len(log)
         /\ \A i \in 1..n : ~Broken(log, i)
         /\ n = Len(log) \/ Broken(log, n + 1)
<1>0. Len(log) \in Nat
  BY DEF TypeOK
<1> DEFINE First(n) == /\ \A i \in 1..n : ~Broken(log, i)
                       /\ n = Len(log) \/ Broken(log, n + 1)
           T == {n \in 0..Len(log) : n = Len(log) \/ Broken(log, n + 1)}
<1>1. PICK x \in T : \A y \in T : x <= y
  <2>1. T \in SUBSET Nat /\ T # {}
    BY <1>0
  <2> HIDE DEF T
  <2> QED
    BY <2>1, LeastNumber
<1>2. x \in 0..Len(log) /\ (x = Len(log) \/ Broken(log, x + 1))
  OBVIOUS
<1>3. ASSUME NEW i \in 1..x
      PROVE  ~Broken(log, i)
  <2>1. i - 1 \in 0..Len(log) /\ i - 1 < x /\ ~(x <= i - 1) /\ (i - 1) + 1 = i
    BY <1>0, <1>2
  <2>2. i - 1 \notin T
    <3> HIDE DEF T
    <3> QED
      BY <1>1, <2>1
  <2> QED
    BY <2>1, <2>2
<1>4. \E n \in 0..Len(log) : First(n)
  BY <1>2, <1>3
<1>5. Verify(log).count = CHOOSE n \in 0..Len(log) : First(n)
  BY DEF Verify
<1> HIDE DEF First
<1>6. Verify(log).count \in 0..Len(log) /\ First(Verify(log).count)
  BY <1>4, <1>5
<1> QED
  BY <1>6 DEF First

LEMMA VerifiedRows ==
  ASSUME TypeOK, Chained, Undamaged
  PROVE  VerifyIsExact /\ FirstBreakIsNamed
<1>0. Len(log) \in Nat /\ DOMAIN log = 1..Len(log)
  BY DEF TypeOK
<1>1. Verify(log).ok <=> \A i \in 1..Len(log) : ~Broken(log, i)
  BY <1>0 DEF Verify
<1>2. Verify(log).ok <=> Intact(Len(log))
  BY <1>0, <1>1, IntactOrBroken
<1>3. PICK n \in 0..Len(log) :
        /\ n = Verify(log).count
        /\ \A i \in 1..n : ~Broken(log, i)
        /\ n = Len(log) \/ Broken(log, n + 1)
  BY CountIsFirstBreak
<1>4. Verify(log) = [ok |-> Verify(log).ok, count |-> n]
  BY <1>3 DEF Verify
<1>5. Verify(log).ok \in BOOLEAN
  BY DEF Verify
<1>6. VerifyIsExact
  <2>1. ASSUME damage = 0
        PROVE  Verify(log) = [ok |-> TRUE, count |-> Len(history)]
    <3>1. Len(log) = Len(history) /\ Verify(log).ok
      BY <1>2, <2>1 DEF Undamaged
    <3>2. n = Len(log)
      <4>1. n + 1 \in 1..Len(log) => ~Broken(log, n + 1)
        BY <1>1, <3>1
      <4>2. n + 1 \in 1..Len(log) \/ n = Len(log)
        BY <1>0, <1>3
      <4> QED
        BY <1>3, <4>1, <4>2
    <3> QED
      BY <1>4, <1>5, <3>1, <3>2
  <2> QED
    BY <1>2, <2>1 DEF VerifyIsExact
<1>7. FirstBreakIsNamed
  <2>1. Intact(n)
    BY <1>3, IntactOrBroken
  <2>2. ASSUME n < Len(log)
        PROVE  ~Intact(n + 1)
    <3>1. n + 1 \in 0..Len(log) /\ n + 1 \in 1..(n + 1) /\ n # Len(log)
      BY <1>0, <1>3, <2>2
    <3>2. Broken(log, n + 1)
      BY <1>3, <3>1
    <3> QED
      BY <3>1, <3>2, IntactOrBroken
  <2> QED
    BY <1>3, <2>1, <2>2 DEF FirstBreakIsNamed
<1> QED
  BY <1>6, <1>7

-----------------------------------------------------------------------------
(* The chain is kept by every append and by every damage *)

LEMMA ReceiveStep ==
  ASSUME ChainInv, NEW id \in Reports, NEW body \in Bodies, Receive(id, body)
  PROVE  ChainInv'
<1> USE DEF ChainInv
<1> DEFINE n == Len(history) + 1
           row == [id |-> id, body |-> body, prev |-> LastHash(log),
                   hash |-> ChainHash(LastHash(log), body), nth |-> n]
<1>0. /\ log \in Seq(Row) /\ Len(log) \in Nat /\ DOMAIN log = 1..Len(log)
      /\ history \in Seq(Bodies) /\ Len(history) \in Nat
      /\ \A i \in DOMAIN log : log[i] \in Row
  BY DEF TypeOK
<1>1. /\ history' = Append(history, body) /\ damage' = damage
      /\ history' \in Seq(Bodies) /\ Len(history') = n
      /\ \A i \in 1..Len(history) : history'[i] = history[i]
      /\ history'[n] = body
  BY <1>0, AppendProperties DEF Receive
<1>2. LastHash(log) = history
  <2>1. CASE log = <<>>
    <3>1. history = <<>>
      BY <2>1 DEF Ended
    <3> QED
      BY <2>1, <3>1 DEF LastHash, Genesis
  <2>2. CASE log # <<>>
    <3>1. Len(log) \in DOMAIN log
      BY <1>0, <2>2, EmptySeq
    <3>2. /\ log[Len(log)].hash = Upto(log[Len(log)].nth)
          /\ log[Len(log)].nth \in 1..Len(history)
      BY <3>1, RowTypes DEF Chained
    <3>3. history # <<>>
      BY <3>2
    <3>4. log[Len(log)].hash = Upto(Len(history))
      BY <3>2, <3>3 DEF Ended
    <3> QED
      BY <1>0, <2>2, <3>4, SubSeqFull DEF LastHash, Upto
  <2> QED
    BY <2>1, <2>2
<1>3. row \in Row /\ row.nth = n /\ row.prev = history /\ row.hash = Append(history, body)
      /\ row.body = body
  BY <1>0, <1>1, <1>2 DEF Row, ChainHash
<1>4. log' = Append(log, row)
  <2> DEFINE r == [id |-> id, body |-> body, prev |-> LastHash(log),
                   hash |-> ChainHash(LastHash(log), body)]
  <2>1. AppendReport(log, id, body) = Append(log, r)
    BY DEF Receive, AppendReport
  <2>2. Append(log, r)[Len(log) + 1] = r
    BY <1>0
  <2>3. /\ r.id = id /\ r.body = body /\ r.prev = LastHash(log)
        /\ r.hash = ChainHash(LastHash(log), body)
    OBVIOUS
  <2> HIDE DEF r
  <2> QED
    BY <2>1, <2>2, <2>3 DEF Receive
<1> HIDE DEF row
<1>5. n \in Nat /\ n = Len(history) + 1 /\ n - 1 = Len(history)
  BY <1>0
<1>6. /\ log' \in Seq(Row) /\ Len(log') = Len(log) + 1
      /\ \A i \in 1..Len(log) : log'[i] = log[i]
      /\ log'[Len(log) + 1] = row
  BY <1>0, <1>3, <1>4, AppendProperties
<1>7. \A k \in 0..Len(history) : SubSeq(history', 1, k) = Upto(k)
  BY <1>0, <1>1, PrefixOfAppend DEF Upto
<1>8. SubSeq(history', 1, n) = Append(history, body) /\ SubSeq(history', 1, n - 1) = history
  <2>1. SubSeq(history', 1, n) = Append(history, body)
    BY <1>1, SubSeqFull
  <2>2. Upto(Len(history)) = history
    BY <1>0, SubSeqFull DEF Upto
  <2>3. n - 1 = Len(history) /\ Len(history) \in 0..Len(history)
    BY <1>0
  <2> QED
    BY <1>7, <2>1, <2>2, <2>3
<1>9. TypeOK'
  BY <1>1, <1>6 DEF TypeOK
<1>10. Chained'
  <2> SUFFICES ASSUME NEW i \in DOMAIN log'
               PROVE  /\ log'[i].nth <= n
                      /\ log'[i].prev = SubSeq(history', 1, log'[i].nth - 1)
                      /\ log'[i].hash = SubSeq(history', 1, log'[i].nth)
    BY <1>1 DEF Chained, Upto
  <2>1. CASE i \in 1..Len(log)
    <3>1. i \in DOMAIN log /\ log'[i] = log[i]
      BY <1>0, <1>6, <2>1
    <3>2. log[i].nth \in 1..Len(history)
      BY <3>1, RowTypes
    <3>3. /\ log[i].prev = Upto(log[i].nth - 1)
          /\ log[i].hash = Upto(log[i].nth)
      BY <3>1 DEF Chained
    <3>4. log[i].nth \in 0..Len(history) /\ log[i].nth - 1 \in 0..Len(history)
      BY <1>0, <3>2
    <3>5. /\ SubSeq(history', 1, log[i].nth - 1) = Upto(log[i].nth - 1)
          /\ SubSeq(history', 1, log[i].nth) = Upto(log[i].nth)
      BY <1>7, <3>4
    <3>6. log[i].nth <= n
      BY <1>0, <3>2
    <3> QED
      BY <3>1, <3>3, <3>5, <3>6
  <2>2. CASE i = Len(log) + 1
    <3>1. log'[i] = row
      BY <1>6, <2>2
    <3>2. n <= n
      BY <1>5
    <3> HIDE DEF n
    <3> QED
      BY <1>3, <1>8, <3>1, <3>2
  <2> QED
    BY <1>0, <1>6, <2>1, <2>2
<1>11. Ended'
  BY <1>0, <1>1, <1>3, <1>6 DEF Ended
<1>12. Undamaged'
  <2> SUFFICES ASSUME damage = 0
               PROVE  /\ Len(log') = n
                      /\ \A i \in 1..Len(log') : log'[i].nth = i /\ log'[i].body = history'[i]
    BY <1>1 DEF Undamaged, Intact
  <2>1. Len(log) = Len(history) /\ \A i \in 1..Len(log) : log[i].nth = i /\ log[i].body = history[i]
    BY DEF Undamaged, Intact
  <2>2. Len(log') = n /\ Len(log) + 1 = n
    BY <1>6, <2>1
  <2>3. ASSUME NEW i \in 1..Len(log')
        PROVE  log'[i].nth = i /\ log'[i].body = history'[i]
    <3>1. CASE i \in 1..Len(log)
      BY <1>1, <1>6, <2>1, <3>1
    <3>2. CASE i = n
      <4> HIDE DEF n
      <4> QED
        BY <1>1, <1>3, <1>6, <2>2, <3>2
    <3> QED
      BY <1>0, <2>2, <3>1, <3>2
  <2> QED
    BY <2>2, <2>3
<1> QED
  BY <1>9, <1>10, <1>11, <1>12

LEMMA AlterStep ==
  ASSUME ChainInv, NEW i \in DOMAIN log, NEW body \in Bodies, Alter(i, body)
  PROVE  ChainInv'
<1> USE DEF ChainInv
<1>1. /\ log' = [log EXCEPT ![i].body = body] /\ history' = history
      /\ damage < MaxDamage /\ damage' = damage + 1
  BY DEF Alter
<1>2. /\ log \in Seq(Row) /\ \A j \in DOMAIN log : log[j] \in Row
      /\ DOMAIN log = 1..Len(log) /\ Len(log) \in Nat /\ damage \in 0..MaxDamage
  BY DEF TypeOK
<1>3. [log[i] EXCEPT !.body = body] \in Row
  BY <1>2 DEF Row
<1>4. /\ log' \in Seq(Row) /\ Len(log') = Len(log) /\ DOMAIN log' = DOMAIN log
      /\ \A j \in DOMAIN log : log'[j] = IF j = i THEN [log[i] EXCEPT !.body = body] ELSE log[j]
  <2>1. log' = [log EXCEPT ![i] = [log[i] EXCEPT !.body = body]]
    BY <1>1
  <2> QED
    BY <1>2, <1>3, <2>1, ExceptSeq
<1>5. \A j \in DOMAIN log : /\ log'[j].nth = log[j].nth
                            /\ log'[j].prev = log[j].prev
                            /\ log'[j].hash = log[j].hash
  BY <1>2, <1>4 DEF Row
<1>6. TypeOK'
  BY <1>1, <1>2, <1>4, MaxDamageAssumption DEF TypeOK
<1>7. Chained'
  BY <1>1, <1>4, <1>5 DEF Chained, Upto
<1>8. Ended'
  <2> SUFFICES ASSUME history # <<>>
               PROVE  log' # <<>> /\ log'[Len(log)].nth = Len(history)
    BY <1>1, <1>4 DEF Ended
  <2>1. log # <<>> /\ log[Len(log)].nth = Len(history)
    BY DEF Ended
  <2>2. Len(log) \in DOMAIN log
    BY <1>2, <2>1, EmptySeq
  <2> QED
    BY <1>4, <1>5, <2>1, <2>2
<1>9. Undamaged'
  BY <1>1, <1>2 DEF Undamaged
<1> QED
  BY <1>6, <1>7, <1>8, <1>9

LEMMA LoseStep ==
  ASSUME ChainInv, ~TailMayGo, NEW i \in DOMAIN log, Lose(i)
  PROVE  ChainInv'
<1> USE DEF ChainInv
<1>1. /\ log' = SubSeq(log, 1, i - 1) \o SubSeq(log, i + 1, Len(log)) /\ history' = history
      /\ damage < MaxDamage /\ damage' = damage + 1
      /\ i < Len(log)
  BY DEF Lose
<1>2. /\ log \in Seq(Row) /\ i \in 1..Len(log) /\ DOMAIN log = 1..Len(log)
      /\ Len(log) \in Nat /\ damage \in 0..MaxDamage
  BY DEF TypeOK
<1>3. /\ log' \in Seq(Row)
      /\ Len(log') = Len(log) - 1
      /\ \A j \in 1..Len(log') : log'[j] = IF j < i THEN log[j] ELSE log[j + 1]
  BY <1>1, <1>2, WithoutRow
<1>4. DOMAIN log' = 1..Len(log')
  BY <1>3
<1>5. TypeOK'
  BY <1>1, <1>2, <1>3, MaxDamageAssumption DEF TypeOK
<1>6. Chained'
  <2> SUFFICES ASSUME NEW j \in DOMAIN log'
               PROVE  /\ log'[j].nth <= Len(history)
                      /\ log'[j].prev = Upto(log'[j].nth - 1)
                      /\ log'[j].hash = Upto(log'[j].nth)
    BY <1>1 DEF Chained, Upto
  <2>1. PICK k \in DOMAIN log : log'[j] = log[k]
    <3>1. j \in 1..Len(log') /\ j \in DOMAIN log /\ j + 1 \in DOMAIN log
      BY <1>2, <1>3, <1>4
    <3> QED
      BY <1>3, <3>1
  <2> QED
    BY <2>1 DEF Chained
<1>7. Ended'
  <2> SUFFICES ASSUME history # <<>>
               PROVE  log' # <<>> /\ log'[Len(log')].nth = Len(history)
    BY <1>1 DEF Ended
  <2>1. Len(log') \in 1..Len(log') /\ ~(Len(log') < i) /\ Len(log') + 1 = Len(log)
    <3>1. i \in Int /\ 1 <= i /\ i < Len(log) /\ Len(log) \in Int /\ Len(log') = Len(log) - 1
      BY <1>1, <1>2, <1>3
    <3> QED
      BY <3>1
  <2>2. log'[Len(log')] = log[Len(log)]
    BY <1>3, <2>1
  <2>3. log' # <<>>
    BY <1>3, <2>1
  <2> QED
    BY <2>2, <2>3 DEF Ended
<1>8. Undamaged'
  BY <1>1, <1>2 DEF Undamaged
<1> QED
  BY <1>5, <1>6, <1>7, <1>8

LEMMA ChainInit == Init => ChainInv
<1> SUFFICES ASSUME Init PROVE ChainInv
  OBVIOUS
<1>1. log = <<>> /\ history = <<>> /\ damage = 0 /\ Len(log) = 0 /\ Len(history) = 0
  BY DEF Init
<1>2. TypeOK /\ Chained /\ Ended
  BY <1>1, MaxDamageAssumption DEF TypeOK, Chained, Ended
<1>3. Undamaged
  BY <1>1 DEF Undamaged, Intact
<1> QED
  BY <1>2, <1>3 DEF ChainInv

LEMMA ChainStep ==
  ASSUME ~TailMayGo
  PROVE  ChainInv /\ [Next]_vars => ChainInv'
<1> SUFFICES ASSUME ChainInv, [Next]_vars
             PROVE  ChainInv'
  OBVIOUS
<1>1. ASSUME NEW id \in Reports, NEW body \in Bodies, Receive(id, body)
      PROVE  ChainInv'
  BY <1>1, ReceiveStep
<1>2. ASSUME NEW i \in DOMAIN log, Lose(i)
      PROVE  ChainInv'
  BY <1>2, LoseStep
<1>3. ASSUME NEW i \in DOMAIN log, NEW body \in Bodies, Alter(i, body)
      PROVE  ChainInv'
  BY <1>3, AlterStep
<1>4. CASE UNCHANGED vars
  BY <1>4 DEF vars, ChainInv, TypeOK, Chained, Upto, Ended, Undamaged, Intact
<1> QED
  BY <1>1, <1>2, <1>3, <1>4 DEF Next

-----------------------------------------------------------------------------

\* Append, Verify: for any number of rows and of damages, a table that passes is
\* the one received and an undamaged table passes, unless a last row may go.
THEOREM VerifyTells ==
  ASSUME ~TailMayGo
  PROVE  Spec => []VerifyIsExact
<1>1. ChainInv => VerifyIsExact
  BY VerifiedRows DEF ChainInv
<1> QED
  BY <1>1, ChainInit, ChainStep, PTL DEF Spec

\* Verify, CLI audit verify: the rows counted are as they were received and the
\* row after them is not, wherever the damage is and however often it happened.
THEOREM FirstBreakNamed ==
  ASSUME ~TailMayGo
  PROVE  Spec => []FirstBreakIsNamed
<1>1. ChainInv => FirstBreakIsNamed
  BY VerifiedRows DEF ChainInv
<1> QED
  BY <1>1, ChainInit, ChainStep, PTL DEF Spec

=============================================================================
