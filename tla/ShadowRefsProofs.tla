--------------------------- MODULE ShadowRefsProofs ---------------------------
(***************************************************************************)
(* The shadow refs, for every set of branches and workers and every bound:  *)
(* gc spares the branches that exist, the remote ends up with what the      *)
(* local refs say, and without overlap with the newest snapshot.            *)
(***************************************************************************)
EXTENDS ShadowRefs, SequenceTheorems, TLAPS

Busy(w) == pc[w] # "idle"

\* The queue has a row for each snapshot and no other.
Rowed ==
  /\ Len(snaps) <= MaxSnaps
  /\ \A i \in 1..MaxSnaps : queue[i] = "none" <=> i > Len(snaps)

\* A worker at work holds a row that is being analyzed, it alone, and no such
\* row is without a worker.
Held ==
  /\ \A w \in Workers : Busy(w) => job[w] \in 1..Len(snaps) /\ queue[job[w]] = "analyzing"
  /\ \A v, w \in Workers : Busy(v) /\ Busy(w) /\ job[v] = job[w] => v = w
  /\ \A i \in 1..MaxSnaps :
       queue[i] = "analyzing" => \E w \in Workers : Busy(w) /\ job[w] = i

\* Between the two commands of gc the ref is gone and nobody publishes it.
Swept ==
  /\ \A q, r \in doomed : q = r
  /\ \A r \in doomed \ (failed \cup crossed) :
       local[r] = 0 /\ \A w \in Workers : ~Publishing(w, r)

\* No update-ref of the snapshot has been made yet.
Unpublished(i) ==
  queue[i] \in {"none", "pending"} \/ \E w \in Workers : pc[w] = "claimed" /\ job[w] = i

\* Then no ref points at it and no push has read it; after a restart it may.
Unread ==
  outages = 0 => \A i \in 1..MaxSnaps : Unpublished(i) =>
    /\ \A r \in Refs : local[r] # i /\ remote[r] # i
    /\ \A w \in Workers : push[w].new # i /\ push[w].old # i

\* A local ref never comes back to what the remote had when a push read both,
\* unless it did not leave it.
NoReturn ==
  outages = 0 => \A w \in Workers :
    /\ pc[w] \in {"pushing", "hung"} /\ RefOf(job[w]) \notin failed \cup crossed
    /\ push[w].old = local[RefOf(job[w])]
    => push[w].new = local[RefOf(job[w])]

\* w has still to push r, or is pushing what the local ref says.
Carries(w, r) ==
  Publishing(w, r) /\ (pc[w] = "updated" \/ push[w].new = local[r])

\* LocalIsPublished before the ref is quiet.
Carried ==
  outages = 0 => \A r \in Refs \ (failed \cup crossed \cup doomed) :
    remote[r] = local[r] \/ \E w \in Workers : Carries(w, r)

\* One worker at a time has a change of a ref that is not shared, and takes the
\* changes in the order of the queue.
OneByOne ==
  \A v, w \in Workers :
    Busy(v) /\ Busy(w) /\ RefOf(job[v]) = RefOf(job[w]) /\ RefOf(job[v]) \notin shared => v = w

InTurn ==
  \A i, j \in 1..Len(snaps) :
    /\ i < j /\ RefOf(i) = RefOf(j) /\ RefOf(i) \notin shared
    /\ queue[j] \in {"analyzing", "settled"}
    => queue[i] = "settled"

\* The remote has snapshot i, or gc collected the ref, or is at it.
At(r, i) ==
  IF r \in doomed THEN local[r] = 0
  ELSE remote[r] = i \/ (remote[r] = 0 /\ local[r] = 0)

Orderly == Refs \ (failed \cup shared \cup crossed)

\* What the one worker of an orderly ref has come to.
UnderWay ==
  \A w \in Workers : Busy(w) /\ RefOf(job[w]) \in Orderly =>
    /\ pc[w] \in {"updated", "pushing", "hung"} => local[RefOf(job[w])] = job[w]
    /\ pc[w] \in {"pushing", "hung"} => push[w].new = job[w]
    /\ pc[w] = "analyzing" => At(RefOf(job[w]), job[w])

\* SerialRefIsCurrent before the ref is quiet.
Current ==
  \A r \in Orderly : \A i \in 1..Len(snaps) :
    Newest(r, i) /\ queue[i] = "settled" => At(r, i)

BaseInv  == TypeOK /\ Rowed /\ Held
LocalInv == Swept /\ Unread /\ NoReturn /\ Carried
SerialInv == OneByOne /\ InTurn /\ UnderWay /\ Current

-----------------------------------------------------------------------------
(* Types, and who holds which row *)

LEMMA RefOfSnap ==
  ASSUME TypeOK, NEW i \in 1..Len(snaps)
  PROVE  RefOf(i) \in Refs /\ snaps[i] \in Branches
<1>1. snaps[i] \in Branches
  BY DEF TypeOK
<1> QED
  BY <1>1 DEF RefOf, Refs

\* Snapshot: a row more, the refs of the others are what they were.
LEMMA SnapshotRow ==
  ASSUME TypeOK, Rowed, NEW b \in Branches, Snapshot(b)
  PROVE  /\ snaps' \in Seq(Branches)
         /\ Len(snaps') = Len(snaps) + 1 /\ Len(snaps) \in Nat
         /\ Len(snaps) + 1 \in 1..MaxSnaps
         /\ snaps'[Len(snaps) + 1] = b
         /\ \A i \in 1..Len(snaps) : RefOf(i)' = RefOf(i)
<1>1. snaps \in Seq(Branches) /\ snaps' = Append(snaps, b) /\ Len(snaps) < MaxSnaps
  BY DEF TypeOK, Snapshot
<1>2. /\ Len(snaps') = Len(snaps) + 1 /\ snaps' \in Seq(Branches)
      /\ \A i \in 1..Len(snaps) : snaps'[i] = snaps[i]
      /\ snaps'[Len(snaps) + 1] = b
  BY <1>1
<1> QED
  BY <1>1, <1>2, MaxSnapsAssumption DEF RefOf

\* Every step of a worker at work is one of these.
WorkStep(w) ==
  \/ NotPublished(w) \/ UpdateRef(w) \/ StartPush(w) \/ NothingToPush(w)
  \/ PushLands(w) \/ PushFails(w) \/ PushHangs(w)

LEMMA WorkFrame ==
  ASSUME TypeOK, Held, NEW w \in Workers, WorkStep(w)
  PROVE  /\ UNCHANGED <<repo, queue, job, sweep, shared, outages>>
         /\ Busy(w) /\ RefOf(job[w]) \in Refs /\ job[w] \in 1..MaxSnaps
         /\ pc'[w] # "idle" /\ \A v \in Workers \ {w} : pc'[v] = pc[v]
         /\ pc' \in [Workers -> {"idle", "claimed", "updated", "pushing", "hung", "analyzing"}]
<1>1. Busy(w)
  BY DEF WorkStep, NotPublished, UpdateRef, StartPush, NothingToPush, PushLands, PushFails,
         PushHangs, Publication, Busy
<1>2. job[w] \in 1..Len(snaps) /\ RefOf(job[w]) \in Refs /\ job[w] \in 1..MaxSnaps
  BY <1>1, RefOfSnap DEF Held, TypeOK
<1>3. UNCHANGED <<repo, queue, job, sweep, shared, outages>>
  BY DEF WorkStep, NotPublished, UpdateRef, StartPush, NothingToPush, PushLands, PushFails,
         PushHangs, Publication, history
<1>4. \E to \in {"updated", "pushing", "hung", "analyzing"} : pc' = [pc EXCEPT ![w] = to]
  BY DEF WorkStep, NotPublished, UpdateRef, StartPush, NothingToPush, PushLands, PushFails,
         PushHangs, Publication
<1> QED
  BY <1>1, <1>2, <1>3, <1>4 DEF TypeOK

LEMMA WorkType ==
  ASSUME TypeOK, Held, NEW w \in Workers, WorkStep(w)
  PROVE  TypeOK'
<1>1. /\ UNCHANGED <<repo, queue, job, sweep, shared, outages>>
      /\ RefOf(job[w]) \in Refs /\ job[w] \in 1..MaxSnaps
      /\ pc' \in [Workers -> {"idle", "claimed", "updated", "pushing", "hung", "analyzing"}]
  BY WorkFrame
<1>2. local' \in [Refs -> 0..MaxSnaps] /\ remote' \in [Refs -> 0..MaxSnaps]
  <2>1. CASE UpdateRef(w)
    BY <1>1, <2>1 DEF TypeOK, UpdateRef
  <2>2. CASE Lands(w) /\ UNCHANGED local
    BY <1>1, <2>2 DEF TypeOK, Lands
  <2>3. CASE UNCHANGED <<local, remote>>
    BY <2>3 DEF TypeOK
  <2> QED
    BY <2>1, <2>2, <2>3
       DEF WorkStep, NotPublished, StartPush, NothingToPush, PushLands, PushFails, PushHangs,
           Publication
<1>3. push' \in [Workers -> [new : 0..MaxSnaps, old : 0..MaxSnaps]]
  BY <1>1, MaxSnapsAssumption
     DEF TypeOK, WorkStep, NotPublished, UpdateRef, StartPush, NothingToPush, PushLands,
         PushFails, PushHangs, Publication, Lands, NoPush
<1>4. failed' \subseteq Refs /\ crossed' \subseteq Refs
  BY <1>1 DEF TypeOK, WorkStep, NotPublished, UpdateRef, StartPush, NothingToPush, PushLands,
              PushFails, PushHangs, Publication, Lands, history
<1> QED
  BY <1>1, <1>2, <1>3, <1>4 DEF TypeOK, repo, sweep

LEMMA BaseStep == BaseInv /\ [Next]_vars => BaseInv'
<1> SUFFICES ASSUME BaseInv, [Next]_vars
             PROVE  BaseInv'
  OBVIOUS
<1> USE DEF BaseInv
<1>1. ASSUME NEW b \in Branches, Snapshot(b)
      PROVE  BaseInv'
  <2>1. /\ snaps' \in Seq(Branches) /\ Len(snaps') = Len(snaps) + 1 /\ Len(snaps) \in Nat
        /\ Len(snaps) + 1 \in 1..MaxSnaps
    BY <1>1, SnapshotRow
  <2>2. queue' = [queue EXCEPT ![Len(snaps) + 1] = "pending"]
    BY <1>1 DEF Snapshot
  <2>3. TypeOK'
    BY <1>1, <2>1, <2>2 DEF TypeOK, Snapshot, worker, sweep, history
  <2>4. Rowed'
    BY <2>1, <2>2 DEF Rowed, TypeOK
  <2>5. queue[Len(snaps) + 1] = "none"
    BY <2>1 DEF Rowed
  <2>6. Held'
    <3>1. UNCHANGED <<pc, job>> /\ Len(snaps) \in Nat
      BY <1>1, <2>1 DEF Snapshot, worker
    <3>2. \A i \in 1..MaxSnaps : i # Len(snaps) + 1 => queue'[i] = queue[i]
      BY <2>2 DEF TypeOK
    <3>3. ASSUME NEW w \in Workers, Busy(w)'
          PROVE  job'[w] \in 1..Len(snaps') /\ queue'[job'[w]] = "analyzing"
      <4>1. job[w] \in 1..Len(snaps) /\ queue[job[w]] = "analyzing" /\ job[w] \in 1..MaxSnaps
        BY <3>1, <3>3 DEF Held, Busy, Rowed, TypeOK
      <4> QED
        BY <2>1, <2>5, <3>1, <3>2, <4>1
    <3>4. \A i \in 1..MaxSnaps :
             queue'[i] = "analyzing" => \E w \in Workers : Busy(w)' /\ job'[w] = i
      BY <2>1, <2>2, <3>1, <3>2 DEF Held, Busy, TypeOK
    <3> QED
      BY <3>1, <3>3, <3>4 DEF Held, Busy
  <2> QED
    BY <2>3, <2>4, <2>6
<1>2. ASSUME NEW b \in Branches, MoveBranch(b)
      PROVE  BaseInv'
  <2>1. TypeOK'
    BY <1>2 DEF TypeOK, MoveBranch, worker, history
  <2>2. Rowed' /\ Held'
    BY <1>2 DEF Rowed, Held, Busy, MoveBranch, worker
  <2> QED
    BY <2>1, <2>2
<1>3. ASSUME NEW w \in Workers, NEW i \in 1..Len(snaps), Take(w, i)
      PROVE  BaseInv'
  <2>1. i \in 1..MaxSnaps /\ RefOf(i) \in Refs
    <3>1. Len(snaps) \in Nat /\ Len(snaps) <= MaxSnaps
      BY DEF Rowed, TypeOK
    <3>2. i \in 1..MaxSnaps
      BY <3>1, MaxSnapsAssumption
    <3> QED
      BY <3>2, RefOfSnap
  <2>2. TypeOK'
    BY <1>3, <2>1 DEF TypeOK, Take, repo, sweep
  <2>3. Rowed'
    BY <1>3, <2>1 DEF Rowed, Take, TypeOK, repo
  <2>4. Held'
    <3>1. /\ pc[w] = "idle" /\ queue[i] = "pending" /\ UNCHANGED snaps
          /\ pc' = [pc EXCEPT ![w] = "claimed"]
          /\ queue' = [queue EXCEPT ![i] = "analyzing"]
          /\ job' = [job EXCEPT ![w] = i]
      BY <1>3 DEF Take, repo
    <3>2. /\ Busy(w)' /\ job'[w] = i /\ queue'[i] = "analyzing"
          /\ \A v \in Workers \ {w} : (Busy(v)' <=> Busy(v)) /\ job'[v] = job[v]
          /\ \A j \in (1..MaxSnaps) \ {i} : queue'[j] = queue[j]
      BY <2>1, <3>1 DEF TypeOK, Busy
    <3>3. \A v \in Workers : Busy(v) => job[v] # i /\ job[v] \in 1..MaxSnaps
      BY <3>1 DEF Held, Rowed, TypeOK
    <3>4. ~Busy(w)
      BY <3>1 DEF Busy
    <3>5. ASSUME NEW v \in Workers, Busy(v)'
          PROVE  job'[v] \in 1..Len(snaps') /\ queue'[job'[v]] = "analyzing"
      BY <3>1, <3>2, <3>3, <3>5 DEF Held
    <3>6. ASSUME NEW u \in Workers, NEW v \in Workers, Busy(u)', Busy(v)', job'[u] = job'[v]
          PROVE  u = v
      BY <3>2, <3>3, <3>6 DEF Held
    <3>7. ASSUME NEW j \in 1..MaxSnaps, queue'[j] = "analyzing"
          PROVE  \E v \in Workers : Busy(v)' /\ job'[v] = j
      <4>1. CASE j = i
        BY <3>2, <4>1
      <4>2. CASE j # i
        <5>1. PICK v \in Workers : Busy(v) /\ job[v] = j
          BY <3>2, <3>7, <4>2 DEF Held
        <5> QED
          BY <3>2, <3>4, <5>1
      <4> QED
        BY <4>1, <4>2
    <3> QED
      BY <3>5, <3>6, <3>7 DEF Held
  <2> QED
    BY <2>2, <2>3, <2>4
<1>4. ASSUME NEW w \in Workers, WorkStep(w)
      PROVE  BaseInv'
  <2>1. TypeOK'
    BY <1>4, WorkType
  <2>2. Rowed' /\ Held'
    BY <1>4, WorkFrame DEF Rowed, Held, Busy, repo
  <2> QED
    BY <2>1, <2>2
<1>5. ASSUME NEW w \in Workers, Settle(w)
      PROVE  BaseInv'
  <2>1. job[w] \in 1..Len(snaps) /\ job[w] \in 1..MaxSnaps /\ queue[job[w]] = "analyzing"
    BY <1>5 DEF Held, Busy, Settle, TypeOK
  <2>2. TypeOK'
    BY <1>5, <2>1, MaxSnapsAssumption DEF TypeOK, Settle, repo, sweep, history
  <2>3. Rowed'
    BY <1>5, <2>1 DEF Rowed, Settle, TypeOK, repo
  <2>4. Held'
    <3>1. /\ pc[w] # "idle" /\ UNCHANGED snaps
          /\ pc' = [pc EXCEPT ![w] = "idle"]
          /\ queue' = [queue EXCEPT ![job[w]] = "settled"]
          /\ job' = [job EXCEPT ![w] = 0]
      BY <1>5 DEF Settle, repo
    <3>2. /\ Busy(w) /\ ~Busy(w)' /\ queue'[job[w]] = "settled"
          /\ \A v \in Workers \ {w} : (Busy(v)' <=> Busy(v)) /\ job'[v] = job[v]
          /\ \A j \in (1..MaxSnaps) \ {job[w]} : queue'[j] = queue[j]
      BY <2>1, <3>1 DEF TypeOK, Busy
    <3>3. ASSUME NEW v \in Workers, Busy(v)'
          PROVE  job'[v] \in 1..Len(snaps') /\ queue'[job'[v]] = "analyzing"
      <4>1. v # w /\ Busy(v) /\ job'[v] = job[v]
        BY <3>2, <3>3
      <4>2. job[v] # job[w] /\ job[v] \in 1..Len(snaps) /\ job[v] \in 1..MaxSnaps
        BY <3>2, <4>1 DEF Held, Rowed, TypeOK
      <4> QED
        BY <3>1, <3>2, <4>1, <4>2 DEF Held
    <3>4. ASSUME NEW u \in Workers, NEW v \in Workers, Busy(u)', Busy(v)', job'[u] = job'[v]
          PROVE  u = v
      BY <3>2, <3>4 DEF Held
    <3>5. ASSUME NEW j \in 1..MaxSnaps, queue'[j] = "analyzing"
          PROVE  \E v \in Workers : Busy(v)' /\ job'[v] = j
      <4>1. j # job[w] /\ queue[j] = "analyzing"
        BY <3>2, <3>5
      <4>2. PICK v \in Workers : Busy(v) /\ job[v] = j
        BY <4>1 DEF Held
      <4> QED
        BY <3>2, <4>1, <4>2
    <3> QED
      BY <3>3, <3>4, <3>5 DEF Held
  <2> QED
    BY <2>2, <2>3, <2>4
<1>6. CASE Outage
  <2>1. TypeOK'
    BY <1>6, MaxSnapsAssumption DEF TypeOK, Outage, repo, sweep, history, NoPush
  <2>2. Rowed'
    BY <1>6 DEF Rowed, Outage, TypeOK, repo
  <2>3. Held'
    BY <1>6 DEF Held, Busy, Outage, TypeOK, repo
  <2> QED
    BY <2>1, <2>2, <2>3
<1>7. CASE Gc
  <2>1. TypeOK'
    <3>1. CASE GcList \/ GcCompare \/ NoBranchesRead \/ GcEnd
      BY <3>1 DEF TypeOK, GcList, GcCompare, NoBranchesRead, GcEnd, repo, worker, history
    <3>2. CASE GcDeleteLocal
      <4>1. /\ local' \in [Refs -> 0..MaxSnaps] /\ failed' \subseteq Refs
            /\ crossed' \subseteq Refs /\ doomed' \subseteq Refs /\ gcRefs' \subseteq Refs
        <5>1. PICK r \in gcRefs :
                /\ doomed' = {r} /\ gcRefs' = gcRefs \ {r}
                /\ crossed' \in {crossed, crossed \cup {r}}
                /\ local' \in {local, [local EXCEPT ![r] = 0]}
                /\ failed' \in {failed, failed \cup {r}}
          BY <3>2 DEF GcDeleteLocal
        <5>2. r \in Refs /\ 0 \in 0..MaxSnaps
          BY MaxSnapsAssumption DEF TypeOK
        <5> QED
          BY <5>1, <5>2 DEF TypeOK
      <4> QED
        BY <3>2, <4>1 DEF TypeOK, GcDeleteLocal, repo, worker
    <3>3. CASE GcDeleteRemote
      BY <3>3, MaxSnapsAssumption DEF TypeOK, GcDeleteRemote, repo, worker
    <3> QED
      BY <1>7, <3>1, <3>2, <3>3 DEF Gc
  <2>2. UNCHANGED <<repo, queue, worker>>
    BY <1>7 DEF Gc, GcList, GcCompare, NoBranchesRead, GcEnd, GcDeleteLocal, GcDeleteRemote
  <2> QED
    BY <2>1, <2>2 DEF Rowed, Held, Busy, repo, worker
<1>8. CASE UNCHANGED vars
  BY <1>8 DEF vars, repo, worker, sweep, history, TypeOK, Rowed, Held, Busy
<1> QED
  BY <1>1, <1>2, <1>3, <1>4, <1>5, <1>6, <1>7, <1>8
     DEF Next, WorkerStep, PushEnds, WorkStep, Claim

LEMMA SparesStep == GcSparesLive /\ [Next]_vars => GcSparesLive'
<1> SUFFICES ASSUME GcSparesLive, [Next]_vars
             PROVE  GcSparesLive'
  OBVIOUS
<1>1. CASE Gc
  BY <1>1 DEF GcSparesLive, Gc, GcList, GcCompare, NoBranchesRead, GcEnd, GcDeleteLocal,
              GcDeleteRemote
<1>2. ASSUME NEW b \in Branches, MoveBranch(b)
      PROVE  GcSparesLive'
  BY <1>2 DEF GcSparesLive, MoveBranch
<1>3. ASSUME NEW w \in Workers, WorkerStep(w)
      PROVE  UNCHANGED sweep
  BY <1>3 DEF WorkerStep, PushEnds, NotPublished, UpdateRef, StartPush, NothingToPush,
              PushLands, PushFails, PushHangs, Publication, Settle, Claim, Take
<1>4. ASSUME NEW b \in Branches, Snapshot(b)
      PROVE  UNCHANGED sweep
  BY <1>4 DEF Snapshot
<1>5. CASE UNCHANGED sweep
  BY <1>5 DEF sweep, GcSparesLive
<1> QED
  BY <1>1, <1>2, <1>3, <1>4, <1>5 DEF Next, Outage, vars

-----------------------------------------------------------------------------
(* What is published is what the local ref says *)

\* Nothing moves but the developer and the part of gc that only reads.
Still ==
  /\ UNCHANGED <<local, remote, pc, job, push, doomed, failed, shared, crossed, outages>>
  /\ \A w \in Workers : Busy(w) => RefOf(job[w])' = RefOf(job[w])

LEMMA SnapshotIsStill ==
  ASSUME BaseInv, NEW b \in Branches, Snapshot(b)
  PROVE  Still
<1>1. UNCHANGED <<local, remote, pc, job, push, doomed, failed, shared, crossed, outages>>
  BY DEF Snapshot, worker, sweep, history
<1>2. ASSUME NEW w \in Workers, Busy(w)
      PROVE  RefOf(job[w])' = RefOf(job[w])
  <2>1. job[w] \in 1..Len(snaps) /\ job'[w] = job[w]
    BY <1>1, <1>2 DEF BaseInv, Held
  <2>2. snaps'[job[w]] = snaps[job[w]]
    BY <2>1, SnapshotRow DEF BaseInv, RefOf, Snapshot, TypeOK
  <2> QED
    BY <2>1, <2>2 DEF RefOf
<1> QED
  BY <1>1, <1>2 DEF Still

\* The kinds of steps the refs can tell apart.
LEMMA StepKinds ==
  ASSUME BaseInv, [Next]_vars
  PROVE  \/ Still /\ ((\E b \in Branches : Snapshot(b)) \/ UNCHANGED <<snaps, queue>>)
         \/ \E w \in Workers : \E i \in 1..Len(snaps) :
              Take(w, i) /\ \A j \in 1..(i - 1) : queue[j] # "pending"
         \/ \E w \in Workers : WorkStep(w)
         \/ \E w \in Workers : Settle(w)
         \/ Outage \/ GcDeleteLocal \/ GcDeleteRemote
<1>1. ASSUME NEW b \in Branches, Snapshot(b)
      PROVE  Still
  BY <1>1, SnapshotIsStill
<1>2. ASSUME NEW b \in Branches, MoveBranch(b)
      PROVE  Still /\ UNCHANGED <<snaps, queue>>
  BY <1>2 DEF MoveBranch, Still, worker, history, RefOf
<1>3. CASE GcList \/ GcCompare \/ NoBranchesRead \/ GcEnd
  <2>1. Still /\ UNCHANGED <<snaps, queue>>
    BY <1>3 DEF GcList, GcCompare, NoBranchesRead, GcEnd, Still, repo, worker, history, RefOf
  <2> QED
    BY <2>1
<1>4. CASE UNCHANGED vars
  <2>1. Still /\ UNCHANGED <<snaps, queue>>
    BY <1>4 DEF vars, repo, worker, sweep, history, Still, RefOf
  <2> QED
    BY <2>1
<1> QED
  BY <1>1, <1>2, <1>3, <1>4 DEF Next, WorkerStep, WorkStep, PushEnds, Claim, Gc

LEMMA SweptStep ==
  ASSUME BaseInv, Swept, [Next]_vars
  PROVE  Swept'
<1>1. CASE Still
  BY <1>1 DEF Still, Swept, Publishing, Busy
<1>2. ASSUME NEW w \in Workers, NEW i \in 1..Len(snaps), Take(w, i)
      PROVE  Swept'
  BY <1>2 DEF Take, Swept, Publishing, BaseInv, TypeOK, repo, sweep, RefOf
<1>3. ASSUME NEW w \in Workers, WorkStep(w)
      PROVE  Swept'
  <2>1. /\ UNCHANGED <<snaps, job, doomed>> /\ RefOf(job[w]) \in Refs
        /\ \A v \in Workers \ {w} : pc'[v] = pc[v]
    BY <1>3, WorkFrame DEF BaseInv, repo, sweep
  <2>2. failed \subseteq failed' /\ crossed \subseteq crossed'
    BY <1>3 DEF WorkStep, NotPublished, UpdateRef, StartPush, NothingToPush, PushLands,
                PushFails, PushHangs, Publication, history
  <2> SUFFICES ASSUME NEW r \in doomed \ (failed' \cup crossed')
               PROVE  local'[r] = 0 /\ \A v \in Workers : ~Publishing(v, r)'
    BY <2>1 DEF Swept
  <2>3. local[r] = 0 /\ \A v \in Workers : ~Publishing(v, r)
    BY <2>2 DEF Swept
  <2>4. \A v \in Workers \ {w} : ~Publishing(v, r)'
    BY <2>1, <2>3 DEF Publishing, RefOf
  <2>5. CASE UpdateRef(w)
    <3>1. RefOf(job[w]) # r
      BY <2>5 DEF UpdateRef
    <3> QED
      BY <2>1, <2>3, <2>4, <2>5, <3>1 DEF UpdateRef, Publishing, RefOf, BaseInv, TypeOK
  <2>6. CASE ~UpdateRef(w)
    <3>1. UNCHANGED local
      BY <1>3, <2>6 DEF WorkStep, NotPublished, StartPush, NothingToPush, PushLands,
                        PushFails, PushHangs, Publication
    <3>2. Publishing(w, r)' => Publishing(w, r)
      BY <1>3, <2>1, <2>6
         DEF WorkStep, NotPublished, StartPush, NothingToPush, PushLands, PushFails,
             PushHangs, Publication, Publishing, RefOf, BaseInv, TypeOK
    <3> QED
      BY <2>3, <2>4, <3>1, <3>2
  <2> QED
    BY <2>5, <2>6
<1>4. ASSUME NEW w \in Workers, Settle(w)
      PROVE  Swept'
  BY <1>4 DEF Settle, Swept, Publishing, BaseInv, TypeOK, repo, sweep, history, RefOf
<1>5. CASE Outage
  BY <1>5 DEF Outage, Swept, Publishing, repo, sweep, history
<1>6. CASE GcDeleteLocal
  BY <1>6 DEF GcDeleteLocal, Swept, Publishing, BaseInv, TypeOK, repo, worker, RefOf
<1>7. CASE GcDeleteRemote
  BY <1>7 DEF GcDeleteRemote, Swept
<1> QED
  BY <1>1, <1>2, <1>3, <1>4, <1>5, <1>6, <1>7, StepKinds

LEMMA UnreadStep ==
  ASSUME BaseInv, Unread, [Next]_vars
  PROVE  Unread'
<1> SUFFICES ASSUME outages' = 0, NEW i \in 1..MaxSnaps, Unpublished(i)'
             PROVE  /\ \A r \in Refs : local'[r] # i /\ remote'[r] # i
                    /\ \A w \in Workers : push'[w].new # i /\ push'[w].old # i
  BY DEF Unread
<1> USE DEF BaseInv
<1>a. ASSUME outages = 0, Unpublished(i)
      PROVE  /\ \A r \in Refs : local[r] # i /\ remote[r] # i
             /\ \A w \in Workers : push[w].new # i /\ push[w].old # i
  BY <1>a DEF Unread
<1>b. i # 0
  OBVIOUS
<1>1. CASE Still /\ ((\E b \in Branches : Snapshot(b)) \/ UNCHANGED <<snaps, queue>>)
  <2>1. ASSUME NEW b \in Branches, Snapshot(b), queue'[i] \in {"none", "pending"}
        PROVE  queue[i] \in {"none", "pending"}
    <3>1. queue' = [queue EXCEPT ![Len(snaps) + 1] = "pending"] /\ Len(snaps) + 1 \in 1..MaxSnaps
      BY <2>1, SnapshotRow DEF Snapshot
    <3>2. queue[Len(snaps) + 1] = "none"
      BY <2>1, <3>1, SnapshotRow DEF Rowed, TypeOK
    <3> QED
      BY <2>1, <3>1, <3>2 DEF TypeOK
  <2>2. Unpublished(i)
    BY <1>1, <2>1 DEF Unpublished, Still
  <2> QED
    BY <1>1, <1>a, <2>2 DEF Still
<1>2. ASSUME NEW w \in Workers, NEW k \in 1..Len(snaps), Take(w, k)
      PROVE  /\ \A r \in Refs : local'[r] # i /\ remote'[r] # i
             /\ \A v \in Workers : push'[v].new # i /\ push'[v].old # i
  <2>1. Unpublished(i)
    BY <1>2 DEF Take, Unpublished, TypeOK
  <2> QED
    BY <1>2, <1>a, <2>1 DEF Take
<1>3. ASSUME NEW w \in Workers, WorkStep(w)
      PROVE  /\ \A r \in Refs : local'[r] # i /\ remote'[r] # i
             /\ \A v \in Workers : push'[v].new # i /\ push'[v].old # i
  <2>1. /\ UNCHANGED <<queue, job, outages>> /\ Busy(w) /\ RefOf(job[w]) \in Refs
        /\ pc'[w] # "idle" /\ \A v \in Workers \ {w} : pc'[v] = pc[v]
    BY <1>3, WorkFrame
  <2>2. pc'[w] # "claimed"
    BY <1>3 DEF WorkStep, NotPublished, UpdateRef, StartPush, NothingToPush, PushLands,
                PushFails, PushHangs, Publication, TypeOK
  <2>3. Unpublished(i)
    BY <2>1, <2>2 DEF Unpublished
  <2>4. job[w] # i
    <3>1. CASE queue[i] \in {"none", "pending"}
      BY <2>1, <3>1 DEF Held
    <3>2. ASSUME NEW v \in Workers, pc'[v] = "claimed", job'[v] = i
          PROVE  job[w] # i
      <4>1. v # w /\ Busy(v) /\ job[v] = i
        BY <2>1, <2>2, <3>2 DEF Busy
      <4> QED
        BY <2>1, <4>1 DEF Held
    <3> QED
      BY <2>1, <3>1, <3>2 DEF Unpublished
  <2>5. /\ \A r \in Refs : local[r] # i /\ remote[r] # i
        /\ \A v \in Workers : push[v].new # i /\ push[v].old # i
    BY <1>a, <2>1, <2>3
  <2>6. \A r \in Refs : local'[r] # i
    BY <1>3, <2>4, <2>5
       DEF WorkStep, NotPublished, UpdateRef, StartPush, NothingToPush, PushLands,
           PushFails, PushHangs, Publication, TypeOK
  <2>7. \A r \in Refs : remote'[r] # i
    BY <1>3, <2>5
       DEF WorkStep, NotPublished, UpdateRef, StartPush, NothingToPush, PushLands,
           PushFails, PushHangs, Publication, Lands, TypeOK
  <2>8. \A v \in Workers : push'[v].new # i /\ push'[v].old # i
    <3>1. CASE StartPush(w)
      BY <2>1, <2>5, <3>1 DEF StartPush, TypeOK
    <3>2. CASE push' = [push EXCEPT ![w] = NoPush]
      <4>1. NoPush.new # i /\ NoPush.old # i
        BY <1>b DEF NoPush
      <4> QED
        BY <2>5, <3>2, <4>1 DEF TypeOK
    <3>3. CASE UNCHANGED push
      BY <2>5, <3>3
    <3> QED
      BY <1>3, <3>1, <3>2, <3>3
         DEF WorkStep, NotPublished, UpdateRef, NothingToPush, PushLands, PushFails,
             PushHangs, Publication
  <2> QED
    BY <2>6, <2>7, <2>8
<1>4. ASSUME NEW w \in Workers, Settle(w)
      PROVE  /\ \A r \in Refs : local'[r] # i /\ remote'[r] # i
             /\ \A v \in Workers : push'[v].new # i /\ push'[v].old # i
  <2>1. Unpublished(i)
    BY <1>4 DEF Settle, Unpublished, TypeOK
  <2> QED
    BY <1>4, <1>a, <2>1 DEF Settle
<1>5. CASE Outage
  BY <1>5 DEF Outage, TypeOK
<1>6. CASE GcDeleteLocal \/ GcDeleteRemote
  <2>1. UNCHANGED <<queue, pc, job, push, outages>>
    BY <1>6 DEF GcDeleteLocal, GcDeleteRemote, worker
  <2>2. Unpublished(i)
    BY <2>1 DEF Unpublished
  <2>3. /\ \A r \in Refs : local[r] # i /\ remote[r] # i
        /\ \A v \in Workers : push[v].new # i /\ push[v].old # i
    BY <1>a, <2>1, <2>2
  <2>4. \A r \in Refs : local'[r] # i /\ remote'[r] # i
    BY <1>6, <1>b, <2>3 DEF GcDeleteLocal, GcDeleteRemote, TypeOK
  <2> QED
    BY <2>1, <2>3, <2>4
<1> QED
  BY <1>1, <1>2, <1>3, <1>4, <1>5, <1>6, StepKinds

LEMMA NoReturnStep ==
  ASSUME BaseInv, Swept, Unread, NoReturn, [Next]_vars
  PROVE  NoReturn'
<1> SUFFICES ASSUME outages' = 0, NEW w \in Workers,
                    pc'[w] \in {"pushing", "hung"},
                    RefOf(job[w])' \notin failed' \cup crossed',
                    push'[w].old = local'[RefOf(job[w])']
             PROVE  push'[w].new = local'[RefOf(job[w])']
  BY DEF NoReturn
<1> USE DEF BaseInv
<1>a. ASSUME outages = 0, pc[w] \in {"pushing", "hung"},
             RefOf(job[w]) \notin failed \cup crossed,
             push[w].old = local[RefOf(job[w])]
      PROVE  push[w].new = local[RefOf(job[w])]
  BY <1>a DEF NoReturn
<1>1. CASE Still
  BY <1>1, <1>a DEF Still, Busy
<1>2. ASSUME NEW v \in Workers, NEW i \in 1..Len(snaps), Take(v, i)
      PROVE  push'[w].new = local'[RefOf(job[w])']
  BY <1>2, <1>a DEF Take, TypeOK, repo, RefOf
<1>3. ASSUME NEW v \in Workers, WorkStep(v)
      PROVE  push'[w].new = local'[RefOf(job[w])']
  <2>1. /\ UNCHANGED <<snaps, queue, job, outages>>
        /\ Busy(v) /\ RefOf(job[v]) \in Refs /\ job[v] \in 1..MaxSnaps
        /\ \A u \in Workers \ {v} : pc'[u] = pc[u]
    BY <1>3, WorkFrame DEF repo
  <2>2. failed \subseteq failed' /\ crossed \subseteq crossed'
    BY <1>3 DEF WorkStep, NotPublished, UpdateRef, StartPush, NothingToPush, PushLands,
                PushFails, PushHangs, Publication, history
  <2>3. RefOf(job[w])' = RefOf(job[w])
    BY <2>1 DEF RefOf
  <2>4. CASE v = w
    <3>1. StartPush(w) \/ PushHangs(w)
      BY <1>3, <2>4 DEF WorkStep, NotPublished, UpdateRef, NothingToPush, PushLands,
                        PushFails, Publication, TypeOK
    <3>2. CASE StartPush(w)
      BY <2>3, <3>2 DEF StartPush, TypeOK
    <3>3. CASE PushHangs(w)
      BY <1>a, <2>1, <2>2, <2>3, <3>3 DEF PushHangs, history
    <3> QED
      BY <3>1, <3>2, <3>3
  <2>5. CASE v # w
    <3>1. push'[w] = push[w] /\ pc'[w] = pc[w]
      BY <1>3, <2>1, <2>5
         DEF WorkStep, NotPublished, UpdateRef, StartPush, NothingToPush, PushLands,
             PushFails, PushHangs, Publication, TypeOK
    <3>2. CASE local'[RefOf(job[w])] = local[RefOf(job[w])]
      BY <1>a, <2>1, <2>2, <2>3, <3>1, <3>2
    <3>3. CASE local'[RefOf(job[w])] # local[RefOf(job[w])]
      <4>1. UpdateRef(v)
        BY <1>3, <3>3 DEF WorkStep, NotPublished, StartPush, NothingToPush, PushLands,
                          PushFails, PushHangs, Publication
      <4>2. local'[RefOf(job[w])] = job[v] /\ Unpublished(job[v])
        BY <2>1, <3>3, <4>1 DEF UpdateRef, Unpublished, TypeOK
      <4>3. push[w].old # job[v]
        BY <2>1, <4>2 DEF Unread
      <4> QED
        BY <2>3, <3>1, <4>2, <4>3
    <3> QED
      BY <3>2, <3>3
  <2> QED
    BY <2>4, <2>5
<1>4. ASSUME NEW v \in Workers, Settle(v)
      PROVE  push'[w].new = local'[RefOf(job[w])']
  BY <1>4, <1>a DEF Settle, TypeOK, repo, history, RefOf
<1>5. CASE Outage
  BY <1>5 DEF Outage, TypeOK
<1>6. CASE GcDeleteLocal
  <2>1. /\ UNCHANGED <<snaps, pc, job, push, outages>> /\ failed \subseteq failed'
        /\ crossed \subseteq crossed'
    BY <1>6 DEF GcDeleteLocal, repo, worker
  <2>2. RefOf(job[w])' = RefOf(job[w])
    BY <2>1 DEF RefOf
  <2>3. local'[RefOf(job[w])] = local[RefOf(job[w])]
    <3>1. Publishing(w, RefOf(job[w]))
      BY <2>1 DEF Publishing
    <3> QED
      <4>1. PICK r \in gcRefs :
              /\ crossed' = IF \E v \in Workers : Publishing(v, r)
                            THEN crossed \cup {r} ELSE crossed
              /\ local' = [local EXCEPT ![r] = 0] \/ UNCHANGED local
        BY <1>6 DEF GcDeleteLocal
      <4>2. r # RefOf(job[w])
        BY <2>2, <3>1, <4>1
      <4>3. RefOf(job[w]) \in Refs
        BY <2>1, RefOfSnap DEF Held, Busy
      <4> QED
        BY <4>1, <4>2, <4>3 DEF TypeOK
  <2> QED
    BY <1>a, <2>1, <2>2, <2>3
<1>7. CASE GcDeleteRemote
  BY <1>7, <1>a DEF GcDeleteRemote, repo, worker, RefOf
<1> QED
  BY <1>1, <1>2, <1>3, <1>4, <1>5, <1>6, <1>7, StepKinds

LEMMA CarriedStep ==
  ASSUME BaseInv, Swept, NoReturn, Carried, [Next]_vars
  PROVE  Carried'
<1> SUFFICES ASSUME outages' = 0, NEW r \in Refs, r \notin failed', r \notin crossed',
                    r \notin doomed'
             PROVE  remote'[r] = local'[r] \/ \E w \in Workers : Carries(w, r)'
  BY DEF Carried
<1> USE DEF BaseInv
<1> DEFINE Good == remote'[r] = local'[r] \/ \E w \in Workers : Carries(w, r)'
<1>a. ASSUME outages = 0, r \notin failed, r \notin crossed, r \notin doomed
      PROVE  remote[r] = local[r] \/ \E w \in Workers : Carries(w, r)
  BY <1>a DEF Carried
<1>1. CASE Still
  BY <1>1, <1>a DEF Still, Carries, Publishing, Busy
<1>2. ASSUME NEW w \in Workers, NEW i \in 1..Len(snaps), Take(w, i)
      PROVE  Good
  <2>1. /\ UNCHANGED <<snaps, local, remote, push, doomed, failed, crossed, outages>>
        /\ pc[w] = "idle"
        /\ \A v \in Workers \ {w} : pc'[v] = pc[v] /\ job'[v] = job[v]
    BY <1>2 DEF Take, TypeOK, repo, sweep
  <2>2. \A v \in Workers : Carries(v, r) => Carries(v, r)'
    BY <2>1 DEF Carries, Publishing, RefOf
  <2> QED
    BY <1>a, <2>1, <2>2
<1>3. ASSUME NEW w \in Workers, WorkStep(w)
      PROVE  Good
  <2>1. /\ UNCHANGED <<snaps, queue, job, doomed, outages>> /\ RefOf(job[w]) \in Refs
        /\ \A v \in Workers \ {w} : pc'[v] = pc[v]
    BY <1>3, WorkFrame DEF repo, sweep
  <2>2. failed \subseteq failed' /\ crossed \subseteq crossed'
    BY <1>3 DEF WorkStep, NotPublished, UpdateRef, StartPush, NothingToPush, PushLands,
                PushFails, PushHangs, Publication, history
  <2>3. remote[r] = local[r] \/ \E v \in Workers : Carries(v, r)
    BY <1>a, <2>1, <2>2
  <2>4. \A v \in Workers \ {w} : push'[v] = push[v]
    BY <1>3 DEF WorkStep, NotPublished, UpdateRef, StartPush, NothingToPush, PushLands,
                PushFails, PushHangs, Publication, TypeOK
  <2>5. CASE RefOf(job[w]) # r
    <3>1. local'[r] = local[r] /\ remote'[r] = remote[r]
      BY <1>3, <2>5 DEF WorkStep, NotPublished, UpdateRef, StartPush, NothingToPush,
                        PushLands, PushFails, PushHangs, Publication, Lands, TypeOK
    <3>2. \A v \in Workers : Carries(v, r) => Carries(v, r)'
      BY <2>1, <2>4, <2>5, <3>1 DEF Carries, Publishing, RefOf
    <3> QED
      BY <2>3, <3>1, <3>2
  <2>6. CASE RefOf(job[w]) = r /\ UpdateRef(w)
    BY <2>1, <2>6 DEF UpdateRef, Carries, Publishing, RefOf, TypeOK
  <2>7. CASE RefOf(job[w]) = r /\ StartPush(w)
    BY <2>1, <2>7 DEF StartPush, Carries, Publishing, RefOf, TypeOK
  <2>8. CASE RefOf(job[w]) = r /\ PushHangs(w)
    <3>1. \A v \in Workers : Carries(v, r) => Carries(v, r)'
      BY <2>1, <2>8 DEF PushHangs, Carries, Publishing, RefOf, TypeOK
    <3> QED
      BY <2>3, <2>8, <3>1 DEF PushHangs
  <2>9. CASE RefOf(job[w]) = r /\ PushLands(w)
    <3>1. /\ pc[w] = "pushing" /\ remote[r] = push[w].old /\ local' = local
          /\ remote'[r] = push[w].new
      BY <2>1, <2>9 DEF PushLands, Lands, Publication, TypeOK
    <3>2. CASE push[w].new = local[r]
      BY <3>1, <3>2
    <3>3. CASE push[w].new # local[r]
      <4>1. remote[r] # local[r]
        BY <2>1, <2>2, <2>9, <3>1, <3>3 DEF NoReturn
      <4>2. PICK v \in Workers : Carries(v, r)
        BY <2>3, <4>1
      <4>3. v # w
        BY <3>1, <3>3, <4>2 DEF Carries
      <4>4. Carries(v, r)'
        BY <2>1, <2>4, <3>1, <4>2, <4>3 DEF Carries, Publishing, RefOf
      <4> QED
        BY <4>4
    <3> QED
      BY <3>2, <3>3
  <2>10. CASE NotPublished(w) \/ NothingToPush(w) \/ PushFails(w)
    <3>1. RefOf(job[w]) # r
      BY <2>10 DEF NotPublished, NothingToPush, PushFails, Publication
    <3> QED
      BY <2>5, <3>1
  <2> QED
    BY <1>3, <2>5, <2>6, <2>7, <2>8, <2>9, <2>10 DEF WorkStep
<1>4. ASSUME NEW w \in Workers, Settle(w)
      PROVE  Good
  <2>1. /\ UNCHANGED <<snaps, local, remote, push, doomed, failed, crossed, outages>>
        /\ pc[w] = "analyzing"
        /\ \A v \in Workers \ {w} : pc'[v] = pc[v] /\ job'[v] = job[v]
    BY <1>4 DEF Settle, TypeOK, repo, sweep, history
  <2>2. \A v \in Workers : Carries(v, r) => Carries(v, r)'
    BY <2>1 DEF Carries, Publishing, RefOf
  <2> QED
    BY <1>a, <2>1, <2>2
<1>5. CASE Outage
  BY <1>5 DEF Outage, TypeOK
<1>6. CASE GcDeleteLocal
  <2>1. /\ UNCHANGED <<snaps, pc, job, push, remote, outages>> /\ r \notin failed
        /\ r \notin crossed /\ doomed = {} /\ local'[r] = local[r]
    BY <1>6 DEF GcDeleteLocal, repo, worker, TypeOK
  <2>2. \A v \in Workers : Carries(v, r) => Carries(v, r)'
    BY <2>1 DEF Carries, Publishing, RefOf
  <2> QED
    BY <1>a, <2>1, <2>2
<1>7. CASE GcDeleteRemote
  <2>1. /\ UNCHANGED <<snaps, pc, job, push, local, crossed, outages>> /\ r \notin failed
        /\ r \notin crossed
    BY <1>7 DEF GcDeleteRemote, repo, worker
  <2>2. CASE r \in doomed
    <3>1. local[r] = 0
      BY <2>1, <2>2 DEF Swept
    <3>2. remote'[r] = 0
      BY <1>7, <2>2 DEF GcDeleteRemote, Swept, TypeOK
    <3> QED
      BY <2>1, <3>1, <3>2
  <2>3. CASE r \notin doomed
    <3>1. remote'[r] = remote[r]
      BY <1>7, <2>3 DEF GcDeleteRemote, TypeOK
    <3>2. \A v \in Workers : Carries(v, r) => Carries(v, r)'
      BY <2>1 DEF Carries, Publishing, RefOf
    <3> QED
      BY <1>a, <2>1, <2>3, <3>1, <3>2
  <2> QED
    BY <2>2, <2>3
<1> QED
  BY <1>1, <1>2, <1>3, <1>4, <1>5, <1>6, <1>7, StepKinds

-----------------------------------------------------------------------------
(* Without overlap the newest snapshot is published *)

LEMMA OneByOneStep ==
  ASSUME BaseInv, OneByOne, [Next]_vars
  PROVE  OneByOne'
<1> SUFFICES ASSUME NEW u \in Workers, NEW v \in Workers, Busy(u)', Busy(v)',
                    RefOf(job[u])' = RefOf(job[v])', RefOf(job[u])' \notin shared',
                    u # v
             PROVE  FALSE
  BY DEF OneByOne
<1> USE DEF BaseInv
<1>1. CASE /\ UNCHANGED shared /\ Busy(u) /\ Busy(v)
           /\ RefOf(job[u])' = RefOf(job[u]) /\ RefOf(job[v])' = RefOf(job[v])
  BY <1>1 DEF OneByOne
<1>2. ASSUME NEW w \in Workers, NEW i \in 1..Len(snaps), Take(w, i)
      PROVE  FALSE
  <2>1. /\ UNCHANGED snaps /\ pc[w] = "idle" /\ job'[w] = i
        /\ \A x \in Workers \ {w} : pc'[x] = pc[x] /\ job'[x] = job[x]
        /\ shared' = IF \E x \in Workers \ {w} : pc[x] # "idle" /\ RefOf(job[x]) = RefOf(i)
                     THEN shared \cup {RefOf(i)} ELSE shared
    BY <1>2 DEF Take, TypeOK, repo
  <2>2. CASE u # w /\ v # w
    <3>1. RefOf(job[u])' = RefOf(job[u]) /\ RefOf(job[v])' = RefOf(job[v])
      BY <2>1, <2>2 DEF RefOf
    <3>2. RefOf(job[u]) \notin shared /\ Busy(u) /\ Busy(v)
      BY <2>1, <2>2, <3>1 DEF Busy
    <3> QED
      BY <3>1, <3>2 DEF OneByOne
  <2>3. CASE u = w \/ v = w
    <3>1. PICK x \in Workers \ {w} : pc[x] # "idle" /\ RefOf(job[x]) = RefOf(i)
      BY <2>1, <2>3 DEF Busy, RefOf
    <3>2. RefOf(job[u])' = RefOf(i)
      BY <2>1, <2>3 DEF RefOf
    <3> QED
      BY <2>1, <3>1, <3>2
  <2> QED
    BY <2>2, <2>3
<1>3. CASE Still
  BY <1>1, <1>3 DEF Still, Busy
<1>4. ASSUME NEW w \in Workers, WorkStep(w)
      PROVE  FALSE
  <2>1. /\ UNCHANGED <<snaps, job, shared>> /\ Busy(w)
        /\ \A x \in Workers \ {w} : pc'[x] = pc[x]
    BY <1>4, WorkFrame DEF repo
  <2>2. Busy(u) /\ Busy(v)
    BY <2>1 DEF Busy
  <2> QED
    BY <1>1, <2>1, <2>2 DEF RefOf
<1>5. ASSUME NEW w \in Workers, Settle(w)
      PROVE  FALSE
  <2>1. /\ UNCHANGED <<snaps, shared>> /\ pc'[w] = "idle"
        /\ \A x \in Workers \ {w} : pc'[x] = pc[x] /\ job'[x] = job[x]
    BY <1>5 DEF Settle, TypeOK, repo, history
  <2>2. u # w /\ v # w
    BY <2>1 DEF Busy
  <2> QED
    BY <1>1, <2>1, <2>2 DEF RefOf, Busy
<1>6. CASE Outage
  BY <1>6 DEF Outage, Busy
<1>7. CASE GcDeleteLocal \/ GcDeleteRemote
  BY <1>1, <1>7 DEF GcDeleteLocal, GcDeleteRemote, repo, worker, Busy, RefOf
<1> QED
  BY <1>2, <1>3, <1>4, <1>5, <1>6, <1>7, StepKinds

LEMMA InTurnStep ==
  ASSUME BaseInv, InTurn, [Next]_vars
  PROVE  InTurn'
<1> SUFFICES ASSUME NEW i \in 1..Len(snaps'), NEW j \in 1..Len(snaps'), i < j,
                    RefOf(i)' = RefOf(j)', RefOf(i)' \notin shared',
                    queue'[j] \in {"analyzing", "settled"}
             PROVE  queue'[i] = "settled"
  BY DEF InTurn
<1> USE DEF BaseInv
<1>0. Len(snaps) \in Nat /\ Len(snaps) <= MaxSnaps /\ i \in Int /\ j \in Int
  BY DEF Rowed, TypeOK
<1>b. ASSUME UNCHANGED snaps
      PROVE  i \in 1..MaxSnaps /\ j \in 1..MaxSnaps
  BY <1>0, <1>b, MaxSnapsAssumption
<1>1. CASE /\ UNCHANGED snaps /\ shared \subseteq shared'
           /\ queue[j] \in {"analyzing", "settled"}
           /\ queue[i] = "settled" => queue'[i] = "settled"
  BY <1>1 DEF InTurn, RefOf
<1>2. ASSUME NEW b \in Branches, Snapshot(b)
      PROVE  queue'[i] = "settled"
  <2>1. /\ Len(snaps') = Len(snaps) + 1 /\ Len(snaps) + 1 \in 1..MaxSnaps
        /\ \A k \in 1..Len(snaps) : RefOf(k)' = RefOf(k)
        /\ queue' = [queue EXCEPT ![Len(snaps) + 1] = "pending"] /\ UNCHANGED shared
    BY <1>2, SnapshotRow DEF Snapshot, history
  <2>2. j # Len(snaps) + 1
    BY <2>1 DEF TypeOK
  <2>3. i \in 1..Len(snaps) /\ j \in 1..Len(snaps)
    BY <1>0, <2>1, <2>2
  <2>4. queue'[i] = queue[i] /\ queue'[j] = queue[j]
    BY <1>0, <2>1, <2>3 DEF TypeOK
  <2> QED
    BY <2>1, <2>3, <2>4 DEF InTurn
<1>3. ASSUME NEW w \in Workers, NEW k \in 1..Len(snaps), Take(w, k),
             \A l \in 1..(k - 1) : queue[l] # "pending"
      PROVE  queue'[i] = "settled"
  <2>1. /\ UNCHANGED snaps /\ pc[w] = "idle" /\ queue[k] = "pending" /\ k \in 1..MaxSnaps
        /\ i \in 1..MaxSnaps /\ j \in 1..MaxSnaps
        /\ queue' = [queue EXCEPT ![k] = "analyzing"]
        /\ shared' = IF \E x \in Workers \ {w} : pc[x] # "idle" /\ RefOf(job[x]) = RefOf(k)
                     THEN shared \cup {RefOf(k)} ELSE shared
    <3>1. k \in 1..MaxSnaps
      BY <1>0, MaxSnapsAssumption
    <3> QED
      BY <1>3, <1>b, <3>1 DEF Take, repo
  <2>2. CASE j # k
    <3>1. queue[j] = queue'[j] /\ (i # k => queue'[i] = queue[i]) /\ queue[k] # "settled"
      BY <2>1, <2>2 DEF TypeOK
    <3> QED
      BY <1>0, <2>1, <3>1 DEF InTurn, RefOf
  <2>3. CASE j = k
    <3>1. queue'[i] = queue[i] /\ queue[i] \notin {"none", "pending"} /\ i \in 1..Len(snaps)
      BY <1>0, <1>3, <2>1, <2>3 DEF Rowed, TypeOK
    <3>2. queue[i] # "analyzing"
      <4> SUFFICES ASSUME queue[i] = "analyzing" PROVE FALSE
        OBVIOUS
      <4>1. PICK x \in Workers : Busy(x) /\ job[x] = i
        BY <2>1 DEF Held
      <4>2. RefOf(job[x]) = RefOf(k) /\ x # w
        BY <2>1, <2>3, <4>1 DEF RefOf, Busy
      <4>3. RefOf(k) \in shared'
        BY <2>1, <4>1, <4>2 DEF Busy
      <4> QED
        BY <2>1, <2>3, <4>3 DEF RefOf
    <3> QED
      BY <2>1, <3>1, <3>2 DEF TypeOK
  <2> QED
    BY <2>2, <2>3
<1>4. CASE Still /\ UNCHANGED <<snaps, queue>>
  BY <1>1, <1>4 DEF Still
<1>5. ASSUME NEW w \in Workers, WorkStep(w)
      PROVE  queue'[i] = "settled"
  BY <1>1, <1>5, WorkFrame DEF repo
<1>6. ASSUME NEW w \in Workers, Settle(w)
      PROVE  queue'[i] = "settled"
  <2>1. /\ UNCHANGED <<snaps, shared>> /\ job[w] \in 1..MaxSnaps /\ queue[job[w]] = "analyzing"
        /\ queue' = [queue EXCEPT ![job[w]] = "settled"]
    BY <1>0, <1>6 DEF Settle, Held, Busy, repo, history, TypeOK
  <2> QED
    BY <1>0, <1>1, <2>1 DEF TypeOK
<1>7. CASE Outage
  <2>1. /\ UNCHANGED <<snaps, shared>>
        /\ \A k \in 1..MaxSnaps : queue'[k] = IF queue[k] = "analyzing" THEN "pending"
                                              ELSE queue[k]
    BY <1>7 DEF Outage, repo, history
  <2>2. i \in 1..MaxSnaps /\ j \in 1..MaxSnaps
    BY <1>b, <2>1
  <2>3. /\ queue[j] \in {"analyzing", "settled"}
        /\ queue[i] = "settled" => queue'[i] = "settled"
    BY <2>1, <2>2
  <2> QED
    BY <1>1, <2>1, <2>3
<1>8. CASE GcDeleteLocal \/ GcDeleteRemote
  BY <1>1, <1>8 DEF GcDeleteLocal, GcDeleteRemote, repo
<1> QED
  BY <1>2, <1>3, <1>4, <1>5, <1>6, <1>7, <1>8, StepKinds

LEMMA OrderlyShrinks ==
  ASSUME BaseInv, [Next]_vars
  PROVE  Orderly' \subseteq Orderly
<1>1. failed \subseteq failed' /\ shared \subseteq shared' /\ crossed \subseteq crossed'
  BY StepKinds
     DEF Still, Take, WorkStep, NotPublished, UpdateRef, StartPush, NothingToPush, PushLands,
         PushFails, PushHangs, Publication, Settle, Outage, GcDeleteLocal, GcDeleteRemote,
         history
<1> QED
  BY <1>1 DEF Orderly

\* A worker at another ref does not touch r.
LEMMA WorkElsewhere ==
  ASSUME BaseInv, NEW w \in Workers, WorkStep(w), NEW r \in Refs, RefOf(job[w]) # r
  PROVE  local'[r] = local[r] /\ remote'[r] = remote[r] /\ doomed' = doomed
<1>1. doomed' = doomed
  BY WorkFrame DEF BaseInv, sweep
<1> QED
  BY <1>1 DEF WorkStep, NotPublished, UpdateRef, StartPush, NothingToPush, PushLands, PushFails,
              PushHangs, Publication, Lands, BaseInv, TypeOK

\* gc collects a ref on both sides or fails.
LEMMA GcAt ==
  ASSUME BaseInv, Swept, GcDeleteLocal \/ GcDeleteRemote, NEW i,
         NEW r \in Refs, r \notin failed', At(r, i)
  PROVE  At(r, i)'
<1> USE DEF BaseInv
<1>1. CASE GcDeleteLocal
  <2>1. PICK q \in gcRefs :
          /\ doomed = {} /\ doomed' = {q} /\ UNCHANGED remote
          /\ \/ local' = [local EXCEPT ![q] = 0]
             \/ failed' = failed \cup {q} /\ UNCHANGED local
    BY <1>1 DEF GcDeleteLocal
  <2> QED
    BY <2>1 DEF At, TypeOK
<1>2. CASE GcDeleteRemote
  <2>1. PICK q \in doomed :
          /\ doomed' = {} /\ UNCHANGED local
          /\ \/ remote' = [remote EXCEPT ![q] = 0]
             \/ failed' = failed \cup {q} /\ UNCHANGED remote
    BY <1>2 DEF GcDeleteRemote
  <2>2. CASE q = r
    BY <2>1, <2>2 DEF At, TypeOK
  <2>3. CASE q # r
    <3>1. r \notin doomed
      BY <2>1, <2>3 DEF Swept
    <3> QED
      BY <2>1, <2>3, <3>1 DEF At, TypeOK
  <2> QED
    BY <2>2, <2>3
<1> QED
  BY <1>1, <1>2

LEMMA UnderWayStep ==
  ASSUME BaseInv, Swept, OneByOne, UnderWay, [Next]_vars
  PROVE  UnderWay'
<1> SUFFICES ASSUME NEW w \in Workers, Busy(w)', RefOf(job[w])' \in Orderly'
             PROVE  /\ pc'[w] \in {"updated", "pushing", "hung"} =>
                         local'[RefOf(job[w])'] = job'[w]
                    /\ pc'[w] \in {"pushing", "hung"} => push'[w].new = job'[w]
                    /\ pc'[w] = "analyzing" => At(RefOf(job[w]), job[w])'
  BY DEF UnderWay, At
<1> USE DEF BaseInv
<1> DEFINE Done == /\ pc'[w] \in {"updated", "pushing", "hung"} =>
                         local'[RefOf(job[w])'] = job'[w]
                   /\ pc'[w] \in {"pushing", "hung"} => push'[w].new = job'[w]
                   /\ pc'[w] = "analyzing" => At(RefOf(job[w]), job[w])'
<1>a. RefOf(job[w])' \in Orderly
  BY OrderlyShrinks
<1>b. ASSUME Busy(w), RefOf(job[w]) \in Orderly
      PROVE  /\ pc[w] \in {"updated", "pushing", "hung"} => local[RefOf(job[w])] = job[w]
             /\ pc[w] \in {"pushing", "hung"} => push[w].new = job[w]
             /\ pc[w] = "analyzing" => At(RefOf(job[w]), job[w])
  BY <1>b DEF UnderWay
<1>1. CASE /\ UNCHANGED <<local, remote, doomed>> /\ Busy(w)
           /\ RefOf(job[w])' = RefOf(job[w])
           /\ pc'[w] = pc[w] /\ push'[w] = push[w] /\ job'[w] = job[w]
  BY <1>1, <1>a, <1>b DEF At
<1>2. CASE Still
  BY <1>1, <1>2 DEF Still, Busy
<1>3. ASSUME NEW v \in Workers, NEW i \in 1..Len(snaps), Take(v, i)
      PROVE  Done
  <2>1. /\ UNCHANGED <<local, remote, doomed, push, snaps>> /\ pc'[v] = "claimed"
        /\ \A x \in Workers \ {v} : pc'[x] = pc[x] /\ job'[x] = job[x]
    BY <1>3 DEF Take, TypeOK, repo, sweep
  <2> QED
    BY <1>1, <2>1 DEF RefOf, Busy
<1>4. ASSUME NEW v \in Workers, WorkStep(v)
      PROVE  Done
  <2>1. /\ UNCHANGED <<snaps, job, doomed>> /\ RefOf(job[v]) \in Refs /\ Busy(v)
        /\ \A x \in Workers \ {v} : pc'[x] = pc[x]
    BY <1>4, WorkFrame DEF repo, sweep
  <2>2. RefOf(job[w])' = RefOf(job[w]) /\ Busy(w)
    BY <2>1 DEF RefOf, Busy
  <2>3. CASE v # w
    <3>1. RefOf(job[v]) # RefOf(job[w])
      BY <1>a, <2>1, <2>2, <2>3 DEF OneByOne, Orderly
    <3>2. /\ local'[RefOf(job[w])] = local[RefOf(job[w])]
          /\ remote'[RefOf(job[w])] = remote[RefOf(job[w])]
      BY <1>4, <1>a, <2>2, <3>1, WorkElsewhere DEF Orderly
    <3>3. push'[w] = push[w]
      BY <1>4, <2>3 DEF WorkStep, NotPublished, UpdateRef, StartPush, NothingToPush,
                        PushLands, PushFails, PushHangs, Publication, TypeOK
    <3> QED
      BY <1>a, <1>b, <2>1, <2>2, <2>3, <3>2, <3>3 DEF At
  <2>4. CASE v = w
    <3>1. UpdateRef(w) \/ StartPush(w) \/ PushLands(w) \/ PushHangs(w)
      BY <1>4, <2>2, <2>4 DEF WorkStep, NotPublished, NothingToPush, PushFails, Publication,
                              Orderly
    <3>2. CASE UpdateRef(w)
      BY <2>1, <2>2, <2>4, <3>2 DEF UpdateRef, TypeOK
    <3>3. CASE StartPush(w)
      BY <1>a, <1>b, <2>1, <2>2, <3>3 DEF StartPush, TypeOK
    <3>4. CASE PushHangs(w)
      BY <1>a, <1>b, <2>1, <2>2, <3>4 DEF PushHangs, TypeOK
    <3>5. CASE PushLands(w)
      <4>1. /\ pc[w] = "pushing" /\ pc'[w] = "analyzing"
            /\ remote'[RefOf(job[w])] = push[w].new
        BY <2>1, <2>4, <3>5 DEF PushLands, Lands, Publication, TypeOK
      <4>2. RefOf(job[w]) \notin doomed
        BY <1>a, <2>2, <4>1 DEF Swept, Publishing, Orderly
      <4>3. push[w].new = job[w]
        BY <1>a, <1>b, <2>2, <4>1
      <4> QED
        BY <2>1, <2>2, <4>1, <4>2, <4>3 DEF At
    <3> QED
      BY <3>1, <3>2, <3>3, <3>4, <3>5
  <2> QED
    BY <2>3, <2>4
<1>5. ASSUME NEW v \in Workers, Settle(v)
      PROVE  Done
  <2>1. /\ UNCHANGED <<local, remote, doomed, push, snaps>> /\ pc'[v] = "idle"
        /\ \A x \in Workers \ {v} : pc'[x] = pc[x] /\ job'[x] = job[x]
    BY <1>5 DEF Settle, TypeOK, repo, sweep, history
  <2> QED
    BY <1>1, <2>1 DEF RefOf, Busy
<1>6. CASE Outage
  BY <1>6 DEF Outage, Busy
<1>7. CASE GcDeleteLocal \/ GcDeleteRemote
  <2>1. UNCHANGED <<snaps, pc, job, push>> /\ Busy(w) /\ RefOf(job[w])' = RefOf(job[w])
    BY <1>7 DEF GcDeleteLocal, GcDeleteRemote, repo, worker, Busy, RefOf
  <2>2. At(RefOf(job[w]), job[w]) => At(RefOf(job[w]), job[w])'
    BY <1>7, <2>1, GcAt DEF Orderly
  <2>3. pc[w] \in {"updated", "pushing", "hung"} => local'[RefOf(job[w])] = local[RefOf(job[w])]
    <3> SUFFICES ASSUME pc[w] \in {"updated", "pushing", "hung"}, GcDeleteLocal
                 PROVE  local'[RefOf(job[w])] = local[RefOf(job[w])]
      BY <1>7 DEF GcDeleteRemote
    <3>1. PICK q \in gcRefs :
            /\ crossed' = IF \E v \in Workers : Publishing(v, q)
                          THEN crossed \cup {q} ELSE crossed
            /\ local' = [local EXCEPT ![q] = 0] \/ UNCHANGED local
      BY DEF GcDeleteLocal
    <3>2. q # RefOf(job[w])
      BY <2>1, <3>1 DEF Publishing, Orderly
    <3> QED
      BY <1>a, <2>1, <3>1, <3>2 DEF Orderly, TypeOK
  <2> QED
    BY <1>a, <1>b, <2>1, <2>2, <2>3 DEF At
<1> QED
  BY <1>2, <1>3, <1>4, <1>5, <1>6, <1>7, StepKinds

LEMMA CurrentStep ==
  ASSUME BaseInv, Swept, InTurn, UnderWay, Current, [Next]_vars
  PROVE  Current'
<1> SUFFICES ASSUME NEW r \in Orderly', NEW i \in 1..Len(snaps'), Newest(r, i)',
                    queue'[i] = "settled"
             PROVE  At(r, i)'
  BY DEF Current
<1> USE DEF BaseInv
<1>a. r \in Orderly
  BY OrderlyShrinks
<1>b. Len(snaps) \in Nat /\ Len(snaps) <= MaxSnaps
  BY DEF Rowed, TypeOK
<1>c. UNCHANGED snaps => i \in 1..MaxSnaps /\ i \in 1..Len(snaps) /\ Newest(r, i)
  BY <1>b, MaxSnapsAssumption DEF Newest, RefOf
<1>1. ASSUME NEW b \in Branches, Snapshot(b)
      PROVE  At(r, i)'
  <2>1. /\ Len(snaps') = Len(snaps) + 1 /\ Len(snaps) + 1 \in 1..MaxSnaps
        /\ \A k \in 1..Len(snaps) : RefOf(k)' = RefOf(k)
        /\ queue' = [queue EXCEPT ![Len(snaps) + 1] = "pending"]
        /\ UNCHANGED <<local, remote, doomed>>
    BY <1>1, SnapshotRow DEF Snapshot, sweep
  <2>2. i # Len(snaps) + 1
    BY <2>1 DEF TypeOK
  <2>3. i \in 1..Len(snaps) /\ i \in 1..MaxSnaps
    BY <1>b, <2>1, <2>2, MaxSnapsAssumption
  <2>4. queue[i] = "settled"
    BY <2>1, <2>2, <2>3 DEF TypeOK
  <2>5. \A k \in 1..Len(snaps) : k \in 1..Len(snaps')
    BY <1>b, <2>1
  <2>6. Newest(r, i)
    BY <2>1, <2>3, <2>5 DEF Newest
  <2> QED
    BY <1>a, <2>1, <2>3, <2>4, <2>6 DEF Current, At
<1>2. CASE UNCHANGED <<snaps, local, remote, doomed>> /\ queue[i] = "settled"
  BY <1>2, <1>a, <1>c DEF Current, At
<1>3. CASE Still /\ UNCHANGED <<snaps, queue>>
  BY <1>2, <1>3 DEF Still
<1>4. ASSUME NEW w \in Workers, NEW k \in 1..Len(snaps), Take(w, k)
      PROVE  At(r, i)'
  <2>1. UNCHANGED <<snaps, local, remote, doomed>>
    BY <1>4 DEF Take, repo, sweep
  <2>2. queue[i] = "settled"
    BY <1>4, <1>c, <2>1 DEF Take, TypeOK
  <2> QED
    BY <1>2, <2>1, <2>2
<1>5. ASSUME NEW w \in Workers, WorkStep(w)
      PROVE  At(r, i)'
  <2>1. UNCHANGED <<snaps, queue>> /\ Busy(w)
    BY <1>5, WorkFrame DEF repo
  <2>2. job[w] \in 1..Len(snaps) /\ queue[job[w]] = "analyzing"
    BY <2>1 DEF Held
  <2>3. RefOf(job[w]) # r
    <3> SUFFICES ASSUME RefOf(job[w]) = r PROVE FALSE
      OBVIOUS
    <3>1. job[w] <= i /\ job[w] # i
      BY <1>c, <2>1, <2>2 DEF Newest
    <3>2. job[w] < i
      BY <1>b, <1>c, <2>1, <2>2, <3>1
    <3> QED
      BY <1>a, <1>c, <2>1, <2>2, <3>2 DEF InTurn, Newest, Orderly
  <2>4. local'[r] = local[r] /\ remote'[r] = remote[r] /\ doomed' = doomed
    BY <1>5, <1>a, <2>3, WorkElsewhere DEF Orderly
  <2> QED
    BY <1>a, <1>c, <2>1, <2>4 DEF Current, At
<1>6. ASSUME NEW w \in Workers, Settle(w)
      PROVE  At(r, i)'
  <2>1. /\ UNCHANGED <<snaps, local, remote, doomed>> /\ pc[w] = "analyzing"
        /\ queue' = [queue EXCEPT ![job[w]] = "settled"]
    BY <1>6 DEF Settle, repo, sweep
  <2>2. CASE i = job[w]
    <3>1. At(r, i)
      BY <1>a, <1>c, <2>1, <2>2 DEF UnderWay, Busy, Newest
    <3> QED
      BY <2>1, <3>1 DEF At
  <2>3. CASE i # job[w]
    BY <1>2, <1>c, <2>1, <2>3 DEF TypeOK
  <2> QED
    BY <2>2, <2>3
<1>7. CASE Outage
  BY <1>2, <1>7, <1>c DEF Outage, repo, sweep
<1>8. CASE GcDeleteLocal \/ GcDeleteRemote
  <2>1. UNCHANGED <<snaps, queue>>
    BY <1>8 DEF GcDeleteLocal, GcDeleteRemote, repo
  <2>2. At(r, i)
    BY <1>a, <1>c, <2>1 DEF Current
  <2> QED
    BY <1>8, <2>2, GcAt DEF Orderly
<1> QED
  BY <1>1, <1>3, <1>4, <1>5, <1>6, <1>7, <1>8, StepKinds

-----------------------------------------------------------------------------
(* Theorems *)

RefsInv == BaseInv /\ LocalInv /\ SerialInv /\ GcSparesLive

LEMMA RefsInvInit == Init => RefsInv
<1> SUFFICES ASSUME Init PROVE RefsInv
  OBVIOUS
<1>1. Len(snaps) = 0 /\ snaps \in Seq(Branches)
  BY DEF Init
<1>2. TypeOK
  BY <1>1, MaxSnapsAssumption DEF Init, TypeOK, NoPush
<1>3. Rowed /\ Held
  BY <1>1, MaxSnapsAssumption DEF Init, Rowed, Held, Busy
<1>4. LocalInv
  BY DEF Init, LocalInv, Swept, Unread, NoReturn, Carried, NoPush
<1>5. SerialInv
  BY <1>1 DEF Init, SerialInv, OneByOne, InTurn, UnderWay, Current, Busy
<1>6. GcSparesLive
  BY DEF Init, GcSparesLive
<1> QED
  BY <1>2, <1>3, <1>4, <1>5, <1>6 DEF RefsInv, BaseInv

LEMMA RefsInvariant == Spec => []RefsInv
<1>1. RefsInv /\ [Next]_vars => RefsInv'
  <2> SUFFICES ASSUME RefsInv, [Next]_vars PROVE RefsInv'
    OBVIOUS
  <2> QED
    BY BaseStep, SparesStep, SweptStep, UnreadStep, NoReturnStep, CarriedStep,
       OneByOneStep, InTurnStep, UnderWayStep, CurrentStep
       DEF RefsInv, LocalInv, SerialInv
<1> QED
  BY <1>1, RefsInvInit, PTL DEF Spec

\* Every variable of the shadow refs keeps its type.
THEOREM TypeCorrect == Spec => []TypeOK
<1>1. RefsInv => TypeOK
  BY DEF RefsInv, BaseInv
<1> QED
  BY <1>1, RefsInvariant, PTL

\* gcCmd never deletes the ref of a branch that exists all along, also when a
\* branch that is gone had the same ref.
THEOREM LiveIsSpared == Spec => []GcSparesLive
<1>1. RefsInv => GcSparesLive
  BY DEF RefsInv
<1> QED
  BY <1>1, RefsInvariant, PTL

\* UpdateRef and StartPush: however many workers and gc meet at a ref, the remote
\* has what the local ref says once it is quiet, if the agent was not restarted.
THEOREM RemoteHasLocal == Spec => []LocalIsPublished
<1>1. RefsInv => LocalIsPublished
  <2> SUFFICES ASSUME RefsInv, NEW r \in Refs \ (failed \cup crossed), Quiet(r), outages = 0
               PROVE  remote[r] = local[r]
    BY DEF LocalIsPublished
  <2>1. ASSUME NEW w \in Workers, Publishing(w, r)
        PROVE  FALSE
    <3>1. Busy(w)
      BY <2>1 DEF Publishing, Busy
    <3>2. job[w] \in 1..Len(snaps) /\ queue[job[w]] = "analyzing" /\ RefOf(job[w]) = r
      BY <2>1, <3>1 DEF RefsInv, BaseInv, Held, Publishing
    <3> QED
      BY <3>2 DEF Quiet
  <2> QED
    BY <2>1 DEF RefsInv, LocalInv, Carried, Carries, Quiet
<1> QED
  BY <1>1, RefsInvariant, PTL

\* publishShadow: where changes of a ref did not overlap the remote has the newest
\* snapshot once the ref is quiet, or gc collected it, also after restarts.
THEOREM RemoteIsNewest == Spec => []SerialRefIsCurrent
<1>1. RefsInv => SerialRefIsCurrent
  <2> SUFFICES ASSUME RefsInv, NEW r \in Refs \ (failed \cup shared \cup crossed), Quiet(r),
                      NEW i \in 1..Len(snaps), Newest(r, i)
               PROVE  remote[r] = i \/ (remote[r] = 0 /\ local[r] = 0)
    BY DEF SerialRefIsCurrent
  <2>1. queue[i] = "settled" /\ r \notin doomed
    BY DEF Quiet, Newest
  <2>2. At(r, i)
    BY <2>1 DEF RefsInv, SerialInv, Current, Orderly
  <2> QED
    BY <2>1, <2>2 DEF At
<1> QED
  BY <1>1, RefsInvariant, PTL

=============================================================================
