------------------------------ MODULE ShadowRefs ------------------------------
(***************************************************************************)
(* Shadow refs of one repository: the agent's workers point refs/ai/... at  *)
(* snapshots and push them (internal/agent publishShadow, internal/gitxport *)
(* shadow.go) while krennic gc, another process, deletes the refs of        *)
(* branches that are gone.  Every git command is a step of its own.         *)
(* A push reads the local ref and the remote one, and the remote takes it   *)
(* only if its ref is still the one read: --force does not change that.     *)
(***************************************************************************)
EXTENDS Integers, Sequences

CONSTANTS Branches,     \* branch names, as sequences of characters
          Workers,
          MaxSnaps,     \* bound on the snapshots taken
          MaxOutages,   \* bound on stops and restarts of the agent
          MaxMoves,     \* bound on branches deleted or created
          PushMayHang   \* the remote may accept a connection and say nothing

ASSUME MaxSnapsAssumption    == MaxSnaps \in Nat
ASSUME PushMayHangAssumption == PushMayHang \in BOOLEAN

VARIABLES branches,  \* local branches that exist
          snaps,     \* the branch of each snapshot, in the order of the queue
          queue,     \* state of the change a snapshot belongs to
          local,     \* the snapshot each local shadow ref points at, or 0
          remote,    \* the same on ai-remote
          pc,        \* progress of each worker
          job,       \* the snapshot it has claimed, or 0
          push,      \* what its git push read: the local and the remote ref
          gc,        \* progress of krennic gc
          gcRefs,    \* refs gc still has to look at
          doomed,    \* the ref deleted locally, not yet on the remote
          steady,    \* branches gc read and that were there all the time since
          failed,    \* refs some command on which failed
          shared,    \* refs two workers had a change of at the same time
          crossed,   \* refs gc deleted while a worker published them
          outages,
          moves

repo   == <<branches, snaps, moves>>
worker == <<pc, job, push>>
sweep  == <<gc, gcRefs, doomed, steady>>
history == <<failed, shared, crossed>>
vars   == <<repo, queue, local, remote, worker, sweep, history, outages>>

\* ShadowRefName, the part that depends on the branch.
RefName(b) == [i \in DOMAIN b |-> IF b[i] = "/" THEN "-" ELSE b[i]]

Refs == {RefName(b) : b \in Branches}

RefOf(i) == RefName(snaps[i])

NoPush == [new |-> 0, old |-> 0]

TypeOK ==
  /\ branches \subseteq Branches
  /\ snaps  \in Seq(Branches)
  /\ queue  \in [1..MaxSnaps -> {"none", "pending", "analyzing", "settled"}]
  /\ local  \in [Refs -> 0..MaxSnaps]
  /\ remote \in [Refs -> 0..MaxSnaps]
  /\ pc   \in [Workers -> {"idle", "claimed", "updated", "pushing", "hung",
                           "analyzing"}]
  /\ job  \in [Workers -> 0..MaxSnaps]
  /\ push \in [Workers -> [new : 0..MaxSnaps, old : 0..MaxSnaps]]
  /\ gc \in {"idle", "listed", "deleting"}
  /\ gcRefs \subseteq Refs
  /\ doomed \subseteq Refs
  /\ steady \subseteq branches
  /\ failed \subseteq Refs
  /\ shared \subseteq Refs
  /\ crossed \subseteq Refs
  /\ outages \in Nat
  /\ moves   \in Nat

Init ==
  /\ branches \in SUBSET Branches
  /\ snaps  = <<>>
  /\ queue  = [i \in 1..MaxSnaps |-> "none"]
  /\ local  = [r \in Refs |-> 0]
  /\ remote = [r \in Refs |-> 0]
  /\ pc   = [w \in Workers |-> "idle"]
  /\ job  = [w \in Workers |-> 0]
  /\ push = [w \in Workers |-> NoPush]
  /\ gc = "idle"
  /\ gcRefs = {}
  /\ doomed = {}
  /\ steady = {}
  /\ failed = {}
  /\ shared = {}
  /\ crossed = {}
  /\ outages = 0
  /\ moves   = 0

-----------------------------------------------------------------------------
(* The developer *)

\* An edit: handleChange builds a snapshot of the branch and queues the change.
Snapshot(b) ==
  /\ b \in branches
  /\ Len(snaps) < MaxSnaps
  /\ snaps' = Append(snaps, b)
  /\ queue' = [queue EXCEPT ![Len(snaps) + 1] = "pending"]
  /\ UNCHANGED <<branches, moves, local, remote, worker, sweep, history,
                 outages>>

MoveBranch(b) ==
  /\ moves < MaxMoves
  /\ moves' = moves + 1
  /\ IF b \in branches THEN branches' = branches \ {b}
                       ELSE branches' = branches \cup {b}
  /\ steady' = steady \ {b}
  /\ UNCHANGED <<snaps, queue, local, remote, worker, gc, gcRefs, doomed,
                 history, outages>>

-----------------------------------------------------------------------------
(* The workers: Claim, publishShadow, and what follows it *)

\* Worker w is between its update-ref of r and the end of its push.
Publishing(w, r) ==
  pc[w] \in {"updated", "pushing", "hung"} /\ RefOf(job[w]) = r

Take(w, i) ==
  /\ pc[w] = "idle"
  /\ queue[i] = "pending"
  /\ pc'    = [pc EXCEPT ![w] = "claimed"]
  /\ queue' = [queue EXCEPT ![i] = "analyzing"]
  /\ job'   = [job EXCEPT ![w] = i]
  /\ shared' = IF \E v \in Workers \ {w} :
                     pc[v] # "idle" /\ RefOf(job[v]) = RefOf(i)
                THEN shared \cup {RefOf(i)} ELSE shared
  /\ UNCHANGED <<repo, local, remote, push, sweep, failed, crossed, outages>>

\* Faulty variant: the change queued last is claimed first.
ClaimNewest(w) ==
  \E i \in 1..Len(snaps) :
    Take(w, i) /\ \A j \in (i + 1)..Len(snaps) : queue[j] # "pending"

Claim(w) ==
  \E i \in 1..Len(snaps) :
    Take(w, i) /\ \A j \in 1..(i - 1) : queue[j] # "pending"

\* The end of publishShadow is the same whether it worked or not.
Publication(w, from, works) ==
  /\ pc[w] = from
  /\ pc' = [pc EXCEPT ![w] = "analyzing"]
  /\ push' = [push EXCEPT ![w] = NoPush]
  /\ failed' = IF works THEN failed ELSE failed \cup {RefOf(job[w])}
  /\ UNCHANGED <<repo, queue, local, job, sweep, shared, crossed, outages>>

\* EnsureRemote or update-ref fails.
NotPublished(w) == Publication(w, "claimed", FALSE) /\ UNCHANGED remote

UpdateRef(w) ==
  /\ pc[w] = "claimed"
  /\ pc'    = [pc EXCEPT ![w] = "updated"]
  /\ local' = [local EXCEPT ![RefOf(job[w])] = job[w]]
  /\ crossed' = crossed \cup (doomed \cap {RefOf(job[w])})
  /\ UNCHANGED <<repo, queue, remote, job, push, sweep, failed, shared,
                 outages>>

\* Faulty variant: the snapshot itself is pushed to the ref, not the local ref.
StartPushOwn(w) ==
  /\ pc[w] = "updated"
  /\ pc'   = [pc EXCEPT ![w] = "pushing"]
  /\ push' = [push EXCEPT ![w] = [new |-> job[w],
                                  old |-> remote[RefOf(job[w])]]]
  /\ UNCHANGED <<repo, queue, local, remote, job, sweep, history, outages>>

\* git push --force ref:ref; without the local ref there is nothing to push.
StartPush(w) ==
  LET r == RefOf(job[w]) IN
  /\ pc[w] = "updated"
  /\ local[r] # 0
  /\ pc'   = [pc EXCEPT ![w] = "pushing"]
  /\ push' = [push EXCEPT ![w] = [new |-> local[r], old |-> remote[r]]]
  /\ UNCHANGED <<repo, queue, local, remote, job, sweep, history, outages>>

NothingToPush(w) ==
  /\ Publication(w, "updated", FALSE)
  /\ local[RefOf(job[w])] = 0
  /\ UNCHANGED remote

Lands(w) ==
  /\ pc[w] = "pushing"
  /\ remote[RefOf(job[w])] = push[w].old
  /\ remote' = [remote EXCEPT ![RefOf(job[w])] = push[w].new]

PushLands(w) == Lands(w) /\ Publication(w, "pushing", TRUE)

\* Faulty variant: a push that failed is tried again at once.
PushAgain(w) ==
  /\ pc[w] = "pushing"
  /\ pc' = [pc EXCEPT ![w] = "updated"]
  /\ failed' = failed \cup {RefOf(job[w])}
  /\ UNCHANGED <<repo, queue, local, remote, job, push, sweep, shared,
                 crossed,
                 outages>>

\* Refused or not reached, or taken and the answer is lost.
PushFails(w) ==
  /\ Publication(w, "pushing", FALSE)
  /\ Lands(w) \/ UNCHANGED remote

\* git runs without a context or a timeout.
PushHangs(w) ==
  /\ PushMayHang
  /\ pc[w] = "pushing"
  /\ pc' = [pc EXCEPT ![w] = "hung"]
  /\ UNCHANGED <<repo, queue, local, remote, job, push, sweep, history,
                 outages>>

\* Analyze returns and the change is completed or failed.
Settle(w) ==
  /\ pc[w] = "analyzing"
  /\ pc'    = [pc EXCEPT ![w] = "idle"]
  /\ queue' = [queue EXCEPT ![job[w]] = "settled"]
  /\ job'   = [job EXCEPT ![w] = 0]
  /\ UNCHANGED <<repo, local, remote, push, sweep, history, outages>>

\* The agent is killed with the git processes it runs, and started again.
Outage ==
  /\ outages < MaxOutages
  /\ outages' = outages + 1
  /\ pc'    = [w \in Workers |-> "idle"]
  /\ job'   = [w \in Workers |-> 0]
  /\ push'  = [w \in Workers |-> NoPush]
  /\ queue' = [i \in 1..MaxSnaps |->
                 IF queue[i] = "analyzing" THEN "pending" ELSE queue[i]]
  /\ UNCHANGED <<repo, local, remote, sweep, history>>

-----------------------------------------------------------------------------
(* krennic gc *)

GcList ==
  /\ gc = "idle"
  /\ gc' = "listed"
  /\ gcRefs' = {r \in Refs : local[r] # 0}
  /\ UNCHANGED <<repo, queue, local, remote, worker, doomed, steady, history,
                 outages>>

\* Faulty variant: branch names are compared as they are.
GcCompareRaw ==
  /\ gc = "listed"
  /\ gc' = "deleting"
  /\ gcRefs' = gcRefs \ branches
  /\ steady' = branches
  /\ UNCHANGED <<repo, queue, local, remote, worker, doomed, history,
                 outages>>

\* LocalBranches drops the error of its git command and returns no branch.
NoBranchesRead ==
  /\ gc = "listed"
  /\ gc' = "deleting"
  /\ steady' = {}
  /\ UNCHANGED <<repo, queue, local, remote, worker, gcRefs, doomed, history,
                 outages>>

\* The refs that belong to no local branch in its dashed form.
GcCompare ==
  /\ gc = "listed"
  /\ gc' = "deleting"
  /\ gcRefs' = gcRefs \ {RefName(b) : b \in branches}
  /\ steady' = branches
  /\ UNCHANGED <<repo, queue, local, remote, worker, doomed, history,
                 outages>>

\* DeleteShadowRef, first command: its error is dropped.
GcDeleteLocal ==
  /\ gc = "deleting"
  /\ doomed = {}
  /\ \E r \in gcRefs :
       /\ doomed' = {r}
       /\ gcRefs' = gcRefs \ {r}
       /\ crossed' = IF \E w \in Workers : Publishing(w, r)
                     THEN crossed \cup {r} ELSE crossed
       /\ \/ local' = [local EXCEPT ![r] = 0] /\ UNCHANGED failed
          \/ failed' = failed \cup {r} /\ UNCHANGED local
  /\ UNCHANGED <<repo, queue, remote, worker, gc, steady, shared, outages>>

\* Second command: a ref the remote does not have is an error too.
GcDeleteRemote ==
  /\ \E r \in doomed :
       \/ /\ remote[r] # 0
          /\ remote' = [remote EXCEPT ![r] = 0]
          /\ UNCHANGED failed
       \/ failed' = failed \cup {r} /\ UNCHANGED remote
  /\ doomed' = {}
  /\ UNCHANGED <<repo, queue, local, worker, gc, gcRefs, steady,
                 shared, crossed, outages>>

GcEnd ==
  /\ gc = "deleting"
  /\ gcRefs = {} /\ doomed = {}
  /\ gc' = "idle"
  /\ steady' = {}
  /\ UNCHANGED <<repo, queue, local, remote, worker, gcRefs, doomed, history,
                 outages>>

-----------------------------------------------------------------------------

PushEnds(w) == PushLands(w) \/ PushFails(w)

WorkerStep(w) ==
  \/ Claim(w) \/ NotPublished(w) \/ UpdateRef(w) \/ StartPush(w)
  \/ NothingToPush(w) \/ PushEnds(w) \/ PushHangs(w) \/ Settle(w)

Gc ==
  \/ GcList \/ GcCompare \/ NoBranchesRead
  \/ GcDeleteLocal \/ GcDeleteRemote \/ GcEnd

Next ==
  \/ \E b \in Branches : Snapshot(b) \/ MoveBranch(b)
  \/ \E w \in Workers : WorkerStep(w)
  \/ Gc
  \/ Outage

Spec == Init /\ [][Next]_vars

\* Goroutines and git commands run; a push that does not hang ends.
Fairness == \A w \in Workers : WF_vars(WorkerStep(w))

FairSpec == Spec /\ Fairness

-----------------------------------------------------------------------------
(* Properties *)

\* Nothing of the ref is queued, under way or being deleted.
Quiet(r) ==
  /\ \A i \in 1..Len(snaps) : RefOf(i) = r => queue[i] = "settled"
  /\ r \notin doomed

\* UpdateRef and StartPush of several workers, gc in between: once a ref is
\* quiet the remote has what the local ref says, unless a command failed or gc
\* deleted the ref in the middle of a publication.  (A restart publishes a
\* snapshot again; then two pushes may cross unnoticed.)
LocalIsPublished ==
  \A r \in Refs \ (failed \cup crossed) :
    Quiet(r) /\ outages = 0 => remote[r] = local[r]

Newest(r, i) ==
  /\ RefOf(i) = r
  /\ \A j \in 1..Len(snaps) : RefOf(j) = r => j <= i

\* publishShadow: once a ref is quiet, the remote has the newest snapshot of
\* it, or gc collected it on both sides; unless a command failed, or two workers
\* had changes of the ref at the same time, or gc and a worker did.
SerialRefIsCurrent ==
  \A r \in Refs \ (failed \cup shared \cup crossed) : Quiet(r) =>
    \A i \in 1..Len(snaps) : Newest(r, i) =>
      remote[r] = i \/ (remote[r] = 0 /\ local[r] = 0)

\* gcCmd: the ref of a branch that exists all along is not deleted, also when
\* it shares the ref with a branch that is gone.
GcSparesLive ==
  gc = "deleting" => \A b \in steady : RefName(b) \notin gcRefs

\* processEvent: every queued change is analyzed in the end, whatever becomes of
\* its push, unless a push hangs: no timeout ends it.
SettledUnlessHung ==
  \A i \in 1..MaxSnaps : queue[i] = "pending" ~>
    queue[i] = "settled" \/ \E w \in Workers : pc[w] = "hung"

\* README.md:11-13 says the working state is published faithfully: the same
\* also where several workers had changes of the ref at once.
RemoteIsCurrent ==
  \A r \in Refs \ (failed \cup crossed) : Quiet(r) =>
    \A i \in 1..Len(snaps) : Newest(r, i) =>
      remote[r] = i \/ (remote[r] = 0 /\ local[r] = 0)
=============================================================================
