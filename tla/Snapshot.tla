------------------------------ MODULE Snapshot ------------------------------
(***************************************************************************)
(* Build (internal/change) and what it reads: the diff for the reviewer and *)
(* the snapshot for the shadow ref are made by one git command after the    *)
(* other (internal/gitxport diff.go, shadow.go) while the developer saves,  *)
(* adds, commits and switches, and while another handler of the debouncer   *)
(* does the same.  Any command may fail: some failures drop the change, the *)
(* others are swallowed and something is missing from it.  One repository;  *)
(* a file's state is a number, 0 is absent.                                 *)
(***************************************************************************)
EXTENDS Integers, Sequences

CONSTANTS Files,
          Denied,    \* files the deny list matches
          Ignored,   \* files .gitignore matches
          Branches,
          MaxState,  \* the states of a file are 0..MaxState
          Handlers,  \* callbacks of the debouncer at the same time
          MaxMoves,  \* bound on the developer's moves
          MaxFaults  \* bound on commands and transactions that fail

\* Init has files that are absent and files that are there.
ASSUME MaxStateAssumption  == MaxState \in Nat \ {0}
ASSUME MaxFaultsAssumption == MaxFaults \in Nat

VARIABLES work,      \* the working tree
          tracked,   \* paths in the index
          head,      \* commits made, 0 for an unborn branch
          headTree,  \* the files of HEAD
          branch,    \* the branch HEAD is on, or Detached
          moves,
          triggered, \* a save the debouncer has still to call a handler for
          gitMoved,  \* a git command of the developer since the last save
          paused,    \* now is before pausedUntil
          faults,
          pc,        \* progress of each handler
          ev,        \* the event it builds
          others,    \* the untracked files it has listed
          stable,    \* the developer has done nothing since it was called
          lost,      \* what swallowed errors have taken from its event
          dedup,     \* content hashes inside the window
          events,    \* changes in the order of the queue
          missed     \* a pause or an error kept the last save from being read

repo  == <<work, tracked, head, headTree, branch>>
build == <<pc, ev, others, stable, lost>>
sink  == <<dedup, events>>
vars  == <<repo, moves, triggered, gitMoved, paused, faults, build, sink, missed>>

Detached == "detached"
Heads == Branches \cup {Detached}
States == 0..MaxState
NoTree == <<>>
Nothing == [f \in Files |-> 0]

\* git diff: the paths of the index whose file is not that of the tree.
HunksSince(tree) ==
  {[path |-> f, old |-> tree[f], new |-> work[f]] :
     f \in {g \in tracked \ Denied : work[g] # tree[g]}}

DiffHunks == HunksSince(headTree)

\* ls-files --others --exclude-standard: files neither tracked nor ignored.
UntrackedPaths ==
  {f \in Files \ (tracked \cup Ignored \cup Denied) : work[f] # 0}

\* untrackedHunk: a file that is gone by now has none.
NewFileHunks(paths) ==
  {[path |-> f, old |-> 0, new |-> work[f]] : f \in {g \in paths : work[g] # 0}}

Hunks == DiffHunks \cup NewFileHunks(UntrackedPaths)

\* Faulty variant: only what the index has is staged.
StagedTreeOfIndex ==
  [f \in Files |-> IF f \notin tracked \/ f \in Denied THEN 0 ELSE work[f]]

\* add -A into an empty index, then rm --cached of what the deny list matches.
StagedTree ==
  [f \in Files |-> IF f \in Denied \cup Ignored THEN 0 ELSE work[f]]

NoEvent == [hunks |-> {}, tree |-> NoTree, parent |-> 0, branch |-> "", head |-> 0]

Trees == {NoTree} \cup [Files -> States]

Hunk == [path : Files, old : States, new : States]

Events == [hunks : SUBSET Hunk, tree : Trees, parent : Nat,
           branch : Heads \cup {""}, head : Nat]

Parts == {"diff", "untracked", "parent", "branch", "head"}

TypeOK ==
  /\ work \in [Files -> States]
  /\ tracked \subseteq Files
  /\ head \in Nat
  /\ headTree \in [Files -> States]
  /\ \A f \in Files : headTree[f] # 0 => f \in tracked
  /\ head = 0 => headTree = Nothing
  /\ branch \in Heads
  /\ moves \in Nat
  /\ triggered \in BOOLEAN /\ gitMoved \in BOOLEAN /\ missed \in BOOLEAN
  /\ paused \in BOOLEAN /\ faults \in 0..MaxFaults
  /\ pc \in [Handlers -> {"idle", "called", "nodiff", "nohead", "diffed", "listed",
                          "read", "staged", "compared", "built", "named", "hashed",
                          "fresh"}]
  /\ ev \in [Handlers -> Events]
  /\ others \in [Handlers -> SUBSET Files]
  /\ stable \in [Handlers -> BOOLEAN]
  /\ lost \in [Handlers -> SUBSET Parts]
  /\ dedup \subseteq SUBSET Hunk
  /\ events \in Seq(Events)
  /\ \A i \in DOMAIN events : events[i].hunks # {} /\ events[i].branch \in Heads

Init ==
  /\ headTree \in [Files -> {0, 1}]
  /\ work = headTree
  /\ tracked = {f \in Files : headTree[f] # 0}
  /\ head = IF headTree = Nothing THEN 0 ELSE 1
  /\ branch \in Branches
  /\ moves = 0
  /\ triggered = FALSE
  /\ gitMoved = FALSE
  /\ paused = FALSE
  /\ faults = 0
  /\ pc = [h \in Handlers |-> "idle"]
  /\ ev = [h \in Handlers |-> NoEvent]
  /\ others = [h \in Handlers |-> {}]
  /\ stable = [h \in Handlers |-> FALSE]
  /\ lost = [h \in Handlers |-> {}]
  /\ dedup = {}
  /\ events = <<>>
  /\ missed = FALSE

-----------------------------------------------------------------------------
(* The developer *)

Move ==
  /\ moves < MaxMoves
  /\ moves' = moves + 1
  /\ stable' = [h \in Handlers |-> FALSE]
  /\ UNCHANGED <<paused, faults, pc, ev, others, lost, sink>>

Save(f, v) ==
  /\ Move
  /\ work[f] # v
  /\ work' = [work EXCEPT ![f] = v]
  /\ triggered' = TRUE
  /\ gitMoved' = FALSE
  /\ missed' = FALSE
  /\ UNCHANGED <<tracked, head, headTree, branch>>

\* The watcher ignores .git: no handler is called for a git command.
GitMove == Move /\ gitMoved' = TRUE /\ UNCHANGED <<work, triggered, missed>>

AddPath(f) ==
  /\ GitMove
  /\ f \notin tracked /\ work[f] # 0
  /\ tracked' = tracked \cup {f}
  /\ UNCHANGED <<head, headTree, branch>>

Commit ==
  /\ GitMove
  /\ \E f \in tracked : work[f] # headTree[f]
  /\ head' = head + 1
  /\ headTree' = [f \in Files |-> IF f \in tracked THEN work[f] ELSE 0]
  /\ tracked' = {f \in tracked : work[f] # 0}
  /\ UNCHANGED branch

Switch(b) ==
  /\ GitMove
  /\ branch # b
  /\ b = Detached => head # 0
  /\ branch' = b
  /\ UNCHANGED <<tracked, head, headTree>>

\* krennic pause and resume, and the end of a pause.
PauseOrResume ==
  /\ paused' = ~paused
  /\ UNCHANGED <<repo, moves, triggered, gitMoved, faults, build, sink, missed>>

-----------------------------------------------------------------------------
(* handleChange and Build *)

Fault == faults < MaxFaults /\ faults' = faults + 1

Goes(h, from, to) ==
  /\ pc[h] = from
  /\ pc' = [pc EXCEPT ![h] = to]
  /\ UNCHANGED <<repo, moves, gitMoved, paused>>

\* handleChange returns, and what it has read is gone.
Returns(h, from) ==
  /\ Goes(h, from, "idle")
  /\ ev'     = [ev EXCEPT ![h] = NoEvent]
  /\ others' = [others EXCEPT ![h] = {}]
  /\ stable' = [stable EXCEPT ![h] = FALSE]
  /\ lost'   = [lost EXCEPT ![h] = {}]

\* The event is built without this part of it, or with another value.
Without(h, part) == lost' = [lost EXCEPT ![h] = @ \cup {part}]

\* A handler for the last save fails to read it.
Misses(h) == missed' = (missed \/ stable[h])

\* The debouncer calls a handler.
BeginChange(h) ==
  /\ triggered
  /\ triggered' = FALSE
  /\ ~paused
  /\ Goes(h, "idle", "called")
  /\ stable' = [stable EXCEPT ![h] = TRUE]
  /\ UNCHANGED <<faults, ev, others, lost, sink, missed>>

\* isPaused: the handler returns, and nothing calls one again for this save.
SkipPaused(h) ==
  /\ triggered
  /\ triggered' = FALSE
  /\ paused
  /\ Returns(h, "idle")
  /\ missed' = TRUE
  /\ UNCHANGED <<faults, sink>>

\* git diff HEAD, which fails on an unborn branch.
ReadDiff(h) ==
  /\ \/ /\ head # 0
        /\ Goes(h, "called", "diffed")
        /\ ev' = [ev EXCEPT ![h].hunks = DiffHunks]
        /\ UNCHANGED faults
     \/ /\ Goes(h, "called", "nodiff")
        /\ IF head = 0 THEN UNCHANGED faults ELSE Fault
        /\ UNCHANGED ev
  /\ UNCHANGED <<triggered, others, stable, lost, sink, missed>>

\* HeadSHA has nothing to say: the branch is unborn, or rev-parse fails too.
FindUnborn(h) ==
  /\ Goes(h, "nodiff", "nohead")
  /\ IF head = 0 THEN UNCHANGED faults ELSE Fault
  /\ UNCHANGED <<triggered, ev, others, stable, lost, sink, missed>>

\* Then the diff is taken against the empty tree.
ReadEmptyDiff(h) ==
  /\ Goes(h, "nohead", "diffed")
  /\ ev' = [ev EXCEPT ![h].hunks = HunksSince(Nothing)]
  /\ IF head = 0 THEN UNCHANGED <<lost, missed>> ELSE Without(h, "diff") /\ Misses(h)
  /\ UNCHANGED <<triggered, faults, others, stable, sink>>

\* An error of ls-files is dropped, and no untracked file is read.
ListUntracked(h) ==
  /\ Goes(h, "diffed", "listed")
  /\ \/ /\ others' = [others EXCEPT ![h] = UntrackedPaths]
        /\ UNCHANGED <<faults, lost, missed>>
     \/ /\ others' = [others EXCEPT ![h] = {}]
        /\ Fault /\ Without(h, "untracked") /\ Misses(h)
  /\ UNCHANGED <<triggered, ev, stable, sink>>

\* A file that cannot be read is left out.
ReadUntracked(h) ==
  /\ Goes(h, "listed", "read")
  /\ \/ /\ ev' = [ev EXCEPT ![h].hunks = @ \cup NewFileHunks(others[h])]
        /\ UNCHANGED <<faults, lost, missed>>
     \/ \E f \in others[h] :
          /\ ev' = [ev EXCEPT ![h].hunks = @ \cup NewFileHunks(others[h] \ {f})]
          /\ Fault /\ Without(h, "untracked") /\ Misses(h)
  /\ UNCHANGED <<triggered, others, stable, sink>>

\* Build: nothing analyzable.
SkipEmpty(h) ==
  /\ Returns(h, "read")
  /\ ev[h].hunks = {}
  /\ UNCHANGED <<triggered, faults, sink, missed>>

Stage(h) ==
  /\ Goes(h, "read", "staged")
  /\ ev[h].hunks # {}
  /\ ev' = [ev EXCEPT ![h].tree = StagedTree]
  /\ UNCHANGED <<triggered, faults, others, stable, lost, sink, missed>>

\* NoOp: the tree is that of HEAD.  If HEAD has no tree, or rev-parse fails, the
\* snapshot is made.
CompareHead(h) ==
  /\ \/ /\ head # 0 /\ ev[h].tree = headTree
        /\ Goes(h, "staged", "built")
        /\ ev' = [ev EXCEPT ![h].tree = NoTree]
        /\ UNCHANGED faults
     \/ /\ Goes(h, "staged", "compared")
        /\ IF head = 0 \/ ev[h].tree # headTree THEN UNCHANGED faults ELSE Fault
        /\ UNCHANGED ev
  /\ UNCHANGED <<triggered, others, stable, lost, sink, missed>>

\* HeadSHA has nothing to say of an unborn branch, or when it fails.
CommitTree(h) ==
  /\ Goes(h, "compared", "built")
  /\ \/ /\ ev' = [ev EXCEPT ![h].parent = head]
        /\ UNCHANGED <<faults, lost>>
     \/ /\ ev' = [ev EXCEPT ![h].parent = 0]
        /\ Fault /\ Without(h, "parent")
  /\ UNCHANGED <<triggered, others, stable, sink, missed>>

\* CurrentBranch, which takes its own failure for a detached HEAD.
ReadBranch(h) ==
  /\ Goes(h, "built", "named")
  /\ \/ /\ ev' = [ev EXCEPT ![h].branch = branch]
        /\ UNCHANGED <<faults, lost>>
     \/ /\ ev' = [ev EXCEPT ![h].branch = Detached]
        /\ Fault /\ Without(h, "branch")
  /\ UNCHANGED <<triggered, others, stable, sink, missed>>

\* HeadSHA and the hash of the content.
ReadHeadSHA(h) ==
  /\ Goes(h, "named", "hashed")
  /\ \/ /\ ev' = [ev EXCEPT ![h].head = head]
        /\ UNCHANGED <<faults, lost>>
     \/ /\ ev' = [ev EXCEPT ![h].head = 0]
        /\ Fault /\ Without(h, "head")
  /\ UNCHANGED <<triggered, others, stable, sink, missed>>

\* contentHash: the hunks, not the branch and not the tree.
ContentHash(e) == e.hunks

\* Faulty variant: the hash of the paths alone.
SkipSeenPaths(h) ==
  /\ Returns(h, "hashed")
  /\ \E d \in dedup : {k.path : k \in d} = {k.path : k \in ev[h].hunks}
  /\ UNCHANGED <<triggered, faults, sink, missed>>

SkipSeen(h) ==
  /\ Returns(h, "hashed")
  /\ ContentHash(ev[h]) \in dedup
  /\ UNCHANGED <<triggered, faults, sink, missed>>

\* When SeenRecently fails the change counts as not seen.
NotSeen(h) ==
  /\ Goes(h, "hashed", "fresh")
  /\ IF ContentHash(ev[h]) \notin dedup THEN UNCHANGED faults ELSE Fault
  /\ UNCHANGED <<triggered, ev, others, stable, lost, sink, missed>>

Enqueue(h) ==
  /\ Returns(h, "fresh")
  /\ events' = Append(events, ev[h])
  /\ dedup' = dedup \cup {ContentHash(ev[h])}
  /\ UNCHANGED <<triggered, faults, missed>>

\* A warning, and the change is dropped: IsRepo, the second diff, a command of
\* CreateShadowSnapshot or the transaction of Enqueue fails, or the diff of a
\* repository that turns out to have a HEAD had failed.
Drop(h) ==
  /\ \/ Fault /\ \E from \in {"called", "nohead", "read", "compared", "fresh"} :
                    Returns(h, from)
     \/ UNCHANGED faults /\ head # 0 /\ Returns(h, "nodiff")
  /\ pc[h] = "read" => ev[h].hunks # {}
  /\ Misses(h)
  /\ UNCHANGED <<triggered, sink>>

WindowPasses(d) ==
  /\ d \in dedup
  /\ dedup' = dedup \ {d}
  /\ UNCHANGED <<repo, moves, triggered, gitMoved, paused, faults, build, events,
                 missed>>

-----------------------------------------------------------------------------

Developer ==
  \/ \E f \in Files : AddPath(f) \/ \E v \in States : Save(f, v)
  \/ Commit
  \/ \E b \in Heads : Switch(b)

HandlerStep(h) ==
  \/ BeginChange(h) \/ SkipPaused(h) \/ ReadDiff(h) \/ FindUnborn(h)
  \/ ReadEmptyDiff(h) \/ ListUntracked(h) \/ ReadUntracked(h) \/ SkipEmpty(h)
  \/ Stage(h) \/ CompareHead(h) \/ CommitTree(h) \/ ReadBranch(h) \/ ReadHeadSHA(h)
  \/ SkipSeen(h) \/ NotSeen(h) \/ Enqueue(h) \/ Drop(h)

Next ==
  \/ Developer
  \/ PauseOrResume
  \/ \E h \in Handlers : HandlerStep(h)
  \/ \E d \in dedup : WindowPasses(d)

Spec == Init /\ [][Next]_vars

-----------------------------------------------------------------------------
(* Properties *)

AtRest == ~triggered /\ \A h \in Handlers : pc[h] = "idle"

\* handleChange: whatever a handler read while files changed under it, whatever
\* the dedup window dropped, and whatever a pause or an error kept from an earlier
\* save, once the handlers are done a change with exactly the hunks of the last
\* save has been queued, if that save itself was not missed.  (A git command after
\* the save changes the hunks and calls no handler.)
CurrentIsReviewed ==
  AtRest /\ ~missed /\ ~gitMoved =>
    Hunks = {} \/ \E i \in DOMAIN events : events[i].hunks = Hunks

\* Build and CreateShadowSnapshot: unless the developer did something since the
\* handler was called, all parts of its event are of one moment.  A swallowed error
\* takes only its own part: the tracked files stay when the untracked ones cannot be
\* listed, and each hunk leads from HEAD to the snapshot whatever else is missing.
UndisturbedIsExact ==
  \A h \in Handlers : pc[h] = "hashed" /\ stable[h] =>
    LET e == ev[h] IN
    /\ "diff" \notin lost[h] => DiffHunks \subseteq e.hunks /\ e.hunks \subseteq Hunks
    /\ lost[h] \cap {"diff", "untracked"} = {} => e.hunks = Hunks
    /\ e.branch = branch \/ ("branch" \in lost[h] /\ e.branch = Detached)
    /\ e.head = head \/ ("head" \in lost[h] /\ e.head = 0)
    /\ e.tree = NoTree => StagedTree = headTree
    /\ e.tree # NoTree => e.parent = head \/ ("parent" \in lost[h] /\ e.parent = 0)
    /\ \A k \in Hunks : k.path \notin Ignored =>
         e.tree # NoTree /\ e.tree[k.path] = k.new
    /\ e.tree # NoTree =>
         \A f \in Files \ (Denied \cup Ignored) :
           e.tree[f] # headTree[f] => \E k \in Hunks : k.path = f

\* shadow.go:19-20 says the snapshot is the full working tree, tracked
\* modifications and untracked files: what the reviewer was shown is in it.
FullWorkingTree ==
  \A h \in Handlers : pc[h] = "hashed" /\ stable[h] =>
    \A k \in ev[h].hunks : ev[h].tree[k.path] = k.new

\* publishShadow: the tree a branch's shadow ref has once a single worker has
\* published the whole queue without a fault.  ShadowRefs has the rest.
RefTree(b) ==
  LET snapshots == {i \in DOMAIN events : events[i].branch = b /\ events[i].tree # NoTree}
  IN  IF snapshots = {} THEN NoTree
      ELSE events[CHOOSE i \in snapshots : \A j \in snapshots : j <= i].tree

\* README.md:11-13 says the working state is published and carried over
\* faithfully: at rest the branch's shadow ref has the files as they are.
RefFollowsTree ==
  AtRest /\ ~missed /\ ~gitMoved /\ RefTree(branch) # NoTree
    => RefTree(branch) = StagedTree
=============================================================================
