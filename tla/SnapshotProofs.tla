--------------------------- MODULE SnapshotProofs ---------------------------
(***************************************************************************)
(* Proofs about Snapshot, for any files, deny list, ignored files, branches *)
(* and number of handlers and faults: what an undisturbed handler built is  *)
(* of one moment but for what a swallowed error took, and the last save is  *)
(* queued although handlers overlap, read files as they change, drop what   *)
(* the dedup window has, and were paused or failed before.                  *)
(***************************************************************************)
EXTENDS Snapshot, SequenceTheorems, TLAPS

Building == {"idle", "called", "nodiff", "nohead", "diffed", "listed", "read", "staged",
             "compared", "built", "named", "hashed", "fresh"}

\* The points after all hunks are read, after CreateShadowSnapshot and so on.
HasHunks    == {"read", "staged", "compared", "built", "named", "hashed", "fresh"}
HasSnapshot == {"built", "named", "hashed", "fresh"}
HasBranch   == {"named", "hashed", "fresh"}
HasHead     == {"hashed", "fresh"}

\* Nothing is missing from the hunks.
Whole(h) == "diff" \notin lost[h] /\ "untracked" \notin lost[h]

\* What a handler has read so far, said of the repository as it is now.
DiffIsOfNow(h) ==
  /\ pc[h] \in {"diffed", "listed"} /\ "diff" \notin lost[h] => ev[h].hunks = DiffHunks
  /\ pc[h] = "listed" => others[h] \subseteq UntrackedPaths
  /\ pc[h] = "listed" /\ "untracked" \notin lost[h] => others[h] = UntrackedPaths

HunksAreOfNow(h) ==
  /\ pc[h] \in HasHunks /\ "diff" \notin lost[h] =>
       DiffHunks \subseteq ev[h].hunks /\ ev[h].hunks \subseteq Hunks
  /\ pc[h] \in HasHunks /\ Whole(h) => ev[h].hunks = Hunks

SnapshotIsOfNow(h) ==
  /\ pc[h] \in {"staged", "compared"} => ev[h].tree = StagedTree
  /\ pc[h] \in HasSnapshot =>
       \/ ev[h].tree = StagedTree
       \/ ev[h].tree = NoTree /\ StagedTree = headTree
  /\ pc[h] \in HasSnapshot /\ ev[h].tree # NoTree =>
       ev[h].parent = head \/ ("parent" \in lost[h] /\ ev[h].parent = 0)

NamesAreOfNow(h) ==
  /\ pc[h] \in HasBranch =>
       ev[h].branch = branch \/ ("branch" \in lost[h] /\ ev[h].branch = Detached)
  /\ pc[h] \in HasHead =>
       ev[h].head = head \/ ("head" \in lost[h] /\ ev[h].head = 0)

ReadIsOfNow(h) ==
  DiffIsOfNow(h) /\ HunksAreOfNow(h) /\ SnapshotIsOfNow(h) /\ NamesAreOfNow(h)

\* Until the developer does something it stays so.
Exact == \A h \in Handlers : stable[h] => ReadIsOfNow(h)

\* A handler that is not at work has lost nothing; an event has hunks before the
\* snapshot is made, and then a branch.
Filled ==
  \A h \in Handlers :
    /\ pc[h] = "idle" => lost[h] = {}
    /\ pc[h] \in HasHunks \ {"read"} => ev[h].hunks # {}
    /\ pc[h] \in HasBranch => ev[h].branch \in Heads

\* What the dedup window has is queued: Enqueue is the only one to add to it.
Seen == \A d \in dedup : \E i \in DOMAIN events : events[i].hunks = d

\* The files as they are are in the queue, or on the way to it: a handler is
\* still to be called, or one is at work that has read nothing older and has left
\* nothing out.
Covered ==
  ~missed /\ ~gitMoved =>
    \/ triggered
    \/ Hunks = {}
    \/ \E i \in DOMAIN events : events[i].hunks = Hunks
    \/ \E h \in Handlers : pc[h] # "idle" /\ stable[h] /\ Whole(h)

SnapshotInv == TypeOK /\ Filled /\ Exact /\ Seen /\ Covered

-----------------------------------------------------------------------------
(* Operators *)

\* The trees and hunks of a well-typed repository.
LEMMA RepoTypes ==
  ASSUME TypeOK
  PROVE  /\ StagedTree \in [Files -> States]
         /\ DiffHunks \in SUBSET Hunk /\ HunksSince(Nothing) \in SUBSET Hunk
         /\ \A S \in SUBSET Files : NewFileHunks(S) \in SUBSET Hunk
         /\ UntrackedPaths \in SUBSET Files
         /\ Hunks \in SUBSET Hunk
         /\ NoEvent \in Events
         /\ 0 \in States /\ 1 \in States
<1>1. 0 \in States /\ 1 \in States
  BY MaxStateAssumption DEF States
<1>2. StagedTree \in [Files -> States]
  BY <1>1 DEF StagedTree, TypeOK
<1>3. \A t \in [Files -> States] : HunksSince(t) \in SUBSET Hunk
  BY DEF HunksSince, Hunk, TypeOK
<1>4. Nothing \in [Files -> States] /\ headTree \in [Files -> States]
  BY <1>1 DEF Nothing, TypeOK
<1>5. \A S \in SUBSET Files : NewFileHunks(S) \in SUBSET Hunk
  BY <1>1 DEF NewFileHunks, Hunk, TypeOK
<1>6. UntrackedPaths \in SUBSET Files
  BY DEF UntrackedPaths
<1>7. NoEvent \in Events
  BY DEF NoEvent, Events, Trees
<1> QED
  BY <1>1, <1>2, <1>3, <1>4, <1>5, <1>6, <1>7 DEF Hunks, DiffHunks

\* All that is read of the repository is a function of its five parts.
LEMMA RepoFrame ==
  ASSUME UNCHANGED repo
  PROVE  UNCHANGED <<head, headTree, branch, DiffHunks, UntrackedPaths, Hunks, StagedTree>>
<1>1. UNCHANGED <<work, tracked, head, headTree, branch>>
  BY DEF repo
<1>2. DiffHunks' = DiffHunks /\ UntrackedPaths' = UntrackedPaths
  BY <1>1 DEF DiffHunks, HunksSince, UntrackedPaths
<1>3. NewFileHunks(UntrackedPaths)' = NewFileHunks(UntrackedPaths)
  BY <1>1, <1>2 DEF NewFileHunks
<1>4. StagedTree' = StagedTree
  BY <1>1 DEF StagedTree
<1> QED
  BY <1>1, <1>2, <1>3, <1>4 DEF Hunks

\* A file that is not listed or not read takes only its own hunk away.
LEMMA FewerPaths ==
  ASSUME NEW S, NEW T, S \subseteq T
  PROVE  NewFileHunks(S) \subseteq NewFileHunks(T)
BY DEF NewFileHunks

\* A hunk leads from HEAD to the staged tree, and what they differ in is a hunk.
LEMMA HunksLeadToTree ==
  ASSUME TypeOK
  PROVE  /\ \A k \in Hunks : k.path \notin Ignored =>
              StagedTree[k.path] = k.new /\ headTree[k.path] # k.new
         /\ \A f \in Files \ (Denied \cup Ignored) :
              StagedTree[f] # headTree[f] => \E k \in Hunks : k.path = f
<1>1. ASSUME NEW k \in Hunks, k.path \notin Ignored
      PROVE  StagedTree[k.path] = k.new /\ headTree[k.path] # k.new
  <2>1. /\ k.path \in Files /\ k.path \notin Denied
        /\ k.new = work[k.path] /\ headTree[k.path] # work[k.path]
    <3>1. CASE k \in DiffHunks
      BY <3>1 DEF DiffHunks, HunksSince, TypeOK
    <3>2. CASE k \in NewFileHunks(UntrackedPaths)
      BY <3>2 DEF NewFileHunks, UntrackedPaths, TypeOK
    <3> QED
      BY <1>1, <3>1, <3>2 DEF Hunks
  <2> QED
    BY <1>1, <2>1 DEF StagedTree
<1>2. ASSUME NEW f \in Files \ (Denied \cup Ignored), StagedTree[f] # headTree[f]
      PROVE  \E k \in Hunks : k.path = f
  <2>1. work[f] # headTree[f]
    BY <1>2 DEF StagedTree
  <2>2. CASE f \in tracked
    <3>1. [path |-> f, old |-> headTree[f], new |-> work[f]] \in DiffHunks
      BY <2>1, <2>2 DEF DiffHunks, HunksSince
    <3> QED
      BY <3>1 DEF Hunks
  <2>3. CASE f \notin tracked
    <3>1. work[f] # 0
      BY <2>1, <2>3 DEF TypeOK
    <3>2. [path |-> f, old |-> 0, new |-> work[f]] \in NewFileHunks(UntrackedPaths)
      BY <2>3, <3>1 DEF NewFileHunks, UntrackedPaths
    <3> QED
      BY <3>2 DEF Hunks
  <2> QED
    BY <2>2, <2>3
<1> QED
  BY <1>1, <1>2

-----------------------------------------------------------------------------
(* Steps *)

\* The developer's steps: no handler moves, and none has read what is there now.
LEMMA DeveloperFrame ==
  ASSUME TypeOK, Developer
  PROVE  /\ UNCHANGED <<paused, faults, pc, ev, others, lost, dedup, events>>
         /\ stable' = [h \in Handlers |-> FALSE]
         /\ moves' \in Nat
         /\ \/ triggered' = TRUE /\ gitMoved' = FALSE /\ missed' = FALSE
            \/ gitMoved' = TRUE /\ UNCHANGED <<triggered, missed>>
<1>1. /\ Move
      /\ \/ triggered' = TRUE /\ gitMoved' = FALSE /\ missed' = FALSE
         \/ gitMoved' = TRUE /\ UNCHANGED <<triggered, missed>>
  <2>1. ASSUME NEW f \in Files, AddPath(f)
        PROVE  GitMove
    BY <2>1 DEF AddPath
  <2>2. ASSUME NEW f \in Files, NEW v \in States, Save(f, v)
        PROVE  Move /\ triggered' = TRUE /\ gitMoved' = FALSE /\ missed' = FALSE
    BY <2>2 DEF Save
  <2>3. ASSUME Commit
        PROVE  GitMove
    BY <2>3 DEF Commit
  <2>4. ASSUME NEW b \in Heads, Switch(b)
        PROVE  GitMove
    BY <2>4 DEF Switch
  <2>5. GitMove => Move /\ gitMoved' = TRUE /\ UNCHANGED <<triggered, missed>>
    BY DEF GitMove
  <2> QED
    BY <2>1, <2>2, <2>3, <2>4, <2>5 DEF Developer
<1>2. moves' \in Nat
  BY <1>1 DEF Move, TypeOK
<1>3. /\ UNCHANGED <<paused, faults, pc, ev, others, lost, dedup, events>>
      /\ stable' = [h \in Handlers |-> FALSE]
  BY <1>1 DEF Move, sink
<1> QED
  BY <1>1, <1>2, <1>3

\* A step of handler h leaves the other handlers alone.
OthersAlone(h) ==
  \A g \in Handlers \ {h} : /\ pc'[g] = pc[g] /\ ev'[g] = ev[g] /\ others'[g] = others[g]
                            /\ stable'[g] = stable[g] /\ lost'[g] = lost[g]

\* What is common to the steps of a handler.
LEMMA HandlerFrame ==
  ASSUME TypeOK, NEW h \in Handlers, HandlerStep(h)
  PROVE  UNCHANGED <<repo, moves, gitMoved, paused>> /\ OthersAlone(h)
<1>1. \A from, to : Goes(h, from, to) =>
        /\ UNCHANGED <<repo, moves, gitMoved, paused>>
        /\ \A g \in Handlers \ {h} : pc'[g] = pc[g]
  BY DEF Goes, TypeOK
<1>2. \A from : Returns(h, from) =>
        UNCHANGED <<repo, moves, gitMoved, paused>> /\ OthersAlone(h)
  BY <1>1 DEF Returns, OthersAlone, TypeOK
<1>3. \A part : Without(h, part) => \A g \in Handlers \ {h} : lost'[g] = lost[g]
  BY DEF Without, TypeOK
<1>4. CASE SkipPaused(h) \/ SkipEmpty(h) \/ SkipSeen(h) \/ Enqueue(h) \/ Drop(h)
  BY <1>2, <1>4 DEF SkipPaused, SkipEmpty, SkipSeen, Enqueue, Drop
<1>5. CASE BeginChange(h)
  BY <1>1, <1>5 DEF BeginChange, OthersAlone, TypeOK
<1>6. CASE ReadDiff(h) \/ FindUnborn(h) \/ ReadEmptyDiff(h)
  BY <1>1, <1>3, <1>6 DEF ReadDiff, FindUnborn, ReadEmptyDiff, OthersAlone, TypeOK
<1>7. CASE ListUntracked(h) \/ ReadUntracked(h)
  BY <1>1, <1>3, <1>7 DEF ListUntracked, ReadUntracked, OthersAlone, TypeOK
<1>8. CASE Stage(h) \/ CompareHead(h) \/ CommitTree(h)
  BY <1>1, <1>3, <1>8 DEF Stage, CompareHead, CommitTree, OthersAlone, TypeOK
<1>9. CASE ReadBranch(h) \/ ReadHeadSHA(h) \/ NotSeen(h)
  BY <1>1, <1>3, <1>9 DEF ReadBranch, ReadHeadSHA, NotSeen, OthersAlone, TypeOK
<1> QED
  BY <1>4, <1>5, <1>6, <1>7, <1>8, <1>9 DEF HandlerStep

\* What a handler that returns leaves behind.
LEMMA Returned ==
  ASSUME TypeOK, NEW h \in Handlers, NEW from, Returns(h, from)
  PROVE  /\ pc[h] = from /\ pc'[h] = "idle"
         /\ ev'[h] = NoEvent /\ others'[h] = {} /\ stable'[h] = FALSE /\ lost'[h] = {}
         /\ pc' \in [Handlers -> Building] /\ ev' \in [Handlers -> Events]
         /\ others' \in [Handlers -> SUBSET Files]
         /\ stable' \in [Handlers -> BOOLEAN] /\ lost' \in [Handlers -> SUBSET Parts]
<1>1. NoEvent \in Events
  BY RepoTypes
<1>2. /\ pc \in [Handlers -> Building] /\ ev \in [Handlers -> Events]
      /\ others \in [Handlers -> SUBSET Files]
      /\ stable \in [Handlers -> BOOLEAN] /\ lost \in [Handlers -> SUBSET Parts]
  BY DEF TypeOK, Building
<1>3. /\ pc' = [pc EXCEPT ![h] = "idle"] /\ ev' = [ev EXCEPT ![h] = NoEvent]
      /\ others' = [others EXCEPT ![h] = {}]
      /\ stable' = [stable EXCEPT ![h] = FALSE] /\ lost' = [lost EXCEPT ![h] = {}]
      /\ pc[h] = from
  BY DEF Returns, Goes
<1>4. "idle" \in Building
  BY DEF Building
<1> QED
  BY <1>1, <1>2, <1>3, <1>4

\* The steps with which handleChange returns.
Ending(h) == SkipPaused(h) \/ SkipEmpty(h) \/ SkipSeen(h) \/ Enqueue(h) \/ Drop(h)

LEMMA EndingReturns ==
  ASSUME TypeOK, NEW h \in Handlers, Ending(h)
  PROVE  /\ \E from \in Building : Returns(h, from)
         /\ SkipPaused(h) => Returns(h, "idle")
         /\ SkipEmpty(h)  => Returns(h, "read")
         /\ SkipSeen(h)   => Returns(h, "hashed")
         /\ Enqueue(h)    => Returns(h, "fresh")
<1>1. Drop(h) => \E from \in Building : Returns(h, from)
  BY DEF Drop, Building
<1>2. \A from \in {"idle", "read", "hashed", "fresh"} : from \in Building
  BY DEF Building
<1> QED
  BY <1>1, <1>2 DEF Ending, SkipPaused, SkipEmpty, SkipSeen, Enqueue

\* Where the other steps lead, and what they leave alone of the handler's own.
LEMMA Progress ==
  ASSUME TypeOK, NEW h \in Handlers
  PROVE  /\ BeginChange(h) =>
              /\ pc[h] = "idle" /\ pc'[h] = "called" /\ stable'[h] = TRUE
              /\ UNCHANGED <<ev, others, lost>>
         /\ ReadDiff(h) =>
              /\ pc[h] = "called" /\ UNCHANGED <<others, stable, lost>>
              /\ \/ pc'[h] = "diffed" /\ ev'[h].hunks = DiffHunks
                 \/ pc'[h] = "nodiff" /\ UNCHANGED ev
         /\ FindUnborn(h) =>
              /\ pc[h] = "nodiff" /\ pc'[h] = "nohead"
              /\ UNCHANGED <<ev, others, stable, lost>>
         /\ ReadEmptyDiff(h) =>
              /\ pc[h] = "nohead" /\ pc'[h] = "diffed" /\ UNCHANGED <<others, stable>>
              /\ ev'[h].hunks = HunksSince(Nothing)
              /\ IF head = 0 THEN UNCHANGED lost ELSE lost'[h] = lost[h] \cup {"diff"}
         /\ ListUntracked(h) =>
              /\ pc[h] = "diffed" /\ pc'[h] = "listed" /\ UNCHANGED <<ev, stable>>
              /\ \/ others'[h] = UntrackedPaths /\ UNCHANGED lost
                 \/ others'[h] = {} /\ lost'[h] = lost[h] \cup {"untracked"}
         /\ ReadUntracked(h) =>
              /\ pc[h] = "listed" /\ pc'[h] = "read" /\ UNCHANGED <<others, stable>>
              /\ \/ /\ ev'[h].hunks = ev[h].hunks \cup NewFileHunks(others[h])
                    /\ UNCHANGED lost
                 \/ /\ \E f \in others[h] :
                         ev'[h].hunks = ev[h].hunks \cup NewFileHunks(others[h] \ {f})
                    /\ lost'[h] = lost[h] \cup {"untracked"}
<1>1. /\ pc \in [Handlers -> Building] /\ ev \in [Handlers -> Events]
      /\ others \in [Handlers -> SUBSET Files]
      /\ stable \in [Handlers -> BOOLEAN] /\ lost \in [Handlers -> SUBSET Parts]
  BY DEF TypeOK, Building
<1>2. \A from, to : Goes(h, from, to) => pc[h] = from /\ pc'[h] = to
  BY <1>1 DEF Goes
<1>3. \A part : Without(h, part) => lost'[h] = lost[h] \cup {part}
  BY <1>1 DEF Without
<1>4. \A hunks : ev' = [ev EXCEPT ![h].hunks = hunks] => ev'[h].hunks = hunks
  BY <1>1 DEF Events
<1>5. BeginChange(h) =>
        /\ pc[h] = "idle" /\ pc'[h] = "called" /\ stable'[h] = TRUE
        /\ UNCHANGED <<ev, others, lost>>
  BY <1>1, <1>2 DEF BeginChange
<1>6. ReadDiff(h) =>
        /\ pc[h] = "called" /\ UNCHANGED <<others, stable, lost>>
        /\ \/ pc'[h] = "diffed" /\ ev'[h].hunks = DiffHunks
           \/ pc'[h] = "nodiff" /\ UNCHANGED ev
  BY <1>2, <1>4 DEF ReadDiff
<1>7. FindUnborn(h) =>
        /\ pc[h] = "nodiff" /\ pc'[h] = "nohead" /\ UNCHANGED <<ev, others, stable, lost>>
  BY <1>2 DEF FindUnborn
<1>8. ReadEmptyDiff(h) =>
        /\ pc[h] = "nohead" /\ pc'[h] = "diffed" /\ UNCHANGED <<others, stable>>
        /\ ev'[h].hunks = HunksSince(Nothing)
        /\ IF head = 0 THEN UNCHANGED lost ELSE lost'[h] = lost[h] \cup {"diff"}
  BY <1>2, <1>3, <1>4 DEF ReadEmptyDiff
<1>9. ListUntracked(h) =>
        /\ pc[h] = "diffed" /\ pc'[h] = "listed" /\ UNCHANGED <<ev, stable>>
        /\ \/ others'[h] = UntrackedPaths /\ UNCHANGED lost
           \/ others'[h] = {} /\ lost'[h] = lost[h] \cup {"untracked"}
  BY <1>1, <1>2, <1>3 DEF ListUntracked
<1>10. ReadUntracked(h) =>
        /\ pc[h] = "listed" /\ pc'[h] = "read" /\ UNCHANGED <<others, stable>>
        /\ \/ /\ ev'[h].hunks = ev[h].hunks \cup NewFileHunks(others[h])
              /\ UNCHANGED lost
           \/ /\ \E f \in others[h] :
                   ev'[h].hunks = ev[h].hunks \cup NewFileHunks(others[h] \ {f})
              /\ lost'[h] = lost[h] \cup {"untracked"}
  BY <1>2, <1>3, <1>4 DEF ReadUntracked
<1> QED
  BY <1>5, <1>6, <1>7, <1>8, <1>9, <1>10

\* The same of the steps after the hunks are read.
LEMMA ProgressAfterHunks ==
  ASSUME TypeOK, NEW h \in Handlers
  PROVE  /\ Stage(h) \/ CompareHead(h) \/ CommitTree(h) \/ ReadBranch(h)
            \/ ReadHeadSHA(h) \/ NotSeen(h) =>
              /\ ev'[h].hunks = ev[h].hunks /\ UNCHANGED <<others, stable, missed>>
              /\ lost[h] \subseteq lost'[h]
              /\ \A part \in {"diff", "untracked"} : part \in lost'[h] => part \in lost[h]
         /\ Stage(h) =>
              /\ pc[h] = "read" /\ pc'[h] = "staged" /\ ev[h].hunks # {}
              /\ ev'[h].tree = StagedTree
         /\ CompareHead(h) =>
              /\ pc[h] = "staged"
              /\ \/ /\ pc'[h] = "built" /\ ev'[h].tree = NoTree
                    /\ ev[h].tree = headTree
                 \/ pc'[h] = "compared" /\ UNCHANGED ev
         /\ CommitTree(h) =>
              /\ pc[h] = "compared" /\ pc'[h] = "built" /\ ev'[h].tree = ev[h].tree
              /\ \/ ev'[h].parent = head
                 \/ ev'[h].parent = 0 /\ "parent" \in lost'[h]
         /\ ReadBranch(h) =>
              /\ pc[h] = "built" /\ pc'[h] = "named"
              /\ ev'[h].tree = ev[h].tree /\ ev'[h].parent = ev[h].parent
              /\ \/ ev'[h].branch = branch
                 \/ ev'[h].branch = Detached /\ "branch" \in lost'[h]
         /\ ReadHeadSHA(h) =>
              /\ pc[h] = "named" /\ pc'[h] = "hashed"
              /\ ev'[h].tree = ev[h].tree /\ ev'[h].parent = ev[h].parent
              /\ ev'[h].branch = ev[h].branch
              /\ \/ ev'[h].head = head
                 \/ ev'[h].head = 0 /\ "head" \in lost'[h]
         /\ NotSeen(h) => pc[h] = "hashed" /\ pc'[h] = "fresh" /\ UNCHANGED <<ev, lost>>
<1>1. /\ pc \in [Handlers -> Building] /\ ev \in [Handlers -> Events]
      /\ lost \in [Handlers -> SUBSET Parts]
  BY DEF TypeOK, Building
<1>2. \A from, to : Goes(h, from, to) => pc[h] = from /\ pc'[h] = to
  BY <1>1 DEF Goes
<1>3. \A part : Without(h, part) => lost'[h] = lost[h] \cup {part}
  BY <1>1 DEF Without
<1>a. ev[h] \in Events
  BY <1>1
<1>b. \A v : ev' = [ev EXCEPT ![h].parent = v] =>
        /\ ev'[h].hunks = ev[h].hunks /\ ev'[h].tree = ev[h].tree
        /\ ev'[h].parent = v
  BY <1>1, <1>a DEF Events
<1>c. \A v : ev' = [ev EXCEPT ![h].branch = v] =>
        /\ ev'[h].hunks = ev[h].hunks /\ ev'[h].tree = ev[h].tree
        /\ ev'[h].parent = ev[h].parent /\ ev'[h].branch = v
  BY <1>1, <1>a DEF Events
<1>d. \A v : ev' = [ev EXCEPT ![h].head = v] =>
        /\ ev'[h].hunks = ev[h].hunks /\ ev'[h].tree = ev[h].tree
        /\ ev'[h].parent = ev[h].parent /\ ev'[h].branch = ev[h].branch
        /\ ev'[h].head = v
  <2> SUFFICES ASSUME NEW v, ev' = [ev EXCEPT ![h].head = v]
               PROVE  /\ ev'[h].hunks = ev[h].hunks /\ ev'[h].tree = ev[h].tree
                      /\ ev'[h].parent = ev[h].parent /\ ev'[h].branch = ev[h].branch
                      /\ ev'[h].head = v
    OBVIOUS
  <2>1. ev'[h] = [ev[h] EXCEPT !.head = v]
    BY <1>1
  <2> QED
    BY <1>a, <2>1 DEF Events
<1>4. CASE Stage(h)
  <2>1. ev'[h].hunks = ev[h].hunks /\ ev'[h].tree = StagedTree
    BY <1>1, <1>4 DEF Stage, Events
  <2>2. /\ pc[h] = "read" /\ pc'[h] = "staged" /\ ev[h].hunks # {}
        /\ UNCHANGED <<others, stable, lost, missed>>
    BY <1>2, <1>4 DEF Stage
  <2> QED
    BY <1>4, <2>1, <2>2 DEF CompareHead, CommitTree, ReadBranch, ReadHeadSHA, NotSeen, Goes
<1>5. CASE CompareHead(h)
  <2>1. /\ ev'[h].hunks = ev[h].hunks
        /\ \/ pc'[h] = "built" /\ ev'[h].tree = NoTree /\ ev[h].tree = headTree
           \/ pc'[h] = "compared" /\ UNCHANGED ev
    BY <1>1, <1>2, <1>5 DEF CompareHead, Events
  <2>2. pc[h] = "staged" /\ UNCHANGED <<others, stable, lost, missed>>
    BY <1>2, <1>5 DEF CompareHead
  <2> QED
    BY <1>5, <2>1, <2>2 DEF Stage, CommitTree, ReadBranch, ReadHeadSHA, NotSeen, Goes
<1>6. CASE CommitTree(h)
  <2>1. /\ ev'[h].hunks = ev[h].hunks /\ ev'[h].tree = ev[h].tree
        /\ \/ ev'[h].parent = head /\ UNCHANGED lost
           \/ ev'[h].parent = 0 /\ lost'[h] = lost[h] \cup {"parent"}
    BY <1>3, <1>6, <1>b DEF CommitTree
  <2>2. pc[h] = "compared" /\ pc'[h] = "built" /\ UNCHANGED <<others, stable, missed>>
    BY <1>2, <1>6 DEF CommitTree
  <2> QED
    BY <1>6, <2>1, <2>2 DEF Stage, CompareHead, ReadBranch, ReadHeadSHA, NotSeen, Goes
<1>7. CASE ReadBranch(h)
  <2>1. /\ ev'[h].hunks = ev[h].hunks /\ ev'[h].tree = ev[h].tree
        /\ ev'[h].parent = ev[h].parent
        /\ \/ ev'[h].branch = branch /\ UNCHANGED lost
           \/ ev'[h].branch = Detached /\ lost'[h] = lost[h] \cup {"branch"}
    BY <1>3, <1>7, <1>c DEF ReadBranch
  <2>2. pc[h] = "built" /\ pc'[h] = "named" /\ UNCHANGED <<others, stable, missed>>
    BY <1>2, <1>7 DEF ReadBranch
  <2> QED
    BY <1>7, <2>1, <2>2 DEF Stage, CompareHead, CommitTree, ReadHeadSHA, NotSeen, Goes
<1>8. CASE ReadHeadSHA(h)
  <2>1. /\ ev'[h].hunks = ev[h].hunks /\ ev'[h].tree = ev[h].tree
        /\ ev'[h].parent = ev[h].parent /\ ev'[h].branch = ev[h].branch
        /\ \/ ev'[h].head = head /\ UNCHANGED lost
           \/ ev'[h].head = 0 /\ lost'[h] = lost[h] \cup {"head"}
    BY <1>3, <1>8, <1>d DEF ReadHeadSHA
  <2>2. pc[h] = "named" /\ pc'[h] = "hashed" /\ UNCHANGED <<others, stable, missed>>
    BY <1>2, <1>8 DEF ReadHeadSHA
  <2> QED
    BY <1>8, <2>1, <2>2 DEF Stage, CompareHead, CommitTree, ReadBranch, NotSeen, Goes
<1>9. CASE NotSeen(h)
  <2>1. /\ pc[h] = "hashed" /\ pc'[h] = "fresh"
        /\ UNCHANGED <<ev, others, stable, lost, missed>>
    BY <1>2, <1>9 DEF NotSeen
  <2> QED
    BY <1>9, <2>1 DEF Stage, CompareHead, CommitTree, ReadBranch, ReadHeadSHA, Goes
<1> QED
  BY <1>4, <1>5, <1>6, <1>7, <1>8, <1>9

\* A fault is counted or there was none.
LEMMA FaultsCounted ==
  ASSUME TypeOK, NEW h \in Handlers, HandlerStep(h)
  PROVE  faults' \in 0..MaxFaults
<1>1. faults \in 0..MaxFaults
  BY DEF TypeOK
<1>2. Fault \/ UNCHANGED faults => faults' \in 0..MaxFaults
  BY <1>1, MaxFaultsAssumption DEF Fault
<1>3. BeginChange(h) \/ SkipPaused(h) \/ ReadDiff(h) \/ FindUnborn(h) \/ ReadEmptyDiff(h)
        => Fault \/ UNCHANGED faults
  BY DEF BeginChange, SkipPaused, ReadDiff, FindUnborn, ReadEmptyDiff
<1>4. ListUntracked(h) \/ ReadUntracked(h) \/ SkipEmpty(h) \/ Stage(h) \/ CompareHead(h)
        => Fault \/ UNCHANGED faults
  BY DEF ListUntracked, ReadUntracked, SkipEmpty, Stage, CompareHead
<1>5. CommitTree(h) \/ ReadBranch(h) \/ ReadHeadSHA(h) \/ SkipSeen(h) => Fault \/ UNCHANGED faults
  BY DEF CommitTree, ReadBranch, ReadHeadSHA, SkipSeen
<1>6. NotSeen(h) \/ Enqueue(h) \/ Drop(h) => Fault \/ UNCHANGED faults
  BY DEF NotSeen, Enqueue, Drop
<1> QED
  BY <1>2, <1>3, <1>4, <1>5, <1>6 DEF HandlerStep

\* The debouncer's flag, the queue and the dedup window have one writer each among
\* the steps of a handler; a handler that misses the last save says so.
LEMMA Kept ==
  ASSUME TypeOK, NEW h \in Handlers, HandlerStep(h)
  PROVE  /\ triggered' \in BOOLEAN /\ missed' \in BOOLEAN
         /\ ~BeginChange(h) /\ ~SkipPaused(h) => UNCHANGED triggered
         /\ ~Enqueue(h) => UNCHANGED <<dedup, events>>
         /\ missed => missed'
         /\ SkipPaused(h) \/ (Drop(h) /\ stable[h]) => missed'
<1>1. /\ triggered \in BOOLEAN /\ missed \in BOOLEAN /\ stable[h] \in BOOLEAN
  BY DEF TypeOK
<1>2. SkipPaused(h) \/ (Drop(h) /\ stable[h]) => missed'
  BY DEF SkipPaused, Drop, Misses
<1>3. CASE BeginChange(h) \/ SkipPaused(h)
  <2>1. triggered' = FALSE /\ UNCHANGED <<dedup, events>>
    BY <1>3 DEF BeginChange, SkipPaused, sink
  <2>2. missed' = missed \/ missed' = TRUE
    BY <1>3 DEF BeginChange, SkipPaused
  <2> QED
    BY <1>1, <1>2, <1>3, <2>1, <2>2
<1>4. CASE Enqueue(h) \/ Drop(h)
  <2>1. UNCHANGED triggered /\ (~Enqueue(h) => UNCHANGED <<dedup, events>>)
    BY <1>4 DEF Enqueue, Drop, sink
  <2>2. missed' \in BOOLEAN /\ (missed => missed')
    BY <1>1, <1>4 DEF Enqueue, Drop, Misses
  <2> QED
    BY <1>1, <1>2, <2>1, <2>2
<1>5. CASE \/ ReadDiff(h) \/ FindUnborn(h) \/ SkipEmpty(h) \/ Stage(h) \/ CompareHead(h)
           \/ CommitTree(h) \/ ReadBranch(h) \/ ReadHeadSHA(h) \/ SkipSeen(h) \/ NotSeen(h)
  <2>1. UNCHANGED <<triggered, missed, dedup, events>>
    BY <1>5 DEF ReadDiff, FindUnborn, SkipEmpty, Stage, CompareHead, CommitTree, ReadBranch,
                ReadHeadSHA, SkipSeen, NotSeen, sink
  <2> QED
    BY <1>1, <1>2, <2>1
<1>6. CASE ReadEmptyDiff(h) \/ ListUntracked(h) \/ ReadUntracked(h)
  <2>1. UNCHANGED <<triggered, dedup, events>> /\ (UNCHANGED missed \/ Misses(h))
    BY <1>6 DEF ReadEmptyDiff, ListUntracked, ReadUntracked, sink
  <2>2. missed' \in BOOLEAN /\ (missed => missed')
    BY <1>1, <2>1 DEF Misses
  <2> QED
    BY <1>1, <1>2, <2>1, <2>2
<1> QED
  BY <1>3, <1>4, <1>5, <1>6 DEF HandlerStep

\* The hunks stay whole, or it is known that the last save was missed.
LEMMA KeptWhole ==
  ASSUME TypeOK, NEW h \in Handlers, HandlerStep(h), ~Ending(h), stable[h], Whole(h)
  PROVE  Whole(h)' \/ missed'
<1>1. CASE BeginChange(h) \/ ReadDiff(h) \/ FindUnborn(h)
  BY <1>1, Progress DEF Whole
<1>2. CASE \/ Stage(h) \/ CompareHead(h) \/ CommitTree(h) \/ ReadBranch(h)
           \/ ReadHeadSHA(h) \/ NotSeen(h)
  BY <1>2, ProgressAfterHunks DEF Whole
<1>3. CASE ReadEmptyDiff(h) \/ ListUntracked(h) \/ ReadUntracked(h)
  <2>1. UNCHANGED lost \/ missed'
    BY <1>3 DEF ReadEmptyDiff, ListUntracked, ReadUntracked, Misses
  <2> QED
    BY <2>1 DEF Whole
<1> QED
  BY <1>1, <1>2, <1>3 DEF HandlerStep, Ending

\* The kinds of steps, as the proofs below go through them.
LEMMA StepKinds ==
  ASSUME [Next]_vars
  PROVE  \/ Developer
         \/ PauseOrResume
         \/ \E h \in Handlers : HandlerStep(h)
         \/ \E d \in dedup : WindowPasses(d)
         \/ UNCHANGED vars
BY DEF Next

\* What a handler's step makes of its own variables has the right types.
LEMMA HandlerTypes ==
  ASSUME TypeOK, NEW h \in Handlers, HandlerStep(h)
  PROVE  /\ pc' \in [Handlers -> Building] /\ ev' \in [Handlers -> Events]
         /\ others' \in [Handlers -> SUBSET Files]
         /\ stable' \in [Handlers -> BOOLEAN] /\ lost' \in [Handlers -> SUBSET Parts]
<1>1. /\ pc \in [Handlers -> Building] /\ ev \in [Handlers -> Events]
      /\ others \in [Handlers -> SUBSET Files]
      /\ stable \in [Handlers -> BOOLEAN] /\ lost \in [Handlers -> SUBSET Parts]
  BY DEF TypeOK, Building
<1>2. \A from, to : to \in Building /\ Goes(h, from, to) => pc' \in [Handlers -> Building]
  BY <1>1 DEF Goes
<1>3. \A part \in Parts : Without(h, part) => lost' \in [Handlers -> SUBSET Parts]
  BY <1>1 DEF Without
<1>a. \A e \in Events : ev' = [ev EXCEPT ![h] = e] => ev' \in [Handlers -> Events]
  BY <1>1
<1>b. ev[h] \in Events
  BY <1>1
<1>4. \A S \in SUBSET Hunk : ev' = [ev EXCEPT ![h].hunks = S] => ev' \in [Handlers -> Events]
  <2>1. \A S \in SUBSET Hunk : [ev[h] EXCEPT !.hunks = S] \in Events
    BY <1>b DEF Events
  <2> QED
    BY <1>a, <2>1
<1>5. \A t \in Trees : ev' = [ev EXCEPT ![h].tree = t] => ev' \in [Handlers -> Events]
  <2>1. \A t \in Trees : [ev[h] EXCEPT !.tree = t] \in Events
    BY <1>b DEF Events
  <2> QED
    BY <1>a, <2>1
<1>6. \A n \in Nat : /\ ev' = [ev EXCEPT ![h].parent = n] => ev' \in [Handlers -> Events]
                     /\ ev' = [ev EXCEPT ![h].head = n] => ev' \in [Handlers -> Events]
  <2>1. \A n \in Nat : [ev[h] EXCEPT !.parent = n] \in Events
    BY <1>b DEF Events
  <2>2. \A n \in Nat : [ev[h] EXCEPT !.head = n] \in Events
    BY <1>b DEF Events
  <2> QED
    BY <1>a, <2>1, <2>2
<1>7. \A b \in Heads : ev' = [ev EXCEPT ![h].branch = b] => ev' \in [Handlers -> Events]
  <2>1. \A b \in Heads : [ev[h] EXCEPT !.branch = b] \in Events
    BY <1>b DEF Events
  <2> QED
    BY <1>a, <2>1
<1>8. ev[h].hunks \in SUBSET Hunk /\ others[h] \in SUBSET Files
  BY <1>1 DEF Events
<1>9. /\ NoTree \in Trees /\ StagedTree \in Trees /\ head \in Nat /\ 0 \in Nat
      /\ branch \in Heads /\ Detached \in Heads
  BY RepoTypes DEF Trees, Heads, TypeOK
<1>10. CASE Ending(h)
  BY <1>10, EndingReturns, Returned
<1>11. CASE BeginChange(h) \/ FindUnborn(h) \/ NotSeen(h)
  BY <1>1, <1>2, <1>11 DEF BeginChange, FindUnborn, NotSeen, Building
<1>12. CASE ReadDiff(h)
  BY <1>1, <1>2, <1>4, <1>12, RepoTypes DEF ReadDiff, Building
<1>13. CASE ReadEmptyDiff(h)
  BY <1>1, <1>2, <1>3, <1>4, <1>13, RepoTypes DEF ReadEmptyDiff, Building, Parts
<1>14. CASE ListUntracked(h)
  <2>1. others' \in [Handlers -> SUBSET Files]
    BY <1>1, <1>14, RepoTypes DEF ListUntracked
  <2> QED
    BY <1>1, <1>2, <1>3, <1>14, <2>1 DEF ListUntracked, Building, Parts
<1>15. CASE ReadUntracked(h)
  <2>1. \A S \in SUBSET others[h] : ev[h].hunks \cup NewFileHunks(S) \in SUBSET Hunk
    BY <1>8, RepoTypes
  <2>2. ev' \in [Handlers -> Events]
    BY <1>4, <1>15, <2>1 DEF ReadUntracked
  <2> QED
    BY <1>1, <1>2, <1>3, <1>15, <2>2 DEF ReadUntracked, Building, Parts
<1>16. CASE Stage(h) \/ CompareHead(h)
  <2>1. ev' \in [Handlers -> Events]
    BY <1>1, <1>5, <1>9, <1>16 DEF Stage, CompareHead
  <2> QED
    BY <1>1, <1>2, <1>16, <2>1 DEF Stage, CompareHead, Building
<1>17. CASE CommitTree(h) \/ ReadHeadSHA(h)
  <2>1. ev' \in [Handlers -> Events]
    BY <1>6, <1>9, <1>17 DEF CommitTree, ReadHeadSHA
  <2> QED
    BY <1>1, <1>2, <1>3, <1>17, <2>1 DEF CommitTree, ReadHeadSHA, Building, Parts
<1>18. CASE ReadBranch(h)
  <2>1. ev' \in [Handlers -> Events]
    BY <1>7, <1>9, <1>18 DEF ReadBranch
  <2> QED
    BY <1>1, <1>2, <1>3, <1>18, <2>1 DEF ReadBranch, Building, Parts
<1> QED
  BY <1>10, <1>11, <1>12, <1>13, <1>14, <1>15, <1>16, <1>17, <1>18 DEF HandlerStep, Ending

-----------------------------------------------------------------------------
(* The invariant *)

LEMMA TypeStep ==
  ASSUME TypeOK, Filled, [Next]_vars
  PROVE  TypeOK'
<1> DEFINE Repo == /\ work \in [Files -> States]
                   /\ tracked \subseteq Files
                   /\ head \in Nat
                   /\ headTree \in [Files -> States]
                   /\ \A f \in Files : headTree[f] # 0 => f \in tracked
                   /\ head = 0 => headTree = Nothing
                   /\ branch \in Heads
           Flags == /\ triggered \in BOOLEAN /\ gitMoved \in BOOLEAN /\ missed \in BOOLEAN
                    /\ paused \in BOOLEAN /\ faults \in 0..MaxFaults /\ moves \in Nat
           Build == /\ pc \in [Handlers -> Building] /\ ev \in [Handlers -> Events]
                    /\ others \in [Handlers -> SUBSET Files]
                    /\ stable \in [Handlers -> BOOLEAN] /\ lost \in [Handlers -> SUBSET Parts]
           Sink == /\ dedup \subseteq SUBSET Hunk
                   /\ events \in Seq(Events)
                   /\ \A i \in DOMAIN events : events[i].hunks # {} /\ events[i].branch \in Heads
<1>a. Repo /\ Flags /\ Build /\ Sink
  BY DEF TypeOK, Building
<1>b. 0 \in States
  BY RepoTypes
<1>c. Repo' /\ Flags' /\ Build' /\ Sink' => TypeOK'
  BY DEF TypeOK, Building
<1>1. CASE Developer
  <2>1. Repo'
    <3>1. ASSUME NEW f \in Files, AddPath(f)
          PROVE  Repo'
      BY <1>a, <3>1 DEF AddPath, GitMove, Nothing
    <3>2. ASSUME NEW f \in Files, NEW v \in States, Save(f, v)
          PROVE  Repo'
      BY <1>a, <3>2 DEF Save, Nothing
    <3>3. CASE Commit
      <4>1. head' \in Nat /\ head' # 0
        BY <1>a, <3>3 DEF Commit
      <4> QED
        BY <1>a, <1>b, <3>3, <4>1 DEF Commit, GitMove
    <3>4. ASSUME NEW b \in Heads, Switch(b)
          PROVE  Repo'
      BY <1>a, <3>4 DEF Switch, GitMove, Nothing
    <3> QED
      BY <1>1, <3>1, <3>2, <3>3, <3>4 DEF Developer
  <2>2. Flags'
    BY <1>a, <1>1, DeveloperFrame
  <2>3. Build' /\ Sink'
    BY <1>a, <1>1, DeveloperFrame
  <2> QED
    BY <1>c, <2>1, <2>2, <2>3
<1>2. ASSUME NEW h \in Handlers, HandlerStep(h)
      PROVE  TypeOK'
  <2>1. Repo'
    BY <1>a, <1>2, HandlerFrame DEF repo, Nothing
  <2>2. Build'
    BY <1>2, HandlerTypes
  <2>3. Flags'
    BY <1>a, <1>2, HandlerFrame, Kept, FaultsCounted
  <2>4. Sink'
    <3>1. CASE Enqueue(h)
      <4>1. pc[h] = "fresh"
        BY <3>1, EndingReturns, Returned DEF Ending
      <4>2. ev[h] \in Events /\ ev[h].hunks # {} /\ ev[h].branch \in Heads
        BY <1>a, <4>1 DEF Filled, HasHunks, HasBranch
      <4>3. events' = Append(events, ev[h]) /\ dedup' = dedup \cup {ev[h].hunks}
        BY <3>1 DEF Enqueue, ContentHash
      <4>4. events' \in Seq(Events)
        BY <1>a, <4>2, <4>3
      <4>5. \A i \in DOMAIN events' :
              (i \in DOMAIN events /\ events'[i] = events[i]) \/ events'[i] = ev[h]
        BY <1>a, <4>2, <4>3
      <4>6. dedup' \subseteq SUBSET Hunk
        BY <1>a, <4>2, <4>3 DEF Events
      <4> QED
        BY <1>a, <4>2, <4>4, <4>5, <4>6
    <3>2. CASE ~Enqueue(h)
      BY <1>a, <1>2, <3>2, Kept
    <3> QED
      BY <3>1, <3>2
  <2> QED
    BY <1>c, <2>1, <2>2, <2>3, <2>4
<1>3. CASE UNCHANGED <<repo, moves, triggered, gitMoved, faults, build, events, missed>>
           /\ paused' \in BOOLEAN /\ dedup' \subseteq dedup
  <2>1. Repo'
    BY <1>a, <1>3 DEF repo, Nothing
  <2>2. Flags' /\ Build' /\ Sink'
    BY <1>a, <1>3 DEF build
  <2> QED
    BY <1>c, <2>1, <2>2
<1>4. \/ PauseOrResume \/ (\E d \in dedup : WindowPasses(d)) \/ UNCHANGED vars =>
        /\ UNCHANGED <<repo, moves, triggered, gitMoved, faults, build, events, missed>>
        /\ paused' \in BOOLEAN /\ dedup' \subseteq dedup
  <2>1. PauseOrResume =>
          /\ UNCHANGED <<repo, moves, triggered, gitMoved, faults, build, events, missed>>
          /\ paused' \in BOOLEAN /\ dedup' \subseteq dedup
    BY <1>a DEF PauseOrResume, sink
  <2>2. (\E d \in dedup : WindowPasses(d)) \/ UNCHANGED vars =>
          /\ UNCHANGED <<repo, moves, triggered, gitMoved, faults, build, events, missed>>
          /\ paused' = paused /\ dedup' \subseteq dedup
    BY DEF WindowPasses, vars, sink
  <2> QED
    BY <1>a, <2>1, <2>2
<1> QED
  BY <1>1, <1>2, <1>3, <1>4, StepKinds

LEMMA FilledStep ==
  ASSUME TypeOK, Filled, [Next]_vars
  PROVE  Filled'
<1>1. ASSUME NEW h \in Handlers, HandlerStep(h)
      PROVE  Filled'
  <2>1. OthersAlone(h)
    BY <1>1, HandlerFrame
  <2>2. /\ pc'[h] = "idle" => lost'[h] = {}
        /\ pc'[h] \in HasHunks \ {"read"} => ev'[h].hunks # {}
        /\ pc'[h] \in HasBranch => ev'[h].branch \in Heads
    <3>1. CASE Ending(h)
      BY <3>1, EndingReturns, Returned DEF HasHunks, HasBranch
    <3>2. CASE \/ BeginChange(h) \/ ReadDiff(h) \/ FindUnborn(h) \/ ReadEmptyDiff(h)
               \/ ListUntracked(h) \/ ReadUntracked(h)
      BY <3>2, Progress DEF HasHunks, HasBranch
    <3>3. CASE \/ Stage(h) \/ CompareHead(h) \/ CommitTree(h) \/ ReadBranch(h)
               \/ ReadHeadSHA(h) \/ NotSeen(h)
      <4>1. ev'[h].hunks = ev[h].hunks /\ pc'[h] # "idle" /\ ev[h].hunks # {}
        BY <3>3, ProgressAfterHunks DEF Filled, HasHunks
      <4>2. pc'[h] \in HasBranch => ev'[h].branch \in Heads
        <5>1. CASE Stage(h) \/ CompareHead(h) \/ CommitTree(h)
          BY <5>1, ProgressAfterHunks DEF HasBranch
        <5>2. CASE ReadBranch(h)
          BY <5>2, ProgressAfterHunks DEF Heads, TypeOK
        <5>3. CASE ReadHeadSHA(h) \/ NotSeen(h)
          BY <5>3, ProgressAfterHunks DEF Filled, HasBranch
        <5> QED
          BY <3>3, <5>1, <5>2, <5>3
      <4> QED
        BY <4>1, <4>2
    <3> QED
      BY <1>1, <3>1, <3>2, <3>3 DEF HandlerStep, Ending
  <2> QED
    BY <2>1, <2>2 DEF Filled, OthersAlone
<1>2. CASE UNCHANGED <<pc, ev, lost>>
  BY <1>2 DEF Filled
<1>3. Developer => UNCHANGED <<pc, ev, lost>>
  BY DeveloperFrame
<1>4. /\ \A d \in dedup : WindowPasses(d) => UNCHANGED <<pc, ev, lost>>
      /\ PauseOrResume => UNCHANGED <<pc, ev, lost>>
      /\ UNCHANGED vars => UNCHANGED <<pc, ev, lost>>
  BY DEF WindowPasses, PauseOrResume, build, vars
<1> QED
  BY <1>1, <1>2, <1>3, <1>4, StepKinds

\* The hunks of now, step by step: the diff, what is listed, what is read.
LEMMA HunksReadNow ==
  ASSUME TypeOK, NEW h \in Handlers, DiffIsOfNow(h), UNCHANGED repo,
         ReadDiff(h) \/ ReadEmptyDiff(h) \/ ListUntracked(h) \/ ReadUntracked(h)
  PROVE  DiffIsOfNow(h)' /\ HunksAreOfNow(h)'
<1>1. UNCHANGED <<DiffHunks, UntrackedPaths, Hunks>>
  BY RepoFrame
<1>2. CASE ReadDiff(h)
  BY <1>1, <1>2, Progress DEF DiffIsOfNow, HunksAreOfNow, HasHunks
<1>3. CASE ReadEmptyDiff(h)
  <2>1. head = 0 => HunksSince(Nothing) = DiffHunks
    BY DEF DiffHunks, TypeOK
  <2> QED
    BY <1>1, <1>3, <2>1, Progress DEF DiffIsOfNow, HunksAreOfNow, HasHunks
<1>4. CASE ListUntracked(h)
  <2>1. pc[h] = "diffed" /\ pc'[h] = "listed" /\ ev'[h] = ev[h]
    BY <1>4, Progress
  <2>2. \/ others'[h] = UntrackedPaths /\ lost'[h] = lost[h]
        \/ others'[h] = {} /\ lost'[h] = lost[h] \cup {"untracked"}
    BY <1>4, Progress
  <2> QED
    BY <1>1, <2>1, <2>2 DEF DiffIsOfNow, HunksAreOfNow, HasHunks
<1>5. CASE ReadUntracked(h)
  <2>1. pc[h] = "listed" /\ pc'[h] = "read"
    BY <1>5, Progress
  <2>2. others[h] \subseteq UntrackedPaths
    BY <2>1 DEF DiffIsOfNow
  <2>3. NewFileHunks(others[h]) \subseteq NewFileHunks(UntrackedPaths)
    BY <2>2, FewerPaths
  <2>4. \A f : NewFileHunks(others[h] \ {f}) \subseteq NewFileHunks(UntrackedPaths)
    BY <2>2 DEF NewFileHunks
  <2>5. \/ /\ ev'[h].hunks = ev[h].hunks \cup NewFileHunks(others[h])
           /\ lost'[h] = lost[h]
        \/ /\ \E f \in others[h] :
                ev'[h].hunks = ev[h].hunks \cup NewFileHunks(others[h] \ {f})
           /\ lost'[h] = lost[h] \cup {"untracked"}
    BY <1>5, Progress
  <2>6. "diff" \notin lost[h] => ev[h].hunks = DiffHunks
    BY <2>1 DEF DiffIsOfNow
  <2>7. "untracked" \notin lost[h] => others[h] = UntrackedPaths
    BY <2>1 DEF DiffIsOfNow
  <2>8. "diff" \notin lost'[h] => DiffHunks \subseteq ev'[h].hunks /\ ev'[h].hunks \subseteq Hunks
    BY <2>3, <2>4, <2>5, <2>6 DEF Hunks
  <2>9. "diff" \notin lost'[h] /\ "untracked" \notin lost'[h] => ev'[h].hunks = Hunks
    BY <2>5, <2>6, <2>7 DEF Hunks
  <2> QED
    BY <1>1, <2>1, <2>8, <2>9 DEF DiffIsOfNow, HunksAreOfNow, HasHunks, Whole
<1> QED
  BY <1>2, <1>3, <1>4, <1>5

\* Then the snapshot, the branch and HEAD, with the hunks as they are.
LEMMA RestReadNow ==
  ASSUME TypeOK, NEW h \in Handlers, ReadIsOfNow(h), UNCHANGED repo,
         \/ Stage(h) \/ CompareHead(h) \/ CommitTree(h)
         \/ ReadBranch(h) \/ ReadHeadSHA(h) \/ NotSeen(h)
  PROVE  ReadIsOfNow(h)'
<1>1. UNCHANGED <<head, headTree, branch, DiffHunks, UntrackedPaths, Hunks, StagedTree>>
  BY RepoFrame
<1>2. /\ ev'[h].hunks = ev[h].hunks /\ lost[h] \subseteq lost'[h]
      /\ \A part \in {"diff", "untracked"} : part \in lost'[h] => part \in lost[h]
  BY ProgressAfterHunks
<1>3. pc[h] \in HasHunks /\ pc'[h] \in HasHunks \ {"read"}
  BY ProgressAfterHunks DEF HasHunks
<1>4. DiffIsOfNow(h)'
  BY <1>3 DEF DiffIsOfNow, HasHunks
<1>5. HunksAreOfNow(h)'
  BY <1>1, <1>2, <1>3 DEF ReadIsOfNow, HunksAreOfNow, Whole
<1>6. SnapshotIsOfNow(h)'
  <2>1. CASE Stage(h)
    BY <1>1, <2>1, ProgressAfterHunks DEF SnapshotIsOfNow, HasSnapshot
  <2>2. CASE CompareHead(h)
    <3>1. ev[h].tree = StagedTree
      BY <2>2, ProgressAfterHunks DEF ReadIsOfNow, SnapshotIsOfNow
    <3>2. \/ pc'[h] = "built" /\ ev'[h].tree = NoTree /\ ev[h].tree = headTree
          \/ pc'[h] = "compared" /\ ev'[h] = ev[h]
      BY <2>2, ProgressAfterHunks
    <3> QED
      BY <1>1, <3>1, <3>2 DEF SnapshotIsOfNow, HasSnapshot
  <2>3. CASE CommitTree(h)
    <3>1. ev[h].tree = StagedTree
      BY <2>3, ProgressAfterHunks DEF ReadIsOfNow, SnapshotIsOfNow
    <3> QED
      BY <1>1, <2>3, <3>1, ProgressAfterHunks DEF SnapshotIsOfNow, HasSnapshot
  <2>4. CASE ReadBranch(h) \/ ReadHeadSHA(h) \/ NotSeen(h)
    <3>1. /\ pc[h] \in HasSnapshot /\ pc'[h] \in HasSnapshot
          /\ ev'[h].tree = ev[h].tree /\ ev'[h].parent = ev[h].parent
      BY <2>4, ProgressAfterHunks DEF HasSnapshot
    <3> QED
      BY <1>1, <1>2, <3>1 DEF ReadIsOfNow, SnapshotIsOfNow, HasSnapshot
  <2> QED
    BY <2>1, <2>2, <2>3, <2>4
<1>7. NamesAreOfNow(h)'
  <2>1. CASE Stage(h) \/ CompareHead(h) \/ CommitTree(h)
    <3>1. pc'[h] \notin HasBranch /\ pc'[h] \notin HasHead
      BY <2>1, ProgressAfterHunks DEF HasBranch, HasHead
    <3> QED
      BY <3>1 DEF NamesAreOfNow
  <2>2. CASE ReadBranch(h)
    BY <1>1, <2>2, ProgressAfterHunks DEF NamesAreOfNow, HasHead
  <2>3. CASE ReadHeadSHA(h)
    <3>1. ev[h].branch = branch \/ ("branch" \in lost[h] /\ ev[h].branch = Detached)
      BY <2>3, ProgressAfterHunks DEF ReadIsOfNow, NamesAreOfNow, HasBranch
    <3> QED
      BY <1>1, <1>2, <2>3, <3>1, ProgressAfterHunks DEF NamesAreOfNow
  <2>4. CASE NotSeen(h)
    BY <1>1, <2>4, ProgressAfterHunks DEF ReadIsOfNow, NamesAreOfNow, HasBranch, HasHead
  <2> QED
    BY <2>1, <2>2, <2>3, <2>4
<1> QED
  BY <1>4, <1>5, <1>6, <1>7 DEF ReadIsOfNow

LEMMA ExactStep ==
  ASSUME TypeOK, Exact, [Next]_vars
  PROVE  Exact'
<1>1. CASE Developer
  BY <1>1, DeveloperFrame DEF Exact
<1>2. ASSUME NEW h \in Handlers, HandlerStep(h)
      PROVE  Exact'
  <2> SUFFICES ASSUME NEW g \in Handlers, stable'[g]
               PROVE  ReadIsOfNow(g)'
    BY DEF Exact
  <2>1. UNCHANGED repo /\ OthersAlone(h)
    BY <1>2, HandlerFrame
  <2>2. CASE g # h
    <3>1. /\ pc'[g] = pc[g] /\ ev'[g] = ev[g] /\ others'[g] = others[g]
          /\ stable'[g] = stable[g] /\ lost'[g] = lost[g]
      BY <2>1, <2>2 DEF OthersAlone
    <3>2. ReadIsOfNow(g)
      BY <3>1 DEF Exact
    <3>3. UNCHANGED <<head, headTree, branch, DiffHunks, UntrackedPaths, Hunks, StagedTree>>
      BY <2>1, RepoFrame
    <3>4. DiffIsOfNow(g)' /\ HunksAreOfNow(g)'
      BY <3>1, <3>2, <3>3 DEF ReadIsOfNow, DiffIsOfNow, HunksAreOfNow, Whole
    <3>5. SnapshotIsOfNow(g)' /\ NamesAreOfNow(g)'
      BY <3>1, <3>2, <3>3 DEF ReadIsOfNow, SnapshotIsOfNow, NamesAreOfNow
    <3> QED
      BY <3>4, <3>5 DEF ReadIsOfNow
  <2>3. CASE g = h
    <3>1. CASE Ending(h)
      BY <2>3, <3>1, EndingReturns, Returned
    <3>2. CASE BeginChange(h) \/ FindUnborn(h) \/ (ReadDiff(h) /\ pc'[h] = "nodiff")
      <4>1. pc'[h] \in {"called", "nodiff", "nohead"}
        BY <3>2, Progress
      <4> QED
        BY <2>3, <4>1 DEF ReadIsOfNow, DiffIsOfNow, HunksAreOfNow, SnapshotIsOfNow,
                          NamesAreOfNow, HasHunks, HasSnapshot, HasBranch, HasHead
    <3>3. CASE \/ ReadDiff(h) /\ pc'[h] # "nodiff"
               \/ ReadEmptyDiff(h) \/ ListUntracked(h) \/ ReadUntracked(h)
      <4>1. stable[h] /\ pc'[h] \in {"diffed", "listed", "read"}
        BY <2>3, <3>3, Progress
      <4>2. DiffIsOfNow(h)' /\ HunksAreOfNow(h)'
        BY <2>1, <3>3, <4>1, HunksReadNow DEF Exact, ReadIsOfNow
      <4>3. SnapshotIsOfNow(h)' /\ NamesAreOfNow(h)'
        BY <4>1 DEF SnapshotIsOfNow, NamesAreOfNow, HasSnapshot, HasBranch, HasHead
      <4> QED
        BY <2>3, <4>2, <4>3 DEF ReadIsOfNow
    <3>4. CASE \/ Stage(h) \/ CompareHead(h) \/ CommitTree(h) \/ ReadBranch(h)
               \/ ReadHeadSHA(h) \/ NotSeen(h)
      <4>1. stable[h]
        BY <2>3, <3>4, ProgressAfterHunks
      <4> QED
        BY <2>1, <2>3, <3>4, <4>1, RestReadNow DEF Exact
    <3> QED
      BY <1>2, <3>1, <3>2, <3>3, <3>4 DEF HandlerStep, Ending
  <2> QED
    BY <2>2, <2>3
<1>3. CASE UNCHANGED <<repo, build>>
  <2>1. UNCHANGED <<head, headTree, branch, DiffHunks, UntrackedPaths, Hunks, StagedTree>>
    BY <1>3, RepoFrame
  <2>2. UNCHANGED <<pc, ev, others, stable, lost>>
    BY <1>3 DEF build
  <2> SUFFICES ASSUME NEW g \in Handlers, ReadIsOfNow(g)
               PROVE  ReadIsOfNow(g)'
    BY <2>2 DEF Exact
  <2>3. DiffIsOfNow(g)' /\ HunksAreOfNow(g)'
    BY <2>1, <2>2 DEF ReadIsOfNow, DiffIsOfNow, HunksAreOfNow, Whole
  <2>4. SnapshotIsOfNow(g)' /\ NamesAreOfNow(g)'
    BY <2>1, <2>2 DEF ReadIsOfNow, SnapshotIsOfNow, NamesAreOfNow
  <2> QED
    BY <2>3, <2>4 DEF ReadIsOfNow
<1>4. /\ \A d \in dedup : WindowPasses(d) => UNCHANGED <<repo, build>>
      /\ PauseOrResume => UNCHANGED <<repo, build>>
      /\ UNCHANGED vars => UNCHANGED <<repo, build>>
  BY DEF WindowPasses, PauseOrResume, vars
<1> QED
  BY <1>1, <1>2, <1>3, <1>4, StepKinds

LEMMA SeenStep ==
  ASSUME TypeOK, Seen, [Next]_vars
  PROVE  Seen'
<1>1. ASSUME NEW h \in Handlers, Enqueue(h)
      PROVE  Seen'
  <2>1. events' = Append(events, ev[h]) /\ dedup' = dedup \cup {ev[h].hunks}
    BY <1>1 DEF Enqueue, ContentHash
  <2>2. events \in Seq(Events) /\ ev[h] \in Events
    BY DEF TypeOK
  <2>3. /\ \A i \in DOMAIN events : i \in DOMAIN events' /\ events'[i] = events[i]
        /\ Len(events) + 1 \in DOMAIN events' /\ events'[Len(events) + 1] = ev[h]
    BY <2>1, <2>2
  <2> QED
    BY <2>1, <2>3 DEF Seen
<1>2. CASE UNCHANGED events /\ dedup' \subseteq dedup
  BY <1>2 DEF Seen
<1>3. \A h \in Handlers : HandlerStep(h) /\ ~Enqueue(h) => UNCHANGED <<dedup, events>>
  BY Kept
<1>4. Developer => UNCHANGED <<dedup, events>>
  BY DeveloperFrame
<1>5. /\ \A d \in dedup : WindowPasses(d) => UNCHANGED events /\ dedup' \subseteq dedup
      /\ PauseOrResume => UNCHANGED <<dedup, events>>
      /\ UNCHANGED vars => UNCHANGED <<dedup, events>>
  BY DEF WindowPasses, PauseOrResume, vars, sink
<1> QED
  BY <1>1, <1>2, <1>3, <1>4, <1>5, StepKinds

\* A handler that returns without missing the last save leaves its hunks in the
\* queue, if it had read all of it.
LEMMA EndingCovers ==
  ASSUME TypeOK, Exact, Seen, NEW h \in Handlers, HandlerStep(h), Ending(h),
         stable[h], Whole(h), ~missed'
  PROVE  Hunks = {} \/ \E i \in DOMAIN events' : events'[i].hunks = Hunks
<1>1. ~SkipPaused(h) /\ ~Drop(h)
  BY Kept
<1>2. HunksAreOfNow(h)
  BY DEF Exact, ReadIsOfNow
<1>3. CASE SkipEmpty(h)
  <2>1. pc[h] = "read" /\ ev[h].hunks = {}
    BY <1>3, EndingReturns, Returned DEF SkipEmpty
  <2> QED
    BY <1>2, <2>1 DEF HunksAreOfNow, HasHunks
<1>4. CASE SkipSeen(h)
  <2>1. pc[h] = "hashed" /\ ev[h].hunks \in dedup
    BY <1>4, EndingReturns, Returned DEF SkipSeen, ContentHash
  <2>2. ev[h].hunks = Hunks
    BY <1>2, <2>1 DEF HunksAreOfNow, HasHunks
  <2>3. UNCHANGED events
    BY <1>4 DEF SkipSeen, sink
  <2> QED
    BY <2>1, <2>2, <2>3 DEF Seen
<1>5. CASE Enqueue(h)
  <2>1. ev[h].hunks = Hunks
    BY <1>2, <1>5, EndingReturns, Returned DEF HunksAreOfNow, HasHunks
  <2>2. events' = Append(events, ev[h])
    BY <1>5 DEF Enqueue
  <2>3. events \in Seq(Events) /\ ev[h] \in Events
    BY DEF TypeOK
  <2>4. Len(events) + 1 \in DOMAIN events' /\ events'[Len(events) + 1] = ev[h]
    BY <2>2, <2>3
  <2> QED
    BY <2>1, <2>4
<1> QED
  BY <1>1, <1>3, <1>4, <1>5 DEF Ending

LEMMA CoveredStep ==
  ASSUME TypeOK, Filled, Exact, Seen, Covered, [Next]_vars
  PROVE  Covered'
<1> SUFFICES ASSUME ~missed', ~gitMoved'
             PROVE  \/ triggered'
                    \/ Hunks' = {}
                    \/ \E i \in DOMAIN events' : events'[i].hunks = Hunks'
                    \/ \E h \in Handlers : pc'[h] # "idle" /\ stable'[h] /\ Whole(h)'
  BY DEF Covered
<1>1. CASE Developer
  BY <1>1, DeveloperFrame
<1>2. ASSUME NEW h \in Handlers, HandlerStep(h)
      PROVE  \/ triggered'
             \/ Hunks' = {}
             \/ \E i \in DOMAIN events' : events'[i].hunks = Hunks'
             \/ \E g \in Handlers : pc'[g] # "idle" /\ stable'[g] /\ Whole(g)'
  <2>1. Hunks' = Hunks /\ gitMoved' = gitMoved /\ OthersAlone(h)
    BY <1>2, HandlerFrame, RepoFrame
  <2>2. \A i \in DOMAIN events : i \in DOMAIN events' /\ events'[i] = events[i]
    <3>1. CASE Enqueue(h)
      <4>1. events' = Append(events, ev[h]) /\ events \in Seq(Events) /\ ev[h] \in Events
        BY <3>1 DEF Enqueue, TypeOK
      <4> QED
        BY <4>1
    <3>2. CASE ~Enqueue(h)
      BY <1>2, <3>2, Kept
    <3> QED
      BY <3>1, <3>2
  <2>3. ~missed /\ ~SkipPaused(h)
    BY <1>2, Kept
  <2>4. CASE BeginChange(h)
    <3>1. pc'[h] = "called" /\ stable'[h] = TRUE /\ lost'[h] = {}
      BY <2>4, Progress DEF Filled
    <3> QED
      BY <3>1 DEF Whole
  <2>5. CASE ~BeginChange(h)
    <3>1. UNCHANGED triggered
      BY <1>2, <2>3, <2>5, Kept
    <3>2. \/ triggered
          \/ Hunks = {}
          \/ \E i \in DOMAIN events : events[i].hunks = Hunks
          \/ \E g \in Handlers : pc[g] # "idle" /\ stable[g] /\ Whole(g)
      BY <2>1, <2>3 DEF Covered
    <3>3. ASSUME NEW g \in Handlers, pc[g] # "idle", stable[g], Whole(g)
          PROVE  \/ Hunks' = {}
                 \/ \E i \in DOMAIN events' : events'[i].hunks = Hunks'
                 \/ pc'[g] # "idle" /\ stable'[g] /\ Whole(g)'
      <4>1. CASE g # h
        BY <2>1, <3>3, <4>1 DEF OthersAlone, Whole
      <4>2. CASE g = h /\ Ending(h)
        BY <1>2, <2>1, <3>3, <4>2, EndingCovers
      <4>3. CASE g = h /\ ~Ending(h)
        <5>1. Whole(h)'
          BY <1>2, <3>3, <4>3, KeptWhole
        <5>2. CASE \/ ReadDiff(h) \/ FindUnborn(h) \/ ReadEmptyDiff(h)
                   \/ ListUntracked(h) \/ ReadUntracked(h)
          BY <3>3, <4>3, <5>1, <5>2, Progress
        <5>3. CASE \/ Stage(h) \/ CompareHead(h) \/ CommitTree(h) \/ ReadBranch(h)
                   \/ ReadHeadSHA(h) \/ NotSeen(h)
          BY <3>3, <4>3, <5>1, <5>3, ProgressAfterHunks
        <5> QED
          BY <1>2, <2>5, <4>3, <5>2, <5>3 DEF HandlerStep, Ending
      <4> QED
        BY <4>1, <4>2, <4>3
    <3> QED
      BY <2>1, <2>2, <3>1, <3>2, <3>3
  <2> QED
    BY <2>4, <2>5
<1>3. CASE UNCHANGED <<repo, triggered, gitMoved, build, events, missed>>
  <2>1. Hunks' = Hunks
    BY <1>3, RepoFrame
  <2> QED
    BY <1>3, <2>1 DEF Covered, build, Whole
<1>4. /\ \A d \in dedup : WindowPasses(d) =>
           UNCHANGED <<repo, triggered, gitMoved, build, events, missed>>
      /\ PauseOrResume => UNCHANGED <<repo, triggered, gitMoved, build, events, missed>>
      /\ UNCHANGED vars => UNCHANGED <<repo, triggered, gitMoved, build, events, missed>>
  BY DEF WindowPasses, PauseOrResume, vars, sink
<1> QED
  BY <1>1, <1>2, <1>3, <1>4, StepKinds

LEMMA SnapshotInit == Init => SnapshotInv
<1> SUFFICES ASSUME Init
             PROVE  SnapshotInv
  OBVIOUS
<1>0. 0 \in States /\ 1 \in States
  BY MaxStateAssumption DEF States
<1>1. TypeOK
  <2>1. /\ headTree \in [Files -> States] /\ work \in [Files -> States]
        /\ tracked \subseteq Files /\ \A f \in Files : headTree[f] # 0 => f \in tracked
        /\ branch \in Heads
    BY <1>0 DEF Init, Heads
  <2>2. head \in Nat /\ moves \in Nat /\ (head = 0 => headTree = Nothing)
    BY DEF Init
  <2>3. NoEvent \in Events
    BY DEF NoEvent, Events, Trees
  <2>4. /\ ev \in [Handlers -> Events] /\ others \in [Handlers -> SUBSET Files]
        /\ stable \in [Handlers -> BOOLEAN] /\ lost \in [Handlers -> SUBSET Parts]
        /\ pc \in [Handlers -> Building] /\ dedup \subseteq SUBSET Hunk
    BY <2>3 DEF Init, Building
  <2>5. /\ triggered \in BOOLEAN /\ gitMoved \in BOOLEAN /\ missed \in BOOLEAN
        /\ paused \in BOOLEAN /\ faults \in 0..MaxFaults
    <3>1. 0 \in 0..MaxFaults
      BY MaxFaultsAssumption
    <3> QED
      BY <3>1 DEF Init
  <2>6. events \in Seq(Events) /\ DOMAIN events = {}
    BY DEF Init
  <2> QED
    BY <2>1, <2>2, <2>4, <2>5, <2>6 DEF TypeOK, Building
<1>2. Filled /\ Exact
  BY DEF Init, Filled, Exact, HasHunks, HasBranch
<1>3. Seen
  BY DEF Init, Seen
<1>4. Hunks = {}
  <2>1. DiffHunks = {}
    BY DEF Init, DiffHunks, HunksSince
  <2>2. NewFileHunks(UntrackedPaths) = {}
    BY DEF Init, NewFileHunks, UntrackedPaths
  <2> QED
    BY <2>1, <2>2 DEF Hunks
<1> QED
  BY <1>1, <1>2, <1>3, <1>4 DEF SnapshotInv, Covered

LEMMA SnapshotInvariant == Spec => []SnapshotInv
<1>1. Init => SnapshotInv
  BY SnapshotInit
<1>2. SnapshotInv /\ [Next]_vars => SnapshotInv'
  BY TypeStep, FilledStep, ExactStep, SeenStep, CoveredStep DEF SnapshotInv
<1> QED
  BY <1>1, <1>2, PTL DEF Spec

-----------------------------------------------------------------------------
(* Theorems *)

\* Every state has the types of TypeOK: what is queued has hunks and a branch, and
\* the working tree, HEAD and the index belong together, however the developer's
\* steps, those of the handlers and their failures alternate.
THEOREM TypeCorrect == Spec => []TypeOK
<1>1. SnapshotInv => TypeOK
  BY DEF SnapshotInv
<1> QED
  BY <1>1, SnapshotInvariant, PTL

\* Build: the parts of an event are read by commands that follow each other; they
\* are of one moment, and the hunks lead from HEAD to the snapshot, unless the
\* developer did something in between.  An error that Build swallows takes the part
\* it was about and no other: untracked hunks, the parent, the branch, HEAD, or the
\* side of HEAD in the diff.
THEOREM BuiltOfOneMoment == Spec => []UndisturbedIsExact
<1>1. SnapshotInv => UndisturbedIsExact
  <2> SUFFICES ASSUME SnapshotInv, NEW h \in Handlers, pc[h] = "hashed", stable[h]
               PROVE  /\ "diff" \notin lost[h] =>
                           DiffHunks \subseteq ev[h].hunks /\ ev[h].hunks \subseteq Hunks
                      /\ lost[h] \cap {"diff", "untracked"} = {} => ev[h].hunks = Hunks
                      /\ \/ ev[h].branch = branch
                         \/ "branch" \in lost[h] /\ ev[h].branch = Detached
                      /\ ev[h].head = head \/ ("head" \in lost[h] /\ ev[h].head = 0)
                      /\ ev[h].tree = NoTree => StagedTree = headTree
                      /\ ev[h].tree # NoTree =>
                           ev[h].parent = head \/ ("parent" \in lost[h] /\ ev[h].parent = 0)
                      /\ \A k \in Hunks : k.path \notin Ignored =>
                           ev[h].tree # NoTree /\ ev[h].tree[k.path] = k.new
                      /\ ev[h].tree # NoTree =>
                           \A f \in Files \ (Denied \cup Ignored) :
                             ev[h].tree[f] # headTree[f] => \E k \in Hunks : k.path = f
    BY DEF UndisturbedIsExact
  <2>1. TypeOK /\ HunksAreOfNow(h) /\ SnapshotIsOfNow(h) /\ NamesAreOfNow(h)
    BY DEF SnapshotInv, Exact, ReadIsOfNow
  <2>2. /\ "diff" \notin lost[h] =>
             DiffHunks \subseteq ev[h].hunks /\ ev[h].hunks \subseteq Hunks
        /\ lost[h] \cap {"diff", "untracked"} = {} => ev[h].hunks = Hunks
    BY <2>1 DEF HunksAreOfNow, HasHunks, Whole
  <2>3. /\ \/ ev[h].branch = branch
           \/ "branch" \in lost[h] /\ ev[h].branch = Detached
        /\ ev[h].head = head \/ ("head" \in lost[h] /\ ev[h].head = 0)
    BY <2>1 DEF NamesAreOfNow, HasBranch, HasHead
  <2>4. /\ ev[h].tree = StagedTree \/ (ev[h].tree = NoTree /\ StagedTree = headTree)
        /\ ev[h].tree # NoTree =>
             ev[h].parent = head \/ ("parent" \in lost[h] /\ ev[h].parent = 0)
    BY <2>1 DEF SnapshotIsOfNow, HasSnapshot
  <2>5. StagedTree = NoTree => StagedTree = headTree
    <3>1. DOMAIN StagedTree = Files /\ DOMAIN NoTree = {}
      BY DEF StagedTree, NoTree
    <3>2. headTree \in [Files -> States] /\ StagedTree \in [Files -> States]
      BY <2>1, RepoTypes DEF TypeOK
    <3> QED
      BY <3>1, <3>2
  <2>6. ASSUME NEW k \in Hunks, k.path \notin Ignored
        PROVE  ev[h].tree # NoTree /\ ev[h].tree[k.path] = k.new
    <3>1. StagedTree[k.path] = k.new /\ headTree[k.path] # k.new
      BY <2>1, <2>6, HunksLeadToTree
    <3>2. StagedTree # headTree
      BY <3>1
    <3> QED
      BY <2>4, <2>5, <3>1, <3>2
  <2>7. ev[h].tree # NoTree =>
          \A f \in Files \ (Denied \cup Ignored) :
            ev[h].tree[f] # headTree[f] => \E k \in Hunks : k.path = f
    BY <2>1, <2>4, HunksLeadToTree
  <2> QED
    BY <2>2, <2>3, <2>4, <2>5, <2>6, <2>7
<1> QED
  BY <1>1, SnapshotInvariant, PTL

\* handleChange: when no handler is at work or still to be called, the files as
\* they are have been queued, also when they changed while a handler read them,
\* when the dedup window had the same hunks before, and when earlier saves were
\* missed by a pause or an error, unless the last save itself was.
THEOREM LastSaveQueued == Spec => []CurrentIsReviewed
<1>1. SnapshotInv => CurrentIsReviewed
  BY DEF SnapshotInv, Covered, CurrentIsReviewed, AtRest
<1> QED
  BY <1>1, SnapshotInvariant, PTL
=============================================================================
