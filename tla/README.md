# Krennic: specifications and proofs

Krennic (`src/krennic`) is a review agent that runs on every developer's
machine. It watches repositories, waits until a burst of edits is over, takes a
snapshot of the working tree, publishes it as a *shadow ref*, has it read by an
AI provider in two stages under a daily budget, and reports the result to a
central *hub* that keeps a hash-chained audit. This directory holds TLA+
specifications of the parts of it where order, failure and concurrency decide,
TLC configurations that check them, and TLAPS proofs of the results that hold
for every size.

```
tlc -workers 2 -config MCAgent.cfg MCAgent     # any of the configurations below
tlapm AgentProofs.tla                          # any of the eight proof modules
```

All paths below are relative to `src/krennic`.

## 1. The system

| Component | Code | State | Operations | Talks to |
|---|---|---|---|---|
| Watcher | `internal/watcher` | fsnotify's watches and event queue | `DiscoverRepos`, `Start`, `addRecursive`, `handle` | calls `Debouncer.Trigger` |
| Debouncer | `internal/debounce` | `states` (timer, time of first event), `closed`, goroutines started by timers | `Trigger`, `fire`, `Stop` | calls `handleChange` in a goroutine of its own |
| Change builder | `internal/change`, `CreateShadowSnapshot` | none (reads the working tree) | `Build` | git |
| Diff parser | `internal/gitxport/diff.go` | none | `WorkingTreeDiff`, `splitFileDiffs`, `untrackedHunk` | git, from `Build` |
| Agent | `internal/agent` | context, `pausedUntil`, wake channel, worker goroutines | `Run`, `handleChange`, `worker`, `processEvent`, `pause`, `resume`, `outboxSender` | all of the others |
| Store | `internal/store` | SQLite tables `queue`, `records`, `dedup`, `costs`, `outbox` | `Enqueue`, `SeenRecently`, `Claim`, `Complete`, `Fail`, `ResetInflight`, `Save*`, `AddCost`, `SpendForDay`, outbox, `PruneOlderThan` | called by handlers, workers, sender, `krennic gc` |
| AI gateway | `internal/ai` | none of its own; `costs` in the store | `Analyze`: triage, routing, budget gate, review, charge | providers, store |
| Shadow refs | `internal/gitxport/shadow.go`, `publishShadow`, `krennic gc` (`cmd/krennic/admin.go`) | local refs, refs of `ai-remote` | `PublishShadow`, `ListShadowRefs`, `DeleteShadowRef` | git, from several workers and another process |
| Hub client and server | `internal/hub/client.go`, `server.go` | requests in flight | `Send`, `handleReport` | HTTP |
| Hub audit | `internal/hub/store.go`, `internal/audit` | table `audit` with `prev_hash`, `entry_hash` | `Append`, `Verify` | |
| Status publisher | `internal/status` | none | `Publish` | GitHub or GitLab |
| Redaction, configuration, secrets, telemetry, command line | rest | none that decides | | |

Goroutines: one per call of the debouncer, `ai_workers` workers (two by
default), one outbox sender, the HTTP server; besides them the git processes,
the `gc` command, the hub, and the hub's other clients. They share the SQLite
file (one connection, so a transaction or a single statement is one step) and
the repository's refs (one git command is one step).

What is hard about it, and what must hold:

* **Watcher.** Directories are made, written and removed while the walk that adds
  their watches goes on. No save may be left without an event of its repository
  still to come, and no directory without a watch.
* **Builder.** Diff, untracked files, snapshot, HEAD and branch are read by one
  git command after the other while the developer goes on, and some errors of
  them are swallowed. What was saved last must be queued for review, a build
  nobody disturbed must be of one moment, and a swallowed error must take nothing
  but its own part of the event.
* **Diff parser.** Content lines may look like headers. No hunk may be lost or
  given to another file, and the totals must be those of the hunks sent.
* **Results.** Record, commit status and report are written one after the other
  by several workers, across kills, failing statements, late posts and `gc`. They
  must be of one analysis and agree.
* **Debouncer.** Go timers cannot be taken back once their goroutine has
  started, and `Trigger` ignores the results of `Stop` and `Reset`. An accepted
  event must still be served, in bounded time, and nothing may be called after
  `Stop`.
* **Queue.** Several workers, a restart that puts rows back, a kill between two
  statements, a failing statement. No change in two hands, none left behind,
  none settled twice; a duplicate is skipped only if its content was queued.
* **Shutdown.** The inner loop of `worker` ignores the context. The process must
  end, and what was interrupted should be taken up again.
* **Gateway.** The budget is read before a review and charged after it, by
  several workers and across midnight; errors of the store are dropped.
* **Shadow refs.** Two workers may publish one branch, a restart publishes an
  old snapshot again, gc deletes in two steps, two branches may share a ref.
* **Hub.** A report may be sent, received and answered any number of times and
  in any order; the audit must have each one once, and notice damage.

## 2. Modules

```
Timestamps <- Store <- Agent <- AgentProofs, MCAgent
HubLog <- HubDelivery <- HubDeliveryProofs, MCHubDelivery
          HubDelivery --INSTANCE--> AuditLog
HubLog <- AuditChain  <- AuditChainProofs, MCAuditChain
Watcher, Debounce     <- EventProofs           Watcher    <- MCWatcher
                                               Debounce   <- MCDebounce
Gateway, DiffParse    <- ReviewProofs          Gateway    <- MCGateway
                                               DiffParse  <- MCDiffParse
Snapshot   <- SnapshotProofs, MCSnapshot
ShadowRefs <- ShadowRefsProofs, MCShadowRefs
Results    <- ResultsProofs, MCResults
```

(`A <- B`: B extends A.) `MC*` modules hold model values only. Definitions marked
*Faulty variant* in a comment are not part of a specification: each shows a
plausible bug that a property named in PROJECT.json detects. `EventProofs` and
`ReviewProofs` each extend two components that share lemmas (sequences; sums over
finite sets); so that they can, `Watcher` and `DiffParse` give their `Init`,
`Next` and `Spec` names of their own (`WatcherInit`, `ParseInit`, ...).

The modules follow a change from the keyboard to the audit: `Watcher` ->
`Debounce` -> `Snapshot` (with `DiffParse`) -> `Agent` (queue, workers) ->
`ShadowRefs`, `Gateway` -> `Results` -> `HubDelivery` -> `AuditChain`. Each takes
its neighbours as single steps: the callback of the debouncer is one action of
`Watcher`, a build one action of `Agent`, an analysis four steps of `Results`.

### Watcher - `internal/watcher`, `resolveRepos`
Paths are sequences of `Names`; `File` stands for a file written to. `tree` is the file system, `watched` the watches,
`events` fsnotify's queue, `current` the event in `handle`. A walk of
`addRecursive` is `walkRoot`, `todo` (entries read) and `reading` (watched, not
yet read): `AddWatch`/`AddFails`/`Skip` visit a directory, `ReadDir` reads it
after that, as `WalkDir` does, so a directory made in between is found by the
read, by its event, or by both. `WalkRepo` is `Start`, `Handle` and `HandleEnds`
are `handle` with the walk of a new directory between them. `Discovered` is
`DiscoverRepos`, `RepoRootFor` the longest repository that contains a path.
`Developer` saves, changes modes, makes and removes directories; the kernel's
event queue may overflow and refuse watches. `unseen` is a ghost: directories with a
save `onChange` was not called for. Renames of directories are left out.

### Snapshot - `internal/change/builder.go`, `CreateShadowSnapshot`, `handleChange`
A file's state is a number. `BeginChange` and `SkipPaused` are the pause check (a
pause drops the trigger); then one step per git command or transaction: `ReadDiff`,
`FindUnborn` and `ReadEmptyDiff` (the diff against the empty tree), `ListUntracked`,
`ReadUntracked`, `SkipEmpty`, `Stage` (empty index, `add -A`, `rm --cached` of denied
paths, `write-tree`), `CompareHead`, `CommitTree`, `ReadBranch`, `ReadHeadSHA`,
`SkipSeen`/`NotSeen`, `Enqueue`. Between any two the developer may save, `git add`,
commit, switch and detach HEAD, pauses may begin and end, and another handler may do
the same steps.

Any command may fail (`Fault`, at most `MaxFaults` in all). `Drop` is the errors that
end `handleChange`. The others are swallowed, each in the action of its command: no
untracked files (`ls-files`), one file less (a file that cannot be read), the diff of an
unborn branch (`git diff` and `rev-parse` both fail), a snapshot although the tree is
that of HEAD (`rev-parse HEAD^{tree}`), no parent and no HEAD (`HeadSHA`), a detached
HEAD (`CurrentBranch`), a change not seen before (`SeenRecently`).

Ghosts: `stable` (the developer did nothing since the handler was called), `lost` (the
parts swallowed errors have taken from its event), `gitMoved` (a git command of the
developer since the last save), `missed` (a pause or an error kept the *last* save from
being read; a new save clears it). `RefTree` says what one worker without faults would
publish of the queue; only `MCSnapshotStale` uses it, `ShadowRefs` has the rest.

A command reads the files it reads at one moment, and the commands of
`CreateShadowSnapshot` up to `write-tree` are one step: the developer's index is not
theirs, and a save among them is a save before or after. Two files with the same state have
the same patch: binary, cut and masked contents are not told apart. Paths git prints in
quotes are left out here (`DiffParse` has them in the diff; the list of staged
paths `deny` is asked about, shadow.go:44-49, is quoted too).

### DiffParse - `internal/gitxport/diff.go`
One action per case of the `switch` in `splitFileDiffs`, over the lines git
prints for a list of changed files (`GitOutput`, external); then `CollectFile`
(the deny list and the totals of `WorkingTreeDiff`) and `CollectUntracked`
(`untrackedHunk` with its limit on lines). A line is what the cases can tell of
it. A line no case takes would be a deadlock. `DueHunks` are the hunks that
should come of a working tree: those of the tracked files that are not denied,
then one for each untracked text file. Of a hunk with lines that look like headers
`BodyOfOthers` says where each of the other lines has to come to stand (`Place`).

### Results - `processEvent`, `store.go`, `internal/status`, `internal/audit`, gc
The changes of one commit. `Claim`, `Triage`, `Route`, `Review`, `AnalysisFails`,
`Publish` (a post may fail, be lost or arrive late: `LatePost`), `DeleteRow` and
`MarkDone` (the two statements of `Complete`), `EnqueueReport`, `FailQueue` and
`FailRecord`; `Outage` is kill and restart; `DaysPass` and `Prune` are `krennic gc`.
Every analysis of a change has a number (`runs`), and triage, review and report
carry it. Ghosts name the changes something went wrong with: `disturbed` (a
failed statement or post), `killed`, `shared` (held while another was), `wiped`
(pruned before they were old).
The dedup rows gc deletes too may go at any time in `Snapshot` (`WindowPasses`).

### Debounce - `internal/debounce/debounce.go`
Time is counted in ticks. `known`, `age`, `left` are the map's entries; `orphans`
counts armed timers whose state `fire` has deleted, `firing` the goroutines that
have started and not yet got the lock, `calls` the running calls of `fn`.
`TriggerNew`, `TriggerCeiling`, `TriggerReset` are the three paths of `Trigger`;
`Expire`, `OrphanExpire` the runtime starting a goroutine; `FireOpen`,
`FireClosed` the body of `fire`; `Return`; `Stop`. `dirty` is a ghost: an event
no call has seen. `Spec` lets the clock run ahead of goroutines, `TimedSpec`
does not (`Punctual`).

### Store, Timestamps, Agent - `internal/store/store.go`, `internal/agent`
`Store` has one operator per SQL transaction or statement: `Complete` and `Fail`
are two statements outside a transaction and so two operators each. `Timestamps`
says how RFC3339Nano texts sort: a whole second is written without a fraction
and sorts behind the fractions of the same second.

`Agent` composes it with the process. `phase` follows `Run`: `Start`
(`ResetInflight`, whose error is dropped), `Cancel`, `StopDebouncer`, `Exit`
after `wg.Wait`; `Crash` is a kill at any point. `handler[c]` is the progress of
the callback that builds change `c`: `BeginChange` (pause check), `Build`,
`CheckSeen` (whose error counts as not seen), `EnqueueChange`. `pc[w]` is that of
a worker: `Wake`, `ClaimNext`, `StartCall` or, once the context is cancelled,
`RefuseCall`; `Answer`, `CallFails`; the two statements of `Complete` and of
`Fail`; `Report`. `StatementFails` is an error of the store at the statement the
worker is at, after which the code goes on as `AfterFault` says. Callbacks of
the debouncer are not in the wait group and may be cut off by `Exit`.

### Gateway - `internal/ai/ai.go`, `pricing.go`, the `costs` table
`pc[w]` follows `Analyze`: `TriageAnswered`, `Save`, `ChargeTriage` (charge and
the routing decision), `PassGate`, `BudgetHit` or `PassGateBlindly` (an error of
`SpendForDay` reads as no spend), `ReviewAnswered`, `Save`, `ChargeReview`,
`Settle`. `Unreadable` is an answer that is no JSON, `NoAnswer` the failure of
provider and fallback. `ShouldEscalate` is the routing rule over `Triages`, the
fields it reads. The clock may pass midnight between any two steps; the agent may
be stopped and started. `saved`, `paid`, `reviewed`, `lost`, `blind` are ghosts.

### ShadowRefs - `shadow.go`, `publishShadow`, `cmd/krennic/admin.go`
`local` and `remote` map refs to the number of the snapshot they point at.
`UpdateRef`, `StartPush`, `PushLands`/`PushFails`/`PushHangs` are the two git
commands of `PublishShadow`. What a push does is external: it reads the local
and the remote ref first, and the remote takes the new value only if its ref is
still the one that was read, which `--force` does not change. `GcList`,
`GcCompare` or `NoBranchesRead` (`LocalBranches` drops its error), then
`GcDeleteLocal` and `GcDeleteRemote` per ref. `RefName` turns `/` into `-`, so
two branches may share a ref. Ghosts: `failed` (a command on the ref failed),
`shared` (two workers held changes of it at once), `crossed` (gc and a worker
were at it at once), `steady` (branches that existed all through a gc).

### HubLog, HubDelivery, AuditLog - outbox, `hub/client.go`, `server.go`, `store.go`
`HubDelivery` has the outbox of each agent, the batch its sender has listed, the
call it waits for, and `late`, requests the client gave up on that may still
arrive; `version` numbers the bodies of a report and `queued`
counts every queueing of every report, which bounds them. `ListOutbox` sorts by
the text of `created_at`: `second` is the second a row was written in, and `Insert`
puts a new row behind those of earlier seconds and anywhere among those of its own,
since RFC3339Nano drops trailing zeros and `Z` sorts after the digits.
`DeleteOutbox` is the statement of that name: it deletes by key and leaves the other
rows in order. `List`, `Send`, `HubAccepts`/`HubRefuses`, `Delivered`, `SendFails`
(timeout, lost answer, refusal; the rest of the batch is left), `DeleteFails`,
`HubAcceptsLate`, `LoseLate`, `Crash`, `Restart`. `HubLog` has `Append`,
`ChainHash` and `Verify` as operators; a hash is taken to be the history it was
computed from, i.e. SHA-256 is collision free. `AuditLog` is the abstract
promise: an append-only log that records every submitted report once.
`HubDelivery` implements it under the mapping `submitted` <- all versions a
report was queued with, `entries` <- the rows without their hashes.

### AuditChain - `hub/store.go: Append, Verify`
The same table over its life, with rows altered or lost between appends;
`history` keeps what was received.

## 3. Runs

| Run | Instance | States | What it shows |
|---|---|---|---|
| `debounce` | 2 repositories, wait 2, ceiling 3, at most 2 timers or goroutines ahead of an event | 5 k | `NoLostTrigger`: however goroutines and events interleave, an unserved event has an armed timer or started goroutine. `NoCallAfterStop`. `Served`: every event is served, also when events never stop (with the ceiling removed it fails). |
| `agent` | 2 changes of one content, 2 workers, 2 outages, 1 failing statement, pauses, window 1 | 700 k | `OneOwner`, `NoRowAbandoned`, `SettledForGood`, `SkippedIsCovered`, `ReportOfFinished`, `RecordsFollowQueue`. |
| `agent_live` | 2 changes, 2 workers, 1 outage, 2 ticks per second | 140 k | `EveryChangeSettles`, `ShutdownEnds`, and `OldestFirst`: rows are claimed in order up to the order within one second. |
| `hub_delivery` | 2 agents, 3 reports of one or several seconds, batches of 2, 1 crash, 1 late request | 63 k | `NothingLost`, `InOrder` (from one second to the next), `EventuallyLogged`, `OutboxDrains`, and the refinement `ImplementsAuditLog`: the table is an append-only log with each report once. |
| `audit_chain` | 4 rows, 2 payloads, 2 damages, not of the tail | 0.3 k | `VerifyIsExact`: `Verify` passes a table nothing happened to, and no table with a changed row or a gap. `FirstBreakIsNamed`. |
| `shadow_refs` | 2 branches sharing a ref, 2 workers, 2 snapshots, 1 restart, 1 branch made or removed, pushes that fail or hang | 820 k | `LocalIsPublished`: once quiet, the remote has what the local ref says. `SerialRefIsCurrent`: that is the newest snapshot if no two workers met at the ref, also after a restart. `GcSparesLive`. `SettledUnlessHung`. |
| `gateway` | 2 workers, 3 changes, 6 triages, budget 1, cost 0..1, 2 days, 1 store error, 1 restart | 1.0 M | `ReviewSpendBounded`, `SpendMatchesResults`, `RoutedAsContracted` (against `docs/data-contract.md:41-50`). |
| `watcher` | 6 directories, a discovered repository with a listed one in it and an ignored directory, 3 moves of the developer, queue of 2, 1 refused watch | 280 k | `NoLostSave`: however mkdir, writes and the walk meet, a save no callback has seen has an event of its repository still to come. `WatchesComplete`: with nothing left to handle every directory is watched. `SavesAreSeen`: every save comes to `onChange`. |
| `snapshot` | 3 files (1 denied, 1 ignored), a branch and a detached HEAD, 2 handlers, 2 moves between any two git commands, pauses, 2 errors | 1.0 M | `CurrentIsReviewed`: once the handlers are done, a change with exactly the hunks of the last save has been queued, unless a pause or an error met that save itself; whatever was read in between, whatever the dedup window dropped, and whatever was missed of earlier saves. `UndisturbedIsExact`: hunks, tree, parent, branch and HEAD of an undisturbed build belong together, and each swallowed error takes its own part and no other. |
| `diff_parse` | 1920 working trees: 1 or 2 files, every kind of change, hunks of 1 or 2 lines of every sign and beginning | 31 k | `OnlyLookalikesAreLost`: hunks lose the lines that look like headers and nothing else, and no file or hunk; with no such line nothing is lost, nor the hunk of any untracked text file. `TotalsAreOfHunks`. |
| `results` | 2 changes of a commit, 2 workers, 1 kill, 1 failed statement or post, 1 run of gc | 1.6 M | `ReportIsOfLastAnalysis`, `StatusAgreesWithReport`, `SerialStatusIsCurrent` (the commit shows its newest change if workers did not meet), `DoneIsReported`. |

One run is expected to end in a violation: `agent_interrupted` checks
`README.md:52`, interrupted work is finished; a shutdown fails the running and all
remaining analyses for good. Section 5 lists the other sentences of the
repository the code does not keep, with the configurations that show them.

**Bounds.** Two workers, agents, branches or changes are the fewest that can
interfere, and no action relates more than two of them, except that the gateway
has three changes so that a worker can come to the gate again after the other
has been charged. Two outages cover a restart that is itself interrupted. One
failing statement is allowed at every point. In `debounce` the quiet period and
the ceiling differ and neither divides the other, so a timer can expire before,
at and after the ceiling; `MaxLoad` 2 gives one orphan beside the goroutine of a
live state. The bounds are constants of the modules (`MaxNow`, `MaxOutages`,
`MaxFaults`, `MaxLoad`, `MaxQueued`, `MaxCrashes`, `MaxLate`, `MaxRows`,
`MaxDamage`, `MaxSnaps`, `MaxMoves`, `MaxDay`, `MaxChanges`, `MaxQueue`,
`MaxFailures`, `MaxSweeps`) and appear in guards only. Three moves let a developer
make a directory, write into it and remove it again during one walk; two lines in a
hunk let every beginning of a line stand before and after every other. Symmetry is used in `agent`, `audit_chain`,
`gateway`, `snapshot` and `results`, which check no liveness. In `snapshot` one
branch and the detached HEAD are the two places HEAD can be; with two handlers and
two errors both may fall into one build, or one into each of two; two moves are a save
and another save, commit, `add` or switch at any moment of the builds. A third move (save,
commit and save again) is in `MCSnapshotMoves.cfg`, the same two properties with two
files and one error, which holds over 2.6 M states and is not a regular run. The
type invariants of the modules proved about are checked by their runs; those of the
other modules document the state.

**Deadlock** is checked wherever the system never rests for good. `audit_chain`,
`hub_delivery`, `shadow_refs`, `gateway`, `watcher`, `snapshot` and `results` stop
when their bounds are used up or there is nothing left to do, or, in `shadow_refs`, when every worker hangs.

**Fairness.**
* `Debounce`: time passes, timers and goroutines run, `fn` returns. Events and
  `Stop` are owed nothing.
* `Agent`: goroutines run and calls return (every HTTP client has a timeout);
  git commands have none, so liveness is claimed for git commands that end, and
  the case of a push that does not is in `ShadowRefs`. The installed service
  starts the agent again after an outage. `Leave` is strongly fair: a `select`
  with a closed `ctx.Done` picks it at random, and wake tokens are at most 64.
  Outages, pauses and new changes are owed nothing.
* `HubDelivery`: the sender ticks, agents are restarted, a client does not wait
  for ever (15 s). `HubAccepts` and `Delivered` are strongly fair: a hub that is
  called again and again accepts, and its answer gets through, again and again.
  A hub that refuses for ever leaves the report in the outbox (`NothingLost`).
* `Watcher`: `Start` runs to its end and the goroutine of `loop` goes on; the
  developer is owed nothing.
* `ShadowRefs`: workers take their steps; a push either ends or hangs.

## 4. Proofs

32 of the 40 properties of the passing runs are theorems (the 41st, of
`agent_interrupted`, is false), for every value of the constants:
every number of workers, changes, agents, branches, files, directories, keys and
rows, every budget and price, and every bound.

| Module | Theorems | Inductive invariant, and why the property alone is not inductive |
|---|---|---|
| `EventProofs` (`Watcher`) | `WatcherTypeCorrect`, `NothingUnwatched`, `SavesAreKept` | `WatcherInv`. `Reached`: a directory without a watch will be walked: it lies below an entry the walk has still to visit or read, or below a directory whose creation is an event still to come. `NoLostSave` says nothing of directories nobody has saved in yet, and their watch decides whether the next save is seen. `Kept`: while `Start` is at work a save counts only where a watch is. `Placed`, `Walks`, `Created` say where walks and creations can be. |
| `EventProofs` (`Debounce`) | `Typing`, `TriggersAreKept`, `StopIsFinal`, `DelayIsBounded` | `TriggersPending`: a known, open state always has its timer or a goroutine, so the goroutine that deletes it also makes the call. `Budget` bounds `age + left`; it needs `Punctual` and a positive ceiling. |
| `AgentProofs` | `Typing`, `OneOwnerHolds`, `NoRowAbandonedHolds`, `SettledForGoodHolds`, `SkippedIsCoveredHolds`, `ReportOfFinishedHolds`, `RecordsFollowQueueHolds`, `OldestFirstHolds` | `Ownership`: a busy worker's change was queued and its row is in the state `RowAt` names for that point of `processEvent`; `Claim` looks at the row and not at the worker. On top of it `Coverage` (every dedup row has a queued change), `Reporting`, and `FirstRun` (no row survives to the first start). `OldestFirst` is an action property: `TextOrder` shows, for each resolution of the clock, that texts sort as times do up to one second, and `OnlyFirstIsClaimed` that `Claim` takes the first by text. |
| `SnapshotProofs` | `TypeCorrect`, `BuiltOfOneMoment`, `LastSaveQueued` | `SnapshotInv`. `Exact` and `Filled`: at every step of `Build`, not only at its end, what an undisturbed handler has read is what it would read now, but for the parts in `lost`. `Seen`: a dedup row has a queued change with its hunks. `Covered`: while the files are not queued as they are, a handler is still to be called, or one is at work that has read nothing older and lost no hunk, or the last save was missed. |
| `ReviewProofs` (`Gateway`) | `Typing`, `BudgetKept`, `RoutingCorrect`, `EveryResultChargedOnce` | `Room` counts the reviews under way as if they were charged; `Accounted` ties the ghost to the table the gate reads; `Ahead` keeps days to come empty, so that midnight starts with room for every worker. `RoutingRule` proves the code's order of tests equal to the contract's for all triages. `Balanced`: costs table plus what the workers have still to charge is what was saved. |
| `ReviewProofs` (`DiffParse`) | `TotalsAgreeWithHunks` | `TallyInv`: the counts are right from the first line of a hunk on, in the hunk being read, the file being read, the files read and the result so far; the property speaks of the end only. |
| `ReviewProofs` (`DiffParse`) | `FilesReadAsPrinted` | `ReadInv`: at every line there is a position in the output printed for the tree (`Left`: what is still to be read is the rest of it), it lies in the header of a file (`InHeader`) or in one of its hunks (`InHunk`), and what was read is what was printed up to there: `FilesRead` for the files before, `FileUpto` for the hunks before, `BodyUpto` for the lines before. Then `Collected(k, m)`: the result holds the hunks of the first `k` files and the first `m` untracked ones. The property speaks of the two moments when parsing and collecting end. `FlatIs` says where the elements of a flattened sequence stand, `GitOutputIs` what is cut off its end, `WhatIsNext` which kind of line can come at a position, so that each case of the `switch` is taken only where its line was meant, or is a line that looks like a header. |
| `ShadowRefsProofs` | `TypeCorrect`, `LiveIsSpared`, `RemoteHasLocal`, `RemoteIsNewest` | `RefsInv`. `Carried`: where the two sides of a ref differ a worker has still to push it or is pushing what the local ref says, or a ghost excuses it. That a push which found both sides equal may be skipped needs `NoReturn` (the local ref never comes back to what a push has read), and that `Unread` (nothing points at a snapshot before its update-ref); `Swept`: between gc's two commands the ref is gone and nobody publishes it. For the newest snapshot `OneByOne`, `InTurn`, `UnderWay`, `Current`: without overlap a ref's snapshots are claimed in turn, each under way or published before the next. |
| `ResultsProofs` | `TypeCorrect`, `LastAnalysisReported`, `StatusIsReported`, `NewestIsShown`, `PruneSparesReports` | `ResultsInv`: `Holding` (who holds a row at which point), `Recorded` (what the record says there), `Judged` and `Reviewed` (triage and review bear the number of the analysis that is running), `Reported`, `Agreeing` (the status shown, and every late post, is that of the report to come), `Serial` (without overlap the shown change is the newest analyzed), `Reporting` (a change whose row is gone is reported or in a worker's hand). |
| `HubDeliveryProofs` | `TypeCorrect`, `NothingIsLost`, `OrderIsKept`, `ImplementsLog` | `DeliveryInv`: `Ordered` speaks of log, outbox, batch, request and late requests at once, since a late request may put a report into the log while its sender is at another one; `Answered`: a delivered answer is of a report in the log, so that what is deleted is logged; `Keyed`: an outbox holds each of its reports once; `Known`, `Counted`: what is under way or logged was queued at some time, so the log holds nothing that was not submitted. |
| `AuditChainProofs` | `VerifyTells`, `FirstBreakNamed` | `ChainInv`: `Chained`, each row carries the hash of everything received up to it, which damage to a payload does not touch and the loss of a row makes visible at the next one; `Ended`, the last row is the last received. Both assume `~TailMayGo`, as the run does: without a last row `Verify` cannot know (section 5, `MCAuditChainTail`). |

`ImplementsLog` is the safety half of `ImplementsAuditLog`: the initial states of
`HubDelivery` are those of `AuditLog`, and each step is a submission, a record or
a stutter. A run checks the whole refinement.

Assumed are the named `ASSUME`s of the modules and nothing else: durations and
bounds are numbers, `NoChange` and `NoHash` are no elements of the sets they stand
beside, `Workers` is finite (gateway, whose bound counts them), a working tree
lists changed files (path, change, hunks of content lines) and untracked files with a
number of lines, the watcher's
directories are closed under their parents and no file is one of them, a second has up to ten ticks. No
step is taken on trust.

Two techniques recur. *Induction over data* is written as a least counterexample:
`LeastNumber` (well-founded induction on `<`) gives the shortest prefix or the
smallest subset where a statement fails. That is how chains (`VerifyTells`), sums
(`SumExists`, `SubsetsByPicking`: the recursion behind a sum over a finite set has
a solution, and any order of picking gives the same sum) and path prefixes
(`TreeClosed`) are reasoned about. *Ghosts* that excuse a case (`failed`, `missed`, `lost`,
`killed`, `shared`, `crossed`, `disturbed`, `stable`) occur in the invariants exactly where
they occur in the properties; none is read by an action of the code.

`UndisturbedIsExact` asks for a parent only where there is a tree: for a tracked file
that is ignored and not in HEAD there are hunks and no snapshot, hence no parent
(the run reaches it). Of a build whose diff an error has replaced by that of
an unborn branch it says nothing of the tracked hunks, and all else of the event.

Only model-checked: liveness (`Served`, `EveryChangeSettles`, `ShutdownEnds`,
`EventuallyLogged`, `OutboxDrains`, `SettledUnlessHung`, `SavesAreSeen`, and the
liveness half of `ImplementsAuditLog`), since TLAPS has no backend for fairness
with `ENABLED`. Every safety property of the regular runs is a theorem.

## 5. Disagreements between the repository's words and its code

Besides the run `agent_interrupted`, these configurations each check one sentence
of the repository that the code does not keep. They are not regular runs; TLC
ends each of them with a counterexample.

| Configuration | Property | Sentence | What happens |
|---|---|---|---|
| `MCAgentUnreported` | `FinishedIsReported` | `agent.go:300-301`, a report is never lost | a kill between `Complete` and `EnqueueOutbox` |
| `MCAuditChainTail` | `ShorteningIsNoticed` | `cmd/krennic/hub.go:136`, the audit is not shortened | the last row is lost and `Verify` passes |
| `MCShadowRefsStale` | `RemoteIsCurrent` | `README.md:11-13`, the working state is published faithfully | two workers, no fault: the older snapshot is published last |
| `MCGatewayCeiling` | `TriageOnlyOverBudget` | `skill/SKILL.md:101`, after the daily ceiling triage only | an unreadable answer is paid for and never charged |
| `MCWatcherIgnored` | `FiresOnEverySave` | `watcher.go:3`, it fires on every save | a repository configured below a directory called `build` is watched, and every event of it thrown away |
| `MCDiffParseHeaders` | `EveryDiffIsExact` | `diff.go:35`, the hunk-level diff vs HEAD | a removed line `-- ...` is printed as `--- ...`, taken for a header and dropped; an added `++ ...` takes the place of the path |
| `MCDiffParseQuoted` | `UntrackedAreRendered` | `diff.go:35-36`, untracked files are rendered as added hunks | a path git prints in quotes (letters outside ASCII) is looked up with the quotes and not found; in a tracked diff it becomes a wrong path |
| `MCSnapshotIgnored` | `FullWorkingTree` | `shadow.go:19-20`, the full working tree | a tracked file `.gitignore` matches is in the diff and not in the tree: `add -A` into an empty index skips it |
| `MCSnapshotStale` | `RefFollowsTree` | `README.md:11-13` | an edit is taken back: no hunks or no snapshot, and the ref keeps the edit |
| `MCResultsFailed` | `EveryChangeIsReported` | `agent.go:107-108`, every change is reported | a failed analysis is settled without a report |
| `MCResultsMixed` | `ReportIsOfOneAnalysis` | `audit.go:16-17`, how the AI judged it | a kill after the review was saved and a second analysis that does not escalate: new triage, old review |

Smaller ones, without a configuration:

* `debounce.go:11` promises a call every `maxWait` at most; the ceiling is
  compared only when an event arrives, so the bound is `maxWait + wait`
  (`DelayIsBounded`). `debounce.go:1-2` promises one callback per burst; at the
  ceiling every event before the goroutine gets the lock starts another one.
* `store.go:184`: a kill between the statements of `Complete` leaves a record in
  `analyzing` with no row; `RecordsFollowQueue` excludes outages for this, and
  `Prune` never removes such a record.
* `commands.go:143`: a pause holds back new builds, while queued work goes on.
  A save during a pause is dropped with its trigger (`agent.go:206-208`); when the
  pause is over it waits for the next save. The same holds of a save whose build
  ended with an error. A pause of less than a second is sent as 0 s
  (`commands.go:152`), which is taken for an hour by the agent.
* `diff.go:92`, `shadow.go:63`, `git.go:55-70`: errors of git commands that are not
  reported; a change may be queued without its untracked files, with a parent or
  HEAD of none, or as of a detached HEAD (`lost` in `Snapshot`).
* `diff.go:211-214`: an added line `++ ...` replaces the path of its file, so the
  deny list is asked about the wrong name. `shadow.go:48` asks it about paths as git
  prints them, in quotes where it does.
* `store.go:98-99`: two callbacks may both pass `SeenRecently` before either
  enqueues; both changes are analyzed.
* `store.go:150` and `store.go:309`: "oldest" is by text (`Timestamps`, and `Insert`
  in `HubDelivery`), and the time is taken before the transaction begins.
* `builder.go:132`: the content hash has no repository or branch in it: the same
  edit in a second clone, within the window, is skipped.
* `git.go:32`: git has no timeout; a hung push keeps a worker and a shutdown.
  `claudecli.go:49` has none either.
* `git.go:121`: the output of `git status` is trimmed before it is cut into lines:
  the first redacted path shown may lack its first letter.
* `diff.go:139`: the piece after the last newline of an untracked file counts as
  an added line (`Split`).
* `shadow.go:147`: a failed listing of branches makes gc delete every ref.
  `admin.go:225`: with a `/` at the end of the namespace gc deletes nothing, and
  the ref of a detached HEAD has no branch and is always deleted.
* gc and a worker at the same ref can leave local and remote different
  (`crossed`); a restart can make two pushes of a ref cross unnoticed.
* `ai.go:235`: the fallback provider is called with the model name of the stage's
  own provider. `example_config.go:43` puts `fallback` under `[ai.routing]`, while
  `config.go:78-84` reads it from `[ai]`.

## 6. Not modelled, and the plan

Not modelled for good: telemetry (counters nothing decides by), secrets,
configuration parsing, prompts and provider adapters, dashboards, the command
line: they keep no state that another part decides by, or are pure formatting.
Redaction is regular expressions over strings; the deny list appears as a set of
paths. `ShadowRefs` and `Results` take the order of the queue (`Claim`, by text of
`enqueued_at`) to be that of insertion: their changes are of different seconds, and
`Agent` has the text. Within the modelled parts: renames of directories in `Watcher`, more than
one repository in `Snapshot`, commits other than the one HEAD in `Results`, the
summary of untracked files and the list of redacted paths.

Next, in this order:

1. Refinement: `Debounce` against a one-timer-per-key promise, and `ShadowRefs`
   against a register per ref, beside the invariants that are proved.
2. Composition: `Snapshot` with two clones that share a dedup table.
