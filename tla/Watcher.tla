------------------------------- MODULE Watcher -------------------------------
(***************************************************************************)
(* The filesystem watcher (internal/watcher) between the developer's edits  *)
(* and the debouncer: which directories are watched, which events are in    *)
(* the queue, and for which repository onChange is called.  The walk of     *)
(* addRecursive is interleaved with the developer's mkdir and writes.       *)
(* Paths are sequences of names; siblings are walked in any order.          *)
(***************************************************************************)
EXTENDS Integers, SequencesExt

CONSTANTS Names,       \* names of directories and files
          File,        \* the name of a file, of no ignored name
          Dirs,        \* directories that may exist, closed under parents
          IgnoredDirs, \* names never watched or descended
          Gits,        \* directories with a .git entry
          WatchRoots,  \* agent.watch_roots
          Listed,      \* paths of the enabled [[repos]]
          MaxChanges,  \* bound on the developer's changes
          MaxQueue,    \* events the kernel keeps
          MaxFailures  \* bound on watches the kernel refuses

ASSUME DirsAssumption ==
  /\ Dirs \subseteq Seq(Names) \ {<<>>}
  /\ \A d \in Dirs : Len(d) > 1 => Front(d) \in Dirs

ASSUME FileAssumption ==
  File \in Names \ IgnoredDirs /\ \A d \in Dirs : Append(d, File) \notin Dirs

VARIABLES tree,       \* directories that exist
          watched,    \* directories with a watch
          events,     \* fsnotify's events that are not yet handled
          starting,   \* repositories Start has not walked yet
          walkRoot,   \* root of the walk that is going on, or <<>>
          todo,       \* directories the walk has read about, not yet visited
          reading,    \* directory it has added a watch to, not yet read, or <<>>
          current,    \* the event being handled: none, or a sequence of one
          unseen,     \* directories with an edit onChange was not called for
          blind,      \* directories the kernel refused a watch for
          overflowed, \* the kernel dropped an event
          changes,
          failures

walk    == <<walkRoot, todo, reading>>
env     == <<tree, changes, unseen, overflowed>>
watcherVars == <<tree, watched, events, starting, walk, current, unseen, blind,
                 overflowed, changes, failures>>

Below(p, q) == IsPrefix(q, p)     \* p is q or below it

Name(p) == Last(p)

Children(d) == {e \in tree : Len(e) = Len(d) + 1 /\ Below(e, d)}

\* Components of p that DiscoverRepos and addRecursive look at from root on.
SkippedFrom(root, p) ==
  \E i \in (Len(root) + 1)..Len(p) : p[i] \in IgnoredDirs

Discovered ==
  {d \in Gits : \E root \in WatchRoots :
     /\ Below(d, root)
     /\ ~SkippedFrom(root, d)
     /\ \A g \in Gits : Below(g, root) /\ Below(d, g) => g = d}

Repos == Listed \cup Discovered

\* Any component of the absolute path, those above the repository included.
IsIgnored(path) == \E i \in DOMAIN path : path[i] \in IgnoredDirs

\* Faulty variant: the first repository that contains the path.
RepoRootForShortest(path) ==
  LET in == {r \in Repos : Below(path, r)} IN
  IF in = {} THEN <<>> ELSE CHOOSE r \in in : \A q \in in : Len(r) <= Len(q)

RepoRootFor(path) ==
  LET in == {r \in Repos : Below(path, r)} IN
  IF in = {} THEN <<>> ELSE CHOOSE r \in in : \A q \in in : Len(r) >= Len(q)

\* The repository of a directory, for the properties: said without lengths.
RepoOf(r, d) ==
  /\ r \in Repos /\ Below(d, r)
  /\ \A q \in Repos : Below(d, q) => Below(r, q)

Event(path, op) == [path |-> path, op |-> op]

Ops == {"create", "write", "remove", "chmod"}

Events == [path : Seq(Names), op : Ops]

WatcherTypeOK ==
  /\ tree \subseteq Dirs
  /\ watched \subseteq tree
  /\ events \in Seq(Events)
  /\ starting \subseteq Repos
  /\ walkRoot \in Dirs \cup {<<>>}
  /\ todo \subseteq Dirs
  /\ reading \in Dirs \cup {<<>>}
  /\ current \in Seq(Events) /\ Len(current) <= 1
  /\ unseen \subseteq tree
  /\ blind \subseteq tree
  /\ overflowed \in BOOLEAN
  /\ changes \in Nat /\ failures \in Nat

WatcherInit ==
  /\ tree \in {t \in SUBSET Dirs :
                 /\ Repos \subseteq t
                 /\ \A d \in t : Len(d) > 1 => Front(d) \in t}
  /\ watched = {}
  /\ events = <<>>
  /\ starting = Repos
  /\ walkRoot = <<>>
  /\ todo = {}
  /\ reading = <<>>
  /\ current = <<>>
  /\ unseen = {}
  /\ blind = {}
  /\ overflowed = FALSE
  /\ changes = 0
  /\ failures = 0

-----------------------------------------------------------------------------
(* The developer, and the kernel's events *)

\* An event is raised if the directory it happens in has a watch.
Raise(dir, e) ==
  IF dir \notin watched THEN UNCHANGED <<events, overflowed>>
  ELSE IF Len(events) < MaxQueue
       THEN events' = Append(events, e) /\ UNCHANGED overflowed
       ELSE overflowed' = TRUE /\ UNCHANGED events

Change ==
  /\ changes < MaxChanges
  /\ changes' = changes + 1
  /\ UNCHANGED <<starting, walk, current, failures>>

\* A save counts once Start is over, before that where a watch is.
Save(d) ==
  /\ Change
  /\ d \in tree
  /\ Raise(d, Event(Append(d, File), "write"))
  /\ unseen' = IF starting = {} \/ d \in watched THEN unseen \cup {d} ELSE unseen
  /\ UNCHANGED <<tree, watched, blind>>

Chmod(d) ==
  /\ Change
  /\ d \in tree
  /\ Raise(d, Event(Append(d, File), "chmod"))
  /\ UNCHANGED <<tree, watched, blind, unseen>>

Mkdir(d) ==
  /\ Change
  /\ d \in Dirs \ tree
  /\ Front(d) \in tree
  /\ tree' = tree \cup {d}
  /\ Raise(Front(d), Event(d, "create"))
  /\ UNCHANGED <<watched, blind, unseen>>

\* The repositories themselves stay.
Rmdir(d) ==
  /\ Change
  /\ d \in tree \ Repos
  /\ Children(d) = {}
  /\ tree' = tree \ {d}
  /\ watched' = watched \ {d}
  /\ blind' = blind \ {d}
  /\ unseen' = unseen \ {d}
  /\ Raise(Front(d), Event(d, "remove"))

-----------------------------------------------------------------------------
(* addRecursive *)

Walking == walkRoot # <<>>

StartWalk(root) ==
  /\ walkRoot' = root
  /\ todo' = {root}
  /\ reading' = <<>>

WalkRepo(root) ==
  /\ ~Walking
  /\ root \in starting
  /\ StartWalk(root)
  /\ UNCHANGED <<env, watched, events, starting, current, blind, failures>>

\* WalkDir passes an entry that is gone or cannot be read; SkipDir.
Skip(d) ==
  /\ reading = <<>> /\ d \in todo
  /\ d \notin tree \/ (Name(d) \in IgnoredDirs /\ d # walkRoot)
  /\ todo' = todo \ {d}
  /\ UNCHANGED <<env, watched, events, starting, walkRoot, reading, current,
                 blind, failures>>

Visited(d) ==
  /\ reading = <<>> /\ d \in todo
  /\ d \in tree
  /\ Name(d) \notin IgnoredDirs \/ d = walkRoot
  /\ todo' = todo \ {d}
  /\ reading' = d
  /\ UNCHANGED <<env, events, starting, walkRoot, current>>

AddWatch(d) ==
  /\ Visited(d)
  /\ watched' = watched \cup {d}
  /\ blind' = blind \ {d}
  /\ UNCHANGED failures

\* The error is logged at debug level and the walk goes on.
AddFails(d) ==
  /\ Visited(d)
  /\ d \notin watched
  /\ failures < MaxFailures
  /\ failures' = failures + 1
  /\ blind' = blind \cup {d}
  /\ UNCHANGED watched

\* WalkDir reads a directory after fn has added its watch.
ReadDir ==
  /\ reading # <<>>
  /\ reading' = <<>>
  /\ todo' = todo \cup Children(reading)
  /\ UNCHANGED <<env, watched, events, starting, walkRoot, current, blind,
                 failures>>

WalkEnds ==
  /\ Walking
  /\ reading = <<>> /\ todo = {}
  /\ walkRoot' = <<>>
  /\ starting' = starting \ {walkRoot}
  /\ UNCHANGED <<env, watched, events, todo, reading, current, blind, failures>>

-----------------------------------------------------------------------------
(* loop and handle *)

\* The end of handle: onChange for the repository of the path.
Notify(e) ==
  LET root == RepoRootFor(e.path) IN
  unseen' = IF e.op = "chmod" THEN unseen
            ELSE {d \in unseen : ~RepoOf(root, d)}

\* Faulty variant: onChange first, then the watches of the new directory.
HandleChangeFirst ==
  /\ starting = {} /\ current = <<>> /\ ~Walking
  /\ events # <<>>
  /\ events' = Tail(events)
  /\ Notify(Head(events))
  /\ IF Head(events).op = "create" /\ Head(events).path \in tree
     THEN StartWalk(Head(events).path) ELSE UNCHANGED walk
  /\ UNCHANGED <<tree, changes, overflowed, watched, starting, current, blind,
                 failures>>

\* Faulty variant: a new directory is not walked.
HandleUnwalked ==
  /\ starting = {} /\ current = <<>>
  /\ events # <<>>
  /\ events' = Tail(events)
  /\ current' = IF IsIgnored(Head(events).path) THEN current ELSE <<Head(events)>>
  /\ UNCHANGED <<env, watched, starting, walk, blind, failures>>

\* An event is taken; that of a new directory starts a walk.
Handle ==
  /\ starting = {} /\ current = <<>>
  /\ events # <<>>
  /\ events' = Tail(events)
  /\ LET e == Head(events) IN
     IF IsIgnored(e.path) THEN UNCHANGED <<current, walk>>
     ELSE /\ current' = <<e>>
          /\ IF e.op = "create" /\ e.path \in tree
             THEN StartWalk(e.path) ELSE UNCHANGED walk
  /\ UNCHANGED <<env, watched, starting, blind, failures>>

HandleEnds ==
  /\ current # <<>> /\ ~Walking
  /\ current' = <<>>
  /\ Notify(current[1])
  /\ UNCHANGED <<tree, changes, overflowed, watched, events, starting, walk,
                 blind, failures>>

-----------------------------------------------------------------------------

Developer == \E d \in Dirs : Save(d) \/ Chmod(d) \/ Mkdir(d) \/ Rmdir(d)

Step ==
  \/ \E r \in Repos : WalkRepo(r)
  \/ \E d \in Dirs : Skip(d) \/ AddWatch(d) \/ AddFails(d)
  \/ ReadDir \/ WalkEnds \/ Handle \/ HandleEnds

WatcherNext == Developer \/ Step

WatcherSpec == WatcherInit /\ [][WatcherNext]_watcherVars

\* Start runs to its end and the goroutine of loop goes on.
FairWatcherSpec == WatcherSpec /\ WF_watcherVars(Step)

-----------------------------------------------------------------------------
(* Properties *)

Blind(d) == \E b \in blind : Below(d, b)

\* Events that are still to be handled, and the one being handled.
Pending == ToSet(events) \cup ToSet(current)

Awaited(d) ==
  \E e \in Pending :
    /\ e.op # "chmod" /\ ~IsIgnored(e.path)
    /\ \E r \in Repos : RepoOf(r, e.path) /\ RepoOf(r, d)

\* addRecursive and handle: a save is followed by onChange of its repository,
\* also in a directory made a moment ago that has no watch yet: an event of the
\* repository is always left to handle.  Except below a directory the kernel
\* refused a watch for, after an overflow, and where isIgnored looks away.
NoLostSave ==
  ~overflowed => \A d \in unseen :
    ~IsIgnored(d) /\ ~Blind(d) /\ (\E r \in Repos : RepoOf(r, d)) => Awaited(d)

\* addRecursive: with nothing left to handle every directory of a repository has
\* a watch, however mkdir and the walk met.
WatchesComplete ==
  starting = {} /\ Pending = {} /\ ~Walking /\ ~overflowed =>
    \A d \in tree :
      ~IsIgnored(d) /\ ~Blind(d) /\ (\E r \in Repos : RepoOf(r, d)) => d \in watched

\* handle: every save comes to onChange.
SavesAreSeen ==
  \A d \in Dirs : d \in unseen ~>
    \/ d \notin unseen
    \/ overflowed \/ IsIgnored(d) \/ Blind(d) \/ ~\E r \in Repos : RepoOf(r, d)

\* watcher.go:3 says it fires on every save: also in a repository that lies
\* below a directory with one of the ignored names.
FiresOnEverySave ==
  ~overflowed => \A d \in unseen :
    \A r \in Repos : RepoOf(r, d) /\ ~SkippedFrom(r, d) /\ ~Blind(d) => Awaited(d)
=============================================================================
