----------------------------- MODULE EventProofs -----------------------------
(***************************************************************************)
(* The two components file events go through, each on its own: Watcher for  *)
(* any directories, repositories, ignored names and length of the kernel's   *)
(* queue, and Debounce for every set of keys and choice of the durations.   *)
(***************************************************************************)
EXTENDS Watcher, Debounce, SequenceTheorems, WellFoundedInduction, TLAPS

Paths == Seq(Names)

-----------------------------------------------------------------------------
(* Paths *)

\* A path is below another one if it begins with its names.
LEMMA BelowIs ==
  ASSUME NEW p \in Paths, NEW q \in Paths
  PROVE  Below(p, q) <=> Len(q) <= Len(p) /\ \A i \in 1..Len(q) : p[i] = q[i]
<1>1. CASE Len(q) <= Len(p)
  <2>1. /\ SubSeq(q, 1, Len(q)) \in Paths /\ Len(SubSeq(q, 1, Len(q))) = Len(q)
        /\ \A i \in 1..Len(q) : SubSeq(q, 1, Len(q))[i] = q[i]
    BY SubSeqProperties DEF Paths
  <2>2. /\ SubSeq(p, 1, Len(q)) \in Paths /\ Len(SubSeq(p, 1, Len(q))) = Len(q)
        /\ \A i \in 1..Len(q) : SubSeq(p, 1, Len(q))[i] = p[i]
    BY <1>1, SubSeqProperties DEF Paths
  <2>3. SubSeq(q, 1, Len(q)) = SubSeq(p, 1, Len(q)) <=> \A i \in 1..Len(q) : p[i] = q[i]
    BY <2>1, <2>2, SeqEqual DEF Paths
  <2> QED
    BY <1>1, <2>3 DEF Below, IsPrefix
<1>2. CASE ~(Len(q) <= Len(p))
  BY <1>2 DEF Below, IsPrefix
<1> QED
  BY <1>1, <1>2

\* Below orders the paths, and those above a path follow one upon the other.
LEMMA BelowOrders ==
  /\ \A p \in Paths : Below(p, p)
  /\ \A p, q, r \in Paths : Below(p, q) /\ Below(q, r) => Below(p, r)
  /\ \A p, q \in Paths : Below(p, q) /\ Below(q, p) => p = q
  /\ \A d, p, q \in Paths : Below(d, p) /\ Below(d, q) /\ Len(q) <= Len(p) => Below(p, q)
<1>0. \A p \in Paths : Len(p) \in Nat
  BY DEF Paths
<1>1. \A p \in Paths : Below(p, p)
  BY <1>0, BelowIs
<1>2. ASSUME NEW p \in Paths, NEW q \in Paths, NEW r \in Paths, Below(p, q), Below(q, r)
      PROVE  Below(p, r)
  BY <1>0, <1>2, BelowIs
<1>3. ASSUME NEW p \in Paths, NEW q \in Paths, Below(p, q), Below(q, p)
      PROVE  p = q
  <2>1. Len(p) = Len(q) /\ \A i \in 1..Len(p) : p[i] = q[i]
    BY <1>0, <1>3, BelowIs
  <2> QED
    BY <2>1, SeqEqual DEF Paths
<1>4. ASSUME NEW d \in Paths, NEW p \in Paths, NEW q \in Paths,
             Below(d, p), Below(d, q), Len(q) <= Len(p)
      PROVE  Below(p, q)
  BY <1>0, <1>4, BelowIs
<1> QED
  BY <1>1, <1>2, <1>3, <1>4

\* The directory a path is in.
LEMMA FrontIs ==
  ASSUME NEW d \in Paths, Len(d) > 1
  PROVE  /\ Front(d) \in Paths /\ Below(d, Front(d)) /\ d # Front(d)
         /\ \A p \in Paths : Below(d, p) /\ p # d => Below(Front(d), p)
<1>0. \A p \in Paths : Len(p) \in Nat
  BY DEF Paths
<1>1. /\ Front(d) \in Paths /\ Len(Front(d)) = Len(d) - 1
      /\ \A i \in 1..(Len(d) - 1) : Front(d)[i] = d[i]
  BY <1>0, SubSeqProperties DEF Paths, Front
<1>2. Below(d, Front(d))
  BY <1>0, <1>1, BelowIs
<1>3. ASSUME NEW p \in Paths, Below(d, p), p # d
      PROVE  Below(Front(d), p)
  <2>1. Len(p) <= Len(d) /\ \A i \in 1..Len(p) : d[i] = p[i]
    BY <1>3, BelowIs
  <2>2. Len(p) # Len(d)
    BY <1>3, <2>1, SeqEqual DEF Paths
  <2>3. Len(p) <= Len(d) - 1
    BY <1>0, <2>1, <2>2
  <2> QED
    BY <1>0, <1>1, <2>1, <2>3, BelowIs
<1> QED
  BY <1>0, <1>1, <1>2, <1>3

\* A file in a directory.
LEMMA FileIs ==
  ASSUME NEW d \in Paths, NEW n \in Names
  PROVE  /\ Append(d, n) \in Paths /\ Below(Append(d, n), d) /\ d # Append(d, n)
         /\ \A p \in Paths : Below(Append(d, n), p) /\ p # Append(d, n) => Below(d, p)
<1> DEFINE f == Append(d, n)
<1>0. \A p \in Paths : Len(p) \in Nat
  BY DEF Paths
<1>1. f \in Paths /\ Len(f) = Len(d) + 1 /\ \A i \in 1..Len(d) : f[i] = d[i]
  BY AppendProperties DEF Paths
<1> HIDE DEF f
<1>2. Below(f, d)
  BY <1>0, <1>1, BelowIs
<1>3. ASSUME NEW p \in Paths, Below(f, p), p # f
      PROVE  Below(d, p)
  <2>1. Len(p) <= Len(d) + 1 /\ \A i \in 1..Len(p) : f[i] = p[i]
    BY <1>1, <1>3, BelowIs
  <2>2. Len(p) # Len(d) + 1
    BY <1>1, <1>3, <2>1, SeqEqual DEF Paths
  <2>3. Len(p) <= Len(d)
    BY <1>0, <2>1, <2>2
  <2> QED
    BY <1>0, <1>1, <2>1, <2>3, BelowIs
<1>4. d # f
  BY <1>0, <1>1
<1> QED
  BY <1>1, <1>2, <1>3, <1>4 DEF f

\* The entry of p on the way to a path d below it.
LEMMA EntryOnTheWay ==
  ASSUME NEW d \in Paths, NEW p \in Paths, Below(d, p), d # p
  PROVE  LET e == SubSeq(d, 1, Len(p) + 1) IN
         /\ Len(p) + 1 \in 1..Len(d)
         /\ e \in Paths /\ Len(e) = Len(p) + 1 /\ Below(e, p) /\ Below(d, e)
<1> DEFINE e == SubSeq(d, 1, Len(p) + 1)
<1>0. \A q \in Paths : Len(q) \in Nat
  BY DEF Paths
<1>1. Len(p) <= Len(d) /\ \A i \in 1..Len(p) : d[i] = p[i]
  BY BelowIs
<1>2. Len(p) # Len(d)
  BY <1>1, SeqEqual DEF Paths
<1>3. Len(p) + 1 \in 1..Len(d)
  BY <1>0, <1>1, <1>2
<1>4. /\ e \in Paths /\ Len(e) = Len(p) + 1
      /\ \A i \in 1..(Len(p) + 1) : e[i] = d[i]
  BY <1>0, <1>3, SubSeqProperties DEF Paths
<1> HIDE DEF e
<1>5. Below(e, p) /\ Below(d, e)
  BY <1>0, <1>1, <1>3, <1>4, BelowIs
<1> QED
  BY <1>3, <1>4, <1>5 DEF e

\* What lies below an ignored directory is ignored, and a path of ignored name is.
LEMMA IgnoredBelow ==
  ASSUME NEW d \in Paths, NEW p \in Paths, Below(d, p)
  PROVE  /\ IsIgnored(p) => IsIgnored(d)
         /\ p # <<>> /\ Name(p) \in IgnoredDirs => IsIgnored(d)
<1>1. Len(p) \in Nat /\ Len(d) \in Nat /\ DOMAIN p = 1..Len(p) /\ DOMAIN d = 1..Len(d)
  BY DEF Paths
<1>2. Len(p) <= Len(d) /\ \A i \in 1..Len(p) : d[i] = p[i]
  BY BelowIs
<1>3. IsIgnored(p) => IsIgnored(d)
  BY <1>1, <1>2 DEF IsIgnored
<1>4. p # <<>> /\ Name(p) \in IgnoredDirs => IsIgnored(p)
  BY <1>1, EmptySeq DEF Paths, Name, Last, IsIgnored
<1> QED
  BY <1>3, <1>4

\* Every set of numbers has a least one.
LEMMA LeastNumber ==
  ASSUME NEW T \in SUBSET Nat, T # {}
  PROVE  \E x \in T : \A y \in T : x <= y
<1> DEFINE R == {ss \in Nat \X Nat : ss[1] < ss[2]}
<1>1. IsWellFoundedOn(R, Nat)
  BY NatLessThanWellFounded DEF OpToRel
<1>2. PICK x \in T : \A y \in T : <<y, x>> \notin R
  <2> HIDE DEF R
  <2> QED
    BY <1>1, WFMin
<1>3. \A y \in T : ~(y < x)
  BY <1>2
<1> QED
  BY <1>3

LEMMA DirsArePaths == Dirs \subseteq Paths /\ <<>> \notin Dirs
  BY DirsAssumption DEF Paths

-----------------------------------------------------------------------------
(* The invariant *)

\* The repositories stay, and a directory is in a directory.
Placed ==
  /\ Repos \subseteq tree
  /\ \A d \in tree : Len(d) > 1 => Front(d) \in tree

\* What a walk has before it lies below its root: a repository that Start walks,
\* or the new directory of the event that handle is at.
Walks ==
  /\ ~Walking => todo = {} /\ reading = <<>>
  /\ \A p \in todo : Below(p, walkRoot)
  /\ reading # <<>> => Below(reading, walkRoot)
  /\ current # <<>> => starting = {} /\ ~IsIgnored(current[1].path)
  /\ Walking /\ starting # {} => walkRoot \in starting /\ current = <<>>
  /\ Walking /\ starting = {} =>
       current # <<>> /\ current[1] = Event(walkRoot, "create")

\* A directory that was made has no repository at it or below it.
Created ==
  \A e \in Pending : e.op = "create" =>
    e.path \in Dirs /\ \A r \in Repos : ~Below(r, e.path)

\* Directories a walk will come to.
OnTheWay(p) ==
  \/ p \in starting \ {walkRoot}
  \/ p \in todo
  \/ reading # <<>> /\ p \in Children(reading)
  \/ Event(p, "create") \in ToSet(events)

Coming(d) == \E p \in Dirs : Below(d, p) /\ OnTheWay(p)

\* Directories the watcher answers for.
Ours(d) == ~IsIgnored(d) /\ \E r \in Repos : RepoOf(r, d)

\* A directory without a watch will be walked: the strengthening of
\* WatchesComplete that every step preserves.
Reached ==
  ~overflowed => \A d \in tree : Ours(d) /\ ~Blind(d) => d \in watched \/ Coming(d)

\* The strengthening of NoLostSave: while Start is at work a save counts only
\* where a watch is, so that there refused watches do not matter.
Kept ==
  ~overflowed => \A d \in unseen :
    Ours(d) /\ (starting # {} \/ ~Blind(d)) => Awaited(d)

WatcherInv == WatcherTypeOK /\ Placed /\ Walks /\ Created /\ Reached /\ Kept

-----------------------------------------------------------------------------
(* The tree and its repositories *)

\* All directories above one that exists exist.
LEMMA TreeClosed ==
  ASSUME NEW T \in SUBSET Dirs, \A d \in T : Len(d) > 1 => Front(d) \in T,
         NEW d \in T, NEW p \in Paths, p # <<>>, Below(d, p)
  PROVE  p \in T
<1> DEFINE L == {n \in Nat : \E x \in T : Below(x, p) /\ Len(x) = n}
<1>0. T \subseteq Paths /\ \A x \in Paths : Len(x) \in Nat
  BY DirsArePaths DEF Paths
<1>1. Len(d) \in L
  BY <1>0
<1>2. PICK n \in L : \A m \in L : n <= m
  <2> HIDE DEF L
  <2>1. L \in SUBSET Nat
    BY DEF L
  <2> QED
    BY <1>1, <2>1, LeastNumber
<1>3. PICK x \in T : Below(x, p) /\ Len(x) = n
  BY <1>2
<1>4. CASE x = p
  BY <1>3, <1>4
<1>5. CASE x # p
  <2>1. Len(p) >= 1 /\ Len(p) <= Len(x) /\ Len(p) # Len(x)
    <3>1. Len(p) <= Len(x) /\ \A i \in 1..Len(p) : x[i] = p[i]
      BY <1>0, <1>3, BelowIs
    <3>2. Len(p) # Len(x)
      BY <1>0, <1>5, <3>1, SeqEqual DEF Paths
    <3>3. Len(p) >= 1
      BY EmptySeq DEF Paths
    <3> QED
      BY <3>1, <3>2, <3>3
  <2>2. Len(x) > 1
    BY <1>0, <2>1
  <2>3. Front(x) \in T /\ Below(Front(x), p)
    BY <1>0, <1>3, <1>5, <2>2, FrontIs
  <2>4. Len(Front(x)) = Len(x) - 1
    BY <1>0, <2>2, SubSeqProperties DEF Front, Paths
  <2>5. Len(Front(x)) \in L
    BY <1>0, <2>3
  <2> QED
    BY <1>0, <1>2, <1>3, <2>4, <2>5
<1> QED
  BY <1>4, <1>5

LEMMA TreeIsClosed ==
  ASSUME WatcherTypeOK, Placed
  PROVE  /\ tree \subseteq Paths /\ Repos \subseteq Paths /\ Repos \subseteq Dirs
         /\ \A d \in tree : \A p \in Paths : p # <<>> /\ Below(d, p) => p \in tree
<1>1. tree \in SUBSET Dirs /\ Repos \subseteq tree
  BY DEF WatcherTypeOK, Placed
<1>2. \A d \in tree : Len(d) > 1 => Front(d) \in tree
  BY DEF Placed
<1>3. ASSUME NEW d \in tree, NEW p \in Paths, p # <<>>, Below(d, p)
      PROVE  p \in tree
  BY <1>1, <1>2, <1>3, TreeClosed
<1> QED
  BY <1>1, <1>3, DirsArePaths

\* A path on the way from a repository to something in it is in it too.
LEMMA SameRepo ==
  ASSUME Repos \subseteq Paths, NEW d \in Paths, NEW p \in Paths, NEW r,
         RepoOf(r, d), Below(d, p), Below(p, r)
  PROVE  RepoOf(r, p)
<1>1. r \in Repos /\ \A q \in Repos : Below(d, q) => Below(r, q)
  BY DEF RepoOf
<1>2. \A q \in Repos : Below(p, q) => Below(d, q)
  BY BelowOrders
<1> QED
  BY <1>1, <1>2 DEF RepoOf

\* A new directory above d: d's repository is its repository.
LEMMA NewIsInside ==
  ASSUME Repos \subseteq Paths, NEW d \in Paths, NEW p \in Paths, NEW r,
         RepoOf(r, d), Below(d, p), \A q \in Repos : ~Below(q, p)
  PROVE  RepoOf(r, p)
<1>1. r \in Repos /\ Below(d, r) /\ ~Below(r, p)
  BY DEF RepoOf
<1>2. Len(r) \in Nat /\ Len(p) \in Nat
  BY <1>1 DEF Paths
<1>3. Below(p, r)
  BY <1>1, <1>2, BelowOrders
<1> QED
  BY <1>3, SameRepo

\* handle's choice of a repository.
LEMMA RepoRootIs ==
  ASSUME Repos \subseteq Paths, NEW p \in Paths, NEW r, RepoOf(r, p)
  PROVE  RepoRootFor(p) = r
<1> DEFINE in == {q \in Repos : Below(p, q)}
<1> DEFINE x == CHOOSE s \in in : \A q \in in : Len(s) >= Len(q)
<1>1. r \in in /\ \A q \in in : Below(r, q)
  BY DEF RepoOf
<1>2. \A q \in in : Len(r) >= Len(q) /\ Len(q) \in Nat
  BY <1>1, BelowIs DEF Paths
<1>3. x \in in /\ \A q \in in : Len(x) >= Len(q)
  BY <1>1, <1>2
<1>4. RepoRootFor(p) = x
  BY <1>1 DEF RepoRootFor
<1> HIDE DEF x
<1>5. Below(r, x)
  BY <1>1, <1>3
<1>6. Below(x, r)
  BY <1>1, <1>2, <1>3, BelowOrders
<1> QED
  BY <1>1, <1>3, <1>4, <1>5, <1>6, BelowOrders

-----------------------------------------------------------------------------
(* The queue *)

LEMMA QueueIs ==
  ASSUME NEW s \in Seq(Events)
  PROVE  /\ ToSet(s) \subseteq Events
         /\ \A e \in Events : ToSet(Append(s, e)) = ToSet(s) \cup {e}
         /\ s # <<>> => /\ Head(s) \in ToSet(s) /\ Tail(s) \in Seq(Events)
                        /\ ToSet(s) = ToSet(Tail(s)) \cup {Head(s)}
<1>1. ToSet(s) \subseteq Events
  BY DEF ToSet
<1>2. ASSUME NEW e \in Events PROVE ToSet(Append(s, e)) = ToSet(s) \cup {e}
  <2> DEFINE t == Append(s, e)
  <2>1. /\ Len(s) \in Nat /\ DOMAIN s = 1..Len(s) /\ DOMAIN t = 1..(Len(s) + 1)
        /\ t[Len(s) + 1] = e /\ \A i \in 1..Len(s) : t[i] = s[i]
    BY AppendProperties
  <2> HIDE DEF t
  <2>2. ToSet(t) = ToSet(s) \cup {e}
    BY <2>1 DEF ToSet
  <2> QED
    BY <2>2 DEF t
<1>3. ASSUME s # <<>>
      PROVE  /\ Head(s) \in ToSet(s) /\ Tail(s) \in Seq(Events)
             /\ ToSet(s) = ToSet(Tail(s)) \cup {Head(s)}
  <2>1. Len(s) \in Nat /\ Len(s) > 0 /\ Head(s) = s[1] /\ DOMAIN s = 1..Len(s)
    BY <1>3, EmptySeq
  <2>2. /\ Tail(s) \in Seq(Events) /\ DOMAIN Tail(s) = 1..(Len(s) - 1)
        /\ \A i \in 1..(Len(s) - 1) : Tail(s)[i] = s[i + 1]
    BY <1>3, HeadTailProperties
  <2>3. ToSet(Tail(s)) \subseteq ToSet(s)
    BY <2>1, <2>2 DEF ToSet
  <2>4. ASSUME NEW i \in 1..Len(s), i # 1 PROVE s[i] \in ToSet(Tail(s))
    BY <2>1, <2>2, <2>4, i - 1 \in 1..(Len(s) - 1), s[i] = Tail(s)[i - 1] DEF ToSet
  <2>5. Head(s) \in ToSet(s)
    BY <2>1 DEF ToSet
  <2>6. ToSet(s) \subseteq ToSet(Tail(s)) \cup {Head(s)}
    BY <2>1, <2>4 DEF ToSet
  <2> QED
    BY <2>2, <2>3, <2>5, <2>6
<1> QED
  BY <1>1, <1>2, <1>3

\* One event more, unless nobody watches or the kernel has no room.
LEMMA RaiseIs ==
  ASSUME events \in Seq(Events), overflowed \in BOOLEAN,
         NEW dir, NEW e \in Events, Raise(dir, e)
  PROVE  /\ events' \in Seq(Events) /\ overflowed' \in BOOLEAN
         /\ overflowed => overflowed'
         /\ ToSet(events) \subseteq ToSet(events')
         /\ ToSet(events') \subseteq ToSet(events) \cup {e}
         /\ ~overflowed' /\ dir \in watched => e \in ToSet(events')
<1>1. CASE events' = events /\ overflowed' = overflowed /\ dir \notin watched
  BY <1>1
<1>2. CASE events' = Append(events, e) /\ overflowed' = overflowed
  BY <1>2, QueueIs
<1>3. CASE overflowed' = TRUE /\ events' = events
  BY <1>3
<1> QED
  BY <1>1, <1>2, <1>3 DEF Raise

LEMMA EventIs ==
  ASSUME NEW d \in Paths, NEW op \in Ops
  PROVE  Event(d, op) \in Events /\ Event(d, op).path = d /\ Event(d, op).op = op
  BY DEF Event, Events, Paths

\* The four events of the developer's changes.
LEMMA ChangeRaises ==
  ASSUME NEW d \in Dirs
  PROVE  /\ Event(Append(d, File), "write") \in Events
         /\ Event(Append(d, File), "chmod") \in Events
         /\ Event(d, "create") \in Events
         /\ Event(d, "remove") \in Events
<1>1. d \in Paths /\ Append(d, File) \in Paths
  BY DirsArePaths, FileAssumption, FileIs
<1> QED
  BY <1>1, EventIs DEF Ops

LEMMA ReposStay == Repos' = Repos /\ Dirs' = Dirs
  BY DEF Repos, Discovered, Below, IsPrefix, SkippedFrom

-----------------------------------------------------------------------------
(* Types *)

LEMMA TypeInit == WatcherInit => WatcherTypeOK /\ Placed
<1> SUFFICES ASSUME WatcherInit PROVE WatcherTypeOK /\ Placed
  OBVIOUS
<1>1. /\ tree \subseteq Dirs /\ Repos \subseteq tree
      /\ \A d \in tree : Len(d) > 1 => Front(d) \in tree
  BY DEF WatcherInit
<1>2. <<>> \in Seq(Events) /\ Len(<<>>) = 0
  BY EmptySeq
<1>3. events \in Seq(Events) /\ current \in Seq(Events) /\ Len(current) <= 1
  BY <1>2 DEF WatcherInit
<1>4. /\ watched \subseteq tree /\ starting \subseteq Repos /\ walkRoot \in Dirs \cup {<<>>}
      /\ todo \subseteq Dirs /\ reading \in Dirs \cup {<<>>} /\ unseen \subseteq tree
      /\ blind \subseteq tree /\ overflowed \in BOOLEAN /\ changes \in Nat /\ failures \in Nat
  BY DEF WatcherInit
<1> QED
  BY <1>1, <1>3, <1>4 DEF WatcherTypeOK, Placed

LEMMA TypeStep ==
  ASSUME WatcherTypeOK, Placed, [WatcherNext]_watcherVars
  PROVE  WatcherTypeOK'
<1>0. Repos \subseteq Dirs /\ <<>> \notin Dirs
  BY TreeIsClosed, DirsArePaths
<1>1. events \in Seq(Events) /\ overflowed \in BOOLEAN /\ tree \subseteq Dirs
  BY DEF WatcherTypeOK
<1> USE ReposStay
<1>2. ASSUME NEW d \in Dirs, Save(d) PROVE WatcherTypeOK'
  BY <1>1, <1>2, RaiseIs, ChangeRaises DEF WatcherTypeOK, Save, Change, walk
<1>3. ASSUME NEW d \in Dirs, Chmod(d) PROVE WatcherTypeOK'
  BY <1>1, <1>3, RaiseIs, ChangeRaises DEF WatcherTypeOK, Chmod, Change, walk
<1>4. ASSUME NEW d \in Dirs, Mkdir(d) PROVE WatcherTypeOK'
  BY <1>1, <1>4, RaiseIs, ChangeRaises DEF WatcherTypeOK, Mkdir, Change, walk
<1>5. ASSUME NEW d \in Dirs, Rmdir(d) PROVE WatcherTypeOK'
  BY <1>1, <1>5, RaiseIs, ChangeRaises DEF WatcherTypeOK, Rmdir, Change, walk
<1>6. ASSUME NEW r \in Repos, WalkRepo(r) PROVE WatcherTypeOK'
  BY <1>0, <1>6 DEF WatcherTypeOK, WalkRepo, StartWalk, env
<1>7. ASSUME NEW d \in Dirs, Skip(d) PROVE WatcherTypeOK'
  BY <1>7 DEF WatcherTypeOK, Skip, env
<1>8. ASSUME NEW d \in Dirs, AddWatch(d) PROVE WatcherTypeOK'
  BY <1>8 DEF WatcherTypeOK, AddWatch, Visited, env
<1>9. ASSUME NEW d \in Dirs, AddFails(d) PROVE WatcherTypeOK'
  BY <1>9 DEF WatcherTypeOK, AddFails, Visited, env
<1>10. CASE ReadDir
  BY <1>10 DEF WatcherTypeOK, ReadDir, Children, env
<1>11. CASE WalkEnds
  BY <1>11 DEF WatcherTypeOK, WalkEnds, env
<1>12. CASE Handle
  <2>1. Head(events) \in Events /\ events' \in Seq(Events)
    BY <1>1, <1>12, QueueIs DEF Handle
  <2>2. current' \in Seq(Events) /\ Len(current') <= 1
    <3> DEFINE one == <<Head(events)>>
    <3>1. one \in Seq(Events) /\ Len(one) <= 1
      BY <2>1
    <3>2. current' = current \/ current' = one
      BY <1>12 DEF Handle
    <3> HIDE DEF one
    <3> QED
      BY <3>1, <3>2 DEF WatcherTypeOK
  <2>3. walkRoot' \in Dirs \cup {<<>>} /\ todo' \subseteq Dirs /\ reading' \in Dirs \cup {<<>>}
    BY <1>1, <1>12 DEF Handle, StartWalk, WatcherTypeOK, walk
  <2> QED
    BY <1>12, <2>1, <2>2, <2>3 DEF WatcherTypeOK, Handle, env
<1>13. CASE HandleEnds
  <2>1. unseen' \subseteq unseen
    BY <1>13 DEF HandleEnds, Notify
  <2> QED
    BY <1>13, <2>1 DEF WatcherTypeOK, HandleEnds, walk
<1>14. CASE UNCHANGED watcherVars
  BY <1>14 DEF WatcherTypeOK, watcherVars, walk
<1> QED
  BY <1>2, <1>3, <1>4, <1>5, <1>6, <1>7, <1>8, <1>9, <1>10, <1>11, <1>12, <1>13, <1>14
     DEF WatcherNext, Developer, Step

-----------------------------------------------------------------------------
(* Where directories, walks and new directories are *)

\* The developer changes nothing of what the watcher is at.
LEMMA DeveloperFrame ==
  ASSUME NEW d \in Dirs, Save(d) \/ Chmod(d) \/ Mkdir(d) \/ Rmdir(d)
  PROVE  /\ starting' = starting /\ current' = current
         /\ walkRoot' = walkRoot /\ todo' = todo /\ reading' = reading
  BY DEF Save, Chmod, Mkdir, Rmdir, Change, walk

\* The watcher changes nothing of the developer's.
LEMMA StepFrame ==
  ASSUME Step
  PROVE  tree' = tree /\ changes' = changes /\ overflowed' = overflowed
  BY DEF Step, WalkRepo, Skip, AddWatch, AddFails, Visited, ReadDir, WalkEnds,
         Handle, HandleEnds, env

LEMMA PlacedStep ==
  ASSUME WatcherTypeOK, Placed, [WatcherNext]_watcherVars
  PROVE  Placed'
<1> USE ReposStay DEF Placed
<1>1. ASSUME NEW d \in Dirs, Save(d) \/ Chmod(d) PROVE Placed'
  BY <1>1 DEF Save, Chmod
<1>2. ASSUME NEW d \in Dirs, Mkdir(d) PROVE Placed'
  BY <1>2 DEF Mkdir
<1>3. ASSUME NEW d \in Dirs, Rmdir(d) PROVE Placed'
  <2>1. tree \subseteq Paths /\ d \in tree /\ tree' = tree \ {d} /\ d \notin Repos
    BY <1>3, TreeIsClosed DEF Rmdir
  <2>2. ASSUME NEW x \in tree, Len(x) > 1 PROVE Front(x) # d
    <3>1. Below(x, Front(x)) /\ Len(Front(x)) = Len(x) - 1 /\ Len(x) \in Nat
      BY <2>1, <2>2, FrontIs, SubSeqProperties DEF Front, Paths
    <3>2. x \notin Children(d)
      BY <1>3 DEF Rmdir
    <3> QED
      BY <3>1, <3>2 DEF Children
  <2> QED
    BY <2>1, <2>2
<1>4. CASE Step
  BY <1>4, StepFrame
<1>5. CASE UNCHANGED watcherVars
  BY <1>5 DEF watcherVars
<1> QED
  BY <1>1, <1>2, <1>3, <1>4, <1>5 DEF WatcherNext, Developer

\* The event that is handled next.
LEMMA HandleIs ==
  ASSUME WatcherTypeOK, Walks, Handle
  PROVE  LET e == Head(events) IN
         /\ e \in Events /\ ToSet(events) = ToSet(events') \cup {e}
         /\ starting = {} /\ ~Walking /\ current = <<>> /\ ToSet(current) = {}
         /\ todo = {} /\ reading = <<>>
         /\ IsIgnored(e.path) =>
              /\ current' = <<>>
              /\ walkRoot' = walkRoot /\ todo' = todo /\ reading' = reading
         /\ ~IsIgnored(e.path) =>
              /\ current' = <<e>> /\ current' # <<>> /\ current'[1] = e
              /\ ToSet(current') = {e}
<1> DEFINE e == Head(events)
<1>1. /\ e \in Events /\ ToSet(events) = ToSet(events') \cup {e}
  BY QueueIs DEF WatcherTypeOK, Handle
<1>2. starting = {} /\ current = <<>>
  BY DEF Handle
<1>3. ~Walking /\ todo = {} /\ reading = <<>>
  BY <1>2 DEF Walks
<1>4. ToSet(current) = {}
  BY <1>2 DEF ToSet
<1>5. IsIgnored(e.path) => /\ current' = <<>>
                           /\ walkRoot' = walkRoot /\ todo' = todo /\ reading' = reading
  BY <1>2 DEF Handle, walk
<1>6. ASSUME ~IsIgnored(e.path)
      PROVE  /\ current' = <<e>> /\ current' # <<>> /\ current'[1] = e
             /\ ToSet(current') = {e}
  <2>1. current' = <<e>>
    BY <1>6 DEF Handle
  <2>2. <<e>> # <<>> /\ <<e>>[1] = e /\ ToSet(<<e>>) = {e}
    BY DEF ToSet
  <2> QED
    BY <2>1, <2>2
<1> QED
  BY <1>1, <1>2, <1>3, <1>4, <1>5, <1>6

\* The event being handled.
LEMMA CurrentIs ==
  ASSUME WatcherTypeOK, current # <<>>
  PROVE  ToSet(current) = {current[1]} /\ current[1] \in Events
<1>1. current \in Seq(Events) /\ Len(current) <= 1
  BY DEF WatcherTypeOK
<1>2. Len(current) \in Nat \ {0}
  BY <1>1, EmptySeq
<1>3. DOMAIN current = {1} /\ current[1] \in Events
  <2>1. Len(current) = 1
    <3>1. \A n \in Nat \ {0} : n <= 1 => n = 1
      OBVIOUS
    <3> QED
      BY <1>1, <1>2, <3>1
  <2>2. DOMAIN current = 1..1
    BY <1>1, <2>1, LenProperties
  <2>3. current[1] \in Events
    BY <1>1, <2>1, ElementOfSeq
  <2> QED
    BY <2>2, <2>3
<1> QED
  BY <1>3 DEF ToSet

LEMMA WalksStep ==
  ASSUME WatcherTypeOK, Placed, Walks, [WatcherNext]_watcherVars
  PROVE  Walks'
<1>0. /\ tree \subseteq Paths /\ Repos \subseteq Paths /\ Dirs \subseteq Paths
      /\ <<>> \notin Dirs /\ Repos \subseteq Dirs /\ starting \subseteq Repos
      /\ tree \subseteq Dirs
  BY TreeIsClosed, DirsArePaths DEF WatcherTypeOK
<1>1. ASSUME NEW d \in Dirs, Save(d) \/ Chmod(d) \/ Mkdir(d) \/ Rmdir(d) PROVE Walks'
  BY <1>1, DeveloperFrame DEF Walks, Walking
<1>2. ASSUME NEW r \in Repos, WalkRepo(r) PROVE Walks'
  <2>1. /\ walkRoot' = r /\ todo' = {r} /\ reading' = <<>> /\ r # <<>> /\ r \in starting
        /\ starting' = starting /\ current' = current
    BY <1>0, <1>2 DEF WalkRepo, StartWalk
  <2> QED
    BY <1>0, <2>1, BelowOrders DEF Walks, Walking
<1>3. ASSUME NEW d \in Dirs, Skip(d) PROVE Walks'
  BY <1>3 DEF Skip, Walks, Walking
<1>4. ASSUME NEW d \in Dirs, Visited(d) PROVE Walks'
  BY <1>4 DEF Visited, Walks, Walking
<1>5. CASE ReadDir
  <2>1. /\ reading \in Paths /\ walkRoot \in Paths /\ Below(reading, walkRoot) /\ Walking
    BY <1>0, <1>5 DEF ReadDir, Walks, Walking, WatcherTypeOK
  <2>2. \A p \in Children(reading) : Below(p, walkRoot)
    BY <1>0, <2>1, BelowOrders DEF Children
  <2> QED
    BY <1>5, <2>1, <2>2 DEF ReadDir, Walks, Walking
<1>6. CASE WalkEnds
  BY <1>6 DEF WalkEnds, Walks, Walking
<1>7. CASE Handle
  <2> DEFINE e == Head(events)
  <2>1. /\ e \in Events /\ starting = {} /\ starting' = {} /\ ~Walking
        /\ current = <<>> /\ todo = {} /\ reading = <<>>
        /\ IsIgnored(e.path) => /\ current' = <<>>
                                /\ walkRoot' = walkRoot /\ todo' = todo /\ reading' = reading
        /\ ~IsIgnored(e.path) => current' # <<>> /\ current'[1] = e
    BY <1>7, HandleIs DEF Handle
  <2>2. CASE IsIgnored(e.path)
    BY <2>1, <2>2 DEF Walks, Walking
  <2>3. CASE ~IsIgnored(e.path) /\ e.op = "create" /\ e.path \in tree
    <3>1. walkRoot' = e.path /\ todo' = {e.path} /\ reading' = <<>>
      BY <1>7, <2>3 DEF Handle, StartWalk
    <3>2. e = Event(e.path, "create")
      BY <2>1, <2>3 DEF Events, Event
    <3>3. Below(e.path, e.path)
      BY <1>0, <2>3, BelowOrders
    <3>4. /\ current' # <<>> /\ current'[1] = Event(walkRoot', "create")
          /\ ~IsIgnored(current'[1].path)
      BY <2>1, <2>3, <3>1, <3>2
    <3>5. \A p \in todo' : Below(p, walkRoot')
      BY <3>1, <3>3
    <3>6. walkRoot' # <<>>
      BY <1>0, <2>3, <3>1
    <3> QED
      BY <2>1, <3>1, <3>4, <3>5, <3>6 DEF Walks, Walking
  <2>4. CASE ~IsIgnored(e.path) /\ ~(e.op = "create" /\ e.path \in tree)
    <3>1. walkRoot' = walkRoot /\ todo' = todo /\ reading' = reading
      BY <1>7, <2>4 DEF Handle, walk
    <3> QED
      BY <2>1, <2>4, <3>1 DEF Walks, Walking
  <2> QED
    BY <2>2, <2>3, <2>4
<1>8. CASE HandleEnds
  BY <1>8 DEF HandleEnds, Walks, Walking, walk
<1>9. CASE UNCHANGED watcherVars
  BY <1>9 DEF watcherVars, walk, Walks, Walking
<1> QED
  BY <1>1, <1>2, <1>3, <1>4, <1>5, <1>6, <1>7, <1>8, <1>9
     DEF WatcherNext, Developer, Step, AddWatch, AddFails

\* A change of the developer takes no event away, and adds one of its own.
LEMMA DeveloperRaises ==
  ASSUME WatcherTypeOK, NEW d \in Dirs, NEW dir, NEW e \in Events, Raise(dir, e),
         current' = current
  PROVE  /\ Pending \subseteq Pending' /\ Pending' \subseteq Pending \cup {e}
         /\ ~overflowed' => ~overflowed
         /\ ~overflowed' /\ dir \in watched => e \in Pending'
<1>1. /\ overflowed => overflowed'
      /\ ToSet(events) \subseteq ToSet(events')
      /\ ToSet(events') \subseteq ToSet(events) \cup {e}
      /\ ~overflowed' /\ dir \in watched => e \in ToSet(events')
  BY RaiseIs DEF WatcherTypeOK
<1> QED
  BY <1>1 DEF Pending

\* The watcher makes no event.
LEMMA StepTakes ==
  ASSUME WatcherTypeOK, Walks, Step
  PROVE  Pending' \subseteq Pending
<1>1. CASE events' = events /\ current' = current
  BY <1>1 DEF Pending
<1>2. CASE Handle
  <2> DEFINE e == Head(events)
  <2>1. ToSet(events) = ToSet(events') \cup {e}
    BY <1>2, HandleIs
  <2>2. ToSet(current') \subseteq {e}
    <3>1. CASE IsIgnored(e.path)
      BY <1>2, <3>1, HandleIs DEF ToSet
    <3>2. CASE ~IsIgnored(e.path)
      BY <1>2, <3>2, HandleIs
    <3> QED
      BY <3>1, <3>2
  <2> QED
    BY <2>1, <2>2 DEF Pending
<1>3. CASE HandleEnds
  <2>1. events' = events /\ current' = <<>>
    BY <1>3 DEF HandleEnds
  <2>2. ToSet(<<>>) = {}
    BY DEF ToSet
  <2> QED
    BY <2>1, <2>2 DEF Pending
<1> QED
  BY <1>1, <1>2, <1>3
     DEF Step, WalkRepo, Skip, AddWatch, AddFails, Visited, ReadDir, WalkEnds

LEMMA CreatedStep ==
  ASSUME WatcherTypeOK, Placed, Walks, Created, [WatcherNext]_watcherVars
  PROVE  Created'
<1> USE ReposStay
<1>1. ASSUME NEW e \in Events, Pending' \subseteq Pending \cup {e},
             e.op = "create" => e.path \in Dirs /\ \A r \in Repos : ~Below(r, e.path)
      PROVE  Created'
  BY <1>1 DEF Created
<1>2. ASSUME NEW d \in Dirs, Save(d) PROVE Created'
  <2> DEFINE e == Event(Append(d, File), "write")
  <2>1. e \in Events /\ e.op = "write"
    BY ChangeRaises DEF Event
  <2>2. Pending' \subseteq Pending \cup {e}
    BY <1>2, <2>1, DeveloperRaises, DeveloperFrame DEF Save
  <2> HIDE DEF e
  <2> QED
    BY <1>1, <2>1, <2>2
<1>3. ASSUME NEW d \in Dirs, Chmod(d) PROVE Created'
  <2> DEFINE e == Event(Append(d, File), "chmod")
  <2>1. e \in Events /\ e.op = "chmod"
    BY ChangeRaises DEF Event
  <2>2. Pending' \subseteq Pending \cup {e}
    BY <1>3, <2>1, DeveloperRaises, DeveloperFrame DEF Chmod
  <2> HIDE DEF e
  <2> QED
    BY <1>1, <2>1, <2>2
<1>4. ASSUME NEW d \in Dirs, Mkdir(d) PROVE Created'
  <2> DEFINE e == Event(d, "create")
  <2>1. e \in Events /\ e.path = d
    BY ChangeRaises DEF Event
  <2>2. Pending' \subseteq Pending \cup {e}
    BY <1>4, <2>1, DeveloperRaises, DeveloperFrame DEF Mkdir
  <2>3. d \notin tree /\ d \in Paths /\ d # <<>>
    BY <1>4, DirsArePaths DEF Mkdir
  <2>4. \A r \in Repos : ~Below(r, d)
    BY <2>3, TreeIsClosed DEF Placed
  <2> HIDE DEF e
  <2> QED
    BY <1>1, <2>1, <2>2, <2>4
<1>5. ASSUME NEW d \in Dirs, Rmdir(d) PROVE Created'
  <2> DEFINE e == Event(d, "remove")
  <2>1. e \in Events /\ e.op = "remove"
    BY ChangeRaises DEF Event
  <2>2. Pending' \subseteq Pending \cup {e}
    BY <1>5, <2>1, DeveloperRaises, DeveloperFrame DEF Rmdir
  <2> HIDE DEF e
  <2> QED
    BY <1>1, <2>1, <2>2
<1>6. CASE Step
  BY <1>6, StepTakes DEF Created
<1>7. CASE UNCHANGED watcherVars
  BY <1>7 DEF watcherVars, Created, Pending
<1> QED
  BY <1>2, <1>3, <1>4, <1>5, <1>6, <1>7 DEF WatcherNext, Developer

-----------------------------------------------------------------------------
(* What is coming, what is awaited *)

LEMMA BlindIs ==
  ASSUME NEW d \in Paths, NEW p \in Paths, Below(d, p), tree \subseteq Paths, WatcherTypeOK
  PROVE  Blind(p) => Blind(d)
  BY BelowOrders DEF Blind, WatcherTypeOK

\* An event at p, of the repository of d or of a directory above d.
LEMMA AwaitedBy ==
  ASSUME WatcherTypeOK, Placed, Created, NEW d \in Paths, NEW p \in Paths, Ours(d), Below(d, p),
         Event(p, "create") \in Pending
  PROVE  Awaited(d)
<1> DEFINE e == Event(p, "create")
<1>1. e.path = p /\ e.op = "create"
  BY DEF Event
<1>2. \A r \in Repos : ~Below(r, p)
  BY <1>1 DEF Created
<1>3. ~IsIgnored(p)
  BY IgnoredBelow DEF Ours
<1>4. PICK r \in Repos : RepoOf(r, d)
  BY DEF Ours
<1>5. RepoOf(r, p)
  BY <1>2, <1>4, TreeIsClosed, NewIsInside
<1> HIDE DEF e
<1>6. e \in Pending
  BY DEF e
<1> QED
  BY <1>1, <1>3, <1>4, <1>5, <1>6 DEF Awaited

\* While handle walks a new directory, it is still to call onChange.
LEMMA WalkAwaits ==
  ASSUME WatcherTypeOK, Placed, Walks, Created, starting = {}, Walking,
         NEW d \in Paths, Ours(d), Below(d, walkRoot)
  PROVE  Awaited(d)
<1>1. current # <<>> /\ current[1] = Event(walkRoot, "create")
  BY DEF Walks
<1>2. Event(walkRoot, "create") \in Pending
  BY <1>1, CurrentIs DEF Pending
<1>3. walkRoot \in Paths
  BY DirsArePaths DEF WatcherTypeOK, Walking
<1> QED
  BY <1>2, <1>3, AwaitedBy

\* After Start the walk that will come to a directory is followed by onChange.
LEMMA ComingIsAwaited ==
  ASSUME WatcherTypeOK, Placed, Walks, Created, starting = {}, NEW d \in Paths, Ours(d), Coming(d)
  PROVE  Awaited(d)
<1>1. PICK p \in Dirs : Below(d, p) /\ OnTheWay(p)
  BY DEF Coming
<1>2. p \in Paths /\ tree \subseteq Paths
  BY DirsArePaths, TreeIsClosed
<1>3. CASE Event(p, "create") \in ToSet(events)
  BY <1>1, <1>2, <1>3, AwaitedBy DEF Pending
<1>4. CASE p \in todo \/ (reading # <<>> /\ p \in Children(reading))
  <2>1. Walking /\ walkRoot \in Paths
    BY <1>4, DirsArePaths DEF Walks, Walking, WatcherTypeOK
  <2>2. Below(p, walkRoot)
    <3>1. CASE p \in todo
      BY <3>1 DEF Walks
    <3>2. CASE reading # <<>> /\ p \in Children(reading)
      <4>1. Below(reading, walkRoot) /\ reading \in Paths /\ Below(p, reading)
        BY <3>2, DirsArePaths DEF Walks, WatcherTypeOK, Children
      <4> QED
        BY <1>2, <2>1, <4>1, BelowOrders
    <3> QED
      BY <1>4, <3>1, <3>2
  <2>3. Below(d, walkRoot)
    BY <1>1, <1>2, <2>1, <2>2, BelowOrders
  <2> QED
    BY <2>1, <2>3, WalkAwaits
<1> QED
  BY <1>1, <1>3, <1>4 DEF OnTheWay

-----------------------------------------------------------------------------
(* Reached *)

LEMMA OursStays == \A d : Ours(d)' <=> Ours(d)
  BY ReposStay DEF Ours, RepoOf

\* What is left to show of a step: of a directory that was reached, or is new.
LEMMA ReachedBy ==
  ASSUME Reached, overflowed => overflowed',
         \A d \in tree' : Ours(d) /\ ~Blind(d)' /\ ~overflowed' =>
           \/ /\ d \in tree /\ ~Blind(d)
              /\ d \in watched => d \in watched' \/ Coming(d)'
              /\ Coming(d) => d \in watched' \/ Coming(d)'
           \/ d \in watched' \/ Coming(d)'
  PROVE  Reached'
  BY OursStays DEF Reached

LEMMA ReachedMkdir ==
  ASSUME WatcherTypeOK, Placed, Reached, NEW d \in Dirs, Mkdir(d)
  PROVE  Reached'
<1> USE ReposStay
<1> DEFINE e == Event(d, "create")
<1>1. /\ tree \subseteq Paths /\ Repos \subseteq Paths /\ Dirs \subseteq Paths
      /\ d \notin tree /\ Front(d) \in tree /\ tree' = tree \cup {d}
      /\ watched' = watched /\ blind' = blind /\ Repos \subseteq tree /\ blind \subseteq tree
  BY TreeIsClosed, DirsArePaths DEF Mkdir, Placed, WatcherTypeOK
<1>2. /\ (overflowed => overflowed')
      /\ ToSet(events) \subseteq ToSet(events')
      /\ ~overflowed' /\ Front(d) \in watched => e \in ToSet(events')
  BY RaiseIs, ChangeRaises DEF Mkdir, WatcherTypeOK
<1>3. ASSUME NEW p \in Dirs, OnTheWay(p) PROVE OnTheWay(p)'
  <2>1. p \in tree => p \in tree'
    BY <1>1
  <2>2. starting' = starting /\ walkRoot' = walkRoot /\ todo' = todo /\ reading' = reading
    BY DeveloperFrame
  <2>3. CASE p \in starting \ {walkRoot} \/ p \in todo
    BY <2>2, <2>3 DEF OnTheWay
  <2>4. CASE reading # <<>> /\ p \in Children(reading)
    BY <2>1, <2>2, <2>4 DEF OnTheWay, Children
  <2>5. CASE Event(p, "create") \in ToSet(events)
    BY <1>2, <2>5 DEF OnTheWay, Event
  <2> QED
    BY <1>3, <2>3, <2>4, <2>5 DEF OnTheWay
<1>4. \A x \in tree' : Blind(x)' <=> Blind(x)
  BY <1>1 DEF Blind
<1>5. \A x \in tree : Coming(x) => Coming(x)'
  BY <1>3 DEF Coming
<1>6. ASSUME Ours(d), ~Blind(d), ~overflowed' PROVE Coming(d)'
  <2> DEFINE f == Front(d)
  <2>1. Len(d) > 1
    <3>1. Len(d) \in Nat /\ Len(d) # 0
      BY <1>1, EmptySeq, DirsArePaths DEF Paths
    <3>2. Len(d) # 1
      <4>1. f # <<>>
        BY <1>1, DirsArePaths DEF WatcherTypeOK
      <4>2. Len(d) = 1 => f = <<>>
        <5>1. Len(d) = 1 => f = SubSeq(d, 1, 0)
          BY DEF Front
        <5> QED
          BY <5>1, SubSeqEmpty
      <4> QED
        BY <4>1, <4>2
    <3>3. \A n \in Nat : n # 0 /\ n # 1 => n > 1
      OBVIOUS
    <3> QED
      BY <3>1, <3>2, <3>3
  <2>2. /\ f \in Paths /\ f \in tree /\ Below(d, f)
        /\ \A p \in Paths : Below(d, p) /\ p # d => Below(f, p)
    BY <1>1, <2>1, FrontIs
  <2> HIDE DEF f
  <2>3. ~Blind(f)
    BY <1>1, <1>6, <2>2, BlindIs
  <2>4. Ours(f)
    <3>1. PICK r \in Repos : RepoOf(r, d)
      BY <1>6 DEF Ours
    <3>2. RepoOf(r, f)
      BY <1>1, <2>2, <3>1, SameRepo DEF RepoOf
    <3>3. ~IsIgnored(f)
      BY <1>1, <1>6, <2>2, IgnoredBelow DEF Ours
    <3> QED
      BY <3>2, <3>3 DEF Ours
  <2>5. CASE f \in watched
    <3>1. e \in ToSet(events')
      BY <1>2, <1>6, <2>5 DEF f
    <3>2. Below(d, d)
      BY <1>1, BelowOrders
    <3> QED
      BY <3>1, <3>2 DEF Coming, OnTheWay
  <2>6. CASE f \notin watched
    <3>1. Coming(f)
      BY <1>2, <1>6, <2>2, <2>3, <2>4, <2>6 DEF Reached
    <3>2. PICK p \in Dirs : Below(f, p) /\ OnTheWay(p)
      BY <3>1 DEF Coming
    <3>3. Below(d, p)
      BY <1>1, <2>2, <3>2, BelowOrders
    <3> QED
      BY <1>3, <3>2, <3>3 DEF Coming
  <2> QED
    BY <2>5, <2>6
<1> QED
  BY <1>1, <1>2, <1>4, <1>5, <1>6, ReachedBy

\* Nothing lies below a directory that was removed, and nothing above it goes.
LEMMA RmdirIs ==
  ASSUME WatcherTypeOK, Placed, NEW d \in Dirs, Rmdir(d)
  PROVE  /\ tree' = tree \ {d} /\ watched' = watched \ {d} /\ blind' = blind \ {d}
         /\ unseen' = unseen \ {d}
         /\ \A x \in tree' : ~Below(x, d) /\ (Blind(x)' <=> Blind(x))
<1>1. /\ tree' = tree \ {d} /\ watched' = watched \ {d} /\ blind' = blind \ {d}
      /\ unseen' = unseen \ {d} /\ Children(d) = {}
  BY DEF Rmdir
<1>2. tree \subseteq Paths /\ d \in Paths
  BY TreeIsClosed, DirsArePaths
<1>3. ASSUME NEW x \in tree', Below(x, d) PROVE FALSE
  <2> DEFINE e == SubSeq(x, 1, Len(d) + 1)
  <2>1. /\ e \in Paths /\ Len(e) = Len(d) + 1 /\ Below(e, d) /\ Below(x, e)
    BY <1>1, <1>2, <1>3, EntryOnTheWay
  <2> HIDE DEF e
  <2>2. e # <<>>
    BY <1>2, <2>1, EmptySeq DEF Paths
  <2>3. e \in tree
    BY <1>1, <2>1, <2>2, TreeIsClosed
  <2> QED
    BY <1>1, <2>1, <2>3 DEF Children
<1>4. \A x \in tree' : Blind(x)' <=> Blind(x)
  BY <1>1, <1>3 DEF Blind
<1> QED
  BY <1>1, <1>3, <1>4

LEMMA ReachedRmdir ==
  ASSUME WatcherTypeOK, Placed, Reached, NEW d \in Dirs, Rmdir(d)
  PROVE  Reached'
<1>1. /\ (overflowed => overflowed')
      /\ ToSet(events) \subseteq ToSet(events')
  BY RaiseIs, ChangeRaises DEF Rmdir, WatcherTypeOK
<1>2. ASSUME NEW p \in Dirs, p # d, OnTheWay(p) PROVE OnTheWay(p)'
  <2>1. p \in tree => p \in tree'
    BY <1>2, RmdirIs
  <2>2. starting' = starting /\ walkRoot' = walkRoot /\ todo' = todo /\ reading' = reading
    BY DeveloperFrame
  <2>3. CASE p \in starting \ {walkRoot} \/ p \in todo
    BY <2>2, <2>3 DEF OnTheWay
  <2>4. CASE reading # <<>> /\ p \in Children(reading)
    BY <2>1, <2>2, <2>4 DEF OnTheWay, Children
  <2>5. CASE Event(p, "create") \in ToSet(events)
    BY <1>1, <2>5 DEF OnTheWay, Event
  <2> QED
    BY <1>2, <2>3, <2>4, <2>5 DEF OnTheWay
<1>3. \A x \in tree' : Coming(x) => Coming(x)'
  BY <1>2, RmdirIs DEF Coming
<1>4. \A x \in tree' : x \in tree /\ (x \in watched => x \in watched')
  BY RmdirIs
<1> QED
  BY <1>1, <1>3, <1>4, RmdirIs, ReachedBy

LEMMA ReachedVisit ==
  ASSUME WatcherTypeOK, Placed, Walks, Reached, NEW d \in Dirs, AddWatch(d) \/ AddFails(d)
  PROVE  Reached'
<1> USE ReposStay
<1>1. /\ reading = <<>> /\ d \in todo /\ d \in tree
      /\ todo' = todo \ {d} /\ reading' = d /\ tree' = tree /\ events' = events
      /\ starting' = starting /\ walkRoot' = walkRoot /\ overflowed' = overflowed
  BY DEF AddWatch, AddFails, Visited, env
<1>2. tree \subseteq Paths /\ d \in Paths /\ d # <<>> /\ tree \subseteq Dirs
  BY TreeIsClosed, DirsArePaths DEF WatcherTypeOK
<1>3. \A p \in Dirs : p # d /\ OnTheWay(p) => OnTheWay(p)'
  BY <1>1 DEF OnTheWay
<1>4. ASSUME NEW x \in tree, Below(x, d), x # d PROVE Coming(x)'
  <2> DEFINE e == SubSeq(x, 1, Len(d) + 1)
  <2>1. /\ e \in Paths /\ Len(e) = Len(d) + 1 /\ Below(e, d) /\ Below(x, e)
    BY <1>2, <1>4, EntryOnTheWay
  <2> HIDE DEF e
  <2>2. e # <<>>
    BY <1>2, <2>1, EmptySeq DEF Paths
  <2>3. e \in tree
    BY <2>1, <2>2, TreeIsClosed
  <2>4. OnTheWay(e)'
    BY <1>1, <1>2, <2>1, <2>3 DEF OnTheWay, Children
  <2> QED
    BY <1>2, <2>1, <2>3, <2>4 DEF Coming
<1>5. ASSUME NEW x \in tree, ~Below(x, d), Coming(x) PROVE Coming(x)'
  BY <1>3, <1>5 DEF Coming
<1>6. CASE AddWatch(d)
  <2>1. watched' = watched \cup {d} /\ blind' = blind \ {d}
    BY <1>6 DEF AddWatch
  <2>2. \A x \in tree : ~Below(x, d) /\ ~Blind(x)' => ~Blind(x)
    BY <2>1 DEF Blind
  <2> QED
    BY <1>1, <1>4, <1>5, <2>1, <2>2, ReachedBy
<1>7. CASE AddFails(d)
  <2>1. watched' = watched /\ blind' = blind \cup {d}
    BY <1>7 DEF AddFails
  <2>2. \A x \in tree : ~Blind(x)' => ~Blind(x) /\ ~Below(x, d)
    BY <2>1 DEF Blind
  <2> QED
    BY <1>1, <1>5, <2>1, <2>2, ReachedBy
<1> QED
  BY <1>6, <1>7

LEMMA ReachedSkip ==
  ASSUME WatcherTypeOK, Placed, Reached, NEW d \in Dirs, Skip(d)
  PROVE  Reached'
<1> USE ReposStay
<1>1. /\ todo' = todo \ {d} /\ reading' = reading /\ tree' = tree /\ events' = events
      /\ starting' = starting /\ walkRoot' = walkRoot /\ overflowed' = overflowed
      /\ watched' = watched /\ blind' = blind
      /\ d \notin tree \/ Name(d) \in IgnoredDirs
  BY DEF Skip, env
<1>2. tree \subseteq Paths /\ d \in Paths /\ d # <<>>
  BY TreeIsClosed, DirsArePaths
<1>3. \A p \in Dirs : p # d /\ OnTheWay(p) => OnTheWay(p)'
  BY <1>1 DEF OnTheWay, Children
<1>4. ASSUME NEW x \in tree, Ours(x) PROVE ~Below(x, d)
  BY <1>1, <1>2, <1>4, TreeIsClosed, IgnoredBelow DEF Ours
<1>5. \A x \in tree : Ours(x) /\ Coming(x) => Coming(x)'
  BY <1>3, <1>4 DEF Coming
<1>6. \A x \in tree : Blind(x)' <=> Blind(x)
  BY <1>1 DEF Blind
<1> QED
  BY <1>1, <1>5, <1>6, ReachedBy

LEMMA ReachedHandle ==
  ASSUME WatcherTypeOK, Placed, Walks, Reached, Handle
  PROVE  Reached'
<1> USE ReposStay
<1> DEFINE e == Head(events)
<1>1. /\ tree' = tree /\ overflowed' = overflowed /\ watched' = watched /\ blind' = blind
  BY DEF Handle, env
<1>2. /\ ToSet(events) = ToSet(events') \cup {e}
      /\ starting = {} /\ todo = {} /\ reading = <<>>
  BY HandleIs
<1>3. tree \subseteq Paths /\ Dirs \subseteq Paths /\ <<>> \notin Dirs
  BY TreeIsClosed, DirsArePaths
<1>4. ~IsIgnored(e.path) /\ e.op = "create" /\ e.path \in tree => todo' = {e.path}
  BY DEF Handle, StartWalk
<1> HIDE DEF e
<1>5. ASSUME NEW x \in tree, Ours(x), Coming(x) PROVE Coming(x)'
  <2>1. PICK p \in Dirs : Below(x, p) /\ OnTheWay(p)
    BY <1>5 DEF Coming
  <2>2. Event(p, "create") \in ToSet(events)
    BY <1>2, <2>1 DEF OnTheWay
  <2>3. CASE Event(p, "create") \in ToSet(events')
    <3>1. OnTheWay(p)'
      BY <2>3 DEF OnTheWay, Event
    <3> QED
      BY <2>1, <3>1 DEF Coming
  <2>4. CASE Event(p, "create") = e
    <3>1. e.path = p /\ e.op = "create"
      BY <2>4 DEF Event
    <3>2. p \in tree /\ ~IsIgnored(p)
      BY <1>3, <1>5, <2>1, TreeIsClosed, IgnoredBelow DEF Ours
    <3>3. p \in todo'
      BY <1>4, <3>1, <3>2
    <3>4. OnTheWay(p)'
      BY <3>3 DEF OnTheWay
    <3> QED
      BY <2>1, <3>4 DEF Coming
  <2> QED
    BY <1>2, <2>2, <2>3, <2>4
<1>6. \A x \in tree : Blind(x)' <=> Blind(x)
  BY <1>1 DEF Blind
<1> QED
  BY <1>1, <1>5, <1>6, ReachedBy

LEMMA ReachedStep ==
  ASSUME WatcherTypeOK, Placed, Walks, Reached, [WatcherNext]_watcherVars
  PROVE  Reached'
<1> USE ReposStay
<1>0. ASSUME overflowed' = overflowed, tree' = tree, watched' = watched, blind' = blind,
             \A p \in Dirs : OnTheWay(p) => OnTheWay(p)'
      PROVE  Reached'
  <2>1. \A x \in tree : Coming(x) => Coming(x)'
    BY <1>0 DEF Coming
  <2>2. \A x \in tree : Blind(x)' <=> Blind(x)
    BY <1>0 DEF Blind
  <2> QED
    BY <1>0, <2>1, <2>2, ReachedBy
<1>1. ASSUME NEW d \in Dirs, Save(d) \/ Chmod(d) PROVE Reached'
  <2>1. /\ (overflowed => overflowed')
        /\ ToSet(events) \subseteq ToSet(events')
    BY <1>1, RaiseIs, ChangeRaises DEF Save, Chmod, WatcherTypeOK
  <2>2. tree' = tree /\ watched' = watched /\ blind' = blind
    BY <1>1 DEF Save, Chmod
  <2>3. starting' = starting /\ walkRoot' = walkRoot /\ todo' = todo /\ reading' = reading
    BY <1>1, DeveloperFrame
  <2>4. \A p \in Dirs : OnTheWay(p) => OnTheWay(p)'
    BY <2>1, <2>2, <2>3 DEF OnTheWay, Children, Event
  <2>5. \A x \in tree : Coming(x) => Coming(x)'
    BY <2>4 DEF Coming
  <2>6. \A x \in tree : Blind(x)' <=> Blind(x)
    BY <2>2 DEF Blind
  <2> QED
    BY <2>1, <2>2, <2>5, <2>6, ReachedBy
<1>2. ASSUME NEW r \in Repos, WalkRepo(r) PROVE Reached'
  <2>1. ~Walking /\ todo = {} /\ reading = <<>>
    BY <1>2 DEF WalkRepo, Walks
  <2>2. todo' = {r} /\ walkRoot' = r /\ reading' = <<>> /\ starting' = starting
    BY <1>2 DEF WalkRepo, StartWalk
  <2>3. tree' = tree /\ events' = events /\ overflowed' = overflowed
        /\ watched' = watched /\ blind' = blind
    BY <1>2 DEF WalkRepo, env
  <2>4. \A p \in Dirs : OnTheWay(p) => OnTheWay(p)'
    BY <2>1, <2>2, <2>3 DEF OnTheWay, Event
  <2> QED
    BY <1>0, <2>3, <2>4
<1>3. CASE ReadDir
  <2>1. /\ reading' = <<>> /\ todo' = todo \cup Children(reading)
        /\ walkRoot' = walkRoot /\ starting' = starting
        /\ tree' = tree /\ events' = events /\ overflowed' = overflowed
        /\ watched' = watched /\ blind' = blind
    BY <1>3 DEF ReadDir, env
  <2>2. \A p \in Dirs : OnTheWay(p) => OnTheWay(p)'
    BY <2>1 DEF OnTheWay, Event
  <2> QED
    BY <1>0, <2>1, <2>2
<1>4. CASE WalkEnds
  <2>1. /\ reading' = reading /\ todo' = todo /\ reading = <<>> /\ walkRoot' = <<>>
        /\ starting' = starting \ {walkRoot}
        /\ tree' = tree /\ events' = events /\ overflowed' = overflowed
        /\ watched' = watched /\ blind' = blind
    BY <1>4 DEF WalkEnds, env
  <2>2. \A p \in Dirs : OnTheWay(p) => OnTheWay(p)'
    BY <2>1, DirsArePaths DEF OnTheWay, Event
  <2> QED
    BY <1>0, <2>1, <2>2
<1>5. CASE HandleEnds
  <2>1. /\ reading' = reading /\ todo' = todo /\ walkRoot' = walkRoot
        /\ starting' = starting
        /\ tree' = tree /\ events' = events /\ overflowed' = overflowed
        /\ watched' = watched /\ blind' = blind
    BY <1>5 DEF HandleEnds, walk
  <2>2. \A p \in Dirs : OnTheWay(p) => OnTheWay(p)'
    BY <2>1 DEF OnTheWay, Event, Children
  <2> QED
    BY <1>0, <2>1, <2>2
<1>6. CASE UNCHANGED watcherVars
  BY <1>6, <1>0 DEF watcherVars, walk, OnTheWay, Event, Children
<1> QED
  BY <1>1, <1>2, <1>3, <1>4, <1>5, <1>6, ReachedMkdir, ReachedRmdir, ReachedSkip,
     ReachedVisit, ReachedHandle DEF WatcherNext, Developer, Step

-----------------------------------------------------------------------------
(* Kept *)

LEMMA AwaitedStays ==
  ASSUME Pending \subseteq Pending'
  PROVE  \A d : Awaited(d) => Awaited(d)'
  BY ReposStay DEF Awaited, RepoOf

\* What is left to show of a step: of a save that was not seen, or is new.
LEMMA KeptBy ==
  ASSUME Kept, overflowed => overflowed',
         \A d \in unseen' :
           Ours(d) /\ ~overflowed' /\ (starting' # {} \/ ~Blind(d)') =>
             \/ /\ d \in unseen /\ (starting # {} \/ ~Blind(d))
                /\ Awaited(d) => Awaited(d)'
             \/ Awaited(d)'
  PROVE  Kept'
  BY OursStays DEF Kept

\* A file in a directory the watcher answers for is of the same repository.
LEMMA FileIsOurs ==
  ASSUME Repos \subseteq Dirs, NEW d \in Dirs, Ours(d)
  PROVE  /\ ~IsIgnored(Append(d, File))
         /\ \E r \in Repos : RepoOf(r, Append(d, File)) /\ RepoOf(r, d)
<1> DEFINE f == Append(d, File)
<1>1. d \in Paths /\ Repos \subseteq Paths
  BY DirsArePaths
<1>2. /\ f \in Paths /\ Below(f, d) /\ \A p \in Paths : Below(f, p) /\ p # f => Below(d, p)
  BY <1>1, FileAssumption, FileIs
<1>3. f \notin Dirs
  BY <1>1, FileAssumption
<1>4. ~IsIgnored(f)
  <2>1. /\ DOMAIN f = 1..(Len(d) + 1) /\ f[Len(d) + 1] = File /\ Len(d) \in Nat
        /\ DOMAIN d = 1..Len(d) /\ \A i \in 1..Len(d) : f[i] = d[i]
    BY <1>1, FileAssumption, AppendProperties DEF Paths
  <2> HIDE DEF f
  <2>2. \A i \in DOMAIN d : d[i] \notin IgnoredDirs
    BY DEF Ours, IsIgnored
  <2> QED
    BY <2>1, <2>2, FileAssumption DEF IsIgnored
<1> HIDE DEF f
<1>5. PICK r \in Repos : RepoOf(r, d)
  BY DEF Ours
<1>6. RepoOf(r, f)
  <2>1. Below(f, r)
    BY <1>1, <1>2, <1>5, BelowOrders DEF RepoOf
  <2>2. \A q \in Repos : Below(f, q) => Below(d, q)
    BY <1>1, <1>2, <1>3
  <2> QED
    BY <1>5, <2>1, <2>2 DEF RepoOf
<1> QED
  BY <1>4, <1>5, <1>6 DEF f

LEMMA KeptSave ==
  ASSUME WatcherInv, NEW d \in Dirs, Save(d)
  PROVE  Kept'
<1> USE DEF WatcherInv
<1> DEFINE e == Event(Append(d, File), "write")
<1>1. /\ d \in tree /\ tree' = tree /\ watched' = watched /\ blind' = blind
      /\ starting' = starting /\ tree \subseteq Paths
      /\ unseen' = IF starting = {} \/ d \in watched THEN unseen \cup {d} ELSE unseen
  BY DeveloperFrame, TreeIsClosed DEF Save
<1>2. /\ Pending \subseteq Pending' /\ (overflowed => overflowed')
      /\ ~overflowed' /\ d \in watched => e \in Pending'
  BY ChangeRaises, DeveloperRaises, DeveloperFrame DEF Save
<1>3. \A x : Awaited(x) => Awaited(x)'
  BY <1>2, AwaitedStays
<1>4. \A x : Blind(x)' <=> Blind(x)
  BY <1>1 DEF Blind
<1>5. ASSUME Ours(d), ~overflowed', d \in unseen', d \notin unseen, starting # {} \/ ~Blind(d)
      PROVE  Awaited(d)'
  <2>1. CASE d \in watched
    <3>1. e \in Pending' /\ e.op # "chmod" /\ e.path = Append(d, File)
      BY <1>2, <1>5, <2>1 DEF Event
    <3>2. /\ ~IsIgnored(e.path)
          /\ \E r \in Repos : RepoOf(r, e.path) /\ RepoOf(r, d)
      BY <1>5, <3>1, FileIsOurs, TreeIsClosed
    <3> HIDE DEF e
    <3> QED
      BY <3>1, <3>2, ReposStay DEF Awaited, RepoOf
  <2>2. CASE d \notin watched
    <3>1. starting = {} /\ ~Blind(d)
      BY <1>1, <1>5, <2>2
    <3>2. Coming(d)
      BY <1>1, <1>2, <1>5, <2>2, <3>1 DEF Reached
    <3>3. Awaited(d)
      BY <1>1, <1>5, <3>1, <3>2, ComingIsAwaited
    <3> QED
      BY <1>3, <3>3
  <2> QED
    BY <2>1, <2>2
<1>6. \A x \in unseen' : x \in unseen \/ x = d
  BY <1>1
<1> QED
  BY <1>1, <1>2, <1>3, <1>4, <1>5, <1>6, KeptBy

LEMMA KeptVisit ==
  ASSUME WatcherInv, NEW d \in Dirs, AddWatch(d) \/ AddFails(d)
  PROVE  Kept'
<1> USE DEF WatcherInv
<1>1. /\ d \in todo /\ d \in tree
      /\ unseen' = unseen /\ events' = events /\ current' = current
      /\ starting' = starting /\ overflowed' = overflowed
  BY DEF AddWatch, AddFails, Visited, env
<1>2. /\ tree \subseteq Paths /\ d \in Paths /\ unseen \subseteq tree
  BY TreeIsClosed, DirsArePaths DEF WatcherTypeOK
<1>3. \A x : Awaited(x) => Awaited(x)'
  BY <1>1, AwaitedStays DEF Pending
<1>4. CASE AddFails(d)
  <2>1. \A x : Blind(x) => Blind(x)'
    BY <1>4 DEF AddFails, Blind
  <2> QED
    BY <1>1, <1>3, <2>1, KeptBy
<1>5. CASE AddWatch(d)
  <2>1. ASSUME NEW x \in unseen, Ours(x), starting = {}, Blind(x), ~Blind(x)'
        PROVE  Awaited(x)'
    <3>1. Below(x, d)
      BY <1>5, <2>1 DEF AddWatch, Blind
    <3>2. Walking /\ Below(d, walkRoot) /\ walkRoot \in Paths
      BY <1>1, DirsArePaths DEF Walks, Walking, WatcherTypeOK
    <3>3. Below(x, walkRoot)
      BY <1>2, <3>1, <3>2, BelowOrders
    <3>4. Awaited(x)
      BY <1>2, <2>1, <3>2, <3>3, WalkAwaits
    <3> QED
      BY <1>3, <3>4
  <2> QED
    BY <1>1, <1>3, <2>1, KeptBy
<1> QED
  BY <1>4, <1>5

LEMMA KeptHandle ==
  ASSUME WatcherInv, Handle
  PROVE  Kept'
<1> USE DEF WatcherInv
<1> DEFINE e == Head(events)
<1>1. /\ unseen' = unseen /\ starting' = starting /\ overflowed' = overflowed /\ blind' = blind
  BY DEF Handle, env
<1>2. /\ ToSet(events) = ToSet(events') \cup {e} /\ ToSet(current) = {}
      /\ ~IsIgnored(e.path) => ToSet(current') = {e}
  BY HandleIs
<1> HIDE DEF e
<1>3. \A x \in Pending : ~IsIgnored(x.path) => x \in Pending'
  BY <1>2 DEF Pending
<1>4. \A d : Awaited(d) => Awaited(d)'
  BY <1>3, ReposStay DEF Awaited, RepoOf
<1>5. \A d : Blind(d) => Blind(d)'
  BY <1>1 DEF Blind
<1> QED
  BY <1>1, <1>4, <1>5, KeptBy

LEMMA KeptHandleEnds ==
  ASSUME WatcherInv, HandleEnds
  PROVE  Kept'
<1> USE DEF WatcherInv
<1> DEFINE e == current[1]
<1> DEFINE root == RepoRootFor(e.path)
<1>1. /\ starting' = starting /\ overflowed' = overflowed /\ blind' = blind /\ events' = events
      /\ current # <<>>
      /\ unseen' = IF e.op = "chmod" THEN unseen ELSE {d \in unseen : ~RepoOf(root, d)}
  BY DEF HandleEnds, Notify
<1>2. ToSet(current) = {e} /\ e \in Events
  BY <1>1, CurrentIs
<1>3. Repos \subseteq Paths /\ e.path \in Paths
  BY <1>2, TreeIsClosed DEF Events, Paths
<1>4. \A r : RepoOf(r, e.path) => r = root
  BY <1>3, RepoRootIs
<1> HIDE DEF e, root
<1>5. \A x \in Pending : x # e => x \in Pending'
  BY <1>1, <1>2 DEF Pending
<1>6. ASSUME NEW d \in unseen', Awaited(d) PROVE Awaited(d)'
  <2>1. PICK x \in Pending : /\ x.op # "chmod" /\ ~IsIgnored(x.path)
                             /\ \E r \in Repos : RepoOf(r, x.path) /\ RepoOf(r, d)
    BY <1>6 DEF Awaited
  <2>2. x # e
    BY <1>1, <1>4, <1>6, <2>1
  <2>3. x \in Pending'
    BY <1>5, <2>1, <2>2
  <2> QED
    BY <2>1, <2>3, ReposStay DEF Awaited, RepoOf
<1>7. \A d : Blind(d) => Blind(d)'
  BY <1>1 DEF Blind
<1>8. unseen' \subseteq unseen
  BY <1>1
<1> QED
  BY <1>1, <1>6, <1>7, <1>8, KeptBy

LEMMA KeptStep ==
  ASSUME WatcherInv, [WatcherNext]_watcherVars
  PROVE  Kept'
<1> USE DEF WatcherInv
<1>1. ASSUME unseen' \subseteq unseen, overflowed => overflowed', Pending \subseteq Pending',
             starting' \subseteq starting, \A x \in unseen' : Blind(x) => Blind(x)'
      PROVE  Kept'
  BY <1>1, AwaitedStays, KeptBy
<1>2. ASSUME NEW d \in Dirs, Chmod(d) \/ Mkdir(d) \/ Rmdir(d) PROVE Kept'
  <2>1. /\ (overflowed => overflowed')
        /\ Pending \subseteq Pending'
    BY <1>2, ChangeRaises, DeveloperRaises, DeveloperFrame DEF Chmod, Mkdir, Rmdir
  <2>2. starting' = starting
    BY <1>2, DeveloperFrame
  <2>3. CASE Chmod(d) \/ Mkdir(d)
    <3>1. unseen' = unseen /\ blind' = blind
      BY <2>3 DEF Chmod, Mkdir
    <3> QED
      BY <1>1, <2>1, <2>2, <3>1 DEF Blind
  <2>4. CASE Rmdir(d)
    <3>1. unseen' \subseteq unseen /\ unseen' \subseteq tree'
      BY <2>4, RmdirIs DEF WatcherTypeOK
    <3>2. \A x \in unseen' : Blind(x) => Blind(x)'
      BY <2>4, <3>1, RmdirIs
    <3> QED
      BY <1>1, <2>1, <2>2, <3>1, <3>2
  <2> QED
    BY <1>2, <2>3, <2>4
<1>3. ASSUME unseen' = unseen, overflowed' = overflowed, events' = events, current' = current,
             starting' \subseteq starting, blind' = blind
      PROVE  Kept'
  BY <1>1, <1>3 DEF Pending, Blind
<1>4. ASSUME NEW r \in Repos, WalkRepo(r) PROVE Kept'
  BY <1>3, <1>4 DEF WalkRepo, env
<1>5. ASSUME NEW d \in Dirs, Skip(d) PROVE Kept'
  BY <1>3, <1>5 DEF Skip, env
<1>6. CASE ReadDir
  BY <1>3, <1>6 DEF ReadDir, env
<1>7. CASE WalkEnds
  BY <1>3, <1>7 DEF WalkEnds, env
<1>8. CASE UNCHANGED watcherVars
  BY <1>3, <1>8 DEF watcherVars
<1> QED
  BY <1>2, <1>4, <1>5, <1>6, <1>7, <1>8, KeptSave, KeptVisit, KeptHandle, KeptHandleEnds
     DEF WatcherNext, Developer, Step

-----------------------------------------------------------------------------

LEMMA InvInit == WatcherInit => WatcherInv
<1> SUFFICES ASSUME WatcherInit PROVE WatcherInv
  OBVIOUS
<1>1. WatcherTypeOK /\ Placed
  BY TypeInit
<1>2. /\ watched = {} /\ todo = {} /\ starting = Repos /\ walkRoot = <<>> /\ reading = <<>>
      /\ unseen = {} /\ ~Walking
  BY DEF WatcherInit, Walking
<1>3. events = <<>> /\ current = <<>> /\ Pending = {}
  BY DEF WatcherInit, Pending, ToSet
<1>4. Walks /\ Created /\ Kept
  BY <1>2, <1>3 DEF Walks, Created, Kept
<1>5. Reached
  <2>1. ASSUME NEW d \in tree, Ours(d) PROVE Coming(d)
    <3>1. PICK r \in Repos : RepoOf(r, d)
      BY <2>1 DEF Ours
    <3>2. r \in Dirs /\ Below(d, r) /\ r # <<>>
      BY <1>1, <3>1, TreeIsClosed, DirsArePaths DEF RepoOf
    <3>3. r \in starting \ {walkRoot}
      BY <1>2, <3>2
    <3> QED
      BY <3>2, <3>3 DEF Coming, OnTheWay
  <2> QED
    BY <2>1 DEF Reached
<1> QED
  BY <1>1, <1>4, <1>5 DEF WatcherInv

LEMMA InvStep == WatcherInv /\ [WatcherNext]_watcherVars => WatcherInv'
  BY TypeStep, PlacedStep, WalksStep, CreatedStep, ReachedStep, KeptStep DEF WatcherInv

\* Type correctness of the watcher.
THEOREM WatcherTypeCorrect == WatcherSpec => []WatcherTypeOK
<1>1. WatcherInv => WatcherTypeOK
  BY DEF WatcherInv
<1> QED
  BY <1>1, InvInit, InvStep, PTL DEF WatcherSpec

\* addRecursive: however mkdir, rmdir and the walk meet, with nothing left to
\* handle every directory of a repository has a watch.
THEOREM NothingUnwatched == WatcherSpec => []WatchesComplete
<1>1. WatcherInv => WatchesComplete
  <2> SUFFICES ASSUME WatcherInv, starting = {}, Pending = {}, ~Walking, ~overflowed,
                      NEW d \in tree, Ours(d), ~Blind(d)
               PROVE  d \in watched
    BY DEF WatchesComplete, Ours
  <2>1. todo = {} /\ reading = <<>> /\ ToSet(events) = {}
    BY DEF WatcherInv, Walks, Pending
  <2>2. ~Coming(d)
    BY <2>1 DEF Coming, OnTheWay
  <2> QED
    BY <2>2 DEF WatcherInv, Reached
<1> QED
  BY <1>1, InvInit, InvStep, PTL DEF WatcherSpec

\* handle and addRecursive: a save is always followed by onChange of its
\* repository, one that found no watch in its directory included.
THEOREM SavesAreKept == WatcherSpec => []NoLostSave
<1>1. WatcherInv => NoLostSave
  BY DEF WatcherInv, Kept, NoLostSave, Ours
<1> QED
  BY <1>1, InvInit, InvStep, PTL DEF WatcherSpec

-----------------------------------------------------------------------------
(* Debounce *)

\* A state in d.states always has something that will delete it, and an event
\* no call has seen always has a state: what makes NoLostTrigger inductive.
TriggersPending ==
  ~closed => \A k \in Keys :
    /\ known[k] => left[k] # Off \/ firing[k] > 0
    /\ dirty[k] => known[k]

LEMMA ConstantsHold == Wait \in Nat /\ Wait > 0 /\ MaxWait \in Nat /\ AgeCap \in Nat
  BY WaitAssumption, MaxWaitAssumption DEF AgeCap

\* A timer more or less that has d ticks left.
LEMMA RowStays ==
  ASSUME NEW row \in [0..Wait -> Nat], NEW d \in 0..Wait
  PROVE  /\ [row EXCEPT ![d] = @ + 1] \in [0..Wait -> Nat]
         /\ row[d] > 0 => [row EXCEPT ![d] = @ - 1] \in [0..Wait -> Nat]
<1>1. row[d] + 1 \in Nat /\ (row[d] > 0 => row[d] - 1 \in Nat)
  OBVIOUS
<1> QED
  BY <1>1

-----------------------------------------------------------------------------

\* Type correctness of the debouncer: counters of goroutines, timers and calls
\* never go below zero and no timer has more than `wait` left.
THEOREM Typing == Spec => []TypeOK
<1> USE ConstantsHold
<1>1. Init => TypeOK
  <2> SUFFICES ASSUME Init PROVE TypeOK
    OBVIOUS
  <2>1. orphans \in [Keys -> [0..Wait -> Nat]]
    BY DEF Init
  <2>2. age \in [Keys -> 0..AgeCap] /\ left \in [Keys -> {Off} \cup 0..Wait]
    BY DEF Init
  <2> QED
    BY <2>1, <2>2 DEF Init, TypeOK
<1>2. TypeOK /\ [Next]_vars => TypeOK'
  <2> SUFFICES ASSUME TypeOK, [Next]_vars PROVE TypeOK'
    OBVIOUS
  <2> USE DEF TypeOK
  <2>1. ASSUME NEW k \in Keys, Trigger(k) PROVE TypeOK'
    <3>1. CASE TriggerNew(k)
      BY <3>1 DEF TriggerNew, Accepted
    <3>2. CASE TriggerCeiling(k)
      BY <3>2 DEF TriggerCeiling, Accepted
    <3>3. CASE TriggerReset(k)
      BY <3>3 DEF TriggerReset, Accepted
    <3> QED
      BY <2>1, <3>1, <3>2, <3>3 DEF Trigger
  <2>2. ASSUME NEW k \in Keys, Expire(k) PROVE TypeOK'
    BY <2>2 DEF Expire
  <2>3. ASSUME NEW k \in Keys, OrphanExpire(k) PROVE TypeOK'
    <3>1. orphans' \in [Keys -> [0..Wait -> Nat]]
      <4>1. orphans[k] \in [0..Wait -> Nat] /\ orphans[k][0] > 0 /\ 0 \in 0..Wait
        BY <2>3 DEF OrphanExpire
      <4>2. [orphans[k] EXCEPT ![0] = @ - 1] \in [0..Wait -> Nat]
        BY <4>1, RowStays
      <4>3. orphans' = [orphans EXCEPT ![k] = [orphans[k] EXCEPT ![0] = @ - 1]]
        BY <2>3 DEF OrphanExpire
      <4> QED
        BY <4>2, <4>3
    <3>2. firing' \in [Keys -> Nat] /\ UNCHANGED <<known, age, left, calls, dirty, closed>>
      BY <2>3 DEF OrphanExpire
    <3> QED
      BY <3>1, <3>2
  <2>4. ASSUME NEW k \in Keys, Fire(k) PROVE TypeOK'
    <3>1. CASE FireOpen(k)
      <4>1. orphans' \in [Keys -> [0..Wait -> Nat]]
        <5>1. CASE left[k] = Off
          BY <3>1, <5>1 DEF FireOpen
        <5>2. CASE left[k] # Off
          <6>1. left[k] \in 0..Wait /\ orphans[k] \in [0..Wait -> Nat]
            BY <5>2
          <6>2. [orphans[k] EXCEPT ![left[k]] = @ + 1] \in [0..Wait -> Nat]
            BY <6>1, RowStays
          <6>3. orphans' = [orphans EXCEPT ![k] =
                              [orphans[k] EXCEPT ![left[k]] = @ + 1]]
            BY <3>1, <5>2 DEF FireOpen
          <6> QED
            BY <6>2, <6>3
        <5> QED
          BY <5>1, <5>2
      <4>2. age' \in [Keys -> 0..AgeCap] /\ left' \in [Keys -> {Off} \cup 0..Wait]
        BY <3>1 DEF FireOpen
      <4>3. /\ known' \in [Keys -> BOOLEAN] /\ dirty' \in [Keys -> BOOLEAN]
            /\ firing' \in [Keys -> Nat] /\ calls' \in [Keys -> Nat]
            /\ closed' \in BOOLEAN
        BY <3>1 DEF FireOpen
      <4> QED
        BY <4>1, <4>2, <4>3
    <3>2. CASE FireClosed(k)
      BY <3>2 DEF FireClosed
    <3> QED
      BY <2>4, <3>1, <3>2 DEF Fire
  <2>5. ASSUME NEW k \in Keys, Return(k) PROVE TypeOK'
    BY <2>5 DEF Return
  <2>6. CASE Stop
    BY <2>6 DEF Stop, Off
  <2>7. CASE Tick
    <3>1. age' \in [Keys -> 0..AgeCap] /\ left' \in [Keys -> {Off} \cup 0..Wait]
      BY <2>7 DEF Tick, Off
    <3>2. orphans' \in [Keys -> [0..Wait -> Nat]]
      <4>1. ASSUME NEW k \in Keys, NEW d \in 0..Wait
            PROVE  (IF d = 0 THEN orphans[k][0] ELSE 0)
                     + (IF d < Wait THEN orphans[k][d + 1] ELSE 0) \in Nat
        OBVIOUS
      <4> QED
        BY <2>7, <4>1 DEF Tick
    <3> QED
      BY <2>7, <3>1, <3>2 DEF Tick
  <2>8. CASE UNCHANGED vars
    BY <2>8 DEF vars
  <2> QED
    BY <2>1, <2>2, <2>3, <2>4, <2>5, <2>6, <2>7, <2>8 DEF Next, Work
<1> QED
  BY <1>1, <1>2, PTL DEF Spec

-----------------------------------------------------------------------------

LEMMA TriggersPendingStep == TypeOK /\ TriggersPending /\ [Next]_vars => TriggersPending'
<1> SUFFICES ASSUME TypeOK, TriggersPending, [Next]_vars PROVE TriggersPending'
  OBVIOUS
<1> USE DEF TriggersPending, Off
<1>0. /\ known \in [Keys -> BOOLEAN] /\ dirty \in [Keys -> BOOLEAN]
      /\ firing \in [Keys -> Nat] /\ left \in [Keys -> Int]
      /\ Wait \in Nat
  BY ConstantsHold DEF TypeOK
<1> HIDE DEF TypeOK
<1>1. ASSUME NEW k \in Keys, TriggerNew(k) PROVE TriggersPending'
  BY <1>0, <1>1 DEF TriggerNew, Accepted
<1>2. ASSUME NEW k \in Keys, TriggerCeiling(k) PROVE TriggersPending'
  BY <1>0, <1>2 DEF TriggerCeiling, Accepted
<1>3. ASSUME NEW k \in Keys, TriggerReset(k) PROVE TriggersPending'
  BY <1>0, <1>3 DEF TriggerReset, Accepted
<1>4. ASSUME NEW k \in Keys, Expire(k) PROVE TriggersPending'
  BY <1>0, <1>4 DEF Expire
<1>5. ASSUME NEW k \in Keys, OrphanExpire(k) PROVE TriggersPending'
  BY <1>0, <1>5 DEF OrphanExpire
<1>6. ASSUME NEW k \in Keys, FireOpen(k) PROVE TriggersPending'
  BY <1>0, <1>6 DEF FireOpen
<1>7. ASSUME NEW k \in Keys, FireClosed(k) PROVE TriggersPending'
  BY <1>0, <1>7 DEF FireClosed
<1>8. ASSUME NEW k \in Keys, Return(k) PROVE TriggersPending'
  BY <1>0, <1>8 DEF Return
<1>9. CASE Stop
  BY <1>0, <1>9 DEF Stop
<1>10. CASE Tick
  BY <1>0, <1>10 DEF Tick
<1>11. CASE UNCHANGED vars
  BY <1>11 DEF vars
<1> QED
  BY <1>1, <1>2, <1>3, <1>4, <1>5, <1>6, <1>7, <1>8, <1>9, <1>10, <1>11
     DEF Next, Work, Trigger, Fire

\* No event the debouncer accepted is forgotten: it keeps an armed timer or a
\* started goroutine until a call of fn follows it.
THEOREM TriggersAreKept == Spec => []NoLostTrigger
<1>1. Init => TriggersPending
  BY DEF Init, TriggersPending
<1>2. TriggersPending => NoLostTrigger
  BY DEF TriggersPending, NoLostTrigger
<1> QED
  BY <1>1, <1>2, TriggersPendingStep, Typing, PTL DEF Spec

-----------------------------------------------------------------------------

\* On a scheduler that is never late, what a state has behind it and its timer
\* has before it stays below MaxWait + Wait.
Budget ==
  \A k \in Keys :
    /\ age[k] < MaxWait + Wait
    /\ known[k] /\ left[k] # Off => age[k] + left[k] < MaxWait + Wait
    /\ known[k] /\ left[k] = Off => firing[k] > 0
    /\ closed \/ ~known[k] => age[k] = 0 /\ ~known[k]

LEMMA BudgetStep ==
  ASSUME MaxWait > 0, TypeOK, Budget, [TimedNext]_vars
  PROVE  Budget'
<1> USE ConstantsHold DEF TypeOK, Budget, Off
<1>1. ASSUME NEW k \in Keys, TriggerNew(k) PROVE Budget'
  BY <1>1 DEF TriggerNew, Accepted
<1>2. ASSUME NEW k \in Keys, TriggerCeiling(k) PROVE Budget'
  BY <1>2 DEF TriggerCeiling, Accepted
<1>3. ASSUME NEW k \in Keys, TriggerReset(k) PROVE Budget'
  <2>1. age[k] < MaxWait /\ known[k] /\ ~closed
    BY <1>3 DEF TriggerReset, AtCeiling, Accepted
  <2>2. known' = known /\ age' = age /\ firing' = firing /\ closed' = closed
    BY <1>3 DEF TriggerReset, Accepted
  <2>3. left' = [left EXCEPT ![k] = Wait]
    BY <1>3 DEF TriggerReset
  <2> SUFFICES ASSUME NEW j \in Keys
               PROVE  /\ known[j] /\ left'[j] # Off => age[j] + left'[j] < MaxWait + Wait
                      /\ known[j] /\ left'[j] = Off => firing[j] > 0
    BY <2>2
  <2>4. CASE j = k
    BY <2>1, <2>3, <2>4
  <2>5. CASE j # k
    BY <2>3, <2>5
  <2> QED
    BY <2>4, <2>5
<1>4. ASSUME NEW k \in Keys, Expire(k) PROVE Budget'
  BY <1>4 DEF Expire
<1>5. ASSUME NEW k \in Keys, OrphanExpire(k) PROVE Budget'
  BY <1>5 DEF OrphanExpire
<1>6. ASSUME NEW k \in Keys, FireOpen(k) PROVE Budget'
  <2>1. /\ known' = [known EXCEPT ![k] = FALSE]
        /\ age' = [age EXCEPT ![k] = 0]
        /\ left' = [left EXCEPT ![k] = Off]
        /\ firing' = [firing EXCEPT ![k] = @ - 1]
        /\ closed' = closed
    BY <1>6 DEF FireOpen
  <2> SUFFICES ASSUME NEW j \in Keys
               PROVE  /\ age'[j] < MaxWait + Wait
                      /\ known'[j] /\ left'[j] # Off => age'[j] + left'[j] < MaxWait + Wait
                      /\ known'[j] /\ left'[j] = Off => firing'[j] > 0
                      /\ closed' \/ ~known'[j] => age'[j] = 0 /\ ~known'[j]
    OBVIOUS
  <2>2. CASE j = k
    BY <2>1, <2>2
  <2>3. CASE j # k
    BY <2>1, <2>3
  <2> QED
    BY <2>2, <2>3
<1>7. ASSUME NEW k \in Keys, FireClosed(k) PROVE Budget'
  BY <1>7 DEF FireClosed
<1>8. ASSUME NEW k \in Keys, Return(k) PROVE Budget'
  BY <1>8 DEF Return
<1>9. CASE Stop
  BY <1>9 DEF Stop
<1>10. CASE Punctual /\ Tick
  <2> SUFFICES ASSUME NEW k \in Keys
               PROVE  /\ age'[k] < MaxWait + Wait
                      /\ known[k] /\ left'[k] # Off => age'[k] + left'[k] < MaxWait + Wait
                      /\ known[k] /\ left'[k] = Off => firing[k] > 0
                      /\ closed \/ ~known[k] => age'[k] = 0 /\ ~known[k]
    BY <1>10 DEF Tick
  <2>1. left[k] # 0 /\ firing[k] = 0
    BY <1>10 DEF Punctual
  <2>2. age'[k] = IF known[k] /\ age[k] < AgeCap THEN age[k] + 1 ELSE age[k]
    BY <1>10 DEF Tick
  <2>3. left'[k] = IF left[k] > 0 THEN left[k] - 1 ELSE left[k]
    BY <1>10 DEF Tick
  <2>4. age[k] \in Nat /\ left[k] \in Int /\ left[k] >= Off
    OBVIOUS
  <2>5. CASE known[k]
    <3>1. left[k] > 0 /\ age[k] + left[k] < MaxWait + Wait /\ ~closed
      BY <2>1, <2>4, <2>5
    <3>2. age'[k] = age[k] + 1 /\ left'[k] = left[k] - 1
      BY <2>2, <2>3, <2>4, <2>5, <3>1 DEF AgeCap
    <3> QED
      BY <2>4, <2>5, <3>1, <3>2
  <2>6. CASE ~known[k]
    BY <2>2, <2>6
  <2> QED
    BY <2>5, <2>6
<1>11. CASE UNCHANGED vars
  BY <1>11 DEF vars
<1> QED
  BY <1>1, <1>2, <1>3, <1>4, <1>5, <1>6, <1>7, <1>8, <1>9, <1>10, <1>11
     DEF TimedNext, Work, Trigger, Fire

LEMMA TimedStepIsStep == [TimedNext]_vars => [Next]_vars
  BY DEF TimedNext, Next

\* The longest an event can wait when events keep arriving and the ceiling is
\* enabled: less than maxWait + wait, not the maxWait of the documentation.
THEOREM DelayIsBounded ==
  ASSUME MaxWait > 0
  PROVE  TimedSpec => []DelayBound
<1>1. TimedSpec => []TypeOK
  <2>1. TimedSpec => Spec
    BY TimedStepIsStep, PTL DEF TimedSpec, Spec
  <2> QED
    BY <2>1, Typing, PTL
<1>2. Init => Budget
  BY ConstantsHold DEF Init, Budget, Off
<1>3. TypeOK /\ Budget /\ [TimedNext]_vars => Budget'
  BY BudgetStep
<1>4. Budget => DelayBound
  BY DEF Budget, DelayBound
<1> QED
  BY <1>1, <1>2, <1>3, <1>4, PTL DEF TimedSpec

-----------------------------------------------------------------------------

\* After Stop no call of fn begins, whatever timers Stop did not reach.
THEOREM StopIsFinal == Spec => NoCallAfterStop
<1>1. TypeOK /\ [Next]_vars
        => [closed => \A k \in Keys : calls'[k] <= calls[k]]_vars
  <2> SUFFICES ASSUME TypeOK, Next, closed, NEW j \in Keys
               PROVE  calls'[j] <= calls[j]
    OBVIOUS
  <2>1. calls[j] \in Nat
    BY DEF TypeOK
  <2>2. CASE calls' = calls
    BY <2>1, <2>2
  <2>3. ASSUME NEW k \in Keys, Return(k) PROVE calls'[j] <= calls[j]
    BY <2>1, <2>3 DEF Return, TypeOK
  <2> QED
    BY <2>2, <2>3 DEF Next, Work, Trigger, TriggerNew, TriggerCeiling,
       TriggerReset, Accepted, Expire, OrphanExpire, Fire, FireOpen, FireClosed,
       Stop, Tick
<1> QED
  BY <1>1, Typing, PTL DEF Spec, NoCallAfterStop
=============================================================================
