------------------------------ MODULE DiffParse ------------------------------
(***************************************************************************)
(* WorkingTreeDiff (internal/gitxport diff.go): the parser of git's unified  *)
(* diff, one action per case of the switch in splitFileDiffs, over lines as *)
(* git prints them for a list of changed files; then the files that are not *)
(* denied, and a hunk made up for every untracked one.  A line is what the  *)
(* cases can tell of it: its prefix, and the path a +++ line carries.       *)
(***************************************************************************)
EXTENDS Integers, FiniteSets, SequencesExt

CONSTANTS Paths,   \* paths of the working tree
          Trees,   \* changed: path, change, hunks of content lines;
                   \* untracked: path, kind, lines
          Denied,  \* paths the deny list matches
          Quoted,  \* paths git prints in quotes, for a letter that is not ASCII
          MaxUntrackedLines

(* Content lines: a sign, and how the text after it begins. *)
Signs == {" ", "+", "-"}
Texts == {"code", "dashes", "pluses", "blank"}  \* "-- ...", "++ ...", nothing

Contents == [sign : Signs, text : Texts]

Changed   == [path : Paths, change : {"modified", "added", "deleted", "renamed"},
              hunks : Seq(Seq(Contents))]
Untracked == [path : Paths, kind : {"text", "binary"}, lines : Nat]

ASSUME TreesAssumption ==
  \A t \in Trees : t.changed \in Seq(Changed) /\ t.untracked \in Seq(Untracked)

ASSUME MaxUntrackedLinesAssumption == MaxUntrackedLines \in Nat

VARIABLES tree,   \* the changes of the working tree
          lines,  \* lines of git's output still to be looked at
          cur,    \* the file being read: none, or a sequence of one
          hb,     \* the hunk being read: none, or a sequence of one
          files,  \* the files read
          others, \* untracked paths still to be looked at
          res,    \* DiffResult
          phase   \* parsing, collecting or done

parser    == <<lines, cur, hb, files>>
parseVars == <<tree, parser, others, res, phase>>

diff == tree.changed

-----------------------------------------------------------------------------
(* What git prints *)

Printed(p) == IF p \in Quoted THEN "quoted " \o p ELSE p

Line(kind)          == [kind |-> kind, path |-> "", body |-> [sign |-> "", text |-> ""]]
PathLine(kind, p)   == [Line(kind) EXCEPT !.path = p]

\* "-" before "-- ..." makes "--- ...", "+" before "++ ..." makes "+++ ...".
ContentKind(l) ==
  CASE l.sign = "-" /\ l.text = "dashes" -> "---"
    [] l.sign = "+" /\ l.text = "pluses" -> "+++"
    [] OTHER -> "content"

ContentLine(l) == [kind |-> ContentKind(l), path |-> "text", body |-> l]

HunkLines(h) == <<Line("@@")>> \o [i \in DOMAIN h |-> ContentLine(h[i])]

HeaderLines(f) ==
  <<PathLine("diff --git", Printed(f.path))>>
    \o (CASE f.change = "added"   -> <<Line("new file")>>
          [] f.change = "deleted" -> <<Line("deleted file")>>
          [] f.change = "renamed" -> <<Line("similarity"), Line("rename"), Line("rename")>>
          [] OTHER -> <<>>)
    \o (IF f.hunks = <<>> THEN <<>>
        ELSE <<Line("index"), Line("---"),
               PathLine("+++", IF f.change = "deleted" THEN "/dev/null" ELSE Printed(f.path))>>)

FileLines(f) ==
  HeaderLines(f) \o FlattenSeq([h \in DOMAIN f.hunks |-> HunkLines(f.hunks[h])])

\* A context line without text is a space: TrimSpace cuts those at the end.
IsBlank(l) == l.kind = "content" /\ l.body.sign = " " /\ l.body.text = "blank"

Trimmed(ls) ==
  SubSeq(ls, 1, CHOOSE n \in 0..Len(ls) :
    /\ \A i \in (n + 1)..Len(ls) : IsBlank(ls[i])
    /\ n = 0 \/ ~IsBlank(ls[n]))

GitOutput(d) == Trimmed(FlattenSeq([i \in DOMAIN d |-> FileLines(d[i])]))

-----------------------------------------------------------------------------
(* splitFileDiffs *)

NoHunk == [body |-> <<>>, added |-> 0, removed |-> 0]

NoResult == [hunks |-> <<>>, changed |-> {}, added |-> 0, removed |-> 0,
             truncated |-> FALSE]

ParseInit ==
  /\ tree \in Trees
  /\ others = tree.untracked
  /\ res = NoResult
  /\ phase = "parsing"
  /\ lines = GitOutput(diff)
  /\ cur = <<>>
  /\ hb = <<>>
  /\ files = <<>>

\* cur after flushHunk.
WithHunk == [i \in DOMAIN cur |-> [cur[i] EXCEPT !.hunks = @ \o hb]]

FlushFile == files' = files \o WithHunk

\* The next line is of this kind and a file is being read, so that no earlier
\* case of the switch applies.
Case(kind) ==
  /\ lines # <<>> /\ Head(lines).kind = kind
  /\ cur # <<>>
  /\ lines' = Tail(lines)
  /\ UNCHANGED <<tree, others, res, phase>>

FileHeader ==
  /\ lines # <<>> /\ Head(lines).kind = "diff --git"
  /\ lines' = Tail(lines)
  /\ FlushFile
  /\ cur' = <<[path |-> Head(lines).path, change |-> "modified", hunks |-> <<>>]>>
  /\ hb' = <<>>
  /\ UNCHANGED <<tree, others, res, phase>>

SetChange(kind, change) ==
  /\ Case(kind)
  /\ cur' = <<[cur[1] EXCEPT !.change = change]>>
  /\ UNCHANGED <<hb, files>>

NewFile     == SetChange("new file", "added")
DeletedFile == SetChange("deleted file", "deleted")
Rename      == SetChange("rename", "renamed")

\* Without " b/" the path is the whole line, and so it is for a content line.
PlusHeader ==
  /\ Case("+++")
  /\ LET p == Head(lines).path IN
     cur' = <<[cur[1] EXCEPT !.path = IF p = "/dev/null" THEN @ ELSE p]>>
  /\ UNCHANGED <<hb, files>>

Ignored ==
  /\ Case("---") \/ Case("index") \/ (Case("similarity") /\ hb = <<>>)
  /\ UNCHANGED <<cur, hb, files>>

\* Faulty variant: the hunk before is not flushed.
HunkHeaderUnflushed ==
  /\ Case("@@")
  /\ hb' = <<NoHunk>>
  /\ UNCHANGED <<cur, files>>

HunkHeader ==
  /\ Case("@@")
  /\ cur' = WithHunk
  /\ hb' = <<NoHunk>>
  /\ UNCHANGED files

Content ==
  /\ Case("content")
  /\ hb # <<>>
  /\ LET l == Head(lines).body IN
     hb' = <<[body    |-> Append(hb[1].body, l),
              added   |-> hb[1].added + (IF l.sign = "+" THEN 1 ELSE 0),
              removed |-> hb[1].removed + (IF l.sign = "-" THEN 1 ELSE 0)]>>
  /\ UNCHANGED <<cur, files>>

\* flushFile after the last line.
ParseEnds ==
  /\ phase = "parsing" /\ lines = <<>>
  /\ FlushFile
  /\ cur' = <<>> /\ hb' = <<>>
  /\ phase' = "collecting"
  /\ UNCHANGED <<tree, lines, others, res>>

-----------------------------------------------------------------------------
(* WorkingTreeDiff *)

Sum(ns) == FoldSeq(+, 0, ns)

NamedHunk(path, change, body) == [path |-> path, change |-> change, body |-> body]

\* A file that was read: its hunks and its counts, unless it is denied.
CollectFile ==
  /\ phase = "collecting" /\ files # <<>>
  /\ LET f == Head(files) IN
     res' = IF f.path \in Denied THEN res
            ELSE [res EXCEPT
                   !.hunks   = @ \o [h \in DOMAIN f.hunks |->
                                       NamedHunk(f.path, f.change, f.hunks[h].body)],
                   !.changed = @ \cup {f.path},
                   !.added   = @ + Sum([h \in DOMAIN f.hunks |-> f.hunks[h].added]),
                   !.removed = @ + Sum([h \in DOMAIN f.hunks |-> f.hunks[h].removed])]
  /\ files' = Tail(files)
  /\ UNCHANGED <<tree, lines, cur, hb, others, phase>>

Plus == [sign |-> "+", text |-> "code"]

\* Split at \n: what is after the last newline is a line of its own.
Split(n) == n + 1

\* A limit of 0 is none.
TooLong(n) == MaxUntrackedLines > 0 /\ n > MaxUntrackedLines

\* Lines of an untracked file that are left of so many.
Cut(n) == IF TooLong(n) THEN MaxUntrackedLines ELSE n

\* untrackedHunk has nothing for a path that is no file and for a binary file.
Rendered(u) == Printed(u.path) = u.path /\ u.kind = "text"

UntrackedHunk(u) == NamedHunk(u.path, "added", [l \in 1..Cut(Split(u.lines)) |-> Plus])

\* Faulty variant: the lines are counted before they are cut off.
CollectUntrackedUncut ==
  /\ phase = "collecting" /\ files = <<>> /\ others # <<>>
  /\ LET u == Head(others) IN
     res' = IF Printed(u.path) \in Denied \/ ~Rendered(u) THEN res
            ELSE [res EXCEPT
                   !.hunks     = Append(@, UntrackedHunk(u)),
                   !.changed   = @ \cup {u.path},
                   !.added     = @ + Split(u.lines),
                   !.truncated = @ \/ TooLong(Split(u.lines))]
  /\ others' = Tail(others)
  /\ UNCHANGED <<tree, parser, phase>>

CollectUntracked ==
  /\ phase = "collecting" /\ files = <<>> /\ others # <<>>
  /\ LET u == Head(others) IN
     res' = IF Printed(u.path) \in Denied \/ ~Rendered(u) THEN res
            ELSE [res EXCEPT
                   !.hunks     = Append(@, UntrackedHunk(u)),
                   !.changed   = @ \cup {u.path},
                   !.added     = @ + Cut(Split(u.lines)),
                   !.truncated = @ \/ TooLong(Split(u.lines))]
  /\ others' = Tail(others)
  /\ UNCHANGED <<tree, parser, phase>>

Return ==
  /\ phase = "collecting" /\ files = <<>> /\ others = <<>>
  /\ phase' = "done"
  /\ UNCHANGED <<tree, parser, others, res>>

Done == phase = "done" /\ UNCHANGED parseVars

ParseNext ==
  \/ FileHeader \/ NewFile \/ DeletedFile \/ Rename \/ PlusHeader \/ Ignored
  \/ HunkHeader \/ Content \/ ParseEnds
  \/ CollectFile \/ CollectUntracked \/ Return \/ Done

ParseSpec == ParseInit /\ [][ParseNext]_parseVars

-----------------------------------------------------------------------------
(* Properties.  A line that no case takes would be a deadlock. *)

LooksLikeHeader(l) == ContentKind(l) # "content"

PlainHunk(h) == \A l \in DOMAIN h : ~LooksLikeHeader(h[l])

Plain ==
  \A i \in DOMAIN diff :
    diff[i].path \notin Quoted /\ \A h \in DOMAIN diff[i].hunks : PlainHunk(diff[i].hunks[h])

Count(h, sign) == Cardinality({l \in DOMAIN h : h[l].sign = sign})

\* A body read is what was printed, up to blank context lines cut off its end.
SameBody(read, h) ==
  /\ Len(read) <= Len(h)
  /\ \A l \in DOMAIN h :
       IF l <= Len(read) THEN read[l] = h[l] ELSE h[l].sign = " " /\ h[l].text = "blank"

\* Where line l of h comes to stand if the lines that look like headers are left out.
Place(h, l) == Cardinality({k \in 1..l : ~LooksLikeHeader(h[k])})

\* The same of a body these lines are missing from.
BodyOfOthers(read, h) ==
  /\ Len(read) <= Place(h, Len(h))
  /\ \A l \in DOMAIN h : ~LooksLikeHeader(h[l]) =>
       IF Place(h, l) <= Len(read) THEN read[Place(h, l)] = h[l]
       ELSE h[l].sign = " " /\ h[l].text = "blank"

\* The hunks that should come of the tracked files, and then of the untracked ones.
FileHunks(f) ==
  IF f.path \in Denied THEN <<>>
  ELSE [h \in DOMAIN f.hunks |-> NamedHunk(f.path, f.change, f.hunks[h])]

OtherHunks(u) ==
  IF Printed(u.path) \in Denied \/ ~Rendered(u) THEN <<>> ELSE <<UntrackedHunk(u)>>

DueHunks ==
  FlattenSeq([i \in DOMAIN diff |-> FileHunks(diff[i])])
    \o FlattenSeq([i \in DOMAIN tree.untracked |-> OtherHunks(tree.untracked[i])])

ExactDiff ==
  /\ Len(res.hunks) = Len(DueHunks)
  /\ \A i \in DOMAIN DueHunks :
       /\ res.hunks[i].path = DueHunks[i].path
       /\ res.hunks[i].change = DueHunks[i].change
       /\ SameBody(res.hunks[i].body, DueHunks[i].body)

Parsed ==
  phase = "collecting" /\ files # <<>> /\ res = NoResult /\ Len(files) = Len(diff)

\* A content line of the file is taken for its +++ line.
TakesPath(f) ==
  \E h \in DOMAIN f.hunks : \E l \in DOMAIN f.hunks[h] : ContentKind(f.hunks[h][l]) = "+++"

\* splitFileDiffs: no file and no hunk is lost, cut in two or given to another
\* file, whatever its lines look like: a hunk misses the lines that look like
\* headers and no others, and the file its path if one of them looks like +++.
\* WorkingTreeDiff: where there are none, and no path is quoted, every hunk of
\* every file that is not denied comes out once and in order, and so does one for
\* every untracked text file.
OnlyLookalikesAreLost ==
  /\ Parsed =>
       \A i \in DOMAIN diff :
         /\ files[i].change = diff[i].change
         /\ files[i].path = Printed(diff[i].path) \/ TakesPath(diff[i])
         /\ Len(files[i].hunks) = Len(diff[i].hunks)
         /\ \A h \in DOMAIN diff[i].hunks :
              BodyOfOthers(files[i].hunks[h].body, diff[i].hunks[h])
  /\ phase = "done" /\ Plain => ExactDiff

\* WorkingTreeDiff: the counts of the summary are those of the hunks that are
\* sent along, whatever was denied, lost or cut off.
TotalsAreOfHunks ==
  phase = "done" =>
    /\ res.added   = Sum([i \in DOMAIN res.hunks |-> Count(res.hunks[i].body, "+")])
    /\ res.removed = Sum([i \in DOMAIN res.hunks |-> Count(res.hunks[i].body, "-")])
    /\ \A i \in DOMAIN res.hunks : res.hunks[i].path \in res.changed

\* diff.go:35 says this is the hunk-level diff of the working tree: every line of
\* every hunk is in it, also a removed "-- ..." or an added "++ ...".
EveryDiffIsExact ==
  phase = "done" /\ (\A i \in DOMAIN diff : diff[i].path \notin Quoted) => ExactDiff

\* diff.go:36 says untracked files are rendered as added hunks: also one git
\* prints in quotes.
UntrackedAreRendered ==
  phase = "done" =>
    \A i \in DOMAIN tree.untracked :
      tree.untracked[i].kind = "text" /\ tree.untracked[i].path \notin Denied =>
        tree.untracked[i].path \in res.changed
=============================================================================
