----------------------------- MODULE MCDiffParse -----------------------------
(* Model values for checking DiffParse with TLC. *)
EXTENDS DiffParse

Hunks == {<<l>> : l \in Contents} \cup {<<l, m>> : l \in Contents, m \in Contents}

File(path, change, hunks) == [path |-> path, change |-> change, hunks |-> hunks]

Edit == <<[sign |-> "-", text |-> "code"], [sign |-> "+", text |-> "code"]>>

\* One file of every change with one hunk or two, then a second file; renamed as
\* it is; denied; with a path in quotes.
ChangedFiles ==
  {<<File("a", c, <<h>>)>> : c \in {"added", "deleted", "modified", "renamed"}, h \in Hunks}
    \cup {<<File("a", "modified", <<h, Edit>>)>> : h \in Hunks}
    \cup {<<File("a", "modified", <<h>>), File(p, c, <<Edit>>)>> :
            p \in {"b", "env", "q"}, c \in {"deleted", "modified"}, h \in Hunks}
    \cup {<<File("a", "renamed", <<>>), File("b", "modified", <<h>>)>> : h \in Hunks}

New(p, k, n) == [path |-> p, kind |-> k, lines |-> n]

SmallTrees ==
  [changed : ChangedFiles, untracked : {<<>>}]
    \cup [changed : {<<>>, <<File("a", "modified", <<Edit>>)>>},
          untracked : {<<New(p, k, n), New("d", "text", 1)>> :
                         p \in {"c", "env", "q"}, k \in {"text", "binary"}, n \in 0..3}]
=============================================================================
