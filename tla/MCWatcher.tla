------------------------------ MODULE MCWatcher ------------------------------
(* Model values for checking Watcher with TLC. *)
EXTENDS Watcher

\* A discovered repository w/r with a nested one that is listed, an ignored
\* directory, and directories that come and go.
NestedDirs == {<<"w">>, <<"w", "r">>, <<"w", "r", "in">>,
               <<"w", "r", "a">>, <<"w", "r", "a", "b">>, <<"w", "r", "out">>}
NestedGits   == {<<"w", "r">>, <<"w", "r", "in">>}
NestedListed == {<<"w", "r", "in">>}
NestedRoots  == {<<"w">>}

BuildDirs   == {<<"build">>, <<"build", "r">>, <<"build", "r", "a">>}
BuildListed == {<<"build", "r">>}
=============================================================================
