---------------------------- MODULE MCFileCache ----------------------------
(* Instances of FileCache for TLC: a tree of three levels.                 *)
EXTENDS FileCache, TLC

CONSTANTS
  html, errors, ab, deep,   \* directories
  a, abc, top, e403, e404, e500,
  MCOthers                  \* the files that are no error pages

MCDirs == {html, errors, ab, deep}
MCErrors == {e403, e404, e500}

\* The file top lies in the public directory, which is not watched; a and abc one
\* level below it, in a directory that is; deep is empty and not watched.
MCFiles == MCErrors \cup MCOthers
MCParent ==
  [x \in (MCDirs \ {html}) \cup MCFiles |->
     IF x \in {errors, ab, top} THEN html ELSE IF x \in MCErrors THEN errors ELSE ab]
\* The path of abc, html/ab/abc, begins with that of a, html/ab/a.
MCExtending == [f \in MCFiles |-> IF f = a THEN {abc} \cap MCFiles ELSE {}]

\* Files nobody changes all have the same content: no property compares the
\* contents of two files.
MCInit == Init /\ \A f \in Files \ Mutable : disk[f] = 1
MCSpec == MCInit /\ [][Next]_vars
MCFairSpec == MCSpec /\ Fairness
=============================================================================
