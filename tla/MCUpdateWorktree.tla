-------------------------- MODULE MCUpdateWorktree --------------------------
(* UpdateWorktree for TLC: a tracked path, a path .gitignore covers, two   *)
(* contents.  `code` has or lacks the tracked path; `extra` is empty or    *)
(* has other content for both.                                             *)
EXTENDS UpdateWorktree, TLC

CONSTANTS tracked, ignored, b1, b2

MCPaths      == {tracked, ignored}
MCIgnored    == {ignored}
MCBlobs      == {b1, b2}
MCCodeTrees  == {[p \in MCPaths |-> IF p = tracked THEN b ELSE Absent] :
                    b \in {b1, Absent}}
MCExtraTrees == {[p \in MCPaths |-> b] : b \in {b2, Absent}}

Symmetry     == Permutations(Runs)
=============================================================================
