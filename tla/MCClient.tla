------------------------------ MODULE MCClient ------------------------------
(* Client for TLC.                                                         *)
EXTENDS Client, TLC

Symmetry == Permutations(Syncs \ Encoders) \cup Permutations(Ids)

\* Resolving an id and encoding have no variable in common.  To leave their
\* interleavings out, there is something to encode only when the sync that
\* encodes was given its id and no other one has begun.
OneAfterTheOther ==
    \/ /\ log = <<>> /\ adds = 0
       /\ \A p \in Syncs : pc[p] \notin {"open", "walk"}
    \/ /\ generated = {}
       /\ \A p \in Syncs : pc[p] # "idle" => p \in Encoders /\ pc[p] # "read"
=============================================================================
