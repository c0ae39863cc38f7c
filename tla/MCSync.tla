------------------------------- MODULE MCSync -------------------------------
(* Sync for TLC: invocations, streams and object ids are model values.     *)
(* Invocations are interchangeable, and a run uses one of two ways to say  *)
(* so: by symmetry, or by starting them in one order.                      *)
EXTENDS SyncRefinement, TLC

Symmetry == Permutations(Syncs)

StartInOrder ==
    \A p \in Syncs :
        phase[p] = "idle" /\ phase'[p] # "idle" =>
            p = CHOOSE q \in Syncs : phase[q] = "idle"
=============================================================================
