--------------------------- MODULE SyncRefinement ---------------------------
(***************************************************************************)
(* Sync implements SyncedState: a server ref shows the working-tree        *)
(* version of the commit it points to, and the client's pin records the    *)
(* version it was told.                                                    *)
(***************************************************************************)
EXTENDS Sync

\* A missing ref is told apart from every version.
ASSUME NoVersionAssumption == None \notin Nat

Version(ref) == IF ref = None THEN None ELSE tree[ref]

Shown == [s \in Streams |-> [c \in Chains |-> Version(srv[s][c])]]

Told == [s \in Streams |-> [c \in Chains |-> Version(sent[s][c])]]

State == INSTANCE SyncedState WITH
    Nothing <- None,
    shown   <- Shown,
    told    <- Told,
    lost    <- forgotten

\* Every step of the client, the wire and the server is a step of
\* SyncedState or leaves what it shows and tells alone: no lost, late or
\* failed exchange shows an older version, and no sync pins what the server
\* does not show.
StateSpec == State!Spec
=============================================================================
