---------------------------- MODULE SyncedState -----------------------------
(***************************************************************************)
(* What `git-full-send sync` promises, without commits, refs or exchanges: *)
(* per stream and chain the server shows some version of the user's        *)
(* working tree, and the client may have been told which.                  *)
(***************************************************************************)
EXTENDS Naturals

CONSTANTS
    Streams, Chains,
    Nothing          \* no version: not shown, or not told

VARIABLES
    work,            \* version of the user's working tree
    shown,           \* the version the server shows
    told,            \* the version the client knows to be shown
    lost             \* the stream was forgotten on the server

vars == <<work, shown, told, lost>>

Init ==
    /\ work = 0
    /\ shown = [s \in Streams |-> [c \in Chains |-> Nothing]]
    /\ told = [s \in Streams |-> [c \in Chains |-> Nothing]]
    /\ lost = [s \in Streams |-> FALSE]

Edit ==
    /\ work' = work + 1
    /\ UNCHANGED <<shown, told, lost>>

\* An action says what becomes of one entry, and then that no other changes.

\* What is shown only ever becomes newer.  The client need not hear of it.
Deliver(s, c) ==
    /\ shown[s][c] # shown'[s][c]
    /\ shown'[s][c] \in 0..work
    /\ shown[s][c] # Nothing => shown[s][c] < shown'[s][c]
    /\ shown' = [shown EXCEPT ![s][c] = shown'[s][c]]
    /\ UNCHANGED <<work, told, lost>>

\* The client is told what is shown then; after a forget it may be told of
\* what was shown before.
Confirm(s, c) ==
    /\ told[s][c] # told'[s][c]
    /\ told'[s][c] \in 0..work
    /\ lost[s] \/ told'[s][c] = shown[s][c]
    /\ told' = [told EXCEPT ![s][c] = told'[s][c]]
    /\ UNCHANGED <<work, shown, lost>>

\* forget-stream or reap at the server, and forget-stream at the client.
Withdraw(s, c) ==
    /\ shown[s][c] # Nothing
    /\ shown'[s][c] = Nothing
    /\ shown' = [shown EXCEPT ![s][c] = Nothing]
    /\ lost' = [lost EXCEPT ![s] = TRUE]
    /\ UNCHANGED <<work, told>>

Unlearn(s, c) ==
    /\ told[s][c] # Nothing
    /\ told'[s][c] = Nothing
    /\ told' = [told EXCEPT ![s][c] = Nothing]
    /\ UNCHANGED <<work, shown, lost>>

Next ==
    \/ Edit
    \/ \E s \in Streams, c \in Chains :
          \/ Deliver(s, c)
          \/ Confirm(s, c)
          \/ Withdraw(s, c)
          \/ Unlearn(s, c)

Spec == Init /\ [][Next]_vars

-----------------------------------------------------------------------------
TypeOK ==
    /\ work \in Nat
    /\ shown \in [Streams -> [Chains -> Nat \cup {Nothing}]]
    /\ told \in [Streams -> [Chains -> Nat \cup {Nothing}]]
    /\ lost \in [Streams -> BOOLEAN]

\* What the client was told it may rely on (retain_pushed_tip): until the
\* stream is forgotten the server shows that version or a newer one.
ToldIsShown ==
    \A s \in Streams, c \in Chains :
        ~lost[s] /\ told[s][c] # Nothing =>
            /\ shown[s][c] # Nothing
            /\ told[s][c] <= shown[s][c]
=============================================================================
