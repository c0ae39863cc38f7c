-------------------------- MODULE SyncedStateProofs -------------------------
(***************************************************************************)
(* The abstract promise keeps its word: what the client was told is shown. *)
(* SyncRefinement carries it over to Sync.                                 *)
(***************************************************************************)
EXTENDS SyncedState, TLAPS

\* SyncedState keeps its types.
LEMMA Typing == Spec => []TypeOK
<1>1. Init => TypeOK
  BY DEF Init, TypeOK
<1>2. TypeOK /\ [Next]_vars => TypeOK'
  <2> SUFFICES ASSUME TypeOK, [Next]_vars
               PROVE  TypeOK'
    OBVIOUS
  <2> USE DEF TypeOK
  <2>1. CASE Edit
    BY <2>1 DEF Edit
  <2>2. ASSUME NEW s \in Streams, NEW c \in Chains, Deliver(s, c)
        PROVE  TypeOK'
    <3>1. PICK v \in 0..work : shown' = [shown EXCEPT ![s][c] = v]
      BY <2>2 DEF Deliver
    <3>2. UNCHANGED <<work, told, lost>>
      BY <2>2 DEF Deliver
    <3> QED
      BY <3>1, <3>2
  <2>3. ASSUME NEW s \in Streams, NEW c \in Chains, Confirm(s, c)
        PROVE  TypeOK'
    <3>1. PICK v \in 0..work : told' = [told EXCEPT ![s][c] = v]
      BY <2>3 DEF Confirm
    <3>2. UNCHANGED <<work, shown, lost>>
      BY <2>3 DEF Confirm
    <3> QED
      BY <3>1, <3>2
  <2>4. ASSUME NEW s \in Streams, NEW c \in Chains, Withdraw(s, c)
        PROVE  TypeOK'
    BY <2>4 DEF Withdraw
  <2>5. ASSUME NEW s \in Streams, NEW c \in Chains, Unlearn(s, c)
        PROVE  TypeOK'
    BY <2>5 DEF Unlearn
  <2>6. CASE UNCHANGED vars
    BY <2>6 DEF vars
  <2> QED
    BY <2>1, <2>2, <2>3, <2>4, <2>5, <2>6 DEF Next
<1> QED
  BY <1>1, <1>2, PTL DEF Spec

\* Until a stream is forgotten, the version the client was told, which is what
\* retain_pushed_tip pins, or a newer one is shown.
THEOREM ToldStaysShown ==
    ASSUME Nothing \notin Nat
    PROVE  Spec => []ToldIsShown
<1>1. Init => ToldIsShown
  BY DEF Init, ToldIsShown
<1>2. TypeOK /\ ToldIsShown /\ [Next]_vars => ToldIsShown'
  <2> DEFINE Kept(t, d) ==
        ~lost'[t] /\ told'[t][d] # Nothing =>
            /\ shown'[t][d] # Nothing
            /\ told'[t][d] <= shown'[t][d]
  <2> SUFFICES ASSUME TypeOK, ToldIsShown, [Next]_vars,
                      NEW t \in Streams, NEW d \in Chains
               PROVE  Kept(t, d)
    BY DEF ToldIsShown
  <2> USE DEF TypeOK, ToldIsShown
  <2>1. CASE Edit
    BY <2>1 DEF Edit
  <2>2. ASSUME NEW s \in Streams, NEW c \in Chains, Deliver(s, c)
        PROVE  Kept(t, d)
    <3>1. PICK v \in 0..work :
             /\ shown' = [shown EXCEPT ![s][c] = v]
             /\ shown[s][c] # Nothing => shown[s][c] < v
      BY <2>2 DEF Deliver
    <3>2. UNCHANGED <<work, told, lost>>
      BY <2>2 DEF Deliver
    <3>3. CASE s = t /\ c = d
      <4>1. shown'[t][d] = v
        BY <3>1, <3>3
      <4> QED
        BY <3>1, <3>2, <3>3, <4>1
    <3>4. CASE ~(s = t /\ c = d)
      <4>1. shown'[t][d] = shown[t][d]
        BY <3>1, <3>4
      <4> QED
        BY <3>2, <4>1
    <3> QED
      BY <3>3, <3>4
  <2>3. ASSUME NEW s \in Streams, NEW c \in Chains, Confirm(s, c)
        PROVE  Kept(t, d)
    <3>1. PICK v \in 0..work :
             /\ told' = [told EXCEPT ![s][c] = v]
             /\ lost[s] \/ v = shown[s][c]
      BY <2>3 DEF Confirm
    <3>2. UNCHANGED <<work, shown, lost>>
      BY <2>3 DEF Confirm
    <3>3. CASE s = t /\ c = d
      <4>1. told'[t][d] = v
        BY <3>1, <3>3
      <4> QED
        BY <3>1, <3>2, <3>3, <4>1
    <3>4. CASE ~(s = t /\ c = d)
      <4>1. told'[t][d] = told[t][d]
        BY <3>1, <3>4
      <4> QED
        BY <3>2, <4>1
    <3> QED
      BY <3>3, <3>4
  <2>4. ASSUME NEW s \in Streams, NEW c \in Chains, Withdraw(s, c)
        PROVE  Kept(t, d)
    BY <2>4 DEF Withdraw
  <2>5. ASSUME NEW s \in Streams, NEW c \in Chains, Unlearn(s, c)
        PROVE  Kept(t, d)
    <3>1. CASE s = t /\ c = d
      BY <2>5, <3>1 DEF Unlearn
    <3>2. CASE ~(s = t /\ c = d)
      BY <2>5, <3>2 DEF Unlearn
    <3> QED
      BY <3>1, <3>2
  <2>6. CASE UNCHANGED vars
    BY <2>6 DEF vars
  <2> QED
    BY <2>1, <2>2, <2>3, <2>4, <2>5, <2>6 DEF Next
<1> QED
  BY <1>1, <1>2, Typing, PTL DEF Spec
=============================================================================
