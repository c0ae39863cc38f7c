------------------------ MODULE UpdateWorktreeProofs ------------------------
(***************************************************************************)
(* Theorems about UpdateWorktree, for every set of runs, paths and trees.  *)
(***************************************************************************)
EXTENDS UpdateWorktree, TLAPS

(* Lemmas about the trees.                                                 *)

\* The empty tree is a tree.
LEMMA NoFilesTree == NoFiles \in Trees
BY DEF NoFiles, Trees, Content

\* overlay_extra_onto_code yields a tree over the same paths.
LEMMA OverlayTree ==
    ASSUME NEW c \in Trees, NEW e \in Trees
    PROVE  Overlay(c, e) \in Trees
BY DEF Overlay, Trees, Content

\* Writing one path of a tree yields a tree.
LEMMA WritePathTree ==
    ASSUME NEW t \in Trees, NEW p \in Paths, NEW b \in Content
    PROVE  [t EXCEPT ![p] = b] \in Trees
BY DEF Trees

\* A path of a tree has a content or is absent.
LEMMA TreeContent ==
    ASSUME NEW t \in Trees, NEW p \in Paths
    PROVE  t[p] \in Content
BY DEF Trees

\* Dropping a run's locals keeps their types.
LEMMA EndTypes ==
    ASSUME TypeOK, NEW r \in Runs, NEW how \in Ended, End(r, how)
    PROVE  /\ pc' \in [Runs -> Pcs]
           /\ mode' \in [Runs -> Modes]
           /\ codeTree' \in [Runs -> Trees]
           /\ target' \in [Runs -> Trees]
           /\ todo' \in [Runs -> SUBSET Paths]
           /\ unchanged' \in [Runs -> BOOLEAN]
           /\ work' \in [Runs -> BOOLEAN]
           /\ halves' \in [Runs -> SUBSET (Published \X Published)]
BY NoFilesTree DEF TypeOK, End, Pcs, Ended, Modes

-----------------------------------------------------------------------------
(* Type correctness.                                                       *)

\* A ref that moves keeps the types.
LEMMA PublishTypes ==
    ASSUME TypeOK, NEW c \in Published, NEW e \in Published, Publish(c, e)
    PROVE  TypeOK'
<1> DEFINE more(r) == halves[r] \cup {<<h[1], e>> : h \in halves[r]}
                         \cup {<<c, e>>}
<1>1. \A r \in Runs : halves[r] \in SUBSET (Published \X Published)
  BY DEF TypeOK
<1>2. \A r \in Runs : more(r) \in SUBSET (Published \X Published)
  BY <1>1
<1>3. halves' = [r \in Runs |-> IF pc[r] \in {"code", "extra"} THEN more(r)
                               ELSE halves[r]]
  BY DEF Publish
<1> HIDE DEF more
<1>4. halves' \in [Runs -> SUBSET (Published \X Published)]
  BY <1>1, <1>2, <1>3
<1> QED
  BY <1>4 DEF TypeOK, Publish, diskVars, lockVars, faultVars

\* What the rest of the system does keeps the types.
LEMMA EnvironmentTypes ==
    ASSUME TypeOK, Environment
    PROVE  TypeOK'
<1> USE DEF TypeOK, serverVars, diskVars, lockVars, runVars, faultVars
<1>1. CASE PushCode
  <2>1. PICK t \in CodeTrees : Publish(t, extra)
    BY <1>1 DEF PushCode
  <2>2. t \in Published /\ extra \in Published
    BY WorktreeAssumption DEF Published
  <2> QED
    BY <2>1, <2>2, PublishTypes
<1>2. CASE PushExtra
  <2>1. PICK t \in ExtraTrees : Publish(code, t)
    BY <1>2 DEF PushExtra
  <2>2. code \in Published /\ t \in Published
    BY WorktreeAssumption DEF Published
  <2> QED
    BY <2>1, <2>2, PublishTypes
<1>3. CASE ForgetStream
  <2>1. Publish(None, None) /\ None \in Published
    BY <1>3 DEF ForgetStream, Published
  <2> QED
    BY <2>1, PublishTypes
<1>4. CASE EditDisk
  <2>1. PICK p \in Paths, b \in Content : disk' = [disk EXCEPT ![p] = b]
    BY <1>4 DEF EditDisk
  <2>2. disk' \in Trees
    BY <2>1, WritePathTree
  <2>3. delivered' \subseteq Paths /\ edits' \in Nat
    BY <1>4 DEF EditDisk
  <2> QED
    BY <1>4, <2>2, <2>3 DEF EditDisk
<1>5. CASE LoseIndex
  BY <1>5, NoFilesTree DEF LoseIndex
<1> QED
  BY <1>1, <1>2, <1>3, <1>4, <1>5 DEF Environment

\* A run's steps up to the lock keep the types.
LEMMA BeforeLockTypes ==
    ASSUME TypeOK, NEW r \in Runs,
           \/ \E m \in Modes : Start(r, m)
           \/ ResolveCode(r) \/ ResolveExtra(r) \/ Acquire(r) \/ Contended(r)
    PROVE  TypeOK'
<1> USE DEF TypeOK, serverVars, diskVars, lockVars, runVars, faultVars
<1>1. CASE \E m \in Modes : Start(r, m)
  <2>1. <<code, extra>> \in Published \X Published
    OBVIOUS
  <2>2. halves' \in [Runs -> SUBSET (Published \X Published)]
    BY <1>1, <2>1 DEF Start
  <2> QED
    BY <1>1, <2>2 DEF Start, Pcs
<1>2. CASE ResolveCode(r)
  <2>1. CASE End(r, "failed")
    BY <1>2, <2>1, EndTypes DEF ResolveCode, Ended
  <2>2. CASE code # None
    BY <1>2, <2>2 DEF ResolveCode, Pcs, Published
  <2> QED
    BY <1>2, <2>1, <2>2 DEF ResolveCode
<1>3. CASE ResolveExtra(r)
  <2>1. target' \in [Runs -> Trees]
    BY <1>3, OverlayTree DEF ResolveExtra, Published
  <2> QED
    BY <1>3, <2>1, NoFilesTree DEF ResolveExtra, Pcs
<1>4. CASE Acquire(r)
  BY <1>4 DEF Acquire, Pcs, Holding, Modes
<1>5. CASE Contended(r)
  BY <1>5, EndTypes DEF Contended, Ended
<1> QED
  BY <1>1, <1>2, <1>3, <1>4, <1>5

\* A run's steps under the lock keep the types.
LEMMA CheckoutTypes ==
    ASSUME TypeOK, NEW r \in Runs,
           \/ Measure(r) \/ SpawnReadTree(r) \/ SpawnClean(r) \/ Return(r)
           \/ GitStep(r)
    PROVE  TypeOK'
<1> USE DEF TypeOK, serverVars, diskVars, lockVars, runVars, faultVars
<1>1. CASE Measure(r)
  BY <1>1 DEF Measure, Pcs, Holding
<1>2. CASE SpawnReadTree(r)
  <2>1. CASE End(r, "failed")
    BY <1>2, <2>1, EndTypes DEF SpawnReadTree, Ended
  <2>2. CASE indexLock = None
    BY <1>2, <2>2 DEF SpawnReadTree, Pcs, Holding
  <2> QED
    BY <1>2, <2>1, <2>2 DEF SpawnReadTree
<1>3. CASE SpawnClean(r)
  BY <1>3 DEF SpawnClean, Pcs, Holding
<1>4. CASE Return(r)
  <2>1. End(r, "ok")
    BY <1>4 DEF Return
  <2>2. /\ lastTree' \in Trees \cup {None}
        /\ faulted' \in BOOLEAN /\ skewed' \in BOOLEAN
    BY <1>4 DEF Return
  <2> QED
    BY <1>4, <2>1, <2>2, EndTypes DEF Return, Ended
<1>5. CASE ReadTreePath(r)
  <2>1. PICK p \in todo[r] : disk' = [disk EXCEPT ![p] = target[r][p]]
    BY <1>5 DEF ReadTreePath
  <2>2. disk' \in Trees
    BY <2>1, WritePathTree, TreeContent
  <2>3. todo' \in [Runs -> SUBSET Paths] /\ delivered' \subseteq Paths
    BY <1>5 DEF ReadTreePath
  <2> QED
    BY <1>5, <2>2, <2>3 DEF ReadTreePath
<1>6. CASE ReadTreeEnd(r)
  <2>1. CASE End(r, "killed")
    BY <1>6, <2>1, EndTypes DEF ReadTreeEnd, Ended
  <2>2. CASE pc[r] = "reading"
    BY <1>6, <2>2 DEF ReadTreeEnd, Pcs, Holding
  <2>3. End(r, "killed") \/ pc[r] = "reading"
    BY <1>6 DEF ReadTreeEnd
  <2> QED
    BY <2>1, <2>2, <2>3
<1>7. CASE CleanPath(r)
  <2>1. PICK p \in todo[r] : disk' = [disk EXCEPT ![p] = Absent]
    BY <1>7 DEF CleanPath
  <2>2. disk' \in Trees
    BY <2>1, WritePathTree DEF Content
  <2>3. todo' \in [Runs -> SUBSET Paths] /\ delivered' \subseteq Paths
    BY <1>7 DEF CleanPath
  <2> QED
    BY <1>7, <2>2, <2>3 DEF CleanPath
<1>8. CASE CleanEnd(r)
  <2>1. CASE End(r, "killed")
    BY <1>8, <2>1, EndTypes DEF CleanEnd, Ended
  <2>2. CASE pc[r] = "cleaning"
    BY <1>8, <2>2 DEF CleanEnd, Pcs, Holding
  <2> QED
    BY <1>8, <2>1, <2>2 DEF CleanEnd
<1> QED
  BY <1>1, <1>2, <1>3, <1>4, <1>5, <1>6, <1>7, <1>8 DEF GitStep

\* Failures and kills keep the types.
LEMMA FaultTypes ==
    ASSUME TypeOK, NEW r \in Runs, Fault(r)
    PROVE  TypeOK'
<1> USE DEF TypeOK, serverVars, diskVars, lockVars, runVars, faultVars
<1>1. CASE Fails(r)
  BY <1>1, EndTypes DEF Fails, Failing, Ended
<1>2. CASE Terminated(r)
  BY <1>2, EndTypes DEF Terminated, Killed, Ended
<1>3. CASE PowerLost(r)
  BY <1>3, EndTypes DEF PowerLost, Killed, Ended
<1>4. CASE Orphaned(r)
  <2>1. CASE End(r, "killed")
    BY <1>4, <2>1, EndTypes DEF Orphaned, Killed, Ended
  <2>2. CASE pc[r] \in {"reading", "cleaning"}
    BY <1>4, <2>2 DEF Orphaned, Killed, Pcs, Orphans
  <2> QED
    BY <1>4, <2>1, <2>2 DEF Orphaned
<1> QED
  BY <1>1, <1>2, <1>3, <1>4 DEF Fault

\* Every step keeps the types.
LEMMA TypePreserved ==
    ASSUME TypeOK, [Next]_vars
    PROVE  TypeOK'
<1>1. CASE Environment
  BY <1>1, EnvironmentTypes
<1>2. ASSUME NEW r \in Runs,
             \/ \E m \in Modes : Start(r, m)
             \/ RunStep(r)
      PROVE  TypeOK'
  BY <1>2, BeforeLockTypes, CheckoutTypes DEF RunStep
<1>3. ASSUME NEW r \in Runs, Fault(r)
      PROVE  TypeOK'
  BY <1>3, FaultTypes
<1>4. CASE UNCHANGED vars
  BY <1>4 DEF TypeOK, vars, serverVars, diskVars, lockVars, runVars, faultVars
<1> QED
  BY <1>1, <1>2, <1>3, <1>4 DEF Next

\* Every variable keeps its type.
THEOREM TypeInvariant == Spec => []TypeOK
<1>1. Init => TypeOK
  <2> SUFFICES ASSUME Init
               PROVE  TypeOK
    OBVIOUS
  <2>1. pc \in [Runs -> Pcs] /\ mode \in [Runs -> Modes]
    BY DEF Init, Pcs, Modes
  <2>2. /\ codeTree \in [Runs -> Trees]
        /\ target \in [Runs -> Trees]
        /\ todo \in [Runs -> SUBSET Paths]
    BY NoFilesTree DEF Init
  <2> QED
    BY <2>1, <2>2, NoFilesTree DEF Init, TypeOK, Published
<1>2. TypeOK /\ [Next]_vars => TypeOK'
  BY TypePreserved
<1> QED
  BY <1>1, <1>2, PTL DEF Spec

-----------------------------------------------------------------------------
(* Locks.                                                                  *)

\* A run holds the worktree lock exactly while it is between taking it and
\* giving it up, and a read-tree holds index.lock exactly while it works.
LockInv ==
    \A r \in Runs :
        /\ pc[r] \in Holding <=> lock = r
        /\ pc[r] \in {"reading", "orphan_reading"} <=> indexLock = r

\* A step of one run keeps both locks with their holders.
LEMMA RunKeepsLocks ==
    ASSUME TypeOK, LockInv, NEW r \in Runs,
           \/ \E m \in Modes : Start(r, m)
           \/ RunStep(r)
           \/ Fault(r)
    PROVE  LockInv'
<1> SUFFICES ASSUME NEW q \in Runs
             PROVE  (/\ pc[q] \in Holding <=> lock = q
                     /\ pc[q] \in {"reading", "orphan_reading"}
                           <=> indexLock = q)'
  BY DEF LockInv
<1> USE WorktreeAssumption DEF TypeOK, LockInv, Holding, Orphans, lockVars
<1>1. CASE \E m \in Modes : Start(r, m)
  BY <1>1 DEF Start
<1>2. CASE ResolveCode(r)
  BY <1>2 DEF ResolveCode, End
<1>3. CASE ResolveExtra(r)
  BY <1>3 DEF ResolveExtra
<1>4. CASE Acquire(r)
  BY <1>4 DEF Acquire
<1>5. CASE Contended(r)
  BY <1>5 DEF Contended, End
<1>6. CASE Measure(r)
  BY <1>6 DEF Measure
<1>7. CASE SpawnReadTree(r)
  BY <1>7 DEF SpawnReadTree, End
<1>8. CASE SpawnClean(r)
  BY <1>8 DEF SpawnClean
<1>9. CASE Return(r)
  BY <1>9 DEF Return, End
<1>10. CASE ReadTreePath(r)
  BY <1>10 DEF ReadTreePath
<1>11. CASE ReadTreeEnd(r)
  BY <1>11 DEF ReadTreeEnd, End
<1>12. CASE CleanPath(r)
  BY <1>12 DEF CleanPath
<1>13. CASE CleanEnd(r)
  BY <1>13 DEF CleanEnd, End
<1>14. CASE Fails(r)
  BY <1>14 DEF Fails, Failing, End
<1>15. CASE Terminated(r)
  BY <1>15 DEF Terminated, Killed, End
<1>16. CASE PowerLost(r)
  BY <1>16 DEF PowerLost, Killed, End
<1>17. CASE Orphaned(r)
  BY <1>17 DEF Orphaned, Killed, End
<1> QED
  BY <1>1, <1>2, <1>3, <1>4, <1>5, <1>6, <1>7, <1>8, <1>9, <1>10, <1>11, <1>12, <1>13, <1>14, <1>15, <1>16, <1>17
     DEF RunStep, GitStep, Fault

\* Nothing the rest of the system does touches the locks.
LEMMA EnvironmentKeepsLocks ==
    ASSUME Environment
    PROVE  UNCHANGED <<pc, lock, indexLock>>
BY DEF Environment, PushCode, PushExtra, ForgetStream, Publish, EditDisk,
       LoseIndex, lockVars

\* The worktree lock and index.lock are where the runs' control says.
THEOREM LockInvariant == Spec => []LockInv
<1>1. Init => LockInv
  BY WorktreeAssumption DEF Init, LockInv, Holding
<1>2. TypeOK /\ LockInv /\ [Next]_vars => LockInv'
  <2> SUFFICES ASSUME TypeOK, LockInv, [Next]_vars
               PROVE  LockInv'
    OBVIOUS
  <2>1. CASE Environment
    BY <2>1, EnvironmentKeepsLocks DEF LockInv
  <2>2. ASSUME NEW r \in Runs,
               \/ \E m \in Modes : Start(r, m)
               \/ RunStep(r)
               \/ Fault(r)
        PROVE  LockInv'
    BY <2>2, RunKeepsLocks
  <2>3. CASE UNCHANGED vars
    BY <2>3 DEF LockInv, vars, lockVars
  <2> QED
    BY <2>1, <2>2, <2>3 DEF Next
<1> QED
  BY <1>1, <1>2, TypeInvariant, PTL DEF Spec

\* The per-worktree lock excludes: no two runs are in the checkout at once,
\* whatever fails or is killed.
THEOREM Exclusion == Spec => []MutualExclusion
<1>1. LockInv => MutualExclusion
  BY DEF LockInv, MutualExclusion
<1> QED
  BY <1>1, LockInvariant, PTL

\* No two read-trees work at once, orphaned ones included.
THEOREM ReadTreeExclusion == Spec => []OneReadTree
<1>1. LockInv => OneReadTree
  BY DEF LockInv, OneReadTree
<1> QED
  BY <1>1, LockInvariant, PTL
-----------------------------------------------------------------------------
(* What the checkout leaves in the worktree.  The theorems below relate    *)
(* the disk, the persistent index and `last-tree` to the tree a run checks *)
(* out; they rest on the lock: nobody else touches the three while a run   *)
(* is in the checkout.                                                     *)


\* A step of a run that a clean kill or no kill has left in charge of its git
\* step disturbs nothing that another run relies on.
LEMMA OthersUndisturbed ==
    ASSUME TypeOK, LockInv,
           NEW r \in Runs, pc[r] \notin Orphans,
           \/ \E m \in Modes : Start(r, m)
           \/ RunStep(r)
           \/ Fault(r),
           NEW q \in Runs, q # r
    PROVE  /\ pc'[q] = pc[q]
           /\ target'[q] = target[q]
           /\ todo'[q] = todo[q]
           /\ unchanged'[q] = unchanged[q]
           /\ work'[q] = work[q]
           /\ pc[q] \in Holding =>
                  UNCHANGED <<disk, index, lastTree, delivered>>
<1>0. pc[q] \in Holding => pc[r] \notin Holding
  BY WorktreeAssumption DEF LockInv
<1> USE <1>0 DEF TypeOK, Holding, Orphans, diskVars, runVars
<1>1. CASE \E m \in Modes : Start(r, m)
  BY <1>1 DEF Start
<1>2. CASE ResolveCode(r)
  BY <1>2 DEF ResolveCode, End
<1>3. CASE ResolveExtra(r)
  BY <1>3 DEF ResolveExtra
<1>4. CASE Acquire(r)
  BY <1>4 DEF Acquire
<1>5. CASE Contended(r)
  BY <1>5 DEF Contended, End
<1>6. CASE Measure(r)
  BY <1>6 DEF Measure
<1>7. CASE SpawnReadTree(r)
  BY <1>7 DEF SpawnReadTree, End
<1>8. CASE SpawnClean(r)
  BY <1>8 DEF SpawnClean
<1>9. CASE Return(r)
  BY <1>9 DEF Return, End
<1>10. CASE ReadTreePath(r)
  BY <1>10 DEF ReadTreePath
<1>11. CASE ReadTreeEnd(r)
  BY <1>11 DEF ReadTreeEnd, End
<1>12. CASE CleanPath(r)
  BY <1>12 DEF CleanPath
<1>13. CASE CleanEnd(r)
  BY <1>13 DEF CleanEnd, End
<1>14. CASE Fails(r)
  BY <1>14 DEF Fails, Failing, End
<1>15. CASE Terminated(r)
  BY <1>15 DEF Terminated, Killed, End
<1>16. CASE PowerLost(r)
  BY <1>16 DEF PowerLost, Killed, End
<1>17. CASE Orphaned(r)
  BY <1>17 DEF Orphaned, Killed, End
<1> QED
  BY <1>1, <1>2, <1>3, <1>4, <1>5, <1>6, <1>7, <1>8, <1>9, <1>10, <1>11, <1>12, <1>13, <1>14, <1>15, <1>16, <1>17
     DEF RunStep, GitStep, Fault

\* The rest of the system leaves the runs alone, and the worktree too while
\* a run is in the checkout.
LEMMA EnvironmentUndisturbing ==
    ASSUME LockInv, Environment
    PROVE  /\ UNCHANGED <<pc, target, todo, unchanged, work>>
           /\ \A q \in Runs : pc[q] \in Holding =>
                  UNCHANGED <<disk, index, lastTree, delivered>>
BY WorktreeAssumption
   DEF LockInv, Environment, PushCode, PushExtra, ForgetStream, Publish,
       EditDisk, LoseIndex, diskVars, runVars

-----------------------------------------------------------------------------
(* The checkout matches the tree.                                          *)

\* Where a checkout stands: what read-tree still owes, what clean still owes,
\* and that the index is the tree while clean works from it.
CheckoutInv(r) ==
    /\ pc[r] \notin Orphans
    /\ pc[r] = "reading" =>
          \A p \in Paths : target[r][p] # Absent =>
              p \in todo[r] \/ disk[p] = target[r][p]
    /\ pc[r] \in {"clean", "cleaning", "record"} =>
          /\ index = target[r]
          /\ \A p \in Paths : target[r][p] # Absent => disk[p] = target[r][p]
    /\ pc[r] = "cleaning" =>
          \A p \in Paths :
              /\ p \in todo[r] => target[r][p] = Absent
              /\ target[r][p] = Absent /\ p \notin Ignored =>
                    disk[p] = Absent \/ p \in todo[r]
    /\ pc[r] = "record" =>
          \A p \in Paths \ Ignored :
              target[r][p] = Absent => disk[p] = Absent

\* A run's own step keeps its checkout on course, if no orphan is made.
LEMMA RunKeepsCheckout ==
    ASSUME TypeOK, NEW r \in Runs, CheckoutInv(r), "orphan" \notin Faults,
           \/ \E m \in Modes : Start(r, m)
           \/ RunStep(r)
           \/ Fault(r)
    PROVE  CheckoutInv(r)'
<1> USE DEF TypeOK, CheckoutInv, Orphans, Trees, diskVars, runVars
<1>1. CASE \E m \in Modes : Start(r, m)
  BY <1>1 DEF Start
<1>2. CASE ResolveCode(r)
  BY <1>2 DEF ResolveCode, End
<1>3. CASE ResolveExtra(r)
  BY <1>3 DEF ResolveExtra
<1>4. CASE Acquire(r)
  BY <1>4 DEF Acquire
<1>5. CASE Contended(r)
  BY <1>5 DEF Contended, End
<1>6. CASE Measure(r)
  BY <1>6 DEF Measure
<1>7. CASE SpawnReadTree(r)
  BY <1>7 DEF SpawnReadTree, End
<1>8. CASE SpawnClean(r)
  BY <1>8 DEF SpawnClean
<1>9. CASE Return(r)
  BY <1>9 DEF Return, End
<1>10. CASE ReadTreePath(r)
  BY <1>10 DEF ReadTreePath
<1>11. CASE ReadTreeEnd(r)
  BY <1>11 DEF ReadTreeEnd, End
<1>12. CASE CleanPath(r)
  BY <1>12 DEF CleanPath
<1>13. CASE CleanEnd(r)
  BY <1>13 DEF CleanEnd, End
<1>14. CASE Fails(r)
  BY <1>14 DEF Fails, Failing, End
<1>15. CASE Terminated(r)
  BY <1>15 DEF Terminated, Killed, End
<1>16. CASE PowerLost(r)
  BY <1>16 DEF PowerLost, Killed, End
<1>17. CASE Orphaned(r)
  BY <1>17 DEF Orphaned, Killed, End
<1> QED
  BY <1>1, <1>2, <1>3, <1>4, <1>5, <1>6, <1>7, <1>8, <1>9, <1>10, <1>11, <1>12, <1>13, <1>14, <1>15, <1>16, <1>17
     DEF RunStep, GitStep, Fault

\* Every checkout stays on course.
LEMMA StepKeepsCheckouts ==
    ASSUME TypeOK, LockInv, \A q \in Runs : CheckoutInv(q),
           "orphan" \notin Faults, [Next]_vars
    PROVE  \A q \in Runs : CheckoutInv(q)'
<1> SUFFICES ASSUME NEW q \in Runs
             PROVE  CheckoutInv(q)'
  OBVIOUS
<1>1. CASE Environment
  BY <1>1, EnvironmentUndisturbing DEF CheckoutInv, Holding
<1>2. ASSUME NEW r \in Runs,
             \/ \E m \in Modes : Start(r, m)
             \/ RunStep(r)
             \/ Fault(r)
      PROVE  CheckoutInv(q)'
  <2>1. CASE q = r
    BY <1>2, <2>1, RunKeepsCheckout
  <2>2. CASE q # r
    <3>1. pc[r] \notin Orphans
      BY DEF CheckoutInv
    <3>2. /\ pc'[q] = pc[q] /\ target'[q] = target[q] /\ todo'[q] = todo[q]
          /\ pc[q] \in Holding => UNCHANGED <<disk, index>>
      BY <1>2, <2>2, <3>1, OthersUndisturbed
    <3> QED
      BY <3>2 DEF CheckoutInv, Holding
  <2> QED
    BY <2>1, <2>2
<1>3. CASE UNCHANGED vars
  BY <1>3 DEF CheckoutInv, vars, diskVars, runVars
<1> QED
  BY <1>1, <1>2, <1>3 DEF Next

\* When no git step outlives its run, a checkout that succeeds leaves the
\* worktree matching the run's tree, whatever edits, failures, clean kills
\* and losses of the index came before.
THEOREM CheckoutMatches ==
    ASSUME "orphan" \notin Faults
    PROVE  Spec => []CheckoutMatchesTree
<1> DEFINE Inv == \A r \in Runs : CheckoutInv(r)
<1>1. Init => Inv
  BY DEF Init, CheckoutInv, Orphans
<1>2. TypeOK /\ LockInv /\ Inv /\ [Next]_vars => Inv'
  BY StepKeepsCheckouts
<1>3. Inv => CheckoutMatchesTree
  BY DEF CheckoutInv, CheckoutMatchesTree
<1> HIDE DEF Inv
<1> QED
  BY <1>1, <1>2, <1>3, TypeInvariant, LockInvariant, PTL DEF Spec

-----------------------------------------------------------------------------
(* A run that has written the index finds it as it wrote it.               *)

\* No read-tree is at work while a run is past its own.
SettledInv ==
    \A r \in Runs : pc[r] \in Settled =>
        /\ index = target[r]
        /\ \A q \in Runs : pc[q] # "orphan_reading"

\* A step of a run leaves the control and the tree of every other alone.
LEMMA OthersKeepTarget ==
    ASSUME TypeOK, NEW r \in Runs,
           \/ \E m \in Modes : Start(r, m)
           \/ RunStep(r)
           \/ Fault(r),
           NEW q \in Runs, q # r
    PROVE  /\ pc'[q] = pc[q]
           /\ target'[q] = target[q]
           /\ codeTree'[q] = codeTree[q]
           /\ halves'[q] = halves[q]
BY DEF TypeOK, RunStep, Fault, GitStep, Start, ResolveCode, ResolveExtra,
       Acquire, Contended, Measure, SpawnReadTree, ReadTreePath, ReadTreeEnd,
       SpawnClean, CleanPath, CleanEnd, Return, Fails, Terminated, PowerLost,
       Orphaned, Killed, End, runVars

\* A step of a run keeps it.
LEMMA RunKeepsSettled ==
    ASSUME TypeOK, LockInv, SettledInv, NEW r \in Runs,
           \/ \E m \in Modes : Start(r, m)
           \/ RunStep(r)
           \/ Fault(r)
    PROVE  SettledInv'
<1>0. /\ pc[r] \in Holding => \A q \in Runs : q # r => pc[q] \notin Holding
      /\ pc[r] \in {"reading", "orphan_reading"} =>
            \A q \in Runs : q # r =>
               pc[q] \notin {"reading", "orphan_reading"}
  BY WorktreeAssumption DEF LockInv
<1>1. \A q \in Runs : q # r => pc'[q] = pc[q] /\ target'[q] = target[q]
  BY OthersKeepTarget
<1> USE <1>0, <1>1 DEF TypeOK, SettledInv, Settled, Holding, Orphans
\* A run that settles, or is, keeps its tree, and no other disturbs it.
<1>within. ASSUME index' = index,
                 pc'[r] \in Settled =>
                    pc[r] \in Settled /\ target'[r] = target[r],
                 pc'[r] = "orphan_reading" => pc[r] = "orphan_reading"
           PROVE  SettledInv'
  <2>1. ASSUME NEW q \in Runs, pc'[q] \in Settled
        PROVE  /\ index' = target'[q]
               /\ \A p \in Runs : pc'[p] # "orphan_reading"
    <3>1. pc[q] \in Settled /\ target'[q] = target[q]
      BY <1>within, <2>1
    <3>2. index = target[q] /\ \A p \in Runs : pc[p] # "orphan_reading"
      BY <3>1
    <3> QED
      BY <1>within, <3>1, <3>2
  <2> QED
    BY <2>1
<1>2. CASE \/ \E m \in Modes : Start(r, m)
           \/ ResolveCode(r) \/ ResolveExtra(r) \/ Acquire(r) \/ Contended(r)
  <2>1. pc'[r] \notin Settled \cup Orphans /\ index' = index
    BY <1>2 DEF Start, ResolveCode, ResolveExtra, Acquire, Contended, End,
                diskVars
  <2> QED
    BY <1>within, <2>1
<1>3. CASE Measure(r) \/ SpawnReadTree(r) \/ Return(r)
  <2>1. pc'[r] \notin Settled \cup Orphans /\ index' = index
    BY <1>3 DEF Measure, SpawnReadTree, Return, End, diskVars
  <2> QED
    BY <1>within, <2>1
<1>4. CASE ReadTreePath(r)
  <2>1. pc' = pc /\ target' = target /\ index' = index
    BY <1>4 DEF ReadTreePath
  <2> QED
    BY <1>within, <2>1
<1>5. CASE ReadTreeEnd(r)
  <2>1. CASE pc[r] = "reading"
    <3>1. pc' = [pc EXCEPT ![r] = "clean"] /\ target' = target
          /\ index' = target[r]
      BY <1>5, <2>1 DEF ReadTreeEnd, runVars
    <3> QED
      BY <2>1, <3>1
  <2>2. CASE pc[r] = "orphan_reading"
    <3>1. pc' = [pc EXCEPT ![r] = "killed"]
      BY <1>5, <2>2 DEF ReadTreeEnd, End
    <3>2. \A q \in Runs : pc[q] \notin Settled
      BY <2>2
    <3> QED
      BY <3>1, <3>2
  <2> QED
    BY <1>5, <2>1, <2>2 DEF ReadTreeEnd
<1>6. CASE SpawnClean(r) \/ CleanPath(r)
  <2>1. /\ pc[r] \in {"clean", "cleaning", "orphan_cleaning"}
        /\ pc'[r] \in {"cleaning", "orphan_cleaning"}
        /\ pc[r] = "orphan_cleaning" => pc'[r] = "orphan_cleaning"
        /\ target' = target /\ index' = index
    BY <1>6 DEF SpawnClean, CleanPath, diskVars
  <2> QED
    BY <1>within, <2>1
<1>7. CASE CleanEnd(r)
  <2>1. CASE pc[r] = "cleaning"
    <3>1. pc'[r] = "record" /\ target' = target /\ index' = index
      BY <1>7, <2>1 DEF CleanEnd, diskVars, runVars
    <3> QED
      BY <1>within, <2>1, <3>1
  <2>2. CASE pc[r] = "orphan_cleaning"
    <3>1. pc'[r] = "killed" /\ index' = index
      BY <1>7, <2>2 DEF CleanEnd, End, diskVars
    <3> QED
      BY <1>within, <3>1
  <2> QED
    BY <1>7, <2>1, <2>2 DEF CleanEnd
<1>8. CASE Fails(r) \/ Terminated(r) \/ PowerLost(r)
  <2>1. pc'[r] \in {"failed", "killed"} /\ index' = index
    BY <1>8 DEF Fails, Terminated, PowerLost, Killed, End, diskVars
  <2> QED
    BY <1>within, <2>1
<1>9. CASE Orphaned(r)
  <2>1. /\ pc[r] \in Holding /\ index' = index
        /\ pc'[r] \in Orphans \cup {"killed"}
    BY <1>9 DEF Orphaned, Killed, End, diskVars
  <2>2. \A q \in Runs : pc'[q] \notin Settled
    BY <2>1
  <2> QED
    BY <2>2
<1> QED
  BY <1>2, <1>3, <1>4, <1>5, <1>6, <1>7, <1>8, <1>9
     DEF RunStep, GitStep, Fault

\* The index is the tree of the run that has written it until the run ends.
THEOREM SettledInvariant == Spec => []SettledInv
<1>1. Init => SettledInv
  BY DEF Init, SettledInv, Settled
<1>2. TypeOK /\ LockInv /\ SettledInv /\ [Next]_vars => SettledInv'
  <2> SUFFICES ASSUME TypeOK, LockInv, SettledInv, [Next]_vars
               PROVE  SettledInv'
    OBVIOUS
  <2>1. CASE Environment
    <3>1. /\ UNCHANGED <<pc, target>>
          /\ \A q \in Runs : pc[q] \in Holding => UNCHANGED index
      BY <2>1, EnvironmentUndisturbing
    <3> QED
      BY <3>1 DEF SettledInv, Settled, Holding
  <2>2. ASSUME NEW r \in Runs,
               \/ \E m \in Modes : Start(r, m)
               \/ RunStep(r)
               \/ Fault(r)
        PROVE  SettledInv'
    BY <2>2, RunKeepsSettled
  <2>3. CASE UNCHANGED vars
    BY <2>3 DEF SettledInv, vars, diskVars, runVars
  <2> QED
    BY <2>1, <2>2, <2>3 DEF Next
<1> QED
  BY <1>1, <1>2, TypeInvariant, LockInvariant, PTL DEF Spec

-----------------------------------------------------------------------------
(* Dropped files, while every run ended as it should.                      *)

\* What the index records while nothing has failed: every delivered path,
\* except those read-tree is about to drop.
DeliveredInv ==
    /\ \A r \in Runs : pc[r] \notin Orphans
    /\ \/ \A p \in delivered : index[p] # Absent
       \/ \E r \in Runs : pc[r] = "reading"
    /\ \A r \in Runs : pc[r] = "reading" =>
          \A p \in delivered : target[r][p] # Absent \/ p \in todo[r]

\* A step of a run that is no fault keeps it.
LEMMA RunKeepsDelivered ==
    ASSUME TypeOK, LockInv, DeliveredInv, NEW r \in Runs,
           \/ \E m \in Modes : Start(r, m)
           \/ RunStep(r)
           \/ Fault(r),
           faulted' = FALSE
    PROVE  DeliveredInv'
<1>0. /\ pc[r] \notin Orphans
      /\ pc[r] \in Holding =>
            \A q \in Runs : q # r => pc[q] \notin Holding
  BY WorktreeAssumption DEF LockInv, DeliveredInv
<1>1. \A q \in Runs : q # r =>
          pc'[q] = pc[q] /\ target'[q] = target[q] /\ todo'[q] = todo[q]
  BY <1>0, OthersUndisturbed
<1> USE <1>0, <1>1 DEF TypeOK, DeliveredInv, Settled, Holding, Orphans, Trees,
                      diskVars, runVars
<1>outside. ASSUME pc[r] # "reading",
                  pc'[r] \notin {"reading"} \cup Orphans,
                  index' = index, delivered' \subseteq delivered
            PROVE  DeliveredInv'
  <2>1. \A q \in Runs : pc'[q] \in {"reading"} \cup Orphans => q # r
    BY <1>outside
  <2>2. \/ \A p \in delivered' : index'[p] # Absent
        \/ \E q \in Runs : pc'[q] = "reading"
    BY <1>outside
  <2>3. ASSUME NEW q \in Runs
        PROVE  /\ pc'[q] \notin Orphans
               /\ pc'[q] = "reading" =>
                     \A p \in delivered' :
                        target'[q][p] # Absent \/ p \in todo'[q]
    <3>1. CASE q = r
      BY <1>outside, <3>1
    <3>2. CASE q # r
      BY <1>outside, <3>2
    <3> QED
      BY <3>1, <3>2
  <2> QED
    BY <2>2, <2>3
<1>2. CASE \E m \in Modes : Start(r, m)
  <2>1. pc[r] = "idle" /\ pc'[r] = "code" /\ UNCHANGED diskVars
    BY <1>2 DEF Start
  <2> QED
    BY <1>outside, <2>1
<1>3. CASE ResolveCode(r)
  <2>1. /\ pc[r] = "code" /\ pc'[r] \in {"extra", "failed"}
        /\ UNCHANGED diskVars
    BY <1>3 DEF ResolveCode, End
  <2> QED
    BY <1>outside, <2>1
<1>4. CASE ResolveExtra(r)
  <2>1. pc[r] = "extra" /\ pc'[r] = "lock" /\ UNCHANGED diskVars
    BY <1>4 DEF ResolveExtra
  <2> QED
    BY <1>outside, <2>1
<1>5. CASE Acquire(r)
  <2>1. pc[r] = "lock" /\ pc'[r] = "measure" /\ UNCHANGED diskVars
    BY <1>5 DEF Acquire
  <2> QED
    BY <1>outside, <2>1
<1>6. CASE Contended(r)
  <2>1. pc[r] = "lock" /\ pc'[r] = "failed" /\ UNCHANGED diskVars
    BY <1>6 DEF Contended, End
  <2> QED
    BY <1>outside, <2>1
<1>7. CASE Measure(r)
  <2>1. pc[r] = "measure" /\ pc'[r] = "readtree" /\ UNCHANGED diskVars
    BY <1>7 DEF Measure
  <2> QED
    BY <1>outside, <2>1
<1>8. CASE SpawnReadTree(r)
  <2>1. \A q \in Runs : pc[q] # "reading"
    BY <1>8 DEF SpawnReadTree
  <2>2. \A p \in delivered : index[p] # Absent
    BY <2>1
  <2>3. CASE indexLock = None
    <3>1. /\ pc'[r] = "reading" /\ target'[r] = target[r]
          /\ todo'[r] = {p \in Paths : \/ target[r][p] # Absent
                                       \/ index[p] # Absent}
          /\ UNCHANGED <<disk, index, delivered>>
      BY <1>8, <2>3 DEF SpawnReadTree
    <3>2. \A p \in delivered' : target'[r][p] # Absent \/ p \in todo'[r]
      BY <2>2, <3>1
    <3> QED
      BY <1>8, <3>1, <3>2 DEF SpawnReadTree
  <2>4. CASE End(r, "failed")
    <3>1. pc[r] = "readtree" /\ pc'[r] = "failed" /\ UNCHANGED diskVars
      BY <1>8, <2>4 DEF SpawnReadTree, End
    <3> QED
      BY <1>outside, <3>1
  <2> QED
    BY <1>8, <2>3, <2>4 DEF SpawnReadTree
<1>9. CASE SpawnClean(r)
  <2>1. pc[r] = "clean" /\ pc'[r] = "cleaning" /\ UNCHANGED diskVars
    BY <1>9 DEF SpawnClean
  <2> QED
    BY <1>outside, <2>1
<1>10. CASE Return(r)
  <2>1. pc[r] = "record" /\ pc'[r] = "ok" /\ UNCHANGED <<index, delivered>>
    BY <1>10 DEF Return, End
  <2> QED
    BY <1>outside, <2>1
<1>11. CASE ReadTreePath(r)
  BY <1>11 DEF ReadTreePath
<1>12. CASE ReadTreeEnd(r)
  <2>1. CASE pc[r] = "reading"
    <3>1. /\ pc'[r] = "clean" /\ index' = target[r]
          /\ UNCHANGED <<disk, lastTree, delivered, runVars>>
      BY <1>12, <2>1 DEF ReadTreeEnd
    <3>2. \A p \in delivered : target[r][p] # Absent
      BY <1>12, <2>1 DEF ReadTreeEnd
    <3>3. \A q \in Runs : q # r => pc'[q] \notin Holding
      BY <1>12, <2>1 DEF ReadTreeEnd
    <3> QED
      BY <1>12, <3>1, <3>2, <3>3
  <2> QED
    BY <1>12, <2>1 DEF ReadTreeEnd
<1>13. CASE CleanPath(r)
  <2>1. /\ pc[r] = "cleaning" /\ pc'[r] = "cleaning" /\ index' = index
        /\ delivered' \subseteq delivered
    BY <1>13 DEF CleanPath
  <2> QED
    BY <1>outside, <2>1
<1>14. CASE CleanEnd(r)
  <2>1. pc[r] = "cleaning" /\ pc'[r] = "record" /\ UNCHANGED diskVars
    BY <1>14 DEF CleanEnd
  <2> QED
    BY <1>outside, <2>1
<1>15. CASE Fails(r)
  <2>1. /\ pc[r] # "reading" /\ pc'[r] = "failed" /\ UNCHANGED diskVars
    BY <1>15 DEF Fails, Failing, End
  <2> QED
    BY <1>outside, <2>1
<1>16. CASE Terminated(r)
  BY <1>16 DEF Terminated, Killed, End
<1>17. CASE PowerLost(r)
  BY <1>17 DEF PowerLost, Killed, End
<1>18. CASE Orphaned(r)
  BY <1>18 DEF Orphaned, Killed, End
<1> QED
  BY <1>2, <1>3, <1>4, <1>5, <1>6, <1>7, <1>8, <1>9, <1>10, <1>11, <1>12, <1>13, <1>14, <1>15, <1>16, <1>17, <1>18
     DEF RunStep, GitStep, Fault

\* What the environment leaves alone, and what it may only take away.
LEMMA EnvironmentKeepsRecords ==
    ASSUME Environment
    PROVE  /\ UNCHANGED <<pc, target, todo>>
           /\ delivered' \subseteq delivered
           /\ index' # index => faulted'
BY DEF Environment, PushCode, PushExtra, ForgetStream, Publish, EditDisk,
       LoseIndex, diskVars, runVars, faultVars

\* A fault is never taken back.
LEMMA FaultedForGood ==
    ASSUME TypeOK, [Next]_vars, faulted
    PROVE  faulted'
BY DEF TypeOK, Next, Environment, RunStep, Fault, GitStep, PushCode, PushExtra,
       ForgetStream, Publish, EditDisk, LoseIndex, Start, ResolveCode,
       ResolveExtra, Acquire, Contended, Measure, SpawnReadTree, ReadTreePath,
       ReadTreeEnd, SpawnClean, CleanPath, CleanEnd, Return, Fails,
       Terminated, PowerLost, Orphaned, Killed, vars, faultVars

\* The index tells what was delivered until something fails.
THEOREM DeliveredInvariant == Spec => [](faulted \/ DeliveredInv)
<1> DEFINE Inv == faulted \/ DeliveredInv
<1>1. Init => Inv
  BY DEF Init, DeliveredInv, Orphans
<1>2. TypeOK /\ LockInv /\ Inv /\ [Next]_vars => Inv'
  <2> SUFFICES ASSUME TypeOK, LockInv, DeliveredInv, [Next]_vars,
                      faulted' = FALSE
               PROVE  DeliveredInv'
    <3>1. ASSUME TypeOK, [Next]_vars
          PROVE  faulted' \in BOOLEAN
      BY <3>1, TypePreserved DEF TypeOK
    <3> QED
      BY <3>1, FaultedForGood DEF TypeOK
  <2>1. CASE Environment
    BY <2>1, EnvironmentKeepsRecords DEF DeliveredInv
  <2>2. ASSUME NEW r \in Runs,
               \/ \E m \in Modes : Start(r, m)
               \/ RunStep(r)
               \/ Fault(r)
        PROVE  DeliveredInv'
    BY <2>2, RunKeepsDelivered
  <2>3. CASE UNCHANGED vars
    BY <2>3 DEF DeliveredInv, vars, diskVars, runVars
  <2> QED
    BY <2>1, <2>2, <2>3 DEF Next
<1> HIDE DEF Inv
<1> QED
  BY <1>1, <1>2, TypeInvariant, LockInvariant, PTL DEF Spec, Inv

\* No file a checkout delivered, ignored or not, outlives its path's removal
\* from the tree, as long as no git step failed or was killed and the index
\* was not lost.
THEOREM DroppedFilesGo == Spec => []DroppedFilesRemovedUnlessFaulted
<1>1. TypeOK /\ LockInv /\ SettledInv /\ (faulted \/ DeliveredInv)
         => DroppedFilesRemovedUnlessFaulted
  <2> SUFFICES ASSUME TypeOK, LockInv, SettledInv, DeliveredInv,
                      NEW r \in Runs, pc[r] = "record", NEW p \in delivered
               PROVE  target[r][p] # Absent
    BY DEF DroppedFilesRemovedUnlessFaulted, DroppedFilesRemoved
  <2>1. \A q \in Runs : pc[q] # "reading"
    BY WorktreeAssumption DEF LockInv, Holding
  <2> QED
    BY <2>1 DEF DeliveredInv, SettledInv, Settled
<1> QED
  BY <1>1, TypeInvariant, LockInvariant, SettledInvariant, DeliveredInvariant,
     PTL

-----------------------------------------------------------------------------
(* `tree_unchanged`, whatever failed before.                               *)

\* What last-tree says of the index, unless the two are known to differ.
LastTreeInv ==
    /\ \A r \in Runs : pc[r] \notin Orphans
    /\ lastTree = None \/ index = lastTree
          \/ \E r \in Runs : pc[r] \in Settled
    /\ \A r \in Runs :
          pc[r] \in Holding \ {"measure"} /\ unchanged[r] => ~work[r]

\* A step of a run keeps it, or brings it about by recording its tree.
LEMMA RunKeepsLastTree ==
    ASSUME TypeOK, LockInv, SettledInv, skewed \/ LastTreeInv,
           NEW r \in Runs,
           \/ \E m \in Modes : Start(r, m)
           \/ RunStep(r)
           \/ Fault(r),
           skewed' = FALSE
    PROVE  LastTreeInv'
<1>0. pc[r] \in Holding => \A q \in Runs : q # r => pc[q] \notin Holding
  BY WorktreeAssumption DEF LockInv
<1>1. CASE Return(r)
  <2>1. /\ pc[r] = "record" /\ End(r, "ok")
        /\ lastTree' = target[r] /\ index' = index
        /\ \A q \in Runs : pc[q] \notin Orphans
    BY <1>1 DEF Return
  <2>2. index = target[r]
    BY <2>1 DEF SettledInv, Settled
  <2>3. /\ pc'[r] = "ok"
        /\ \A q \in Runs : q # r => pc'[q] = pc[q]
    BY <2>1 DEF End, TypeOK
  <2>4. \A q \in Runs : pc'[q] \notin Holding \cup Orphans
    BY <1>0, <2>1, <2>3 DEF Holding, Orphans
  <2> QED
    BY <2>1, <2>2, <2>4 DEF LastTreeInv
<1>2. CASE ~Return(r)
  <2>1. skewed = FALSE
    BY <1>2 DEF TypeOK, RunStep, Fault, GitStep, Start, ResolveCode,
       ResolveExtra, Acquire, Contended, Measure, SpawnReadTree, ReadTreePath,
       ReadTreeEnd, SpawnClean, CleanPath, CleanEnd, Fails, Terminated,
       PowerLost, Orphaned, Killed, faultVars
  <2>2. LastTreeInv /\ pc[r] \notin Orphans
    BY <2>1 DEF LastTreeInv
  <2>3. \A q \in Runs : q # r =>
            /\ pc'[q] = pc[q] /\ target'[q] = target[q]
            /\ unchanged'[q] = unchanged[q] /\ work'[q] = work[q]
    BY <2>2, OthersUndisturbed
  <2> USE <1>0, <2>2, <2>3 DEF TypeOK, LastTreeInv, Settled, Holding, Orphans,
                      Trees, diskVars, runVars
  <2>outside. ASSUME pc[r] \notin Settled,
                    pc'[r] \notin (Holding \ {"measure"}) \cup Orphans,
                    UNCHANGED <<index, lastTree>>
              PROVE  LastTreeInv'
    <3>1. lastTree' = None \/ index' = lastTree'
             \/ \E q \in Runs : pc'[q] \in Settled
      BY <2>outside
    <3>2. ASSUME NEW q \in Runs
          PROVE  /\ pc'[q] \notin Orphans
                 /\ pc'[q] \in Holding \ {"measure"} /\ unchanged'[q]
                       => ~work'[q]
      <4>1. CASE q = r
        BY <2>outside, <4>1
      <4>2. CASE q # r
        BY <4>2
      <4> QED
        BY <4>1, <4>2
    <3> QED
      BY <3>1, <3>2
  <2>4. CASE \E m \in Modes : Start(r, m)
    <3>1. pc[r] = "idle" /\ pc'[r] = "code" /\ UNCHANGED diskVars
      BY <2>4 DEF Start
    <3> QED
      BY <2>outside, <3>1
  <2>5. CASE ResolveCode(r)
    <3>1. /\ pc[r] = "code" /\ pc'[r] \in {"extra", "failed"}
          /\ UNCHANGED diskVars
      BY <2>5 DEF ResolveCode, End
    <3> QED
      BY <2>outside, <3>1
  <2>6. CASE ResolveExtra(r)
    <3>1. pc[r] = "extra" /\ pc'[r] = "lock" /\ UNCHANGED diskVars
      BY <2>6 DEF ResolveExtra
    <3> QED
      BY <2>outside, <3>1
  <2>7. CASE Acquire(r)
    <3>1. pc[r] = "lock" /\ pc'[r] = "measure" /\ UNCHANGED diskVars
      BY <2>7 DEF Acquire
    <3> QED
      BY <2>outside, <3>1
  <2>8. CASE Contended(r)
    <3>1. pc[r] = "lock" /\ pc'[r] = "failed" /\ UNCHANGED diskVars
      BY <2>8 DEF Contended, End
    <3> QED
      BY <2>outside, <3>1
  <2>9. CASE Measure(r)
    <3>1. /\ pc'[r] = "readtree" /\ target'[r] = target[r]
          /\ unchanged'[r] = (lastTree = target[r])
          /\ work'[r] = (index # target[r])
          /\ UNCHANGED <<disk, index, lastTree, delivered>>
      BY <2>9 DEF Measure
    <3>2. \A q \in Runs : pc[q] \notin Settled \cup {"reading"}
      BY <2>9 DEF Measure
    <3>3. lastTree = None \/ index = lastTree
      BY <3>2
    <3>4. unchanged'[r] => ~work'[r]
      <4>1. lastTree = target[r] => index = target[r]
        BY <3>3, WorktreeAssumption
      <4> QED
        BY <3>1, <4>1, Zenon
    <3> QED
      BY <2>9, <3>1, <3>3, <3>4 DEF Measure
  <2>10. CASE SpawnReadTree(r)
    <3>1. CASE indexLock = None
      <4>1. /\ pc[r] = "readtree" /\ pc'[r] = "reading"
            /\ unchanged'[r] = unchanged[r] /\ work'[r] = work[r]
            /\ UNCHANGED <<index, lastTree>>
        BY <2>10, <3>1 DEF SpawnReadTree
      <4> QED
        BY <4>1
    <3>2. CASE End(r, "failed")
      <4>1. pc[r] = "readtree" /\ pc'[r] = "failed" /\ UNCHANGED diskVars
        BY <2>10, <3>2 DEF SpawnReadTree, End
      <4> QED
        BY <2>outside, <4>1
    <3> QED
      BY <2>10, <3>1, <3>2 DEF SpawnReadTree
  <2>11. CASE SpawnClean(r)
    BY <2>11 DEF SpawnClean
  <2>12. CASE ReadTreePath(r)
    BY <2>12 DEF ReadTreePath
  <2>13. CASE ReadTreeEnd(r)
    <3>1. /\ pc[r] = "reading" /\ pc'[r] = "clean"
          /\ UNCHANGED <<lastTree, runVars>>
      BY <2>13 DEF ReadTreeEnd
    <3> QED
      BY <3>1
  <2>14. CASE CleanPath(r)
    BY <2>14 DEF CleanPath
  <2>15. CASE CleanEnd(r)
    <3>1. /\ pc[r] = "cleaning" /\ pc'[r] = "record"
          /\ UNCHANGED <<diskVars, runVars>>
      BY <2>15 DEF CleanEnd
    <3> QED
      BY <3>1
  <2>16. CASE Fails(r)
    <3>1. pc[r] \notin Settled /\ pc'[r] = "failed" /\ UNCHANGED diskVars
      BY <2>16 DEF Fails, Failing, End
    <3> QED
      BY <2>outside, <3>1
  <2>17. CASE Terminated(r)
    <3>1. pc[r] \notin Settled /\ pc'[r] = "killed" /\ UNCHANGED diskVars
      BY <2>17 DEF Terminated, Killed, End
    <3> QED
      BY <2>outside, <3>1
  <2>18. CASE PowerLost(r)
    <3>1. pc[r] \notin Settled /\ pc'[r] = "killed" /\ UNCHANGED diskVars
      BY <2>18 DEF PowerLost, Killed, End
    <3> QED
      BY <2>outside, <3>1
  <2>19. CASE Orphaned(r)
    BY <2>19 DEF Orphaned, Killed
  <2> QED
    BY <1>2, <2>4, <2>5, <2>6, <2>7, <2>8, <2>9, <2>10, <2>11, <2>12, <2>13,
       <2>14, <2>15, <2>16, <2>17, <2>18, <2>19 DEF RunStep, GitStep, Fault
<1> QED
  BY <1>1, <1>2

\* Between two checkouts last-tree is what the index holds, unless a run ended
\* between the two writes or the index was lost.
THEOREM LastTreeInvariant == Spec => [](skewed \/ LastTreeInv)
<1> DEFINE Inv == skewed \/ LastTreeInv
<1>1. Init => Inv
  BY DEF Init, LastTreeInv, Orphans, Settled, Holding
<1>2. TypeOK /\ LockInv /\ SettledInv /\ Inv /\ [Next]_vars => Inv'
  <2> SUFFICES ASSUME TypeOK, LockInv, SettledInv, skewed \/ LastTreeInv,
                      [Next]_vars, skewed' = FALSE
               PROVE  LastTreeInv'
    BY TypePreserved DEF TypeOK
  <2>1. CASE Environment
    <3>1. /\ UNCHANGED <<pc, index, lastTree, unchanged, work>>
          /\ skewed = FALSE
      BY <2>1 DEF TypeOK, Environment, PushCode, PushExtra, ForgetStream,
                  Publish, EditDisk, LoseIndex, diskVars, runVars, faultVars
    <3> QED
      BY <3>1 DEF LastTreeInv
  <2>2. ASSUME NEW r \in Runs,
               \/ \E m \in Modes : Start(r, m)
               \/ RunStep(r)
               \/ Fault(r)
        PROVE  LastTreeInv'
    BY <2>2, RunKeepsLastTree
  <2>3. CASE UNCHANGED vars
    BY <2>3 DEF LastTreeInv, TypeOK, vars, diskVars, runVars, faultVars
  <2> QED
    BY <2>1, <2>2, <2>3 DEF Next
<1> HIDE DEF Inv
<1> QED
  BY <1>1, <1>2, TypeInvariant, LockInvariant, SettledInvariant, PTL
     DEF Spec, Inv

\* A report of an unchanged tree never comes with paths to change, unless a
\* run ended between writing the index and recording its tree, or the index was
\* lost, and no run has recorded its tree since.
THEOREM UnchangedIsNoWork == Spec => []UnchangedMeansNoWork
<1>1. (skewed \/ LastTreeInv) => UnchangedMeansNoWork
  BY DEF LastTreeInv, UnchangedMeansNoWork
<1> QED
  BY <1>1, LastTreeInvariant, PTL
-----------------------------------------------------------------------------
(* What a run shows.                                                       *)

\* The tree that the `extra` of a pair laid over its `code` makes.
Laid(h) == IF h[2] = None THEN h[1] ELSE Overlay(h[1], h[2])

\* What a run has resolved, the server has had since the run began, `extra` no
\* earlier than `code`; until then the pairs follow what the server has.
HalvesInv(r) ==
    /\ pc[r] = "code" => <<code, extra>> \in halves[r]
    /\ pc[r] = "extra" => <<codeTree[r], extra>> \in halves[r]
    /\ pc[r] \in {"lock"} \cup Holding =>
          \E h \in halves[r] : h[1] # None /\ target[r] = Laid(h)

\* A step of a run keeps that, for itself and for the others.
LEMMA RunKeepsHalves ==
    ASSUME TypeOK, NEW r \in Runs, NEW q \in Runs, HalvesInv(q),
           \/ \E m \in Modes : Start(r, m)
           \/ RunStep(r)
           \/ Fault(r)
    PROVE  HalvesInv(q)'
<1>0. UNCHANGED <<code, extra>>
  BY DEF RunStep, Fault, GitStep, Start, ResolveCode, ResolveExtra, Acquire,
         Contended, Measure, SpawnReadTree, ReadTreePath, ReadTreeEnd,
         SpawnClean, CleanPath, CleanEnd, Return, Fails, Terminated, PowerLost,
         Orphaned, Killed, serverVars
<1>1. CASE q # r
  <2>1. /\ pc'[q] = pc[q] /\ target'[q] = target[q]
        /\ codeTree'[q] = codeTree[q] /\ halves'[q] = halves[q]
    BY <1>1, OthersKeepTarget
  <2> QED
    BY <1>0, <2>1 DEF HalvesInv, Laid
<1>2. CASE q = r
  <2>0. \A h : h[1] # None => Laid(h)' = Laid(h)
    BY DEF Laid
  <2> USE <1>0, <1>2 DEF TypeOK, HalvesInv, Holding, Orphans, runVars
  <2>1. CASE \E m \in Modes : Start(r, m)
    BY <2>1 DEF Start
  <2>2. CASE ResolveCode(r)
    BY <2>2 DEF ResolveCode, End
  <2>3. CASE ResolveExtra(r)
    <3> DEFINE h == <<codeTree[r], extra>>
    <3>1. /\ pc[r] = "extra" /\ pc'[r] = "lock" /\ halves'[r] = halves[r]
          /\ target'[r] = IF extra = None THEN codeTree[r]
                          ELSE Overlay(codeTree[r], extra)
      BY <2>3 DEF ResolveExtra
    <3>2. h \in halves[r] /\ h[1] = codeTree[r] /\ h[2] = extra
      BY <3>1
    <3>3. codeTree[r] # None
      BY WorktreeAssumption
    <3>4. target'[r] = Laid(h)
      BY <3>1, <3>2 DEF Laid
    <3> HIDE DEF h
    <3> QED
      BY <3>1, <3>2, <3>3, <3>4
  \* Past that, a step keeps what the run has resolved, or ends it.
  <2>within. ASSUME pc[r] \in {"lock"} \cup Holding,
                   \/ pc'[r] \in Orphans \cup Ended
                   \/ target'[r] = target[r] /\ halves'[r] = halves[r]
                      /\ pc'[r] \in Holding
             PROVE  HalvesInv(q)'
    BY <2>within DEF Ended
  <2>4. CASE Acquire(r) \/ Contended(r) \/ Measure(r) \/ SpawnReadTree(r)
             \/ SpawnClean(r) \/ Return(r)
    <3>1. /\ pc[r] \in {"lock"} \cup Holding
          /\ \/ pc'[r] \in Orphans \cup Ended
             \/ target'[r] = target[r] /\ halves'[r] = halves[r]
                /\ pc'[r] \in Holding
      BY <2>4 DEF Acquire, Contended, Measure, SpawnReadTree, SpawnClean,
                  Return, End, Ended
    <3> QED
      BY <2>within, <3>1
  <2>5. CASE GitStep(r)
    <3>1. CASE pc[r] \in Orphans
      <4>1. pc'[r] \in Orphans \cup Ended
        BY <2>5, <3>1 DEF GitStep, ReadTreePath, ReadTreeEnd, CleanPath,
                          CleanEnd, End, Ended
      <4> QED
        BY <4>1 DEF Ended
    <3>2. CASE pc[r] \notin Orphans
      <4>1. /\ pc[r] \in Holding
            /\ target'[r] = target[r] /\ halves'[r] = halves[r]
            /\ pc'[r] \in Holding
        BY <2>5, <3>2 DEF GitStep, ReadTreePath, ReadTreeEnd, CleanPath,
                          CleanEnd
      <4> QED
        BY <2>within, <4>1
    <3> QED
      BY <3>1, <3>2
  <2>6. CASE Fault(r)
    <3>1. pc'[r] \in Orphans \cup Ended
      BY <2>6 DEF Fault, Fails, Terminated, PowerLost, Orphaned, Killed, End,
                  Ended
    <3> QED
      BY <3>1 DEF Ended
  <2> QED
    BY <2>1, <2>2, <2>3, <2>4, <2>5, <2>6 DEF RunStep
<1> QED
  BY <1>1, <1>2

\* A ref that moves is noticed by every run that has not resolved both.
LEMMA PublishKeepsHalves ==
    ASSUME TypeOK, NEW q \in Runs, HalvesInv(q), NEW c, NEW e, Publish(c, e)
    PROVE  HalvesInv(q)'
<1> DEFINE more == halves[q] \cup {<<h[1], e>> : h \in halves[q]}
                      \cup {<<c, e>>}
<1>1. /\ pc'[q] = pc[q] /\ target'[q] = target[q]
      /\ codeTree'[q] = codeTree[q] /\ code' = c /\ extra' = e
      /\ halves'[q] = IF pc[q] \in {"code", "extra"} THEN more ELSE halves[q]
  BY DEF Publish
<1>2. <<c, e>> \in more
  OBVIOUS
<1>3. <<codeTree[q], extra>> \in halves[q] => <<codeTree[q], e>> \in more
  <2> DEFINE h == <<codeTree[q], extra>>
  <2> SUFFICES ASSUME h \in halves[q]
               PROVE  <<codeTree[q], e>> \in more
    OBVIOUS
  <2>1. h[1] = codeTree[q]
    OBVIOUS
  <2>2. <<h[1], e>> \in more
    OBVIOUS
  <2> QED
    BY <2>1, <2>2
<1>4. CASE pc[q] \in {"code", "extra"}
  <2>1. halves'[q] = more
    BY <1>1, <1>4
  <2> HIDE DEF more
  <2> QED
    BY <1>1, <1>2, <1>3, <1>4, <2>1 DEF HalvesInv, Holding
<1>5. CASE pc[q] \notin {"code", "extra"}
  <2>1. halves'[q] = halves[q]
    BY <1>1, <1>5
  <2> QED
    BY <1>1, <1>5, <2>1 DEF HalvesInv, Laid
<1> QED
  BY <1>4, <1>5

\* Whatever the environment does, the pairs follow.
LEMMA EnvironmentKeepsHalves ==
    ASSUME TypeOK, NEW q \in Runs, HalvesInv(q), Environment
    PROVE  HalvesInv(q)'
<1>1. CASE \E c, e : Publish(c, e)
  BY <1>1, PublishKeepsHalves
<1>2. CASE EditDisk \/ LoseIndex
  <2>1. UNCHANGED <<pc, target, codeTree, code, extra, halves>>
    BY <1>2 DEF EditDisk, LoseIndex, serverVars, runVars
  <2> QED
    BY <2>1 DEF HalvesInv, Laid
<1> QED
  BY <1>1, <1>2 DEF Environment, PushCode, PushExtra, ForgetStream

\* A run works with an `extra` laid over a `code` that is no newer, both of
\* which the server has had since the run began.
THEOREM HalvesInvariant == Spec => [](\A r \in Runs : HalvesInv(r))
<1> DEFINE Inv == \A r \in Runs : HalvesInv(r)
<1>1. Init => Inv
  BY DEF Init, HalvesInv, Holding
<1>2. TypeOK /\ Inv /\ [Next]_vars => Inv'
  <2> SUFFICES ASSUME TypeOK, Inv, [Next]_vars, NEW q \in Runs
               PROVE  HalvesInv(q)'
    OBVIOUS
  <2>1. CASE Environment
    BY <2>1, EnvironmentKeepsHalves
  <2>2. ASSUME NEW r \in Runs,
               \/ \E m \in Modes : Start(r, m)
               \/ RunStep(r)
               \/ Fault(r)
        PROVE  HalvesInv(q)'
    BY <2>2, RunKeepsHalves
  <2>3. CASE UNCHANGED vars
    BY <2>3 DEF HalvesInv, Laid, vars, serverVars, runVars
  <2> QED
    BY <2>1, <2>2, <2>3 DEF Next
<1> HIDE DEF Inv
<1> QED
  BY <1>1, <1>2, TypeInvariant, PTL DEF Spec, Inv

\* When no git step outlives its run, what a run has checked out is an `extra`
\* laid over a `code` that is no newer, and the server has had both since the
\* run began.
THEOREM RunShowsStates ==
    ASSUME "orphan" \notin Faults
    PROVE  Spec => []RunShowsServerStates
<1>1. TypeOK /\ CheckoutMatchesTree /\ (\A r \in Runs : HalvesInv(r))
         => RunShowsServerStates
  <2> SUFFICES ASSUME TypeOK, CheckoutMatchesTree,
                      \A r \in Runs : HalvesInv(r),
                      NEW r \in Runs, pc[r] = "record"
               PROVE  \E h \in halves[r] :
                         /\ h[1] # None
                         /\ \A p \in Paths :
                               LET over == IF h[2] = None THEN Absent
                                           ELSE h[2][p]
                                   shown == IF over = Absent THEN h[1][p]
                                            ELSE over
                               IN  shown # Absent \/ p \notin Ignored
                                      => disk[p] = shown
    BY DEF RunShowsServerStates
  <2>1. PICK h \in halves[r] : h[1] # None /\ target[r] = Laid(h)
    BY DEF HalvesInv, Holding
  <2>2. ASSUME NEW p \in Paths
        PROVE  LET over == IF h[2] = None THEN Absent ELSE h[2][p]
                   shown == IF over = Absent THEN h[1][p] ELSE over
               IN  shown # Absent \/ p \notin Ignored => disk[p] = shown
    <3>1. /\ target[r][p] # Absent => disk[p] = target[r][p]
          /\ target[r][p] = Absent /\ p \notin Ignored => disk[p] = Absent
      BY DEF CheckoutMatchesTree
    <3>2. target[r][p] = IF h[2] = None THEN h[1][p]
                         ELSE IF h[2][p] = Absent THEN h[1][p] ELSE h[2][p]
      BY <2>1 DEF Laid, Overlay
    <3> QED
      BY <3>1, <3>2
  <2> QED
    BY <2>1, <2>2
<1> QED
  BY <1>1, TypeInvariant, CheckoutMatches, HalvesInvariant, PTL
=============================================================================
