--------------------------- MODULE UpdateWorktree ---------------------------
(***************************************************************************)
(* `git-full-send update-worktree` (crates/server, update_worktree): runs  *)
(* that check one stream out into one worktree.  A run resolves the        *)
(* stream's trees without a lock, takes the per-worktree lock, measures,   *)
(* and spawns `git read-tree --reset -u` and then `git clean -d -f`.       *)
(*                                                                         *)
(* The two git steps work path by path, so a run can fail or be killed in  *)
(* the middle of one.  They are modelled from the options they are given:  *)
(*   read-tree  writes every path of the tree, deletes the paths the       *)
(*              persistent index has and the tree lacks, and writes the    *)
(*              index last, under git's own index.lock;                    *)
(*   clean      deletes the paths on disk that the index lacks, except     *)
(*              ignored ones (there is no -x), from a list it makes first. *)
(***************************************************************************)
EXTENDS Naturals, FiniteSets

CONSTANTS
    Runs,        \* invocations of update-worktree on one worktree
    Paths,       \* repository-relative paths
    Ignored,     \* those the checkout's .gitignore covers
    Blobs,       \* file contents
    Absent,      \* no file at a path
    CodeTrees,   \* trees a sync may publish as `code`
    ExtraTrees,  \* trees a sync may publish as `extra`
    None,        \* no ref, no lock holder, no recorded tree
    MaxPushes,   \* bound: ref updates the server receives
    MaxEdits,    \* bound: changes made to the worktree by others
    Faults       \* which of FaultKinds happen

FaultKinds ==
    {"fail",     \* a step fails, a git one midway (disk full, permissions)
     "term",     \* a run and its git step are killed; git removes index.lock
     "kill",     \* the same by SIGKILL or power loss: index.lock stays
     "orphan",   \* a run is killed alone: its git step goes on
     "index",    \* the persistent index file is lost
     "forget"}   \* the stream is forgotten while runs are under way

Content == Blobs \cup {Absent}
Trees   == [Paths -> Content]
NoFiles == [p \in Paths |-> Absent]

ASSUME WorktreeAssumption ==
    /\ Ignored \subseteq Paths
    /\ Absent \notin Blobs
    /\ CodeTrees \subseteq Trees
    /\ ExtraTrees \subseteq Trees
    /\ None \notin Runs
    /\ "stale" \notin Runs
    /\ None \notin Trees
    /\ MaxPushes \in Nat
    /\ MaxEdits \in Nat
    /\ Faults \subseteq FaultKinds

Modes == {"failfast", "wait", "timeout"}

VARIABLES
    code,        \* server ref <stream>/code, as its tree
    extra,       \* server ref <stream>/extra, as its tree
    disk,        \* the worktree
    index,       \* the persistent per-worktree index; NoFiles when missing
    lastTree,    \* the state directory's `last-tree` file
    lock,        \* holder of the advisory lock
    indexLock,   \* git's index.lock: None, the run whose step has it, "stale"
    pc, mode, codeTree, target, todo,
    unchanged,   \* ChangedPaths.tree_unchanged of a run
    work,        \* ChangedPaths.vs_index of a run is not zero
    halves,      \* observer: the pairs of a `code` that the server has had
                 \* since the run began and an `extra` it had then or later,
                 \* until the run has resolved both
    pushes, edits,
    delivered,   \* observer: paths whose file a checkout wrote
    faulted,     \* observer: a fault has happened
    skewed       \* observer: the index was lost, or a run ended after it
                 \* wrote the index, and last-tree was not written since

serverVars == <<code, extra, pushes>>
diskVars   == <<disk, index, lastTree, edits, delivered>>
lockVars   == <<lock, indexLock>>
runVars    == <<mode, codeTree, target, todo, unchanged, work, halves>>
faultVars == <<faulted, skewed>>
vars == <<serverVars, diskVars, lockVars, pc, runVars, faultVars>>

Holding  == {"measure", "readtree", "reading", "clean", "cleaning", "record"}
Failing  == {"code", "extra", "lock", "readtree", "reading", "clean", "cleaning"}
Settled  == {"clean", "cleaning", "record"}   \* has written the index
Orphans  == {"orphan_reading", "orphan_cleaning"}
Ended    == {"ok", "failed", "killed"}
Pcs      == {"idle", "code", "extra", "lock"} \cup Holding \cup Orphans \cup Ended

\* What a ref may be.
Published == Trees \cup {None}

TypeOK ==
    /\ code \in Published
    /\ extra \in Published
    /\ disk \in Trees
    /\ index \in Trees
    /\ lastTree \in Trees \cup {None}
    /\ lock \in Runs \cup {None}
    /\ indexLock \in Runs \cup {None, "stale"}
    /\ pc \in [Runs -> Pcs]
    /\ mode \in [Runs -> Modes]
    /\ codeTree \in [Runs -> Trees]
    /\ target \in [Runs -> Trees]
    /\ todo \in [Runs -> SUBSET Paths]
    /\ unchanged \in [Runs -> BOOLEAN]
    /\ work \in [Runs -> BOOLEAN]
    /\ pushes \in Nat
    /\ edits \in Nat
    /\ delivered \subseteq Paths
    /\ halves \in [Runs -> SUBSET (Published \X Published)]
    /\ faulted \in BOOLEAN
    /\ skewed \in BOOLEAN

Init ==
    /\ code = None
    /\ extra = None
    /\ disk = NoFiles
    /\ index = NoFiles
    /\ lastTree = None
    /\ lock = None
    /\ indexLock = None
    /\ pc = [r \in Runs |-> "idle"]
    /\ mode = [r \in Runs |-> "failfast"]
    /\ codeTree = [r \in Runs |-> NoFiles]
    /\ target = [r \in Runs |-> NoFiles]
    /\ todo = [r \in Runs |-> {}]
    /\ unchanged = [r \in Runs |-> FALSE]
    /\ work = [r \in Runs |-> FALSE]
    /\ pushes = 0
    /\ edits = 0
    /\ delivered = {}
    /\ halves = [r \in Runs |-> {}]
    /\ faulted = FALSE
    /\ skewed = FALSE

-----------------------------------------------------------------------------
(* What the server's refs and other programs do meanwhile.                 *)

\* A push moves one of the refs, a forget-stream both.
Publish(c, e) ==
    /\ pushes < MaxPushes
    /\ pushes' = pushes + 1
    /\ code' = c
    /\ extra' = e
    /\ halves' = [r \in Runs |->
          IF pc[r] \in {"code", "extra"}
          THEN halves[r] \cup {<<h[1], e>> : h \in halves[r]} \cup {<<c, e>>}
          ELSE halves[r]]
    /\ UNCHANGED <<diskVars, lockVars, pc, mode, codeTree, target, todo,
                   unchanged, work, faultVars>>

PushCode == \E t \in CodeTrees : t # code /\ Publish(t, extra)

PushExtra == code # None /\ \E t \in ExtraTrees : t # extra /\ Publish(code, t)

ForgetStream ==
    /\ "forget" \in Faults
    /\ code # None
    /\ Publish(None, None)

\* Remote-side edits, between checkouts.
EditDisk ==
    /\ edits < MaxEdits
    /\ edits' = edits + 1
    /\ lock = None
    /\ \A r \in Runs : pc[r] \notin Orphans
    /\ \E p \in Paths, b \in Content :
          /\ disk[p] # b
          /\ disk' = [disk EXCEPT ![p] = b]
          /\ delivered' = delivered \ {p}
    /\ UNCHANGED <<serverVars, index, lastTree, lockVars, pc, runVars,
                   faultVars>>

LoseIndex ==
    /\ "index" \in Faults
    /\ lock = None
    /\ indexLock = None
    /\ index # NoFiles
    /\ index' = NoFiles
    /\ faulted' = TRUE
    /\ skewed' = TRUE
    /\ UNCHANGED <<serverVars, disk, lastTree, edits, delivered, lockVars, pc,
                   runVars>>

-----------------------------------------------------------------------------
(* A run, up to the lock.                                                  *)

\* The run's locals go out of scope.
End(r, how) ==
    /\ pc' = [pc EXCEPT ![r] = how]
    /\ mode' = [mode EXCEPT ![r] = "failfast"]
    /\ codeTree' = [codeTree EXCEPT ![r] = NoFiles]
    /\ target' = [target EXCEPT ![r] = NoFiles]
    /\ todo' = [todo EXCEPT ![r] = {}]
    /\ unchanged' = [unchanged EXCEPT ![r] = FALSE]
    /\ work' = [work EXCEPT ![r] = FALSE]
    /\ halves' = [halves EXCEPT ![r] = {}]

Start(r, m) ==
    /\ pc[r] = "idle"
    /\ pc' = [pc EXCEPT ![r] = "code"]
    /\ mode' = [mode EXCEPT ![r] = m]
    /\ halves' = [halves EXCEPT ![r] = {<<code, extra>>}]
    /\ UNCHANGED <<serverVars, diskVars, lockVars, codeTree, target, todo,
                   unchanged, work, faultVars>>

\* Mutant: rev-parse's empty answer is taken for a tree.
ResolveCodeUnchecked(r) ==
    /\ pc[r] = "code"
    /\ pc' = [pc EXCEPT ![r] = "extra"]
    /\ codeTree' = [codeTree EXCEPT ![r] = code]
    /\ UNCHANGED <<serverVars, diskVars, lockVars, mode, target, todo,
                   unchanged, work, halves, faultVars>>

\* resolve_code_tree: a missing ref ends the run before it touches anything.
ResolveCode(r) ==
    /\ pc[r] = "code"
    /\ \/ /\ code # None
          /\ pc' = [pc EXCEPT ![r] = "extra"]
          /\ codeTree' = [codeTree EXCEPT ![r] = code]
          /\ UNCHANGED <<mode, target, todo, unchanged, work, halves>>
       \/ /\ code = None
          /\ End(r, "failed")
    /\ UNCHANGED <<serverVars, diskVars, lockVars, faultVars>>

\* overlay_extra_onto_code: every leaf of `extra` is upserted onto `code`.
Overlay(c, e) ==
    [p \in Paths |-> IF e[p] = Absent THEN c[p] ELSE e[p]]

\* Mutant: the extra tree is resolved and not laid over the other.
ResolveExtraOnly(r) ==
    /\ pc[r] = "extra"
    /\ pc' = [pc EXCEPT ![r] = "lock"]
    /\ target' = [target EXCEPT ![r] = codeTree[r]]
    /\ codeTree' = [codeTree EXCEPT ![r] = NoFiles]
    /\ UNCHANGED <<serverVars, diskVars, lockVars, mode, todo, unchanged, work,
                   halves, faultVars>>

\* resolve_extra_tree and the overlay.  A missing ref overlays nothing.
ResolveExtra(r) ==
    /\ pc[r] = "extra"
    /\ pc' = [pc EXCEPT ![r] = "lock"]
    /\ target' = [target EXCEPT ![r] =
                     IF extra = None THEN codeTree[r]
                     ELSE Overlay(codeTree[r], extra)]
    /\ codeTree' = [codeTree EXCEPT ![r] = NoFiles]
    /\ UNCHANGED <<serverVars, diskVars, lockVars, mode, todo, unchanged, work,
                   halves, faultVars>>

\* Mutant: the contended branch of the poll falls through to Ok.
AcquireAnyway(r) ==
    /\ pc[r] = "lock"
    /\ lock = None \/ mode[r] = "timeout"
    /\ lock' = r
    /\ pc' = [pc EXCEPT ![r] = "measure"]
    /\ mode' = [mode EXCEPT ![r] = "failfast"]
    /\ UNCHANGED <<serverVars, diskVars, indexLock, codeTree, target, todo,
                   unchanged, work, halves, faultVars>>

Acquire(r) ==
    /\ pc[r] = "lock"
    /\ lock = None
    /\ lock' = r
    /\ pc' = [pc EXCEPT ![r] = "measure"]
    /\ mode' = [mode EXCEPT ![r] = "failfast"]
    /\ UNCHANGED <<serverVars, diskVars, indexLock, codeTree, target, todo,
                   unchanged, work, halves, faultVars>>

\* WorktreeBusy at once, LockTimeout when the poll's deadline has passed.
Contended(r) ==
    /\ pc[r] = "lock"
    /\ lock # None
    /\ mode[r] \in {"failfast", "timeout"}
    /\ End(r, "failed")
    /\ UNCHANGED <<serverVars, diskVars, lockVars, faultVars>>

-----------------------------------------------------------------------------
(* The checkout, under the lock.                                           *)

\* Mutant: last-tree is written before the checkout that it is to describe.
MeasureRecording(r) ==
    /\ pc[r] = "measure"
    /\ unchanged' = [unchanged EXCEPT ![r] = lastTree = target[r]]
    /\ work' = [work EXCEPT ![r] = index # target[r]]
    /\ lastTree' = target[r]
    /\ pc' = [pc EXCEPT ![r] = "readtree"]
    /\ UNCHANGED <<serverVars, disk, index, edits, delivered, lockVars, mode,
                   codeTree, target, todo, halves, faultVars>>

Measure(r) ==
    /\ pc[r] = "measure"
    /\ unchanged' = [unchanged EXCEPT ![r] = lastTree = target[r]]
    /\ work' = [work EXCEPT ![r] = index # target[r]]
    /\ pc' = [pc EXCEPT ![r] = "readtree"]
    /\ UNCHANGED <<serverVars, diskVars, lockVars, mode, codeTree, target,
                   todo, halves, faultVars>>

\* Mutant: an index.lock that is in the way is taken for a stale one.
SpawnReadTreeStealing(r) ==
    /\ pc[r] = "readtree"
    /\ indexLock' = r
    /\ pc' = [pc EXCEPT ![r] = "reading"]
    /\ todo' = [todo EXCEPT ![r] =
          {p \in Paths : target[r][p] # Absent \/ index[p] # Absent}]
    /\ UNCHANGED <<serverVars, diskVars, lock, mode, codeTree, target,
                   unchanged, work, halves, faultVars>>

\* read-tree starts; with index.lock taken it fails, and the run with it.
SpawnReadTree(r) ==
    /\ pc[r] = "readtree"
    /\ \/ /\ indexLock = None
          /\ indexLock' = r
          /\ pc' = [pc EXCEPT ![r] = "reading"]
          /\ todo' = [todo EXCEPT ![r] =
                {p \in Paths : target[r][p] # Absent \/ index[p] # Absent}]
          /\ UNCHANGED <<lock, mode, codeTree, target, unchanged, work, halves>>
       \/ /\ indexLock # None
          /\ lock' = None
          /\ End(r, "failed")
          /\ UNCHANGED indexLock
    /\ UNCHANGED <<serverVars, diskVars, faultVars>>

\* Mutant: read-tree -m -u leaves a path alone when its blob did not change.
ReadTreePathMerge(r) ==
    /\ pc[r] \in {"reading", "orphan_reading"}
    /\ \E p \in todo[r] :
          /\ disk' = [disk EXCEPT ![p] = IF index[p] = target[r][p] THEN @
                                         ELSE target[r][p]]
          /\ delivered' = IF target[r][p] = Absent THEN delivered \ {p}
                          ELSE delivered \cup {p}
          /\ todo' = [todo EXCEPT ![r] = @ \ {p}]
    /\ UNCHANGED <<serverVars, index, lastTree, edits, lockVars, pc, mode,
                   codeTree, target, unchanged, work, halves, faultVars>>

ReadTreePath(r) ==
    /\ pc[r] \in {"reading", "orphan_reading"}
    /\ \E p \in todo[r] :
          /\ disk' = [disk EXCEPT ![p] = target[r][p]]
          /\ delivered' = IF target[r][p] = Absent THEN delivered \ {p}
                          ELSE delivered \cup {p}
          /\ todo' = [todo EXCEPT ![r] = @ \ {p}]
    /\ UNCHANGED <<serverVars, index, lastTree, edits, lockVars, pc, mode,
                   codeTree, target, unchanged, work, halves, faultVars>>

\* Mutant: a throwaway index instead of the persistent one.
ReadTreeEndNoIndex(r) ==
    /\ pc[r] \in {"reading", "orphan_reading"}
    /\ todo[r] = {}
    /\ index' = NoFiles
    /\ indexLock' = None
    /\ \/ /\ pc[r] = "reading"
          /\ pc' = [pc EXCEPT ![r] = "clean"]
          /\ UNCHANGED runVars
       \/ /\ pc[r] = "orphan_reading"
          /\ End(r, "killed")
    /\ UNCHANGED <<serverVars, disk, lastTree, edits, delivered, lock, faultVars>>

ReadTreeEnd(r) ==
    /\ pc[r] \in {"reading", "orphan_reading"}
    /\ todo[r] = {}
    /\ index' = target[r]
    /\ indexLock' = None
    /\ \/ /\ pc[r] = "reading"
          /\ pc' = [pc EXCEPT ![r] = "clean"]
          /\ UNCHANGED runVars
       \/ /\ pc[r] = "orphan_reading"
          /\ End(r, "killed")
    /\ UNCHANGED <<serverVars, disk, lastTree, edits, delivered, lock, faultVars>>

SpawnClean(r) ==
    /\ pc[r] = "clean"
    /\ pc' = [pc EXCEPT ![r] = "cleaning"]
    /\ todo' = [todo EXCEPT ![r] =
          {p \in Paths \ Ignored : disk[p] # Absent /\ index[p] = Absent}]
    /\ UNCHANGED <<serverVars, diskVars, lockVars, mode, codeTree, target,
                   unchanged, work, halves, faultVars>>

CleanPath(r) ==
    /\ pc[r] \in {"cleaning", "orphan_cleaning"}
    /\ \E p \in todo[r] :
          /\ disk' = [disk EXCEPT ![p] = Absent]
          /\ delivered' = delivered \ {p}
          /\ todo' = [todo EXCEPT ![r] = @ \ {p}]
    /\ UNCHANGED <<serverVars, index, lastTree, edits, lockVars, pc, mode,
                   codeTree, target, unchanged, work, halves, faultVars>>

CleanEnd(r) ==
    /\ pc[r] \in {"cleaning", "orphan_cleaning"}
    /\ todo[r] = {}
    /\ \/ /\ pc[r] = "cleaning"
          /\ pc' = [pc EXCEPT ![r] = "record"]
          /\ UNCHANGED runVars
       \/ /\ pc[r] = "orphan_cleaning"
          /\ End(r, "killed")
    /\ UNCHANGED <<serverVars, diskVars, lockVars, faultVars>>

\* last-tree is written (best effort), the report returned, the lock dropped.
Return(r) ==
    /\ pc[r] = "record"
    /\ \/ /\ lastTree' = target[r]
          /\ faulted' = faulted
          /\ skewed' = \E q \in Runs : pc[q] \in Orphans
       \/ /\ "fail" \in Faults
          /\ lastTree' = lastTree
          /\ faulted' = TRUE
          /\ skewed' = TRUE
    /\ lock' = None
    /\ End(r, "ok")
    /\ UNCHANGED <<serverVars, disk, index, edits, delivered, indexLock>>

-----------------------------------------------------------------------------
(* Failures.  The flock goes with the process; so does git's index.lock,   *)
(* unless nothing was left to remove it.                                   *)

\* Mutant: an error path that leaks the lock's handle.
FailsLeakingLock(r) ==
    /\ "fail" \in Faults
    /\ pc[r] \in Failing
    /\ End(r, "failed")
    /\ indexLock' = IF pc[r] = "reading" THEN None ELSE indexLock
    /\ faulted' = (faulted \/ pc[r] \in {"reading"} \cup Settled)
    /\ skewed' = (skewed \/ pc[r] \in Settled)
    /\ UNCHANGED <<serverVars, diskVars, lock>>

\* Every `?` of update_worktree_blocking.  Up to the spawn of read-tree an
\* error (or a kill) has left everything as it was.
Fails(r) ==
    /\ "fail" \in Faults
    /\ pc[r] \in Failing
    /\ End(r, "failed")
    /\ lock' = IF lock = r THEN None ELSE lock
    /\ indexLock' = IF pc[r] = "reading" THEN None ELSE indexLock
    /\ faulted' = (faulted \/ pc[r] \in {"reading"} \cup Settled)
    /\ skewed' = (skewed \/ pc[r] \in Settled)
    /\ UNCHANGED <<serverVars, diskVars>>

Killed(r, kind) ==
    /\ kind \in Faults
    /\ pc[r] \in Holding
    /\ lock' = None
    /\ faulted' = TRUE
    /\ skewed' = (skewed \/ pc[r] \in Settled \/ kind = "orphan")
    /\ UNCHANGED <<serverVars, diskVars>>

Terminated(r) ==
    /\ Killed(r, "term")
    /\ End(r, "killed")
    /\ indexLock' = IF pc[r] = "reading" THEN None ELSE indexLock

PowerLost(r) ==
    /\ Killed(r, "kill")
    /\ End(r, "killed")
    /\ indexLock' = IF pc[r] = "reading" THEN "stale" ELSE indexLock

\* The lock file is close-on-exec, so the git step does not keep the lock.
Orphaned(r) ==
    /\ Killed(r, "orphan")
    /\ \/ /\ pc[r] \in {"reading", "cleaning"}
          /\ pc' = [pc EXCEPT ![r] = IF @ = "reading" THEN "orphan_reading"
                                     ELSE "orphan_cleaning"]
          /\ UNCHANGED runVars
       \/ /\ pc[r] \notin {"reading", "cleaning"}
          /\ End(r, "killed")
    /\ UNCHANGED indexLock

-----------------------------------------------------------------------------
GitStep(r) ==
    \/ ReadTreePath(r)
    \/ ReadTreeEnd(r)
    \/ CleanPath(r)
    \/ CleanEnd(r)

RunStep(r) ==
    \/ ResolveCode(r)
    \/ ResolveExtra(r)
    \/ Acquire(r)
    \/ Contended(r)
    \/ Measure(r)
    \/ SpawnReadTree(r)
    \/ SpawnClean(r)
    \/ Return(r)
    \/ GitStep(r)

Fault(r) ==
    \/ Fails(r)
    \/ Terminated(r)
    \/ PowerLost(r)
    \/ Orphaned(r)

Environment ==
    \/ PushCode
    \/ PushExtra
    \/ ForgetStream
    \/ EditDisk
    \/ LoseIndex

Next ==
    \/ Environment
    \/ \E r \in Runs :
          \/ \E m \in Modes : Start(r, m)
          \/ RunStep(r)
          \/ Fault(r)

Spec == Init /\ [][Next]_vars

\* A run that can go on does: the kernel schedules it, git's steps end, and a
\* blocked flock is granted once it is free.  Starting runs, pushes, edits and
\* faults owe nothing.
FairSpec == Spec /\ \A r \in Runs : WF_vars(RunStep(r))
-----------------------------------------------------------------------------
(* Properties.                                                             *)

\* The per-worktree lock (LockMode, issue #49): no two runs are between
\* taking the lock and dropping it at once.
MutualExclusion ==
    \A r, q \in Runs :
        pc[r] \in Holding /\ pc[q] \in Holding => r = q

\* Killing a run drops its lock and leaves its git step alone with the
\* worktree: even then no two read-trees write the worktree and the index at
\* once, because update_worktree lets git's own index.lock fail the later run
\* and never removes one it finds.
OneReadTree ==
    \A r, q \in Runs :
        /\ pc[r] \in {"reading", "orphan_reading"}
        /\ pc[q] \in {"reading", "orphan_reading"}
        => r = q

\* What update_worktree promises of everything git tracks or may clean: when
\* the checkout steps have succeeded, a path of the tree has the tree's
\* content, whatever edits, failed or killed runs came before, and any other
\* path that is not ignored is gone.
CheckoutMatchesTree ==
    \A r \in Runs : pc[r] = "record" =>
        \A p \in Paths :
            /\ target[r][p] # Absent => disk[p] = target[r][p]
            /\ target[r][p] = Absent /\ p \notin Ignored => disk[p] = Absent

\* "files dropped between syncs are removed" (update_worktree), ignored or
\* not (ADR-0016): no file that a checkout delivered outlives its path's
\* removal from the tree.
DroppedFilesRemoved ==
    \A r \in Runs : pc[r] = "record" =>
        \A p \in delivered : target[r][p] # Absent

\* The same, as long as no git step failed or was killed and the persistent
\* index was not lost.
DroppedFilesRemovedUnlessFaulted == faulted \/ DroppedFilesRemoved

\* "Equal ids mean the tree side of the work is zero" (lib.rs, last-tree):
\* a report of tree_unchanged never comes with paths to change, whatever failed
\* before, unless a run ended between writing the index and recording its tree,
\* or the index was lost, and no run has recorded its tree since.
UnchangedMeansNoWork ==
    skewed \/ \A r \in Runs :
        pc[r] \in Holding \ {"measure"} /\ unchanged[r] => ~work[r]

\* "the worktree matches the synced state exactly" (docs/operating.md), as far
\* as refs that are read one after the other allow: what a run has checked out
\* is an `extra` laid over a `code` that is no newer, and the server has had
\* both since the run began, whatever was pushed or forgotten meanwhile,
\* however long the run waited for the lock and whatever older or newer state
\* the runs before it left.  When no ref moved, that is the server's state.
RunShowsServerStates ==
    \A r \in Runs : pc[r] = "record" =>
        \E h \in halves[r] :
            /\ h[1] # None
            /\ \A p \in Paths :
                  LET over  == IF h[2] = None THEN Absent ELSE h[2][p]
                      shown == IF over = Absent THEN h[1][p] ELSE over
                  IN  shown # Absent \/ p \notin Ignored => disk[p] = shown

\* Every run ends: a waiting one gets the lock or gives up, because every
\* way out of the critical section, errors and kills included, frees it.
RunEnds ==
    \A r \in Runs : pc[r] = "code" ~> pc[r] \in Ended
=============================================================================
