---------------------------- MODULE ClientProofs ----------------------------
(***************************************************************************)
(* Theorems about Client, for every number of syncs, paths, ids and edits. *)
(***************************************************************************)
EXTENDS Client, FiniteSetTheorems, SequenceTheorems, TLAPS

(* What a path holds.                                                      *)

\* A set of the first n numbers that is not empty has a largest element: the
\* intervals that end in n are ordered by inclusion, which is well-founded.
LEMMA LargestIn ==
    ASSUME NEW n \in Nat, NEW S \in SUBSET (1..n), S # {}
    PROVE  Max(S) \in S
<1> DEFINE F == {x..n : x \in S}
           R == StrictSubsetOrdering(Nat)
<1>1. F \subseteq FiniteSubsetsOf(Nat) /\ F # {}
  <2>1. ASSUME NEW x \in S
        PROVE  x..n \in SUBSET Nat /\ IsFiniteSet(x..n)
    BY FS_Interval
  <2> QED
    BY <2>1 DEF FiniteSubsetsOf
<1>2. IsWellFoundedOn(R, FiniteSubsetsOf(Nat))
  BY FS_StrictSubsetOrderingWellFounded
<1>3. PICK I \in F : \A J \in F : ~(<<J, I>> \in R)
  <2> HIDE DEF F, R
  <2> QED
    BY <1>1, <1>2, WFMin
<1>4. PICK x \in S : I = x..n
  BY <1>3
<1>5. ASSUME NEW y \in S
      PROVE  x >= y
  <2> SUFFICES ASSUME y > x
               PROVE  FALSE
    BY <1>5
  <2>1. y..n \subseteq x..n /\ x \in x..n /\ x \notin y..n
    BY <1>4
  <2>2. <<y..n, x..n>> \in R
    BY <2>1 DEF StrictSubsetOrdering
  <2> QED
    BY <1>3, <1>4, <2>2
<1> QED
  BY <1>5 DEF Max

\* The record of one edit.
LogEntry == [path : Paths, kind : Kinds]

\* What a path may have come to hold by the n-th edit.
Past(n) == (0..n) \cup {Gone}

\* A path holds an edit that was made, or nothing, and never one that removed
\* it.
LEMMA ContentType ==
    ASSUME TypeOK, NEW q, NEW n \in 0..Len(log)
    PROVE  /\ ContentAt(q, n) \in Contents
           /\ ContentAt(q, n) \in Past(Len(log))
           /\ KindOf(q, ContentAt(q, n)) = "gone" => ContentAt(q, n) = Gone
<1> DEFINE edits == {i \in 1..n : log[i].path = q}
<1>1. /\ n \in Nat /\ n <= MaxEdits /\ MaxEdits \in Nat
      /\ Len(log) \in Nat /\ n <= Len(log)
      /\ Gone \notin Nat
  BY ClientAssumption DEF TypeOK
<1>2. CASE edits = {}
  <2>1. ContentAt(q, n) = 0
    BY <1>2 DEF ContentAt
  <2> QED
    BY <1>1, <2>1 DEF Contents, Past, KindOf
<1>3. CASE edits # {}
  <2>1. Max(edits) \in edits
    BY <1>1, <1>3, LargestIn
  <2>2. Max(edits) \in 0..MaxEdits /\ Max(edits) \in 0..Len(log)
        /\ Max(edits) # 0
    BY <1>1, <2>1
  <2> HIDE DEF edits
  <2>3. ContentAt(q, n) = IF log[Max(edits)].kind = "gone" THEN Gone
                          ELSE Max(edits)
    BY <1>3 DEF ContentAt, edits
  <2> QED
    BY <1>1, <2>2, <2>3 DEF Contents, Past, KindOf
<1> QED
  BY <1>2, <1>3

\* So does it now.
LEMMA DiskType ==
    ASSUME TypeOK, NEW q
    PROVE  /\ Disk(q) \in Contents /\ Disk(q) \in Past(Len(log))
           /\ KindOf(q, Disk(q)) = "gone" => Disk(q) = Gone
<1>1. Len(log) \in 0..Len(log)
  BY DEF TypeOK
<1> QED
  BY <1>1, ContentType DEF Disk

\* What a path held after the first n edits stays what it was, and of the same
\* kind, whatever is edited later.
LEMMA ContentKept ==
    ASSUME TypeOK, NEW q \in Paths, NEW kind \in Kinds, Edit(q, kind)
    PROVE  /\ log' \in Seq(LogEntry)
           /\ Len(log') = Len(log) + 1
           /\ \A s, n : n \in 0..Len(log) =>
                 ContentAt(s, n)' = ContentAt(s, n)
           /\ \A s, content : content \in Past(Len(log)) =>
                 KindOf(s, content)' = KindOf(s, content)
<1>1. log \in Seq(LogEntry) /\ [path |-> q, kind |-> kind] \in LogEntry
  BY DEF TypeOK, LogEntry
<1>2. /\ log' \in Seq(LogEntry)
      /\ Len(log') = Len(log) + 1
      /\ \A i \in 1..Len(log) : log'[i] = log[i]
  BY <1>1, AppendProperties DEF Edit
<1>3. ASSUME NEW s, NEW n, n \in 0..Len(log)
      PROVE  ContentAt(s, n)' = ContentAt(s, n)
  <2>1. {i \in 1..n : log'[i].path = s} = {i \in 1..n : log[i].path = s}
    BY <1>2, <1>3, <1>1
  <2>2. CASE {i \in 1..n : log[i].path = s} = {}
    BY <2>1, <2>2 DEF ContentAt
  <2>3. CASE {i \in 1..n : log[i].path = s} # {}
    <3> DEFINE m == Max({i \in 1..n : log[i].path = s})
    <3>1. m \in 1..n
      <4>1. n \in Nat
        BY <1>3, <1>1
      <4> QED
        BY <2>3, <4>1, LargestIn
    <3>2. log'[m] = log[m]
      BY <1>1, <1>2, <1>3, <3>1
    <3> QED
      BY <2>1, <3>2 DEF ContentAt
  <2> QED
    BY <2>2, <2>3
<1>4. ASSUME NEW s, NEW content, content \in Past(Len(log))
      PROVE  KindOf(s, content)' = KindOf(s, content)
  <2>1. content # Gone /\ content # 0 => log'[content] = log[content]
    BY <1>1, <1>2, <1>4 DEF Past
  <2> QED
    BY <2>1 DEF KindOf
<1> QED
  BY <1>2, <1>3, <1>4

-----------------------------------------------------------------------------
(* Types.                                                                  *)

\* The variables that resolving an id is about.
ResolveTypes ==
    /\ config \in Ids \cup {None}
    /\ configLock \in Syncs \cup {None, "stale"}
    /\ generated \subseteq Ids
    /\ pc \in [Syncs -> {"idle", "failed"} \cup Resolving \cup Resolved]
    /\ id \in [Syncs -> Ids \cup {None}]
    /\ \A p \in Syncs : pc[p] \in Generating \cup Resolved => id[p] \in Ids
    /\ settled \in [Syncs -> BOOLEAN]

\* The user's files and index.
UserTypes ==
    /\ log \in Seq(LogEntry)
    /\ Len(log) <= MaxEdits
    /\ index \in Index
    /\ adds \in 0..MaxAdds

\* A walk that has not begun has its type.
LEMMA NewWalkType ==
    ASSUME NEW chain \in {"code", "extra"}
    PROVE  NewWalk(chain) \in Walk
BY ClientAssumption DEF NewWalk, Walk, NoTree, Tree, Index, Contents

\* What the user does keeps the types.
LEMMA UserKeepsTypes ==
    ASSUME TypeOK, ResolveTypes, User
    PROVE  TypeOK' /\ ResolveTypes'
<1>0. UserTypes
  BY DEF TypeOK, UserTypes, LogEntry
<1>1. ASSUME NEW q \in Paths, NEW kind \in Kinds, Edit(q, kind)
      PROVE  UserTypes' /\ UNCHANGED <<configVars, pc, id, walk, settled>>
  <2>1. log' \in Seq(LogEntry) /\ Len(log') = Len(log) + 1
    BY <1>1, ContentKept
  <2>2. Len(log') <= MaxEdits
    BY <1>0, <1>1, <2>1, ClientAssumption DEF Edit, UserTypes
  <2> QED
    BY <1>0, <1>1, <2>1, <2>2 DEF Edit, UserTypes
<1>2. ASSUME NEW q \in CodePaths, ChangeIndex(q)
      PROVE  UserTypes' /\ UNCHANGED <<configVars, pc, id, walk, settled>>
  <2>1. Disk(q) \in Contents /\ Gone \in Contents
    BY DiskType DEF Contents
  <2>2. index' \in Index
    BY <1>0, <1>2, <2>1 DEF ChangeIndex, UserTypes, Index
  <2>3. adds' \in 0..MaxAdds
    BY <1>0, <1>2, ClientAssumption DEF ChangeIndex, UserTypes
  <2> QED
    BY <1>0, <1>2, <2>2, <2>3 DEF ChangeIndex, UserTypes
<1>3. UserTypes' /\ UNCHANGED <<configVars, pc, id, walk, settled>>
  BY <1>1, <1>2 DEF User
<1> QED
  BY <1>3 DEF TypeOK, ResolveTypes, UserTypes, LogEntry, configVars

\* Resolving an id keeps them.
LEMMA ResolveKeepsTypes ==
    ASSUME TypeOK, ResolveTypes, NEW p \in Syncs, Resolve(p)
    PROVE  ResolveTypes' /\ UNCHANGED <<userVars, walk>>
<1> USE DEF ResolveTypes, Resolving, Generating, Resolved, configVars, Use
<1>1. CASE \E stream \in Ids : StartWithId(p, stream)
  BY <1>1 DEF StartWithId
<1>2. CASE Start(p)
  <2>1. ASSUME NEW r \in Syncs
        PROVE  (IF r = p THEN Quiet(p)
                ELSE settled[r] /\ (config # None \/ pc[r] \notin Resolving))
                   \in BOOLEAN
    BY ZenonT(30) DEF Quiet
  <2>2. settled' \in [Syncs -> BOOLEAN]
    BY <1>2, <2>1, Zenon DEF Start
  <2>3. pc' = [pc EXCEPT ![p] = "read"] /\ UNCHANGED <<id, configVars>>
        /\ UNCHANGED <<userVars, walk>>
    BY <1>2 DEF Start
  <2> QED
    BY <2>2, <2>3
<1>3. CASE ReadConfig(p)
  BY <1>3 DEF ReadConfig
<1>4. CASE WriteConfig(p)
  BY <1>4 DEF WriteConfig
<1>5. CASE ConfigWritten(p)
  BY <1>5 DEF ConfigWritten
<1>6. CASE ConfigLocked(p)
  BY <1>6 DEF ConfigLocked
<1> QED
  BY <1>1, <1>2, <1>3, <1>4, <1>5, <1>6 DEF Resolve

\* So does encoding.
LEMMA EncodeKeepsTypes ==
    ASSUME TypeOK, ResolveTypes, NEW p \in Syncs, Encode(p)
    PROVE  /\ ResolveTypes'
           /\ walk' \in [Syncs -> Walk]
           /\ UNCHANGED <<userVars, configVars, settled>>
<1>0. UserTypes /\ walk \in [Syncs -> Walk] /\ walk[p] \in Walk
  BY DEF TypeOK, UserTypes, LogEntry
<1>1. Len(log) \in 0..MaxEdits
  BY <1>0, ClientAssumption DEF UserTypes
<1>2. /\ index \in Index /\ NoTree \in Index
      /\ index \in Tree /\ NoTree \in Tree
  BY <1>0 DEF UserTypes, NoTree, Tree, Index, Contents
<1>3. CASE LoadIndex(p)
  <2>1. walk' \in [Syncs -> Walk]
    BY <1>0, <1>1, <1>2, <1>3 DEF LoadIndex, Walk
  <2> QED
    BY <1>3, <2>1
       DEF LoadIndex, ResolveTypes, Resolving, Generating, Resolved, configVars
<1>4. CASE OpenStatus(p)
  <2>1. walk' \in [Syncs -> Walk]
    BY <1>0, <1>2, <1>4 DEF OpenStatus, Walk, PathsOf, Paths
  <2> QED
    BY <1>4, <2>1
       DEF OpenStatus, ResolveTypes, Resolving, Generating, Resolved, configVars
<1>5. ASSUME NEW q \in Paths, LookAt(p, q)
      PROVE  walk' \in [Syncs -> Walk]
  <2> DEFINE entry == walk[p].status[q]
             todo == walk[p].todo \ {q}
             dirt == IF ToRead(q, entry) THEN walk[p].dirty \cup {q}
                     ELSE walk[p].dirty
             tree == [walk[p].tree EXCEPT ![q] =
                         IF Removed(q, entry) THEN Gone ELSE @]
  <2>1. walk' = [walk EXCEPT ![p] =
                    [walk[p] EXCEPT !.todo = todo, !.dirty = dirt,
                                    !.tree = tree]]
    BY <1>5 DEF LookAt
  <2>2. todo \in SUBSET Paths /\ dirt \in SUBSET Paths
    BY <1>0 DEF Walk
  <2>3. tree \in Tree
    BY <1>0 DEF Walk, Tree, Contents
  <2> HIDE DEF todo, dirt, tree
  <2> QED
    BY <1>0, <2>1, <2>2, <2>3 DEF Walk
<1>6. ASSUME NEW q \in Paths, SymlinkMetadata(p, q)
      PROVE  walk' \in [Syncs -> Walk]
  <2> DEFINE kind == KindOf(q, Disk(q))
             dirt == IF kind \in {"file", "link"} THEN walk[p].dirty
                     ELSE walk[p].dirty \ {q}
             file == IF kind = "file" THEN {q} ELSE {}
             link == IF kind = "link" THEN {q} ELSE {}
  <2>1. walk' = [walk EXCEPT ![p] =
                    [walk[p] EXCEPT !.dirty = dirt, !.file = file,
                                    !.link = link]]
    BY <1>6, Zenon DEF SymlinkMetadata
  <2>2. /\ dirt \in SUBSET Paths
        /\ file \in SUBSET Paths /\ link \in SUBSET Paths
    BY <1>0 DEF Walk
  <2> HIDE DEF dirt, file, link
  <2> QED
    BY <1>0, <2>1, <2>2 DEF Walk
<1>7. ASSUME NEW q \in Paths, OverlayFromDisk(p, q)
      PROVE  walk' \in [Syncs -> Walk]
  <2>1. PICK content \in Contents \cup {Elsewhere} :
            walk' = [walk EXCEPT
                ![p].dirty = @ \ {q}, ![p].file = {}, ![p].link = {},
                ![p].tree[q] = content]
    BY <1>7 DEF OverlayFromDisk
  <2> DEFINE dirt == walk[p].dirty \ {q}
             tree == [walk[p].tree EXCEPT ![q] = content]
  <2>2. walk' = [walk EXCEPT ![p] =
                    [walk[p] EXCEPT !.dirty = dirt, !.file = {}, !.link = {},
                                    !.tree = tree]]
    BY <2>1
  <2>3. dirt \in SUBSET Paths /\ tree \in Tree /\ {} \in SUBSET Paths
    BY <1>0 DEF Walk, Tree
  <2> HIDE DEF dirt, tree
  <2> QED
    BY <1>0, <2>2, <2>3 DEF Walk
<1>8. CASE UpdateRef(p)
  <2>1. walk' \in [Syncs -> Walk]
    BY <1>0, <1>8, NewWalkType DEF UpdateRef
  <2> QED
    BY <1>8, <2>1
       DEF UpdateRef, Encoded, ResolveTypes, Resolving, Generating, Resolved,
           configVars
<1>9. ASSUME NEW q \in Paths,
             LookAt(p, q) \/ SymlinkMetadata(p, q) \/ OverlayFromDisk(p, q)
      PROVE  /\ ResolveTypes'
             /\ walk' \in [Syncs -> Walk]
             /\ UNCHANGED <<userVars, configVars, settled>>
  <2>1. walk' \in [Syncs -> Walk]
    BY <1>5, <1>6, <1>7, <1>9
  <2>2. UNCHANGED <<userVars, configVars, pc, id, settled>>
    BY <1>9 DEF LookAt, SymlinkMetadata, OverlayFromDisk
  <2> QED
    BY <2>1, <2>2 DEF ResolveTypes, configVars
<1> QED
  BY <1>3, <1>4, <1>8, <1>9 DEF Encode

\* And an error, or a kill.
LEMMA FailKeepsTypes ==
    ASSUME TypeOK, ResolveTypes, NEW p \in Syncs, Fail(p)
    PROVE  /\ ResolveTypes'
           /\ walk' \in [Syncs -> Walk]
           /\ UNCHANGED userVars
<1>1. walk' \in [Syncs -> Walk]
  BY NewWalkType DEF Fail, TypeOK
<1> QED
  BY <1>1 DEF Fail, ResolveTypes, Resolving, Generating, Resolved, configVars

\* Every variable keeps its type, and a sync that has drawn an id has one.
THEOREM TypeInvariant == Spec => [](TypeOK /\ ResolveTypes)
<1>1. Init => TypeOK /\ ResolveTypes
  <2> SUFFICES ASSUME Init
               PROVE  TypeOK /\ ResolveTypes
    OBVIOUS
  <2>1. ResolveTypes
    BY DEF Init, ResolveTypes, Resolving, Generating, Resolved
  <2>2. walk \in [Syncs -> Walk]
    BY NewWalkType DEF Init
  <2>3. UserTypes
    BY ClientAssumption DEF Init, UserTypes, Index, Contents
  <2> QED
    BY <2>1, <2>2, <2>3 DEF TypeOK, ResolveTypes, UserTypes, LogEntry
<1>2. TypeOK /\ ResolveTypes /\ [Next]_vars => TypeOK' /\ ResolveTypes'
  <2> SUFFICES ASSUME TypeOK, ResolveTypes, [Next]_vars
               PROVE  TypeOK' /\ ResolveTypes'
    OBVIOUS
  <2>1. ASSUME ResolveTypes', walk' \in [Syncs -> Walk], UNCHANGED userVars
        PROVE  TypeOK' /\ ResolveTypes'
    BY <2>1 DEF TypeOK, ResolveTypes, userVars
  <2>2. CASE User
    BY <2>2, UserKeepsTypes
  <2>3. ASSUME NEW p \in Syncs, Resolve(p)
        PROVE  TypeOK' /\ ResolveTypes'
    <3>1. ResolveTypes' /\ UNCHANGED <<userVars, walk>>
      BY <2>3, ResolveKeepsTypes
    <3> QED
      BY <2>1, <3>1 DEF TypeOK
  <2>4. ASSUME NEW p \in Syncs, Encode(p)
        PROVE  TypeOK' /\ ResolveTypes'
    BY <2>1, <2>4, EncodeKeepsTypes
  <2>5. ASSUME NEW p \in Syncs, Fail(p)
        PROVE  TypeOK' /\ ResolveTypes'
    BY <2>1, <2>5, FailKeepsTypes
  <2>6. CASE UNCHANGED vars
    BY <2>6 DEF TypeOK, ResolveTypes, vars, userVars, configVars
  <2> QED
    BY <2>2, <2>3, <2>4, <2>5, <2>6 DEF Next
<1> QED
  BY <1>1, <1>2, PTL DEF Spec

-----------------------------------------------------------------------------
(* The stream id.                                                          *)

\* Once a settled sync has its id, the configuration has it and nobody is about
\* to write another: whoever would, had found nothing there, and was resolving
\* then.
SettledInv ==
    \A r \in Syncs : settled[r] /\ pc[r] \in Resolved =>
        /\ config = id[r]
        /\ \A s \in Syncs : pc[s] \notin Generating

\* Until then, nobody else may write one.
QuietInv ==
    \A r \in Syncs : settled[r] /\ pc[r] \in Resolving => Quiet(r)

\* A sync that was given its id has not looked.
GivenInv ==
    \A r \in Syncs : settled[r] => pc[r] # "idle"

IdInv == SettledInv /\ QuietInv /\ GivenInv

\* Every step keeps them.
LEMMA IdPreserved ==
    ASSUME TypeOK, ResolveTypes, IdInv, [Next]_vars
    PROVE  IdInv'
<1> USE DEF IdInv, SettledInv, QuietInv, GivenInv, ResolveTypes, Resolving,
            Generating, Resolved, configVars, Quiet
<1>same. ASSUME UNCHANGED <<config, pc, id, settled>>
         PROVE  IdInv'
  BY <1>same
<1>1. CASE User
  BY <1>1, <1>same DEF User, Edit, ChangeIndex
<1>2. ASSUME NEW p \in Syncs, \E stream \in Ids : StartWithId(p, stream)
      PROVE  IdInv'
  <2> USE <1>2 DEF StartWithId, Use
  <2>1. SettledInv'
    OBVIOUS
  <2>2. QuietInv'
    OBVIOUS
  <2>3. GivenInv'
    OBVIOUS
  <2> QED
    BY <2>1, <2>2, <2>3
<1>3. ASSUME NEW p \in Syncs, Start(p)
      PROVE  IdInv'
  <2>1. /\ pc' = [pc EXCEPT ![p] = "read"] /\ UNCHANGED <<config, id>>
        /\ settled'[p] => Quiet(p)
        /\ \A r \in Syncs \ {p} : settled'[r] =>
              settled[r] /\ (config # None \/ pc[r] \notin Resolving)
    <3>1. pc' = [pc EXCEPT ![p] = "read"] /\ UNCHANGED <<config, id>>
      BY <1>3 DEF Start
    <3>2. settled' = [r \in Syncs |->
              IF r = p THEN Quiet(p)
              ELSE settled[r] /\ (config # None \/ pc[r] \notin Resolving)]
      BY <1>3, Zenon DEF Start
    <3>3. settled'[p] = Quiet(p)
      BY <3>2, Zenon
    <3>4. ASSUME NEW r \in Syncs \ {p}
          PROVE  settled'[r] =
                     (settled[r] /\ (config # None \/ pc[r] \notin Resolving))
      BY <3>2, Zenon
    <3> HIDE DEF Quiet, Resolving
    <3> QED
      BY <3>1, <3>3, <3>4, Zenon
  <2>2. SettledInv'
    BY <2>1
  <2>3. QuietInv'
    <3>1. ASSUME NEW r \in Syncs, settled'[r], pc'[r] \in Resolving
          PROVE  Quiet(r)'
      <4>1. CASE r = p
        BY <2>1, <3>1, <4>1
      <4>2. CASE r # p
        BY <2>1, <3>1, <4>2
      <4> QED
        BY <4>1, <4>2
    <3> QED
      BY <3>1
  <2>4. GivenInv'
    BY <2>1
  <2> QED
    BY <2>2, <2>3, <2>4
<1>4. ASSUME NEW p \in Syncs, ReadConfig(p)
      PROVE  IdInv'
  <2> USE <1>4 DEF ReadConfig, Use
  <2>1. SettledInv'
    BY ClientAssumption
  <2>2. QuietInv'
    OBVIOUS
  <2>3. GivenInv'
    OBVIOUS
  <2> QED
    BY <2>1, <2>2, <2>3
<1>5. ASSUME NEW p \in Syncs, WriteConfig(p)
      PROVE  IdInv'
  BY <1>5 DEF WriteConfig
<1>6. ASSUME NEW p \in Syncs, ConfigWritten(p)
      PROVE  IdInv'
  <2> USE <1>6 DEF ConfigWritten, Use
  <2>1. SettledInv'
    OBVIOUS
  <2>2. QuietInv'
    OBVIOUS
  <2>3. GivenInv'
    OBVIOUS
  <2> QED
    BY <2>1, <2>2, <2>3
<1>7. ASSUME NEW p \in Syncs, ConfigLocked(p)
      PROVE  IdInv'
  BY <1>7 DEF ConfigLocked
<1>8. ASSUME NEW p \in Syncs, LoadIndex(p) \/ OpenStatus(p) \/ UpdateRef(p)
      PROVE  IdInv'
  <2>1. /\ pc[p] \in Resolved /\ pc'[p] \in Resolved
        /\ \A r \in Syncs \ {p} : pc'[r] = pc[r]
        /\ UNCHANGED <<config, id, settled>>
    BY <1>8 DEF LoadIndex, OpenStatus, UpdateRef, Encoded
  <2> QED
    BY <2>1
<1>9. ASSUME NEW p \in Syncs, NEW q \in Paths,
             LookAt(p, q) \/ SymlinkMetadata(p, q) \/ OverlayFromDisk(p, q)
      PROVE  IdInv'
  BY <1>9, <1>same DEF LookAt, SymlinkMetadata, OverlayFromDisk
<1>10. ASSUME NEW p \in Syncs, Fail(p)
       PROVE  IdInv'
  <2> USE <1>10 DEF Fail
  <2>1. SettledInv'
    OBVIOUS
  <2>2. QuietInv'
    OBVIOUS
  <2>3. GivenInv'
    OBVIOUS
  <2> QED
    BY <2>1, <2>2, <2>3
<1>11. CASE UNCHANGED vars
  BY <1>11, <1>same DEF vars
<1> HIDE DEF IdInv
<1> QED
  BY <1>1, <1>2, <1>3, <1>4, <1>5, <1>6, <1>7, <1>8, <1>9, <1>10, <1>11
     DEF Next, Resolve, Encode

\* The three hold throughout.
THEOREM IdInvariant == Spec => []IdInv
<1>1. Init => IdInv
  BY DEF Init, IdInv, SettledInv, QuietInv, GivenInv
<1>2. TypeOK /\ ResolveTypes /\ IdInv /\ [Next]_vars => IdInv'
  BY IdPreserved
<1> QED
  BY <1>1, <1>2, TypeInvariant, PTL DEF Spec

\* All syncs without an id that no id is generated behind use one id, whichever
\* first syncs overlap, fail or are killed.
THEOREM IdIsStable == Spec => []ResolvedIdIsStable
<1>1. IdInv => ResolvedIdIsStable
  BY DEF IdInv, SettledInv, ResolvedIdIsStable
<1> QED
  BY <1>1, IdInvariant, PTL

-----------------------------------------------------------------------------
(* What is encoded.                                                        *)

\* What EncodedWasOnDisk says of one path of a tree.
Delivered(w, q) ==
    \/ WasOnDisk(w, q)
    \/ ReadThrough(w, q)
    \/ w.tree[q] = w.base[q] /\ w.base[q] # w.status[q]

\* The path was a file at some moment since the walk began.
WasFile(w, q) ==
    \E m \in w.started..Len(log) : KindOf(q, ContentAt(q, m)) = "file"

\* A walk that is under way: a path that it has not looked at, or has yet to
\* read, is as in the index the tree began as, and any other is as it should
\* be.  What it reads as a file was one.
WalkInv(w) ==
    /\ w.started <= Len(log)
    /\ w.todo \cap w.dirty = {}
    /\ w.file \cup w.link \subseteq w.dirty
    /\ \A q \in Paths : w.status[q] \in Past(Len(log))
    /\ \A q \in w.file : WasFile(w, q)
    /\ \A q \in PathsOf(w.chain) :
          IF q \in w.todo \cup w.dirty THEN w.tree[q] = w.base[q]
          ELSE Delivered(w, q)

\* A walk that has read the index, or begun with the empty tree.
OpenInv(w) ==
    /\ w.started <= Len(log)
    /\ w.tree = w.base

EncodeInv(p) ==
    /\ pc[p] # "walk" => walk[p].dirty \cup walk[p].file \cup walk[p].link = {}
    /\ pc[p] = "open" => OpenInv(walk[p])
    /\ pc[p] = "walk" => WalkInv(walk[p])

\* Nothing is staged before it is on disk.
IndexInv == \A q \in Paths : index[q] \in Past(Len(log))

\* What was on disk, and how a tree has it, depends on the edits until then.
LEMMA EncodingsKept ==
    ASSUME TypeOK, NEW q \in Paths, NEW kind \in Kinds, Edit(q, kind)
    PROVE  \A s, n, entry : n \in 0..Len(log) /\ entry \in Past(Len(log)) =>
               /\ KindOf(s, ContentAt(s, n))' = KindOf(s, ContentAt(s, n))
               /\ Encodings(s, n, entry)' = Encodings(s, n, entry)
<1> SUFFICES ASSUME NEW s, NEW n, NEW entry, n \in 0..Len(log),
                    entry \in Past(Len(log))
             PROVE  /\ KindOf(s, ContentAt(s, n))' = KindOf(s, ContentAt(s, n))
                    /\ Encodings(s, n, entry)' = Encodings(s, n, entry)
  OBVIOUS
<1>1. ContentAt(s, n) \in Past(Len(log))
  BY ContentType
<1>2. ContentAt(s, n)' = ContentAt(s, n)
  BY ContentKept
<1>3. KindOf(s, ContentAt(s, n))' = KindOf(s, ContentAt(s, n))
  <2>1. PICK c : c = ContentAt(s, n)
    OBVIOUS
  <2>2. KindOf(s, c)' = KindOf(s, c)
    BY <1>1, <2>1, ContentKept
  <2>3. KindOf(s, ContentAt(s, n))' = KindOf(s, c)'
    BY <1>2, <2>1 DEF KindOf
  <2> QED
    BY <2>1, <2>2, <2>3
<1>4. IsGitlink(s, entry)' = IsGitlink(s, entry)
  BY ContentKept DEF IsGitlink
<1> QED
  BY <1>2, <1>3, <1>4 DEF Encodings

\* The user's edits take nothing away that a walk has seen.
LEMMA EditKeepsWalks ==
    ASSUME TypeOK, NEW q \in Paths, NEW kind \in Kinds, Edit(q, kind),
           NEW p \in Syncs, EncodeInv(p)
    PROVE  EncodeInv(p)'
<1>0. Len(log) \in Nat /\ walk[p] \in Walk
  BY DEF TypeOK
<1>1. /\ Len(log') = Len(log) + 1
      /\ \A s, n : n \in 0..Len(log) => ContentAt(s, n)' = ContentAt(s, n)
  BY ContentKept
<1>2. UNCHANGED <<pc, walk, index>>
  BY DEF Edit
<1>3. \A s, n, entry : n \in 0..Len(log) /\ entry \in Past(Len(log)) =>
          /\ KindOf(s, ContentAt(s, n))' = KindOf(s, ContentAt(s, n))
          /\ Encodings(s, n, entry)' = Encodings(s, n, entry)
  BY EncodingsKept
<1>4. \A n : n \in walk[p].started..Len(log) =>
          n \in 0..Len(log) /\ n \in walk[p].started..Len(log')
  BY <1>0, <1>1 DEF Walk
<1>5. Past(Len(log)) \subseteq Past(Len(log'))
  BY <1>0, <1>1 DEF Past
<1>past. 0 \in Past(Len(log))
  BY <1>0 DEF Past
<1>kinds. \A s, n : n \in 0..Len(log) =>
              KindOf(s, ContentAt(s, n))' = KindOf(s, ContentAt(s, n))
  BY <1>3, <1>past
<1>6. ASSUME NEW s \in Paths, WalkInv(walk[p]), WasOnDisk(walk[p], s)
      PROVE  WasOnDisk(walk[p], s)'
  <2>1. PICK n \in walk[p].started..Len(log) :
             walk[p].tree[s] \in Encodings(s, n, walk[p].status[s])
    BY <1>6 DEF WasOnDisk
  <2>2. PICK entry : entry = walk[p].status[s]
    OBVIOUS
  <2>3. Encodings(s, n, entry)' = Encodings(s, n, entry)
    BY <1>3, <1>4, <1>6, <2>1, <2>2 DEF WalkInv
  <2>4. Encodings(s, n, walk[p].status[s])' = Encodings(s, n, entry)'
    BY <1>2, <2>2 DEF Encodings
  <2> QED
    BY <1>2, <1>4, <2>1, <2>2, <2>3, <2>4 DEF WasOnDisk
<1>7. ASSUME NEW s \in Paths, ReadThrough(walk[p], s)
      PROVE  ReadThrough(walk[p], s)'
  <2>1. PICK m \in walk[p].started..Len(log), n \in walk[p].started..Len(log) :
             /\ m < n
             /\ KindOf(s, ContentAt(s, m)) = "file"
             /\ KindOf(s, ContentAt(s, n)) \in {"link", "special"}
    BY <1>7 DEF ReadThrough
  <2>2. /\ KindOf(s, ContentAt(s, m))' = "file"
        /\ KindOf(s, ContentAt(s, n))' \in {"link", "special"}
    BY <1>4, <1>kinds, <2>1
  <2>3. m \in walk'[p].started..Len(log') /\ n \in walk'[p].started..Len(log')
    BY <1>2, <1>4, <2>1
  <2> QED
    BY <1>2, <1>7, <2>1, <2>2, <2>3 DEF ReadThrough
<1>8. ASSUME NEW s, WasFile(walk[p], s)
      PROVE  WasFile(walk[p], s)'
  <2>1. PICK m \in walk[p].started..Len(log) :
             KindOf(s, ContentAt(s, m)) = "file"
    BY <1>8 DEF WasFile
  <2>2. KindOf(s, ContentAt(s, m))' = "file"
    BY <1>4, <1>kinds, <2>1
  <2>3. m \in walk'[p].started..Len(log')
    BY <1>2, <1>4, <2>1
  <2> QED
    BY <2>2, <2>3 DEF WasFile
<1>9. ASSUME NEW s \in Paths, WalkInv(walk[p]), Delivered(walk[p], s)
      PROVE  Delivered(walk[p], s)'
  BY <1>2, <1>6, <1>7, <1>9 DEF Delivered
<1>10. OpenInv(walk[p]) => OpenInv(walk[p])'
  BY <1>0, <1>1, <1>2 DEF OpenInv, Walk
<1>11. ASSUME WalkInv(walk[p])
       PROVE  WalkInv(walk[p])'
  <2>1. walk'[p].started <= Len(log')
    BY <1>0, <1>1, <1>2, <1>11 DEF WalkInv, Walk
  <2>2. \A s \in Paths : walk'[p].status[s] \in Past(Len(log'))
    BY <1>2, <1>5, <1>11 DEF WalkInv
  <2>3. \A s \in walk'[p].file : WasFile(walk[p], s)'
    BY <1>2, <1>8, <1>11 DEF WalkInv
  <2>4. ASSUME NEW s \in PathsOf(walk[p].chain)
        PROVE  IF s \in walk'[p].todo \cup walk'[p].dirty
               THEN walk'[p].tree[s] = walk'[p].base[s]
               ELSE Delivered(walk[p], s)'
    <3>1. s \in Paths
      BY DEF PathsOf, Paths
    <3> QED
      BY <1>2, <1>9, <1>11, <3>1 DEF WalkInv
  <2>5. Past(Len(log))' = Past(Len(log'))
    BY DEF Past
  <2> QED
    BY <1>2, <1>11, <2>1, <2>2, <2>3, <2>4, <2>5 DEF WalkInv
<1> QED
  BY <1>2, <1>10, <1>11 DEF EncodeInv

\* What a sync that does nothing has seen stays, as long as no file is edited.
LEMMA IdleKeepsWalk ==
    ASSUME NEW p \in Syncs, EncodeInv(p), pc'[p] = pc[p], walk'[p] = walk[p],
           UNCHANGED log
    PROVE  EncodeInv(p)'
<1> USE DEF ContentAt, KindOf, IsGitlink, Past
<1>1. \A s : WasOnDisk(walk[p], s)' <=> WasOnDisk(walk[p], s)
  BY DEF WasOnDisk, Encodings
<1>2. \A s : ReadThrough(walk[p], s)' <=> ReadThrough(walk[p], s)
  BY DEF ReadThrough
<1>3. \A s : WasFile(walk[p], s)' <=> WasFile(walk[p], s)
  BY DEF WasFile
<1>4. \A s : Delivered(walk[p], s)' <=> Delivered(walk[p], s)
  BY <1>1, <1>2 DEF Delivered
<1>5. WalkInv(walk[p]) => WalkInv(walk[p])'
  BY <1>3, <1>4 DEF WalkInv
<1>6. OpenInv(walk[p]) => OpenInv(walk[p])'
  BY DEF OpenInv
<1> QED
  BY <1>5, <1>6 DEF EncodeInv

\* A sync's own step edits no file.
LEMMA OwnStep ==
    ASSUME NEW p \in Syncs, UNCHANGED log, NEW w, walk'[p] = w, WalkInv(w)
    PROVE  WalkInv(walk[p])'
<1> USE DEF ContentAt, KindOf, IsGitlink, Past
<1>1. \A s : WasOnDisk(walk[p], s)' <=> WasOnDisk(w, s)
  BY DEF WasOnDisk, Encodings
<1>2. \A s : ReadThrough(walk[p], s)' <=> ReadThrough(w, s)
  BY DEF ReadThrough
<1>3. \A s : WasFile(walk[p], s)' <=> WasFile(w, s)
  BY DEF WasFile
<1>4. \A s : Delivered(walk[p], s)' <=> Delivered(w, s)
  BY <1>1, <1>2 DEF Delivered
<1> QED
  BY <1>3, <1>4 DEF WalkInv

\* An encoding of what is on disk now is one of something it had.
LEMMA NowWasOnDisk ==
    ASSUME TypeOK, NEW w \in Walk, w.started <= Len(log), NEW q,
           w.tree[q] \in Encodings(q, Len(log), w.status[q])
    PROVE  Delivered(w, q)
<1>1. Len(log) \in w.started..Len(log)
  BY DEF TypeOK, Walk
<1> QED
  BY <1>1 DEF Delivered, WasOnDisk

\* An entry stands for what lstat skips, and for what the status pass passes
\* over.
LEMMA EntryStands ==
    ASSUME TypeOK, NEW q, NEW entry,
           \/ KindOf(q, Disk(q)) \notin {"file", "link", "gone"}
           \/ ~ToRead(q, entry) /\ ~Removed(q, entry)
    PROVE  entry \in Encodings(q, Len(log), entry)
<1>1. CASE KindOf(q, Disk(q)) \notin {"file", "link", "gone"}
  BY <1>1 DEF Encodings, Disk
<1>2. CASE /\ KindOf(q, Disk(q)) \in {"file", "link", "gone"}
           /\ ~ToRead(q, entry) /\ ~Removed(q, entry)
  <2>1. entry = Disk(q)
    BY <1>2, DiskType DEF ToRead, Removed
  <2> QED
    BY <1>2, <2>1 DEF Encodings, Disk
<1> QED
  BY <1>1, <1>2

\* A file that is taken out of the tree was gone, or had become a directory.
LEMMA RemovedStands ==
    ASSUME NEW q, NEW entry, Removed(q, entry)
    PROVE  Gone \in Encodings(q, Len(log), entry)
BY ClientAssumption DEF Removed, Encodings, Disk, KindOf

\* A step of a walk is about one path, and has it settled or leaves it be.
LEMMA PathSettled ==
    ASSUME NEW w \in Walk, NEW v \in Walk, WalkInv(w), NEW q \in Paths,
           v.started = w.started, v.chain = w.chain,
           v.base = w.base, v.status = w.status,
           v.todo \cap v.dirty = {},
           v.file \cup v.link \subseteq v.dirty,
           \A s \in v.file : WasFile(w, s),
           \A s \in Paths \ {q} :
               /\ v.tree[s] = w.tree[s]
               /\ s \in v.todo \cup v.dirty <=> s \in w.todo \cup w.dirty,
           q \in PathsOf(w.chain) =>
               IF q \in v.todo \cup v.dirty THEN v.tree[q] = v.base[q]
               ELSE Delivered(v, q)
    PROVE  WalkInv(v)
<1>1. ASSUME NEW s \in PathsOf(v.chain)
      PROVE  IF s \in v.todo \cup v.dirty THEN v.tree[s] = v.base[s]
             ELSE Delivered(v, s)
  <2>1. CASE s = q
    BY <2>1
  <2>2. CASE s # q
    <3>1. s \in Paths \ {q}
      BY <1>1, <2>2 DEF PathsOf, Paths
    <3>2. Delivered(w, s) => Delivered(v, s)
      BY <3>1 DEF Delivered, WasOnDisk, ReadThrough
    <3>3. IF s \in w.todo \cup w.dirty THEN w.tree[s] = w.base[s]
          ELSE Delivered(w, s)
      BY <1>1 DEF WalkInv
    <3> QED
      BY <3>1, <3>2, <3>3
  <2> QED
    BY <2>1, <2>2
<1>2. \A s \in v.file : WasFile(v, s)
  BY DEF WasFile
<1> QED
  BY <1>1, <1>2 DEF WalkInv

\* The status of a path settles it, or leaves it to be read.
LEMMA LookAtKeepsWalk ==
    ASSUME TypeOK, NEW p \in Syncs, NEW q \in Paths, LookAt(p, q),
           EncodeInv(p)
    PROVE  EncodeInv(p)'
<1> DEFINE w == walk[p]
           entry == w.status[q]
           dirt == IF ToRead(q, entry) THEN w.dirty \cup {q} ELSE w.dirty
           left == IF Removed(q, entry) THEN Gone ELSE w.tree[q]
           tree == [w.tree EXCEPT ![q] = left]
<1>0. w \in Walk
  BY DEF TypeOK
<1>1. pc[p] = "walk" /\ q \in w.todo /\ UNCHANGED <<log, pc>>
  BY DEF LookAt, userVars
<1>2. PICK v : v = [w EXCEPT !.todo = w.todo \ {q}, !.dirty = dirt,
                             !.tree = tree]
  OBVIOUS
<1>3. walk'[p] = v
  BY <1>2 DEF LookAt, TypeOK
<1>4. /\ v.started = w.started /\ v.chain = w.chain
      /\ v.base = w.base /\ v.status = w.status
      /\ v.file = w.file /\ v.link = w.link
      /\ v.todo = w.todo \ {q} /\ v.dirty = dirt /\ v.tree = tree
      /\ v \in Walk
  <2>1. tree \in Tree /\ dirt \in SUBSET Paths
    BY <1>0 DEF Walk, Tree, Contents
  <2> HIDE DEF dirt, tree
  <2> QED
    BY <1>0, <1>2, <2>1 DEF Walk
<1>5. /\ \A s \in Paths \ {q} : /\ tree[s] = w.tree[s]
                                /\ s \in dirt <=> s \in w.dirty
      /\ tree[q] = left
      /\ w.dirty \subseteq dirt
  BY <1>0 DEF Walk, Tree
<1>6. WalkInv(w)
  BY <1>1 DEF EncodeInv
<1>7. ASSUME q \in PathsOf(w.chain)
      PROVE  IF q \in dirt THEN left = w.base[q] ELSE Delivered(v, q)
  <2>1. w.tree[q] = w.base[q] /\ w.todo \cap w.dirty = {}
        /\ w.started <= Len(log)
    BY <1>1, <1>6, <1>7 DEF WalkInv
  <2>2. CASE ToRead(q, entry)
    <3>1. ~Removed(q, entry)
      BY <2>2, ClientAssumption DEF ToRead, Removed, KindOf
    <3> QED
      BY <2>1, <2>2, <3>1
  <2>3. CASE Removed(q, entry)
    <3>1. v.tree[q] \in Encodings(q, Len(log), v.status[q])
      BY <1>4, <1>5, <2>3, RemovedStands
    <3>2. Delivered(v, q)
      BY <1>4, <2>1, <3>1, NowWasOnDisk
    <3>3. ~ToRead(q, entry)
      BY <2>3, ClientAssumption DEF ToRead, Removed, KindOf
    <3> QED
      BY <1>1, <2>1, <3>2, <3>3
  <2>4. CASE ~ToRead(q, entry) /\ ~Removed(q, entry)
    <3>1. entry \in Encodings(q, Len(log), entry)
      BY <2>4, EntryStands
    <3>2. v.tree[q] = v.base[q]
      BY <1>4, <1>5, <2>1, <2>4
    <3>3. CASE v.base[q] # v.status[q]
      BY <1>1, <2>1, <2>4, <3>2, <3>3 DEF Delivered
    <3>4. CASE v.base[q] = v.status[q]
      <4>1. v.tree[q] \in Encodings(q, Len(log), v.status[q])
        BY <1>4, <3>1, <3>2, <3>4
      <4>2. Delivered(v, q)
        BY <1>4, <2>1, <4>1, NowWasOnDisk
      <4> QED
        BY <1>1, <2>1, <2>4, <4>2
    <3> QED
      BY <3>3, <3>4
  <2> QED
    BY <2>2, <2>3, <2>4
<1>8. WalkInv(v)
  <2>1. /\ v.todo \cap v.dirty = {}
        /\ v.file \cup v.link \subseteq v.dirty
        /\ \A s \in v.file : WasFile(w, s)
    BY <1>4, <1>5, <1>6 DEF WalkInv
  <2>2. \A s \in Paths \ {q} :
            /\ v.tree[s] = w.tree[s]
            /\ s \in v.todo \cup v.dirty <=> s \in w.todo \cup w.dirty
    <3> HIDE DEF dirt, tree
    <3> QED
      BY <1>4, <1>5
  <2>3. q \in PathsOf(w.chain) =>
            IF q \in v.todo \cup v.dirty THEN v.tree[q] = v.base[q]
            ELSE Delivered(v, q)
    <3> HIDE DEF dirt, tree, left
    <3> QED
      BY <1>4, <1>5, <1>7
  <2> HIDE DEF w
  <2> QED
    BY <1>0, <1>4, <1>6, <2>1, <2>2, <2>3, PathSettled
<1> QED
  BY <1>1, <1>3, <1>8, OwnStep DEF EncodeInv

\* What lstat skips keeps its entry, and it says what the others are.
LEMMA SymlinkMetadataKeepsWalk ==
    ASSUME TypeOK, NEW p \in Syncs, NEW q \in Paths, SymlinkMetadata(p, q),
           EncodeInv(p)
    PROVE  EncodeInv(p)'
<1> DEFINE w == walk[p]
           kind == KindOf(q, Disk(q))
           dirt == IF kind \in {"file", "link"} THEN w.dirty ELSE w.dirty \ {q}
           file == IF kind = "file" THEN {q} ELSE {}
           link == IF kind = "link" THEN {q} ELSE {}
<1>0. w \in Walk
  BY DEF TypeOK
<1>1. /\ pc[p] = "walk" /\ q \in w.dirty /\ kind # "gone"
      /\ UNCHANGED <<log, pc>>
  BY DEF SymlinkMetadata, userVars
<1>2. PICK v : v = [w EXCEPT !.dirty = dirt, !.file = file, !.link = link]
  OBVIOUS
<1>3. walk'[p] = v
  BY <1>2, ZenonT(60) DEF SymlinkMetadata, TypeOK
<1>4. /\ v.started = w.started /\ v.chain = w.chain
      /\ v.base = w.base /\ v.status = w.status
      /\ v.file = file /\ v.link = link
      /\ v.todo = w.todo /\ v.dirty = dirt /\ v.tree = w.tree
      /\ v \in Walk
  <2>1. dirt \in SUBSET Paths /\ file \in SUBSET Paths /\ link \in SUBSET Paths
    BY <1>0 DEF Walk
  <2> HIDE DEF dirt, file, link
  <2> QED
    BY <1>0, <1>2, <2>1 DEF Walk
<1>5. WalkInv(w)
  BY <1>1 DEF EncodeInv
<1>6. ASSUME q \in PathsOf(w.chain)
      PROVE  IF q \in v.todo \cup v.dirty THEN v.tree[q] = v.base[q]
             ELSE Delivered(v, q)
  <2>1. w.tree[q] = w.base[q] /\ w.started <= Len(log)
    BY <1>1, <1>5, <1>6 DEF WalkInv
  <2>2. CASE kind \in {"file", "link"}
    BY <1>1, <1>4, <2>1, <2>2
  <2>3. CASE kind \notin {"file", "link"}
    <3>1. v.status[q] \in Encodings(q, Len(log), v.status[q])
      BY <1>1, <2>3, EntryStands
    <3>2. Delivered(v, q)
      <4>1. CASE v.base[q] # v.status[q]
        BY <1>4, <2>1, <4>1 DEF Delivered
      <4>2. CASE v.base[q] = v.status[q]
        <5>1. v.tree[q] \in Encodings(q, Len(log), v.status[q])
          BY <1>4, <2>1, <3>1, <4>2
        <5> QED
          BY <1>4, <2>1, <5>1, NowWasOnDisk
      <4> QED
        BY <4>1, <4>2
    <3> QED
      BY <1>4, <2>1, <3>2
  <2> QED
    BY <2>2, <2>3
<1>7. \A s \in v.file : WasFile(w, s)
  <2>1. Len(log) \in w.started..Len(log)
    BY <1>0, <1>5 DEF TypeOK, WalkInv, Walk
  <2>2. kind = "file" => WasFile(w, q)
    BY <2>1 DEF WasFile, Disk
  <2> QED
    BY <1>4, <2>2
<1>8. WalkInv(v)
  <2>1. /\ v.todo \cap v.dirty = {}
        /\ v.file \cup v.link \subseteq v.dirty
    BY <1>1, <1>4, <1>5 DEF WalkInv
  <2>2. \A s \in Paths \ {q} :
            /\ v.tree[s] = w.tree[s]
            /\ s \in v.todo \cup v.dirty <=> s \in w.todo \cup w.dirty
    BY <1>4
  <2> HIDE DEF w, dirt, file, link
  <2> QED
    BY <1>0, <1>4, <1>5, <1>6, <1>7, <2>1, <2>2, PathSettled
<1> QED
  BY <1>1, <1>3, <1>8, OwnStep DEF EncodeInv

\* Reading a path from disk settles it.
LEMMA OverlayKeepsWalk ==
    ASSUME TypeOK, NEW p \in Syncs, NEW q \in Paths, OverlayFromDisk(p, q),
           EncodeInv(p)
    PROVE  EncodeInv(p)'
<1>1. PICK content \in Contents \cup {Elsewhere} :
          /\ ReadAs(p, q, content)
          /\ walk' = [walk EXCEPT
                ![p].dirty = @ \ {q}, ![p].file = {}, ![p].link = {},
                ![p].tree[q] = content]
  BY DEF OverlayFromDisk
<1> DEFINE w == walk[p]
           tree == [w.tree EXCEPT ![q] = content]
<1>0. w \in Walk
  BY DEF TypeOK
<1>2. pc[p] = "walk" /\ q \in w.file \cup w.link /\ UNCHANGED <<log, pc>>
  BY DEF OverlayFromDisk, userVars
<1>3. PICK v : v = [w EXCEPT !.dirty = w.dirty \ {q}, !.file = {}, !.link = {},
                             !.tree = tree]
  OBVIOUS
<1>4. walk'[p] = v
  BY <1>1, <1>3 DEF TypeOK
<1>5. /\ v.started = w.started /\ v.chain = w.chain
      /\ v.base = w.base /\ v.status = w.status
      /\ v.file = {} /\ v.link = {}
      /\ v.todo = w.todo /\ v.dirty = w.dirty \ {q} /\ v.tree = tree
      /\ v \in Walk
  <2>1. tree \in Tree
    BY <1>0 DEF Walk, Tree
  <2> HIDE DEF tree
  <2> QED
    BY <1>0, <1>3, <2>1 DEF Walk
<1>6. /\ \A s \in Paths \ {q} : tree[s] = w.tree[s]
      /\ tree[q] = content
  BY <1>0 DEF Walk, Tree
<1> HIDE DEF tree
<1>7. WalkInv(w)
  BY <1>2 DEF EncodeInv
<1>8. q \notin v.todo \cup v.dirty /\ w.started <= Len(log)
  BY <1>2, <1>5, <1>7 DEF WalkInv
<1>9. Delivered(v, q)
  <2>1. CASE /\ KindOf(q, Disk(q)) \in {"file", "link"}
             /\ content = Disk(q)
    <3>1. v.tree[q] \in Encodings(q, Len(log), v.status[q])
      BY <1>5, <1>6, <2>1 DEF Encodings, Disk
    <3> QED
      BY <1>5, <1>8, <3>1, NowWasOnDisk
  <2>2. CASE /\ q \in w.file
             /\ KindOf(q, Disk(q)) \in {"link", "special"}
             /\ content = Elsewhere
    <3>1. PICK m \in w.started..Len(log) : KindOf(q, ContentAt(q, m)) = "file"
      BY <1>7, <2>2 DEF WalkInv, WasFile
    <3>2. /\ m # Len(log)
          /\ KindOf(q, ContentAt(q, Len(log))) \in {"link", "special"}
      BY <2>2, <3>1 DEF Disk
    <3>3. Len(log) \in w.started..Len(log) /\ m < Len(log)
      BY <1>0, <1>8, <3>1, <3>2 DEF TypeOK, Walk
    <3>4. ReadThrough(v, q)
      BY <1>5, <1>6, <2>2, <3>1, <3>2, <3>3 DEF ReadThrough
    <3> QED
      BY <3>4 DEF Delivered
  <2> QED
    BY <1>1, <2>1, <2>2 DEF ReadAs
<1>10. WalkInv(v)
  <2>1. /\ v.todo \cap v.dirty = {}
        /\ v.file \cup v.link \subseteq v.dirty
        /\ \A s \in v.file : WasFile(w, s)
    BY <1>5, <1>7 DEF WalkInv
  <2>2. \A s \in Paths \ {q} :
            /\ v.tree[s] = w.tree[s]
            /\ s \in v.todo \cup v.dirty <=> s \in w.todo \cup w.dirty
    BY <1>5, <1>6
  <2> HIDE DEF w
  <2> QED
    BY <1>0, <1>5, <1>7, <1>8, <1>9, <2>1, <2>2, PathSettled
<1> QED
  BY <1>2, <1>4, <1>10, OwnStep DEF EncodeInv

\* An encoding that begins, and one that is over, owe nothing.
LEMMA BeginKeepsWalk ==
    ASSUME TypeOK, IndexInv, NEW p \in Syncs,
           LoadIndex(p) \/ OpenStatus(p) \/ UpdateRef(p) \/ Fail(p),
           EncodeInv(p)
    PROVE  EncodeInv(p)'
<1>0. walk[p] \in Walk /\ Len(log) \in Nat
  BY DEF TypeOK
<1>1. CASE LoadIndex(p)
  <2>1. /\ pc[p] = "load" /\ pc'[p] = "open" /\ UNCHANGED log
        /\ walk'[p].started = Len(log) /\ walk'[p].dirty = walk[p].dirty
        /\ walk'[p].file = walk[p].file /\ walk'[p].link = walk[p].link
        /\ walk'[p].tree = walk'[p].base
    BY <1>0, <1>1 DEF LoadIndex, TypeOK, Walk, userVars
  <2> QED
    BY <1>0, <2>1 DEF EncodeInv, OpenInv
<1>2. CASE OpenStatus(p)
  <2>1. /\ pc[p] = "open" /\ pc'[p] = "walk" /\ UNCHANGED log
        /\ walk'[p].started = walk[p].started
        /\ walk'[p].dirty = walk[p].dirty
        /\ walk'[p].file = walk[p].file /\ walk'[p].link = walk[p].link
        /\ walk'[p].chain = walk[p].chain
        /\ walk'[p].todo = PathsOf(walk[p].chain)
        /\ walk'[p].tree = walk[p].tree /\ walk'[p].base = walk[p].base
        /\ walk'[p].status =
              IF walk[p].chain = "code" THEN index ELSE NoTree
    BY <1>0, <1>2 DEF OpenStatus, TypeOK, Walk, userVars
  <2>2. \A q \in Paths : walk'[p].status[q] \in Past(Len(log))
    BY <2>1 DEF IndexInv, NoTree, Past
  <2>3. walk[p].dirty \cup walk[p].file \cup walk[p].link = {}
        /\ OpenInv(walk[p])
    BY <2>1 DEF EncodeInv
  <2>4. WalkInv(walk[p])'
    <3>1. Past(Len(log))' = Past(Len(log))
      BY <2>1 DEF Past
    <3> QED
      BY <2>1, <2>2, <2>3, <3>1 DEF WalkInv, OpenInv
  <2> QED
    BY <2>1, <2>4 DEF EncodeInv
<1>3. CASE UpdateRef(p)
  <2>1. pc'[p] \in {"load", "done"} /\ walk'[p] = NewWalk("extra")
    BY <1>3 DEF UpdateRef, Encoded, TypeOK
  <2> QED
    BY <2>1 DEF EncodeInv, NewWalk
<1>4. CASE Fail(p)
  <2>1. pc'[p] = "failed" /\ walk'[p] = NewWalk("code")
    BY <1>4 DEF Fail, TypeOK
  <2> QED
    BY <2>1 DEF EncodeInv, NewWalk
<1> QED
  BY <1>1, <1>2, <1>3, <1>4

\* Resolving an id comes before the walk.
LEMMA ResolveKeepsWalk ==
    ASSUME TypeOK, NEW p \in Syncs, Resolve(p), EncodeInv(p)
    PROVE  EncodeInv(p)'
<1>1. UNCHANGED walk
  BY DEF Resolve, StartWithId, Start, ReadConfig, WriteConfig, ConfigWritten,
         ConfigLocked
<1>2. pc[p] # "walk" /\ pc'[p] \notin {"open", "walk"}
  BY DEF Resolve, StartWithId, Start, ReadConfig, WriteConfig, ConfigWritten,
         ConfigLocked, Use, TypeOK
<1> QED
  BY <1>1, <1>2 DEF EncodeInv

\* A sync's step leaves the other syncs and the user's files alone.
LEMMA StepIsOwn ==
    ASSUME TypeOK, NEW p \in Syncs, Resolve(p) \/ Encode(p) \/ Fail(p)
    PROVE  /\ UNCHANGED <<log, index>>
           /\ \A r \in Syncs \ {p} : pc'[r] = pc[r] /\ walk'[r] = walk[r]
<1> USE DEF TypeOK, userVars
<1>1. CASE Resolve(p)
  BY <1>1 DEF Resolve, StartWithId, Start, ReadConfig, WriteConfig,
              ConfigWritten, ConfigLocked, Use
<1>2. CASE LoadIndex(p) \/ OpenStatus(p) \/ UpdateRef(p)
  BY <1>2 DEF LoadIndex, OpenStatus, UpdateRef
<1>3. ASSUME NEW q \in Paths, LookAt(p, q)
      PROVE  /\ UNCHANGED <<log, index>>
             /\ \A r \in Syncs \ {p} : pc'[r] = pc[r] /\ walk'[r] = walk[r]
  BY <1>3 DEF LookAt
<1>4. ASSUME NEW q \in Paths, SymlinkMetadata(p, q)
      PROVE  /\ UNCHANGED <<log, index>>
             /\ \A r \in Syncs \ {p} : pc'[r] = pc[r] /\ walk'[r] = walk[r]
  BY <1>4 DEF SymlinkMetadata
<1>5. ASSUME NEW q \in Paths, OverlayFromDisk(p, q)
      PROVE  /\ UNCHANGED <<log, index>>
             /\ \A r \in Syncs \ {p} : pc'[r] = pc[r] /\ walk'[r] = walk[r]
  BY <1>5 DEF OverlayFromDisk
<1>6. CASE Fail(p)
  BY <1>6 DEF Fail
<1> QED
  BY <1>1, <1>2, <1>3, <1>4, <1>5, <1>6 DEF Encode

\* What is staged is, or was, on disk.
LEMMA IndexPreserved ==
    ASSUME TypeOK, IndexInv, [Next]_vars
    PROVE  IndexInv'
<1>0. Len(log) \in Nat /\ index \in Index
  BY DEF TypeOK
<1>1. ASSUME NEW q \in Paths, NEW kind \in Kinds, Edit(q, kind)
      PROVE  IndexInv'
  <2>1. Len(log') = Len(log) + 1
    BY <1>1, ContentKept
  <2> QED
    BY <1>0, <1>1, <2>1 DEF IndexInv, Past, Edit
<1>2. ASSUME NEW q \in CodePaths, ChangeIndex(q)
      PROVE  IndexInv'
  <2>1. Disk(q) \in Past(Len(log)) /\ Gone \in Past(Len(log))
    BY DiskType DEF Past
  <2>2. Past(Len(log))' = Past(Len(log))
    BY <1>2 DEF ChangeIndex, Past
  <2> QED
    BY <1>0, <1>2, <2>1, <2>2 DEF IndexInv, ChangeIndex, Index, Paths
<1>3. ASSUME NEW p \in Syncs, Resolve(p) \/ Encode(p) \/ Fail(p)
      PROVE  IndexInv'
  <2>1. UNCHANGED <<log, index>>
    BY <1>3, StepIsOwn
  <2> QED
    BY <2>1 DEF IndexInv, Past
<1>4. CASE UNCHANGED vars
  BY <1>4 DEF IndexInv, Past, vars, userVars
<1> QED
  BY <1>1, <1>2, <1>3, <1>4 DEF Next, User

\* Every walk is where its invariant says.
THEOREM EncodeInvariant == Spec => [](IndexInv /\ \A p \in Syncs : EncodeInv(p))
<1> DEFINE Inv == IndexInv /\ \A p \in Syncs : EncodeInv(p)
<1>1. Init => Inv
  <2>1. Init => IndexInv
    BY ClientAssumption DEF Init, IndexInv, Past
  <2> QED
    BY <2>1 DEF Init, EncodeInv, NewWalk
<1>2. TypeOK /\ Inv /\ [Next]_vars => Inv'
  <2> SUFFICES ASSUME TypeOK, Inv, [Next]_vars
               PROVE  Inv'
    OBVIOUS
  <2>0. IndexInv'
    BY IndexPreserved
  <2> SUFFICES ASSUME NEW p \in Syncs
               PROVE  EncodeInv(p)'
    BY <2>0
  <2>1. CASE User
    <3>1. ASSUME NEW q \in CodePaths, ChangeIndex(q)
          PROVE  EncodeInv(p)'
      BY <3>1, IdleKeepsWalk DEF ChangeIndex
    <3> QED
      BY <2>1, <3>1, EditKeepsWalks DEF User
  <2>2. ASSUME NEW r \in Syncs, Resolve(r) \/ Encode(r) \/ Fail(r)
        PROVE  EncodeInv(p)'
    <3>1. CASE p = r
      BY <2>2, <3>1, ResolveKeepsWalk, LookAtKeepsWalk, OverlayKeepsWalk,
         SymlinkMetadataKeepsWalk, BeginKeepsWalk DEF Encode
    <3>2. CASE p # r
      BY <2>2, <3>2, StepIsOwn, IdleKeepsWalk
    <3> QED
      BY <3>1, <3>2
  <2>3. CASE UNCHANGED vars
    BY <2>3, IdleKeepsWalk DEF vars, userVars
  <2> QED
    BY <2>1, <2>2, <2>3 DEF Next
<1> HIDE DEF Inv
<1>3. Spec => []Inv
  BY <1>1, <1>2, TypeInvariant, PTL DEF Spec
<1> QED
  BY <1>3, PTL DEF Inv

\* Each path of what is encoded has a content, or an absence, that it had on
\* disk at some moment since the encoding of its chain began, however many
\* edits the user makes meanwhile; its index entry if it was then what git has
\* no object for; or its first index entry if that was changed before the
\* status pass.
THEOREM EncodedIsTrue == Spec => []EncodedWasOnDisk
<1>1. (\A p \in Syncs : EncodeInv(p)) => EncodedWasOnDisk
  BY DEF EncodeInv, WalkInv, Delivered, Encoded, EncodedWasOnDisk
<1> QED
  BY <1>1, EncodeInvariant, PTL
=============================================================================
