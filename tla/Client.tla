------------------------------- MODULE Client -------------------------------
(***************************************************************************)
(* What one `git-full-send sync` does before it pushes, step by step, with *)
(* the user and other syncs of the repository at work meanwhile: resolving *)
(* the stream id (crates/client/src/stream.rs), then encoding the two      *)
(* chains path by path (crates/client/src/encode.rs).                      *)
(*                                                                         *)
(* A content is the number of the edit that wrote it, 0 for what was there *)
(* at first; in an index or a tree, that of a directory is the gitlink to  *)
(* what is checked out there.  `code` is the paths git does not ignore,    *)
(* `extra` the ones that are force-included.                               *)
(***************************************************************************)
EXTENDS Naturals, Sequences, FiniteSets, FiniteSetsExt

CONSTANTS
    Syncs,       \* invocations of sync; each runs once
    Encoders,    \* bound: those followed into their encoding; what one encodes
                 \* is independent of the others, but for the stream's refs
    CodePaths, ExtraPaths,
    Submodules,  \* those of CodePaths with a repository at first
    Ids,         \* stream ids, given or generated
    Gone,        \* no file, or no index entry
    Elsewhere,   \* a content from outside the path, read through it
    None,        \* no id
    MaxEdits,    \* bound: changes to files
    MaxAdds      \* bound: changes to the index

ASSUME ClientAssumption ==
    /\ Encoders \subseteq Syncs
    /\ CodePaths \cap ExtraPaths = {}
    /\ Submodules \subseteq CodePaths
    /\ None \notin Ids
    /\ {Gone, Elsewhere} \cap Nat = {}
    /\ Gone # Elsewhere
    /\ {MaxEdits, MaxAdds} \subseteq Nat

Paths    == CodePaths \cup ExtraPaths
Contents == (0..MaxEdits) \cup {Gone}

\* What lstat tells apart.  A "special" file is a FIFO, a socket or the like.
Kinds == {"file", "link", "directory", "special", "gone"}

VARIABLES
    log,         \* the edits so far: which path, and what it became
    index,       \* the user's index, as far as it is about CodePaths
    adds,        \* changes made to it
    config,      \* git-full-send.stream-id of the repository
    configLock,  \* who holds the lock on .git/config; "stale" if it was killed
    generated,   \* ids that have been drawn
    pc, id,
    walk,        \* the encoding a sync is at: a Walk
    settled      \* observer: no other sync may have written an id meanwhile

userVars   == <<log, index, adds>>
configVars == <<config, configLock, generated>>
vars == <<userVars, configVars, pc, id, walk, settled>>

Generating == {"generated", "locked"}
Resolving  == {"read"} \cup Generating
Resolved   == {"load", "open", "walk", "done"}

Index  == [Paths -> Contents]
Tree   == [Paths -> Contents \cup {Elsewhere}]
NoTree == [q \in Paths |-> Gone]

Walk ==
    [chain   : {"code", "extra"},
     started : 0..MaxEdits,   \* edits there were when it began
     base    : Index,         \* the index its tree began as
     status  : Index,         \* the index it compares the working tree with
     tree    : Tree,          \* the tree it is building
     todo    : SUBSET Paths,  \* those whose status it has not looked at
     dirty   : SUBSET Paths,  \* those to be read
     file    : SUBSET Paths,  \* the one of them that lstat said is a file
     link    : SUBSET Paths]  \* the one that it said is a symlink
NewWalk(chain) ==
    [chain |-> chain, started |-> 0, base |-> NoTree, status |-> NoTree,
     tree |-> NoTree, todo |-> {}, dirty |-> {}, file |-> {}, link |-> {}]

TypeOK ==
    /\ log \in Seq([path : Paths, kind : Kinds])
    /\ Len(log) <= MaxEdits
    /\ index \in Index
    /\ adds \in 0..MaxAdds
    /\ config \in Ids \cup {None}
    /\ configLock \in Syncs \cup {None, "stale"}
    /\ generated \subseteq Ids
    /\ pc \in [Syncs -> {"idle", "failed"} \cup Resolving \cup Resolved]
    /\ id \in [Syncs -> Ids \cup {None}]
    /\ \A p \in Syncs : pc[p] \in Resolved => id[p] \in Ids
    /\ walk \in [Syncs -> Walk]
    /\ settled \in [Syncs -> BOOLEAN]

Init ==
    /\ log = <<>>
    /\ index \in [Paths -> {0, Gone}]
    /\ \A q \in ExtraPaths : index[q] = Gone
    /\ adds = 0
    /\ config = None
    /\ configLock = None
    /\ generated = {}
    /\ pc = [p \in Syncs |-> "idle"]
    /\ id = [p \in Syncs |-> None]
    /\ walk = [p \in Syncs |-> NewWalk("code")]
    /\ settled = [p \in Syncs |-> FALSE]

-----------------------------------------------------------------------------
(* The user: editing files, and `git add` or `git rm --cached`.            *)

\* The content of a path after the first n edits.
ContentAt(q, n) ==
    LET edits == {i \in 1..n : log[i].path = q}
    IN  IF edits = {} THEN 0
        ELSE IF log[Max(edits)].kind = "gone" THEN Gone ELSE Max(edits)

Disk(q) == ContentAt(q, Len(log))

\* What a path with this content is.
KindOf(q, content) ==
    CASE content = Gone -> "gone"
      [] content = 0    -> IF q \in Submodules THEN "directory" ELSE "file"
      [] OTHER          -> log[content].kind

Edit(q, kind) ==
    /\ Len(log) < MaxEdits
    /\ kind = "gone" => Disk(q) # Gone
    /\ log' = Append(log, [path |-> q, kind |-> kind])
    /\ UNCHANGED <<index, adds, configVars, pc, id, walk, settled>>

ChangeIndex(q) ==
    /\ adds < MaxAdds
    /\ adds' = adds + 1
    /\ \E content \in {Disk(q), Gone} \ {index[q]} :
          /\ KindOf(q, content) # "special"
          /\ index' = [index EXCEPT ![q] = content]
    /\ UNCHANGED <<log, configVars, pc, id, walk, settled>>

-----------------------------------------------------------------------------
(* resolve_stream.                                                         *)

\* Nobody but p may write an id: no other sync resolves one, or each of them
\* will find one.
Quiet(p) ==
    \/ \A r \in Syncs \ {p} : pc[r] \notin Resolving
    \/ config # None /\ \A r \in Syncs \ {p} : pc[r] \notin Generating

\* The sync goes on to encode with `stream`.
Use(p, stream) ==
    /\ id' = [id EXCEPT ![p] = stream]
    /\ pc' = [pc EXCEPT ![p] = "load"]

\* Only a sync that was given no id goes through the configuration.
StartWithId(p, stream) ==
    /\ pc[p] = "idle"
    /\ Use(p, stream)
    /\ UNCHANGED <<userVars, configVars, walk, settled>>

Start(p) ==
    /\ pc[p] = "idle"
    /\ pc' = [pc EXCEPT ![p] = "read"]
    /\ settled' = [r \in Syncs |->
          IF r = p THEN Quiet(p)
          ELSE settled[r] /\ (config # None \/ pc[r] \notin Resolving)]
    /\ UNCHANGED <<userVars, configVars, id, walk>>

\* Mutant: the empty value of a key that is not set passes for an id.
ReadConfigEmpty(p) ==
    /\ pc[p] = "read"
    /\ Use(p, config)
    /\ UNCHANGED <<userVars, configVars, walk, settled>>

\* read_config, and generate when there is nothing.
ReadConfig(p) ==
    /\ pc[p] = "read"
    /\ \/ /\ config # None
          /\ Use(p, config)
          /\ UNCHANGED generated
       \/ /\ config = None
          /\ \E fresh \in Ids \ generated :
                /\ generated' = generated \cup {fresh}
                /\ id' = [id EXCEPT ![p] = fresh]
                /\ pc' = [pc EXCEPT ![p] = "generated"]
    /\ UNCHANGED <<userVars, config, configLock, walk, settled>>

\* Mutant: the id that was generated is not kept.
WriteConfigNowhere(p) ==
    /\ pc[p] = "generated"
    /\ Use(p, id[p])
    /\ UNCHANGED <<userVars, configVars, walk, settled>>

\* write_config: `git config` needs the lock, and replaces what is there.
WriteConfig(p) ==
    /\ pc[p] = "generated"
    /\ configLock = None
    /\ configLock' = p
    /\ pc' = [pc EXCEPT ![p] = "locked"]
    /\ UNCHANGED <<userVars, config, generated, id, walk, settled>>

ConfigWritten(p) ==
    /\ pc[p] = "locked"
    /\ configLock' = None
    /\ config' = id[p]
    /\ Use(p, id[p])
    /\ UNCHANGED <<userVars, generated, walk, settled>>

ConfigLocked(p) ==
    /\ pc[p] = "generated"
    /\ configLock # None
    /\ pc' = [pc EXCEPT ![p] = "failed"]
    /\ id' = [id EXCEPT ![p] = None]
    /\ UNCHANGED <<userVars, configVars, walk, settled>>

-----------------------------------------------------------------------------
(* encode and encode_extra.                                                *)

PathsOf(c) == IF c = "code" THEN CodePaths ELSE ExtraPaths

\* The tree starts as the index, or empty.
LoadIndex(p) ==
    /\ pc[p] = "load"
    /\ p \in Encoders
    /\ pc' = [pc EXCEPT ![p] = "open"]
    /\ LET first == IF walk[p].chain = "code" THEN index ELSE NoTree
       IN  walk' = [walk EXCEPT ![p].started = Len(log),
                                ![p].base = first, ![p].tree = first]
    /\ UNCHANGED <<userVars, configVars, id, settled>>

\* The status pass opens the index for itself; the selection walk has none.
OpenStatus(p) ==
    /\ pc[p] = "open"
    /\ pc' = [pc EXCEPT ![p] = "walk"]
    /\ walk' = [walk EXCEPT
          ![p].status = IF walk[p].chain = "code" THEN index ELSE NoTree,
          ![p].todo = PathsOf(walk[p].chain)]
    /\ UNCHANGED <<userVars, configVars, id, settled>>

\* The index has the path as a submodule.
IsGitlink(q, entry) == KindOf(q, entry) = "directory"

\* The status of one path against its index entry.  A submodule that is there
\* keeps its entry; any other directory stands for a file that is gone.
Removed(q, entry) ==
    /\ entry # Gone
    /\ \/ Disk(q) = Gone
       \/ KindOf(q, Disk(q)) = "directory" /\ ~IsGitlink(q, entry)

\* A change of content or type, or an untracked file or symlink.
ToRead(q, entry) ==
    /\ Disk(q) # entry
    /\ \/ KindOf(q, Disk(q)) \in {"file", "link"}
       \/ KindOf(q, Disk(q)) = "special" /\ entry # Gone

\* Mutant: a file that is gone is not taken out of the tree.
LookAtKeeping(p, q) ==
    /\ pc[p] = "walk"
    /\ q \in walk[p].todo
    /\ LET entry == walk[p].status[q]
       IN  walk' = [walk EXCEPT
              ![p].todo = @ \ {q},
              ![p].dirty = IF ToRead(q, entry) THEN @ \cup {q} ELSE @]
    /\ UNCHANGED <<userVars, configVars, pc, id, settled>>

\* One path of the status pass, or of the selection.
LookAt(p, q) ==
    /\ pc[p] = "walk"
    /\ q \in walk[p].todo
    /\ LET entry == walk[p].status[q]
       IN  walk' = [walk EXCEPT
              ![p].todo = @ \ {q},
              ![p].dirty = IF ToRead(q, entry) THEN @ \cup {q} ELSE @,
              ![p].tree[q] = IF Removed(q, entry) THEN Gone ELSE @]
    /\ UNCHANGED <<userVars, configVars, pc, id, settled>>

\* overlay_from_disk, one path at a time, during the status pass or after the
\* whole selection: lstat, which skips what a tree cannot hold.
SymlinkMetadata(p, q) ==
    /\ pc[p] = "walk"
    /\ q \in walk[p].dirty
    /\ walk[p].chain = "extra" => walk[p].todo = {}
    /\ walk[p].file \cup walk[p].link = {}
    /\ LET kind == KindOf(q, Disk(q))
       IN  /\ kind # "gone"
           /\ walk' = [walk EXCEPT
                 ![p].dirty = IF kind \in {"file", "link"} THEN @ ELSE @ \ {q},
                 ![p].file = IF kind = "file" THEN {q} ELSE {},
                 ![p].link = IF kind = "link" THEN {q} ELSE {}]
    /\ UNCHANGED <<userVars, configVars, pc, id, settled>>

\* What the read then finds.  read_link only reads a symlink; fs::read opens
\* whatever is there by now, and follows a symlink.
ReadAs(p, q, content) ==
    \/ /\ KindOf(q, Disk(q)) = (IF q \in walk[p].file THEN "file" ELSE "link")
       /\ content = Disk(q)
    \/ /\ q \in walk[p].file
       /\ KindOf(q, Disk(q)) \in {"link", "special"}
       /\ content = Elsewhere

OverlayFromDisk(p, q) ==
    /\ pc[p] = "walk"
    /\ q \in walk[p].file \cup walk[p].link
    /\ \E content \in Contents \cup {Elsewhere} :
          /\ ReadAs(p, q, content)
          /\ walk' = [walk EXCEPT
                ![p].dirty = @ \ {q}, ![p].file = {}, ![p].link = {},
                ![p].tree[q] = content]
    /\ UNCHANGED <<userVars, configVars, pc, id, settled>>

\* All paths are in: the commit is written and the scratch ref moved to it.
Encoded(p) == pc[p] = "walk" /\ walk[p].todo = {} /\ walk[p].dirty = {}

UpdateRef(p) ==
    /\ Encoded(p)
    /\ pc' = [pc EXCEPT ![p] =
                 IF walk[p].chain = "code" THEN "load" ELSE "done"]
    /\ walk' = [walk EXCEPT ![p] = NewWalk("extra")]
    /\ UNCHANGED <<userVars, configVars, id, settled>>

\* An error, as when a file to be read has vanished, or the process is killed,
\* which leaves its lock on the configuration.
Fail(p) ==
    /\ pc[p] \notin {"idle", "done", "failed"}
    /\ pc' = [pc EXCEPT ![p] = "failed"]
    /\ id' = [id EXCEPT ![p] = None]
    /\ walk' = [walk EXCEPT ![p] = NewWalk("code")]
    /\ configLock' = IF configLock = p THEN "stale" ELSE configLock
    /\ UNCHANGED <<userVars, config, generated, settled>>

-----------------------------------------------------------------------------
User ==
    \/ \E q \in Paths, kind \in Kinds : Edit(q, kind)
    \/ \E q \in CodePaths : ChangeIndex(q)

Resolve(p) ==
    \/ \E stream \in Ids : StartWithId(p, stream)
    \/ Start(p)
    \/ ReadConfig(p)
    \/ WriteConfig(p)
    \/ ConfigWritten(p)
    \/ ConfigLocked(p)

Encode(p) ==
    \/ LoadIndex(p)
    \/ OpenStatus(p)
    \/ \E q \in Paths : LookAt(p, q)
    \/ \E q \in Paths : SymlinkMetadata(p, q)
    \/ \E q \in Paths : OverlayFromDisk(p, q)
    \/ UpdateRef(p)

Next ==
    \/ User
    \/ \E p \in Syncs : Resolve(p) \/ Encode(p) \/ Fail(p)

Spec == Init /\ [][Next]_vars

-----------------------------------------------------------------------------
(* Properties.                                                             *)

\* What a tree may hold of a path as it was after n edits, when the index has
\* this entry for it: a file, a symlink or an absence itself.  What git has no
\* object for leaves the entry alone, or takes a file out of the tree.
Encodings(q, n, entry) ==
    LET content == ContentAt(q, n)
        kind    == KindOf(q, content)
    IN  IF kind \in {"file", "link", "gone"} THEN {content}
        ELSE IF kind = "directory" /\ ~IsGitlink(q, entry) THEN {entry, Gone}
        ELSE {entry}

\* The walk's tree has what the path held at some moment since it began.
WasOnDisk(w, q) ==
    \E n \in w.started..Len(log) : w.tree[q] \in Encodings(q, n, w.status[q])

\* A file became a link or a special file under the reader's hands.
ReadThrough(w, q) ==
    /\ w.tree[q] = Elsewhere
    /\ \E m, n \in w.started..Len(log) :
          /\ m < n
          /\ KindOf(q, ContentAt(q, m)) = "file"
          /\ KindOf(q, ContentAt(q, n)) \in {"link", "special"}

\* ADR-0009: "Staged and unstaged changes both collapse to the on-disk
\* content."  Each path of a commit has something it had on disk at some
\* moment since the encoding of its chain began, whatever is staged meanwhile.
StagedCollapsesToDisk ==
    \A p \in Syncs : Encoded(p) =>
        \A q \in PathsOf(walk[p].chain) :
            WasOnDisk(walk[p], q) \/ ReadThrough(walk[p], q)

\* encode, encode_extra: whatever is edited or staged during the walk, each
\* path of the commit has a content, or an absence, that it had on disk at
\* some moment since the encoding of its chain began, so nothing older than
\* the sync is delivered, but for a path whose index entry was changed between
\* the two times that encode opens the index: that one may have its first
\* entry.  A path that was no file or symlink then may have its index entry.
EncodedWasOnDisk ==
    \A p \in Syncs : Encoded(p) =>
        \A q \in PathsOf(walk[p].chain) :
            \/ WasOnDisk(walk[p], q)
            \/ ReadThrough(walk[p], q)
            \/ /\ walk[p].tree[q] = walk[p].base[q]
               /\ walk[p].base[q] # walk[p].status[q]

\* resolve_stream: whichever first syncs overlap, fail or are killed, all syncs
\* without an id that no id is generated behind use one id, the one that is
\* in the configuration when the first ones are through.
ResolvedIdIsStable ==
    \A p, r \in Syncs :
        pc[p] \in Resolved /\ pc[r] \in Resolved /\ settled[p] /\ settled[r]
            => id[p] = id[r]
=============================================================================
