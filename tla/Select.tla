------------------------------- MODULE Select -------------------------------
(***************************************************************************)
(* The force-include selection (crates/client/src/select.rs): a walk over  *)
(* the working tree that selects files by gitignore-syntax patterns with   *)
(* the polarity turned round, and that prunes directories no positive      *)
(* pattern can reach into.                                                 *)
(*                                                                         *)
(* A path is a sequence of names.  A pattern is a record: `neg` for a      *)
(* leading '!', `root` for a leading '/', `dir` for a trailing one, and    *)
(* `segs`, one record per segment: `deep` for `**`, else the names it      *)
(* matches and whether it is literal, that is, free of wildcards.          *)
(***************************************************************************)
EXTENDS Naturals, Sequences, SequencesExt, FiniteSets

Git == "git"     \* the name `.git`

Literal(name) == [deep |-> FALSE, literal |-> TRUE, names |-> {name}]
Glob(names)   == [deep |-> FALSE, literal |-> FALSE, names |-> names]
Deep          == [deep |-> TRUE, literal |-> FALSE, names |-> {}]

\* The patterns over a set of names: no literal segment is `**`.
Segments(Names) ==
    {seg \in [deep : BOOLEAN, literal : BOOLEAN, names : SUBSET Names] :
        seg.literal => ~seg.deep}

PatternsOver(Names) ==
    [neg : BOOLEAN, root : BOOLEAN, dir : BOOLEAN, segs : Seq(Segments(Names))]

\* A working tree: what is above a path in it is a directory of it.
IsTree(tree, Names) ==
    \A path \in DOMAIN tree :
        /\ path \in Seq(Names) \ {<<>>}
        /\ \A k \in 1..(Len(path) - 1) :
              SubSeq(path, 1, k) \in DOMAIN tree
                 /\ tree[SubSeq(path, 1, k)] = "dir"

-----------------------------------------------------------------------------
(* gix's Pattern::matches_repo_relative_path: a pattern with a `/` inside  *)
(* or in front is matched against the whole path, any other one against    *)
(* the base name.                                                          *)

Anchored(pattern) == pattern.root \/ Len(pattern.segs) > 1

\* Segment i takes the names cut[i-1]+1 .. cut[i] of the path: one name, or
\* any number for `**`, which takes at least one at the end of a pattern.
SegmentsMatch(segs, path) ==
    LET n == Len(segs) IN
    \E cut \in [0..n -> 0..Len(path)] :
        /\ cut[0] = 0
        /\ cut[n] = Len(path)
        /\ \A i \in 1..n :
              IF segs[i].deep
              THEN cut[i] >= cut[i - 1] + (IF i = n THEN 1 ELSE 0)
              ELSE /\ cut[i] = cut[i - 1] + 1
                   /\ path[cut[i]] \in segs[i].names

BaseNameMatches(segs, path) == SegmentsMatch(segs, <<Last(path)>>)

Matches(pattern, path, is_dir) ==
    /\ pattern.dir => is_dir
    /\ IF Anchored(pattern) THEN SegmentsMatch(pattern.segs, path)
       ELSE BaseNameMatches(pattern.segs, path)

-----------------------------------------------------------------------------
(* load_search: the layers [project, user, extra...].  A file is Missing,  *)
(* Unreadable or the patterns it has.                                      *)

Missing    == [state |-> "missing"]
Unreadable == [state |-> "unreadable"]
PatternFile(patterns) == [state |-> "read", patterns |-> patterns]

\* read_optional of the first two files, read_required of the others.
Loads(project, user, extras) ==
    /\ project # Unreadable
    /\ user # Unreadable
    /\ \A i \in DOMAIN extras : extras[i].state = "read"

LayerOf(file) == IF file.state = "read" THEN file.patterns ELSE <<>>

\* The patterns of all layers, in the order in which the last match wins.
LoadSearch(project, user, extras) ==
    LayerOf(project) \o LayerOf(user)
       \o FlattenSeq([i \in DOMAIN extras |-> LayerOf(extras[i])])

-----------------------------------------------------------------------------
(* classify: the last pattern that matches decides.                        *)

Matching(search, path, is_dir) ==
    {i \in DOMAIN search : Matches(search[i], path, is_dir)}

\* `inherited` is what unwrap_or falls back to when nothing matches.
Classify(search, path, is_dir, inherited) ==
    LET hits == Matching(search, path, is_dir)
        last == CHOOSE i \in hits : \A j \in hits : j <= i
    IN  IF hits = {} THEN inherited ELSE ~search[last].neg

-----------------------------------------------------------------------------
(* Pruning.                                                                *)

Positive(search) == {i \in DOMAIN search : ~search[i].neg}

\* The whole segments in front of the first wildcard.
LiteralHead(segs) ==
    LET wild == {i \in DOMAIN segs : ~segs[i].literal}
        stop == IF wild = {} THEN Len(segs)
                ELSE (CHOOSE i \in wild : \A j \in wild : i <= j) - 1
    IN  [i \in 1..stop |-> segs[i].names]

\* prunable_prefix; the empty sequence when the pattern is unanchored.
PrunablePrefix(pattern) ==
    IF Anchored(pattern) THEN LiteralHead(pattern.segs) ELSE <<>>

\* build_prune_info: its unanchored patterns and its prefixes.
UnanchoredPatterns(search) ==
    {search[i] : i \in {j \in Positive(search) :
                          PrunablePrefix(search[j]) = <<>>}}

PrunePrefixes(search) ==
    {PrunablePrefix(search[i]) : i \in Positive(search)} \ {<<>>}

\* Mutant: only directories at or under a prefix are entered.
CanContainMatchBelow(search, dir) ==
    \/ UnanchoredPatterns(search) # {}
    \/ \E prefix \in PrunePrefixes(search) :
          /\ Len(prefix) <= Len(dir)
          /\ \A i \in DOMAIN prefix : dir[i] \in prefix[i]

\* can_contain_match: the shorter of prefix and directory begins the longer.
CanContainMatch(search, dir) ==
    \/ UnanchoredPatterns(search) # {}
    \/ \E prefix \in PrunePrefixes(search) :
          \A i \in DOMAIN prefix \cap DOMAIN dir : dir[i] \in prefix[i]

-----------------------------------------------------------------------------
(* Walk::run over a tree: a function from paths to "dir", "file" (symlinks *)
(* too) or "other", whose domain has the directories of its paths.         *)

\* What the walk makes of a directory: pruned, or the state it enters with.
\* The domain of `walk` has the root, the empty path.
WalkDirs(search, tree) ==
    LET dirs == {path \in DOMAIN tree : tree[path] = "dir"}
        walk[dir \in dirs \cup {<<>>}] ==
            LET up       == walk[Front(dir)]
                included == Classify(search, dir, TRUE, up = "included")
            IN  CASE dir = <<>> -> "excluded"
                  [] dir # <<>> /\ (up = "pruned" \/ Last(dir) = Git) ->
                        "pruned"
                  [] OTHER ->
                        IF included THEN "included"
                        ELSE IF CanContainMatch(search, dir) THEN "excluded"
                        ELSE "pruned"
    IN  walk

\* select_in's paths; sorting and removing duplicates make it a set.
Selected(search, tree) ==
    LET walk == WalkDirs(search, tree) IN
    {path \in DOMAIN tree :
        /\ tree[path] = "file"
        /\ Last(path) # Git
        /\ walk[Front(path)] # "pruned"
        /\ Classify(search, path, FALSE, walk[Front(path)] = "included")}

-----------------------------------------------------------------------------
(* The selection that the layers mean, without a walk: of a file and the   *)
(* directories above it, the deepest one that a pattern matches decides.   *)

Meant(search, tree) ==
    {path \in DOMAIN tree :
        LET upTo(k) == SubSeq(path, 1, k)
            decides == {k \in DOMAIN path :
                          Matching(search, upTo(k), k < Len(path)) # {}}
            deepest == CHOOSE k \in decides : \A j \in decides : j <= k
        IN  /\ tree[path] = "file"
            /\ \A k \in DOMAIN path : path[k] # Git
            /\ decides # {}
            /\ Classify(search, upTo(deepest), deepest < Len(path), FALSE)}
=============================================================================
