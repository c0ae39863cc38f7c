---------------------------- MODULE MCAlgorithms ----------------------------
(* Bounded inputs for the pure algorithms.                                 *)
EXTENDS Algorithms

SeqsUpTo(S, n) == UNION {[1..k -> S] : k \in 0..n}

-----------------------------------------------------------------------------
(* Streams for FlushSplit, in four chunks.                                 *)

Junk == 30   \* a byte that is no digit

Chunks ==
    {<<>>, <<0>>, <<0, 0>>, <<0, 0, 4>>, <<Junk>>,
     FlushPkt, <<0, 0, 0, 1>>, <<0, 0, 0, 3>>,
     <<Plus, 0, 0, 5, 7>>, <<0, 0, 0, 8>>,
     <<0, 0, 0, 8, 0, 0>>,          \* a payload that looks like a flush
     FlushPkt \o <<0, 0, 0, 5>>}

MCChunkings == [1..4 -> Chunks]

-----------------------------------------------------------------------------
(* What a probe may meet: up to four items, then EOF or silence.           *)

MCRefLines         == {<<OurRef>>, <<OtherRef, Junk>>}
MCPlaceholderLines == {<<Placeholder>>}

AnswerItems ==
    {FlushPkt, Framed(<<ErrLine>>), <<0, 0, 0, 2>>,
     <<Junk, Junk, Junk, Junk>>, <<0, 0, 1>>}
        \cup {Framed(payload) : payload \in MCRefLines \cup MCPlaceholderLines}

MCAnswers == SeqsUpTo(AnswerItems, 4)

-----------------------------------------------------------------------------
(* Secrets of up to two characters, as files and variables hold them.      *)

MCSecretTexts ==
    {Unset, <<>>, <<Newline>>, <<25>>, <<25, Newline>>, <<Blank, 25>>,
     <<25, 26>>, <<25, 26, Newline>>, <<26, 25>>, <<25, Blank, 26>>,
     <<25, Control>>, <<25, 26, 25>>}

MCRests == {<<>>, <<0, 0, 0, 5, Newline>>}

-----------------------------------------------------------------------------
(* One tree, and up to one pattern in each of three layers.                *)

MCFileNames == {"a", "b", "f", "g", "p", Git}

MCTrees == {
    <<"a">>               :> "dir"   @@ <<"a", "f">>      :> "file"  @@
    <<"a", "b">>          :> "dir"   @@ <<"a", "b", "f">> :> "file"  @@
    <<"a", "b", "g">>     :> "file"  @@ <<"b">>           :> "dir"   @@
    <<"b", "f">>          :> "file"  @@ <<"f">>           :> "file"  @@
    <<"a", Git>>          :> "dir"   @@ <<"a", Git, "f">> :> "file"  @@
    <<"p">>               :> "other"}

PatternSegs ==
    {<<Literal("f")>>, <<Literal("b")>>, <<Literal("a"), Literal("b")>>,
     <<Literal("a"), Literal("b"), Glob({"f"})>>,
     <<Literal("a"), Glob({"b", "f"})>>, <<Deep, Literal("f")>>,
     <<Literal("a"), Deep>>, <<Glob({"a", "b"})>>}

Patterns ==
    [neg : BOOLEAN, root : {FALSE}, dir : {FALSE}, segs : PatternSegs]
    \cup [neg : BOOLEAN, root : {TRUE}, dir : {FALSE},
          segs : {segs \in PatternSegs : Len(segs) = 1}]
    \cup [neg : BOOLEAN, root : {TRUE}, dir : {TRUE},
          segs : {<<Literal("a")>>, <<Literal("a"), Literal("b")>>}]

MCFiles == {Missing, Unreadable} \cup {PatternFile(<<p>>) : p \in Patterns}
MCExtraFiles == SeqsUpTo(MCFiles, 1)

-----------------------------------------------------------------------------
(* Repositories of up to two remotes; the times of their refs differ.      *)

MCRefWords == OwnWords \cup {"o", "u", "s", "code", "dev", "x", "y"}

RefTimes ==
    Heads \o <<"main">>                     :> 30 @@
    Tracking("o", "main")                   :> 20 @@
    Tracking("o", "master")                 :> 40 @@
    Tracking("o", "dev")                    :> 50 @@
    Tracking("o", "dev") \o <<"x">>         :> 55 @@
    Tracking("o", "dev") \o <<"y">>         :> 5 @@
    Tracking("u", "main")                   :> 10 @@
    Namespace \o <<"s", "code">>            :> 60

HeadTargets == {Tracking("o", "dev"), Tracking("o", "main"), <<>>}

RepoOf(names, head, remotes, hidden) ==
    LET direct == [name \in names |-> [time |-> RefTimes[name]]]
    IN  [remotes |-> remotes, hidden |-> hidden,
         refs |-> IF head = <<>> THEN direct
                  ELSE direct @@ Tracking("o", "HEAD") :> [to |-> head]]

MCRepos ==
    {RepoOf(names, head, remotes, hidden) :
        names \in {S \in SUBSET DOMAIN RefTimes :
                     ~\E a, b \in S : IsStrictPrefix(a, b)},
        head \in HeadTargets,
        remotes \in {{"o"}, {"o", "u"}},
        hidden \in {<<>>, <<Hide(Namespace)>>, <<Unhide(<<"refs">>)>>}}

MCExtraPatterns == {<<>>, <<Tracking("o", "dev")>>}
MCTimes         == {0, 35, 45, 70}

-----------------------------------------------------------------------------
(* Four writes to the sink, some of which may write nothing.               *)

MCRecords ==
    {[kind |-> "sync", fields |-> [ms |-> 1]],
     [kind |-> "sync", fields |-> [ms |-> 3, bytes |-> 2]],
     [kind |-> "receive", fields |-> [ms |-> 2]]}

MCSinks == [1..4 -> MCRecords \X Outcomes]
MCLasts == {1, 2, 8}
=============================================================================
