----------------------------- MODULE Algorithms -----------------------------
(***************************************************************************)
(* The pure algorithms of git-full-send, each over a set of inputs.  A     *)
(* state is one input; each invariant compares what the code makes of the  *)
(* inputs of its kind with a definition that does not follow the code.     *)
(***************************************************************************)
EXTENDS PktLine, Probe, AuthToken, Select, Advertise, Metrics

CONSTANTS
    Chunkings,            \* streams, as the chunks they are read in
    RefLines,             \* payloads that name a ref
    PlaceholderLines,     \* payloads of a repository without refs
    Answers,              \* what a probe may meet, pkt-line by pkt-line
    SecretTexts,          \* what files and variables hold
    Rests,                \* what a client sends behind its preamble
    FileNames, Trees, Files, \* names, working trees, pattern files
    ExtraFiles,           \* lists of the files that the flags name
    RefWords, Repos,      \* components of ref names, repositories
    ExtraPatterns,        \* lists of the values of --advertise-ref
    Times, StaleAfter,    \* when doctor is run, the age that it calls stale
    Records,              \* what operations record
    Sinks, Lasts          \* writes to a sink, limits of `metrics`

VARIABLE input

Bytes == Nat

ASSUME StreamsAssumption == Chunkings \subseteq Seq(Seq(Bytes))

ASSUME AnswersAssumption ==
    /\ Answers \subseteq Seq(Seq(Bytes))
    /\ \A payload \in RefLines \cup PlaceholderLines :
          /\ payload \in Seq(Bytes) \ {<<>>}
          /\ Len(payload) + 4 < NoLength
    /\ \A payload \in RefLines : payload[1] \in {OurRef, OtherRef}
    /\ \A payload \in PlaceholderLines : payload[1] = Placeholder

\* No client puts the prefix of a preamble into its first pkt-line but in a
\* preamble.
ASSUME SecretsAssumption ==
    /\ SecretTexts \subseteq Seq(Bytes)
    /\ \A rest \in Rests :
          /\ rest \in Seq(Bytes)
          /\ Len(rest) >= 5 => rest[5] # AuthPktPrefix[1]

ASSUME LayersAssumption ==
    /\ \A tree \in Trees : IsTree(tree, FileNames)
    /\ \A file \in Files \ {Missing, Unreadable} :
          /\ file = PatternFile(file.patterns)
          /\ file.patterns \in Seq(PatternsOver(FileNames))
    /\ ExtraFiles \subseteq Seq(Files)

ASSUME ReposAssumption ==
    /\ OwnWords \subseteq RefWords
    /\ \A repo \in Repos : IsRepository(repo, RefWords)
    /\ ExtraPatterns \subseteq Seq(Seq(RefWords))
    /\ Times \subseteq Nat
    /\ StaleAfter \in Nat \ {0}

ASSUME SinksAssumption ==
    /\ \A record \in Records : \A field \in DOMAIN record.fields :
          record.fields[field] \in Nat
    /\ Sinks \subseteq Seq(Records \X Outcomes)
    /\ Lasts \subseteq Nat

-----------------------------------------------------------------------------

PickStream ==
    \E chunks \in Chunkings : input' = [kind |-> "stream", chunks |-> chunks]

PickAnswer ==
    \E items \in Answers, ending \in {"eof", "timeout"} :
        input' = [kind |-> "answer", items |-> items, ending |-> ending]

\* The server has a secret, the client has one or none.
PickSecrets ==
    \E server_file, server_env, client_file, client_env \in SecretTexts,
       rest \in Rests :
        /\ Resolve(server_file, server_env).is = "token"
        /\ Resolve(client_file, client_env).is # "error"
        /\ input' = [kind |-> "secrets", rest |-> rest,
                     server |-> ListenAuth(server_file, server_env, FALSE),
                     client |-> Resolve(client_file, client_env)]

PickLayers ==
    \E tree \in Trees, project, user \in Files, extras \in ExtraFiles :
        /\ Loads(project, user, extras)
        /\ input' = [kind |-> "layers", tree |-> tree,
                     layers |-> <<LayerOf(project), LayerOf(user)>>
                                  \o [i \in DOMAIN extras |-> LayerOf(extras[i])],
                     search |-> LoadSearch(project, user, extras)]

PickRepo ==
    \E repo \in Repos, extra \in ExtraPatterns :
        input' = [kind |-> "repo", repo |-> repo, extra |-> extra]

PickSink ==
    \E writes \in Sinks, last \in Lasts :
        input' = [kind |-> "sink", writes |-> writes, last |-> last]

-----------------------------------------------------------------------------

Init == input = [kind |-> "none"]

Next ==
    /\ input.kind = "none"
    /\ \/ PickStream
       \/ PickAnswer
       \/ PickSecrets
       \/ PickLayers
       \/ PickRepo
       \/ PickSink

Spec == Init /\ [][Next]_input

-----------------------------------------------------------------------------
(* Properties.                                                             *)

\* FlushSplit::feed: however the reads cut a stream, even within a header or
\* the flush-pkt, the counts are those of the stream read as a whole.
SplitIgnoresChunks ==
    input.kind = "stream" =>
        WireCounts(PumpSplitting(input.chunks))
            = SplitOf(FlattenSeq(input.chunks))

\* read_advertisement, probe: what a probe that saw the advertisement to its
\* end calls its size is what the push client's FlushSplit counts up to the
\* flush on the same bytes, whatever comes behind it, the probe names a ref for
\* every packet but placeholders, and it says that the server is up unless it
\* cannot answer.  Of any other answer it says that it is no receive-pack only
\* when it ended within its first four bytes.
ProbeCountsAsPushDoes ==
    input.kind = "answer" =>
        LET stream == FlattenSeq(input.items)
            seen   == ReadAdvertisement(stream, input.ending)
            split  == PumpSplitting(<<stream>>)
            FramedAs(payloads, k) ==
                {j \in 1..(k - 1) : \E payload \in payloads :
                                       input.items[j] = Framed(payload)}
        IN  /\ \A k \in DOMAIN input.items :
                  /\ input.items[k] = FlushPkt
                  /\ FramedAs(RefLines \cup PlaceholderLines, k) = 1..(k - 1)
                  => /\ seen.result = "advertisement"
                     /\ seen.bytes = split.pre_flush
                     /\ seen.refs.all
                          + Cardinality(FramedAs(PlaceholderLines, k))
                          = split.pre_flush_pkts
                     /\ \A sent \in BOOLEAN :
                           ProbeVerdict(seen, sent)
                             = IF sent THEN "up" ELSE "Exchange"
            /\ \A sent \in BOOLEAN :
                  ProbeVerdict(seen, sent) = "NotReceivePack"
                    <=> Len(stream) < 4 /\ input.ending = "eof"

\* Token::resolve, auth_pkt, read_auth_pkt: wherever each end has its secret
\* from, the server lets in exactly the client that has the same one, and
\* then leaves receive-pack exactly the bytes behind the preamble.
SameSecretGetsIn ==
    input.kind = "secrets" =>
        LET sent == (IF input.client.is = "token"
                     THEN AuthPkt(input.client.value) ELSE <<>>) \o input.rest
            read == ReadAuthPkt(sent, input.server.value)
        IN  IF input.client = input.server
            THEN read = [outcome |-> "Ok", rest |-> input.rest]
            ELSE read.outcome # "Ok"

\* load_search, select_in: pruning never changes the selection.  A file is
\* selected when the last pattern on it, or else on the nearest directory above
\* it that any pattern matches, is positive, where the extra files come after
\* the user's and the user's after the project's.
PruneKeepsSelection ==
    input.kind = "layers" =>
        Selected(input.search, input.tree)
            = Meant(FlattenSeq(input.layers), input.tree)

AtOrBelow(prefixes, name) == \E prefix \in prefixes : IsPrefix(prefix, name)

\* Refs below the branch that the HEAD of a remote names, which is gone then:
\* git takes what the server shows for a directory of refs.
Strays(repo) ==
    {name \in DOMAIN repo.refs :
        \E remote \in repo.remotes :
            LET head == Tracking(remote, "HEAD")
            IN  IsSymref(repo, head) /\ IsStrictPrefix(repo.refs[head].to, name)}

OfRemote(remote) == <<"refs", "remotes", remote>>

\* hide_refs_values: with hiding on, and whatever the repository hides or
\* shows by its own configuration, a push may update every ref of the
\* namespace, and what else is advertised is the heads, what the operator
\* added, one ref of each remote at most and the strays.
CuratedAdvertisement ==
    input.kind = "repo" =>
        LET repo  == input.repo
            shown == Visible(repo, TRUE, input.extra)
            meant == {Namespace, Heads} \cup ToSet(input.extra)
            other == {name \in shown : ~AtOrBelow(meant, name)} \ Strays(repo)
        IN  /\ \A name \in DOMAIN repo.refs :
                  AtOrBelow(meant, name) => name \in shown
            /\ \A name \in other :
                  \E remote \in repo.remotes : IsPrefix(OfRemote(remote), name)
            /\ \A a, b \in other, remote \in repo.remotes :
                  /\ IsPrefix(OfRemote(remote), a)
                  /\ IsPrefix(OfRemote(remote), b)
                  => a = b

\* check_anchors: doctor judges the freshness of exactly what git advertises
\* outside the namespace, but for strays, a remote it does not name has a ref
\* of its own advertised unless the HEAD of the remote names a branch that is
\* gone, and none of the refs it judges is fresh when it says that they are
\* stale.
DoctorJudgesAdvertised ==
    input.kind = "repo" =>
        LET repo   == input.repo
            shown  == {name \in Visible(repo, TRUE, <<>>) :
                         ~IsPrefix(Namespace, name)}
            judged == shown \ Strays(repo)
        IN  /\ FreshestAdvertisedSecs(repo)
                 = Max({NoTime} \cup {CommitterSecs(repo, n) : n \in judged})
            /\ \A remote \in repo.remotes \ MissingAnchors(repo) :
                  \/ \E name \in shown : IsPrefix(OfRemote(remote), name)
                  \/ CommitterSecs(repo, Tracking(remote, "HEAD")) = NoTime
            /\ \A now \in Times, name \in judged :
                  CheckAnchors(repo, now, StaleAfter) = "stale"
                     => CommitterSecs(repo, name) + StaleAfter <= now

\* The writes to a sink whose records have a line of their own: nothing of
\* another record is in front of them on it, nor behind them.
WritesOnLines(ws, kind) ==
    LET clean(i) == \A j \in 1..(i - 1) :
                       \/ ws[j][2] \in {"whole", "nothing"}
                       \/ \E k \in (j + 1)..(i - 1) : ws[k][2] = "whole"
        ends(i)  == \/ ws[i][2] = "whole"
                    \/ /\ ws[i][2] = "unended"
                       /\ \A j \in (i + 1)..Len(ws) : ws[j][2] = "nothing"
    IN  {i \in DOMAIN ws : ws[i][1].kind = kind /\ clean(i) /\ ends(i)}

\* The writes that are counted: one cut in the midst of a character leaves none.
CountedWrites(ws, kind) ==
    IF \E i \in DOMAIN ws : ws[i][2] = "cut" THEN {}
    ELSE WritesOnLines(ws, kind)

\* append, aggregate: a write that was cut short costs its own record and at
\* most the one that follows it, unless the cut was in the midst of a
\* character, which costs all there ever are; the statistics are those of all
\* the others, or of the last ones: how many have a field, its median, its
\* largest value.
TornLineCostsTwoOrAll ==
    input.kind = "sink" =>
        LET ws == input.writes IN
        \A kind \in {ws[i][1].kind : i \in DOMAIN ws} :
            LET counted == CountedWrites(ws, kind)
                kept    == {i \in counted :
                              Cardinality({j \in counted : j >= i})
                                 <= input.last}
                stats   == Aggregate(FileOf(ws), kind, input.last)
                carried == UNION {DOMAIN ws[i][1].fields : i \in kept}
            IN  /\ stats.records = Cardinality(kept)
                /\ DOMAIN stats.fields = carried
                /\ \A field \in carried :
                      LET with == {i \in kept : field \in DOMAIN ws[i][1].fields}
                          of(i) == ws[i][1].fields[field]
                          Share(S) == 2 * Cardinality(S) >= Cardinality(with)
                          its  == stats.fields[field]
                      IN  /\ its.count = Cardinality(with)
                          /\ its.max = Max({of(i) : i \in with})
                          /\ Share({i \in with : of(i) <= its.p50})
                          /\ Share({i \in with : of(i) >= its.p50})
=============================================================================
