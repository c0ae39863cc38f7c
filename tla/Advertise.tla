----------------------------- MODULE Advertise ------------------------------
(***************************************************************************)
(* The curated ref advertisement (crates/server/src/lib.rs, ADR-0020): the *)
(* receive.hideRefs values that the server derives for each connection,    *)
(* what git hides by them, and what doctor (crates/server/src/doctor.rs)   *)
(* says of the anchors.                                                    *)
(*                                                                         *)
(* A ref name is the sequence of its components.  A repository is a record *)
(* of its remotes, of `refs`, a function from ref names to [time |-> the   *)
(* tip's committer time] or [to |-> the target of a symref], and of the    *)
(* hideRefs patterns of its own configuration.                             *)
(***************************************************************************)
EXTENDS Naturals, Sequences, SequencesExt, FiniteSets, FiniteSetsExt

Namespace == <<"refs", "git-full-send">>
Heads     == <<"refs", "heads">>
Tracking(remote, branch) == <<"refs", "remotes", remote, branch>>

NoAnchor == <<>>
NoTime   == 0          \* no commit to judge by; times are positive

IsSymref(repo, name) ==
    name \in DOMAIN repo.refs /\ "to" \in DOMAIN repo.refs[name]

\* The tip's committer time; NoTime when the ref, or its target, is not there.
CommitterSecs(repo, name) ==
    LET tip == IF IsSymref(repo, name) THEN repo.refs[name].to ELSE name
    IN  IF tip \in DOMAIN repo.refs /\ ~IsSymref(repo, tip)
        THEN repo.refs[tip].time ELSE NoTime

\* The components of ref names that the code spells out.
OwnWords ==
    {"refs", "git-full-send", "heads", "remotes", "HEAD", "main", "master"}

\* A repository as git keeps it, with names over a set of words: no ref is
\* below another one, and the HEAD of a remote stands for one of its branches.
IsRepository(repo, Words) ==
    /\ IsFiniteSet(repo.remotes) /\ repo.remotes \subseteq Words
    /\ IsFiniteSet(DOMAIN repo.refs)
    /\ repo.hidden \in Seq([neg : BOOLEAN, prefix : Seq(Words)])
    /\ \A name \in DOMAIN repo.refs :
          /\ name \in Seq(Words) /\ IsPrefix(<<"refs">>, name)
          /\ \A other \in DOMAIN repo.refs :
                IsPrefix(other, name) => other = name
          /\ repo.refs[name] \in [time : Nat \ {NoTime}] \cup [to : Seq(Words)]
    /\ \A remote \in repo.remotes :
          LET head == Tracking(remote, "HEAD")
          IN  IsSymref(repo, head)
                 => IsPrefix(<<"refs", "remotes", remote>>, repo.refs[head].to)

-----------------------------------------------------------------------------
(* remote_anchor and advertised_refs.                                      *)

RemoteAnchor(repo, remote) ==
    LET head == Tracking(remote, "HEAD")
        main == Tracking(remote, "main")
        master == Tracking(remote, "master")
    IN  CASE IsSymref(repo, head) -> repo.refs[head].to
          [] ~IsSymref(repo, head) /\ main \in DOMAIN repo.refs -> main
          [] ~IsSymref(repo, head) /\ main \notin DOMAIN repo.refs
             /\ master \in DOMAIN repo.refs -> master
          [] OTHER -> NoAnchor

Anchors(repo) ==
    {RemoteAnchor(repo, remote) : remote \in repo.remotes} \ {NoAnchor}

\* advertised_refs
AdvertisedRefs(repo) == {Namespace, Heads} \cup Anchors(repo)

-----------------------------------------------------------------------------
(* hide_refs_values: everything is hidden, then the anchors and the extra  *)
(* patterns of the operator are shown again.                               *)

Hide(prefix)   == [neg |-> FALSE, prefix |-> prefix]
Unhide(prefix) == [neg |-> TRUE, prefix |-> prefix]

\* Mutant: the patterns are shown first and everything is hidden last.
HideRefsValuesReversed(repo, extra) ==
    [i \in DOMAIN SetToSeq(AdvertisedRefs(repo)) |->
        Unhide(SetToSeq(AdvertisedRefs(repo))[i])]
       \o [i \in DOMAIN extra |-> Unhide(extra[i])] \o <<Hide(<<"refs">>)>>

HideRefsValues(repo, extra) ==
    LET shown == SetToSeq(AdvertisedRefs(repo)) \o extra
    IN  <<Hide(<<"refs">>)>> \o [i \in DOMAIN shown |-> Unhide(shown[i])]

\* git's ref_is_hidden: the last pattern that is the name or a directory
\* above it decides.  The values of the command line come after the
\* repository's own.
IsHidden(name, values) ==
    LET hits == {i \in DOMAIN values : IsPrefix(values[i].prefix, name)}
    IN  hits # {} /\ ~values[Max(hits)].neg

\* What receive-pack advertises, and lets a push update, on one connection.
Visible(repo, hide_refs, extra) ==
    LET values == repo.hidden \o (IF hide_refs THEN HideRefsValues(repo, extra)
                                  ELSE <<>>)
    IN  {name \in DOMAIN repo.refs : ~IsHidden(name, values)}

-----------------------------------------------------------------------------
(* doctor's check_anchors.                                                 *)

MissingAnchors(repo) ==
    {remote \in repo.remotes : RemoteAnchor(repo, remote) = NoAnchor}

\* Mutant: the synced refs count as anchors.
FreshestWithSynced(repo) ==
    Max({NoTime} \cup
        {CommitterSecs(repo, name) : name \in
            {n \in DOMAIN repo.refs :
                IsPrefix(Heads, n) \/ IsPrefix(Namespace, n)
                    \/ n \in AdvertisedRefs(repo)}})

\* freshest_advertised_secs: the namespace is skipped, a directory counts
\* with every ref below it.
FreshestAdvertisedSecs(repo) ==
    LET judged == {name \in DOMAIN repo.refs :
                     \/ IsPrefix(Heads, name)
                     \/ /\ name \in AdvertisedRefs(repo)
                        /\ ~IsPrefix(Namespace, name)}
    IN  Max({NoTime} \cup {CommitterSecs(repo, name) : name \in judged})

\* The verdict of check_anchors; ages are counted in whole days.
CheckAnchors(repo, now, stale_after) ==
    LET freshest == FreshestAdvertisedSecs(repo)
        age == IF freshest > now THEN 0 ELSE now - freshest
    IN  IF MissingAnchors(repo) # {} THEN "no anchor"
        ELSE IF freshest # NoTime /\ now > 0 /\ age >= stale_after THEN "stale"
        ELSE "ok"
=============================================================================
