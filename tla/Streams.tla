------------------------------ MODULE Streams -------------------------------
(***************************************************************************)
(* The life of streams on the server: the names of their refs              *)
(* (crates/common/src/lib.rs), the pushes that create them, and            *)
(* list_streams, forget_stream and reap_streams (crates/server/src/lib.rs) *)
(* running against syncs in flight.                                        *)
(*                                                                         *)
(* A stream id is a sequence of characters, of which Slash is one; `code`  *)
(* and `extra` count as one character each.  Of a commit the module keeps  *)
(* its committer time, which the client stamps when it encodes.            *)
(***************************************************************************)
EXTENDS Naturals, Sequences, SequencesExt, FiniteSets

CONSTANTS
    Streams,     \* stream ids in use
    Chars,       \* characters
    Slash, Code, Extra,
    Jobs,        \* forget-stream and reap processes; each runs once
    MaxSyncs,    \* bound: syncs started in all
    MaxTime,     \* bound: last committer time
    MaxAge       \* what reap is given: a code commit may be this old

ASSUME StreamsAssumption ==
    /\ Streams \subseteq Seq(Chars) \ {<<>>}
    /\ IsFiniteSet(Streams)
    /\ {Slash, Code, Extra} \subseteq Chars
    /\ Slash # Code /\ Slash # Extra /\ Code # Extra
    /\ {MaxSyncs, MaxTime, MaxAge} \subseteq Nat
    /\ MaxTime > 0

Absent == 0

-----------------------------------------------------------------------------
(* The layout of refs, below refs/git-full-send/streams/.                  *)

CodeRef(s)  == s \o <<Slash, Code>>
ExtraRef(s) == s \o <<Slash, Extra>>

Refs == {CodeRef(s) : s \in Streams} \cup {ExtraRef(s) : s \in Streams}

\* Mutant: the prefix is not closed by a slash.
StreamPrefixOpen(s) == s

StreamPrefix(s) == Append(s, Slash)

\* stream_id_from_code_ref: what stands before a final /code, or nothing.
NoStream == <<>>

\* Mutant: an id ends at its first slash.
StreamOfCodeRefShort(name) ==
    IF Len(name) > 2 /\ SubSeq(name, Len(name) - 1, Len(name)) = <<Slash, Code>>
       /\ Slash \notin ToSet(SubSeq(name, 1, Len(name) - 2))
    THEN SubSeq(name, 1, Len(name) - 2) ELSE NoStream

\* Mutant: the /code stays part of the id.
StreamOfCodeRefWhole(name) == IF Last(name) = Code THEN name ELSE NoStream

StreamOfCodeRef(name) ==
    IF Len(name) > 2 /\ SubSeq(name, Len(name) - 1, Len(name)) = <<Slash, Code>>
    THEN SubSeq(name, 1, Len(name) - 2) ELSE NoStream

\* What list_streams and reap_streams look at of all refs.
CodeRefs == {name \in Refs : StreamOfCodeRef(name) # NoStream}

\* The order in which a pass over the refs meets them; any will do.
CodeRefOrder == SetToSeq(CodeRefs)

-----------------------------------------------------------------------------
VARIABLES
    refs,        \* the server's refs: committer time of the tip, or Absent
    now,         \* the clock
    started,     \* syncs started so far
    sync,        \* per stream, its sync: phase and the time of its commits
    job,         \* per job, where it is and what it knows
    acked,       \* observer: both pushes of a sync were acknowledged and no
                 \* forget of the stream or of one it is nested in ran since
    raced,       \* observer: a forget and a sync of the stream overlapped, or
                 \* a forget died half way
    pushed       \* observer: streams whose code was pushed since the job began

vars == <<refs, now, started, sync, job, acked, raced, pushed>>

NoJob == [pc |-> "idle", reap |-> FALSE, dry |-> FALSE, cutoff |-> 0,
          scanned |-> 0, stale |-> {}, target |-> NoStream, seen |-> 0, listed |-> {}]

Stale == Streams \X (1..MaxTime)

JobState ==
    [pc      : {"idle", "scan", "next", "list", "delete", "over"},
     reap    : BOOLEAN,
     dry     : BOOLEAN,
     cutoff  : 0..MaxTime,
     scanned : 0..Cardinality(CodeRefs),
     stale   : SUBSET Stale,
     target  : Streams \cup {NoStream},
     seen    : 0..MaxTime,
     listed  : SUBSET Refs]

TypeOK ==
    /\ refs \in [Refs -> 0..MaxTime]
    /\ now \in 1..MaxTime
    /\ started \in 0..MaxSyncs
    /\ sync \in [Streams -> [phase : {"idle", "code", "extra"},
                             time : 0..MaxTime]]
    /\ job \in [Jobs -> JobState]
    /\ acked \in [Streams -> BOOLEAN]
    /\ raced \in [Streams -> BOOLEAN]
    /\ pushed \in [Jobs -> SUBSET Streams]

Init ==
    /\ refs = [name \in Refs |-> Absent]
    /\ now = 1
    /\ started = 0
    /\ sync = [s \in Streams |-> [phase |-> "idle", time |-> 0]]
    /\ job = [j \in Jobs |-> NoJob]
    /\ acked = [s \in Streams |-> FALSE]
    /\ raced = [s \in Streams |-> FALSE]
    /\ pushed = [j \in Jobs |-> {}]

Tick ==
    /\ now < MaxTime
    /\ now' = now + 1
    /\ UNCHANGED <<refs, started, sync, job, acked, raced, pushed>>

-----------------------------------------------------------------------------
(* Syncs, as the server sees them: two pushes in order (module Sync has    *)
(* their exchanges).                                                       *)

\* The streams a forget of t is meant for, and those nested in it.
Covers(t, s) == s = t \/ IsPrefix(t \o <<Slash>>, s)

Deleting(s) == \E j \in Jobs : job[j].pc = "delete" /\ Covers(job[j].target, s)

StartSync(s) ==
    /\ sync[s].phase = "idle"
    /\ started < MaxSyncs
    /\ started' = started + 1
    /\ sync' = [sync EXCEPT ![s] = [phase |-> "code", time |-> now]]
    /\ UNCHANGED <<refs, now, job, acked, raced, pushed>>

\* git keeps no ref below another ref.
Creatable(name) ==
    \A other \in Refs :
        refs[other] # Absent => /\ ~IsPrefix(Append(other, Slash), name)
                                /\ ~IsPrefix(Append(name, Slash), other)

PushCode(s) ==
    /\ sync[s].phase = "code"
    /\ Creatable(CodeRef(s))
    /\ refs' = [refs EXCEPT ![CodeRef(s)] = sync[s].time]
    /\ sync' = [sync EXCEPT ![s].phase = "extra"]
    /\ raced' = [raced EXCEPT ![s] = @ \/ Deleting(s)]
    /\ pushed' = [j \in Jobs |-> pushed[j] \cup {s}]
    /\ UNCHANGED <<now, started, job, acked>>

PushExtra(s) ==
    /\ sync[s].phase = "extra"
    /\ Creatable(ExtraRef(s))
    /\ refs' = [refs EXCEPT ![ExtraRef(s)] = sync[s].time]
    /\ sync' = [sync EXCEPT ![s] = [phase |-> "idle", time |-> 0]]
    /\ acked' = [acked EXCEPT ![s] = refs[CodeRef(s)] # Absent]
    /\ raced' = [raced EXCEPT ![s] = Deleting(s)
                                       \/ (refs[CodeRef(s)] = Absent /\ @)]
    /\ UNCHANGED <<now, started, job, pushed>>

\* The server refuses a push, or the client fails.
SyncFails(s) ==
    /\ sync[s].phase # "idle"
    /\ sync' = [sync EXCEPT ![s] = [phase |-> "idle", time |-> 0]]
    /\ UNCHANGED <<refs, now, started, job, acked, raced, pushed>>

-----------------------------------------------------------------------------
(* forget_stream: list what is under the prefix, then delete what was      *)
(* listed, whatever it points to by then.                                  *)

StartForget(j, s) ==
    /\ job[j].pc = "idle"
    /\ job' = [job EXCEPT ![j] = [NoJob EXCEPT !.pc = "list", !.target = s]]
    /\ pushed' = [pushed EXCEPT ![j] = {}]
    /\ UNCHANGED <<refs, now, started, sync, acked, raced>>

\* A forget is over; a reap goes on to its next stale stream.
AfterForget(j) ==
    [job[j] EXCEPT !.pc = IF job[j].reap THEN "next" ELSE "over",
                   !.target = NoStream, !.seen = 0, !.listed = {}]

\* Mutant: only the code ref is listed.
ListedForCode(s) == {CodeRef(s)}

ListedFor(s) == {name \in Refs : IsPrefix(StreamPrefix(s), name)}

ListRefs(j) ==
    LET listed == {name \in ListedFor(job[j].target) : refs[name] # Absent} IN
    /\ job[j].pc = "list"
    /\ job' = [job EXCEPT ![j] =
                  IF listed = {} THEN AfterForget(j)
                  ELSE [@ EXCEPT !.pc = "delete", !.listed = listed]]
    /\ UNCHANGED <<refs, now, started, sync, acked, raced, pushed>>

Gone(names) == [name \in Refs |-> IF name \in names THEN Absent ELSE refs[name]]

Disturbed(j, s, died) ==
    Covers(job[j].target, s) /\ (died \/ sync[s].phase = "extra")

\* What a forget that deletes `names` leaves to the observers.
Deletes(j, names, died) ==
    /\ refs' = Gone(names)
    /\ acked' = [s \in Streams |-> acked[s] /\ ~Covers(job[j].target, s)]
    /\ raced' = [s \in Streams |-> raced[s] \/ Disturbed(j, s, died)]

\* One transaction: the locks on all refs are taken before one is deleted.
DeleteListed(j) ==
    /\ job[j].pc = "delete"
    /\ Deletes(j, job[j].listed, FALSE)
    /\ job' = [job EXCEPT ![j] = AfterForget(j)]
    /\ UNCHANGED <<now, started, sync, pushed>>

\* An error, or the process is killed; a transaction may be half done.
JobDies(j) ==
    /\ job[j].pc \notin {"idle", "over"}
    /\ \/ /\ job[j].pc = "delete"
          /\ \E names \in SUBSET job[j].listed : Deletes(j, names, TRUE)
       \/ UNCHANGED <<refs, acked, raced>>
    /\ job' = [job EXCEPT ![j] = [NoJob EXCEPT !.pc = "over"]]
    /\ UNCHANGED <<now, started, sync, pushed>>

-----------------------------------------------------------------------------
(* reap_streams.  The first pass meets the refs one by one while pushes   *)
(* go on; the second forgets the stale streams one by one.                 *)

StartReap(j, dry) ==
    /\ job[j].pc = "idle"
    /\ now > MaxAge
    /\ job' = [job EXCEPT ![j] = [NoJob EXCEPT !.pc = "scan", !.reap = TRUE,
                                               !.dry = dry,
                                               !.cutoff = now - MaxAge]]
    /\ pushed' = [pushed EXCEPT ![j] = {}]
    /\ UNCHANGED <<refs, now, started, sync, acked, raced>>

\* Mutant: a commit made at the cutoff is stale.
IsStaleAtCutoff(committed, cutoff) == committed <= cutoff

IsStale(committed, cutoff) == committed < cutoff

ScanRef(j) ==
    LET name == CodeRefOrder[job[j].scanned + 1]
        hit  == refs[name] # Absent /\ IsStale(refs[name], job[j].cutoff)
    IN  /\ job[j].pc = "scan"
        /\ job[j].scanned < Cardinality(CodeRefs)
        /\ job' = [job EXCEPT
                     ![j].scanned = @ + 1,
                     ![j].stale = @ \cup (IF hit
                                          THEN {<<StreamOfCodeRef(name),
                                                  refs[name]>>}
                                          ELSE {})]
        /\ UNCHANGED <<refs, now, started, sync, acked, raced, pushed>>

ScanEnds(j) ==
    /\ job[j].pc = "scan"
    /\ job[j].scanned = Cardinality(CodeRefs)
    /\ job' = [job EXCEPT ![j].pc = "next", ![j].scanned = 0]
    /\ UNCHANGED <<refs, now, started, sync, acked, raced, pushed>>

\* The next stale stream: a dry run counts its refs, any other forgets it.
ReapNext(j) ==
    \E hit \in job[j].stale :
        /\ job[j].pc = "next"
        /\ job' = [job EXCEPT ![j] =
                      IF job[j].dry
                      THEN [job[j] EXCEPT !.stale = @ \ {hit}]
                      ELSE [job[j] EXCEPT !.stale = @ \ {hit}, !.pc = "list",
                                          !.target = hit[1], !.seen = hit[2]]]
        /\ UNCHANGED <<refs, now, started, sync, acked, raced, pushed>>

ReapEnds(j) ==
    /\ job[j].pc = "next"
    /\ job[j].stale = {}
    /\ job' = [job EXCEPT ![j].pc = "over"]
    /\ UNCHANGED <<refs, now, started, sync, acked, raced, pushed>>

-----------------------------------------------------------------------------
SyncStep(s) ==
    \/ StartSync(s)
    \/ PushCode(s)
    \/ PushExtra(s)
    \/ SyncFails(s)

JobStep(j) ==
    \/ \E s \in Streams : StartForget(j, s)
    \/ \E dry \in BOOLEAN : StartReap(j, dry)
    \/ ScanRef(j)
    \/ ScanEnds(j)
    \/ ReapNext(j)
    \/ ListRefs(j)
    \/ DeleteListed(j)
    \/ JobDies(j)
    \/ ReapEnds(j)

Next ==
    \/ Tick
    \/ \E s \in Streams : SyncStep(s)
    \/ \E j \in Jobs : JobStep(j)

Spec == Init /\ [][Next]_vars

-----------------------------------------------------------------------------
(* Properties.                                                             *)

\* ADR-0012, ADR-0014: a stream whose sync was acknowledged stays complete
\* until it, or a stream it is nested in, is forgotten; other streams' syncs,
\* their forgets and their reaping do not touch it, whatever their names.
AckedStreamStays ==
    \A s \in Streams :
        acked[s] => refs[CodeRef(s)] # Absent /\ refs[ExtraRef(s)] # Absent

\* `extra` alone is a stream that list_streams does not show and reap never
\* reclaims.  It takes a forget and a sync that overlap, or a forget that
\* dies in its transaction, to leave one.
ExtraAloneOnlyIfRaced ==
    \A s \in Streams :
        refs[ExtraRef(s)] # Absent /\ refs[CodeRef(s)] = Absent => raced[s]

\* reap_streams deletes the code ref of a stream that is not older than the
\* cutoff only when the stream was synced again after the scan, or is nested
\* in a stale one.
ReapSparesFresh ==
    [][\A j \in Jobs, s \in Streams :
          /\ job[j].reap
          /\ job[j].pc = "delete"
          /\ job'[j].pc # "delete"
          /\ refs[CodeRef(s)] >= job[j].cutoff
          /\ refs'[CodeRef(s)] = Absent
          => \/ s = job[j].target /\ refs[CodeRef(s)] # job[j].seen
             \/ s # job[j].target /\ Covers(job[j].target, s)]_vars

\* A reap that ran to its end has left no stream behind that was stale when
\* it began and was not pushed since.
ReapLeavesNoStale ==
    [][\A j \in Jobs, s \in Streams :
          /\ job[j].pc = "next"
          /\ job'[j].pc = "over"
          /\ job[j].stale = {}
          /\ ~job[j].dry
          /\ refs[CodeRef(s)] # Absent
          /\ refs[CodeRef(s)] < job[j].cutoff
          => s \in pushed[j]]_vars
=============================================================================
