--------------------------- MODULE StreamsProofs ----------------------------
(***************************************************************************)
(* Theorems about Streams, for every set of stream ids, of any characters  *)
(* and any length, and any number of jobs.                                 *)
(***************************************************************************)
EXTENDS Streams, FiniteSetTheorems, SequenceTheorems, TLAPS

-----------------------------------------------------------------------------
(* The names of refs.                                                      *)

\* A stream's refs have names of their own.
LEMMA RefNames ==
    ASSUME NEW s \in Streams, NEW t \in Streams
    PROVE  /\ CodeRef(s) = CodeRef(t) => s = t
           /\ ExtraRef(s) = ExtraRef(t) => s = t
           /\ CodeRef(s) # ExtraRef(t)
<1> s \in Seq(Chars) /\ t \in Seq(Chars)
  BY StreamsAssumption
<1> USE StreamsAssumption DEF CodeRef, ExtraRef
<1>1. /\ CodeRef(s) \in Seq(Chars) /\ Len(CodeRef(s)) = Len(s) + 2
      /\ \A i \in 1..Len(s) : CodeRef(s)[i] = s[i]
      /\ CodeRef(s)[Len(s) + 2] = Code
  OBVIOUS
<1>2. /\ CodeRef(t) \in Seq(Chars) /\ Len(CodeRef(t)) = Len(t) + 2
      /\ \A i \in 1..Len(t) : CodeRef(t)[i] = t[i]
      /\ CodeRef(t)[Len(t) + 2] = Code
  OBVIOUS
<1>3. /\ ExtraRef(s) \in Seq(Chars) /\ Len(ExtraRef(s)) = Len(s) + 2
      /\ \A i \in 1..Len(s) : ExtraRef(s)[i] = s[i]
  OBVIOUS
<1>4. /\ ExtraRef(t) \in Seq(Chars) /\ Len(ExtraRef(t)) = Len(t) + 2
      /\ \A i \in 1..Len(t) : ExtraRef(t)[i] = t[i]
      /\ ExtraRef(t)[Len(t) + 2] = Extra
  OBVIOUS
<1> HIDE DEF CodeRef, ExtraRef
<1>5. ASSUME CodeRef(s) = CodeRef(t) PROVE s = t
  BY <1>1, <1>2, <1>5
<1>6. ASSUME ExtraRef(s) = ExtraRef(t) PROVE s = t
  BY <1>3, <1>4, <1>6
<1>7. CodeRef(s) # ExtraRef(t)
  BY <1>1, <1>4
<1> QED
  BY <1>5, <1>6, <1>7

\* The id is read back from a code ref, and from no extra ref.
LEMMA StreamOfRef ==
    ASSUME NEW s \in Streams
    PROVE  /\ StreamOfCodeRef(CodeRef(s)) = s
           /\ StreamOfCodeRef(ExtraRef(s)) = NoStream
           /\ s # NoStream
<1> s \in Seq(Chars) /\ s # <<>> /\ Len(s) > 0
  BY StreamsAssumption
<1> USE StreamsAssumption
<1>1. /\ CodeRef(s) \in Seq(Chars) /\ Len(CodeRef(s)) = Len(s) + 2
      /\ \A i \in 1..Len(s) : CodeRef(s)[i] = s[i]
      /\ CodeRef(s)[Len(s) + 1] = Slash /\ CodeRef(s)[Len(s) + 2] = Code
  BY DEF CodeRef
<1>2. /\ ExtraRef(s) \in Seq(Chars) /\ Len(ExtraRef(s)) = Len(s) + 2
      /\ ExtraRef(s)[Len(s) + 1] = Slash /\ ExtraRef(s)[Len(s) + 2] = Extra
  BY DEF ExtraRef
<1>3. SubSeq(CodeRef(s), Len(s) + 1, Len(s) + 2) = <<Slash, Code>>
  <2> DEFINE end == SubSeq(CodeRef(s), Len(s) + 1, Len(s) + 2)
  <2>1. /\ end \in Seq(Chars) /\ Len(end) = 2
        /\ end[1] = Slash /\ end[2] = Code
    BY <1>1
  <2>2. <<Slash, Code>> \in Seq(Chars) /\ Len(<<Slash, Code>>) = 2
    OBVIOUS
  <2>3. \A i \in 1..2 : end[i] = <<Slash, Code>>[i]
    BY <2>1
  <2> HIDE DEF end
  <2>4. end = <<Slash, Code>>
    BY <2>1, <2>2, <2>3, SeqEqual
  <2> QED
    BY <2>4 DEF end
<1>4. SubSeq(CodeRef(s), 1, Len(s)) = s
  <2> DEFINE start == SubSeq(CodeRef(s), 1, Len(s))
  <2>1. /\ start \in Seq(Chars) /\ Len(start) = Len(s)
        /\ \A i \in 1..Len(s) : start[i] = s[i]
    BY <1>1
  <2> HIDE DEF start
  <2>2. start = s
    BY <2>1, SeqEqual
  <2> QED
    BY <2>2 DEF start
<1>5. SubSeq(ExtraRef(s), Len(s) + 1, Len(s) + 2) # <<Slash, Code>>
  <2> DEFINE end == SubSeq(ExtraRef(s), Len(s) + 1, Len(s) + 2)
  <2>1. end \in Seq(Chars) /\ Len(end) = 2 /\ end[2] = Extra
    BY <1>2
  <2> HIDE DEF end
  <2>2. end # <<Slash, Code>>
    BY <2>1
  <2> QED
    BY <2>2 DEF end
<1>6. StreamOfCodeRef(CodeRef(s)) = s
  BY <1>1, <1>3, <1>4 DEF StreamOfCodeRef
<1>7. StreamOfCodeRef(ExtraRef(s)) = NoStream
  BY <1>2, <1>5 DEF StreamOfCodeRef
<1> QED
  BY <1>6, <1>7 DEF NoStream

\* A code ref is the code ref of one of the streams.
LEMMA CodeRefsAre ==
    /\ CodeRefs = {CodeRef(s) : s \in Streams}
    /\ CodeRefs \subseteq Refs
BY StreamOfRef DEF CodeRefs, Refs

\* What a forget of t lists are refs of the streams it is meant for.
LEMMA ListedAreCovered ==
    ASSUME NEW s \in Streams, NEW t \in Streams
    PROVE  /\ IsPrefix(StreamPrefix(t), CodeRef(s)) <=> Covers(t, s)
           /\ IsPrefix(StreamPrefix(t), ExtraRef(s)) <=> Covers(t, s)
<1> s \in Seq(Chars) /\ t \in Seq(Chars)
  BY StreamsAssumption
<1>1. ASSUME NEW last \in Chars \ {Slash}
      PROVE  IsPrefix(Append(t, Slash), s \o <<Slash, last>>) <=> Covers(t, s)
  <2> DEFINE dir == Append(t, Slash)
             ref == s \o <<Slash, last>>
  <2>1. /\ dir \in Seq(Chars) /\ Len(dir) = Len(t) + 1
        /\ \A i \in 1..Len(t) : dir[i] = t[i]
        /\ dir[Len(t) + 1] = Slash
    BY StreamsAssumption
  <2>2. /\ ref \in Seq(Chars) /\ Len(ref) = Len(s) + 2
        /\ \A i \in 1..Len(s) : ref[i] = s[i]
        /\ ref[Len(s) + 1] = Slash /\ ref[Len(s) + 2] = last
    BY StreamsAssumption
  <2>3. t \o <<Slash>> = dir
    OBVIOUS
  <2> HIDE DEF dir, ref
  <2> SUFFICES IsPrefix(dir, ref) <=> Covers(t, s)
    BY DEF dir, ref
  <2>4. IsPrefix(dir, ref) <=>
            Len(t) <= Len(s) + 1 /\ \A i \in 1..(Len(t) + 1) : dir[i] = ref[i]
    <3>1. ASSUME Len(dir) <= Len(ref)
          PROVE  SubSeq(dir, 1, Len(dir)) = SubSeq(ref, 1, Len(dir)) <=>
                    \A i \in 1..(Len(t) + 1) : dir[i] = ref[i]
      BY <2>1, <2>2, <3>1
    <3> QED
      BY <2>1, <2>2, <3>1 DEF IsPrefix
  <2>5. IsPrefix(dir, s) <=>
            Len(t) < Len(s) /\ \A i \in 1..(Len(t) + 1) : dir[i] = s[i]
    <3>1. ASSUME Len(dir) <= Len(s)
          PROVE  SubSeq(dir, 1, Len(dir)) = SubSeq(s, 1, Len(dir)) <=>
                    \A i \in 1..(Len(t) + 1) : dir[i] = s[i]
      BY <2>1, <3>1
    <3> QED
      BY <2>1, <3>1 DEF IsPrefix
  <2>6. CASE Len(t) < Len(s)
    <3>1. s # t /\ \A i \in 1..(Len(t) + 1) : ref[i] = s[i]
      BY <2>2, <2>6
    <3>2. IsPrefix(dir, ref) <=> IsPrefix(dir, s)
      BY <2>4, <2>5, <2>6, <3>1
    <3> QED
      BY <2>3, <3>1, <3>2 DEF Covers
  <2>7. CASE Len(t) = Len(s)
    <3>1. s = t <=> \A i \in 1..Len(t) : t[i] = s[i]
      BY <2>7, SeqEqual
    <3>2. IsPrefix(dir, ref) <=> \A i \in 1..Len(t) : t[i] = s[i]
      BY <2>1, <2>2, <2>4, <2>7
    <3>3. ~IsPrefix(dir, s)
      BY <2>5, <2>7
    <3> QED
      BY <2>3, <3>1, <3>2, <3>3 DEF Covers
  <2>8. CASE Len(t) = Len(s) + 1
    <3>1. dir[Len(t) + 1] # ref[Len(t) + 1]
      BY <2>1, <2>2, <2>8
    <3>2. s # t /\ Len(t) + 1 \in 1..(Len(t) + 1) /\ ~(Len(t) < Len(s))
      BY <2>8
    <3> QED
      BY <2>3, <2>4, <2>5, <3>1, <3>2 DEF Covers
  <2>9. CASE Len(t) > Len(s) + 1
    <3>1. s # t /\ ~(Len(t) <= Len(s) + 1) /\ ~(Len(t) < Len(s))
      BY <2>9
    <3> QED
      BY <2>3, <2>4, <2>5, <3>1 DEF Covers
  <2> QED
    BY <2>6, <2>7, <2>8, <2>9
<1> QED
  BY <1>1, StreamsAssumption DEF StreamPrefix, CodeRef, ExtraRef

\* A pass over the code refs meets each of them.
LEMMA PassMeetsAll ==
    /\ Cardinality(CodeRefs) \in Nat
    /\ CodeRefOrder \in [1..Cardinality(CodeRefs) -> CodeRefs]
    /\ \A name \in CodeRefs :
          \E i \in 1..Cardinality(CodeRefs) : CodeRefOrder[i] = name
<1> DEFINE n == Cardinality(CodeRefs)
<1>1. IsFiniteSet(CodeRefs)
  <2>1. [s \in Streams |-> CodeRef(s)] \in Surjection(Streams, CodeRefs)
    BY CodeRefsAre DEF Surjection
  <2> QED
    BY <2>1, StreamsAssumption, FS_Surjection
<1>2. n \in Nat /\ \E f : f \in Bijection(1..n, CodeRefs)
  BY <1>1, FS_CardinalityType DEF ExistsBijection
<1>3. \E f \in [1..n -> CodeRefs] : IsInjective(f)
  BY <1>2 DEF Bijection, Injection, IsInjective
<1>4. CodeRefOrder \in [1..n -> CodeRefs] /\ IsInjective(CodeRefOrder)
  BY <1>3 DEF CodeRefOrder, SetToSeq
<1>5. IsFiniteSet(1..n) /\ Cardinality(1..n) = n
  BY <1>2, FS_Interval
<1>6. CodeRefOrder \in Surjection(1..n, CodeRefs)
  BY <1>1, <1>4, <1>5, FS_Injection DEF Injection, IsInjective
<1> QED
  BY <1>2, <1>4, <1>6 DEF Surjection

-----------------------------------------------------------------------------
(* Type correctness.                                                       *)

\* The two refs of a stream are refs.
LEMMA RefsOfStream ==
    ASSUME NEW s \in Streams
    PROVE  CodeRef(s) \in Refs /\ ExtraRef(s) \in Refs
BY DEF Refs

\* A job that is done with a stream is at a state of a job.
LEMMA AfterForgetType ==
    ASSUME TypeOK, NEW j \in Jobs
    PROVE  AfterForget(j) \in JobState
<1>1. job[j] \in JobState
  BY DEF TypeOK
<1>2. 0 \in 0..MaxTime
  BY StreamsAssumption
<1> QED
  BY <1>1, <1>2 DEF AfterForget, JobState

\* So is one that has not begun.
LEMMA NoJobType == NoJob \in JobState
<1>1. 0 \in 0..MaxTime /\ 0 \in 0..Cardinality(CodeRefs)
  BY StreamsAssumption, PassMeetsAll
<1> QED
  BY <1>1 DEF NoJob, JobState

\* A sync's steps keep the types.
LEMMA SyncTypes ==
    ASSUME TypeOK, NEW s \in Streams, SyncStep(s)
    PROVE  TypeOK'
<1> USE DEF TypeOK
<1>1. CASE StartSync(s)
  BY <1>1, StreamsAssumption DEF StartSync
<1>2. CASE PushCode(s)
  <2>1. refs' \in [Refs -> 0..MaxTime]
    BY <1>2, RefsOfStream DEF PushCode
  <2>2. raced' \in [Streams -> BOOLEAN]
    BY <1>2 DEF PushCode
  <2>3. sync' \in [Streams -> [phase : {"idle", "code", "extra"},
                               time : 0..MaxTime]]
    BY <1>2 DEF PushCode
  <2>4. pushed' \in [Jobs -> SUBSET Streams]
    BY <1>2 DEF PushCode
  <2> QED
    BY <1>2, <2>1, <2>2, <2>3, <2>4 DEF PushCode
<1>3. CASE PushExtra(s)
  <2>1. refs' \in [Refs -> 0..MaxTime]
    BY <1>3, RefsOfStream DEF PushExtra
  <2>2. raced' \in [Streams -> BOOLEAN] /\ acked' \in [Streams -> BOOLEAN]
    BY <1>3 DEF PushExtra
  <2>3. sync' \in [Streams -> [phase : {"idle", "code", "extra"},
                               time : 0..MaxTime]]
    BY <1>3, StreamsAssumption DEF PushExtra
  <2> QED
    BY <1>3, <2>1, <2>2, <2>3 DEF PushExtra
<1>4. CASE SyncFails(s)
  BY <1>4, StreamsAssumption DEF SyncFails
<1> QED
  BY <1>1, <1>2, <1>3, <1>4 DEF SyncStep

\* Deleting refs keeps the types of what it writes.
LEMMA DeletesTypes ==
    ASSUME TypeOK, NEW j \in Jobs, NEW names, NEW died \in BOOLEAN,
           Deletes(j, names, died)
    PROVE  /\ refs' \in [Refs -> 0..MaxTime]
           /\ acked' \in [Streams -> BOOLEAN]
           /\ raced' \in [Streams -> BOOLEAN]
BY StreamsAssumption DEF TypeOK, Deletes, Gone, Absent

\* A job's steps keep the types.
LEMMA JobTypes ==
    ASSUME TypeOK, NEW j \in Jobs, JobStep(j)
    PROVE  TypeOK'
<1>1. job[j] \in JobState
  BY DEF TypeOK
<1>2. CASE \E s \in Streams : StartForget(j, s)
  <2>1. PICK s \in Streams : StartForget(j, s)
    BY <1>2
  <2>2. [NoJob EXCEPT !.pc = "list", !.target = s] \in JobState
    BY NoJobType DEF JobState
  <2> QED
    BY <2>1, <2>2 DEF StartForget, TypeOK
<1>3. CASE \E dry \in BOOLEAN : StartReap(j, dry)
  <2>1. PICK dry \in BOOLEAN : StartReap(j, dry)
    BY <1>3
  <2>2. now - MaxAge \in 0..MaxTime
    BY <2>1, StreamsAssumption DEF StartReap, TypeOK
  <2>3. [NoJob EXCEPT !.pc = "scan", !.reap = TRUE, !.dry = dry,
                      !.cutoff = now - MaxAge] \in JobState
    BY <2>2, NoJobType DEF JobState
  <2> QED
    BY <2>1, <2>3 DEF StartReap, TypeOK
<1>4. CASE ScanRef(j)
  <2> DEFINE name == CodeRefOrder[job[j].scanned + 1]
  <2>1. name \in CodeRefs /\ job[j].scanned + 1 \in 0..Cardinality(CodeRefs)
    BY <1>1, <1>4, PassMeetsAll DEF ScanRef, JobState
  <2>2. StreamOfCodeRef(name) \in Streams /\ name \in Refs
    BY <2>1, CodeRefsAre, StreamOfRef
  <2>3. refs[name] # Absent => <<StreamOfCodeRef(name), refs[name]>> \in Stale
    BY <2>2, StreamsAssumption DEF Stale, TypeOK, Absent
  <2> HIDE DEF name
  <2>4. PICK found \in SUBSET Stale :
            job' = [job EXCEPT ![j].scanned = @ + 1,
                               ![j].stale = @ \cup found]
    BY <1>4, <2>3 DEF ScanRef, name
  <2>5. job' \in [Jobs -> JobState]
    BY <1>1, <2>1, <2>4 DEF JobState, TypeOK
  <2> QED
    BY <1>4, <2>5 DEF ScanRef, TypeOK
<1>5. CASE ScanEnds(j)
  <2>1. 0 \in 0..Cardinality(CodeRefs)
    BY PassMeetsAll
  <2>2. job' \in [Jobs -> JobState]
    BY <1>1, <1>5, <2>1 DEF ScanEnds, JobState, TypeOK
  <2> QED
    BY <1>5, <2>2 DEF ScanEnds, TypeOK
<1>6. CASE ReapNext(j)
  <2>1. PICK hit \in job[j].stale :
            job' = [job EXCEPT ![j] =
                      IF job[j].dry
                      THEN [job[j] EXCEPT !.stale = job[j].stale \ {hit}]
                      ELSE [job[j] EXCEPT !.stale = job[j].stale \ {hit},
                                          !.pc = "list",
                                          !.target = hit[1],
                                          !.seen = hit[2]]]
    BY <1>6 DEF ReapNext
  <2>2. hit[1] \in Streams /\ hit[2] \in 0..MaxTime
    BY <1>1, <2>1, StreamsAssumption DEF JobState, Stale
  <2> DEFINE rest == [job[j] EXCEPT !.stale = @ \ {hit}]
             next == [job[j] EXCEPT !.stale = @ \ {hit}, !.pc = "list",
                                    !.target = hit[1], !.seen = hit[2]]
  <2>3. rest \in JobState
    BY <1>1 DEF JobState
  <2>4. next \in JobState
    BY <1>1, <2>2 DEF JobState
  <2>5. job' = [job EXCEPT ![j] = IF job[j].dry THEN rest ELSE next]
    BY <2>1
  <2> HIDE DEF rest, next
  <2>6. job' \in [Jobs -> JobState]
    BY <2>3, <2>4, <2>5 DEF TypeOK
  <2> QED
    BY <1>6, <2>6 DEF ReapNext, TypeOK
<1>7. CASE ListRefs(j)
  <2> DEFINE listed == {name \in ListedFor(job[j].target) : refs[name] # Absent}
  <2>1. listed \subseteq Refs
    BY DEF ListedFor
  <2> HIDE DEF listed
  <2>2. [job[j] EXCEPT !.pc = "delete", !.listed = listed] \in JobState
    BY <1>1, <2>1 DEF JobState
  <2>3. job' \in [Jobs -> JobState]
    BY <1>7, <2>2, AfterForgetType DEF ListRefs, TypeOK, listed
  <2> QED
    BY <1>7, <2>3 DEF ListRefs, TypeOK
<1>8. CASE DeleteListed(j)
  <2>1. job' \in [Jobs -> JobState]
    BY <1>8, AfterForgetType DEF DeleteListed, TypeOK
  <2> QED
    BY <1>8, <2>1, DeletesTypes DEF DeleteListed, TypeOK
<1>9. CASE JobDies(j)
  <2>1. [NoJob EXCEPT !.pc = "over"] \in JobState
    BY NoJobType DEF JobState
  <2>2. job' \in [Jobs -> JobState]
    BY <1>9, <2>1 DEF JobDies, TypeOK
  <2>3. /\ refs' \in [Refs -> 0..MaxTime]
        /\ acked' \in [Streams -> BOOLEAN]
        /\ raced' \in [Streams -> BOOLEAN]
    BY <1>9, DeletesTypes DEF JobDies, TypeOK
  <2> QED
    BY <1>9, <2>2, <2>3 DEF JobDies, TypeOK
<1>10. CASE ReapEnds(j)
  <2>1. job' \in [Jobs -> JobState]
    BY <1>1, <1>10 DEF ReapEnds, JobState, TypeOK
  <2> QED
    BY <1>10, <2>1 DEF ReapEnds, TypeOK
<1> QED
  BY <1>2, <1>3, <1>4, <1>5, <1>6, <1>7, <1>8, <1>9, <1>10 DEF JobStep

\* Every step keeps the types.
LEMMA TypePreserved ==
    ASSUME TypeOK, [Next]_vars
    PROVE  TypeOK'
<1>1. CASE Tick
  BY <1>1, StreamsAssumption DEF Tick, TypeOK
<1>2. CASE UNCHANGED vars
  BY <1>2 DEF vars, TypeOK
<1> QED
  BY <1>1, <1>2, SyncTypes, JobTypes DEF Next

\* Every variable keeps its type.
THEOREM TypeInvariant == Spec => []TypeOK
<1>1. Init => TypeOK
  BY StreamsAssumption, NoJobType DEF Init, TypeOK, Absent
<1>2. TypeOK /\ [Next]_vars => TypeOK'
  BY TypePreserved
<1> QED
  BY <1>1, <1>2, PTL DEF Spec

-----------------------------------------------------------------------------
(* The inductive invariant.                                                *)

\* A stream: its sync pushes commits that have a time, and `extra` goes alone
\* to the server only after a race.
StreamOf(s) ==
    /\ sync[s].phase # "idle" => sync[s].time # Absent
    /\ sync[s].phase = "extra" /\ refs[CodeRef(s)] = Absent => raced[s]
    /\ acked[s] => refs[CodeRef(s)] # Absent /\ refs[ExtraRef(s)] # Absent
    /\ refs[ExtraRef(s)] # Absent /\ refs[CodeRef(s)] = Absent => raced[s]

\* A forget deletes refs of the streams it is meant for, and an `extra` ref
\* that it did not list was pushed meanwhile.
ForgetOf(j) ==
    /\ job[j].pc \in {"list", "delete"} => job[j].target \in Streams
    /\ job[j].pc = "delete" =>
          /\ job[j].listed \subseteq ListedFor(job[j].target)
          /\ \A s \in Streams :
                /\ Covers(job[j].target, s)
                /\ refs[ExtraRef(s)] # Absent
                /\ ExtraRef(s) \notin job[j].listed
                => raced[s]

\* A stale stream that was not pushed since the reap began is yet to be met,
\* is known to be stale, or is the one being forgotten.
ToReap(j, s) ==
    \/ /\ job[j].pc = "scan"
       /\ \E i \in 1..Cardinality(CodeRefs) :
             CodeRefOrder[i] = CodeRef(s) /\ i > job[j].scanned
    \/ <<s, refs[CodeRef(s)]>> \in job[j].stale
    \/ /\ job[j].pc \in {"list", "delete"}
       /\ job[j].target = s
       /\ job[j].pc = "delete" => CodeRef(s) \in job[j].listed

ReapOf(j) ==
    /\ job[j].pc \in {"scan", "next"} => job[j].reap
    /\ job[j].reap => job[j].cutoff > 0
    /\ \A hit \in job[j].stale : hit[2] < job[j].cutoff
    /\ job[j].reap /\ job[j].pc \in {"list", "delete"} =>
          job[j].seen < job[j].cutoff
    /\ job[j].reap /\ ~job[j].dry /\ job[j].pc # "over" =>
          \A s \in Streams \ pushed[j] :
             refs[CodeRef(s)] # Absent /\ refs[CodeRef(s)] < job[j].cutoff =>
                ToReap(j, s)

LifeInv ==
    /\ \A s \in Streams : StreamOf(s)
    /\ \A j \in Jobs : ForgetOf(j) /\ ReapOf(j)

\* A stream's step moves one ref at most, to a commit.
LEMMA PushEffect ==
    ASSUME TypeOK, NEW s \in Streams, NEW name \in Refs, NEW time,
           refs' = [refs EXCEPT ![name] = time]
    PROVE  refs'[name] = time
           /\ \A other \in Refs : other # name => refs'[other] = refs[other]
BY DEF TypeOK

\* The steps of syncs keep the invariant.
LEMMA SyncLife ==
    ASSUME TypeOK, LifeInv, NEW s \in Streams, SyncStep(s)
    PROVE  LifeInv'
<1> USE RefsOfStream, RefNames
<1>1. CASE StartSync(s) \/ SyncFails(s)
  <2>1. /\ UNCHANGED <<refs, job, acked, raced, pushed>>
        /\ \A t \in Streams : t # s => sync'[t] = sync[t]
        /\ \/ sync'[s].phase = "code" /\ sync'[s].time = now
           \/ sync'[s].phase = "idle"
    BY <1>1 DEF StartSync, SyncFails, TypeOK
  <2>2. now # Absent
    BY StreamsAssumption DEF TypeOK, Absent
  <2>3. \A t \in Streams : StreamOf(t)'
    BY <2>1, <2>2 DEF LifeInv, StreamOf
  <2>4. \A j \in Jobs : ForgetOf(j)' /\ ReapOf(j)'
    BY <2>1 DEF LifeInv, ForgetOf, ReapOf, ToReap
  <2> QED
    BY <2>3, <2>4 DEF LifeInv
<1>2. CASE PushCode(s)
  <2>1. /\ refs'[CodeRef(s)] = sync[s].time /\ sync[s].time # Absent
        /\ \A name \in Refs : name # CodeRef(s) => refs'[name] = refs[name]
    BY <1>2, PushEffect DEF PushCode, LifeInv, StreamOf
  <2>2. /\ \A t \in Streams : t # s => sync'[t] = sync[t]
        /\ sync'[s].phase = "extra" /\ sync'[s].time = sync[s].time
        /\ \A t \in Streams : raced[t] => raced'[t]
        /\ \A j \in Jobs : pushed'[j] = pushed[j] \cup {s}
        /\ UNCHANGED <<job, acked>>
    BY <1>2 DEF PushCode, TypeOK
  <2>3. \A t \in Streams : StreamOf(t)'
    BY <2>1, <2>2 DEF LifeInv, StreamOf
  <2>4. \A j \in Jobs : ForgetOf(j)'
    BY <2>1, <2>2 DEF LifeInv, ForgetOf
  <2>5. ASSUME NEW j \in Jobs
        PROVE  ReapOf(j)'
    <3>1. \A t \in Streams \ pushed'[j] :
             /\ t \notin pushed[j] /\ refs'[CodeRef(t)] = refs[CodeRef(t)]
             /\ ToReap(j, t) => ToReap(j, t)'
      BY <2>1, <2>2 DEF ToReap
    <3> QED
      BY <2>2, <3>1 DEF LifeInv, ReapOf
  <2> QED
    BY <2>3, <2>4, <2>5 DEF LifeInv
<1>3. CASE PushExtra(s)
  <2>1. /\ refs'[ExtraRef(s)] = sync[s].time /\ sync[s].time # Absent
        /\ \A name \in Refs : name # ExtraRef(s) => refs'[name] = refs[name]
    BY <1>3, PushEffect DEF PushExtra, LifeInv, StreamOf
  <2>2. /\ \A t \in Streams :
              t # s => /\ sync'[t] = sync[t]
                       /\ raced'[t] = raced[t] /\ acked'[t] = acked[t]
        /\ sync[s].phase = "extra" /\ sync'[s].phase = "idle"
        /\ UNCHANGED <<job, pushed>>
    BY <1>3 DEF PushExtra, TypeOK
  <2>3. acked'[s] => refs[CodeRef(s)] # Absent
    BY <1>3 DEF PushExtra, TypeOK
  <2>4. /\ refs[CodeRef(s)] = Absent /\ raced[s] => raced'[s]
        /\ Deleting(s) => raced'[s]
    BY <1>3 DEF PushExtra, TypeOK
  <2>5. \A t \in Streams : StreamOf(t)'
    BY <2>1, <2>2, <2>3, <2>4 DEF LifeInv, StreamOf
  <2>6. \A j \in Jobs : ForgetOf(j)'
    BY <2>1, <2>2, <2>4 DEF LifeInv, ForgetOf, Deleting
  <2>7. \A j \in Jobs : ReapOf(j)'
    <3>1. \A t \in Streams : refs'[CodeRef(t)] = refs[CodeRef(t)]
      BY <2>1
    <3> QED
      BY <2>2, <3>1 DEF LifeInv, ReapOf, ToReap
  <2> QED
    BY <2>5, <2>6, <2>7 DEF LifeInv
<1> QED
  BY <1>1, <1>2, <1>3 DEF SyncStep
\* A step of a job that touches no ref and no sync matters to that job alone.
LEMMA JobFrame ==
    ASSUME LifeInv, NEW j \in Jobs,
           UNCHANGED <<refs, sync, acked, raced>>,
           \A k \in Jobs \ {j} : job'[k] = job[k] /\ pushed'[k] = pushed[k],
           ForgetOf(j)', ReapOf(j)'
    PROVE  LifeInv'
<1>1. \A s \in Streams : StreamOf(s)'
  BY DEF LifeInv, StreamOf
<1>2. ASSUME NEW k \in Jobs \ {j}
      PROVE  ForgetOf(k)' /\ ReapOf(k)'
  BY DEF LifeInv, ForgetOf, ReapOf, ToReap
<1> QED
  BY <1>1, <1>2 DEF LifeInv

\* A job's step is nobody else's.
LEMMA OneJobMoves ==
    ASSUME TypeOK, NEW j \in Jobs, JobStep(j), NEW k \in Jobs \ {j}
    PROVE  job'[k] = job[k]
BY DEF TypeOK, JobStep, StartForget, StartReap, ScanRef, ScanEnds, ReapNext,
   ListRefs, DeleteListed, JobDies, ReapEnds

\* The two beginnings: a reap has every code ref before it.
LEMMA StartLife ==
    ASSUME TypeOK, LifeInv, NEW j \in Jobs,
           \/ \E s \in Streams : StartForget(j, s)
           \/ \E dry \in BOOLEAN : StartReap(j, dry)
    PROVE  LifeInv'
<1>1. /\ UNCHANGED <<refs, sync, acked, raced>>
      /\ \A k \in Jobs \ {j} : job'[k] = job[k] /\ pushed'[k] = pushed[k]
  BY DEF StartForget, StartReap, TypeOK
<1>2. CASE \E s \in Streams : StartForget(j, s)
  <2>1. /\ job'[j].pc = "list" /\ job'[j].target \in Streams
        /\ ~job'[j].reap /\ job'[j].stale = {}
    <3>1. PICK s \in Streams :
             job'[j] = [NoJob EXCEPT !.pc = "list", !.target = s]
      BY <1>2 DEF StartForget, TypeOK
    <3> QED
      BY <3>1 DEF NoJob
  <2>2. ForgetOf(j)' /\ ReapOf(j)'
    BY <2>1 DEF ForgetOf, ReapOf
  <2> QED
    BY <1>1, <2>2, JobFrame
<1>3. CASE \E dry \in BOOLEAN : StartReap(j, dry)
  <2>1. /\ job'[j].pc = "scan" /\ job'[j].reap /\ job'[j].stale = {}
        /\ job'[j].scanned = 0 /\ job'[j].cutoff = now - MaxAge
        /\ now > MaxAge
    <3>1. PICK dry \in BOOLEAN : StartReap(j, dry)
      BY <1>3
    <3>2. job'[j] = [NoJob EXCEPT !.pc = "scan", !.reap = TRUE, !.dry = dry,
                                  !.cutoff = now - MaxAge]
      BY <3>1 DEF StartReap, TypeOK
    <3>3. now > MaxAge
      BY <3>1 DEF StartReap
    <3> QED
      BY <3>2, <3>3 DEF NoJob
  <2>2. job'[j].cutoff > 0
    BY <2>1, StreamsAssumption DEF TypeOK
  <2>3. \A s \in Streams : ToReap(j, s)'
    <3>1. ASSUME NEW s \in Streams
          PROVE  \E i \in 1..Cardinality(CodeRefs) :
                    CodeRefOrder[i] = CodeRef(s) /\ i > 0
      <4>1. CodeRef(s) \in CodeRefs
        BY CodeRefsAre
      <4> QED
        BY <4>1, PassMeetsAll
    <3> QED
      BY <2>1, <3>1 DEF ToReap
  <2>4. ForgetOf(j)' /\ ReapOf(j)'
    BY <2>1, <2>2, <2>3 DEF ForgetOf, ReapOf
  <2> QED
    BY <1>1, <2>4, JobFrame
<1> QED
  BY <1>2, <1>3

\* The first pass takes note of what is stale when it meets it.
LEMMA ScanLife ==
    ASSUME TypeOK, LifeInv, NEW j \in Jobs, ScanRef(j) \/ ScanEnds(j)
    PROVE  LifeInv'
<1>1. /\ UNCHANGED <<refs, sync, acked, raced, pushed>>
      /\ \A k \in Jobs \ {j} : job'[k] = job[k] /\ pushed'[k] = pushed[k]
  BY DEF ScanRef, ScanEnds, TypeOK
<1>2. /\ job[j].pc = "scan" /\ job[j].reap /\ job[j] \in JobState
      /\ ForgetOf(j) /\ ReapOf(j)
  BY DEF ScanRef, ScanEnds, ReapOf, LifeInv, TypeOK
<1>3. CASE ScanRef(j)
  <2> DEFINE next == job[j].scanned + 1
             name == CodeRefOrder[next]
             hit  == refs[name] # Absent /\ IsStale(refs[name], job[j].cutoff)
             met  == IF hit THEN {<<StreamOfCodeRef(name), refs[name]>>} ELSE {}
  <2>1. next \in 1..Cardinality(CodeRefs)
    BY <1>2, <1>3, PassMeetsAll DEF ScanRef, JobState
  <2>2. PICK t \in Streams : name = CodeRef(t)
    BY <2>1, PassMeetsAll, CodeRefsAre
  <2>3. StreamOfCodeRef(name) = t
    BY <2>2, StreamOfRef
  <2>4. job' = [job EXCEPT ![j].scanned = @ + 1, ![j].stale = @ \cup met]
    BY <1>3 DEF ScanRef
  <2>5. met = IF refs[CodeRef(t)] # Absent /\ refs[CodeRef(t)] < job[j].cutoff
              THEN {<<t, refs[CodeRef(t)]>>} ELSE {}
    BY <2>2, <2>3 DEF IsStale
  <2> HIDE DEF met
  <2>6. /\ job'[j].pc = "scan" /\ job'[j].reap
        /\ job'[j].dry = job[j].dry /\ job'[j].cutoff = job[j].cutoff
        /\ job'[j].scanned = next
        /\ job'[j].stale = job[j].stale \cup met
    BY <1>2, <2>4 DEF TypeOK, JobState
  <2>7. ASSUME NEW s \in Streams, ToReap(j, s),
               refs[CodeRef(s)] # Absent, refs[CodeRef(s)] < job[j].cutoff
        PROVE  ToReap(j, s)'
    <3>1. CASE s = t
      BY <1>1, <2>5, <2>6, <2>7, <3>1 DEF ToReap
    <3>2. CASE s # t
      <4>1. \A i \in 1..Cardinality(CodeRefs) :
               CodeRefOrder[i] = CodeRef(s) /\ i > job[j].scanned => i > next
        BY <1>2, <2>1, <2>2, <3>2, RefNames, PassMeetsAll DEF JobState
      <4> HIDE DEF next, name
      <4> QED
        BY <1>1, <1>2, <2>6, <2>7, <4>1 DEF ToReap
    <3> QED
      BY <3>1, <3>2
  <2>8. \A hit_ \in met : hit_[2] < job[j].cutoff
    BY <2>5
  <2> HIDE DEF next, name, hit
  <2>9. ForgetOf(j)'
    BY <2>6 DEF ForgetOf
  <2>10. ReapOf(j)'
    BY <1>1, <1>2, <2>6, <2>7, <2>8 DEF ReapOf
  <2> QED
    BY <1>1, <2>9, <2>10, JobFrame
<1>4. CASE ScanEnds(j)
  <2>1. /\ job'[j].pc = "next" /\ job'[j].reap
        /\ job'[j].dry = job[j].dry /\ job'[j].cutoff = job[j].cutoff
        /\ job'[j].stale = job[j].stale
        /\ job[j].scanned = Cardinality(CodeRefs)
    BY <1>2, <1>4 DEF ScanEnds, TypeOK, JobState
  <2>2. ASSUME NEW s \in Streams, ToReap(j, s)
        PROVE  ToReap(j, s)'
    <3>1. ~ \E i \in 1..Cardinality(CodeRefs) :
               CodeRefOrder[i] = CodeRef(s) /\ i > job[j].scanned
      BY <2>1, PassMeetsAll
    <3> QED
      BY <1>1, <1>2, <2>1, <2>2, <3>1 DEF ToReap
  <2>3. ForgetOf(j)' /\ ReapOf(j)'
    BY <1>1, <1>2, <2>1, <2>2 DEF ForgetOf, ReapOf
  <2> QED
    BY <1>1, <2>3, JobFrame
<1> QED
  BY <1>3, <1>4
\* The second pass hands a stale stream to forget_stream, or only counts it.
LEMMA ReapLife ==
    ASSUME TypeOK, LifeInv, NEW j \in Jobs, ReapNext(j) \/ ReapEnds(j)
    PROVE  LifeInv'
<1>1. /\ UNCHANGED <<refs, sync, acked, raced, pushed>>
      /\ \A k \in Jobs \ {j} : job'[k] = job[k] /\ pushed'[k] = pushed[k]
  BY DEF ReapNext, ReapEnds, TypeOK
<1>2. /\ job[j].pc = "next" /\ job[j].reap /\ job[j] \in JobState
      /\ ForgetOf(j) /\ ReapOf(j)
  BY DEF ReapNext, ReapEnds, ReapOf, LifeInv, TypeOK
<1>3. CASE ReapNext(j)
  <2>1. PICK hit \in job[j].stale :
           job'[j] = IF job[j].dry
                     THEN [job[j] EXCEPT !.stale = job[j].stale \ {hit}]
                     ELSE [job[j] EXCEPT !.stale = job[j].stale \ {hit},
                                         !.pc = "list",
                                         !.target = hit[1],
                                         !.seen = hit[2]]
    BY <1>3 DEF ReapNext, TypeOK
  <2>2. hit \in Stale /\ hit[1] \in Streams /\ hit[2] < job[j].cutoff
    BY <1>2, <2>1 DEF JobState, Stale, ReapOf
  <2>3. /\ job'[j].reap /\ job'[j].dry = job[j].dry
        /\ job'[j].cutoff = job[j].cutoff
        /\ job'[j].stale = job[j].stale \ {hit}
    BY <1>2, <2>1 DEF JobState
  <2>4. CASE job[j].dry
    <3>1. job'[j].pc = "next"
      BY <1>2, <2>1, <2>4 DEF JobState
    <3> QED
      BY <1>1, <1>2, <2>3, <2>4, <3>1, JobFrame DEF ForgetOf, ReapOf
  <2>5. CASE ~job[j].dry
    <3>1. /\ job'[j].pc = "list"
          /\ job'[j].target = hit[1] /\ job'[j].seen = hit[2]
      BY <1>2, <2>1, <2>5 DEF JobState
    <3>2. ForgetOf(j)'
      BY <2>2, <3>1 DEF ForgetOf
    <3>3. ASSUME NEW s \in Streams, ToReap(j, s)
          PROVE  ToReap(j, s)'
      BY <1>1, <1>2, <2>3, <3>1, <3>3 DEF ToReap
    <3>4. ReapOf(j)'
      BY <1>1, <1>2, <2>2, <2>3, <3>1, <3>3 DEF ReapOf
    <3> QED
      BY <1>1, <3>2, <3>4, JobFrame
  <2> QED
    BY <2>4, <2>5
<1>4. CASE ReapEnds(j)
  <2>1. /\ job'[j].pc = "over"
        /\ job'[j].reap = job[j].reap /\ job'[j].cutoff = job[j].cutoff
        /\ job'[j].stale = job[j].stale
    BY <1>4 DEF ReapEnds, TypeOK, JobState
  <2>2. ForgetOf(j)' /\ ReapOf(j)'
    BY <1>2, <2>1 DEF ForgetOf, ReapOf
  <2> QED
    BY <1>1, <2>2, JobFrame
<1> QED
  BY <1>3, <1>4

\* When a forget is over: what is left of the job.
LEMMA AfterForgetIs ==
    ASSUME TypeOK, NEW j \in Jobs
    PROVE  /\ AfterForget(j).pc = IF job[j].reap THEN "next" ELSE "over"
           /\ AfterForget(j).reap = job[j].reap
           /\ AfterForget(j).dry = job[j].dry
           /\ AfterForget(j).cutoff = job[j].cutoff
           /\ AfterForget(j).stale = job[j].stale
BY DEF AfterForget, TypeOK, JobState

\* A forget lists every ref that its target has.
LEMMA ListLife ==
    ASSUME TypeOK, LifeInv, NEW j \in Jobs, ListRefs(j)
    PROVE  LifeInv'
<1> DEFINE listed == {name \in ListedFor(job[j].target) : refs[name] # Absent}
<1>1. /\ UNCHANGED <<refs, sync, acked, raced, pushed>>
      /\ \A k \in Jobs \ {j} : job'[k] = job[k] /\ pushed'[k] = pushed[k]
  BY DEF ListRefs, TypeOK
<1>2. /\ job[j].pc = "list" /\ job[j].target \in Streams /\ job[j] \in JobState
      /\ ForgetOf(j) /\ ReapOf(j)
  BY DEF ListRefs, ForgetOf, LifeInv, TypeOK
<1>3. \A s \in Streams :
         Covers(job[j].target, s) =>
            /\ refs[CodeRef(s)] # Absent => CodeRef(s) \in listed
            /\ refs[ExtraRef(s)] # Absent => ExtraRef(s) \in listed
  BY <1>2, ListedAreCovered, RefsOfStream DEF ListedFor
<1>4. listed \subseteq ListedFor(job[j].target)
  OBVIOUS
<1>5. job'[j] = IF listed = {} THEN AfterForget(j)
                ELSE [job[j] EXCEPT !.pc = "delete", !.listed = listed]
  BY DEF ListRefs, TypeOK
<1> HIDE DEF listed
<1>6. CASE listed = {}
  <2>1. /\ job'[j].pc = IF job[j].reap THEN "next" ELSE "over"
        /\ job'[j].reap = job[j].reap /\ job'[j].dry = job[j].dry
        /\ job'[j].cutoff = job[j].cutoff /\ job'[j].stale = job[j].stale
    BY <1>5, <1>6, AfterForgetIs
  <2>2. ASSUME NEW s \in Streams, ToReap(j, s), refs[CodeRef(s)] # Absent
        PROVE  ToReap(j, s)'
    <3>1. job[j].target # s
      BY <1>3, <1>6, <2>2 DEF Covers
    <3> QED
      BY <1>1, <1>2, <2>1, <2>2, <3>1 DEF ToReap
  <2>3. ForgetOf(j)' /\ ReapOf(j)'
    BY <1>1, <1>2, <2>1, <2>2 DEF ForgetOf, ReapOf
  <2> QED
    BY <1>1, <2>3, JobFrame
<1>7. CASE listed # {}
  <2>1. /\ job'[j].pc = "delete" /\ job'[j].listed = listed
        /\ job'[j].target = job[j].target /\ job'[j].seen = job[j].seen
        /\ job'[j].reap = job[j].reap /\ job'[j].dry = job[j].dry
        /\ job'[j].cutoff = job[j].cutoff /\ job'[j].stale = job[j].stale
    BY <1>2, <1>5, <1>7 DEF JobState
  <2>2. ASSUME NEW s \in Streams, ToReap(j, s), refs[CodeRef(s)] # Absent
        PROVE  ToReap(j, s)'
    BY <1>1, <1>2, <1>3, <2>1, <2>2 DEF ToReap, Covers
  <2>3. ForgetOf(j)'
    BY <1>1, <1>2, <1>3, <1>4, <2>1 DEF ForgetOf
  <2>4. ReapOf(j)'
    BY <1>1, <1>2, <2>1, <2>2 DEF ReapOf
  <2> QED
    BY <1>1, <2>3, <2>4, JobFrame
<1> QED
  BY <1>6, <1>7

\* A deletion touches the refs of the streams the forget is meant for, and
\* what it leaves of them is raced.
LEMMA DeletesEffect ==
    ASSUME TypeOK, LifeInv, NEW j \in Jobs, job[j].pc = "delete",
           NEW names \in SUBSET job[j].listed, NEW died \in BOOLEAN,
           died \/ names = job[j].listed,
           Deletes(j, names, died),
           sync' = sync
    PROVE  /\ \A name \in Refs :
                 refs'[name] = IF name \in names THEN Absent ELSE refs[name]
           /\ \A s \in Streams : raced[s] => raced'[s]
           /\ \A s \in Streams : StreamOf(s)'
<1>1. job[j].target \in Streams /\ job[j].listed \subseteq ListedFor(job[j].target)
  BY DEF LifeInv, ForgetOf
<1>2. \A s \in Streams :
         CodeRef(s) \in names \/ ExtraRef(s) \in names => Covers(job[j].target, s)
  BY <1>1, ListedAreCovered DEF ListedFor
<1>3. \A name \in Refs :
         refs'[name] = IF name \in names THEN Absent ELSE refs[name]
  BY DEF Deletes, Gone
<1>4. \A s \in Streams :
         /\ acked'[s] => acked[s] /\ ~Covers(job[j].target, s)
         /\ raced[s] => raced'[s]
         /\ Disturbed(j, s, died) => raced'[s]
  BY DEF Deletes, TypeOK
<1>5. ASSUME NEW s \in Streams
      PROVE  StreamOf(s)'
  <2>1. StreamOf(s)
    BY DEF LifeInv
  <2>2. CASE ~Covers(job[j].target, s)
    <3>1. /\ refs'[CodeRef(s)] = refs[CodeRef(s)]
          /\ refs'[ExtraRef(s)] = refs[ExtraRef(s)]
      BY <1>2, <1>3, <2>2, RefsOfStream
    <3> QED
      BY <1>4, <2>1, <3>1 DEF StreamOf
  <2>3. CASE Covers(job[j].target, s)
    <3>1. ~acked'[s]
      BY <1>4, <2>3
    <3>2. sync[s].phase = "extra" => raced'[s]
      BY <1>4, <2>3 DEF Disturbed
    <3>3. refs'[ExtraRef(s)] # Absent => raced'[s]
      <4>1. CASE died
        BY <1>4, <2>3, <4>1 DEF Disturbed
      <4>2. CASE names = job[j].listed
        BY <1>3, <1>4, <2>3, <4>2, RefsOfStream DEF LifeInv, ForgetOf
      <4> QED
        BY <4>1, <4>2
    <3> QED
      BY <2>1, <3>1, <3>2, <3>3 DEF StreamOf
  <2> QED
    BY <2>2, <2>3
<1> QED
  BY <1>3, <1>4, <1>5

\* To other jobs a deletion is one of refs they have less to do with.
LEMMA OthersLife ==
    ASSUME TypeOK, LifeInv, NEW k \in Jobs,
           job'[k] = job[k], pushed'[k] = pushed[k],
           \A name \in Refs : refs'[name] = Absent \/ refs'[name] = refs[name],
           \A s \in Streams : raced[s] => raced'[s]
    PROVE  ForgetOf(k)' /\ ReapOf(k)'
<1>1. ForgetOf(k) /\ ReapOf(k)
  BY DEF LifeInv
<1>2. ForgetOf(k)'
  BY <1>1, RefsOfStream DEF ForgetOf
<1>3. ASSUME NEW s \in Streams, refs'[CodeRef(s)] # Absent
      PROVE  /\ refs'[CodeRef(s)] = refs[CodeRef(s)]
             /\ ToReap(k, s) => ToReap(k, s)'
  BY <1>3, RefsOfStream DEF ToReap
<1>4. ReapOf(k)'
  BY <1>1, <1>3 DEF ReapOf
<1> QED
  BY <1>2, <1>4

\* The transaction of a forget.
LEMMA DeleteLife ==
    ASSUME TypeOK, LifeInv, NEW j \in Jobs, DeleteListed(j)
    PROVE  LifeInv'
<1>1. /\ job[j].pc = "delete" /\ Deletes(j, job[j].listed, FALSE)
      /\ UNCHANGED <<now, started, sync, pushed>>
      /\ job'[j] = AfterForget(j)
      /\ \A k \in Jobs \ {j} : job'[k] = job[k]
  BY DEF DeleteListed, TypeOK
<1>2. /\ \A name \in Refs : refs'[name] = IF name \in job[j].listed
                                         THEN Absent ELSE refs[name]
      /\ \A s \in Streams : raced[s] => raced'[s]
      /\ \A s \in Streams : StreamOf(s)'
  BY <1>1, DeletesEffect
<1>3. \A k \in Jobs \ {j} : ForgetOf(k)' /\ ReapOf(k)'
  BY <1>1, <1>2, OthersLife
<1>4. ForgetOf(j) /\ ReapOf(j)
  BY DEF LifeInv
<1>5. /\ job'[j].pc = IF job[j].reap THEN "next" ELSE "over"
      /\ job'[j].reap = job[j].reap /\ job'[j].dry = job[j].dry
      /\ job'[j].cutoff = job[j].cutoff /\ job'[j].stale = job[j].stale
  BY <1>1, AfterForgetIs
<1>6. ASSUME NEW s \in Streams, refs'[CodeRef(s)] # Absent
      PROVE  /\ refs'[CodeRef(s)] = refs[CodeRef(s)]
             /\ ToReap(j, s) => ToReap(j, s)'
  BY <1>1, <1>2, <1>5, <1>6, RefsOfStream DEF ToReap
<1>7. ForgetOf(j)' /\ ReapOf(j)'
  BY <1>1, <1>4, <1>5, <1>6 DEF ForgetOf, ReapOf
<1> QED
  BY <1>2, <1>3, <1>7 DEF LifeInv

\* A job that dies, in its transaction or elsewhere.
LEMMA DeathLife ==
    ASSUME TypeOK, LifeInv, NEW j \in Jobs, JobDies(j)
    PROVE  LifeInv'
<1>1. /\ UNCHANGED <<now, started, sync, pushed>>
      /\ job'[j].pc = "over" /\ ~job'[j].reap /\ job'[j].stale = {}
      /\ \A k \in Jobs \ {j} : job'[k] = job[k]
  <2>1. job'[j] = [NoJob EXCEPT !.pc = "over"]
    BY DEF JobDies, TypeOK
  <2> QED
    BY <2>1 DEF JobDies, TypeOK, NoJob
<1>2. ForgetOf(j)' /\ ReapOf(j)'
  BY <1>1 DEF ForgetOf, ReapOf
<1>3. CASE UNCHANGED <<refs, acked, raced>>
  BY <1>1, <1>2, <1>3, JobFrame
<1>4. CASE job[j].pc = "delete" /\ \E names \in SUBSET job[j].listed :
                                       Deletes(j, names, TRUE)
  <2>1. PICK names \in SUBSET job[j].listed : Deletes(j, names, TRUE)
    BY <1>4
  <2>2. /\ \A name \in Refs :
              refs'[name] = IF name \in names THEN Absent ELSE refs[name]
        /\ \A s \in Streams : raced[s] => raced'[s]
        /\ \A s \in Streams : StreamOf(s)'
    BY <1>1, <1>4, <2>1, DeletesEffect
  <2>3. \A k \in Jobs \ {j} : ForgetOf(k)' /\ ReapOf(k)'
    BY <1>1, <2>2, OthersLife
  <2> QED
    BY <1>2, <2>2, <2>3 DEF LifeInv
<1> QED
  BY <1>3, <1>4 DEF JobDies

\* Every step keeps the life of the streams in order.
LEMMA LifePreserved ==
    ASSUME TypeOK, LifeInv, [Next]_vars
    PROVE  LifeInv'
<1>1. CASE Tick \/ UNCHANGED vars
  <2>1. UNCHANGED <<refs, sync, job, acked, raced, pushed>>
    BY <1>1 DEF Tick, vars
  <2> QED
    BY <2>1 DEF LifeInv, StreamOf, ForgetOf, ReapOf, ToReap
<1>2. ASSUME NEW j \in Jobs, JobStep(j)
      PROVE  LifeInv'
  BY <1>2, StartLife, ScanLife, ReapLife, ListLife, DeleteLife, DeathLife
     DEF JobStep
<1> QED
  BY <1>1, <1>2, SyncLife DEF Next

-----------------------------------------------------------------------------
(* The theorems.                                                           *)

\* TypeOK and LifeInv hold of every reachable state.
THEOREM LifeInvariant == Spec => [](TypeOK /\ LifeInv)
<1>1. Init => TypeOK /\ LifeInv
  <2>1. ASSUME Init
        PROVE  TypeOK
    BY <2>1, StreamsAssumption, NoJobType DEF Init, TypeOK, Absent
  <2>2. ASSUME Init, NEW s \in Streams
        PROVE  StreamOf(s)
    BY <2>2, RefsOfStream DEF Init, StreamOf
  <2>3. ASSUME Init, NEW j \in Jobs
        PROVE  ForgetOf(j) /\ ReapOf(j)
    BY <2>3 DEF Init, NoJob, ForgetOf, ReapOf
  <2> QED
    BY <2>1, <2>2, <2>3 DEF LifeInv
<1>2. TypeOK /\ LifeInv /\ [Next]_vars => (TypeOK /\ LifeInv)'
  BY TypePreserved, LifePreserved
<1> QED
  BY <1>1, <1>2, PTL DEF Spec

\* A stream whose sync was acknowledged stays complete until it, or a stream
\* it is nested in, is forgotten: no push, forget or reap of another stream
\* touches its refs, whatever the names of the two.
THEOREM AckedStays == Spec => []AckedStreamStays
<1>1. LifeInv => AckedStreamStays
  BY DEF LifeInv, StreamOf, AckedStreamStays
<1> QED
  BY <1>1, LifeInvariant, PTL

\* An `extra` ref without its code ref is left only by a forget and a sync of
\* the stream that overlapped, or by a forget that died in its transaction.
THEOREM LoneExtraWasRaced == Spec => []ExtraAloneOnlyIfRaced
<1>1. LifeInv => ExtraAloneOnlyIfRaced
  BY DEF LifeInv, StreamOf, ExtraAloneOnlyIfRaced
<1> QED
  BY <1>1, LifeInvariant, PTL

\* reap_streams deletes the code ref of a stream that is not older than the
\* cutoff only when it was synced after the scan or is nested in a stale one.
THEOREM FreshSpared == Spec => ReapSparesFresh
<1> DEFINE Spared ==
       \A j \in Jobs, s \in Streams :
          /\ job[j].reap
          /\ job[j].pc = "delete"
          /\ job'[j].pc # "delete"
          /\ refs[CodeRef(s)] >= job[j].cutoff
          /\ refs'[CodeRef(s)] = Absent
          => \/ s = job[j].target /\ refs[CodeRef(s)] # job[j].seen
             \/ s # job[j].target /\ Covers(job[j].target, s)
<1>1. ASSUME TypeOK, LifeInv, [Next]_vars, NEW j \in Jobs, NEW s \in Streams,
             job[j].reap, job[j].pc = "delete", job'[j].pc # "delete",
             refs[CodeRef(s)] >= job[j].cutoff, refs'[CodeRef(s)] = Absent
      PROVE  \/ s = job[j].target /\ refs[CodeRef(s)] # job[j].seen
             \/ s # job[j].target /\ Covers(job[j].target, s)
  <2>1. /\ ForgetOf(j) /\ ReapOf(j) /\ CodeRef(s) \in Refs
        /\ job[j] \in JobState /\ refs[CodeRef(s)] \in Nat
    BY <1>1, RefsOfStream, StreamsAssumption DEF LifeInv, TypeOK
  <2>2. /\ job[j].seen < job[j].cutoff
        /\ refs[CodeRef(s)] # Absent /\ refs[CodeRef(s)] # job[j].seen
    <3>1. job[j].seen \in Nat /\ job[j].cutoff \in Nat
      BY <2>1, StreamsAssumption DEF JobState
    <3>2. job[j].seen < job[j].cutoff /\ 0 < job[j].cutoff
      BY <1>1, <2>1, <3>1 DEF ReapOf
    <3>3. refs[CodeRef(s)] >= job[j].cutoff
      BY <1>1
    <3> QED
      BY <2>1, <3>1, <3>2, <3>3 DEF Absent
  <2>3. JobStep(j)
    <3>1. Tick \/ UNCHANGED vars \/ (\E t \in Streams : SyncStep(t)) => job' = job
      BY DEF Tick, vars, SyncStep, StartSync, PushCode, PushExtra, SyncFails
    <3> QED
      BY <1>1, <3>1, OneJobMoves DEF Next
  <2>4. DeleteListed(j) \/ JobDies(j)
    BY <1>1, <2>3 DEF JobStep, StartForget, StartReap, ScanRef, ScanEnds,
       ReapNext, ListRefs, ReapEnds
  <2>5. CodeRef(s) \in job[j].listed
    BY <1>1, <2>1, <2>2, <2>4 DEF DeleteListed, JobDies, Deletes, Gone
  <2>6. job[j].target \in Streams /\ Covers(job[j].target, s)
    BY <1>1, <2>1, <2>5, ListedAreCovered DEF ForgetOf, ListedFor
  <2> QED
    BY <2>2, <2>6
<1>2. TypeOK /\ LifeInv /\ [Next]_vars => [Spared]_vars
  BY <1>1
<1> HIDE DEF Spared
<1>3. Spec => [][Spared]_vars
  BY <1>2, LifeInvariant, PTL DEF Spec
<1> QED
  BY <1>3 DEF ReapSparesFresh, Spared

\* A reap that ran to its end has left no stream behind that was stale when
\* it began and was not pushed since.
THEOREM NoStaleLeft == Spec => ReapLeavesNoStale
<1> DEFINE NoneLeft ==
       \A j \in Jobs, s \in Streams :
          /\ job[j].pc = "next"
          /\ job'[j].pc = "over"
          /\ job[j].stale = {}
          /\ ~job[j].dry
          /\ refs[CodeRef(s)] # Absent
          /\ refs[CodeRef(s)] < job[j].cutoff
          => s \in pushed[j]
<1>1. LifeInv => NoneLeft
  BY DEF LifeInv, ReapOf, ToReap
<1>2. LifeInv /\ [Next]_vars => [NoneLeft]_vars
  BY <1>1
<1> HIDE DEF NoneLeft
<1>3. Spec => [][NoneLeft]_vars
  BY <1>2, LifeInvariant, PTL DEF Spec
<1> QED
  BY <1>3 DEF ReapLeavesNoStale, NoneLeft
=============================================================================
