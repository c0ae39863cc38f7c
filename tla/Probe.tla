------------------------------- MODULE Probe --------------------------------
(***************************************************************************)
(* `git-full-send probe` (crates/client/src/probe.rs): what it makes of    *)
(* the bytes that the other end sends before it closes the connection, or  *)
(* before the read timeout.                                                *)
(*                                                                         *)
(* A payload is told by its first byte: an ERR message, the placeholder of *)
(* a repository without refs, one of git-full-send's refs or another ref.  *)
(***************************************************************************)
EXTENDS PktLine, FiniteSets

ErrLine     == 17
Placeholder == 18
OurRef      == 19
OtherRef    == 20

\* Mutant: counts the placeholder of an empty repository as a ref.
NamesRefAny(payload) == payload # <<>>

\* ref_name: a line that names no ref counts as none.
NamesRef(payload) == payload # <<>> /\ payload[1] \in {OurRef, OtherRef}

IsErr(payload) == payload # <<>> /\ payload[1] = ErrLine

-----------------------------------------------------------------------------
(* read_advertisement: pkt-line by pkt-line until the flush-pkt.  `ending` *)
(* says whether a read that finds too few bytes left ends at EOF or in an  *)
(* error.                                                                  *)

Saw(bytes, refs, error) ==
    [result |-> "advertisement", bytes |-> bytes, refs |-> refs,
     error |-> error]

NoRefs    == [all |-> 0, ours |-> 0]
Reading   == [result |-> "reading", bytes |-> 0, refs |-> NoRefs,
              error |-> FALSE]
ReadError == [result |-> "error"]

\* What a line adds to the names that were read.
WithName(refs, payload) ==
    [all  |-> refs.all + (IF NamesRef(payload) THEN 1 ELSE 0),
     ours |-> refs.ours + (IF NamesRef(payload) /\ payload[1] = OurRef
                           THEN 1 ELSE 0)]

\* One turn of its loop.
ReadLine(stream, ending, read) ==
    LET at      == read.bytes
        left    == Len(stream) - at
        len     == ParseLength(SubSeq(stream, at + 1, at + 4))
        payload == SubSeq(stream, at + 5, at + len)
    IN  CASE read.result # "reading" -> read
          [] read.result = "reading" /\ left < 4 ->
                IF ending = "eof" THEN Saw(at, read.refs, FALSE)
                ELSE ReadError
          [] read.result = "reading" /\ left >= 4 /\ len = NoLength ->
                Saw(at + 4, NoRefs, FALSE)
          [] read.result = "reading" /\ left >= 4 /\ len < 4 ->
                Saw(at + 4, read.refs, FALSE)
          [] read.result = "reading" /\ left >= 4
                /\ len >= 4 /\ len # NoLength /\ left < len -> ReadError
          [] OTHER ->
                IF IsErr(payload) THEN Saw(at + len, read.refs, TRUE)
                ELSE [read EXCEPT !.bytes = at + len,
                                  !.refs = WithName(@, payload)]

\* A turn takes four bytes or is the last, so Len(stream) + 1 are enough.
ReadAdvertisement(stream, ending) ==
    LET read[turn \in 0..(Len(stream) + 1)] ==
            IF turn = 0 THEN Reading
            ELSE ReadLine(stream, ending, read[turn - 1])
    IN  read[Len(stream) + 1]

\* probe, once connected; `sent` says whether its own flush-pkt could be
\* written.  The final drain does not change the verdict.
ProbeVerdict(seen, sent) ==
    IF seen.result = "error" THEN "Exchange"
    ELSE IF seen.error THEN "Refused"
    ELSE IF seen.refs.all = 0 /\ seen.bytes = 0 THEN "NotReceivePack"
    ELSE IF ~sent THEN "Exchange"
    ELSE "up"
=============================================================================
