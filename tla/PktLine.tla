------------------------------ MODULE PktLine -------------------------------
(***************************************************************************)
(* pkt-line framing (crates/common/src/pktline.rs): the length header, and *)
(* FlushSplit, the counter that both ends feed the bytes of an exchange as *)
(* they pass, in chunks of any size.                                       *)
(*                                                                         *)
(* A byte is a number: 0..15 are the hex digits, Plus is '+', and anything *)
(* above stands for bytes that are neither.                                *)
(***************************************************************************)
EXTENDS Naturals, Sequences, SequencesExt

Plus     == 16
HexDigit == 0..15

FlushPkt == <<0, 0, 0, 0>>

\* No header says so: four digits stop at 65535.
NoLength == 65536

\* usize::from_str_radix(header, 16): a leading '+' is accepted.
ParseLength(header) ==
    LET digit(i) == IF header[i] = Plus THEN 0 ELSE header[i]
    IN  IF /\ header[1] \in HexDigit \cup {Plus}
           /\ \A i \in 2..4 : header[i] \in HexDigit
        THEN ((digit(1) * 16 + digit(2)) * 16 + digit(3)) * 16 + digit(4)
        ELSE NoLength

-----------------------------------------------------------------------------
(* FlushSplit.                                                             *)

NewSplit ==
    [state |-> "Header", header |-> <<>>, remaining |-> 0,
     total |-> 0, pre_flush |-> 0, pre_flush_pkts |-> 0, post_flush |-> 0]

\* A complete header has been gathered.
HeaderRead(split, header) ==
    LET len == ParseLength(header)
        st  == [split EXCEPT !.header = <<>>]
        pkt == [st EXCEPT !.pre_flush_pkts = @ + 1]
    IN  CASE len = NoLength   -> [st EXCEPT !.state = "Unframed"]
          [] len = 0          -> [st EXCEPT !.state = "AfterFlush"]
          [] len \in {1, 2}   -> [pkt EXCEPT !.state = "Header"]
          [] len = 3          -> [st EXCEPT !.state = "Unframed"]
          [] OTHER            -> [pkt EXCEPT
                                    !.remaining = len - 4,
                                    !.state = IF len = 4 THEN "Header"
                                              ELSE "Payload"]

Shorter(m, n) == IF m <= n THEN m ELSE n

\* Mutant: forgets the part of a header that earlier chunks have brought.
WantWholeHeader(split) ==
    IF split.state = "Header" THEN 4 ELSE split.remaining

\* How many bytes complete the header or the payload being read.
Want(split) ==
    IF split.state = "Header" THEN 4 - Len(split.header) ELSE split.remaining

\* One turn of feed's loop: how it accounts for the head of the bytes left.
FeedOnce(fed) ==
    LET split == fed.split
        rest  == fed.rest
        take  == Shorter(Want(split), Len(rest))
        after == SubSeq(rest, take + 1, Len(rest))
        read  == [split EXCEPT !.pre_flush = @ + take]
        header == split.header \o SubSeq(rest, 1, take)
    IN  CASE rest = <<>> -> fed
          [] rest # <<>> /\ split.state \in {"AfterFlush", "Unframed"} ->
                [split |-> [split EXCEPT !.post_flush = @ + Len(rest)],
                 rest |-> <<>>]
          [] rest # <<>> /\ split.state = "Header" ->
                [split |-> IF Len(header) < 4
                           THEN [read EXCEPT !.header = header]
                           ELSE HeaderRead(read, header),
                 rest |-> after]
          [] rest # <<>> /\ split.state = "Payload" ->
                [split |-> [read EXCEPT
                              !.remaining = @ - take,
                              !.state = IF split.remaining = take THEN "Header"
                                        ELSE "Payload"],
                 rest |-> after]

\* feed: a turn takes at least a byte, so it has at most Len(bytes) turns.
Feed(split, bytes) ==
    LET fed[turn \in 0..Len(bytes)] ==
            IF turn = 0
            THEN [split |-> [split EXCEPT !.total = @ + Len(bytes)],
                  rest |-> bytes]
            ELSE FeedOnce(fed[turn - 1])
    IN  fed[Len(bytes)].split

\* pump_splitting: every chunk that was read and could be written is fed.
PumpSplitting(chunks) ==
    LET pumped[n \in 0..Len(chunks)] ==
            IF n = 0 THEN NewSplit ELSE Feed(pumped[n - 1], chunks[n])
    IN  pumped[Len(chunks)]

WireCounts(split) ==
    [total |-> split.total, pre_flush |-> split.pre_flush,
     pre_flush_pkts |-> split.pre_flush_pkts, post_flush |-> split.post_flush]

-----------------------------------------------------------------------------
(* The split of a whole stream, defined without chunks.                    *)

SplitOf(stream) ==
    LET n == Len(stream)
        from[i \in 0..n] ==
            LET len == ParseLength(SubSeq(stream, i + 1, i + 4))
                next == IF len \in {1, 2} THEN i + 4 ELSE i + len
            IN  IF n - i < 4 THEN [pre |-> n, pkts |-> 0]
                ELSE IF len = NoLength THEN [pre |-> i + 4, pkts |-> 0]
                ELSE IF len \in {0, 3} THEN [pre |-> i + 4, pkts |-> 0]
                ELSE IF next > n THEN [pre |-> n, pkts |-> 1]
                ELSE [from[next] EXCEPT !.pkts = @ + 1]
    IN  [total |-> n, pre_flush |-> from[0].pre,
         pre_flush_pkts |-> from[0].pkts, post_flush |-> n - from[0].pre]
=============================================================================
