------------------------------- MODULE Metrics ------------------------------
(***************************************************************************)
(* The metrics sink (crates/common/src/metrics.rs): a file to which every  *)
(* operation appends its record as a line of JSON, best effort, and the    *)
(* statistics that `git-full-send metrics` makes of it.                    *)
(*                                                                         *)
(* The file is a sequence of items: a record, the fragment of one, a       *)
(* fragment that ends in the midst of a character, or a newline.  A record *)
(* has its kind and `fields`, a function from dotted paths to numbers:     *)
(* what flatten_numbers collects of it.                                    *)
(***************************************************************************)
EXTENDS Naturals, Sequences, SequencesExt, FiniteSets, FiniteSetsExt

Eol      == [item |-> "eol"]
Fragment == [item |-> "fragment"]
Cut      == [item |-> "cut"]
Entry(record) == [item |-> "record", record |-> record]

Outcomes == {"whole", "unended", "torn", "cut", "nothing"}

\* append, as one write in append mode that a crash or a full disk may cut:
\* what it leaves behind.  record drops the error.
Appended(record, outcome) ==
    CASE outcome = "whole"   -> <<Entry(record), Eol>>
      [] outcome = "unended" -> <<Entry(record)>>
      [] outcome = "torn"    -> <<Fragment>>
      [] outcome = "cut"     -> <<Cut>>
      [] outcome = "nothing" -> <<>>

\* What a sink holds after some writes, each a record and its outcome.
FileOf(writes) ==
    FlattenSeq([i \in DOMAIN writes |-> Appended(writes[i][1], writes[i][2])])

\* read_to_string fails on what is not UTF-8, and there is nothing to tell.
ReadToString(file) == IF Cut \in ToSet(file) THEN <<>> ELSE file

\* str::lines, from_str: a line is JSON when a record is all there is on it.
Parses(file, i) ==
    /\ file[i].item = "record"
    /\ i = 1 \/ file[i - 1] = Eol
    /\ i = Len(file) \/ file[i + 1] = Eol

\* The records of one kind, by their places in the file.
OfKind(file, kind) ==
    {i \in DOMAIN file : Parses(file, i) /\ file[i].record.kind = kind}

\* Mutant: the limit keeps the oldest records.
OldestRecordsOf(file, kind, last) ==
    LET all == OfKind(file, kind)
    IN  {i \in all : Cardinality({j \in all : j <= i}) <= last}

\* The last `last` of them.
RecordsOf(file, kind, last) ==
    LET all == OfKind(file, kind)
    IN  {i \in all : Cardinality({j \in all : j >= i}) <= last}

\* The value at a place, counted from 1, when values are sorted.
AtRank(values, rank) ==
    CHOOSE v \in {values[i] : i \in DOMAIN values} :
        /\ Cardinality({i \in DOMAIN values : values[i] < v}) < rank
        /\ Cardinality({i \in DOMAIN values : values[i] <= v}) >= rank

\* percentile, q in hundredths: the rank is rounded, halves up.
Percentile(values, q) ==
    LET n == Cardinality(DOMAIN values)
    IN  IF n = 0 THEN 0
        ELSE AtRank(values, ((2 * q * (n - 1) + 100) \div 200) + 1)

\* The statistics of one field over some records.
FieldStats(file, records, field) ==
    LET with   == {i \in records : field \in DOMAIN file[i].record.fields}
        values == [i \in with |-> file[i].record.fields[field]]
    IN  [count |-> Cardinality(with), p50 |-> Percentile(values, 50),
         p95 |-> Percentile(values, 95),
         max |-> AtRank(values, Cardinality(with))]

\* aggregate, of one kind; `last` is Len(file) when no limit is given.
Aggregate(file, kind, last) ==
    LET contents == ReadToString(file)
        records  == RecordsOf(contents, kind, last)
        fields   == UNION {DOMAIN contents[i].record.fields : i \in records}
    IN  [records |-> Cardinality(records),
         fields |-> [field \in fields |->
                        FieldStats(contents, records, field)]]
=============================================================================
