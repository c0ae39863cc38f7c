--------------------------- MODULE AlgorithmProofs ---------------------------
(***************************************************************************)
(* Theorems about the pure algorithms, for every input that they may be    *)
(* given: a split that no chunking changes, a probe that counts what a     *)
(* push counts, a preamble that lets in whoever has the same secret, a     *)
(* selection that pruning never changes, an advertisement that is curated  *)
(* exactly, a doctor that judges what is advertised, statistics that lose  *)
(* little to a torn record, or everything.                                 *)
(*                                                                         *)
(* A recursive definition, and a number chosen as the largest or the least *)
(* of a set, are reasoned about by the least counterexample, which the     *)
(* well-foundedness of inclusion among finite sets provides.               *)
(***************************************************************************)
EXTENDS Algorithms, FiniteSetTheorems, SequenceTheorems, TLAPS

(* Least and largest numbers.                                              *)

\* A set of numbers that is not empty has a least element: the intervals from
\* 0 to each of them are ordered by inclusion, which is well-founded.
LEMMA LeastOf ==
    ASSUME NEW S \in SUBSET Nat, S # {}
    PROVE  \E m \in S : \A k \in S : m <= k
<1> DEFINE F == {0..x : x \in S}
           R == StrictSubsetOrdering(Nat)
<1>1. F \subseteq FiniteSubsetsOf(Nat) /\ F # {}
  <2>1. ASSUME NEW x \in S
        PROVE  0..x \in SUBSET Nat /\ IsFiniteSet(0..x)
    BY FS_Interval
  <2> QED
    BY <2>1 DEF FiniteSubsetsOf
<1>2. IsWellFoundedOn(R, FiniteSubsetsOf(Nat))
  BY FS_StrictSubsetOrderingWellFounded
<1>3. PICK I \in F : \A J \in F : ~(<<J, I>> \in R)
  <2> HIDE DEF F, R
  <2> QED
    BY <1>1, <1>2, WFMin
<1>4. PICK m \in S : I = 0..m
  BY <1>3
<1>5. ASSUME NEW k \in S
      PROVE  m <= k
  <2> SUFFICES ASSUME k < m
               PROVE  FALSE
    BY <1>5
  <2>1. 0..k \subseteq 0..m /\ m \in 0..m /\ m \notin 0..k
    BY <1>4
  <2>2. <<0..k, 0..m>> \in R
    BY <2>1 DEF StrictSubsetOrdering
  <2> QED
    BY <1>3, <1>4, <2>2
<1> QED
  BY <1>5

\* And one within 0..n has a largest.
LEMMA LargestOf ==
    ASSUME NEW n \in Nat, NEW S \in SUBSET (0..n), S # {}
    PROVE  \E m \in S : \A k \in S : k <= m
<1> DEFINE T == {n - k : k \in S}
<1>1. T \in SUBSET Nat /\ T # {}
  <2>1. \A k \in S : n - k \in Nat
    OBVIOUS
  <2>2. PICK k \in S : TRUE
    OBVIOUS
  <2>3. n - k \in T
    OBVIOUS
  <2> QED
    BY <2>1, <2>3
<1>2. PICK t \in T : \A u \in T : t <= u
  BY <1>1, LeastOf
<1>3. PICK m \in S : t = n - m
  BY <1>2
<1>4. ASSUME NEW k \in S
      PROVE  k <= m
  <2>1. n - m <= n - k
    BY <1>2, <1>3
  <2> QED
    BY <2>1, <1>3
<1> QED
  BY <1>4

-----------------------------------------------------------------------------
(* Selection: paths and patterns.                                          *)

\* The first k names of a path.
LEMMA PathBegins ==
    ASSUME NEW Names, NEW path \in Seq(Names), NEW k \in 0..Len(path)
    PROVE  /\ SubSeq(path, 1, k) \in Seq(Names)
           /\ Len(SubSeq(path, 1, k)) = k
           /\ DOMAIN SubSeq(path, 1, k) = 1..k
           /\ \A i \in 1..k : SubSeq(path, 1, k)[i] = path[i]
<1>1. \A i \in 1..k : path[i] \in Names
  BY ElementOfSeq
<1>2. k \in Int /\ 1 \in Int /\ k - 1 + 1 = k
  OBVIOUS
<1>3. /\ SubSeq(path, 1, k) \in Seq(Names)
      /\ Len(SubSeq(path, 1, k)) = IF 1 <= k THEN k - 1 + 1 ELSE 0
      /\ \A i \in 1..(k - 1 + 1) : SubSeq(path, 1, k)[i] = path[1 + i - 1]
  BY <1>1, <1>2, SubSeqProperties
<1>4. Len(SubSeq(path, 1, k)) = k
  BY <1>3
<1>5. \A i \in 1..k : SubSeq(path, 1, k)[i] = path[i]
  BY <1>2, <1>3
<1> QED
  BY <1>3, <1>4, <1>5, LenProperties

\* Shortening a path twice is shortening it once.
LEMMA BeginsAgain ==
    ASSUME NEW Names, NEW path \in Seq(Names), NEW k \in 0..Len(path),
           NEW j \in 0..k
    PROVE  SubSeq(SubSeq(path, 1, k), 1, j) = SubSeq(path, 1, j)
<1> DEFINE short == SubSeq(path, 1, k)
<1>1. /\ short \in Seq(Names) /\ Len(short) = k
      /\ \A i \in 1..k : short[i] = path[i]
  BY PathBegins
<1> HIDE DEF short
<1>2. j \in 0..Len(short) /\ j \in 0..Len(path)
  BY <1>1
<1>3. /\ SubSeq(short, 1, j) \in Seq(Names) /\ Len(SubSeq(short, 1, j)) = j
      /\ \A i \in 1..j : SubSeq(short, 1, j)[i] = short[i]
  BY <1>1, <1>2, PathBegins
<1>4. /\ SubSeq(path, 1, j) \in Seq(Names) /\ Len(SubSeq(path, 1, j)) = j
      /\ \A i \in 1..j : SubSeq(path, 1, j)[i] = path[i]
  BY <1>2, PathBegins
<1>5. SubSeq(short, 1, j) = SubSeq(path, 1, j)
  BY <1>1, <1>3, <1>4, SeqEqual
<1> QED
  BY <1>5 DEF short

\* What is above a path is its beginning.
LEMMA FrontBegins ==
    ASSUME NEW Names, NEW path \in Seq(Names) \ {<<>>}
    PROVE  /\ Len(path) \in Nat \ {0}
           /\ Front(path) = SubSeq(path, 1, Len(path) - 1)
           /\ Front(path) \in Seq(Names)
           /\ Len(Front(path)) = Len(path) - 1
           /\ SubSeq(path, 1, Len(path)) = path
           /\ \A k \in 0..(Len(path) - 1) :
                 SubSeq(Front(path), 1, k) = SubSeq(path, 1, k)
<1>1. Len(path) \in Nat \ {0}
  BY EmptySeq
<1>2. Len(path) - 1 \in 0..Len(path)
  BY <1>1
<1>3. SubSeq(path, 1, Len(path)) = path
  BY SubSeqFull
<1>4. /\ SubSeq(path, 1, Len(path) - 1) \in Seq(Names)
      /\ Len(SubSeq(path, 1, Len(path) - 1)) = Len(path) - 1
  BY <1>2, PathBegins
<1>5. \A k \in 0..(Len(path) - 1) :
         SubSeq(SubSeq(path, 1, Len(path) - 1), 1, k) = SubSeq(path, 1, k)
  BY <1>2, BeginsAgain
<1> QED
  BY <1>1, <1>3, <1>4, <1>5 DEF Front

-----------------------------------------------------------------------------
(* Selection: patterns that match and what they reach.                     *)

\* The last of the patterns that match is one of them.
LEMMA LastMatch ==
    ASSUME NEW Names, NEW search \in Seq(PatternsOver(Names)),
           NEW path, NEW is_dir, Matching(search, path, is_dir) # {}
    PROVE  \E i \in Matching(search, path, is_dir) :
              \A inherited :
                 Classify(search, path, is_dir, inherited) = ~search[i].neg
<1> DEFINE hits == Matching(search, path, is_dir)
           last == CHOOSE i \in hits : \A j \in hits : j <= i
<1>1. Len(search) \in Nat /\ DOMAIN search = 1..Len(search)
  BY LenProperties
<1>2. hits \in SUBSET (1..Len(search))
  BY <1>1 DEF Matching
<1>3. \E i \in hits : \A j \in hits : j <= i
  <2>1. hits \in SUBSET (0..Len(search)) /\ hits # {}
    BY <1>1, <1>2
  <2> HIDE DEF hits
  <2> QED
    BY <1>1, <2>1, LargestOf
<1>4. last \in hits
  BY <1>3
<1>5. \A inherited :
         Classify(search, path, is_dir, inherited) = ~search[last].neg
  BY DEF Classify
<1> QED
  BY <1>4, <1>5

\* What a path is classified as, when a pattern matches it, is a truth value
\* that does not depend on what is inherited.
LEMMA ClassifyMatched ==
    ASSUME NEW Names, NEW search \in Seq(PatternsOver(Names)),
           NEW path, NEW is_dir, Matching(search, path, is_dir) # {}
    PROVE  /\ Classify(search, path, is_dir, FALSE) \in BOOLEAN
           /\ \A inherited : Classify(search, path, is_dir, inherited)
                                = Classify(search, path, is_dir, FALSE)
           /\ Classify(search, path, is_dir, FALSE) =>
                 \E i \in Positive(search) : Matches(search[i], path, is_dir)
<1>1. PICK i \in Matching(search, path, is_dir) :
         \A inherited :
             Classify(search, path, is_dir, inherited) = ~search[i].neg
  BY LastMatch
<1>2. /\ i \in DOMAIN search
      /\ Matches(search[i], path, is_dir)
  BY DEF Matching
<1>3. search[i].neg \in BOOLEAN
  <2>1. i \in 1..Len(search)
    BY <1>2, LenProperties
  <2>2. search[i] \in PatternsOver(Names)
    BY <2>1, ElementOfSeq
  <2> QED
    BY <2>2 DEF PatternsOver
<1>4. Classify(search, path, is_dir, FALSE) = ~search[i].neg
  BY <1>1
<1>5. ASSUME Classify(search, path, is_dir, FALSE)
      PROVE  i \in Positive(search)
  BY <1>2, <1>3, <1>4, <1>5 DEF Positive
<1>6. \A inherited : Classify(search, path, is_dir, inherited)
                        = Classify(search, path, is_dir, FALSE)
  BY <1>1
<1> QED
  BY <1>2, <1>3, <1>4, <1>5, <1>6

\* When nothing matches, what is inherited stays.
LEMMA ClassifyUnmatched ==
    ASSUME NEW search, NEW path, NEW is_dir, NEW inherited,
           Matching(search, path, is_dir) = {}
    PROVE  Classify(search, path, is_dir, inherited) = inherited
BY DEF Classify

\* The literal head of a pattern's segments is free of `**`.
LEMMA HeadIsLiteral ==
    ASSUME NEW Names, NEW segs \in Seq(Segments(Names))
    PROVE  \E stop \in 0..Len(segs) :
              /\ LiteralHead(segs) = [i \in 1..stop |-> segs[i].names]
              /\ \A i \in 1..stop : ~segs[i].deep
<1> DEFINE wild == {i \in DOMAIN segs : ~segs[i].literal}
           least == CHOOSE i \in wild : \A j \in wild : i <= j
           stop == IF wild = {} THEN Len(segs) ELSE least - 1
<1>1. Len(segs) \in Nat /\ DOMAIN segs = 1..Len(segs)
  BY LenProperties
<1>2. wild # {} => least \in wild /\ \A j \in wild : least <= j
  <2> SUFFICES ASSUME wild # {}
               PROVE  \E i \in wild : \A j \in wild : i <= j
    OBVIOUS
  <2>1. wild \in SUBSET Nat
    BY <1>1
  <2> HIDE DEF wild
  <2> QED
    BY <2>1, LeastOf
<1>3. stop \in 0..Len(segs)
  BY <1>1, <1>2
<1>4. \A i \in 1..stop : i \in DOMAIN segs /\ i \notin wild
  BY <1>1, <1>2
<1>5. \A i \in 1..stop : ~segs[i].deep
  <2> SUFFICES ASSUME NEW i \in 1..stop
               PROVE  ~segs[i].deep
    OBVIOUS
  <2>1. i \in 1..Len(segs) /\ segs[i].literal
    BY <1>1, <1>4
  <2> QED
    BY <2>1, ElementOfSeq DEF Segments
<1>6. LiteralHead(segs) = [i \in 1..stop |-> segs[i].names]
  BY DEF LiteralHead
<1> QED
  BY <1>3, <1>5, <1>6

\* A pattern that matches a path reaches every directory on the way to it.
LEMMA MatchReaches ==
    ASSUME NEW Names, NEW segs \in Seq(Segments(Names)),
           NEW path \in Seq(Names), SegmentsMatch(segs, path)
    PROVE  \A i \in DOMAIN LiteralHead(segs) :
              i \in 1..Len(path) /\ path[i] \in LiteralHead(segs)[i]
<1>1. PICK stop \in 0..Len(segs) :
         /\ LiteralHead(segs) = [i \in 1..stop |-> segs[i].names]
         /\ \A i \in 1..stop : ~segs[i].deep
  BY HeadIsLiteral
<1>2. PICK cut \in [0..Len(segs) -> 0..Len(path)] :
         /\ cut[0] = 0
         /\ \A i \in 1..Len(segs) :
               segs[i].deep \/ (/\ cut[i] = cut[i - 1] + 1
                                /\ path[cut[i]] \in segs[i].names)
  BY DEF SegmentsMatch
<1>3. Len(segs) \in Nat /\ Len(path) \in Nat
  BY LenProperties
<1>4. \A i \in 0..stop : cut[i] = i
  <2> SUFFICES ASSUME {i \in 0..stop : cut[i] # i} # {}
               PROVE  FALSE
    OBVIOUS
  <2>1. PICK m \in {i \in 0..stop : cut[i] # i} :
           \A k \in {i \in 0..stop : cut[i] # i} : m <= k
    <3>1. {i \in 0..stop : cut[i] # i} \in SUBSET Nat
      OBVIOUS
    <3> QED
      BY <3>1, LeastOf
  <2>2. m # 0 /\ m \in 1..stop /\ m - 1 \in 0..stop
    BY <1>2
  <2>3. cut[m - 1] = m - 1
    BY <2>1, <2>2
  <2>4. m \in 1..Len(segs) /\ ~segs[m].deep
    BY <1>1, <1>3, <2>2
  <2> QED
    BY <1>2, <2>1, <2>3, <2>4
<1>5. ASSUME NEW i \in 1..stop
      PROVE  i \in 1..Len(path) /\ path[i] \in segs[i].names
  <2>1. i \in 1..Len(segs) /\ i \in 0..stop /\ ~segs[i].deep
    BY <1>1, <1>3
  <2>2. cut[i] = i /\ cut[i] \in 0..Len(path)
    BY <1>2, <1>4, <2>1
  <2> QED
    BY <1>2, <1>3, <2>1, <2>2
<1> QED
  BY <1>1, <1>5

\* can_contain_match: a positive pattern that matches a path below a
\* directory keeps the directory from being pruned.
LEMMA MatchBelowKeeps ==
    ASSUME NEW Names, NEW search \in Seq(PatternsOver(Names)),
           NEW path \in Seq(Names), NEW j \in 0..Len(path), NEW is_dir,
           NEW i \in Positive(search), Matches(search[i], path, is_dir)
    PROVE  CanContainMatch(search, SubSeq(path, 1, j))
<1> DEFINE dir    == SubSeq(path, 1, j)
           prefix == PrunablePrefix(search[i])
<1>1. i \in DOMAIN search /\ search[i] \in PatternsOver(Names)
  BY LenProperties, ElementOfSeq DEF Positive
<1>2. CASE prefix = <<>>
  BY <1>2 DEF CanContainMatch, UnanchoredPatterns
<1>3. CASE prefix # <<>>
  <2>1. Anchored(search[i]) /\ prefix = LiteralHead(search[i].segs)
    BY <1>3 DEF PrunablePrefix
  <2>2. SegmentsMatch(search[i].segs, path)
    BY <2>1 DEF Matches
  <2>3. search[i].segs \in Seq(Segments(Names))
    BY <1>1 DEF PatternsOver
  <2>4. \A k \in DOMAIN prefix : path[k] \in prefix[k]
    BY <2>1, <2>2, <2>3, MatchReaches
  <2>5. DOMAIN dir = 1..j /\ \A k \in 1..j : dir[k] = path[k]
    BY PathBegins
  <2>6. prefix \in PrunePrefixes(search)
    BY <1>3 DEF PrunePrefixes
  <2> HIDE DEF dir, prefix
  <2>7. \A k \in DOMAIN prefix \cap DOMAIN dir : dir[k] \in prefix[k]
    BY <2>4, <2>5
  <2>8. CanContainMatch(search, dir)
    BY <2>6, <2>7 DEF CanContainMatch
  <2> QED
    BY <2>8 DEF dir
<1> QED
  BY <1>2, <1>3

-----------------------------------------------------------------------------
(* Selection: the deepest directory that a pattern matches decides.        *)

\* What a path and the directories above it are to Matching: all that is in
\* front of the end is a directory.
AsDir(path, is_dir, k) == IF k < Len(path) THEN TRUE ELSE is_dir

Deciders(search, path, is_dir) ==
    {k \in 1..Len(path) :
        Matching(search, SubSeq(path, 1, k), AsDir(path, is_dir, k)) # {}}

\* The deepest one is classified as selected.
Decided(search, path, is_dir) ==
    \E k \in Deciders(search, path, is_dir) :
        /\ \A j \in Deciders(search, path, is_dir) : j <= k
        /\ Classify(search, SubSeq(path, 1, k), AsDir(path, is_dir, k), FALSE)

\* The deciders above a path are those of the directory it is in.
LEMMA DecidersAbove ==
    ASSUME NEW Names, NEW search \in Seq(PatternsOver(Names)),
           NEW path \in Seq(Names), NEW is_dir,
           NEW m \in 0..Len(path), m < Len(path)
    PROVE  \A k \in 1..m :
              /\ k \in Deciders(search, path, is_dir)
                    <=> k \in Deciders(search, SubSeq(path, 1, m), TRUE)
              /\ SubSeq(SubSeq(path, 1, m), 1, k) = SubSeq(path, 1, k)
              /\ AsDir(path, is_dir, k) = TRUE
              /\ AsDir(SubSeq(path, 1, m), TRUE, k) = TRUE
<1> SUFFICES ASSUME NEW k \in 1..m
             PROVE  /\ k \in Deciders(search, path, is_dir)
                        <=> k \in Deciders(search, SubSeq(path, 1, m), TRUE)
                    /\ SubSeq(SubSeq(path, 1, m), 1, k) = SubSeq(path, 1, k)
                    /\ AsDir(path, is_dir, k) = TRUE
                    /\ AsDir(SubSeq(path, 1, m), TRUE, k) = TRUE
  OBVIOUS
<1> DEFINE short == SubSeq(path, 1, m)
<1>1. Len(path) \in Nat
  BY LenProperties
<1>2. Len(short) = m
  BY PathBegins
<1>3. SubSeq(short, 1, k) = SubSeq(path, 1, k)
  <2>1. k \in 0..m
    OBVIOUS
  <2> QED
    BY <2>1, BeginsAgain
<1> HIDE DEF short
<1>4. AsDir(path, is_dir, k) = TRUE
  BY <1>1 DEF AsDir
<1>5. AsDir(short, TRUE, k) = TRUE
  BY DEF AsDir
<1>6. k \in 1..Len(path) /\ k \in 1..Len(short)
  BY <1>1, <1>2
<1>7. k \in Deciders(search, path, is_dir)
         <=> k \in Deciders(search, short, TRUE)
  BY <1>3, <1>4, <1>5, <1>6 DEF Deciders
<1> QED
  BY <1>3, <1>4, <1>5, <1>7 DEF short

\* A path is decided by what matches it, or else by what decides above it.
LEMMA DecidedStep ==
    ASSUME NEW Names, NEW search \in Seq(PatternsOver(Names)),
           NEW path \in Seq(Names) \ {<<>>}, NEW is_dir
    PROVE  Decided(search, path, is_dir)
              <=> Classify(search, path, is_dir,
                           Decided(search, Front(path), TRUE))
<1> DEFINE n  == Len(path)
           up == Front(path)
           D  == Deciders(search, path, is_dir)
           U  == Deciders(search, up, TRUE)
<1>1. /\ n \in Nat \ {0} /\ Len(up) = n - 1
      /\ up = SubSeq(path, 1, n - 1) /\ SubSeq(path, 1, n) = path
  BY FrontBegins
<1>2. n - 1 \in 0..n /\ n - 1 < n /\ n \in 1..n
  BY <1>1
<1>3. AsDir(path, is_dir, n) = is_dir
  <2>1. ~(n < Len(path))
    BY <1>1
  <2> HIDE DEF n
  <2> QED
    BY <2>1, Zenon DEF AsDir
<1>4. \A k \in 1..(n - 1) :
         /\ k \in D <=> k \in U
         /\ SubSeq(up, 1, k) = SubSeq(path, 1, k)
         /\ AsDir(path, is_dir, k) = TRUE
         /\ AsDir(up, TRUE, k) = TRUE
  <2> DEFINE m == n - 1
  <2>1. m \in 0..Len(path) /\ m < Len(path) /\ path \in Seq(Names)
    BY <1>2
  <2> HIDE DEF m
  <2>2. \A k \in 1..m :
           /\ k \in Deciders(search, path, is_dir)
                 <=> k \in Deciders(search, SubSeq(path, 1, m), TRUE)
           /\ SubSeq(SubSeq(path, 1, m), 1, k) = SubSeq(path, 1, k)
           /\ AsDir(path, is_dir, k) = TRUE
           /\ AsDir(SubSeq(path, 1, m), TRUE, k) = TRUE
    BY <2>1, DecidersAbove
  <2>3. up = SubSeq(path, 1, m)
    BY <1>1 DEF m
  <2> HIDE DEF up
  <2>4. \A k \in 1..m :
           /\ k \in Deciders(search, path, is_dir)
                 <=> k \in Deciders(search, up, TRUE)
           /\ SubSeq(up, 1, k) = SubSeq(path, 1, k)
           /\ AsDir(path, is_dir, k) = TRUE
           /\ AsDir(up, TRUE, k) = TRUE
    BY <2>2, <2>3, Zenon
  <2> QED
    BY <2>4, Zenon DEF m, up
<1>5. D \subseteq 1..n /\ U \subseteq 1..(n - 1)
  BY <1>1 DEF Deciders
<1>6. n \in D <=> Matching(search, path, is_dir) # {}
  BY <1>1, <1>2, <1>3 DEF Deciders
<1>7. Decided(search, path, is_dir)
         <=> \E k \in D : /\ \A j \in D : j <= k
                          /\ Classify(search, SubSeq(path, 1, k),
                                      AsDir(path, is_dir, k), FALSE)
  BY DEF Decided
<1>8. Decided(search, up, TRUE)
         <=> \E k \in U : /\ \A j \in U : j <= k
                          /\ Classify(search, SubSeq(up, 1, k),
                                      AsDir(up, TRUE, k), FALSE)
  BY DEF Decided
<1> DEFINE P(k) == Classify(search, SubSeq(path, 1, k),
                            AsDir(path, is_dir, k), FALSE)
<1>9. Decided(search, up, TRUE)
         <=> \E k \in U : (\A j \in U : j <= k) /\ P(k)
  <2>1. \A k \in U : Classify(search, SubSeq(up, 1, k), AsDir(up, TRUE, k),
                              FALSE) = P(k)
    BY <1>4, <1>5
  <2> HIDE DEF P, U, up
  <2> QED
    BY <1>8, <2>1 DEF up
<1>10. CASE Matching(search, path, is_dir) # {}
  <2>1. P(n) = Classify(search, path, is_dir, FALSE)
    BY <1>1, <1>3
  <2>2. Classify(search, path, is_dir, Decided(search, up, TRUE))
          = Classify(search, path, is_dir, FALSE)
    BY <1>10, ClassifyMatched
  <2>3. n \in D /\ \A j \in D : j <= n
    BY <1>5, <1>6, <1>10
  <2>4. \A k \in D : (\A j \in D : j <= k) => k = n
    BY <1>1, <1>5, <2>3
  <2>5. Decided(search, path, is_dir) <=> P(n)
    <3> HIDE DEF P, D, n
    <3> QED
      BY <1>7, <2>3, <2>4 DEF P
  <2> QED
    BY <2>1, <2>2, <2>5
<1>11. CASE Matching(search, path, is_dir) = {}
  <2>1. Classify(search, path, is_dir, Decided(search, up, TRUE))
          = Decided(search, up, TRUE)
    BY <1>11, ClassifyUnmatched
  <2>2. D = U
    <3>1. n \notin D
      BY <1>6, <1>11, Zenon
    <3> HIDE DEF D, U, n
    <3>2. \A k \in 1..n : k = n \/ k \in 1..(n - 1)
      BY <1>1
    <3>3. n \notin U /\ (1..(n - 1)) \subseteq 1..n
      BY <1>1, <1>5
    <3> QED
      BY <1>4, <1>5, <3>1, <3>2, <3>3
  <2>3. Decided(search, path, is_dir) <=> Decided(search, up, TRUE)
    <3>1. Decided(search, path, is_dir)
             <=> \E k \in D : (\A j \in D : j <= k) /\ P(k)
      BY <1>7
    <3> HIDE DEF P, D, U, up
    <3> QED
      BY <1>9, <2>2, <3>1
  <2> QED
    BY <2>1, <2>3
<1> QED
  BY <1>10, <1>11

-----------------------------------------------------------------------------
(* Selection: what the walk makes of a directory, without recursion.       *)

\* Somewhere above, or here, is `.git` or a directory that is not selected
\* and that nothing selected can be below.
Lost(search, dir) ==
    \E k \in 1..Len(dir) :
        \/ dir[k] = Git
        \/ /\ ~Decided(search, SubSeq(dir, 1, k), TRUE)
           /\ ~CanContainMatch(search, SubSeq(dir, 1, k))

Closed(search, dir) ==
    IF Lost(search, dir) THEN "pruned"
    ELSE IF Decided(search, dir, TRUE) THEN "included" ELSE "excluded"

\* One step of the walk, from what it made of the directory above.
Entered(search, dir, up) ==
    LET included == Classify(search, dir, TRUE, up = "included")
    IN  CASE dir = <<>> -> "excluded"
          [] dir # <<>> /\ (up = "pruned" \/ Last(dir) = Git) -> "pruned"
          [] OTHER ->
                IF included THEN "included"
                ELSE IF CanContainMatch(search, dir) THEN "excluded"
                ELSE "pruned"

DirsOf(tree) == {path \in DOMAIN tree : tree[path] = "dir"} \cup {<<>>}

\* A directory is lost with the one above it, or for a reason of its own.
LEMMA LostStep ==
    ASSUME NEW Names, NEW search \in Seq(PatternsOver(Names)),
           NEW dir \in Seq(Names) \ {<<>>}
    PROVE  Lost(search, dir)
              <=> \/ Lost(search, Front(dir))
                  \/ Last(dir) = Git
                  \/ /\ ~Decided(search, dir, TRUE)
                     /\ ~CanContainMatch(search, dir)
<1> DEFINE n == Len(dir)
           up == Front(dir)
           Why(d, k) == \/ d[k] = Git
                        \/ /\ ~Decided(search, SubSeq(d, 1, k), TRUE)
                           /\ ~CanContainMatch(search, SubSeq(d, 1, k))
<1>1. /\ n \in Nat \ {0} /\ Len(up) = n - 1 /\ SubSeq(dir, 1, n) = dir
      /\ up = SubSeq(dir, 1, n - 1)
      /\ \A k \in 0..(n - 1) : SubSeq(up, 1, k) = SubSeq(dir, 1, k)
  BY FrontBegins
<1>2. \A k \in 1..(n - 1) : up[k] = dir[k]
  <2>1. n - 1 \in 0..Len(dir)
    BY <1>1
  <2> QED
    BY <1>1, <2>1, PathBegins
<1>3. \A k \in 1..(n - 1) : Why(up, k) <=> Why(dir, k)
  <2> SUFFICES ASSUME NEW k \in 1..(n - 1)
               PROVE  Why(up, k) <=> Why(dir, k)
    OBVIOUS
  <2>1. k \in 0..(n - 1)
    BY <1>1
  <2>2. up[k] = dir[k] /\ SubSeq(up, 1, k) = SubSeq(dir, 1, k)
    BY <1>1, <1>2, <2>1
  <2> HIDE DEF up
  <2> QED
    BY <2>2, Zenon
<1>4. Why(dir, n) <=> \/ Last(dir) = Git
                      \/ /\ ~Decided(search, dir, TRUE)
                         /\ ~CanContainMatch(search, dir)
  <2>1. Last(dir) = dir[n]
    BY DEF Last
  <2>2. SubSeq(dir, 1, n) = dir
    BY <1>1
  <2> HIDE DEF n
  <2> QED
    BY <2>1, <2>2, Zenon
<1>5. Lost(search, dir) <=> \E k \in 1..n : Why(dir, k)
  BY Zenon DEF Lost
<1>6. Lost(search, up) <=> \E k \in 1..(n - 1) : Why(up, k)
  <2>1. Lost(search, up) <=> \E k \in 1..Len(up) : Why(up, k)
    BY Zenon DEF Lost
  <2>2. Len(up) = n - 1
    BY <1>1
  <2> HIDE DEF up, n, Why
  <2> QED
    BY <2>1, <2>2
<1> HIDE DEF Why
<1>7. \A k : k \in 1..n <=> k \in 1..(n - 1) \/ k = n
  <2> HIDE DEF n
  <2> QED
    BY <1>1
<1>8. Lost(search, dir) <=> Lost(search, up) \/ Why(dir, n)
  <2> HIDE DEF n, up
  <2> QED
    BY <1>3, <1>5, <1>6, <1>7, Zenon
<1> QED
  BY <1>4, <1>8, Zenon DEF Why

\* The closed form takes the steps of the walk.
LEMMA ClosedStep ==
    ASSUME NEW Names, NEW search \in Seq(PatternsOver(Names)),
           NEW dir \in Seq(Names)
    PROVE  Closed(search, dir)
              = Entered(search, dir, Closed(search, Front(dir)))
<1>1. CASE dir = <<>>
  <2>1. ~Lost(search, dir)
    BY <1>1 DEF Lost
  <2>2. ~Decided(search, dir, TRUE)
    BY <1>1 DEF Decided, Deciders
  <2> QED
    BY <1>1, <2>1, <2>2 DEF Closed, Entered
<1>2. CASE dir # <<>>
  <2> DEFINE up == Front(dir)
  <2>1. Lost(search, dir)
           <=> \/ Lost(search, up)
               \/ Last(dir) = Git
               \/ /\ ~Decided(search, dir, TRUE)
                  /\ ~CanContainMatch(search, dir)
    BY <1>2, LostStep
  <2>2. Decided(search, dir, TRUE)
           <=> Classify(search, dir, TRUE, Decided(search, up, TRUE))
    BY <1>2, DecidedStep
  <2> HIDE DEF up
  <2>3. CASE Lost(search, up) \/ Last(dir) = Git
    <3>1. Closed(search, dir) = "pruned"
      BY <2>1, <2>3 DEF Closed
    <3>2. Lost(search, up) => Closed(search, up) = "pruned"
      BY DEF Closed
    <3>3. Entered(search, dir, Closed(search, up)) = "pruned"
      BY <1>2, <2>3, <3>2 DEF Entered
    <3> QED
      BY <3>1, <3>3 DEF up
  <2>4. CASE ~Lost(search, up) /\ Last(dir) # Git
    <3>1. Closed(search, up) # "pruned"
      BY <2>4 DEF Closed
    <3>2. (Closed(search, up) = "included") = Decided(search, up, TRUE)
      <4>1. Decided(search, up, TRUE) \in BOOLEAN
        BY DEF Decided
      <4> QED
        BY <2>4, <4>1 DEF Closed
    <3>3. Classify(search, dir, TRUE, Closed(search, up) = "included")
             = Classify(search, dir, TRUE, Decided(search, up, TRUE))
      BY <3>2, Zenon
    <3>4. Classify(search, dir, TRUE, Closed(search, up) = "included")
             <=> Decided(search, dir, TRUE)
      BY <2>2, <3>3, Zenon
    <3>5. Entered(search, dir, Closed(search, up))
             = IF Decided(search, dir, TRUE) THEN "included"
               ELSE IF CanContainMatch(search, dir) THEN "excluded"
               ELSE "pruned"
      BY <1>2, <2>4, <3>1, <3>4 DEF Entered
    <3>6. Closed(search, dir)
             = IF Decided(search, dir, TRUE) THEN "included"
               ELSE IF CanContainMatch(search, dir) THEN "excluded"
               ELSE "pruned"
      BY <2>1, <2>4 DEF Closed
    <3> QED
      BY <3>5, <3>6 DEF up
  <2> QED
    BY <2>3, <2>4
<1> QED
  BY <1>1, <1>2

\* The walk itself: whatever function takes its steps is the closed form.
LEMMA WalkIsClosed ==
    ASSUME NEW Names, NEW search \in Seq(PatternsOver(Names)),
           NEW tree, IsTree(tree, Names)
    PROVE  \A dir \in DirsOf(tree) :
              WalkDirs(search, tree)[dir] = Closed(search, dir)
<1> DEFINE S == DirsOf(tree)
           Takes(f) == f = [dir \in S |-> Entered(search, dir, f[Front(dir)])]
           form == [dir \in S |-> Closed(search, dir)]
           walk == WalkDirs(search, tree)
<1>1. S \subseteq Seq(Names)
  BY EmptySeq DEF IsTree, DirsOf
<1>2. \A dir \in S : dir # <<>> => Front(dir) \in S
  <2> SUFFICES ASSUME NEW dir \in S, dir # <<>>
               PROVE  Front(dir) \in S
    OBVIOUS
  <2>1. dir \in Seq(Names) /\ dir \in DOMAIN tree
    BY <1>1 DEF DirsOf
  <2>2. /\ Len(dir) \in Nat \ {0} /\ Front(dir) = SubSeq(dir, 1, Len(dir) - 1)
        /\ Len(Front(dir)) = Len(dir) - 1 /\ Front(dir) \in Seq(Names)
    BY <2>1, FrontBegins
  <2>3. CASE Len(dir) = 1
    <3>1. Front(dir) = <<>>
      BY <2>2, <2>3, EmptySeq
    <3> QED
      BY <3>1 DEF DirsOf
  <2>4. CASE Len(dir) # 1
    <3>1. Len(dir) - 1 \in 1..(Len(dir) - 1)
      BY <2>2, <2>4
    <3>2. /\ Front(dir) \in DOMAIN tree
          /\ tree[Front(dir)] = "dir"
      BY <2>1, <2>2, <3>1 DEF IsTree
    <3> QED
      BY <3>2 DEF DirsOf
  <2> QED
    BY <2>3, <2>4
<1>3. Takes(form)
  <2>1. \A dir \in S : Closed(search, dir)
                          = Entered(search, dir, form[Front(dir)])
    <3> SUFFICES ASSUME NEW dir \in S
                 PROVE  Closed(search, dir)
                          = Entered(search, dir, form[Front(dir)])
      OBVIOUS
    <3>1. dir \in Seq(Names)
      BY <1>1
    <3>2. CASE dir = <<>>
      <4>1. Entered(search, dir, form[Front(dir)]) = "excluded"
        BY <3>2, Zenon DEF Entered
      <4>2. Entered(search, dir, Closed(search, Front(dir))) = "excluded"
        BY <3>2, Zenon DEF Entered
      <4> QED
        BY <3>1, <4>1, <4>2, ClosedStep
    <3>3. CASE dir # <<>>
      <4>1. form[Front(dir)] = Closed(search, Front(dir))
        BY <1>2, <3>3
      <4> QED
        BY <3>1, <4>1, ClosedStep
    <3> QED
      BY <3>2, <3>3
  <2> HIDE DEF S
  <2>2. [dir \in S |-> Closed(search, dir)]
           = [dir \in S |-> Entered(search, dir, form[Front(dir)])]
    BY <2>1, Zenon
  <2> QED
    BY <2>2, Zenon
<1>4. walk = CHOOSE f : Takes(f)
  BY Zenon DEF WalkDirs, DirsOf, Entered
<1>5. Takes(walk)
  <2> HIDE DEF Takes, form, walk
  <2> QED
    BY <1>3, <1>4, Zenon
<1>6. \A dir \in S : walk[dir] = Entered(search, dir, walk[Front(dir)])
  <2> HIDE DEF S, walk
  <2> QED
    BY <1>5
<1> DEFINE Bad == {dir \in S : walk[dir] # Closed(search, dir)}
<1> SUFFICES ASSUME Bad # {}
             PROVE  FALSE
  OBVIOUS
<1> HIDE DEF walk, S
<1>7. PICK dir \in Bad : \A other \in Bad : Len(dir) <= Len(other)
  <2> DEFINE Lens == {Len(d) : d \in Bad}
  <2>1. Lens \in SUBSET Nat /\ Lens # {}
    <3>1. \A d \in Bad : Len(d) \in Nat
      BY <1>1, LenProperties
    <3> HIDE DEF Bad
    <3> QED
      BY <3>1
  <2>2. PICK l \in Lens : \A k \in Lens : l <= k
    BY <2>1, LeastOf
  <2> QED
    BY <2>2
<1>8. dir \in S /\ dir \in Seq(Names) /\ walk[dir] # Closed(search, dir)
  BY <1>1, <1>7
<1>9. CASE dir = <<>>
  <2>1. Entered(search, dir, walk[Front(dir)])
          = Entered(search, dir, Closed(search, Front(dir)))
    BY <1>9, Zenon DEF Entered
  <2> QED
    BY <1>6, <1>8, <2>1, ClosedStep
<1>10. CASE dir # <<>>
  <2>1. Front(dir) \in S /\ Len(Front(dir)) < Len(dir)
    <3>1. Len(dir) \in Nat /\ Len(Front(dir)) = Len(dir) - 1
      BY <1>8, <1>10, FrontBegins
    <3> QED
      BY <1>2, <1>8, <1>10, <3>1
  <2>2. Front(dir) \notin Bad
    <3>1. Len(dir) \in Nat /\ Len(Front(dir)) \in Nat
      BY <1>1, <1>8, <2>1, LenProperties
    <3> QED
      BY <1>7, <2>1, <3>1
  <2>3. walk[Front(dir)] = Closed(search, Front(dir))
    BY <2>1, <2>2
  <2> QED
    BY <1>6, <1>8, <2>3, ClosedStep
<1> QED
  BY <1>9, <1>10

-----------------------------------------------------------------------------
(* Selection: the theorem.                                                 *)

\* Nothing above a file that is decided by a positive pattern is pruned.
LEMMA DecidedIsReached ==
    ASSUME NEW Names, NEW search \in Seq(PatternsOver(Names)),
           NEW path \in Seq(Names) \ {<<>>}, Decided(search, path, FALSE),
           \A k \in DOMAIN path : path[k] # Git
    PROVE  ~Lost(search, Front(path))
<1> DEFINE n  == Len(path)
           up == Front(path)
<1>1. /\ n \in Nat \ {0} /\ Len(up) = n - 1
      /\ up = SubSeq(path, 1, n - 1)
      /\ \A k \in 0..(n - 1) : SubSeq(up, 1, k) = SubSeq(path, 1, k)
  BY FrontBegins
<1> SUFFICES ASSUME NEW k \in 1..(n - 1),
                    \/ up[k] = Git
                    \/ /\ ~Decided(search, SubSeq(path, 1, k), TRUE)
                       /\ ~CanContainMatch(search, SubSeq(path, 1, k))
             PROVE  FALSE
  <2>1. \A k \in 1..(n - 1) : SubSeq(up, 1, k) = SubSeq(path, 1, k)
    <3> HIDE DEF n, up
    <3> QED
      BY <1>1
  <2>2. Lost(search, up) <=>
           \E k \in 1..Len(up) :
              \/ up[k] = Git
              \/ /\ ~Decided(search, SubSeq(up, 1, k), TRUE)
                 /\ ~CanContainMatch(search, SubSeq(up, 1, k))
    BY Zenon DEF Lost
  <2>3. Len(up) = n - 1
    BY <1>1
  <2> HIDE DEF n, up
  <2>4. Lost(search, up) <=>
           \E k \in 1..(n - 1) :
              \/ up[k] = Git
              \/ /\ ~Decided(search, SubSeq(path, 1, k), TRUE)
                 /\ ~CanContainMatch(search, SubSeq(path, 1, k))
    BY <2>1, <2>2, <2>3, Zenon
  <2> QED
    BY <2>4, Zenon DEF up
<1>2. k \in 0..n /\ k < n /\ k \in 1..n
  BY <1>1
<1>3. up[k] # Git
  <2>1. n - 1 \in 0..Len(path)
    BY <1>1
  <2>2. up[k] = path[k]
    BY <1>1, <2>1, PathBegins
  <2>3. k \in DOMAIN path
    BY <1>2, LenProperties
  <2> QED
    BY <2>2, <2>3
<1>4. PICK m \in Deciders(search, path, FALSE) :
         /\ \A j \in Deciders(search, path, FALSE) : j <= m
         /\ Classify(search, SubSeq(path, 1, m), AsDir(path, FALSE, m), FALSE)
  BY DEF Decided
<1>5. /\ m \in 1..n
      /\ Matching(search, SubSeq(path, 1, m), AsDir(path, FALSE, m)) # {}
  BY DEF Deciders
<1>6. m \in 0..n /\ SubSeq(path, 1, m) \in Seq(Names)
      /\ Len(SubSeq(path, 1, m)) = m
  <2>1. m \in 0..n
    BY <1>1, <1>5
  <2> QED
    BY <2>1, PathBegins
<1>7. CASE k <= m
  <2>1. PICK i \in Positive(search) :
           Matches(search[i], SubSeq(path, 1, m), AsDir(path, FALSE, m))
    BY <1>4, <1>5, ClassifyMatched
  <2>2. k \in 0..m
    BY <1>2, <1>6, <1>7
  <2>3. CanContainMatch(search, SubSeq(SubSeq(path, 1, m), 1, k))
    <3> DEFINE upTo == SubSeq(path, 1, m)
    <3>1. upTo \in Seq(Names) /\ k \in 0..Len(upTo)
      BY <1>6, <2>2
    <3> HIDE DEF upTo
    <3>2. CanContainMatch(search, SubSeq(upTo, 1, k))
      BY <2>1, <3>1, MatchBelowKeeps DEF upTo
    <3> QED
      BY <3>2 DEF upTo
  <2>4. SubSeq(SubSeq(path, 1, m), 1, k) = SubSeq(path, 1, k)
    BY <1>6, <2>2, BeginsAgain
  <2>5. CanContainMatch(search, SubSeq(path, 1, k))
    BY <2>3, <2>4, Zenon
  <2> QED
    BY <1>3, <2>5, Zenon
<1>8. CASE ~(k <= m)
  <2> DEFINE short == SubSeq(path, 1, k)
  <2>1. \A j \in 1..k :
           /\ j \in Deciders(search, path, FALSE)
                 <=> j \in Deciders(search, short, TRUE)
           /\ SubSeq(short, 1, j) = SubSeq(path, 1, j)
           /\ AsDir(path, FALSE, j) = TRUE
           /\ AsDir(short, TRUE, j) = TRUE
    BY <1>2, DecidersAbove
  <2>2. m \in 1..k
    BY <1>2, <1>5, <1>8
  <2>3. Len(short) = k
    BY <1>2, PathBegins
  <2> HIDE DEF short
  <2>4. m \in Deciders(search, short, TRUE)
    BY <1>4, <2>1, <2>2
  <2>5. \A j \in Deciders(search, short, TRUE) : j <= m
    <3>1. \A j \in Deciders(search, short, TRUE) : j \in 1..k
      BY <2>3 DEF Deciders
    <3> QED
      BY <1>4, <2>1, <3>1
  <2>6. Classify(search, SubSeq(short, 1, m), AsDir(short, TRUE, m), FALSE)
    BY <1>4, <2>1, <2>2
  <2>7. Decided(search, short, TRUE)
    BY <2>4, <2>5, <2>6, Zenon DEF Decided
  <2> QED
    BY <1>3, <2>7 DEF short
<1> QED
  BY <1>7, <1>8

\* The deepest path that decides is the one that Meant chooses.
LEMMA MeantIsDecided ==
    ASSUME NEW Names, NEW search \in Seq(PatternsOver(Names)), NEW tree,
           NEW path \in DOMAIN tree, path \in Seq(Names)
    PROVE  path \in Meant(search, tree)
              <=> /\ tree[path] = "file"
                  /\ \A k \in DOMAIN path : path[k] # Git
                  /\ Decided(search, path, FALSE)
<1> DEFINE upTo(k) == SubSeq(path, 1, k)
           decides == {k \in DOMAIN path :
                          Matching(search, upTo(k), k < Len(path)) # {}}
           deepest == CHOOSE k \in decides : \A j \in decides : j <= k
           D       == Deciders(search, path, FALSE)
<1>1. Len(path) \in Nat /\ DOMAIN path = 1..Len(path)
  BY LenProperties
<1>2. \A k \in 1..Len(path) : AsDir(path, FALSE, k) = (k < Len(path))
  <2> SUFFICES ASSUME NEW k \in 1..Len(path)
               PROVE  AsDir(path, FALSE, k) = (k < Len(path))
    OBVIOUS
  <2>1. CASE k < Len(path)
    <3>1. (k < Len(path)) = TRUE
      BY <1>1, <2>1
    <3> QED
      BY <3>1, Zenon DEF AsDir
  <2>2. CASE ~(k < Len(path))
    <3>1. (k < Len(path)) = FALSE
      BY <1>1, <2>2
    <3> QED
      BY <3>1, Zenon DEF AsDir
  <2> QED
    BY <2>1, <2>2
<1>3. decides = D
  <2>1. \A k \in 1..Len(path) :
           Matching(search, upTo(k), k < Len(path))
              = Matching(search, SubSeq(path, 1, k), AsDir(path, FALSE, k))
    BY <1>2, Zenon
  <2>2. D = {k \in 1..Len(path) :
                Matching(search, SubSeq(path, 1, k), AsDir(path, FALSE, k))
                   # {}}
    BY Zenon DEF Deciders
  <2>3. decides = {k \in 1..Len(path) :
                      Matching(search, upTo(k), k < Len(path)) # {}}
    BY <1>1
  <2> HIDE DEF D, decides, upTo
  <2>4. \A k : k \in decides <=> k \in D
    BY <2>1, <2>2, <2>3, Zenon
  <2> QED
    BY <2>4, Zenon DEF D, decides
<1>4. D \in SUBSET (1..Len(path))
  BY DEF Deciders
<1>5. D # {} => deepest \in D /\ \A j \in D : j <= deepest
  <2> SUFFICES ASSUME D # {}
               PROVE  deepest \in D /\ \A j \in D : j <= deepest
    OBVIOUS
  <2>0. D # {}
    OBVIOUS
  <2>1. \E k \in D : \A j \in D : j <= k
    <3> HIDE DEF D
    <3>1. D \in SUBSET (0..Len(path))
      BY <1>1, <1>4
    <3> QED
      BY <1>1, <2>0, <3>1, LargestOf
  <2>2. deepest = CHOOSE k \in D : \A j \in D : j <= k
    <3> HIDE DEF D, decides
    <3> QED
      BY <1>3
  <2> HIDE DEF D, deepest
  <2> QED
    BY <2>1, <2>2
<1>6. Decided(search, path, FALSE)
         <=> /\ D # {}
             /\ Classify(search, upTo(deepest), deepest < Len(path), FALSE)
  <2> DEFINE C(k) == Classify(search, SubSeq(path, 1, k),
                              AsDir(path, FALSE, k), FALSE)
  <2>1. Decided(search, path, FALSE)
           <=> \E k \in D : (\A j \in D : j <= k) /\ C(k)
    BY Zenon DEF Decided
  <2>2. \A k \in D : (\A j \in D : j <= k) => k = deepest
    <3> SUFFICES ASSUME NEW k \in D, \A j \in D : j <= k
                 PROVE  k = deepest
      OBVIOUS
    <3>1. deepest \in D /\ deepest <= k /\ k <= deepest
      BY <1>5
    <3> HIDE DEF deepest, D
    <3>2. D \in SUBSET Nat
      BY <1>1, <1>4
    <3>3. k \in Nat /\ deepest \in Nat
      BY <3>1, <3>2
    <3> QED
      BY <3>1, <3>3
  <2>3. ASSUME D # {}
        PROVE  C(deepest)
                  <=> Classify(search, upTo(deepest), deepest < Len(path),
                               FALSE)
    <3>1. AsDir(path, FALSE, deepest) = (deepest < Len(path))
      <4>1. deepest \in 1..Len(path)
        BY <1>4, <1>5, <2>3
      <4> HIDE DEF deepest
      <4> QED
        BY <1>2, <4>1
    <3> HIDE DEF deepest
    <3> QED
      BY <3>1, Zenon
  <2> HIDE DEF C, D, deepest, upTo
  <2> QED
    BY <1>5, <2>1, <2>2, <2>3, Zenon
<1>7. path \in Meant(search, tree)
         <=> /\ tree[path] = "file"
             /\ \A k \in DOMAIN path : path[k] # Git
             /\ decides # {}
             /\ Classify(search, upTo(deepest), deepest < Len(path), FALSE)
  BY Zenon DEF Meant
<1> HIDE DEF decides, deepest, upTo, D
<1> QED
  BY <1>3, <1>6, <1>7, Zenon

\* load_search's walk: for every list of patterns and every working tree, a
\* file is selected if and only if the deepest of its path and the directories
\* above it that any pattern matches is matched last by a positive one.  So
\* pruning a directory, and entering it with what was inherited, never change
\* the selection.
THEOREM PruningKeeps ==
    ASSUME NEW Names, NEW search \in Seq(PatternsOver(Names)),
           NEW tree, IsTree(tree, Names)
    PROVE  Selected(search, tree) = Meant(search, tree)
<1> DEFINE walk == WalkDirs(search, tree)
<1>1. ASSUME NEW path \in DOMAIN tree, tree[path] = "file"
      PROVE  path \in Selected(search, tree) <=> path \in Meant(search, tree)
  <2> DEFINE n  == Len(path)
             up == Front(path)
  <2>1. path \in Seq(Names) \ {<<>>}
    BY DEF IsTree
  <2>2. /\ n \in Nat \ {0} /\ up = SubSeq(path, 1, n - 1)
        /\ Len(up) = n - 1 /\ up \in Seq(Names)
    BY <2>1, FrontBegins
  <2>3. up \in DirsOf(tree)
    <3>1. CASE n = 1
      <4>1. up = <<>>
        BY <2>2, <3>1, EmptySeq
      <4> QED
        BY <4>1 DEF DirsOf
    <3>2. CASE n # 1
      <4>1. n - 1 \in 1..(Len(path) - 1)
        BY <2>2, <3>2
      <4> QED
        BY <2>2, <4>1 DEF IsTree, DirsOf
    <3> QED
      BY <3>1, <3>2
  <2>4. walk[up] = Closed(search, up)
    BY <2>3, WalkIsClosed
  <2>5. path \in Selected(search, tree)
           <=> /\ Last(path) # Git
               /\ walk[up] # "pruned"
               /\ Classify(search, path, FALSE, walk[up] = "included")
    BY <1>1, Zenon DEF Selected
  <2>6. Decided(search, path, FALSE)
           <=> Classify(search, path, FALSE, Decided(search, up, TRUE))
    BY <2>1, DecidedStep
  <2>7. path \in Meant(search, tree)
           <=> /\ \A k \in DOMAIN path : path[k] # Git
               /\ Decided(search, path, FALSE)
    <3>1. path \in Seq(Names) /\ path \in DOMAIN tree
      BY <1>1, <2>1
    <3>2. path \in Meant(search, tree)
             <=> /\ tree[path] = "file"
                 /\ \A k \in DOMAIN path : path[k] # Git
                 /\ Decided(search, path, FALSE)
      <4> HIDE DEF walk, up, n
      <4> QED
        BY <3>1, MeantIsDecided
    <3> QED
      BY <1>1, <3>2, Zenon
  <2>8. Last(path) = path[n] /\ n \in DOMAIN path
    BY <2>1, <2>2, LenProperties DEF Last
  <2>9. CASE Lost(search, up)
    <3>1. walk[up] = "pruned"
      BY <2>4, <2>9 DEF Closed
    <3>2. path \notin Selected(search, tree)
      BY <2>5, <3>1
    <3>3. path \notin Meant(search, tree)
      BY <2>1, <2>7, <2>9, DecidedIsReached
    <3> QED
      BY <3>2, <3>3
  <2>10. CASE ~Lost(search, up)
    <3>1. walk[up] # "pruned"
      BY <2>4, <2>10 DEF Closed
    <3>2. (walk[up] = "included") = Decided(search, up, TRUE)
      <4>1. Decided(search, up, TRUE) \in BOOLEAN
        BY DEF Decided
      <4> HIDE DEF walk, up
      <4> QED
        BY <2>4, <2>10, <4>1 DEF Closed
    <3>3. Classify(search, path, FALSE, walk[up] = "included")
             <=> Decided(search, path, FALSE)
      <4> HIDE DEF walk, up
      <4> QED
        BY <2>6, <3>2, Zenon
    <3>4. ASSUME path[n] # Git
          PROVE  \A k \in DOMAIN path : path[k] # Git
      <4> SUFFICES ASSUME NEW k \in DOMAIN path
                   PROVE  path[k] # Git
        OBVIOUS
      <4>1. k \in 1..n
        BY <2>1, LenProperties
      <4>2. CASE k = n
        BY <3>4, <4>2
      <4>3. CASE k # n
        <5>1. k \in 1..Len(up)
          BY <2>2, <4>1, <4>3
        <5>2. up[k] = path[k]
          <6>1. n - 1 \in 0..Len(path) /\ k \in 1..(n - 1)
            BY <2>2, <5>1
          <6> QED
            BY <2>1, <2>2, <6>1, PathBegins
        <5>3. up[k] # Git
          BY <2>10, <5>1 DEF Lost
        <5> QED
          BY <5>2, <5>3
      <4> QED
        BY <4>2, <4>3
    <3> HIDE DEF walk, up, n
    <3> QED
      BY <2>5, <2>7, <2>8, <3>1, <3>3, <3>4, Zenon
  <2> QED
    BY <2>9, <2>10
<1>2. \A path \in Selected(search, tree) :
         path \in DOMAIN tree /\ tree[path] = "file"
  BY Zenon DEF Selected
<1>3. \A path \in Meant(search, tree) :
         path \in DOMAIN tree /\ tree[path] = "file"
  BY Zenon DEF Meant
<1> QED
  BY <1>1, <1>2, <1>3

-----------------------------------------------------------------------------
(* The preamble: what the framing of one end is to the other.              *)

\* A sequence that follows another is what is left behind it.
LEMMA SplitConcat ==
    ASSUME NEW S, NEW s \in Seq(S), NEW t \in Seq(S)
    PROVE  /\ SubSeq(s \o t, 1, Len(s)) = s
           /\ SubSeq(s \o t, Len(s) + 1, Len(s) + Len(t)) = t
<1> DEFINE u == s \o t
           m == Len(s)
           n == Len(t)
<1>1. m \in Nat /\ n \in Nat
  BY LenProperties
<1>2. /\ u \in Seq(S) /\ Len(u) = m + n
      /\ \A i \in 1..(m + n) : u[i] = IF i <= m THEN s[i] ELSE t[i - m]
  BY ConcatProperties
<1>3. \A i \in 1..(m + n) : u[i] \in S
  BY <1>2, ElementOfSeq
<1> HIDE DEF u, m, n
<1>4. SubSeq(u, 1, m) = s
  <2>1. m \in Int /\ 1 \in Int /\ \A i \in 1..m : u[i] \in S
    BY <1>1, <1>3
  <2>2. /\ SubSeq(u, 1, m) \in Seq(S)
        /\ Len(SubSeq(u, 1, m)) = IF 1 <= m THEN m - 1 + 1 ELSE 0
        /\ \A i \in 1..(m - 1 + 1) : SubSeq(u, 1, m)[i] = u[1 + i - 1]
    BY <2>1, SubSeqProperties
  <2>3. Len(SubSeq(u, 1, m)) = m
    BY <1>1, <2>2
  <2>4. \A i \in 1..m : SubSeq(u, 1, m)[i] = s[i]
    BY <1>1, <1>2, <2>2
  <2>5. s \in Seq(S) /\ Len(s) = m
    BY DEF m
  <2> QED
    BY <2>2, <2>3, <2>4, <2>5, SeqEqual
<1>5. SubSeq(u, m + 1, m + n) = t
  <2> DEFINE lo == m + 1
             hi == m + n
             v  == SubSeq(u, lo, hi)
  <2>1. \A i \in lo..hi : i \in 1..(m + n)
    BY <1>1
  <2>2. lo \in Int /\ hi \in Int /\ \A i \in lo..hi : u[i] \in S
    BY <1>1, <1>3, <2>1
  <2>3. /\ hi - lo + 1 = n /\ (lo <= hi <=> n # 0)
        /\ \A i \in 1..n : /\ lo + i - 1 = m + i
                             /\ m + i \in 1..(m + n)
                             /\ ~(m + i <= m) /\ m + i - m = i
    BY <1>1
  <2> HIDE DEF lo, hi
  <2>4. /\ v \in Seq(S)
        /\ Len(v) = IF lo <= hi THEN hi - lo + 1 ELSE 0
        /\ \A i \in 1..(hi - lo + 1) : v[i] = u[lo + i - 1]
    BY <2>2, SubSeqProperties
  <2> HIDE DEF v
  <2>5. Len(v) = n
    BY <1>1, <2>3, <2>4
  <2>6. \A i \in 1..n : v[i] = t[i]
    <3> SUFFICES ASSUME NEW i \in 1..n
                 PROVE  v[i] = t[i]
      OBVIOUS
    <3>1. i \in 1..(hi - lo + 1)
      BY <2>3
    <3> DEFINE at == lo + i - 1
    <3>2. v[i] = u[at]
      BY <2>4, <3>1
    <3>3. at = m + i /\ at \in 1..(m + n) /\ ~(at <= m) /\ at - m = i
      <4>1. at = m + i
        BY <2>3
      <4>2. m + i \in 1..(m + n) /\ ~(m + i <= m) /\ m + i - m = i
        BY <2>3
      <4> HIDE DEF at
      <4> QED
        BY <1>1, <4>1, <4>2
    <3> HIDE DEF at
    <3>4. u[at] = IF at <= m THEN s[at] ELSE t[at - m]
      BY <1>2, <3>3
    <3> QED
      BY <3>2, <3>3, <3>4
  <2>7. t \in Seq(S) /\ Len(t) = n
    BY DEF n
  <2>8. v = t
    BY <2>4, <2>5, <2>6, <2>7, SeqEqual
  <2> QED
    BY <2>8 DEF v, lo, hi
<1> QED
  BY <1>4, <1>5 DEF u, m, n

\* A number and its last hex digit.
LEMMA HexDigits ==
    ASSUME NEW n \in Nat
    PROVE  /\ n \div 16 \in Nat
           /\ n % 16 \in 0..15
            /\ 16 * (n \div 16) + (n % 16) = n
<1>1. n \div 16 \in Nat
  BY SMT
<1>2. n % 16 \in 0..15
  BY SMT
<1>3. 16 * (n \div 16) + (n % 16) = n
  BY SMTT(60)
<1> QED
  BY <1>1, <1>2, <1>3

\* The four digits of a number.
Digit1(n) == n \div 4096
Digit2(n) == (n \div 256) % 16
Digit3(n) == (n \div 16) % 16
Digit4(n) == n % 16

\* They hold every number below 65536.
LEMMA FourDigits ==
    ASSUME NEW n \in Nat, n < 65536
    PROVE  /\ Digit1(n) \in 0..15 /\ Digit2(n) \in 0..15
           /\ Digit3(n) \in 0..15 /\ Digit4(n) \in 0..15
           /\ ((Digit1(n) * 16 + Digit2(n)) * 16 + Digit3(n)) * 16 + Digit4(n)
                 = n
<1> DEFINE a == n \div 16
           b == n \div 256
           c == Digit1(n)
           t == Digit2(n)
           s == Digit3(n)
           r == Digit4(n)
<1>1. b = a \div 16
  BY SMT
<1>2. c = b \div 16
  <2>1. n \div 4096 = (n \div 256) \div 16
    BY SMT
  <2> QED
    BY <2>1 DEF Digit1
<1>3. a \in Nat /\ r \in 0..15 /\ 16 * a + r = n
  BY HexDigits DEF Digit4
<1> HIDE DEF a, c, r
<1>4. b \in Nat /\ s \in 0..15 /\ 16 * b + s = a
  <2>1. /\ a \div 16 \in Nat /\ a % 16 \in 0..15
        /\ 16 * (a \div 16) + (a % 16) = a
    BY <1>3, HexDigits
  <2>2. s = a % 16
    BY DEF a, Digit3
  <2> QED
    BY <1>1, <2>1, <2>2
<1> HIDE DEF b, s
<1>5. c \in Nat /\ t \in 0..15 /\ 16 * c + t = b
  <2>1. /\ b \div 16 \in Nat /\ b % 16 \in 0..15
        /\ 16 * (b \div 16) + (b % 16) = b
    BY <1>4, HexDigits
  <2>2. t = b % 16
    BY DEF b, Digit2
  <2> QED
    BY <1>2, <2>1, <2>2
<1> HIDE DEF t
<1>6. c \in 0..15 /\ ((c * 16 + t) * 16 + s) * 16 + r = n
  BY <1>3, <1>4, <1>5
<1> QED
  BY <1>3, <1>4, <1>5, <1>6 DEF c, t, s, r

\* Bytes, and the symbols that stand for some.
\* A stream that begins with a pkt-line of `len` bytes.
BeginsWith(stream, len, payload, rest) ==
    /\ stream \in Seq(Bytes)
    /\ len \in Nat
    /\ Len(stream) = len + Len(rest)
    /\ ParseLength(SubSeq(stream, 1, 4)) = len
    /\ SubSeq(stream, 5, len) = payload
    /\ SubSeq(stream, len + 1, Len(stream)) = rest

\* A pkt-line whose length has four digits is read as it was written.
LEMMA FramedIsRead ==
    ASSUME NEW payload \in Seq(Bytes), NEW rest \in Seq(Bytes), NEW len,
           len = Len(payload) + 4, len < NoLength
    PROVE  BeginsWith(Framed(payload) \o rest, len, payload, rest)
<1> DEFINE c == Digit1(len)
           t == Digit2(len)
           s == Digit3(len)
           r == Digit4(len)
           header == <<c, t, s, r>>
           pkt    == header \o payload
           stream == pkt \o rest
<1>1. Len(payload) \in Nat /\ Len(rest) \in Nat
  BY LenProperties
<1>2. len \in Nat /\ len >= 4 /\ len < 65536
  BY <1>1 DEF NoLength
<1>3. Framed(payload) = pkt
  BY DEF Framed, Digit1, Digit2, Digit3, Digit4
<1>4. /\ c \in 0..15 /\ t \in 0..15 /\ s \in 0..15 /\ r \in 0..15
      /\ ((c * 16 + t) * 16 + s) * 16 + r = len
  BY <1>2, FourDigits
<1> HIDE DEF c, t, s, r
<1>5. header \in Seq(Bytes) /\ Len(header) = 4
  <2>1. c \in Bytes /\ t \in Bytes /\ s \in Bytes /\ r \in Bytes
    BY <1>4 DEF Bytes
  <2> QED
    BY <2>1
<1>6. ParseLength(header) = len
  <2>1. /\ c \in HexDigit /\ t \in HexDigit /\ s \in HexDigit /\ r \in HexDigit
        /\ c # Plus
    BY <1>4 DEF HexDigit, Plus
  <2>2. /\ header[1] = c /\ header[2] = t /\ header[3] = s /\ header[4] = r
    OBVIOUS
  <2>3. \A i \in 2..4 : i = 2 \/ i = 3 \/ i = 4
    OBVIOUS
  <2> HIDE DEF header
  <2>4. \A i \in 2..4 : header[i] \in HexDigit
    BY <2>1, <2>2, <2>3
  <2>5. t # Plus /\ s # Plus /\ r # Plus
    BY <1>4 DEF Plus
  <2>6. ParseLength(header)
          = ((header[1] * 16 + header[2]) * 16 + header[3]) * 16 + header[4]
    BY <2>1, <2>2, <2>4, <2>5 DEF ParseLength
  <2> QED
    BY <1>4, <2>2, <2>6
<1> HIDE DEF header
<1>7. /\ pkt \in Seq(Bytes) /\ Len(pkt) = len
      /\ SubSeq(pkt, 1, 4) = header /\ SubSeq(pkt, 5, len) = payload
  <2>1. pkt \in Seq(Bytes) /\ Len(pkt) = Len(header) + Len(payload)
    BY <1>5, ConcatProperties
  <2>2. /\ SubSeq(pkt, 1, Len(header)) = header
        /\ SubSeq(pkt, Len(header) + 1, Len(header) + Len(payload)) = payload
    BY <1>5, SplitConcat
  <2>3. Len(header) + 1 = 5 /\ Len(header) + Len(payload) = len
    BY <1>1, <1>5
  <2> HIDE DEF pkt
  <2> QED
    BY <1>5, <2>1, <2>2, <2>3
<1> HIDE DEF pkt
<1>8. /\ stream \in Seq(Bytes) /\ Len(stream) = len + Len(rest)
      /\ SubSeq(stream, len + 1, Len(stream)) = rest
  <2>1. stream \in Seq(Bytes) /\ Len(stream) = Len(pkt) + Len(rest)
    BY <1>7, ConcatProperties
  <2>2. SubSeq(stream, Len(pkt) + 1, Len(pkt) + Len(rest)) = rest
    BY <1>7, SplitConcat
  <2> HIDE DEF stream
  <2> QED
    BY <1>7, <2>1, <2>2
<1>9. SubSeq(stream, 1, 4) = header
  <2>1. 1 \in 1..Len(pkt) /\ 4 \in 1..Len(pkt)
    BY <1>2, <1>7
  <2>2. SubSeq(stream, 1, 4) = SubSeq(pkt, 1, 4)
    BY <1>7, <2>1, SubSeqOfConcat1
  <2> QED
    BY <1>7, <2>2
<1>10. SubSeq(stream, 5, len) = payload
  <2>1. CASE Len(payload) = 0
    <3>1. len < 5 /\ len \in Int /\ 5 \in Int
      BY <1>2, <2>1
    <3>2. payload = <<>>
      BY <2>1, EmptySeq
    <3> QED
      BY <3>1, <3>2, SubSeqEmpty
  <2>2. CASE Len(payload) # 0
    <3>1. 5 \in 1..Len(pkt) /\ len \in 1..Len(pkt)
      <4>1. len >= 5
        BY <1>1, <2>2
      <4> QED
        BY <1>2, <1>7, <4>1
    <3>2. SubSeq(stream, 5, len) = SubSeq(pkt, 5, len)
      BY <1>7, <3>1, SubSeqOfConcat1
    <3> QED
      BY <1>7, <3>2
  <2> QED
    BY <2>1, <2>2
<1>11. ParseLength(SubSeq(stream, 1, 4)) = len
  <2> HIDE DEF stream
  <2> QED
    BY <1>6, <1>9, Zenon
<1> HIDE DEF stream
<1>12. BeginsWith(stream, len, payload, rest)
  BY <1>2, <1>8, <1>10, <1>11 DEF BeginsWith
<1>13. Framed(payload) \o rest = stream
  BY <1>3 DEF stream
<1> QED
  BY <1>12, <1>13, Zenon

-----------------------------------------------------------------------------
(* The preamble: secrets.                                                  *)

\* What a resolved secret is: one that can be carried, without blanks.
Tokens ==
    {token \in Seq(Bytes) : /\ Len(token) \in 1..MaxTokenLen
                            /\ \A i \in 1..Len(token) : token[i] \notin Unprintable}

\* Cutting the ends of a sequence leaves a sequence.
LEMMA TrimIsSeq ==
    ASSUME NEW value \in Seq(Bytes)
    PROVE  Trim(value) \in Seq(Bytes)
<1> DEFINE kept  == {i \in DOMAIN value : value[i] \notin Whitespace}
           first == CHOOSE i \in kept : \A j \in kept : i <= j
           last  == CHOOSE i \in kept : \A j \in kept : j <= i
<1>1. Len(value) \in Nat /\ DOMAIN value = 1..Len(value)
  BY LenProperties
<1>2. CASE kept = {}
  BY <1>2, EmptySeq DEF Trim
<1>3. CASE kept # {}
  <2>1. kept \in SUBSET (1..Len(value)) /\ kept \in SUBSET Nat
    BY <1>1
  <2>2. first \in kept
    <3>1. \E i \in kept : \A j \in kept : i <= j
      <4> HIDE DEF kept
      <4> QED
        BY <1>3, <2>1, LeastOf
    <3> QED
      BY <3>1
  <2>3. last \in kept
    <3>1. \E i \in kept : \A j \in kept : j <= i
      <4> HIDE DEF kept
      <4>1. kept \in SUBSET (0..Len(value))
        BY <1>1, <2>1
      <4> QED
        BY <1>1, <1>3, <4>1, LargestOf
    <3> QED
      BY <3>1
  <2> HIDE DEF first, last
  <2>4. first \in 1..Len(value) /\ last \in 1..Len(value)
    BY <2>1, <2>2, <2>3
  <2>5. first \in Int /\ last \in Int /\ \A i \in first..last : value[i] \in Bytes
    <3>1. \A i \in first..last : i \in 1..Len(value)
      BY <1>1, <2>4
    <3> QED
      BY <2>4, <3>1, ElementOfSeq
  <2>6. SubSeq(value, first, last) \in Seq(Bytes)
    BY <2>5, SubSeqProperties
  <2>7. Trim(value) = SubSeq(value, first, last)
    BY <1>3 DEF Trim, first, last
  <2> QED
    BY <2>6, <2>7
<1> QED
  BY <1>2, <1>3

\* Token::new makes such a secret, or none.
LEMMA TokenIsCarried ==
    ASSUME NEW value \in Seq(Bytes), NewToken(value).is = "token"
    PROVE  /\ NewToken(value).value \in Tokens
           /\ NewToken(value) = Secret(NewToken(value).value)
<1> DEFINE token == Trim(value)
<1>1. token \in Seq(Bytes)
  BY TrimIsSeq
<1> HIDE DEF token
<1>2. Len(token) \in Nat /\ DOMAIN token = 1..Len(token)
  BY <1>1, LenProperties
<1>3. NewToken(value)
        = IF token = <<>> THEN AuthError("Empty")
          ELSE IF Len(token) > MaxTokenLen THEN AuthError("TooLong")
          ELSE IF \E i \in DOMAIN token : token[i] \in Unprintable
               THEN AuthError("NotPrintable")
          ELSE Secret(token)
  BY Zenon DEF NewToken, token
<1>4. \A why : AuthError(why).is # "token"
  BY DEF AuthError
<1>5. /\ token # <<>> /\ ~(Len(token) > MaxTokenLen)
      /\ ~\E i \in DOMAIN token : token[i] \in Unprintable
      /\ NewToken(value) = Secret(token)
  BY <1>3, <1>4, Zenon
<1>6. NewToken(value).value = token
  BY <1>5 DEF Secret
<1>7. Len(token) \in 1..MaxTokenLen
  <2>1. Len(token) # 0
    BY <1>1, <1>5, EmptySeq
  <2> QED
    BY <1>2, <1>5, <2>1, AuthAssumption
<1>8. token \in Tokens
  BY <1>1, <1>2, <1>5, <1>7 DEF Tokens
<1> QED
  BY <1>5, <1>6, <1>8, Zenon

\* What auth_pkt writes.
LEMMA PayloadOf ==
    ASSUME NEW token \in Tokens
    PROVE  LET payload == AuthPktPrefix \o token \o <<Newline>>
               body    == token \o <<Newline>>
           IN  /\ payload \in Seq(Bytes)
               /\ Len(payload) = Len(token) + 2
               /\ IsPrefix(AuthPktPrefix, payload)
               /\ SubSeq(payload, 2, Len(payload)) = body
               /\ body # <<>> /\ Last(body) = Newline /\ Front(body) = token
<1> DEFINE k       == Len(token)
           nl      == <<Newline>>
           prefix  == AuthPktPrefix
           body    == token \o nl
           payload == prefix \o token \o nl
<1>1. token \in Seq(Bytes) /\ k \in Nat
  BY LenProperties DEF Tokens
<1>2. /\ nl \in Seq(Bytes) /\ Len(nl) = 1 /\ nl[1] = Newline
      /\ prefix \in Seq(Bytes) /\ Len(prefix) = 1
  <2>1. Newline \in Bytes /\ 23 \in Bytes
    BY DEF Newline, Bytes
  <2> HIDE DEF nl, prefix
  <2>2. nl \in Seq(Bytes) /\ Len(nl) = 1 /\ nl[1] = Newline
    BY <2>1 DEF nl
  <2>3. prefix \in Seq(Bytes) /\ Len(prefix) = 1
    BY <2>1 DEF prefix, AuthPktPrefix
  <2> QED
    BY <2>2, <2>3
<1> HIDE DEF nl, prefix, k
<1>3. /\ body \in Seq(Bytes) /\ Len(body) = k + 1 /\ body[k + 1] = Newline
  <2>1. /\ body \in Seq(Bytes) /\ Len(body) = Len(token) + Len(nl)
        /\ \A i \in 1..(Len(token) + Len(nl)) :
              body[i] = IF i <= Len(token) THEN token[i]
                        ELSE nl[i - Len(token)]
    BY <1>1, <1>2, ConcatProperties
  <2> HIDE DEF body
  <2>2. \A i \in 1..(k + 1) : body[i] = IF i <= k THEN token[i] ELSE nl[i - k]
    BY <1>2, <2>1 DEF k
  <2> DEFINE at == k + 1
  <2>3. at \in 1..(k + 1) /\ ~(at <= k) /\ at - k = 1
    BY <1>1
  <2> HIDE DEF at
  <2>4. body[at] = IF at <= k THEN token[at] ELSE nl[at - k]
    BY <2>2, <2>3
  <2>5. body[at] = Newline
    BY <1>2, <2>3, <2>4
  <2> QED
    BY <1>2, <2>1, <2>5 DEF k, at
<1>4. SubSeq(body, 1, k) = token
  BY <1>1, <1>2, SplitConcat DEF k
<1>5. payload = prefix \o body
  BY <1>1, <1>2, ConcatAssociative
<1> HIDE DEF body
<1>6. /\ prefix \o body \in Seq(Bytes)
      /\ Len(prefix \o body) = Len(prefix) + Len(body)
  BY <1>2, <1>3, ConcatProperties
<1>7. /\ SubSeq(prefix \o body, 1, Len(prefix)) = prefix
      /\ SubSeq(prefix \o body, Len(prefix) + 1, Len(prefix) + Len(body)) = body
  BY <1>2, <1>3, SplitConcat
<1> HIDE DEF payload
<1>8. /\ payload \in Seq(Bytes) /\ Len(payload) = k + 2
      /\ SubSeq(payload, 1, 1) = prefix
      /\ SubSeq(payload, 2, Len(payload)) = body
  <2>1. Len(prefix) + Len(body) = k + 2 /\ Len(prefix) + 1 = 2
    BY <1>1, <1>2, <1>3
  <2> QED
    BY <1>2, <1>5, <1>6, <1>7, <2>1
<1>9. IsPrefix(prefix, payload)
  <2>1. Len(prefix) <= Len(payload)
    BY <1>1, <1>2, <1>8
  <2>2. SubSeq(prefix, 1, Len(prefix)) = prefix
    BY <1>2, SubSeqFull
  <2> QED
    BY <1>2, <1>8, <2>1, <2>2 DEF IsPrefix
<1>10. body # <<>> /\ Last(body) = Newline /\ Front(body) = token
  <2>1. body # <<>>
    BY <1>1, <1>3, EmptySeq
  <2>2. Len(body) - 1 = k
    BY <1>1, <1>3
  <2>3. Last(body) = Newline
    BY <1>3 DEF Last
  <2>4. Front(body) = token
    BY <1>4, <2>2 DEF Front
  <2> QED
    BY <2>1, <2>3, <2>4
<1>11. /\ payload \in Seq(Bytes) /\ Len(payload) = Len(token) + 2
       /\ IsPrefix(AuthPktPrefix, payload)
       /\ SubSeq(payload, 2, Len(payload)) = token \o <<Newline>>
       /\ token \o <<Newline>> # <<>> /\ Last(token \o <<Newline>>) = Newline
       /\ Front(token \o <<Newline>>) = token
  BY <1>8, <1>9, <1>10 DEF k, body, nl, prefix
<1> QED
  BY <1>11 DEF payload, nl, prefix

\* auth_pkt, read_auth_pkt: whatever two secrets the ends were given, the
\* server lets the client in exactly when they are the same after trimming,
\* and leaves exactly the bytes behind the preamble to receive-pack.
THEOREM SameSecret ==
    ASSUME NEW sent \in Seq(Bytes), NewToken(sent).is = "token",
           NEW kept \in Seq(Bytes), NewToken(kept).is = "token",
           NEW rest \in Seq(Bytes)
    PROVE  ReadAuthPkt(AuthPkt(NewToken(sent).value) \o rest,
                       NewToken(kept).value)
             = [outcome |-> IF NewToken(sent) = NewToken(kept) THEN "Ok"
                            ELSE "Mismatch",
                rest |-> rest]
<1> DEFINE token    == NewToken(sent).value
           expected == NewToken(kept).value
           payload  == AuthPktPrefix \o token \o <<Newline>>
           body     == token \o <<Newline>>
           len      == Len(payload) + 4
           stream   == Framed(payload) \o rest
<1>1. token \in Tokens /\ expected \in Tokens
  BY TokenIsCarried
<1>2. NewToken(sent) = NewToken(kept) <=> token = expected
  <2>1. /\ NewToken(sent) = Secret(token)
        /\ NewToken(kept) = Secret(expected)
    BY TokenIsCarried
  <2> HIDE DEF token, expected
  <2> QED
    BY <2>1 DEF Secret
<1>3. AuthPkt(token) \o rest = stream
  BY DEF AuthPkt
<1> HIDE DEF token, expected
<1>4. /\ payload \in Seq(Bytes)
      /\ Len(payload) = Len(token) + 2
      /\ IsPrefix(AuthPktPrefix, payload)
      /\ SubSeq(payload, 2, Len(payload)) = body
      /\ body # <<>> /\ Last(body) = Newline /\ Front(body) = token
  BY <1>1, PayloadOf
<1> HIDE DEF payload, body
<1>5. Len(token) \in 1..MaxTokenLen
  BY <1>1 DEF Tokens
<1>6. len \in Nat /\ len < NoLength /\ len >= 7 /\ len <= MaxTokenLen + 6
  <2>1. Len(payload) = Len(token) + 2
    BY <1>4
  <2> DEFINE k == Len(token)
             l == Len(payload)
  <2>2. l = k + 2 /\ k \in 1..MaxTokenLen
    BY <1>5, <2>1
  <2> HIDE DEF k, l
  <2>3. /\ l + 4 \in Nat /\ l + 4 < 65536 /\ l + 4 >= 7
        /\ l + 4 <= MaxTokenLen + 6
    BY <2>2, AuthAssumption
  <2> QED
    BY <2>3 DEF l, NoLength
<1>7. /\ stream \in Seq(Bytes)
      /\ Len(stream) = len + Len(rest)
      /\ ParseLength(SubSeq(stream, 1, 4)) = len
      /\ SubSeq(stream, 5, len) = payload
      /\ SubSeq(stream, len + 1, Len(stream)) = rest
  <2>1. BeginsWith(stream, len, payload, rest)
    <3>1. len = Len(payload) + 4 /\ stream = Framed(payload) \o rest
      OBVIOUS
    <3> HIDE DEF len, stream
    <3>2. payload \in Seq(Bytes) /\ len < NoLength
      BY <1>4, <1>6
    <3>3. BeginsWith(Framed(payload) \o rest, len, payload, rest)
      BY <3>1, <3>2, FramedIsRead
    <3> QED
      BY <3>1, <3>3, Zenon
  <2> HIDE DEF len, stream
  <2> QED
    BY <2>1 DEF BeginsWith
<1>8. Len(rest) \in Nat
  BY LenProperties
<1> HIDE DEF len, stream
<1>9. /\ ~(Len(stream) < 4) /\ ~(Len(stream) < len) /\ len # NoLength
  BY <1>6, <1>7, <1>8 DEF NoLength
<1>10. AuthPktFits(len)
  <2>1. Len(AuthPktPrefix) = 1
    BY DEF AuthPktPrefix
  <2> QED
    BY <1>6, <2>1, AuthAssumption DEF AuthPktFits
<1>11. SubSeq(payload, Len(AuthPktPrefix) + 1, Len(payload)) = body
  <2>1. Len(AuthPktPrefix) + 1 = 2
    BY DEF AuthPktPrefix
  <2> QED
    BY <1>4, <2>1
<1>12. ReadAuthPkt(stream, expected)
         = [outcome |-> IF token = expected THEN "Ok" ELSE "Mismatch",
            rest |-> rest]
  BY <1>4, <1>7, <1>9, <1>10, <1>11 DEF ReadAuthPkt
<1> QED
  BY <1>2, <1>3, <1>12 DEF token, expected

\* read_auth_pkt: whatever arrives, and however it is framed, the server lets
\* nobody in whose bytes do not carry the prefix and its whole secret behind
\* the length, and receive-pack is never given a byte of the secret.
THEOREM NoSecretNoEntry ==
    ASSUME NEW stream \in Seq(Bytes), NEW expected \in Tokens,
           ReadAuthPkt(stream, expected).outcome = "Ok"
    PROVE  \E used \in (5 + Len(expected))..Len(stream) :
              /\ stream[5] = AuthPktPrefix[1]
              /\ \A i \in 1..Len(expected) : stream[5 + i] = expected[i]
              /\ ReadAuthPkt(stream, expected).rest
                    = SubSeq(stream, used + 1, Len(stream))
<1> DEFINE n       == Len(stream)
           e       == Len(expected)
           len     == ParseLength(SubSeq(stream, 1, 4))
           payload == SubSeq(stream, 5, len)
           body    == SubSeq(payload, Len(AuthPktPrefix) + 1, Len(payload))
           presented == IF body # <<>> /\ Last(body) = Newline
                        THEN Front(body) ELSE body
<1>1. n \in Nat /\ e \in Nat /\ expected \in Seq(Bytes) /\ e >= 1
  BY LenProperties DEF Tokens
<1>2. /\ AuthPktFits(len) /\ ~(n < len)
      /\ IsPrefix(AuthPktPrefix, payload)
      /\ presented = expected
      /\ ReadAuthPkt(stream, expected).rest = SubSeq(stream, len + 1, n)
  <2> DEFINE Left(outcome, used) ==
                [outcome |-> outcome, rest |-> SubSeq(stream, used + 1, n)]
  <2>1. ReadAuthPkt(stream, expected)
          = IF n < 4 THEN Left("Absent", n)
            ELSE IF len = NoLength \/ ~AuthPktFits(len)
                 THEN Left("Malformed", 4)
            ELSE IF n < len THEN Left("Malformed", n)
            ELSE IF ~IsPrefix(AuthPktPrefix, payload)
                 THEN Left("Malformed", len)
            ELSE IF presented = expected THEN Left("Ok", len)
            ELSE Left("Mismatch", len)
    BY DEF ReadAuthPkt
  <2>2. \A outcome, used : Left(outcome, used).outcome = outcome
    OBVIOUS
  <2>3. \A used : Left("Ok", used).rest = SubSeq(stream, used + 1, n)
    OBVIOUS
  <2>4. "Absent" # "Ok" /\ "Malformed" # "Ok" /\ "Mismatch" # "Ok"
    OBVIOUS
  <2> HIDE DEF Left, n, len, payload, presented
  <2>5. /\ ~(len = NoLength \/ ~AuthPktFits(len)) /\ ~(n < len)
        /\ ~~IsPrefix(AuthPktPrefix, payload)
        /\ presented = expected
        /\ ReadAuthPkt(stream, expected) = Left("Ok", len)
    BY <2>1, <2>2, <2>4, Zenon
  <2>6. ReadAuthPkt(stream, expected).rest = SubSeq(stream, len + 1, n)
    BY <2>3, <2>5
  <2> QED
    BY <2>5, <2>6
<1> HIDE DEF len
<1>3. len \in Nat /\ len >= 5 /\ len <= n
  <2>1. Len(AuthPktPrefix) = 1
    BY DEF AuthPktPrefix
  <2>2. len \in 5..(1 + MaxTokenLen + 6)
    BY <1>2, <2>1 DEF AuthPktFits
  <2> QED
    BY <1>1, <1>2, <2>2, AuthAssumption
<1> HIDE DEF n, e
<1>4. /\ payload \in Seq(Bytes) /\ Len(payload) = len - 4
      /\ \A i \in 1..(len - 4) : payload[i] = stream[4 + i]
  <2>1. \A i \in 5..len : stream[i] \in Bytes
    <3>1. \A i \in 5..len : i \in 1..Len(stream)
      BY <1>1, <1>3 DEF n
    <3> QED
      BY <3>1, ElementOfSeq
  <2>2. /\ payload \in Seq(Bytes)
        /\ Len(payload) = IF 5 <= len THEN len - 5 + 1 ELSE 0
        /\ \A i \in 1..(len - 5 + 1) : payload[i] = stream[5 + i - 1]
    BY <1>3, <2>1, SubSeqProperties
  <2> HIDE DEF payload
  <2>3. len - 5 + 1 = len - 4 /\ \A i \in 1..(len - 4) : 5 + i - 1 = 4 + i
    BY <1>3
  <2>4. Len(payload) = len - 4
    BY <1>3, <2>2
  <2>5. \A i \in 1..(len - 4) : payload[i] = stream[4 + i]
    BY <2>2, <2>3
  <2> QED
    BY <2>2, <2>4, <2>5
<1> HIDE DEF payload
<1>5. stream[5] = AuthPktPrefix[1]
  <2>1. Len(AuthPktPrefix) = 1 /\ AuthPktPrefix \in Seq(Bytes)
    BY DEF AuthPktPrefix, Bytes
  <2>2. SubSeq(AuthPktPrefix, 1, 1) = SubSeq(payload, 1, 1)
    BY <1>2, <2>1 DEF IsPrefix
  <2>3. 1 \in 0..Len(AuthPktPrefix) /\ 1 \in 0..Len(payload)
    BY <1>3, <1>4, <2>1
  <2>4. SubSeq(AuthPktPrefix, 1, 1)[1] = AuthPktPrefix[1]
    BY <2>1, <2>3, PathBegins
  <2>5. SubSeq(payload, 1, 1)[1] = payload[1]
    BY <1>4, <2>3, PathBegins
  <2>6. payload[1] = stream[4 + 1]
    BY <1>3, <1>4
  <2> QED
    BY <2>2, <2>4, <2>5, <2>6
<1>6. /\ body \in Seq(Bytes) /\ Len(body) = len - 5
      /\ \A i \in 1..(len - 5) : body[i] = stream[5 + i]
  <2> DEFINE m == Len(payload)
  <2>1. Len(AuthPktPrefix) + 1 = 2
    BY DEF AuthPktPrefix
  <2>2. m = len - 4 /\ m \in Int
    BY <1>3, <1>4
  <2>3. \A i \in 2..m : payload[i] \in Bytes
    <3>1. \A i \in 2..m : i \in 1..Len(payload)
      BY <2>2
    <3> QED
      BY <1>4, <3>1, ElementOfSeq
  <2>4. body = SubSeq(payload, 2, m)
    BY <2>1
  <2> HIDE DEF body, m
  <2>5. /\ SubSeq(payload, 2, m) \in Seq(Bytes)
        /\ Len(SubSeq(payload, 2, m)) = IF 2 <= m THEN m - 2 + 1 ELSE 0
        /\ \A i \in 1..(m - 2 + 1) : SubSeq(payload, 2, m)[i] = payload[2 + i - 1]
    BY <2>2, <2>3, SubSeqProperties
  <2>6. Len(body) = len - 5
    BY <1>3, <2>2, <2>4, <2>5
  <2>7. ASSUME NEW i \in 1..(len - 5)
        PROVE  body[i] = stream[5 + i]
    <3> DEFINE at == 2 + i - 1
    <3>1. i \in 1..(m - 2 + 1)
      BY <1>3, <2>2
    <3>2. body[i] = payload[at]
      BY <2>4, <2>5, <3>1
    <3>3. at \in 1..(len - 4) /\ 4 + at = 5 + i
      BY <1>3
    <3> HIDE DEF at
    <3>4. payload[at] = stream[4 + at]
      BY <1>4, <3>3
    <3> QED
      BY <3>2, <3>3, <3>4
  <2> QED
    BY <2>4, <2>5, <2>6, <2>7
<1> HIDE DEF body
<1>7. /\ e <= len - 5
      /\ \A i \in 1..e : expected[i] = body[i]
  <2>1. CASE body # <<>> /\ Last(body) = Newline
    <3>1. /\ expected = SubSeq(body, 1, Len(body) - 1)
          /\ Len(body) - 1 \in 0..Len(body)
      <4>1. Front(body) = SubSeq(body, 1, Len(body) - 1)
        BY DEF Front
      <4>2. Len(body) \in Nat \ {0}
        BY <1>6, <2>1, EmptySeq
      <4>3. Len(body) - 1 \in 0..Len(body)
        BY <4>2
      <4> QED
        BY <1>2, <2>1, <4>1, <4>3
    <3> DEFINE k == Len(body) - 1
    <3>2. k \in 0..Len(body) /\ expected = SubSeq(body, 1, k)
      BY <3>1
    <3>3. k <= len - 5
      BY <1>3, <1>6
    <3> HIDE DEF k
    <3>4. Len(expected) = k /\ \A i \in 1..k : expected[i] = body[i]
      BY <1>6, <3>2, PathBegins
    <3> QED
      BY <3>3, <3>4 DEF e
  <2>2. CASE ~(body # <<>> /\ Last(body) = Newline)
    <3>1. expected = body
      BY <1>2, <2>2
    <3> QED
      BY <1>3, <1>6, <3>1 DEF e
  <2> QED
    BY <2>1, <2>2
<1>8. \A i \in 1..e : stream[5 + i] = expected[i]
  <2>1. \A i \in 1..e : i \in 1..(len - 5)
    BY <1>1, <1>3, <1>7
  <2> QED
    BY <1>6, <1>7, <2>1
<1>9. len \in (5 + e)..n
  BY <1>1, <1>3, <1>7
<1> QED
  BY <1>2, <1>5, <1>8, <1>9 DEF n, e

-----------------------------------------------------------------------------
(* The curated advertisement.                                              *)

\* The sequence that lists a finite set has its elements.
LEMMA ListOfSet ==
    ASSUME NEW S, IsFiniteSet(S)
    PROVE  SetToSeq(S) \in Seq(S) /\ ToSet(SetToSeq(S)) = S
<1> DEFINE n == Cardinality(S)
           f == SetToSeq(S)
<1>1. n \in Nat /\ ExistsBijection(1..n, S)
  BY FS_CardinalityType
<1>2. f \in [1..n -> S] /\ IsInjective(f)
  <2>1. \E g \in [1..n -> S] : IsInjective(g)
    BY <1>1 DEF ExistsBijection, Bijection, Injection
  <2> QED
    BY <2>1 DEF SetToSeq
<1> HIDE DEF f
<1>3. f \in Surjection(1..n, S)
  <2>1. IsFiniteSet(1..n) /\ Cardinality(1..n) = n
    <3>1. 1 \in Int /\ n \in Int
      BY <1>1
    <3>2. /\ IsFiniteSet(1..n)
          /\ Cardinality(1..n) = IF 1 > n THEN 0 ELSE n - 1 + 1
      BY <3>1, FS_Interval
    <3> QED
      BY <1>1, <3>2
  <2>2. f \in Injection(1..n, S)
    BY <1>2 DEF Injection
  <2> QED
    BY <2>1, <2>2, FS_Injection
<1>4. ToSet(f) = S
  BY <1>2, <1>3 DEF ToSet, Surjection
<1>5. f \in Seq(S)
  BY <1>1, <1>2 DEF n
<1> QED
  BY <1>4, <1>5 DEF f

\* There is at most one anchor for each remote.
LEMMA AnchorsAreFew ==
    ASSUME NEW repo, IsFiniteSet(repo.remotes)
    PROVE  /\ IsFiniteSet(Anchors(repo))
           /\ Cardinality(Anchors(repo)) <= Cardinality(repo.remotes)
<1> DEFINE R == repo.remotes
           A == {RemoteAnchor(repo, remote) : remote \in R}
           f == [remote \in R |-> RemoteAnchor(repo, remote)]
<1>1. f \in Surjection(R, A)
  <2>1. f \in [R -> A] /\ \A a \in A : \E remote \in R : f[remote] = a
    OBVIOUS
  <2> QED
    BY <2>1 DEF Surjection
<1> HIDE DEF A, f
<1>2. IsFiniteSet(A) /\ Cardinality(A) <= Cardinality(R)
  BY <1>1, FS_Surjection
<1>3. Anchors(repo) \in SUBSET A
  BY DEF Anchors, A
<1>4. /\ IsFiniteSet(Anchors(repo))
      /\ Cardinality(Anchors(repo)) <= Cardinality(A)
  BY <1>2, <1>3, FS_Subset
<1>5. /\ Cardinality(R) \in Nat /\ Cardinality(A) \in Nat
      /\ Cardinality(Anchors(repo)) \in Nat
  BY <1>2, <1>4, FS_CardinalityType
<1> QED
  BY <1>2, <1>4, <1>5

\* hide_refs_values, as git reads them after the repository's own: a ref is
\* hidden unless one of the patterns that are shown again begins its name.
LEMMA HiddenUnlessShown ==
    ASSUME NEW own, NEW hidden \in Seq(own), NEW S, NEW shown \in Seq(S),
           NEW name, IsPrefix(<<"refs">>, name)
    PROVE  IsHidden(name,
                    hidden \o (<<Hide(<<"refs">>)>>
                                 \o [i \in DOMAIN shown |-> Unhide(shown[i])]))
             <=> \A p \in ToSet(shown) : ~IsPrefix(p, name)
<1> DEFINE k      == Len(hidden)
           m      == Len(shown)
           all    == <<Hide(<<"refs">>)>>
           again  == [i \in DOMAIN shown |-> Unhide(shown[i])]
           U      == own \cup {Hide(<<"refs">>)} \cup {Unhide(p) : p \in S}
           derived == all \o again
           values == hidden \o derived
           hits   == {i \in DOMAIN values : IsPrefix(values[i].prefix, name)}
<1>1. k \in Nat /\ m \in Nat /\ DOMAIN shown = 1..m
  BY LenProperties
<1>2. /\ hidden \in Seq(U) /\ all \in Seq(U) /\ Len(all) = 1
      /\ all[1] = Hide(<<"refs">>)
  <2>1. own \subseteq U /\ Hide(<<"refs">>) \in U
    OBVIOUS
  <2> HIDE DEF U
  <2>2. hidden \in Seq(U)
    BY <2>1, SeqMonotonic
  <2> DEFINE h == Hide(<<"refs">>)
  <2> HIDE DEF h
  <2>3. <<h>> \in Seq(U) /\ Len(<<h>>) = 1 /\ <<h>>[1] = h
    BY <2>1 DEF h
  <2> QED
    BY <2>2, <2>3 DEF h
<1>3. /\ again \in Seq(U) /\ Len(again) = m
      /\ \A i \in 1..m : again[i] = Unhide(shown[i])
  <2>1. \A i \in 1..m : shown[i] \in S
    BY ElementOfSeq
  <2>2. \A i \in 1..m : Unhide(shown[i]) \in U
    BY <2>1
  <2> HIDE DEF U, m
  <2>3. again \in [1..m -> U]
    BY <1>1, <2>2
  <2>4. again \in Seq(U) /\ Len(again) = m
    <3> HIDE DEF again
    <3> QED
      BY <1>1, <2>3
  <2> QED
    BY <1>1, <2>4
<1> HIDE DEF U, all, again, k, m
<1>4. /\ derived \in Seq(U) /\ Len(derived) = 1 + m
      /\ \A i \in 1..(1 + m) :
            derived[i] = IF i <= 1 THEN all[i] ELSE again[i - 1]
  <2>1. /\ derived \in Seq(U) /\ Len(derived) = Len(all) + Len(again)
        /\ \A i \in 1..(Len(all) + Len(again)) :
              derived[i] = IF i <= Len(all) THEN all[i]
                           ELSE again[i - Len(all)]
    BY <1>2, <1>3, ConcatProperties
  <2> HIDE DEF derived
  <2> QED
    BY <1>2, <1>3, <2>1
<1> HIDE DEF derived
<1>5. /\ values \in Seq(U) /\ Len(values) = k + (1 + m)
      /\ \A i \in 1..(k + (1 + m)) :
            values[i] = IF i <= k THEN hidden[i] ELSE derived[i - k]
  <2>1. /\ values \in Seq(U) /\ Len(values) = Len(hidden) + Len(derived)
        /\ \A i \in 1..(Len(hidden) + Len(derived)) :
              values[i] = IF i <= Len(hidden) THEN hidden[i]
                          ELSE derived[i - Len(hidden)]
    BY <1>2, <1>4, ConcatProperties
  <2> HIDE DEF values
  <2> QED
    BY <1>4, <2>1 DEF k
<1>6. DOMAIN values = 1..(k + (1 + m))
  BY <1>5, LenProperties
<1> HIDE DEF values
<1> DEFINE at == k + 1
<1>7. at \in DOMAIN values /\ values[at] = Hide(<<"refs">>)
  <2>1. at \in 1..(k + (1 + m)) /\ ~(at <= k) /\ at - k = 1
    BY <1>1
  <2>2. 1 \in 1..(1 + m) /\ 1 <= 1
    BY <1>1
  <2> HIDE DEF at
  <2>3. values[at] = derived[1]
    BY <1>5, <2>1
  <2>4. derived[1] = all[1]
    BY <1>4, <2>2
  <2> QED
    BY <1>2, <1>6, <2>1, <2>3, <2>4
<1>8. ASSUME NEW i \in 1..m
      PROVE  /\ at + i \in DOMAIN values
             /\ values[at + i] = Unhide(shown[i])
  <2> DEFINE v == at + i
             d == i + 1
  <2>1. v \in 1..(k + (1 + m)) /\ ~(v <= k) /\ v - k = d
    BY <1>1
  <2>2. d \in 1..(1 + m) /\ ~(d <= 1) /\ d - 1 = i
    BY <1>1
  <2> HIDE DEF v, d
  <2>3. values[v] = derived[d]
    BY <1>5, <2>1
  <2>4. derived[d] = again[i]
    BY <1>4, <2>2
  <2>5. v \in DOMAIN values /\ values[v] = Unhide(shown[i])
    BY <1>3, <1>6, <2>1, <2>3, <2>4
  <2> QED
    BY <2>5 DEF v
<1>9. \A i \in DOMAIN values : i > at => \E j \in 1..m : i = at + j
  <2> SUFFICES ASSUME NEW i \in DOMAIN values, i > at
               PROVE  \E j \in 1..m : i = at + j
    OBVIOUS
  <2>1. i \in 1..(k + (1 + m))
    BY <1>6
  <2>2. i - at \in 1..m /\ i = at + (i - at)
    BY <1>1, <2>1
  <2> QED
    BY <2>2
<1>10. at \in Nat
  BY <1>1
<1> HIDE DEF at
<1>11. at \in hits /\ ~values[at].neg
  <2>1. values[at].prefix = <<"refs">> /\ values[at].neg = FALSE
    BY <1>7 DEF Hide
  <2> QED
    BY <1>7, <2>1
<1>12. \A i \in 1..m : /\ values[at + i].neg
                       /\ at + i \in hits <=> IsPrefix(shown[i], name)
  <2> SUFFICES ASSUME NEW i \in 1..m
               PROVE  /\ values[at + i].neg
                      /\ at + i \in hits <=> IsPrefix(shown[i], name)
    OBVIOUS
  <2> DEFINE v == values[at + i]
  <2>1. at + i \in DOMAIN values /\ v = Unhide(shown[i])
    BY <1>8
  <2>2. v.prefix = shown[i] /\ v.neg = TRUE
    <3> HIDE DEF v
    <3> QED
      BY <2>1 DEF Unhide
  <2> QED
    BY <2>1, <2>2
<1>13. Max(hits) \in hits /\ \A i \in hits : i <= Max(hits)
  <2>1. hits \in SUBSET (1..(k + (1 + m))) /\ hits # {} /\ k + (1 + m) \in Nat
    BY <1>1, <1>6, <1>11
  <2> HIDE DEF hits
  <2>2. PICK l \in hits : \A i \in hits : i <= l
    <3> DEFINE top == k + (1 + m)
    <3>1. hits \in SUBSET (0..top) /\ hits # {} /\ top \in Nat
      BY <2>1
    <3> HIDE DEF top
    <3> QED
      BY <3>1, LargestOf
  <2>3. \A i \in hits : i \in Nat
    BY <2>1
  <2>4. l \in hits /\ \A i \in hits : l >= i
    BY <2>2, <2>3
  <2>5. Max(hits) \in hits /\ \A i \in hits : Max(hits) >= i
    BY <2>4 DEF Max
  <2> QED
    BY <2>3, <2>5
<1>14. IsHidden(name, values) <=> ~values[Max(hits)].neg
  BY <1>11, Zenon DEF IsHidden
<1>15. \A p : p \in ToSet(shown) <=> \E i \in 1..m : p = shown[i]
  BY <1>1 DEF ToSet
<1>16. CASE \A p \in ToSet(shown) : ~IsPrefix(p, name)
  <2>1. Max(hits) = at
    <3> SUFFICES ASSUME Max(hits) # at
                 PROVE  FALSE
      OBVIOUS
    <3>1. Max(hits) \in DOMAIN values
      BY <1>13
    <3>2. Max(hits) > at
      <4>1. Max(hits) \in Nat /\ at <= Max(hits)
        BY <1>1, <1>6, <1>11, <1>13, <3>1
      <4> QED
        BY <1>10, <4>1
    <3>3. PICK j \in 1..m : Max(hits) = at + j
      BY <1>9, <3>1, <3>2
    <3>4. IsPrefix(shown[j], name)
      BY <1>12, <1>13, <3>3
    <3> QED
      BY <1>15, <1>16, <3>4
  <2>2. IsHidden(name, values)
    BY <1>11, <1>14, <2>1
  <2> QED
    BY <1>16, <2>2 DEF values, derived, all, again
<1>17. CASE ~\A p \in ToSet(shown) : ~IsPrefix(p, name)
  <2>1. PICK i \in 1..m : IsPrefix(shown[i], name)
    BY <1>15, <1>17
  <2>2. at + i \in hits /\ at + i <= Max(hits)
    BY <1>12, <1>13, <2>1
  <2>3. Max(hits) \in DOMAIN values /\ Max(hits) \in Nat
    BY <1>1, <1>6, <1>13
  <2>4. Max(hits) > at
    BY <1>10, <2>2, <2>3
  <2>5. PICK j \in 1..m : Max(hits) = at + j
    BY <1>9, <2>3, <2>4
  <2>6. values[Max(hits)].neg
    BY <1>12, <2>5
  <2>7. ~IsHidden(name, values)
    BY <1>14, <2>6
  <2> QED
    BY <1>17, <2>7 DEF values, derived, all, again
<1> QED
  BY <1>16, <1>17

\* advertised_refs, hide_refs_values: whatever a repository hides or shows by
\* its own configuration, what receive-pack advertises on a curated connection
\* is exactly what lies at or below the namespace, the heads, the anchor of a
\* remote or a pattern of the operator; and anchors are no more than remotes.
THEOREM CuratedIsExact ==
    ASSUME NEW own, NEW repo, repo.hidden \in Seq(own),
           IsFiniteSet(repo.remotes),
           \A name \in DOMAIN repo.refs : IsPrefix(<<"refs">>, name),
           NEW patterns, NEW extra \in Seq(patterns)
    PROVE  /\ Visible(repo, TRUE, extra)
                = {name \in DOMAIN repo.refs :
                      \E p \in {Namespace, Heads} \cup Anchors(repo)
                                  \cup ToSet(extra) : IsPrefix(p, name)}
           /\ Cardinality(Anchors(repo)) <= Cardinality(repo.remotes)
<1> DEFINE A     == AdvertisedRefs(repo)
           list  == SetToSeq(A)
           shown == list \o extra
           S     == A \cup patterns
<1>1. /\ IsFiniteSet(Anchors(repo))
      /\ Cardinality(Anchors(repo)) <= Cardinality(repo.remotes)
  BY AnchorsAreFew
<1>2. IsFiniteSet(A)
  <2>1. IsFiniteSet(Anchors(repo) \cup {Namespace})
    BY <1>1, FS_AddElement
  <2>2. IsFiniteSet((Anchors(repo) \cup {Namespace}) \cup {Heads})
    BY <2>1, FS_AddElement
  <2>3. A = (Anchors(repo) \cup {Namespace}) \cup {Heads}
    BY DEF AdvertisedRefs
  <2> QED
    BY <2>2, <2>3
<1> HIDE DEF A
<1>3. list \in Seq(A) /\ ToSet(list) = A
  BY <1>2, ListOfSet
<1> HIDE DEF list
<1>4. list \in Seq(S) /\ extra \in Seq(S)
  <2>1. A \subseteq S /\ patterns \subseteq S
    OBVIOUS
  <2> HIDE DEF S
  <2> QED
    BY <1>3, <2>1, SeqMonotonic
<1> HIDE DEF S
<1>5. shown \in Seq(S) /\ ToSet(shown) = A \cup ToSet(extra)
  <2> DEFINE l == Len(list)
             e == Len(extra)
  <2>1. /\ shown \in Seq(S) /\ Len(shown) = l + e
        /\ \A i \in 1..(l + e) :
              shown[i] = IF i <= l THEN list[i] ELSE extra[i - l]
    BY <1>4, ConcatProperties
  <2>2. /\ l \in Nat /\ e \in Nat /\ DOMAIN list = 1..l /\ DOMAIN extra = 1..e
    BY <1>4, LenProperties
  <2>3. DOMAIN shown = 1..(l + e)
    BY <2>1, LenProperties
  <2> HIDE DEF shown, l, e
  <2>4. ASSUME NEW p \in ToSet(shown)
        PROVE  p \in A \cup ToSet(extra)
    <3>1. PICK i \in 1..(l + e) : p = shown[i]
      BY <2>3 DEF ToSet
    <3>2. CASE i <= l
      <4>1. i \in DOMAIN list /\ p = list[i]
        BY <2>1, <2>2, <3>1, <3>2
      <4> QED
        BY <1>3, <4>1 DEF ToSet
    <3>3. CASE ~(i <= l)
      <4>1. i - l \in DOMAIN extra /\ p = extra[i - l]
        BY <2>1, <2>2, <3>1, <3>3
      <4> QED
        BY <4>1 DEF ToSet
    <3> QED
      BY <3>2, <3>3
  <2>5. ASSUME NEW p \in A
        PROVE  p \in ToSet(shown)
    <3>1. PICK i \in 1..l : p = list[i]
      BY <1>3, <2>2 DEF ToSet
    <3>2. i \in 1..(l + e) /\ i <= l
      BY <2>2
    <3> QED
      BY <2>1, <2>3, <3>1, <3>2 DEF ToSet
  <2>6. ASSUME NEW p \in ToSet(extra)
        PROVE  p \in ToSet(shown)
    <3>1. PICK i \in 1..e : p = extra[i]
      BY <2>2 DEF ToSet
    <3> DEFINE at == l + i
    <3>2. at \in 1..(l + e) /\ ~(at <= l) /\ at - l = i
      BY <2>2
    <3> HIDE DEF at
    <3>3. shown[at] = extra[i]
      BY <2>1, <3>2
    <3> QED
      BY <2>3, <3>1, <3>2, <3>3 DEF ToSet
  <2> QED
    BY <2>1, <2>4, <2>5, <2>6 DEF shown
<1>6. ASSUME NEW name \in DOMAIN repo.refs
      PROVE  name \in Visible(repo, TRUE, extra)
               <=> \E p \in A \cup ToSet(extra) : IsPrefix(p, name)
  <2> DEFINE values == repo.hidden \o HideRefsValues(repo, extra)
  <2>1. name \in Visible(repo, TRUE, extra) <=> ~IsHidden(name, values)
    BY DEF Visible
  <2>2. values = repo.hidden \o (<<Hide(<<"refs">>)>>
                    \o [i \in DOMAIN shown |-> Unhide(shown[i])])
    BY DEF HideRefsValues, list, A
  <2> HIDE DEF shown, values
  <2>3. IsPrefix(<<"refs">>, name)
    OBVIOUS
  <2>4. IsHidden(name, values)
           <=> \A p \in ToSet(shown) : ~IsPrefix(p, name)
    BY <1>5, <2>2, <2>3, HiddenUnlessShown
  <2> QED
    BY <1>5, <2>1, <2>4
<1>7. \A name \in Visible(repo, TRUE, extra) : name \in DOMAIN repo.refs
  BY DEF Visible
<1>8. A = {Namespace, Heads} \cup Anchors(repo)
  BY DEF A, AdvertisedRefs
<1> QED
  BY <1>1, <1>6, <1>7, <1>8

-----------------------------------------------------------------------------
(* Recursive functions.  Each is a function that takes its steps, chosen   *)
(* among those that do, so what a step says can be used once there is one. *)

\* Steps counted up from a start.
StepsUp(f, S, start, n, step) ==
    /\ f \in [0..n -> S]
    /\ f[0] = start
    /\ \A k \in 1..n : f[k] = step[<<k, f[k - 1]>>]

LEMMA Iteration ==
    ASSUME NEW S, NEW start \in S, NEW n \in Nat,
           NEW step \in [(1..n) \X S -> S]
    PROVE  \E f : StepsUp(f, S, start, n, step)
<1> DEFINE Steps(f, m) ==
               /\ f[0] = start
               /\ \A k \in 1..m : f[k] = step[<<k, f[k - 1]>>]
           Bad == {m \in 0..n : ~ \E f \in [0..n -> S] : Steps(f, m)}
<1>1. SUFFICES ASSUME Bad # {}
               PROVE  FALSE
  <2>1. n \in 0..n
    OBVIOUS
  <2>2. \E f \in [0..n -> S] : Steps(f, n)
    BY <1>1, <2>1
  <2> QED
    BY <2>2 DEF StepsUp
<1>2. PICK m \in Bad : \A k \in Bad : m <= k
  <2>1. Bad \in SUBSET Nat
    OBVIOUS
  <2> HIDE DEF Bad
  <2> QED
    BY <1>1, <2>1, LeastOf
<1>3. m \in 0..n /\ ~ \E f \in [0..n -> S] : Steps(f, m)
  BY <1>2
<1>4. m # 0
  <2>1. Steps([i \in 0..n |-> start], 0)
    OBVIOUS
  <2>2. [i \in 0..n |-> start] \in [0..n -> S]
    OBVIOUS
  <2> QED
    BY <1>3, <2>1, <2>2
<1>5. PICK f \in [0..n -> S] : Steps(f, m - 1)
  <2>1. m - 1 \in 0..n /\ m - 1 \notin Bad
    <3>1. m - 1 \in 0..n /\ ~(m <= m - 1)
      BY <1>3, <1>4
    <3> HIDE DEF Bad
    <3> QED
      BY <1>2, <3>1
  <2> QED
    BY <2>1
<1> DEFINE g == [f EXCEPT ![m] = step[<<m, f[m - 1]>>]]
<1>6. step[<<m, f[m - 1]>>] \in S
  <2>1. m \in 1..n /\ m - 1 \in 0..n
    BY <1>3, <1>4
  <2> QED
    BY <2>1
<1>7. g \in [0..n -> S]
  BY <1>6
<1>8. Steps(g, m)
  <2>1. \A k \in 0..n : g[k] = IF k = m THEN step[<<m, f[m - 1]>>] ELSE f[k]
    OBVIOUS
  <2>2. m \in 1..n
    BY <1>3, <1>4
  <2> HIDE DEF g
  <2>3. g[0] = start
    BY <1>5, <2>1, <2>2
  <2>4. ASSUME NEW k \in 1..m
        PROVE  g[k] = step[<<k, g[k - 1]>>]
    <3>1. k \in 0..n /\ k - 1 \in 0..n /\ k - 1 # m
      BY <2>2
    <3>2. g[k - 1] = f[k - 1]
      BY <2>1, <3>1
    <3>3. k # m => k \in 1..(m - 1)
      BY <2>2
    <3> QED
      BY <1>5, <2>1, <3>1, <3>2, <3>3
  <2> QED
    BY <2>3, <2>4
<1> QED
  BY <1>3, <1>7, <1>8

\* A recursion towards the end of 0..n, each step of which asks only what is
\* further on.
LooksAhead(S, n, step) ==
    /\ step \in [(0..n) \X [0..n -> S] -> S]
    /\ \A i \in 0..n : \A f, g \in [0..n -> S] :
          (\A j \in (i + 1)..n : f[j] = g[j])
             => step[<<i, f>>] = step[<<i, g>>]

StepsDown(f, S, n, step) ==
    /\ f \in [0..n -> S]
    /\ \A i \in 0..n : f[i] = step[<<i, f>>]

LEMMA Descent ==
    ASSUME NEW S, NEW some \in S, NEW n \in Nat,
           NEW step, LooksAhead(S, n, step)
    PROVE  \E f : StepsDown(f, S, n, step)
<1> DEFINE Steps(f, m) == \A i \in m..n : f[i] = step[<<i, f>>]
           Bad == {m \in 0..(n + 1) :
                     ~ \E f \in [0..n -> S] : Steps(f, n + 1 - m)}
<1>1. SUFFICES ASSUME Bad # {}
               PROVE  FALSE
  <2>1. n + 1 \in 0..(n + 1) /\ n + 1 - (n + 1) = 0
    OBVIOUS
  <2>2. \E f \in [0..n -> S] : Steps(f, n + 1 - (n + 1))
    BY <1>1, <2>1
  <2> QED
    BY <2>1, <2>2 DEF StepsDown
<1>2. PICK m \in Bad : \A k \in Bad : m <= k
  <2>1. Bad \in SUBSET Nat
    OBVIOUS
  <2> HIDE DEF Bad
  <2> QED
    BY <1>1, <2>1, LeastOf
<1>3. m \in 0..(n + 1) /\ ~ \E f \in [0..n -> S] : Steps(f, n + 1 - m)
  BY <1>2
<1>4. m # 0
  <2>1. Steps([i \in 0..n |-> some], n + 1)
    OBVIOUS
  <2>2. [i \in 0..n |-> some] \in [0..n -> S]
    OBVIOUS
  <2> QED
    BY <1>3, <2>1, <2>2
<1> DEFINE at == n + 1 - m
<1>5. PICK f \in [0..n -> S] : Steps(f, at + 1)
  <2>1. m - 1 \in 0..(n + 1) /\ m - 1 \notin Bad /\ n + 1 - (m - 1) = at + 1
    <3>1. /\ m - 1 \in 0..(n + 1) /\ ~(m <= m - 1)
          /\ n + 1 - (m - 1) = at + 1
      BY <1>3, <1>4
    <3> HIDE DEF Bad, at
    <3> QED
      BY <1>2, <3>1
  <2> QED
    BY <2>1
<1> DEFINE g == [f EXCEPT ![at] = step[<<at, f>>]]
<1>6. at \in 0..n
  BY <1>3, <1>4
<1>7. g \in [0..n -> S]
  BY <1>6 DEF LooksAhead
<1>8. Steps(g, at)
  <2>1. \A i \in 0..n : g[i] = IF i = at THEN step[<<at, f>>] ELSE f[i]
    OBVIOUS
  <2> HIDE DEF g, at
  <2>2. ASSUME NEW i \in at..n
        PROVE  g[i] = step[<<i, g>>]
    <3>1. i \in 0..n
      BY <1>6
    <3>2. \A j \in (i + 1)..n : f[j] = g[j]
      BY <1>6, <2>1
    <3>3. step[<<i, f>>] = step[<<i, g>>]
      BY <1>7, <3>1, <3>2 DEF LooksAhead
    <3>4. CASE i = at
      BY <2>1, <3>1, <3>3, <3>4
    <3>5. CASE i # at
      <4>1. i \in (at + 1)..n
        BY <1>6, <3>5
      <4> QED
        BY <1>5, <2>1, <3>1, <3>3, <3>5, <4>1
    <3> QED
      BY <3>4, <3>5
  <2> QED
    BY <2>2
<1> QED
  BY <1>3, <1>7, <1>8

-----------------------------------------------------------------------------
(* Parts of a sequence.                                                    *)

\* What is behind the first a elements, up to the b-th.
Part(s, a, b) == SubSeq(s, a + 1, b)

LEMMA PartOf ==
    ASSUME NEW S, NEW s \in Seq(S), NEW b \in 0..Len(s), NEW a \in 0..b
    PROVE  /\ Part(s, a, b) \in Seq(S)
           /\ Len(Part(s, a, b)) = b - a
           /\ \A i \in 1..(b - a) : Part(s, a, b)[i] = s[a + i]
<1>1. Len(s) \in Nat /\ a + 1 \in Int /\ b \in Int
  BY LenProperties
<1>2. \A i \in (a + 1)..b : s[i] \in S
  <2>1. \A i \in (a + 1)..b : i \in 1..Len(s)
    BY <1>1
  <2> QED
    BY <2>1, ElementOfSeq
<1> DEFINE lo == a + 1
<1>3. /\ SubSeq(s, lo, b) \in Seq(S)
      /\ Len(SubSeq(s, lo, b)) = IF lo <= b THEN b - lo + 1 ELSE 0
      /\ \A i \in 1..(b - lo + 1) : SubSeq(s, lo, b)[i] = s[lo + i - 1]
  BY <1>1, <1>2, SubSeqProperties
<1> DEFINE part == SubSeq(s, lo, b)
<1>4. part = Part(s, a, b)
  BY DEF Part
<1>5. \A i \in 1..(b - a) : lo + i - 1 = a + i /\ i \in 1..(b - lo + 1)
  BY <1>1
<1> HIDE DEF part
<1>6. part \in Seq(S) /\ Len(part) = b - a
  <2>1. Len(part) = IF lo <= b THEN b - lo + 1 ELSE 0
    BY <1>3 DEF part
  <2>2. part \in Seq(S)
    BY <1>3 DEF part
  <2> QED
    BY <1>1, <2>1, <2>2
<1>7. \A i \in 1..(b - a) : part[i] = s[a + i]
  <2>1. \A i \in 1..(b - lo + 1) : part[i] = s[lo + i - 1]
    BY <1>3 DEF part
  <2> HIDE DEF lo
  <2> SUFFICES ASSUME NEW i \in 1..(b - a)
               PROVE  part[i] = s[a + i]
    OBVIOUS
  <2>2. part[i] = s[lo + i - 1] /\ lo + i - 1 = a + i
    BY <1>5, <2>1
  <2> QED
    BY <2>2
<1> QED
  BY <1>4, <1>6, <1>7

\* A part of a part.
LEMMA PartOfPart ==
    ASSUME NEW S, NEW s \in Seq(S), NEW b \in 0..Len(s), NEW a \in 0..b,
           NEW y \in 0..(b - a), NEW x \in 0..y
    PROVE  Part(Part(s, a, b), x, y) = Part(s, a + x, a + y)
<1> DEFINE t == Part(s, a, b)
           u == Part(t, x, y)
           v == Part(s, a + x, a + y)
<1>1. Len(s) \in Nat
  BY LenProperties
<1>2. /\ t \in Seq(S) /\ Len(t) = b - a
      /\ \A i \in 1..(b - a) : t[i] = s[a + i]
  BY PartOf
<1>3. /\ y \in 0..Len(t) /\ a + y \in 0..Len(s) /\ a + x \in 0..(a + y)
      /\ (a + y) - (a + x) = y - x
  BY <1>1, <1>2
<1>4. /\ u \in Seq(S) /\ Len(u) = y - x
      /\ \A i \in 1..(y - x) : u[i] = t[x + i]
  <2> HIDE DEF t
  <2> QED
    BY <1>2, <1>3, PartOf
<1>5. /\ v \in Seq(S) /\ Len(v) = y - x
      /\ \A i \in 1..(y - x) : v[i] = s[(a + x) + i]
  <2> DEFINE lo == a + x
             hi == a + y
  <2>1. /\ v \in Seq(S) /\ Len(v) = hi - lo
        /\ \A i \in 1..(hi - lo) : v[i] = s[lo + i]
    <3> HIDE DEF lo, hi
    <3> USE DEF lo, hi
    <3> QED
      BY <1>3, PartOf
  <2> QED
    BY <1>3, <2>1
<1> HIDE DEF t, u, v
<1>6. \A i \in 1..(y - x) : u[i] = v[i]
  <2> SUFFICES ASSUME NEW i \in 1..(y - x)
               PROVE  u[i] = v[i]
    OBVIOUS
  <2>1. x + i \in 1..(b - a) /\ a + (x + i) = (a + x) + i
    BY <1>1
  <2> QED
    BY <1>2, <1>4, <1>5, <2>1
<1>7. u = v
  BY <1>4, <1>5, <1>6, SeqEqual
<1> QED
  BY <1>7 DEF u, v, t

\* Two parts next to each other.
LEMMA PartsJoin ==
    ASSUME NEW S, NEW s \in Seq(S), NEW c \in 0..Len(s), NEW b \in 0..c,
           NEW a \in 0..b
    PROVE  Part(s, a, b) \o Part(s, b, c) = Part(s, a, c)
<1>1. /\ Len(s) \in Nat
      /\ a + 1 \in 1..(Len(s) + 1) /\ b \in (a + 1) - 1 .. Len(s)
      /\ c \in b..Len(s)
  BY LenProperties
<1> QED
  BY <1>1, ConcatAdjacentSubSeq DEF Part

\* A sequence that is put together of two.
LEMMA PartsOfConcat ==
    ASSUME NEW S, NEW s \in Seq(S), NEW t \in Seq(S)
    PROVE  /\ s \o t \in Seq(S)
           /\ Len(s \o t) = Len(s) + Len(t)
           /\ Part(s \o t, Len(s), Len(s \o t)) = t
           /\ \A b \in 0..Len(s), a \in 0..Len(s) :
                 a <= b => Part(s \o t, a, b) = Part(s, a, b)
<1> DEFINE w == s \o t
           m == Len(s)
           n == Len(t)
<1>1. /\ w \in Seq(S) /\ Len(w) = m + n /\ m \in Nat /\ n \in Nat
      /\ \A i \in 1..(m + n) : w[i] = IF i <= m THEN s[i] ELSE t[i - m]
  BY ConcatProperties, LenProperties
<1> HIDE DEF w
<1>2. Part(w, m, Len(w)) = t
  <2> DEFINE u == Part(w, m, m + n)
  <2>1. m + n \in 0..Len(w) /\ m \in 0..(m + n) /\ (m + n) - m = n
    BY <1>1
  <2>2. u \in Seq(S) /\ Len(u) = n /\ \A i \in 1..n : u[i] = w[m + i]
    <3> DEFINE b == m + n
    <3>1. b \in 0..Len(w) /\ m \in 0..b /\ b - m = n
      BY <2>1
    <3> HIDE DEF b, m, n
    <3>2. /\ Part(w, m, b) \in Seq(S) /\ Len(Part(w, m, b)) = b - m
          /\ \A i \in 1..(b - m) : Part(w, m, b)[i] = w[m + i]
      BY <1>1, <3>1, PartOf
    <3> QED
      BY <3>1, <3>2 DEF b
  <2>3. \A i \in 1..n : w[m + i] = t[i]
    <3> SUFFICES ASSUME NEW i \in 1..n
                 PROVE  w[m + i] = t[i]
      OBVIOUS
    <3> DEFINE k == m + i
    <3>1. k \in 1..(m + n) /\ ~(k <= m) /\ k - m = i
      BY <1>1
    <3> HIDE DEF k
    <3> QED
      BY <1>1, <3>1 DEF k
  <2> HIDE DEF u
  <2>4. u = t
    BY <2>2, <2>3, SeqEqual
  <2> QED
    BY <1>1, <2>4 DEF u
<1>3. ASSUME NEW b \in 0..m, NEW a \in 0..m, a <= b
      PROVE  Part(w, a, b) = Part(s, a, b)
  <2> DEFINE u == Part(w, a, b)
             v == Part(s, a, b)
  <2>1. b \in 0..Len(w) /\ b \in 0..Len(s) /\ a \in 0..b
    BY <1>1, <1>3
  <2>2. /\ u \in Seq(S) /\ Len(u) = b - a
        /\ \A i \in 1..(b - a) : u[i] = w[a + i]
    BY <1>1, <2>1, PartOf
  <2>3. /\ v \in Seq(S) /\ Len(v) = b - a
        /\ \A i \in 1..(b - a) : v[i] = s[a + i]
    BY <2>1, PartOf
  <2>4. \A i \in 1..(b - a) : w[a + i] = s[a + i]
    <3> SUFFICES ASSUME NEW i \in 1..(b - a)
                 PROVE  w[a + i] = s[a + i]
      OBVIOUS
    <3> DEFINE k == a + i
    <3>1. k \in 1..(m + n) /\ k <= m
      BY <1>1, <1>3
    <3> HIDE DEF k
    <3> QED
      BY <1>1, <3>1 DEF k
  <2> HIDE DEF u, v
  <2>5. u = v
    BY <2>2, <2>3, <2>4, SeqEqual
  <2> QED
    BY <2>5 DEF u, v
<1> QED
  BY <1>1, <1>2, <1>3 DEF w

\* The whole is its own part.
LEMMA WholePart ==
    ASSUME NEW S, NEW s \in Seq(S)
    PROVE  Part(s, 0, Len(s)) = s /\ Part(s, Len(s), Len(s)) = <<>>
<1>1. Len(s) \in Nat /\ 0 + 1 = 1 /\ Len(s) < Len(s) + 1
  BY LenProperties
<1> QED
  BY <1>1, SubSeqFull, SubSeqEmpty DEF Part

-----------------------------------------------------------------------------
(* Sequences of sequences.                                                 *)

\* Where each of the sequences ends in the one they make together.
Joined(seqs, whole, pos) ==
    /\ pos \in [0..Len(seqs) -> 0..Len(whole)]
    /\ pos[0] = 0
    /\ pos[Len(seqs)] = Len(whole)
    /\ \A k \in 1..Len(seqs) :
          /\ pos[k] = pos[k - 1] + Len(seqs[k])
          /\ Part(whole, pos[k - 1], pos[k]) = seqs[k]

\* Another one at the end.
LEMMA JoinedOneMore ==
    ASSUME NEW S, NEW front \in Seq(Seq(S)), NEW whole \in Seq(S),
           NEW pos, Joined(front, whole, pos), NEW next \in Seq(S),
           NEW seqs \in Seq(Seq(S)), Len(seqs) = Len(front) + 1,
           \A k \in 1..Len(front) : seqs[k] = front[k],
           seqs[Len(seqs)] = next
    PROVE  \E pos2 : Joined(seqs, whole \o next, pos2)
<1> DEFINE n == Len(front)
           m == Len(whole)
           w == whole \o next
           pos2 == [k \in 0..(n + 1) |-> IF k = n + 1 THEN Len(w) ELSE pos[k]]
<1>1. /\ n \in Nat /\ m \in Nat /\ Len(next) \in Nat
      /\ w \in Seq(S) /\ Len(w) = m + Len(next)
      /\ Part(w, m, Len(w)) = next
      /\ \A b \in 0..m, a \in 0..m : a <= b => Part(w, a, b) = Part(whole, a, b)
  BY PartsOfConcat, LenProperties
<1>2. /\ pos \in [0..n -> 0..m] /\ pos[0] = 0 /\ pos[n] = m
      /\ \A k \in 1..n : /\ pos[k] = pos[k - 1] + Len(front[k])
                         /\ Part(whole, pos[k - 1], pos[k]) = front[k]
  BY DEF Joined
<1>3. \A k \in 1..n : front[k] \in Seq(S) /\ Len(front[k]) \in Nat
  <2>1. \A k \in 1..n : front[k] \in Seq(S)
    BY ElementOfSeq
  <2> QED
    BY <2>1, LenProperties
<1> HIDE DEF w
<1>4. /\ pos2 \in [0..(n + 1) -> 0..Len(w)] /\ pos2[0] = 0
      /\ pos2[n + 1] = Len(w)
      /\ \A k \in 0..n : pos2[k] = pos[k]
  <2>1. \A k \in 0..n : k # n + 1 /\ k \in 0..(n + 1) /\ pos[k] \in 0..Len(w)
    <3>1. \A k \in 0..n : pos[k] \in 0..m
      BY <1>2
    <3>2. 0..m \subseteq 0..Len(w)
      BY <1>1
    <3>3. \A k \in 0..n : k # n + 1 /\ k \in 0..(n + 1)
      BY <1>1
    <3> QED
      BY <3>1, <3>2, <3>3
  <2>2. n + 1 \in 0..(n + 1) /\ 0 \in 0..n /\ Len(w) \in 0..Len(w)
    BY <1>1
  <2>3. \A k \in 0..(n + 1) : k = n + 1 \/ k \in 0..n
    BY <1>1
  <2> HIDE DEF n
  <2>4. \A k \in 0..(n + 1) :
           (IF k = n + 1 THEN Len(w) ELSE pos[k]) \in 0..Len(w)
    BY <2>1, <2>2, <2>3
  <2> QED
    BY <1>2, <2>1, <2>2, <2>3, <2>4
<1> HIDE DEF pos2
<1>5. ASSUME NEW k \in 1..(n + 1)
      PROVE  /\ pos2[k] = pos2[k - 1] + Len(seqs[k])
             /\ Part(w, pos2[k - 1], pos2[k]) = seqs[k]
  <2>1. CASE k = n + 1
    <3>1. seqs[k] = next /\ pos2[k] = Len(w) /\ k - 1 = n /\ n \in 0..n
      BY <1>1, <1>4, <2>1
    <3>2. pos2[k - 1] = m
      BY <1>2, <1>4, <3>1
    <3> QED
      BY <1>1, <3>1, <3>2
  <2>2. CASE k # n + 1
    <3>1. k \in 1..n /\ k \in 0..n /\ k - 1 \in 0..n
      BY <1>1, <2>2
    <3>2. pos2[k] = pos[k] /\ pos2[k - 1] = pos[k - 1] /\ seqs[k] = front[k]
      BY <1>4, <3>1
    <3>3. pos[k - 1] \in 0..m /\ pos[k] \in 0..m /\ pos[k - 1] <= pos[k]
      <4>1. pos[k - 1] \in 0..m /\ pos[k] \in 0..m
        BY <1>2, <3>1
      <4>2. pos[k] = pos[k - 1] + Len(front[k]) /\ Len(front[k]) \in Nat
        BY <1>2, <1>3, <3>1
      <4>3. \A x, y \in 0..m, l \in Nat : y = x + l => x <= y
        BY <1>1
      <4> HIDE DEF m
      <4> QED
        BY <4>1, <4>2, <4>3
    <3> QED
      BY <1>1, <1>2, <3>1, <3>2, <3>3
  <2> QED
    BY <2>1, <2>2
<1>6. Joined(seqs, w, pos2)
  <2>1. Len(seqs) = n + 1
    OBVIOUS
  <2> HIDE DEF n
  <2> QED
    BY <1>4, <1>5, <2>1 DEF Joined
<1> QED
  BY <1>6 DEF w

\* FlattenSeq puts one sequence after another.
LEMMA FlattenSteps ==
    ASSUME NEW S, NEW seqs \in Seq(Seq(S)), Len(seqs) # 0
    PROVE  \E flat :
              /\ FlattenSeq(seqs) = flat[Len(seqs)]
              /\ \A i \in 1..Len(seqs) :
                    flat[i] = IF i = 1 THEN seqs[i] ELSE flat[i - 1] \o seqs[i]
<1> DEFINE n == Len(seqs)
<1>0. n \in Nat /\ n # 0 /\ \A k \in 1..n : seqs[k] \in Seq(S)
  BY LenProperties, ElementOfSeq
<1> DEFINE Takes(f) == f = [i \in 1..n |-> IF i = 1 THEN seqs[i]
                                           ELSE f[i - 1] \o seqs[i]]
           flat == CHOOSE f : Takes(f)
<1>1. FlattenSeq(seqs) = flat[n]
  BY <1>0, Zenon DEF FlattenSeq
<1>2. \E f : Takes(f)
  <2> DEFINE step == [p \in (1..n) \X Seq(S) |->
                         IF p[1] = 1 THEN seqs[1] ELSE p[2] \o seqs[p[1]]]
  <2>1. step \in [(1..n) \X Seq(S) -> Seq(S)]
    <3>1. \A p \in (1..n) \X Seq(S) :
             /\ seqs[1] \in Seq(S)
             /\ p[2] \o seqs[p[1]] \in Seq(S)
      <4>1. 1 \in 1..n
        BY <1>0
      <4>2. \A p \in (1..n) \X Seq(S) :
               p[2] \in Seq(S) /\ seqs[p[1]] \in Seq(S)
        BY <1>0
      <4> QED
        BY <1>0, <4>1, <4>2, ConcatProperties
    <3> DEFINE Body(p) == IF p[1] = 1 THEN seqs[1] ELSE p[2] \o seqs[p[1]]
    <3>2. \A p \in (1..n) \X Seq(S) : Body(p) \in Seq(S)
      BY <3>1
    <3>3. step = [p \in (1..n) \X Seq(S) |-> Body(p)]
      OBVIOUS
    <3> HIDE DEF n, Body, step
    <3> QED
      BY <3>2, <3>3
  <2>2. PICK f \in [0..n -> Seq(S)] :
           \A k \in 1..n : f[k] = step[<<k, f[k - 1]>>]
    <3> DEFINE Whole == Seq(S)
               Start == <<>>
    <3>1. n \in Nat /\ Start \in Whole /\ step \in [(1..n) \X Whole -> Whole]
      BY <1>0, <2>1, EmptySeq
    <3>2. \E f : StepsUp(f, Whole, Start, n, step)
      <4> HIDE DEF step, n, Whole, Start
      <4> QED
        BY <3>1, Iteration
    <3> HIDE DEF step, n
    <3> QED
      BY <3>2 DEF StepsUp
  <2> DEFINE g == [i \in 1..n |-> f[i]]
  <2>3. \A i \in 1..n : f[i] = IF i = 1 THEN seqs[i] ELSE g[i - 1] \o seqs[i]
    <3> SUFFICES ASSUME NEW i \in 1..n
                 PROVE  f[i] = IF i = 1 THEN seqs[i] ELSE g[i - 1] \o seqs[i]
      OBVIOUS
    <3>1. i - 1 \in 0..n /\ (i # 1 => i - 1 \in 1..n)
      BY <1>0
    <3>2. <<i, f[i - 1]>> \in (1..n) \X Seq(S)
      BY <3>1
    <3>3. f[i] = IF i = 1 THEN seqs[1] ELSE f[i - 1] \o seqs[i]
      BY <2>2, <3>2
    <3>4. i # 1 => g[i - 1] = f[i - 1]
      BY <3>1
    <3> HIDE DEF g
    <3> QED
      BY <3>3, <3>4
  <2>4. Takes(g)
    <3> DEFINE Body(i) == IF i = 1 THEN seqs[i] ELSE g[i - 1] \o seqs[i]
    <3>1. \A i \in 1..n : f[i] = Body(i)
      BY <2>3
    <3>2. [i \in 1..n |-> f[i]] = [i \in 1..n |-> Body(i)]
      <4> HIDE DEF Body, n
      <4> QED
        BY <3>1, Zenon
    <3>3. g = [i \in 1..n |-> Body(i)]
      BY <3>2
    <3> HIDE DEF g
    <3> QED
      BY <3>3 DEF Body
  <2> QED
    BY <2>4
<1>3. Takes(flat)
  <2> HIDE DEF Takes
  <2> QED
    BY <1>2
<1> HIDE DEF flat
<1>4. \A i \in 1..n : flat[i] = IF i = 1 THEN seqs[i]
                                ELSE flat[i - 1] \o seqs[i]
  BY <1>3
<1> QED
  BY <1>1, <1>4

\* FlattenSeq is such a whole.
LEMMA FlattenJoins ==
    ASSUME NEW S, NEW seqs \in Seq(Seq(S))
    PROVE  /\ FlattenSeq(seqs) \in Seq(S)
           /\ \E pos : Joined(seqs, FlattenSeq(seqs), pos)
<1> DEFINE n == Len(seqs)
<1>1. n \in Nat /\ \A k \in 1..n : seqs[k] \in Seq(S)
  BY LenProperties, ElementOfSeq
<1>2. CASE n = 0
  <2>1. seqs = <<>> /\ FlattenSeq(seqs) = seqs
    BY <1>2, EmptySeq DEF FlattenSeq
  <2>2. Len(seqs) = 0 /\ Len(FlattenSeq(seqs)) = 0
    BY <2>1, <1>2
  <2>3. Joined(seqs, FlattenSeq(seqs), [k \in 0..0 |-> 0])
    BY <2>2 DEF Joined
  <2> QED
    BY <2>1, <2>3, EmptySeq
<1>3. CASE n # 0
  <2>1. PICK flat :
           /\ FlattenSeq(seqs) = flat[n]
           /\ \A i \in 1..n : flat[i] = IF i = 1 THEN seqs[i]
                                        ELSE flat[i - 1] \o seqs[i]
    BY <1>3, FlattenSteps
  <2>4. \A i \in 1..n : flat[i] = IF i = 1 THEN seqs[i]
                                  ELSE flat[i - 1] \o seqs[i]
    BY <2>1
  <2> DEFINE Upto(k) == SubSeq(seqs, 1, k)
             Good(k) == /\ flat[k] \in Seq(S)
                        /\ \E pos : Joined(Upto(k), flat[k], pos)
             Bad == {k \in 1..n : ~Good(k)}
  <2>5. ASSUME NEW k \in 1..n
        PROVE  /\ Upto(k) \in Seq(Seq(S)) /\ Len(Upto(k)) = k
               /\ \A i \in 1..k : Upto(k)[i] = seqs[i]
    <3>1. k \in 0..Len(seqs) /\ 0 \in 0..k /\ k - 0 = k /\ 0 + 1 = 1
          /\ \A i \in 1..k : 0 + i = i
      BY <1>1
    <3>2. Upto(k) = Part(seqs, 0, k)
      BY <3>1 DEF Part
    <3>3. /\ Part(seqs, 0, k) \in Seq(Seq(S))
          /\ Len(Part(seqs, 0, k)) = k - 0
          /\ \A i \in 1..(k - 0) : Part(seqs, 0, k)[i] = seqs[0 + i]
      BY <3>1, PartOf
    <3> HIDE DEF Upto, n
    <3> QED
      BY <3>1, <3>2, <3>3
  <2>6. Bad = {}
    <3> SUFFICES ASSUME Bad # {}
                 PROVE  FALSE
      OBVIOUS
    <3>1. PICK k \in Bad : \A j \in Bad : k <= j
      <4>1. Bad \in SUBSET Nat
        BY <1>1
      <4> HIDE DEF Bad
      <4> QED
        BY <4>1, LeastOf
    <3>2. k \in 1..n /\ ~Good(k) /\ (k # 1 => Good(k - 1))
      <4>1. k \in 1..n /\ ~Good(k)
        BY <3>1
      <4>2. k # 1 => k - 1 \in 1..n /\ ~(k <= k - 1)
        BY <1>1, <4>1
      <4>3. k # 1 => k - 1 \notin Bad
        <5> HIDE DEF Bad
        <5> QED
          BY <3>1, <4>2
      <4> HIDE DEF Good
      <4> QED
        BY <4>1, <4>2, <4>3
    <3>3. CASE k = 1
      <4>1. flat[1] = seqs[1] /\ seqs[1] \in Seq(S) /\ 1 \in 1..n
        BY <1>1, <2>4, <3>2, <3>3
      <4> DEFINE u == Upto(1)
      <4>2. Len(u) = 1 /\ u[1] = seqs[1]
        BY <2>5, <4>1
      <4> HIDE DEF u
      <4> DEFINE pos == [i \in 0..1 |-> IF i = 0 THEN 0 ELSE Len(seqs[1])]
      <4>3. Len(seqs[1]) \in Nat /\ Part(seqs[1], 0, Len(seqs[1])) = seqs[1]
        BY <4>1, WholePart, LenProperties
      <4>4. \A i \in 1..1 : i = 1
        OBVIOUS
      <4>5. pos[0] = 0 /\ pos[1] = Len(seqs[1])
        OBVIOUS
      <4>6. pos \in [0..1 -> 0..Len(seqs[1])]
        BY <4>3
      <4> HIDE DEF pos
      <4>7. Joined(u, seqs[1], pos)
        BY <4>2, <4>3, <4>4, <4>5, <4>6 DEF Joined
      <4>8. Joined(Upto(k), flat[k], pos)
        BY <3>3, <4>1, <4>7 DEF u
      <4> HIDE DEF Upto
      <4> QED
        BY <3>2, <3>3, <4>1, <4>8
    <3>4. CASE k # 1
      <4> DEFINE j == k - 1
                 u == Upto(k)
                 v == Upto(j)
      <4>1. k \in 1..n /\ j \in 1..n /\ k = j + 1 /\ 1..j \subseteq 1..k
        BY <1>1, <3>2, <3>4
      <4>2. /\ flat[j] \in Seq(S) /\ \E pos : Joined(v, flat[j], pos)
        BY <3>2, <3>4
      <4>3. flat[k] = flat[j] \o seqs[k]
        BY <2>4, <3>4, <4>1
      <4>4. /\ u \in Seq(Seq(S)) /\ Len(u) = k
            /\ \A i \in 1..k : u[i] = seqs[i]
        BY <2>5, <4>1
      <4>5. /\ v \in Seq(Seq(S)) /\ Len(v) = j
            /\ \A i \in 1..j : v[i] = seqs[i]
        <5> HIDE DEF j, Upto
        <5> QED
          BY <2>5, <4>1
      <4> HIDE DEF u, v, j
      <4>6. PICK pos : Joined(v, flat[j], pos)
        BY <4>2
      <4>7. \A i \in 1..Len(v) : u[i] = v[i]
        BY <4>1, <4>4, <4>5
      <4>8. seqs[k] \in Seq(S) /\ u[Len(u)] = seqs[k] /\ Len(u) = Len(v) + 1
        BY <1>1, <4>1, <4>4, <4>5
      <4>9. \E pos2 : Joined(u, flat[j] \o seqs[k], pos2)
        BY <4>2, <4>4, <4>5, <4>6, <4>7, <4>8, JoinedOneMore
      <4>10. flat[j] \o seqs[k] \in Seq(S)
        BY <4>2, <4>8, ConcatProperties
      <4>11. flat[k] \in Seq(S) /\ \E pos2 : Joined(Upto(k), flat[k], pos2)
        BY <4>3, <4>9, <4>10 DEF u
      <4> HIDE DEF Upto
      <4> QED
        BY <3>2, <4>11
    <3> QED
      BY <3>3, <3>4
  <2>7. Good(n)
    <3>1. n \in 1..n
      BY <1>1, <1>3
    <3> HIDE DEF Good, n
    <3> QED
      BY <2>6, <3>1
  <2>8. Upto(n) = seqs
    BY SubSeqFull
  <2> HIDE DEF Upto
  <2> QED
    BY <2>1, <2>7, <2>8
<1> QED
  BY <1>2, <1>3

LEMMA ConcatAnyWay ==
    ASSUME NEW S
    PROVE  \A x, y, z \in Seq(S) : (x \o y) \o z = x \o (y \o z)
BY ConcatAssociative

\* Two sequences in front of others.
FlattensOnto(p, q, seqs) ==
    p \o q \o FlattenSeq(seqs) = FlattenSeq(<<p, q>> \o seqs)

LEMMA FlattenOnto ==
    ASSUME NEW S, NEW p \in Seq(S), NEW q \in Seq(S), NEW seqs \in Seq(Seq(S))
    PROVE  FlattensOnto(p, q, seqs)
<1> DEFINE n   == Len(seqs)
           all == <<p, q>> \o seqs
           pq  == p \o q
<1>0. \A x, y, z \in Seq(S) : (x \o y) \o z = x \o (y \o z)
  BY ConcatAnyWay
<1>1. /\ n \in Nat /\ <<p, q>> \in Seq(Seq(S)) /\ Len(<<p, q>>) = 2
      /\ pq \in Seq(S) /\ \A i \in 1..n : seqs[i] \in Seq(S)
  BY LenProperties, ElementOfSeq, ConcatProperties
<1>2. /\ all \in Seq(Seq(S)) /\ Len(all) = n + 2
      /\ all[1] = p /\ all[2] = q
      /\ \A i \in 1..n : all[i + 2] = seqs[i]
  <2> DEFINE two == <<p, q>>
  <2>1. two \in Seq(Seq(S)) /\ Len(two) = 2 /\ two[1] = p /\ two[2] = q
    BY <1>1
  <2> HIDE DEF two
  <2>2. /\ two \o seqs \in Seq(Seq(S)) /\ Len(two \o seqs) = 2 + n
        /\ \A i \in 1..(2 + n) :
              (two \o seqs)[i] = IF i <= 2 THEN two[i] ELSE seqs[i - 2]
    <3> DEFINE Whole == Seq(S)
    <3>1. two \in Seq(Whole) /\ seqs \in Seq(Whole)
      BY <2>1
    <3> HIDE DEF Whole
    <3>2. /\ two \o seqs \in Seq(Whole)
          /\ Len(two \o seqs) = Len(two) + Len(seqs)
          /\ \A i \in 1..(Len(two) + Len(seqs)) :
                (two \o seqs)[i] = IF i <= Len(two) THEN two[i]
                                   ELSE seqs[i - Len(two)]
      BY <3>1, ConcatProperties
    <3> QED
      BY <2>1, <3>2 DEF Whole
  <2>3. /\ 2 + n = n + 2 /\ 1 \in 1..(2 + n) /\ 2 \in 1..(2 + n)
        /\ \A i \in 1..n : /\ i + 2 \in 1..(2 + n) /\ ~(i + 2 <= 2)
                           /\ i + 2 - 2 = i
    BY <1>1
  <2> QED
    BY <2>1, <2>2, <2>3 DEF two
<1> HIDE DEF all, pq
<1>3. PICK flat :
         /\ FlattenSeq(all) = flat[n + 2]
         /\ \A i \in 1..(n + 2) : flat[i] = IF i = 1 THEN all[i]
                                            ELSE flat[i - 1] \o all[i]
  <2> DEFINE m == Len(all)
  <2>1. m # 0 /\ m = n + 2
    BY <1>1, <1>2
  <2>2. \E flat :
           /\ FlattenSeq(all) = flat[m]
           /\ \A i \in 1..m : flat[i] = IF i = 1 THEN all[i]
                                        ELSE flat[i - 1] \o all[i]
    BY <1>2, <2>1, FlattenSteps
  <2> HIDE DEF m, n
  <2> QED
    BY <2>1, <2>2
<1>4. flat[2] = pq
  <2>1. 1 \in 1..(n + 2) /\ 2 \in 1..(n + 2) /\ 2 # 1 /\ 2 - 1 = 1
    BY <1>1
  <2> QED
    BY <1>2, <1>3, <2>1 DEF pq
<1>5. CASE n = 0
  <2>1. seqs = <<>> /\ FlattenSeq(seqs) = seqs
    BY <1>5, EmptySeq DEF FlattenSeq
  <2>2. pq \o <<>> = pq
    BY <1>1, ConcatEmptySeq
  <2>3. n + 2 = 2
    BY <1>5
  <2> QED
    BY <1>3, <1>4, <2>1, <2>2, <2>3 DEF pq, all, FlattensOnto
<1>6. CASE n # 0
  <2>1. PICK part :
           /\ FlattenSeq(seqs) = part[n]
           /\ \A i \in 1..n : part[i] = IF i = 1 THEN seqs[i]
                                        ELSE part[i - 1] \o seqs[i]
    BY <1>6, FlattenSteps
  <2> DEFINE Good(i) == part[i] \in Seq(S) /\ flat[i + 2] = pq \o part[i]
             Bad == {i \in 1..n : ~Good(i)}
  <2>2. Bad = {}
    <3> SUFFICES ASSUME Bad # {}
                 PROVE  FALSE
      OBVIOUS
    <3>1. PICK i \in Bad : \A j \in Bad : i <= j
      <4>1. Bad \in SUBSET Nat
        <5> HIDE DEF Good, n
        <5> QED
          BY <1>1
      <4> HIDE DEF Bad
      <4> QED
        BY <4>1, LeastOf
    <3>2. i \in 1..n /\ ~Good(i) /\ i + 2 \in 1..(n + 2) /\ i + 2 # 1
      <4>1. i \in 1..n /\ ~Good(i)
        BY <3>1
      <4> HIDE DEF Good, n
      <4> QED
        BY <1>1, <4>1
    <3>3. flat[i + 2] = flat[i + 1] \o seqs[i] /\ seqs[i] \in Seq(S)
      <4>1. flat[i + 2] = flat[i + 1] \o all[i + 2]
        <5> DEFINE w == i + 2
        <5>1. w \in 1..(n + 2) /\ w # 1 /\ w - 1 = i + 1
          BY <3>2
        <5> HIDE DEF n, w
        <5>2. flat[w] = flat[w - 1] \o all[w]
          BY <1>3, <5>1
        <5> QED
          BY <5>1, <5>2 DEF w
      <4>2. all[i + 2] = seqs[i] /\ seqs[i] \in Seq(S)
        BY <1>1, <1>2, <3>2
      <4> QED
        BY <4>1, <4>2
    <3>4. CASE i = 1
      <4>1. part[1] = seqs[1] /\ 1 + 1 = 2
        BY <2>1, <3>2, <3>4
      <4> QED
        BY <1>4, <3>2, <3>3, <3>4, <4>1
    <3>5. CASE i # 1
      <4> DEFINE j == i - 1
      <4>1. j \in 1..n /\ ~(i <= j) /\ i + 1 = j + 2
        BY <1>1, <3>2, <3>5
      <4>2. Good(j)
        <5>1. j \notin Bad
          <6> HIDE DEF Bad, j
          <6> QED
            BY <3>1, <4>1
        <5> QED
          BY <4>1, <5>1
      <4>3. part[i] = part[j] \o seqs[i]
        BY <2>1, <3>2, <3>5
      <4> HIDE DEF j
      <4>4. part[i] \in Seq(S)
        BY <3>3, <4>2, <4>3, ConcatProperties
      <4>5. flat[i + 2] = (pq \o part[j]) \o seqs[i]
        <5>1. flat[i + 1] = flat[j + 2] /\ flat[j + 2] = pq \o part[j]
          BY <4>1, <4>2
        <5> QED
          BY <3>3, <5>1
      <4>6. (pq \o part[j]) \o seqs[i] = pq \o (part[j] \o seqs[i])
        <5> DEFINE Whole == Seq(S)
        <5>1. pq \in Whole /\ part[j] \in Whole /\ seqs[i] \in Whole
          BY <1>1, <3>3, <4>2
        <5>2. \A x, y, z \in Whole : (x \o y) \o z = x \o (y \o z)
          BY <1>0
        <5> HIDE DEF Whole
        <5> QED
          BY <5>1, <5>2, Zenon
      <4> QED
        BY <3>2, <4>3, <4>4, <4>5, <4>6
    <3> QED
      BY <3>4, <3>5
  <2>3. Good(n)
    <3>1. n \in 1..n
      BY <1>1, <1>6
    <3> HIDE DEF Good, n
    <3> QED
      BY <2>2, <3>1
  <2> QED
    BY <1>3, <2>1, <2>3 DEF pq, all, FlattensOnto
<1> QED
  BY <1>5, <1>6

-----------------------------------------------------------------------------
(* FlushSplit.  The counts of a stream, from each place in it to its end,  *)
(* and what a split that has read the stream up to a place knows of them.  *)

Tally == [pre : Nat, pkts : Nat]

\* What SplitOf counts from place i, given the counts from further on.
Counted(s, i, f) ==
    LET n == Len(s)
        len == ParseLength(SubSeq(s, i + 1, i + 4))
        next == IF len \in {1, 2} THEN i + 4 ELSE i + len
    IN  IF n - i < 4 THEN [pre |-> n, pkts |-> 0]
        ELSE IF len = NoLength THEN [pre |-> i + 4, pkts |-> 0]
        ELSE IF len \in {0, 3} THEN [pre |-> i + 4, pkts |-> 0]
        ELSE IF next > n THEN [pre |-> n, pkts |-> 1]
        ELSE [f[next] EXCEPT !.pkts = @ + 1]

Tallies(s, f) ==
    /\ f \in [0..Len(s) -> Tally]
    /\ \A i \in 0..Len(s) : f[i] = Counted(s, i, f)

\* The length in a header is a number.
LEMMA LengthIsNat ==
    ASSUME NEW header \in Seq(Bytes), Len(header) = 4
    PROVE  ParseLength(header) \in Nat
<1> DEFINE digit(i) == IF header[i] = Plus THEN 0 ELSE header[i]
<1>1. digit(1) \in Nat /\ digit(2) \in Nat /\ digit(3) \in Nat /\ digit(4) \in Nat
  <2>1. \A i \in 1..4 : header[i] \in Nat
    BY ElementOfSeq DEF Bytes
  <2> QED
    BY <2>1
<1>2. \/ ParseLength(header)
           = ((digit(1) * 16 + digit(2)) * 16 + digit(3)) * 16 + digit(4)
      \/ ParseLength(header) = NoLength
  BY Zenon DEF ParseLength
<1> HIDE DEF digit
<1> QED
  BY <1>1, <1>2 DEF NoLength

\* A place with a whole header behind it.
LEMMA HeaderAt ==
    ASSUME NEW s \in Seq(Bytes), NEW i \in 0..Len(s), ~(Len(s) - i < 4)
    PROVE  /\ SubSeq(s, i + 1, i + 4) = Part(s, i, i + 4)
           /\ i + 4 \in 0..Len(s)
           /\ ParseLength(SubSeq(s, i + 1, i + 4)) \in Nat
<1> DEFINE b == i + 4
           h == Part(s, i, b)
<1>1. b \in 0..Len(s) /\ i \in 0..b /\ b - i = 4
  BY LenProperties
<1>2. h \in Seq(Bytes) /\ Len(h) = 4
  <2> HIDE DEF b
  <2> QED
    BY <1>1, PartOf
<1>3. h = SubSeq(s, i + 1, i + 4)
  BY DEF Part
<1> HIDE DEF h
<1>4. ParseLength(h) \in Nat
  BY <1>2, LengthIsNat
<1> QED
  BY <1>1, <1>3, <1>4 DEF h

\* One packet more.
LEMMA OneMorePacket ==
    ASSUME NEW x \in Tally
    PROVE  /\ [x EXCEPT !.pkts = @ + 1] \in Tally
           /\ [x EXCEPT !.pkts = @ + 1].pre = x.pre
           /\ [x EXCEPT !.pkts = @ + 1].pkts = x.pkts + 1
BY DEF Tally

\* Counting asks only what is counted from further on.
LEMMA CountedFrom ==
    ASSUME NEW s \in Seq(Bytes), NEW i \in 0..Len(s), NEW f,
           \A j \in (i + 1)..Len(s) : f[j] \in Tally
    PROVE  /\ Counted(s, i, f) \in Tally
           /\ \A g : (\A j \in (i + 1)..Len(s) : f[j] = g[j])
                  => Counted(s, i, f) = Counted(s, i, g)
<1> DEFINE n == Len(s)
           len  == ParseLength(SubSeq(s, i + 1, i + 4))
           next == IF len \in {1, 2} THEN i + 4 ELSE i + len
<1>0. n \in Nat
  BY LenProperties
<1>1. CASE n - i < 4
  <2>1. \A g : Counted(s, i, g) = [pre |-> n, pkts |-> 0]
    BY <1>1 DEF Counted
  <2> HIDE DEF n
  <2> QED
    BY <1>0, <2>1 DEF Tally
<1>2. CASE ~(n - i < 4)
  <2>1. len \in Nat /\ i + 4 \in Nat
    BY <1>2, HeaderAt
  <2>2. \A g : Counted(s, i, g) =
           IF len = NoLength THEN [pre |-> i + 4, pkts |-> 0]
           ELSE IF len \in {0, 3} THEN [pre |-> i + 4, pkts |-> 0]
           ELSE IF next > n THEN [pre |-> n, pkts |-> 1]
           ELSE [g[next] EXCEPT !.pkts = @ + 1]
    BY <1>2 DEF Counted
  <2>3. next \in Nat /\ (len \notin {0, 3} /\ ~(next > n) => next \in (i + 1)..n)
    <3> HIDE DEF len, n
    <3> QED
      BY <1>0, <2>1
  <2>4. \A j \in (i + 1)..n : f[j] \in Tally
    OBVIOUS
  <2> HIDE DEF len, next, n
  <2>5. len \notin {0, 3} /\ ~(next > n) =>
           [f[next] EXCEPT !.pkts = @ + 1] \in Tally
    BY <2>3, <2>4, OneMorePacket
  <2>6. /\ [pre |-> i + 4, pkts |-> 0] \in Tally
        /\ [pre |-> n, pkts |-> 1] \in Tally
    BY <1>0, <2>1 DEF Tally
  <2>7. Counted(s, i, f) \in Tally
    BY <2>2, <2>5, <2>6, Zenon
  <2>8. ASSUME NEW g, \A j \in (i + 1)..n : f[j] = g[j]
        PROVE  Counted(s, i, f) = Counted(s, i, g)
    <3>1. len \notin {0, 3} /\ ~(next > n) => f[next] = g[next]
      BY <2>3, <2>8
    <3> QED
      BY <2>2, <3>1, Zenon
  <2> QED
    BY <2>7, <2>8 DEF n
<1> QED
  BY <1>1, <1>2

LEMMA CountedLooksAhead ==
    ASSUME NEW s \in Seq(Bytes)
    PROVE  LooksAhead(Tally, Len(s),
                      [p \in (0..Len(s)) \X [0..Len(s) -> Tally] |->
                          Counted(s, p[1], p[2])])
<1> DEFINE n == Len(s)
           Fs == [0..n -> Tally]
           step == [p \in (0..n) \X Fs |-> Counted(s, p[1], p[2])]
<1>1. ASSUME NEW i \in 0..n, NEW f \in Fs
      PROVE  /\ Counted(s, i, f) \in Tally
             /\ step[<<i, f>>] = Counted(s, i, f)
             /\ \A g \in Fs : (\A j \in (i + 1)..n : f[j] = g[j])
                    => Counted(s, i, f) = Counted(s, i, g)
  <2>1. step[<<i, f>>] = Counted(s, i, f)
    OBVIOUS
  <2>2. \A j \in (i + 1)..n : f[j] \in Tally
    <3>1. \A j \in (i + 1)..n : j \in 0..n
      BY LenProperties
    <3> HIDE DEF n
    <3> QED
      BY <3>1
  <2> HIDE DEF step, Fs
  <2> QED
    BY <2>1, <2>2, CountedFrom
<1>2. step \in [(0..n) \X Fs -> Tally]
  <2> HIDE DEF Fs, n
  <2> DEFINE Body(p) == Counted(s, p[1], p[2])
  <2>1. \A p \in (0..n) \X Fs : Body(p) \in Tally
    BY <1>1
  <2>2. step = [p \in (0..n) \X Fs |-> Body(p)]
    OBVIOUS
  <2> HIDE DEF Body, step
  <2> QED
    BY <2>1, <2>2
<1> HIDE DEF step
<1>3. \A i \in 0..n : \A f, g \in Fs :
         (\A j \in (i + 1)..n : f[j] = g[j])
            => step[<<i, f>>] = step[<<i, g>>]
  <2> HIDE DEF Fs, n
  <2> QED
    BY <1>1
<1>4. LooksAhead(Tally, n, step)
  <2> HIDE DEF n
  <2> QED
    BY <1>2, <1>3 DEF LooksAhead
<1> QED
  BY <1>4 DEF step

\* There are such counts, and they are what SplitOf goes by.
LEMMA SplitOfTallies ==
    ASSUME NEW s \in Seq(Bytes)
    PROVE  \E f : /\ Tallies(s, f)
                  /\ SplitOf(s) = [total |-> Len(s), pre_flush |-> f[0].pre,
                                   pre_flush_pkts |-> f[0].pkts,
                                   post_flush |-> Len(s) - f[0].pre]
<1> DEFINE n == Len(s)
           Fs == [0..n -> Tally]
           step == [p \in (0..n) \X Fs |-> Counted(s, p[1], p[2])]
           Takes(f) == f = [i \in 0..n |-> Counted(s, i, f)]
           from == CHOOSE f : Takes(f)
<1>0. n \in Nat
  BY LenProperties
<1>1. SplitOf(s) = [total |-> n, pre_flush |-> from[0].pre,
                    pre_flush_pkts |-> from[0].pkts,
                    post_flush |-> n - from[0].pre]
  BY Zenon DEF SplitOf, Counted
<1>2. \E f \in Fs : Takes(f)
  <2>1. PICK f : StepsDown(f, Tally, n, step)
    <3>1. LooksAhead(Tally, n, step)
      BY CountedLooksAhead
    <3>2. [pre |-> 0, pkts |-> 0] \in Tally
      BY DEF Tally
    <3> HIDE DEF n, step
    <3> QED
      BY <1>0, <3>1, <3>2, Descent
  <2>2. f \in Fs /\ \A i \in 0..n : f[i] = step[<<i, f>>]
    BY <2>1 DEF StepsDown
  <2>3. \A i \in 0..n : f[i] = Counted(s, i, f)
    <3> SUFFICES ASSUME NEW i \in 0..n
                 PROVE  f[i] = Counted(s, i, f)
      OBVIOUS
    <3>1. step[<<i, f>>] = Counted(s, i, f)
      BY <2>2
    <3> QED
      BY <2>2, <3>1
  <2> DEFINE Body(i) == Counted(s, i, f)
  <2>4. [i \in 0..n |-> f[i]] = [i \in 0..n |-> Body(i)]
    <3>1. \A i \in 0..n : f[i] = Body(i)
      BY <2>3
    <3> HIDE DEF Body, n
    <3> QED
      BY <3>1, Zenon
  <2>5. f = [i \in 0..n |-> f[i]]
    BY <2>2
  <2> QED
    BY <2>2, <2>4, <2>5
<1>3. Takes(from)
  <2> HIDE DEF Takes
  <2> QED
    BY <1>2
<1> HIDE DEF from
<1>4. from = [i \in 0..n |-> Counted(s, i, from)]
  BY <1>3
<1>5. from \in Fs
  <2> DEFINE Bad == {i \in 0..n : from[i] \notin Tally}
  <2>1. Bad = {}
    <3> SUFFICES ASSUME Bad # {}
                 PROVE  FALSE
      OBVIOUS
    <3>1. PICK m \in Bad : \A j \in Bad : j <= m
      <4>1. Bad \in SUBSET (0..n)
        OBVIOUS
      <4> HIDE DEF Bad, n
      <4> QED
        BY <1>0, <4>1, LargestOf
    <3>2. m \in 0..n /\ from[m] \notin Tally
      BY <3>1
    <3>3. \A j \in (m + 1)..n : from[j] \in Tally
      <4> SUFFICES ASSUME NEW j \in (m + 1)..n
                   PROVE  from[j] \in Tally
        OBVIOUS
      <4>1. j \in 0..n /\ ~(j <= m)
        BY <1>0, <3>2
      <4>2. j \notin Bad
        <5> HIDE DEF Bad
        <5> QED
          BY <3>1, <4>1
      <4> QED
        BY <4>1, <4>2
    <3>4. from[m] = Counted(s, m, from)
      <4> HIDE DEF n
      <4> QED
        BY <1>4, <3>2
    <3>5. Counted(s, m, from) \in Tally
      BY <3>2, <3>3, CountedFrom
    <3> QED
      BY <3>2, <3>4, <3>5
  <2>2. \A i \in 0..n : from[i] \in Tally
    BY <2>1
  <2> HIDE DEF n
  <2>3. from = [i \in 0..n |-> from[i]]
    BY <1>4
  <2> QED
    BY <2>2, <2>3
<1>6. Tallies(s, from)
  <2>1. \A i \in 0..n : from[i] = Counted(s, i, from)
    <3> HIDE DEF n
    <3> QED
      BY <1>4
  <2> QED
    BY <1>5, <2>1 DEF Tallies
<1> QED
  BY <1>1, <1>6

\* What a split that has read the stream s up to place m knows of its counts.
Splits ==
    [state : {"Header", "Payload", "AfterFlush", "Unframed"},
     header : Seq(Bytes), remaining : Nat, total : Nat, pre_flush : Nat,
     pre_flush_pkts : Nat, post_flush : Nat]

\* f[0] is what is counted from place i, and the packets read before it.
CountsFrom(f, split, i) ==
    /\ f[0].pre = f[i].pre
    /\ f[0].pkts = split.pre_flush_pkts + f[i].pkts

InHeader(s, f, split, m) ==
    /\ split.state = "Header"
    /\ split.pre_flush = m /\ split.post_flush = 0
    /\ Len(split.header) <= 3
    /\ \E i \in 0..m : /\ split.header = Part(s, i, m)
                       /\ CountsFrom(f, split, i)

InPayload(s, f, split, m) ==
    LET next == m + split.remaining
    IN  /\ split.state = "Payload"
        /\ split.pre_flush = m /\ split.post_flush = 0
        /\ split.header = <<>>
        /\ split.remaining > 0
        /\ IF next > Len(s)
           THEN f[0] = [pre |-> Len(s), pkts |-> split.pre_flush_pkts]
           ELSE CountsFrom(f, split, next)

Stopped(s, f, split, m) ==
    /\ split.state \in {"AfterFlush", "Unframed"}
    /\ f[0] = [pre |-> split.pre_flush, pkts |-> split.pre_flush_pkts]
    /\ split.pre_flush + split.post_flush = m

ReadTo(s, f, split, m) ==
    /\ split \in Splits
    /\ \/ InHeader(s, f, split, m)
       \/ InPayload(s, f, split, m)
       \/ Stopped(s, f, split, m)

\* At the end of the stream the split's counts are the stream's.
LEMMA ReadToTheEnd ==
    ASSUME NEW s \in Seq(Bytes), NEW f, Tallies(s, f), NEW split,
           ReadTo(s, f, split, Len(s))
    PROVE  /\ split.pre_flush = f[0].pre
           /\ split.pre_flush_pkts = f[0].pkts
           /\ split.post_flush = Len(s) - f[0].pre
<1> DEFINE n == Len(s)
<1>1. n \in Nat
  BY LenProperties
<1>2. split \in Splits
  BY DEF ReadTo
<1>3. CASE InHeader(s, f, split, n)
  <2>1. PICK i \in 0..n : /\ split.header = Part(s, i, n)
                          /\ CountsFrom(f, split, i)
    BY <1>3 DEF InHeader
  <2>2. Len(Part(s, i, n)) = n - i
    <3>1. n \in 0..Len(s)
      BY <1>1
    <3> HIDE DEF n
    <3> QED
      BY <3>1, PartOf
  <2>3. n - i < 4
    BY <1>1, <1>3, <2>1, <2>2 DEF InHeader
  <2>4. f[i] = [pre |-> n, pkts |-> 0]
    BY <2>3 DEF Tallies, Counted
  <2> HIDE DEF n
  <2>5. f[0].pre = n /\ f[0].pkts = split.pre_flush_pkts + 0
    BY <2>1, <2>4 DEF CountsFrom
  <2>6. split.pre_flush = n /\ split.post_flush = 0
    BY <1>3 DEF InHeader
  <2>7. split.pre_flush_pkts \in Nat
    BY <1>2 DEF Splits
  <2> QED
    BY <1>1, <2>5, <2>6, <2>7 DEF n
<1>4. CASE InPayload(s, f, split, n)
  <2>1. split.remaining \in Nat /\ split.remaining > 0
    BY <1>2, <1>4 DEF Splits, InPayload
  <2>2. n + split.remaining > n
    BY <1>1, <2>1
  <2>3. f[0] = [pre |-> n, pkts |-> split.pre_flush_pkts]
    BY <1>4, <2>2 DEF InPayload
  <2> HIDE DEF n
  <2> QED
    BY <1>1, <1>4, <2>3 DEF InPayload, n
<1>5. CASE Stopped(s, f, split, n)
  <2>1. /\ split.pre_flush \in Nat /\ split.post_flush \in Nat
        /\ f[0].pre = split.pre_flush /\ f[0].pkts = split.pre_flush_pkts
        /\ split.pre_flush + split.post_flush = n
    BY <1>2, <1>5 DEF Splits, Stopped
  <2> QED
    BY <1>1, <2>1
<1> QED
  BY <1>3, <1>4, <1>5 DEF ReadTo

\* A header that is whole at place k.
LEMMA HeaderReadReads ==
    ASSUME NEW s \in Seq(Bytes), NEW f, Tallies(s, f),
           NEW split \in Splits, NEW k \in 0..Len(s), NEW i \in 0..k,
           k = i + 4, CountsFrom(f, split, i),
           split.state = "Header",
           split.pre_flush = k, split.post_flush = 0
    PROVE  LET after == HeaderRead(split, Part(s, i, k))
           IN  /\ ReadTo(s, f, after, k)
               /\ after.total = split.total
<1> DEFINE n == Len(s)
           header == Part(s, i, k)
           len == ParseLength(header)
           next == IF len \in {1, 2} THEN i + 4 ELSE i + len
           after == HeaderRead(split, header)
           st  == [split EXCEPT !.header = <<>>]
           pkt == [st EXCEPT !.pre_flush_pkts = @ + 1]
<1>0. n \in Nat /\ k \in Nat /\ i \in Nat /\ i \in 0..n /\ ~(n - i < 4)
  BY LenProperties
<1>1. SubSeq(s, i + 1, i + 4) = header /\ len \in Nat
  BY <1>0, HeaderAt
<1>2. f[i] = IF len = NoLength THEN [pre |-> k, pkts |-> 0]
             ELSE IF len \in {0, 3} THEN [pre |-> k, pkts |-> 0]
             ELSE IF next > n THEN [pre |-> n, pkts |-> 1]
             ELSE [f[next] EXCEPT !.pkts = @ + 1]
  <2>1. f[i] = Counted(s, i, f)
    BY <1>0 DEF Tallies
  <2> QED
    BY <1>0, <1>1, <2>1 DEF Counted
<1>3. /\ st \in Splits /\ st.header = <<>> /\ st.state = "Header"
      /\ st.pre_flush = k /\ st.post_flush = 0 /\ st.total = split.total
      /\ st.pre_flush_pkts = split.pre_flush_pkts
      /\ st.pre_flush_pkts \in Nat
  <2>1. <<>> \in Seq(Bytes)
    BY EmptySeq
  <2> QED
    BY <2>1 DEF Splits
<1>4. /\ pkt \in Splits /\ pkt.header = <<>> /\ pkt.state = "Header"
      /\ pkt.pre_flush = k /\ pkt.post_flush = 0 /\ pkt.total = split.total
      /\ pkt.pre_flush_pkts = split.pre_flush_pkts + 1
  <2> HIDE DEF st
  <2>0. st \in Splits
    BY <1>3
  <2>1. /\ pkt \in Splits
        /\ pkt.header = st.header /\ pkt.state = st.state
        /\ pkt.pre_flush = st.pre_flush /\ pkt.post_flush = st.post_flush
        /\ pkt.total = st.total
        /\ pkt.pre_flush_pkts = st.pre_flush_pkts + 1
    <3> DEFINE more == st.pre_flush_pkts + 1
    <3>1. more \in Nat /\ st.pre_flush_pkts \in Nat
      BY <2>0 DEF Splits
    <3>2. pkt = [st EXCEPT !.pre_flush_pkts = more]
      OBVIOUS
    <3> HIDE DEF more, pkt
    <3>3. pkt \in Splits
      BY <2>0, <3>1, <3>2 DEF Splits
    <3>4. /\ pkt.header = st.header /\ pkt.state = st.state
          /\ pkt.pre_flush = st.pre_flush /\ pkt.post_flush = st.post_flush
          /\ pkt.total = st.total /\ pkt.pre_flush_pkts = more
      BY <2>0, <3>2 DEF Splits
    <3> QED
      BY <3>3, <3>4 DEF more
  <2> HIDE DEF pkt
  <2> QED
    BY <1>3, <2>1
<1>5. after = CASE len = NoLength -> [st EXCEPT !.state = "Unframed"]
                [] len = 0        -> [st EXCEPT !.state = "AfterFlush"]
                [] len \in {1, 2} -> [pkt EXCEPT !.state = "Header"]
                [] len = 3        -> [st EXCEPT !.state = "Unframed"]
                [] OTHER          -> [pkt EXCEPT
                                        !.remaining = len - 4,
                                        !.state = IF len = 4 THEN "Header"
                                                  ELSE "Payload"]
  BY Zenon DEF HeaderRead
<1>6. /\ \A j \in 0..n : f[j] \in Tally
      /\ f[0].pre = f[i].pre
      /\ f[0].pkts = split.pre_flush_pkts + f[i].pkts
      /\ f[0] \in Tally
  <2>1. f \in [0..n -> Tally]
    BY DEF Tallies
  <2>2. 0 \in 0..n
    BY <1>0
  <2> QED
    BY <2>1, <2>2 DEF CountsFrom
<1>7. Part(s, k, k) = <<>>
  BY <1>0, SubSeqEmpty DEF Part
<1> HIDE DEF st, pkt, after, header, len, n
<1>8. CASE len \in {NoLength, 0, 3}
  <2>1. f[i] = [pre |-> k, pkts |-> 0]
    BY <1>2, <1>8
  <2>2. f[0] = [pre |-> k, pkts |-> split.pre_flush_pkts]
    BY <1>3, <1>6, <2>1 DEF Tally
  <2>3. \/ after = [st EXCEPT !.state = "Unframed"]
        \/ after = [st EXCEPT !.state = "AfterFlush"]
    BY <1>5, <1>8 DEF NoLength
  <2>4. /\ after \in Splits /\ after.state \in {"AfterFlush", "Unframed"}
        /\ after.pre_flush = k /\ after.post_flush = 0
        /\ after.total = split.total
        /\ after.pre_flush_pkts = split.pre_flush_pkts
    BY <1>3, <2>3 DEF Splits
  <2>5. Stopped(s, f, after, k)
    BY <1>0, <2>2, <2>4 DEF Stopped
  <2> QED
    BY <2>4, <2>5 DEF ReadTo, after, header
<1>9. CASE len \in {1, 2, 4}
  <2>1. next = k
    BY <1>0, <1>9
  <2>2. f[i] = [f[k] EXCEPT !.pkts = @ + 1] /\ f[k] \in Tally
    <3>1. k \in 0..n /\ ~(k > n) /\ len # NoLength /\ len \notin {0, 3}
      BY <1>0, <1>9 DEF n, NoLength
    <3> HIDE DEF next
    <3> QED
      BY <1>2, <1>6, <2>1, <3>1
  <2>3. /\ f[i].pre = f[k].pre /\ f[i].pkts = f[k].pkts + 1
        /\ f[k].pkts \in Nat
    BY <2>2, OneMorePacket DEF Tally
  <2>4. \/ after = [pkt EXCEPT !.state = "Header"]
        \/ after = [pkt EXCEPT !.remaining = 0, !.state = "Header"]
    <3>1. CASE len \in {1, 2}
      BY <1>5, <3>1 DEF NoLength
    <3>2. CASE len = 4
      <4>1. after = [pkt EXCEPT !.remaining = len - 4,
                                !.state = IF len = 4 THEN "Header"
                                          ELSE "Payload"]
        <5>1. len # NoLength /\ len # 0 /\ len \notin {1, 2} /\ len # 3
          BY <3>2 DEF NoLength
        <5> QED
          BY <1>5, <5>1, Zenon
      <4>2. len - 4 = 0
        BY <3>2
      <4> QED
        BY <3>2, <4>1, <4>2, Zenon
    <3> QED
      BY <1>9, <3>1, <3>2
  <2>5. /\ after \in Splits /\ after.state = "Header" /\ after.header = <<>>
        /\ after.pre_flush = k /\ after.post_flush = 0
        /\ after.total = split.total
        /\ after.pre_flush_pkts = split.pre_flush_pkts + 1
    <3> DEFINE more == split.pre_flush_pkts + 1
    <3>1. /\ pkt \in Splits /\ pkt.header = <<>> /\ pkt.pre_flush = k
          /\ pkt.post_flush = 0 /\ pkt.total = split.total
          /\ pkt.pre_flush_pkts = more
      BY <1>4
    <3> HIDE DEF more
    <3>2. CASE after = [pkt EXCEPT !.state = "Header"]
      BY <3>1, <3>2 DEF Splits, more
    <3>3. CASE after = [pkt EXCEPT !.remaining = 0, !.state = "Header"]
      <4>1. /\ after \in Splits /\ after.state = "Header"
            /\ after.header = pkt.header
            /\ after.pre_flush = pkt.pre_flush
            /\ after.post_flush = pkt.post_flush
            /\ after.total = pkt.total
            /\ after.pre_flush_pkts = pkt.pre_flush_pkts
        BY <3>1, <3>3 DEF Splits
      <4> QED
        BY <3>1, <4>1 DEF more
    <3> QED
      BY <2>4, <3>2, <3>3
  <2>6. CountsFrom(f, after, k)
    <3> DEFINE a == split.pre_flush_pkts
               b == after.pre_flush_pkts
               c == f[k].pkts
               d == f[i].pkts
    <3>1. a \in Nat /\ c \in Nat /\ b = a + 1 /\ d = c + 1
      <4>1. a \in Nat
        BY <1>3 DEF Splits
      <4> QED
        BY <2>3, <2>5, <4>1
    <3>2. f[0].pre = f[k].pre /\ f[0].pkts = a + d
      BY <1>6, <2>3
    <3>3. a + d = b + c
      <4> HIDE DEF a, b, c, d
      <4> QED
        BY <3>1
    <3> QED
      BY <3>2, <3>3 DEF CountsFrom
  <2>7. Len(after.header) <= 3 /\ k \in 0..k
    BY <1>0, <2>5, EmptySeq
  <2>8. InHeader(s, f, after, k)
    BY <1>7, <2>5, <2>6, <2>7 DEF InHeader
  <2> QED
    BY <2>5, <2>8 DEF ReadTo, after, header
<1>10. CASE len > 4 /\ len # NoLength
  <2>1. next = k + (len - 4) /\ len - 4 \in Nat /\ len - 4 > 0
    BY <1>0, <1>1, <1>10
  <2>2. after = [pkt EXCEPT !.remaining = len - 4, !.state = "Payload"]
    <3>1. after = [pkt EXCEPT !.remaining = len - 4,
                              !.state = IF len = 4 THEN "Header"
                                        ELSE "Payload"]
      <4>1. len # 0 /\ len \notin {1, 2} /\ len # 3
        BY <1>1, <1>10
      <4> QED
        BY <1>5, <1>10, <4>1, Zenon
    <3>2. len # 4
      BY <1>1, <1>10
    <3> QED
      BY <3>1, <3>2, Zenon
  <2>3. /\ after \in Splits /\ after.state = "Payload" /\ after.header = <<>>
        /\ after.pre_flush = k /\ after.post_flush = 0
        /\ after.remaining = len - 4
        /\ after.total = split.total
        /\ after.pre_flush_pkts = split.pre_flush_pkts + 1
    BY <1>4, <2>1, <2>2 DEF Splits
  <2>4. len \notin {0, 3}
    BY <1>10
  <2>5. CASE next > n
    <3>1. f[i] = [pre |-> n, pkts |-> 1]
      <4> HIDE DEF next
      <4> QED
        BY <1>2, <1>10, <2>4, <2>5
    <3>2. f[0] = [pre |-> n, pkts |-> split.pre_flush_pkts + 1]
      BY <1>3, <1>6, <3>1 DEF Tally
    <3>3. k + after.remaining > n
      BY <2>1, <2>3, <2>5
    <3>4. InPayload(s, f, after, k)
      BY <2>1, <2>3, <3>2, <3>3 DEF InPayload, n
    <3> QED
      BY <2>3, <3>4 DEF ReadTo, after, header
  <2>6. CASE ~(next > n)
    <3>1. next \in 0..n
      BY <1>0, <2>1, <2>6
    <3>2. f[i] = [f[next] EXCEPT !.pkts = @ + 1] /\ f[next] \in Tally
      <4> HIDE DEF next
      <4> QED
        BY <1>2, <1>6, <1>10, <2>4, <2>6, <3>1
    <3>3. /\ f[i].pre = f[next].pre /\ f[i].pkts = f[next].pkts + 1
          /\ f[next].pkts \in Nat
      <4> HIDE DEF next
      <4> QED
        BY <3>2, OneMorePacket DEF Tally
    <3>4. CountsFrom(f, after, next)
      <4> HIDE DEF next
      <4>1. \A a, b \in Nat : a + (b + 1) = (a + 1) + b
        OBVIOUS
      <4>2. split.pre_flush_pkts + f[i].pkts = after.pre_flush_pkts + f[next].pkts
        BY <1>3, <2>3, <3>3, <4>1
      <4>3. f[0].pre = f[next].pre
        BY <1>6, <3>3
      <4> QED
        BY <1>6, <4>2, <4>3 DEF CountsFrom
    <3>5. k + after.remaining = next
      BY <2>1, <2>3
    <3>6. InPayload(s, f, after, k)
      <4> HIDE DEF next
      <4> QED
        BY <2>1, <2>3, <2>6, <3>4, <3>5 DEF InPayload, n
    <3> QED
      BY <2>3, <3>6 DEF ReadTo, after, header
  <2> QED
    BY <2>5, <2>6
<1> QED
  BY <1>1, <1>8, <1>9, <1>10

\* The part of the stream that is left to feed.
LEMMA RestOfRest ==
    ASSUME NEW s \in Seq(Bytes), NEW e \in 0..Len(s), NEW m \in 0..e,
           NEW take \in 0..(e - m)
    PROVE  LET rest == Part(s, m, e)
           IN  /\ rest \in Seq(Bytes) /\ Len(rest) = e - m
               /\ SubSeq(rest, take + 1, Len(rest)) = Part(s, m + take, e)
               /\ SubSeq(rest, 1, take) = Part(s, m, m + take)
<1> DEFINE rest == Part(s, m, e)
           l == e - m
           k == m + take
<1>1. /\ m + l = e /\ l \in 0..l /\ l \in Nat /\ take \in 0..l /\ m + 0 = m
      /\ 0 \in 0..take /\ 0 + 1 = 1 /\ l \in 0..(e - m) /\ take \in 0..(e - m)
  BY LenProperties
<1>2. rest \in Seq(Bytes) /\ Len(rest) = l
  BY PartOf
<1>3. Part(rest, take, l) = Part(s, k, e)
  <2>1. Part(rest, take, l) = Part(s, m + take, m + l)
    <3> HIDE DEF l
    <3> QED
      BY <1>1, PartOfPart
  <2> QED
    BY <1>1, <2>1
<1>4. Part(rest, 0, take) = Part(s, m, k)
  <2>1. Part(rest, 0, take) = Part(s, m + 0, m + take)
    <3> HIDE DEF l
    <3> QED
      BY <1>1, PartOfPart
  <2> QED
    BY <1>1, <2>1
<1>5. SubSeq(rest, take + 1, Len(rest)) = Part(s, k, e)
  <2> HIDE DEF rest
  <2> QED
    BY <1>2, <1>3 DEF Part
<1>6. SubSeq(rest, 1, take) = Part(s, m, k)
  <2> HIDE DEF rest
  <2> QED
    BY <1>1, <1>4 DEF Part
<1> QED
  BY <1>2, <1>5, <1>6

\* A turn of feed's loop reads on to some later place.
LEMMA FeedOnceReads ==
    ASSUME NEW s \in Seq(Bytes), NEW f, Tallies(s, f),
           NEW e \in 0..Len(s), NEW m \in 0..e, m < e,
           NEW split, ReadTo(s, f, split, m)
    PROVE  LET after == FeedOnce([split |-> split, rest |-> Part(s, m, e)])
           IN  \E k \in (m + 1)..e :
                  /\ after.rest = Part(s, k, e)
                  /\ ReadTo(s, f, after.split, k)
                  /\ after.split.total = split.total
<1> DEFINE rest == Part(s, m, e)
           fed == [split |-> split, rest |-> rest]
           take == Shorter(Want(split), Len(rest))
           k == m + take
           after == FeedOnce(fed)
           read == [split EXCEPT !.pre_flush = @ + take]
<1>0. Len(s) \in Nat /\ m \in Nat /\ e \in Nat /\ split \in Splits
  BY LenProperties DEF ReadTo
<1>1. rest \in Seq(Bytes) /\ Len(rest) = e - m /\ rest # <<>>
  <2>1. rest \in Seq(Bytes) /\ Len(rest) = e - m
    BY PartOf
  <2>2. Len(rest) # 0
    BY <1>0, <2>1
  <2> QED
    BY <2>1, <2>2, EmptySeq
<1>2. CASE Stopped(s, f, split, m)
  <2>1. after = [split |-> [split EXCEPT !.post_flush = @ + Len(rest)],
                 rest |-> <<>>]
    <3>1. split.state \in {"AfterFlush", "Unframed"}
      BY <1>2 DEF Stopped
    <3>2. fed.split = split /\ fed.rest = rest
      OBVIOUS
    <3> HIDE DEF fed, rest
    <3> QED
      BY <1>1, <3>1, <3>2, Zenon DEF FeedOnce
  <2>2. Part(s, e, e) = <<>>
    BY <1>0, SubSeqEmpty DEF Part
  <2> DEFINE more == split.post_flush + Len(rest)
             split2 == [split EXCEPT !.post_flush = more]
  <2>3. more \in Nat /\ split.post_flush \in Nat
    BY <1>0, <1>1 DEF Splits
  <2>4. /\ split2 \in Splits /\ split2.state = split.state
        /\ split2.pre_flush = split.pre_flush
        /\ split2.pre_flush_pkts = split.pre_flush_pkts
        /\ split2.post_flush = more /\ split2.total = split.total
    <3> HIDE DEF more
    <3> QED
      BY <1>0, <2>3 DEF Splits
  <2>5. after.split = split2 /\ after.rest = <<>>
    BY <2>1
  <2> HIDE DEF after, split2
  <2>6. Stopped(s, f, split2, e)
    <3>1. split.pre_flush \in Nat /\ split.pre_flush + split.post_flush = m
      BY <1>0, <1>2 DEF Stopped, Splits
    <3>2. split.pre_flush + more = e
      <4> DEFINE a == split.pre_flush
                 b == split.post_flush
                 l == Len(rest)
      <4>1. /\ a \in Nat /\ b \in Nat /\ m \in Nat /\ e \in Nat
            /\ a + b = m /\ l = e - m
        BY <1>0, <1>1, <2>3, <3>1
      <4> HIDE DEF a, b, l
      <4>2. a + (b + l) = e
        BY <4>1
      <4> QED
        BY <4>2 DEF a, b, l
    <3> HIDE DEF more
    <3> QED
      BY <1>2, <2>4, <3>2 DEF Stopped
  <2>7. e \in (m + 1)..e
    BY <1>0
  <2> QED
    BY <2>2, <2>4, <2>5, <2>6, <2>7 DEF ReadTo, after
<1>3. CASE InHeader(s, f, split, m)
  <2> DEFINE header == split.header \o SubSeq(rest, 1, take)
  <2>1. PICK i \in 0..m : /\ split.header = Part(s, i, m)
                          /\ CountsFrom(f, split, i)
    BY <1>3 DEF InHeader
  <2>2. Len(split.header) = m - i /\ m - i <= 3
    <3>1. m \in 0..Len(s)
      BY <1>0
    <3>2. Len(Part(s, i, m)) = m - i
      BY <3>1, PartOf
    <3> QED
      BY <1>3, <2>1, <3>2 DEF InHeader
  <2>3. Want(split) = 4 - (m - i)
    BY <1>3, <2>2 DEF Want, InHeader
  <2>4. /\ take \in Nat /\ take \in 1..(e - m) /\ take \in 0..(e - m)
        /\ k \in (m + 1)..e /\ k \in 0..e /\ k \in 0..Len(s)
        /\ k - i <= 4 /\ i \in 0..k /\ m \in 0..k
    <3> HIDE DEF rest
    <3> QED
      BY <1>0, <1>1, <2>2, <2>3 DEF Shorter
  <2>5. /\ SubSeq(rest, take + 1, Len(rest)) = Part(s, k, e)
        /\ SubSeq(rest, 1, take) = Part(s, m, k)
    <3> HIDE DEF take
    <3> QED
      BY <2>4, RestOfRest
  <2>6. header = Part(s, i, k) /\ Len(Part(s, i, k)) = k - i
    <3> HIDE DEF k, take
    <3>1. Part(s, i, m) \o Part(s, m, k) = Part(s, i, k)
      BY <2>4, PartsJoin
    <3>2. Len(Part(s, i, k)) = k - i
      BY <2>4, PartOf
    <3> QED
      BY <2>1, <2>5, <3>1, <3>2
  <2>7. after = [split |-> IF Len(header) < 4
                           THEN [read EXCEPT !.header = header]
                           ELSE HeaderRead(read, header),
                 rest |-> SubSeq(rest, take + 1, Len(rest))]
    <3>1. split.state = "Header" /\ split.state \notin {"AfterFlush", "Unframed"}
      BY <1>3 DEF InHeader
    <3>2. fed.split = split /\ fed.rest = rest
      OBVIOUS
    <3> HIDE DEF fed, rest
    <3> QED
      BY <1>1, <3>1, <3>2, Zenon DEF FeedOnce
  <2>8. /\ read \in Splits /\ read.state = "Header"
        /\ read.header = split.header
        /\ read.pre_flush = k /\ read.post_flush = 0
        /\ read.total = split.total
        /\ read.pre_flush_pkts = split.pre_flush_pkts
    <3> DEFINE more == split.pre_flush + take
    <3>1. more = k /\ more \in Nat
      <4> HIDE DEF take
      <4> QED
        BY <1>0, <1>3, <2>4 DEF InHeader
    <3> HIDE DEF take
    <3>2. read = [split EXCEPT !.pre_flush = more]
      OBVIOUS
    <3> HIDE DEF more, read
    <3> QED
      BY <1>0, <1>3, <3>1, <3>2 DEF Splits, InHeader
  <2>9. /\ after.rest = Part(s, k, e)
        /\ after.split = IF k - i < 4
                         THEN [read EXCEPT !.header = Part(s, i, k)]
                         ELSE HeaderRead(read, Part(s, i, k))
    <3> HIDE DEF after, rest, take, k, read, header
    <3> QED
      BY <2>5, <2>6, <2>7
  <2>10. CountsFrom(f, read, i)
    <3> HIDE DEF read
    <3> QED
      BY <2>1, <2>8 DEF CountsFrom
  <2> HIDE DEF read, k, after
  <2>11. CASE k - i < 4
    <3> DEFINE split2 == [read EXCEPT !.header = Part(s, i, k)]
    <3>1. after.split = split2
      BY <2>9, <2>11
    <3>2. Part(s, i, k) \in Seq(Bytes)
      BY <2>4, PartOf
    <3>3. /\ split2 \in Splits /\ split2.header = Part(s, i, k)
          /\ split2.state = "Header"
          /\ split2.pre_flush = k /\ split2.post_flush = 0
          /\ split2.total = split.total
          /\ split2.pre_flush_pkts = read.pre_flush_pkts
      BY <2>8, <3>2 DEF Splits
    <3> HIDE DEF split2
    <3>4. CountsFrom(f, split2, i)
      BY <2>10, <3>3 DEF CountsFrom
    <3>5. Len(split2.header) <= 3
      BY <1>0, <2>4, <2>6, <2>11, <3>3
    <3>6. InHeader(s, f, split2, k)
      BY <2>4, <3>3, <3>4, <3>5 DEF InHeader
    <3> QED
      BY <2>4, <2>9, <3>1, <3>3, <3>6 DEF ReadTo, after
  <2>12. CASE ~(k - i < 4)
    <3>1. k = i + 4
      BY <1>0, <2>4, <2>12
    <3>2. after.split = HeaderRead(read, Part(s, i, k))
      BY <2>9, <2>12
    <3>3. /\ ReadTo(s, f, HeaderRead(read, Part(s, i, k)), k)
          /\ HeaderRead(read, Part(s, i, k)).total = read.total
      BY <2>4, <2>8, <2>10, <3>1, HeaderReadReads
    <3> QED
      BY <2>4, <2>8, <2>9, <3>2, <3>3 DEF after
  <2> QED
    BY <2>11, <2>12
<1>4. CASE InPayload(s, f, split, m)
  <2> DEFINE left == split.remaining - take
             state == IF split.remaining = take THEN "Header" ELSE "Payload"
             split2 == [read EXCEPT !.remaining = left, !.state = state]
             next == m + split.remaining
  <2>1. split.remaining \in Nat /\ split.remaining > 0
    BY <1>0, <1>4 DEF Splits, InPayload
  <2>2. Want(split) = split.remaining
    BY <1>4 DEF Want, InPayload
  <2>3. /\ take \in Nat /\ take \in 0..(e - m) /\ left \in Nat
        /\ k \in (m + 1)..e /\ k \in 0..e /\ k \in 0..Len(s)
        /\ next = k + left
    <3>1. take = Shorter(split.remaining, e - m)
      BY <1>1, <2>2
    <3> HIDE DEF take
    <3>2. take = IF split.remaining <= e - m THEN split.remaining ELSE e - m
      BY <3>1, Zenon DEF Shorter
    <3> QED
      BY <1>0, <2>1, <3>2
  <2>4. SubSeq(rest, take + 1, Len(rest)) = Part(s, k, e)
    <3> HIDE DEF take
    <3> QED
      BY <2>3, RestOfRest
  <2>5. after = [split |-> [read EXCEPT
                              !.remaining = @ - take,
                              !.state = IF split.remaining = take THEN "Header"
                                        ELSE "Payload"],
                 rest |-> SubSeq(rest, take + 1, Len(rest))]
    <3>1. /\ split.state = "Payload" /\ split.state # "Header"
          /\ split.state \notin {"AfterFlush", "Unframed"}
      BY <1>4 DEF InPayload
    <3>2. fed.split = split /\ fed.rest = rest
      OBVIOUS
    <3> HIDE DEF fed, rest
    <3> QED
      BY <1>1, <3>1, <3>2, Zenon DEF FeedOnce
  <2>6. /\ read \in Splits /\ read.remaining = split.remaining
        /\ read.header = <<>>
        /\ read.pre_flush = k /\ read.post_flush = 0
        /\ read.total = split.total
        /\ read.pre_flush_pkts = split.pre_flush_pkts
    <3> DEFINE more == split.pre_flush + take
    <3>1. more = k /\ more \in Nat
      <4> HIDE DEF take
      <4> QED
        BY <1>0, <1>4, <2>3 DEF InPayload
    <3> HIDE DEF take
    <3>2. read = [split EXCEPT !.pre_flush = more]
      OBVIOUS
    <3> HIDE DEF more, read
    <3> QED
      BY <1>0, <1>4, <3>1, <3>2 DEF Splits, InPayload
  <2>7. after.rest = Part(s, k, e) /\ after.split = split2
    <3> HIDE DEF read, rest, take, k, after
    <3> QED
      BY <2>4, <2>5, <2>6
  <2>8. /\ split2 \in Splits /\ split2.state = state
        /\ split2.remaining = left /\ split2.header = <<>>
        /\ split2.pre_flush = k /\ split2.post_flush = 0
        /\ split2.total = split.total
        /\ split2.pre_flush_pkts = split.pre_flush_pkts
    <3>1. state \in {"Header", "Payload"} /\ left \in Nat
      BY <2>3
    <3> HIDE DEF read, state, left, k
    <3> QED
      BY <2>6, <3>1 DEF Splits
  <2>9. k <= Len(s) /\ k \in 0..k /\ k \in Nat
    BY <1>0, <2>3
  <2> HIDE DEF read, split2, after, k
  <2>10. CASE left = 0
    <3>1. state = "Header" /\ next = k
      <4> HIDE DEF take, next
      <4>1. split.remaining = take
        BY <2>1, <2>3, <2>10
      <4> QED
        BY <2>3, <2>9, <2>10, <4>1
    <3>2. ~(next > Len(s))
      <4> HIDE DEF next
      <4> QED
        BY <1>0, <2>9, <3>1
    <3>3. CountsFrom(f, split, k)
      <4>1. CountsFrom(f, split, next)
        BY <1>4, <3>2 DEF InPayload
      <4> HIDE DEF next
      <4> QED
        BY <3>1, <4>1
    <3>4. CountsFrom(f, split2, k)
      BY <2>8, <3>3 DEF CountsFrom
    <3>5. Part(s, k, k) = <<>>
      BY <1>0, <2>9, SubSeqEmpty DEF Part
    <3>6. Len(split2.header) <= 3
      BY <2>8, EmptySeq
    <3>7. InHeader(s, f, split2, k)
      <4> HIDE DEF state
      <4> QED
        BY <2>8, <2>9, <3>1, <3>4, <3>5, <3>6 DEF InHeader
    <3> QED
      BY <2>3, <2>7, <2>8, <3>7 DEF ReadTo, after
  <2>11. CASE left # 0
    <3>1. state = "Payload" /\ left > 0
      <4> HIDE DEF take, next
      <4> QED
        BY <2>1, <2>3, <2>11
    <3>2. k + split2.remaining = next
      BY <2>3, <2>8
    <3>3. IF next > Len(s)
          THEN f[0] = [pre |-> Len(s), pkts |-> split2.pre_flush_pkts]
          ELSE CountsFrom(f, split2, next)
      BY <1>4, <2>8 DEF InPayload, CountsFrom
    <3>4. InPayload(s, f, split2, k)
      <4> HIDE DEF next, left, state
      <4> QED
        BY <2>8, <3>1, <3>2, <3>3 DEF InPayload
    <3> QED
      BY <2>3, <2>7, <2>8, <3>4 DEF ReadTo, after
  <2> QED
    BY <2>10, <2>11
<1> QED
  BY <1>2, <1>3, <1>4 DEF ReadTo

\* What feed's loop may be at between two turns.
Feds(s, f, e, total) ==
    {fed \in [split : Splits, rest : Seq(Bytes)] :
        \E k \in 0..e : /\ fed.rest = Part(s, k, e)
                        /\ ReadTo(s, f, fed.split, k)
                        /\ fed.split.total = total}

LEMMA FeedOnceFeds ==
    ASSUME NEW s \in Seq(Bytes), NEW f, Tallies(s, f),
           NEW e \in 0..Len(s), NEW total, NEW fed \in Feds(s, f, e, total)
    PROVE  /\ FeedOnce(fed) \in Feds(s, f, e, total)
           /\ Len(fed.rest) \in Nat /\ Len(FeedOnce(fed).rest) \in Nat
           /\ \/ Len(FeedOnce(fed).rest) = 0
              \/ Len(FeedOnce(fed).rest) < Len(fed.rest)
<1> DEFINE after == FeedOnce(fed)
           split == fed.split
<1>1. /\ fed \in [split : Splits, rest : Seq(Bytes)]
      /\ split \in Splits /\ fed.rest \in Seq(Bytes)
      /\ fed = [split |-> fed.split, rest |-> fed.rest]
  BY DEF Feds
<1>2. PICK m \in 0..e : /\ fed.rest = Part(s, m, e)
                        /\ ReadTo(s, f, fed.split, m)
                        /\ fed.split.total = total
  BY DEF Feds
<1>3. Len(Part(s, m, e)) = e - m /\ e \in Nat /\ m \in Nat /\ Len(s) \in Nat
  <2>1. Len(s) \in Nat
    BY LenProperties
  <2>2. Len(Part(s, m, e)) = e - m
    BY PartOf
  <2> QED
    BY <2>1, <2>2
<1>4. CASE m = e
  <2>1. fed.rest = <<>>
    BY <1>1, <1>2, <1>3, <1>4, EmptySeq
  <2>2. after = fed
    BY <2>1, Zenon DEF FeedOnce
  <2>3. Len(fed.rest) = 0
    BY <2>1, EmptySeq
  <2> QED
    BY <2>2, <2>3
<1>5. CASE m # e
  <2>1. m < e
    BY <1>3, <1>5
  <2>2. PICK k \in (m + 1)..e :
              /\ after.rest = Part(s, k, e)
              /\ ReadTo(s, f, after.split, k)
              /\ after.split.total = fed.split.total
    <3> DEFINE same == [split |-> fed.split, rest |-> Part(s, m, e)]
    <3>1. \E k \in (m + 1)..e :
              /\ FeedOnce(same).rest = Part(s, k, e)
              /\ ReadTo(s, f, FeedOnce(same).split, k)
              /\ FeedOnce(same).split.total = fed.split.total
      <4> HIDE DEF Feds
      <4> QED
        BY <1>2, <2>1, FeedOnceReads
    <3>2. same = fed
      BY <1>1, <1>2
    <3> HIDE DEF same
    <3> QED
      BY <3>1, <3>2
  <2>3. k \in 0..e /\ Len(Part(s, k, e)) = e - k
    <3>1. k \in 0..e
      BY <1>3
    <3> QED
      BY <3>1, PartOf
  <2>4. \E a, b : after = [split |-> a, rest |-> b]
    <3>1. fed.rest # <<>>
      BY <1>2, <1>3, <2>1, EmptySeq
    <3>2. CASE fed.split.state \in {"AfterFlush", "Unframed"}
      BY <3>1, <3>2, Zenon DEF FeedOnce
    <3>3. CASE fed.split.state = "Header"
      <4>1. fed.split.state \notin {"AfterFlush", "Unframed"}
        BY <3>3
      <4> QED
        BY <3>1, <3>3, <4>1, Zenon DEF FeedOnce
    <3>4. CASE fed.split.state = "Payload"
      <4>1. /\ fed.split.state \notin {"AfterFlush", "Unframed"}
            /\ fed.split.state # "Header"
        BY <3>4
      <4> QED
        BY <3>1, <3>4, <4>1, Zenon DEF FeedOnce
    <3>5. fed.split.state \in {"Header", "Payload", "AfterFlush", "Unframed"}
      BY <1>1 DEF Splits
    <3> QED
      BY <3>2, <3>3, <3>4, <3>5
  <2> HIDE DEF after
  <2>5. after.split \in Splits /\ after.rest \in Seq(Bytes)
    BY <2>2, <2>3, PartOf DEF ReadTo
  <2>6. after \in [split : Splits, rest : Seq(Bytes)]
    BY <2>4, <2>5
  <2>7. after \in Feds(s, f, e, total)
    BY <1>2, <2>2, <2>3, <2>6 DEF Feds
  <2>8. Len(after.rest) = e - k /\ Len(fed.rest) = e - m
    BY <1>2, <1>3, <2>2, <2>3
  <2>9. e - k \in Nat /\ e - m \in Nat /\ e - k < e - m
    BY <1>3
  <2> QED
    BY <2>7, <2>8, <2>9 DEF after
<1> QED
  BY <1>4, <1>5

\* What is fed is read.
LEMMA FeedReads ==
    ASSUME NEW s \in Seq(Bytes), NEW f, Tallies(s, f),
           NEW e \in 0..Len(s), NEW m \in 0..e,
           NEW split, ReadTo(s, f, split, m)
    PROVE  /\ ReadTo(s, f, Feed(split, Part(s, m, e)), e)
           /\ Feed(split, Part(s, m, e)).total = split.total + (e - m)
<1> DEFINE bytes == Part(s, m, e)
           n == Len(bytes)
           total == split.total + (e - m)
           S == Feds(s, f, e, total)
           start == [split |-> [split EXCEPT !.total = @ + n], rest |-> bytes]
           Takes(g) == g = [turn \in 0..n |-> IF turn = 0 THEN start
                                              ELSE FeedOnce(g[turn - 1])]
           fed == CHOOSE g : Takes(g)
<1>1. Feed(split, bytes) = fed[n].split
  BY Zenon DEF Feed
<1>2. bytes \in Seq(Bytes) /\ n = e - m /\ n \in Nat
  <2>1. bytes \in Seq(Bytes) /\ n = e - m
    BY PartOf
  <2> QED
    BY <2>1, LenProperties
<1>3. start \in S
  <2> DEFINE split2 == [split EXCEPT !.total = total]
  <2>1. split \in Splits /\ split.total \in Nat /\ total \in Nat
    <3>1. split \in Splits /\ split.total \in Nat
      BY DEF ReadTo, Splits
    <3>2. e - m \in Nat
      BY LenProperties
    <3> QED
      BY <3>1, <3>2
  <2>2. start = [split |-> split2, rest |-> bytes]
    <3> HIDE DEF bytes
    <3> QED
      BY <1>2
  <2> HIDE DEF total
  <2>3. /\ split2 \in Splits /\ split2.total = total
        /\ split2.state = split.state /\ split2.header = split.header
        /\ split2.remaining = split.remaining
        /\ split2.pre_flush = split.pre_flush
        /\ split2.pre_flush_pkts = split.pre_flush_pkts
        /\ split2.post_flush = split.post_flush
    BY <2>1 DEF Splits
  <2> HIDE DEF split2
  <2>4. ReadTo(s, f, split2, m)
    <3>1. CASE InHeader(s, f, split, m)
      BY <2>3, <3>1 DEF InHeader, CountsFrom, ReadTo
    <3>2. CASE InPayload(s, f, split, m)
      BY <2>3, <3>2 DEF InPayload, CountsFrom, ReadTo
    <3>3. CASE Stopped(s, f, split, m)
      BY <2>3, <3>3 DEF Stopped, ReadTo
    <3> QED
      BY <3>1, <3>2, <3>3 DEF ReadTo
  <2>5. m \in 0..e
    OBVIOUS
  <2> HIDE DEF start
  <2>6. start.split = split2 /\ start.rest = bytes
    BY <2>2
  <2>7. start \in [split : Splits, rest : Seq(Bytes)]
    <3> HIDE DEF bytes
    <3> QED
      BY <1>2, <2>2, <2>3
  <2> QED
    BY <2>3, <2>4, <2>5, <2>6, <2>7 DEF Feds
<1>4. \A x \in S : /\ FeedOnce(x) \in S
                   /\ Len(x.rest) \in Nat /\ Len(FeedOnce(x).rest) \in Nat
                   /\ \/ Len(FeedOnce(x).rest) = 0
                      \/ Len(FeedOnce(x).rest) < Len(x.rest)
  <2> HIDE DEF total
  <2> QED
    BY FeedOnceFeds
<1>5. start.rest = bytes
  OBVIOUS
<1> HIDE DEF start, S
<1>6. PICK g : /\ g \in [0..n -> S]
               /\ g[0] = start
               /\ \A turn \in 1..n : g[turn] = FeedOnce(g[turn - 1])
  <2> HIDE DEF n
  <2> DEFINE step == [p \in (1..n) \X S |-> FeedOnce(p[2])]
  <2>1. step \in [(1..n) \X S -> S]
    <3> DEFINE Body(p) == FeedOnce(p[2])
    <3>1. \A p \in (1..n) \X S : Body(p) \in S
      BY <1>4
    <3>2. step = [p \in (1..n) \X S |-> Body(p)]
      OBVIOUS
    <3> HIDE DEF Body, step
    <3> QED
      BY <3>1, <3>2
  <2>2. PICK g : StepsUp(g, S, start, n, step)
    <3> HIDE DEF step
    <3> QED
      BY <1>2, <1>3, <2>1, Iteration
  <2>3. /\ g \in [0..n -> S] /\ g[0] = start
        /\ \A k \in 1..n : g[k] = step[<<k, g[k - 1]>>]
    BY <2>2 DEF StepsUp
  <2>4. ASSUME NEW turn \in 1..n
        PROVE  g[turn] = FeedOnce(g[turn - 1])
    <3>1. turn - 1 \in 0..n
      BY <1>2
    <3>2. <<turn, g[turn - 1]>> \in (1..n) \X S
      BY <2>3, <3>1
    <3>3. step[<<turn, g[turn - 1]>>] = FeedOnce(g[turn - 1])
      BY <3>2
    <3> QED
      BY <2>3, <3>3
  <2> QED
    BY <2>3, <2>4
<1>7. Takes(g)
  <2> HIDE DEF n
  <2> DEFINE Body(turn) == IF turn = 0 THEN start ELSE FeedOnce(g[turn - 1])
  <2>1. \A turn \in 0..n : g[turn] = Body(turn)
    <3>1. \A turn \in 0..n : turn = 0 \/ turn \in 1..n
      BY <1>2
    <3> QED
      BY <1>6, <3>1
  <2>2. [turn \in 0..n |-> g[turn]] = [turn \in 0..n |-> Body(turn)]
    <3> HIDE DEF Body
    <3> QED
      BY <2>1, Zenon
  <2>3. g = [turn \in 0..n |-> g[turn]]
    BY <1>6
  <2> QED
    BY <2>2, <2>3
<1>8. Takes(fed)
  <2> HIDE DEF Takes
  <2> QED
    BY <1>7
<1> HIDE DEF fed
<1>9. /\ fed[0] = start
      /\ \A turn \in 1..n : fed[turn] = FeedOnce(fed[turn - 1])
  <2>1. fed = [turn \in 0..n |-> IF turn = 0 THEN start
                                 ELSE FeedOnce(fed[turn - 1])]
    BY <1>8
  <2>2. 0 \in 0..n /\ \A turn \in 1..n : turn \in 0..n /\ turn # 0
    BY <1>2
  <2> HIDE DEF n
  <2> QED
    BY <2>1, <2>2
<1> DEFINE Left(x, turn) == Len(x.rest) + turn <= n \/ Len(x.rest) = 0
           Bad == {turn \in 0..n : ~(fed[turn] \in S /\ Left(fed[turn], turn))}
<1>10. Bad = {}
  <2> SUFFICES ASSUME Bad # {}
               PROVE  FALSE
    OBVIOUS
  <2>1. PICK t \in Bad : \A u \in Bad : t <= u
    <3>1. Bad \in SUBSET Nat
      BY <1>2
    <3> HIDE DEF Bad
    <3> QED
      BY <3>1, LeastOf
  <2>2. t \in 0..n /\ ~(fed[t] \in S /\ Left(fed[t], t))
    BY <2>1
  <2>3. t # 0
    <3>1. Len(start.rest) + 0 <= n
      BY <1>2, <1>5
    <3> QED
      BY <1>3, <1>9, <2>2, <3>1
  <2>4. t \in 1..n /\ t - 1 \in 0..n /\ ~(t <= t - 1)
    BY <1>2, <2>2, <2>3
  <2> DEFINE x == fed[t - 1]
  <2>5. x \in S /\ Left(x, t - 1)
    <3>1. t - 1 \notin Bad
      <4> HIDE DEF Bad
      <4> QED
        BY <2>1, <2>4
    <3> HIDE DEF Left
    <3> QED
      BY <2>4, <3>1
  <2>6. fed[t] = FeedOnce(x)
    BY <1>9, <2>4
  <2> HIDE DEF x
  <2>7. FeedOnce(x) \in S /\ Left(FeedOnce(x), t)
    <3> HIDE DEF n
    <3> QED
      BY <1>2, <1>4, <2>4, <2>5
  <2> HIDE DEF Left
  <2> QED
    BY <2>2, <2>6, <2>7
<1>11. fed[n] \in S /\ Len(fed[n].rest) = 0
  <2>1. n \in 0..n
    BY <1>2
  <2>2. fed[n] \in S /\ Left(fed[n], n)
    BY <1>10, <2>1
  <2>3. Len(fed[n].rest) \in Nat
    BY <1>4, <2>2
  <2> HIDE DEF n
  <2> QED
    BY <1>2, <2>2, <2>3
<1>12. PICK k \in 0..e : /\ fed[n].rest = Part(s, k, e)
                         /\ ReadTo(s, f, fed[n].split, k)
                         /\ fed[n].split.total = total
  <2> HIDE DEF n, total
  <2> QED
    BY <1>11 DEF S, Feds
<1>13. k = e
  <2>1. Len(Part(s, k, e)) = e - k
    BY PartOf
  <2>2. e \in Nat /\ k \in Nat
    BY LenProperties
  <2> QED
    BY <1>11, <1>12, <2>1, <2>2
<1> QED
  BY <1>1, <1>12, <1>13

\* A new split has read nothing.
LEMMA NewSplitReads ==
    ASSUME NEW s \in Seq(Bytes), NEW f, Tallies(s, f)
    PROVE  ReadTo(s, f, NewSplit, 0) /\ NewSplit.total = 0
<1>1. <<>> \in Seq(Bytes) /\ Len(<<>>) = 0
  BY EmptySeq
<1>2. NewSplit \in Splits
  BY <1>1 DEF NewSplit, Splits
<1>3. f[0] \in Tally
  <2>1. 0 \in 0..Len(s)
    BY LenProperties
  <2> QED
    BY <2>1 DEF Tallies
<1>4. CountsFrom(f, NewSplit, 0)
  BY <1>3 DEF CountsFrom, NewSplit, Tally
<1>5. Part(s, 0, 0) = <<>>
  BY SubSeqEmpty DEF Part
<1>6. NewSplit.header = Part(s, 0, 0) /\ 0 \in 0..0
  BY <1>5 DEF NewSplit
<1>7. Len(NewSplit.header) <= 3
  BY <1>1 DEF NewSplit
<1>8. InHeader(s, f, NewSplit, 0)
  BY <1>4, <1>6, <1>7 DEF InHeader, NewSplit
<1> QED
  BY <1>2, <1>8 DEF ReadTo, NewSplit

\* FlushSplit::feed, pump_splitting: the counts depend on the bytes that were
\* fed and never on how the reads cut them, be it within a header or within a
\* flush-pkt.
THEOREM SplitIsOfTheStream ==
    ASSUME NEW chunks \in Seq(Seq(Bytes))
    PROVE  WireCounts(PumpSplitting(chunks)) = SplitOf(FlattenSeq(chunks))
<1> DEFINE s == FlattenSeq(chunks)
           n == Len(chunks)
           Takes(g) == g = [k \in 0..n |-> IF k = 0 THEN NewSplit
                                           ELSE Feed(g[k - 1], chunks[k])]
           pumped == CHOOSE g : Takes(g)
<1>1. PumpSplitting(chunks) = pumped[n]
  BY Zenon DEF PumpSplitting
<1>2. s \in Seq(Bytes) /\ n \in Nat /\ Len(s) \in Nat
  BY FlattenJoins, LenProperties
<1>3. PICK pos : Joined(chunks, s, pos)
  BY FlattenJoins
<1>4. /\ pos \in [0..n -> 0..Len(s)] /\ pos[0] = 0 /\ pos[n] = Len(s)
      /\ \A k \in 1..n : /\ pos[k] = pos[k - 1] + Len(chunks[k])
                         /\ Part(s, pos[k - 1], pos[k]) = chunks[k]
  BY <1>3 DEF Joined
<1> HIDE DEF s
<1>5. PICK f : /\ Tallies(s, f)
               /\ SplitOf(s) = [total |-> Len(s), pre_flush |-> f[0].pre,
                                pre_flush_pkts |-> f[0].pkts,
                                post_flush |-> Len(s) - f[0].pre]
  BY <1>2, SplitOfTallies
<1> DEFINE At(split, k) == /\ ReadTo(s, f, split, pos[k])
                           /\ split.total = pos[k]
<1>6. ASSUME NEW k \in 1..n, NEW split, At(split, k - 1)
      PROVE  At(Feed(split, chunks[k]), k)
  <2> DEFINE m == pos[k - 1]
             e == pos[k]
  <2>1. k \in 0..n /\ k - 1 \in 0..n
    BY <1>2
  <2>2. e \in 0..Len(s) /\ m \in 0..Len(s)
    <3> HIDE DEF n
    <3> QED
      BY <1>4, <2>1
  <2>3. chunks[k] \in Seq(Bytes) /\ Len(chunks[k]) \in Nat
    <3>1. chunks[k] \in Seq(Bytes)
      BY ElementOfSeq
    <3> QED
      BY <3>1, LenProperties
  <2>4. e = m + Len(chunks[k]) /\ Part(s, m, e) = chunks[k]
    BY <1>4
  <2>5. m \in 0..e /\ m + (e - m) = e
    BY <2>2, <2>3, <2>4
  <2>6. ReadTo(s, f, split, m) /\ split.total = m
    BY <1>6
  <2> HIDE DEF m, e
  <2>7. /\ ReadTo(s, f, Feed(split, Part(s, m, e)), e)
        /\ Feed(split, Part(s, m, e)).total = split.total + (e - m)
    BY <1>2, <1>5, <2>2, <2>5, <2>6, FeedReads
  <2>8. ReadTo(s, f, Feed(split, chunks[k]), e)
        /\ Feed(split, chunks[k]).total = e
    BY <2>4, <2>5, <2>6, <2>7
  <2> QED
    BY <2>8 DEF e
<1>7. At(NewSplit, 0)
  BY <1>2, <1>4, <1>5, NewSplitReads
<1>8. \A k \in 0..n : \A split : At(split, k) => split \in Splits
  BY DEF ReadTo
<1> HIDE DEF At
<1>9. \E g : Takes(g) /\ At(g[n], n)
  <2> HIDE DEF n
  <2> DEFINE step == [p \in (1..n) \X Splits |->
                         IF At(p[2], p[1] - 1) THEN Feed(p[2], chunks[p[1]])
                         ELSE NewSplit]
  <2>1. step \in [(1..n) \X Splits -> Splits]
    <3> DEFINE Body(p) == IF At(p[2], p[1] - 1) THEN Feed(p[2], chunks[p[1]])
                          ELSE NewSplit
    <3>1. \A p \in (1..n) \X Splits : Body(p) \in Splits
      <4>1. ASSUME NEW k \in 1..n, NEW x \in Splits, At(x, k - 1)
            PROVE  Feed(x, chunks[k]) \in Splits
        <5>1. At(Feed(x, chunks[k]), k) /\ k \in 0..n
          BY <1>6, <4>1
        <5> QED
          BY <1>8, <5>1
      <4>2. NewSplit \in Splits /\ 0 \in 0..n
        BY <1>2, <1>7, <1>8
      <4> QED
        BY <4>1, <4>2
    <3>2. step = [p \in (1..n) \X Splits |-> Body(p)]
      OBVIOUS
    <3> HIDE DEF Body, step
    <3> QED
      BY <3>1, <3>2
  <2>2. PICK g : StepsUp(g, Splits, NewSplit, n, step)
    <3>1. NewSplit \in Splits
      <4>1. 0 \in 0..n
        BY <1>2
      <4> QED
        BY <1>7, <1>8, <4>1
    <3> HIDE DEF step
    <3> QED
      BY <1>2, <2>1, <3>1, Iteration
  <2>3. /\ g \in [0..n -> Splits] /\ g[0] = NewSplit
        /\ \A k \in 1..n : g[k] = step[<<k, g[k - 1]>>]
    BY <2>2 DEF StepsUp
  <2>4. ASSUME NEW k \in 1..n, At(g[k - 1], k - 1)
        PROVE  g[k] = Feed(g[k - 1], chunks[k])
    <3>1. k - 1 \in 0..n
      BY <1>2
    <3>2. <<k, g[k - 1]>> \in (1..n) \X Splits
      BY <2>3, <3>1
    <3>3. step[<<k, g[k - 1]>>] = Feed(g[k - 1], chunks[k])
      BY <2>4, <3>2
    <3> QED
      BY <2>3, <3>3
  <2> HIDE DEF step
  <2> DEFINE Bad == {k \in 0..n : ~At(g[k], k)}
  <2>5. Bad = {}
    <3> SUFFICES ASSUME Bad # {}
                 PROVE  FALSE
      OBVIOUS
    <3>1. PICK k \in Bad : \A j \in Bad : k <= j
      <4>1. Bad \in SUBSET Nat
        BY <1>2
      <4> HIDE DEF Bad
      <4> QED
        BY <4>1, LeastOf
    <3>2. k \in 0..n /\ ~At(g[k], k)
      BY <3>1
    <3>3. k # 0
      BY <1>7, <2>3, <3>2
    <3>4. k \in 1..n /\ k - 1 \in 0..n /\ ~(k <= k - 1)
      BY <1>2, <3>2, <3>3
    <3>5. At(g[k - 1], k - 1)
      <4>1. k - 1 \notin Bad
        <5> HIDE DEF Bad
        <5> QED
          BY <3>1, <3>4
      <4> QED
        BY <3>4, <4>1
    <3>6. g[k] = Feed(g[k - 1], chunks[k])
      BY <2>4, <3>4, <3>5
    <3>7. At(Feed(g[k - 1], chunks[k]), k)
      BY <1>6, <3>4, <3>5
    <3> QED
      BY <3>2, <3>6, <3>7
  <2>6. \A k \in 0..n : At(g[k], k)
    BY <2>5
  <2>7. Takes(g)
    <3> DEFINE Body(k) == IF k = 0 THEN NewSplit ELSE Feed(g[k - 1], chunks[k])
    <3>1. \A k \in 0..n : g[k] = Body(k)
      <4> SUFFICES ASSUME NEW k \in 0..n
                   PROVE  g[k] = Body(k)
        OBVIOUS
      <4>1. CASE k = 0
        BY <2>3, <4>1
      <4>2. CASE k # 0
        <5>1. k \in 1..n /\ k - 1 \in 0..n
          BY <1>2, <4>2
        <5>2. g[k] = Feed(g[k - 1], chunks[k])
          BY <2>4, <2>6, <5>1
        <5> QED
          BY <4>2, <5>2
      <4> QED
        BY <4>1, <4>2
    <3>2. [k \in 0..n |-> g[k]] = [k \in 0..n |-> Body(k)]
      <4> HIDE DEF Body
      <4> QED
        BY <3>1, Zenon
    <3>3. g = [k \in 0..n |-> g[k]]
      BY <2>3
    <3> QED
      BY <3>2, <3>3
  <2>8. n \in 0..n
    BY <1>2
  <2> HIDE DEF Takes
  <2> QED
    BY <2>6, <2>7, <2>8
<1>10. Takes(pumped)
  <2> HIDE DEF Takes
  <2> QED
    BY <1>9
<1> HIDE DEF pumped
<1>11. At(pumped[n], n)
  <2>1. pumped = [k \in 0..n |-> IF k = 0 THEN NewSplit
                                 ELSE Feed(pumped[k - 1], chunks[k])]
    BY <1>10
  <2>2. /\ pumped[0] = NewSplit
        /\ \A k \in 1..n : pumped[k] = Feed(pumped[k - 1], chunks[k])
    <3>1. 0 \in 0..n /\ \A k \in 1..n : k \in 0..n /\ k # 0
      BY <1>2
    <3> HIDE DEF n
    <3> QED
      BY <2>1, <3>1
  <2> DEFINE Bad == {k \in 0..n : ~At(pumped[k], k)}
  <2>3. Bad = {}
    <3> SUFFICES ASSUME Bad # {}
                 PROVE  FALSE
      OBVIOUS
    <3>1. PICK k \in Bad : \A j \in Bad : k <= j
      <4>1. Bad \in SUBSET Nat
        BY <1>2
      <4> HIDE DEF Bad
      <4> QED
        BY <4>1, LeastOf
    <3>2. k \in 0..n /\ ~At(pumped[k], k)
      BY <3>1
    <3>3. k # 0
      BY <1>7, <2>2, <3>2
    <3>4. k \in 1..n /\ k - 1 \in 0..n /\ ~(k <= k - 1)
      BY <1>2, <3>2, <3>3
    <3>5. At(pumped[k - 1], k - 1)
      <4>1. k - 1 \notin Bad
        <5> HIDE DEF Bad
        <5> QED
          BY <3>1, <3>4
      <4> QED
        BY <3>4, <4>1
    <3>6. At(Feed(pumped[k - 1], chunks[k]), k)
      BY <1>6, <3>4, <3>5
    <3>7. pumped[k] = Feed(pumped[k - 1], chunks[k])
      <4> HIDE DEF n
      <4> QED
        BY <2>2, <3>4
    <3> QED
      BY <3>2, <3>6, <3>7
  <2>4. n \in 0..n
    BY <1>2
  <2> QED
    BY <2>3, <2>4
<1>12. ReadTo(s, f, pumped[n], Len(s)) /\ pumped[n].total = Len(s)
  BY <1>4, <1>11 DEF At
<1>13. /\ pumped[n].pre_flush = f[0].pre
       /\ pumped[n].pre_flush_pkts = f[0].pkts
       /\ pumped[n].post_flush = Len(s) - f[0].pre
  BY <1>2, <1>5, <1>12, ReadToTheEnd
<1>14. WireCounts(pumped[n]) = SplitOf(s)
  <2> HIDE DEF n
  <2> QED
    BY <1>5, <1>12, <1>13 DEF WireCounts
<1> QED
  BY <1>1, <1>14 DEF s

-----------------------------------------------------------------------------
(* The probe.                                                              *)

\* A pkt-line in a stream.
LEMMA LineAt ==
    ASSUME NEW s \in Seq(Bytes), NEW b \in 0..Len(s), NEW a \in 0..b,
           NEW payload \in Seq(Bytes), Len(payload) + 4 < NoLength,
           Part(s, a, b) = Framed(payload)
    PROVE  /\ b - a = Len(payload) + 4
           /\ ParseLength(SubSeq(s, a + 1, a + 4)) = b - a
           /\ SubSeq(s, a + 5, a + (b - a)) = payload
<1> DEFINE len == Len(payload) + 4
           t == Part(s, a, b)
<1>1. Len(s) \in Nat /\ Len(payload) \in Nat
  BY LenProperties
<1>2. t \in Seq(Bytes) /\ Len(t) = b - a
  BY PartOf
<1>3. /\ Len(t) = len
      /\ ParseLength(SubSeq(t, 1, 4)) = len
      /\ SubSeq(t, 5, len) = payload
  <2>1. <<>> \in Seq(Bytes) /\ Len(<<>>) = 0
    BY EmptySeq
  <2>2. BeginsWith(Framed(payload) \o <<>>, len, payload, <<>>)
    BY <2>1, FramedIsRead
  <2>3. Framed(payload) \o <<>> = t
    BY <1>2, ConcatEmptySeq
  <2> HIDE DEF t, len
  <2>4. BeginsWith(t, len, payload, <<>>)
    BY <2>2, <2>3
  <2> QED
    BY <1>2, <2>1, <2>4 DEF BeginsWith
<1>4. len = b - a
  BY <1>2, <1>3
<1>5. SubSeq(t, 1, 4) = SubSeq(s, a + 1, a + 4)
  <2>1. /\ 4 \in 0..(b - a) /\ 0 \in 0..4 /\ a + 0 = a /\ 0 + 1 = 1
    BY <1>1, <1>4
  <2>2. Part(t, 0, 4) = Part(s, a + 0, a + 4)
    BY <2>1, PartOfPart
  <2> HIDE DEF t
  <2> QED
    BY <2>1, <2>2 DEF Part
<1>6. SubSeq(t, 5, len) = SubSeq(s, a + 5, a + (b - a))
  <2>1. /\ len \in 0..(b - a) /\ 4 \in 0..len /\ 4 + 1 = 5
        /\ a + 4 + 1 = a + 5 /\ a + len = a + (b - a)
    BY <1>1, <1>4
  <2>2. Part(t, 4, len) = Part(s, a + 4, a + len)
    <3> HIDE DEF len
    <3> QED
      BY <2>1, PartOfPart
  <2> HIDE DEF t, len
  <2> QED
    BY <2>1, <2>2 DEF Part
<1> HIDE DEF t
<1> QED
  BY <1>3, <1>4, <1>5, <1>6

\* A flush-pkt in a stream.
LEMMA FlushAt ==
    ASSUME NEW s \in Seq(Bytes), NEW b \in 0..Len(s), NEW a \in 0..b,
           Part(s, a, b) = FlushPkt
    PROVE  /\ b - a = 4
           /\ ParseLength(SubSeq(s, a + 1, a + 4)) = 0
<1>1. Len(Part(s, a, b)) = b - a
  BY PartOf
<1>2. Len(FlushPkt) = 4
  BY DEF FlushPkt
<1>3. b - a = 4 /\ b = a + 4
  <2>1. Len(s) \in Nat
    BY LenProperties
  <2>2. b - a = 4
    BY <1>1, <1>2, Zenon
  <2> QED
    BY <2>1, <2>2
<1>4. ParseLength(FlushPkt) = 0
  BY DEF ParseLength, FlushPkt, HexDigit, Plus
<1>5. SubSeq(s, a + 1, a + 4) = FlushPkt
  BY <1>3 DEF Part
<1> QED
  BY <1>3, <1>4, <1>5

\* The lines of an advertisement, the flush-pkt that ends it and whatever
\* comes behind it.
Advertised(items, k, payloads) ==
    /\ items \in Seq(Seq(Bytes))
    /\ k \in 1..Len(items)
    /\ items[k] = FlushPkt
    /\ payloads \in [1..(k - 1) -> Seq(Bytes)]
    /\ \A j \in 1..(k - 1) : /\ items[j] = Framed(payloads[j])
                             /\ Len(payloads[j]) + 4 < NoLength

\* Where its lines lie, and what is read there.
LinesAt(s, k, payloads, pos) ==
    /\ k \in Nat /\ k >= 1
    /\ pos \in [0..k -> 0..Len(s)]
    /\ pos[0] = 0
    /\ pos[k] = pos[k - 1] + 4
    /\ ParseLength(SubSeq(s, pos[k - 1] + 1, pos[k - 1] + 4)) = 0
    /\ \A j \in 1..(k - 1) :
          /\ pos[j] - pos[j - 1] \in Nat
          /\ pos[j] - pos[j - 1] >= 4
          /\ pos[j] - pos[j - 1] < NoLength
          /\ ParseLength(SubSeq(s, pos[j - 1] + 1, pos[j - 1] + 4))
               = pos[j] - pos[j - 1]
          /\ SubSeq(s, pos[j - 1] + 5, pos[j - 1] + (pos[j] - pos[j - 1]))
               = payloads[j]

LEMMA LinesLie ==
    ASSUME NEW items, NEW k, NEW payloads, Advertised(items, k, payloads)
    PROVE  /\ FlattenSeq(items) \in Seq(Bytes)
           /\ \E pos : LinesAt(FlattenSeq(items), k, payloads, pos)
<1> DEFINE s == FlattenSeq(items)
           n == Len(items)
<1>1. /\ items \in Seq(Seq(Bytes)) /\ k \in 1..n /\ n \in Nat
      /\ s \in Seq(Bytes) /\ Len(s) \in Nat
  BY FlattenJoins, LenProperties DEF Advertised
<1>2. PICK pos : Joined(items, s, pos)
  BY <1>1, FlattenJoins
<1> HIDE DEF s
<1>3. /\ pos \in [0..n -> 0..Len(s)] /\ pos[0] = 0
      /\ \A j \in 1..n : /\ pos[j] = pos[j - 1] + Len(items[j])
                         /\ Part(s, pos[j - 1], pos[j]) = items[j]
  BY <1>2 DEF Joined
<1>4. ASSUME NEW j \in 1..k
      PROVE  /\ pos[j] \in 0..Len(s) /\ pos[j - 1] \in 0..pos[j]
             /\ Part(s, pos[j - 1], pos[j]) = items[j]
  <2>1. j \in 1..n /\ j \in 0..n /\ j - 1 \in 0..n
    BY <1>1
  <2>2. items[j] \in Seq(Bytes)
    BY <1>1, <2>1, ElementOfSeq
  <2>3. Len(items[j]) \in Nat
    BY <2>2, LenProperties
  <2> HIDE DEF n
  <2>4. pos[j] \in 0..Len(s) /\ pos[j - 1] \in 0..Len(s)
    BY <1>3, <2>1
  <2>5. pos[j] = pos[j - 1] + Len(items[j])
    BY <1>3, <2>1
  <2>6. pos[j - 1] \in 0..pos[j]
    <3> DEFINE x == pos[j - 1]
               y == pos[j]
               l == Len(items[j])
    <3>1. x \in 0..Len(s) /\ y \in 0..Len(s) /\ y = x + l /\ l \in Nat
      BY <2>3, <2>4, <2>5
    <3> HIDE DEF x, y, l
    <3>2. x \in 0..y
      BY <1>1, <3>1
    <3> QED
      BY <3>2 DEF x, y
  <2> QED
    BY <1>3, <2>1, <2>4, <2>6
<1>5. /\ pos[k] - pos[k - 1] = 4
      /\ ParseLength(SubSeq(s, pos[k - 1] + 1, pos[k - 1] + 4)) = 0
  <2> DEFINE a == pos[k - 1]
             b == pos[k]
  <2>1. b \in 0..Len(s) /\ a \in 0..b /\ Part(s, a, b) = FlushPkt
    <3>1. k \in 1..k
      BY <1>1
    <3> QED
      BY <1>4, <3>1 DEF Advertised
  <2> HIDE DEF a, b
  <2>2. b - a = 4 /\ ParseLength(SubSeq(s, a + 1, a + 4)) = 0
    BY <1>1, <2>1, FlushAt
  <2> QED
    BY <2>2 DEF a, b
<1>6. ASSUME NEW j \in 1..(k - 1)
      PROVE  /\ pos[j] - pos[j - 1] \in Nat
             /\ pos[j] - pos[j - 1] >= 4
             /\ pos[j] - pos[j - 1] < NoLength
             /\ ParseLength(SubSeq(s, pos[j - 1] + 1, pos[j - 1] + 4))
                  = pos[j] - pos[j - 1]
             /\ SubSeq(s, pos[j - 1] + 5,
                       pos[j - 1] + (pos[j] - pos[j - 1]))
                  = payloads[j]
  <2> DEFINE a == pos[j - 1]
             b == pos[j]
             payload == payloads[j]
  <2>1. /\ b \in 0..Len(s) /\ a \in 0..b /\ Part(s, a, b) = Framed(payload)
        /\ payload \in Seq(Bytes) /\ Len(payload) + 4 < NoLength
    <3>1. j \in 1..k
      BY <1>1
    <3> QED
      BY <1>4, <3>1 DEF Advertised
  <2>2. Len(payload) \in Nat
    BY <2>1, LenProperties
  <2> HIDE DEF a, b, payload
  <2>3. /\ b - a = Len(payload) + 4
        /\ ParseLength(SubSeq(s, a + 1, a + 4)) = b - a
        /\ SubSeq(s, a + 5, a + (b - a)) = payload
    BY <1>1, <2>1, LineAt
  <2>4. b - a \in Nat /\ b - a >= 4 /\ b - a < NoLength
    BY <2>1, <2>2, <2>3
  <2> QED
    BY <2>3, <2>4 DEF a, b, payload
<1> DEFINE here == [j \in 0..k |-> pos[j]]
<1>7. /\ here \in [0..k -> 0..Len(s)]
      /\ \A j \in 0..k : here[j] = pos[j]
  <2>1. \A j \in 0..k : j \in 0..n
    BY <1>1
  <2> HIDE DEF n
  <2> QED
    BY <1>3, <2>1
<1>8. /\ 0 \in 0..k /\ k - 1 \in 0..k /\ k \in 0..k
      /\ \A j \in 1..(k - 1) : j \in 0..k /\ j - 1 \in 0..k
  BY <1>1
<1> HIDE DEF here, n
<1>9. /\ here[0] = 0 /\ here[k] = pos[k] /\ here[k - 1] = pos[k - 1]
      /\ pos[k] = pos[k - 1] + 4
  <2>1. pos[k] \in 0..Len(s) /\ pos[k - 1] \in 0..Len(s)
    BY <1>7, <1>8
  <2>2. pos[k] = pos[k - 1] + 4
    BY <1>1, <1>5, <2>1
  <2> QED
    BY <1>3, <1>7, <1>8, <2>2
<1>10. \A j \in 1..(k - 1) : here[j] = pos[j] /\ here[j - 1] = pos[j - 1]
  BY <1>7, <1>8
<1>11. k \in Nat /\ k >= 1
  BY <1>1
<1>12. LinesAt(s, k, payloads, here)
  BY <1>5, <1>6, <1>7, <1>9, <1>10, <1>11 DEF LinesAt
<1> QED
  BY <1>1, <1>12 DEF s

\* FlushSplit on it: a packet for every line, and the flush-pkt ends it.
LEMMA AdvertisementSplit ==
    ASSUME NEW s \in Seq(Bytes), NEW k, NEW payloads, NEW pos,
           LinesAt(s, k, payloads, pos)
    PROVE  /\ SplitOf(s).pre_flush = pos[k]
           /\ SplitOf(s).pre_flush_pkts = k - 1
<1> DEFINE n == Len(s)
<1>0. /\ k \in Nat /\ k >= 1
      /\ pos \in [0..k -> 0..Len(s)]
      /\ pos[0] = 0 /\ pos[k] = pos[k - 1] + 4
      /\ ParseLength(SubSeq(s, pos[k - 1] + 1, pos[k - 1] + 4)) = 0
      /\ \A j \in 1..(k - 1) :
            /\ pos[j] - pos[j - 1] \in Nat
            /\ pos[j] - pos[j - 1] >= 4
            /\ pos[j] - pos[j - 1] < NoLength
            /\ ParseLength(SubSeq(s, pos[j - 1] + 1, pos[j - 1] + 4))
                 = pos[j] - pos[j - 1]
  BY DEF LinesAt
<1> USE <1>0
<1>1. n \in Nat
  BY LenProperties
<1>2. PICK f : /\ Tallies(s, f)
               /\ SplitOf(s) = [total |-> n, pre_flush |-> f[0].pre,
                                pre_flush_pkts |-> f[0].pkts,
                                post_flush |-> n - f[0].pre]
  BY SplitOfTallies
<1>3. \A j \in 0..k : pos[j] \in Nat /\ pos[j] <= n
  BY <1>1
<1> DEFINE From(d) == f[pos[k - 1 - d]] = [pre |-> pos[k], pkts |-> d]
           Bad == {d \in 0..(k - 1) : ~From(d)}
<1>4. From(0)
  <2> DEFINE i == pos[k - 1]
  <2>1. k - 1 \in 0..k /\ k \in 0..k /\ k - 1 - 0 = k - 1
    OBVIOUS
  <2>2. i \in 0..n /\ pos[k] = i + 4 /\ ~(n - i < 4) /\ i \in Nat
    <3>1. i \in Nat /\ i <= n /\ pos[k] \in Nat /\ pos[k] <= n
      BY <1>3, <2>1
    <3> HIDE DEF n
    <3> QED
      BY <1>1, <3>1
  <2>3. f[i] = Counted(s, i, f)
    BY <1>2, <2>2 DEF Tallies
  <2>4. ParseLength(SubSeq(s, i + 1, i + 4)) = 0
    OBVIOUS
  <2> HIDE DEF i
  <2>5. Counted(s, i, f) = [pre |-> i + 4, pkts |-> 0]
    BY <2>2, <2>4 DEF Counted, NoLength
  <2> QED
    BY <2>1, <2>2, <2>3, <2>5 DEF i
<1>5. ASSUME NEW d \in 1..(k - 1), From(d - 1)
      PROVE  From(d)
  <2> DEFINE j == k - d
             i == pos[j - 1]
             e == pos[j]
             len == e - i
  <2>1. /\ j \in 1..(k - 1) /\ j \in 0..k /\ j - 1 \in 0..k
        /\ k - 1 - d = j - 1 /\ k - 1 - (d - 1) = j
    OBVIOUS
  <2>2. f[e] = [pre |-> pos[k], pkts |-> d - 1]
    BY <1>5, <2>1
  <2> HIDE DEF j
  <2>3. /\ len \in Nat /\ len >= 4 /\ len < NoLength
        /\ ParseLength(SubSeq(s, i + 1, i + 4)) = len
    BY <2>1
  <2>4. /\ i \in Nat /\ i <= n /\ e \in Nat /\ e <= n
    BY <1>3, <2>1
  <2> HIDE DEF i, e
  <2>5. i + len = e /\ ~(n - i < 4) /\ i \in 0..n
    BY <1>1, <2>3, <2>4
  <2>6. f[i] = Counted(s, i, f)
    BY <1>2, <2>5 DEF Tallies
  <2>7. Counted(s, i, f) = [f[e] EXCEPT !.pkts = @ + 1]
    <3>1. len # NoLength /\ len \notin {0, 3} /\ len \notin {1, 2} /\ ~(e > n)
      BY <1>1, <2>3, <2>4 DEF NoLength
    <3> HIDE DEF len, n
    <3> QED
      BY <2>3, <2>5, <3>1 DEF Counted, n
  <2>8. f[i] = [pre |-> pos[k], pkts |-> d]
    <3>1. d - 1 + 1 = d
      OBVIOUS
    <3> QED
      BY <2>2, <2>6, <2>7, <3>1
  <2> QED
    BY <2>1, <2>8 DEF i
<1>6. Bad = {}
  <2> SUFFICES ASSUME Bad # {}
               PROVE  FALSE
    OBVIOUS
  <2>1. PICK d \in Bad : \A c \in Bad : d <= c
    <3>1. Bad \in SUBSET Nat
      OBVIOUS
    <3> HIDE DEF Bad
    <3> QED
      BY <3>1, LeastOf
  <2>2. d \in 0..(k - 1) /\ ~From(d)
    BY <2>1
  <2> HIDE DEF From
  <2>3. d \in 1..(k - 1) /\ d - 1 \in 0..(k - 1) /\ ~(d <= d - 1)
    BY <1>4, <2>2
  <2>4. From(d - 1)
    <3>1. d - 1 \notin Bad
      <4> HIDE DEF Bad
      <4> QED
        BY <2>1, <2>3
    <3> QED
      BY <2>3, <3>1
  <2> QED
    BY <1>5, <2>2, <2>3, <2>4
<1>7. From(k - 1) /\ k - 1 - (k - 1) = 0
  <2>1. k - 1 \in 0..(k - 1) /\ k - 1 - (k - 1) = 0
    OBVIOUS
  <2> HIDE DEF From
  <2> QED
    BY <1>6, <2>1
<1>8. f[0] = [pre |-> pos[k], pkts |-> k - 1]
  BY <1>7
<1> QED
  BY <1>2, <1>8

\* What the probe may have read.
Reads ==
    [result : {"reading", "advertisement"}, bytes : Nat,
     refs : [all : Nat, ours : Nat], error : BOOLEAN] \cup {ReadError}

LEMMA WithNameCounts ==
    ASSUME NEW refs \in [all : Nat, ours : Nat], NEW payload
    PROVE  /\ WithName(refs, payload) \in [all : Nat, ours : Nat]
           /\ WithName(refs, payload).all
                = IF NamesRef(payload) THEN refs.all + 1 ELSE refs.all
<1> DEFINE more == IF NamesRef(payload) THEN 1 ELSE 0
           mine == IF NamesRef(payload) /\ payload[1] = OurRef THEN 1 ELSE 0
<1>1. more \in {0, 1} /\ mine \in {0, 1}
  OBVIOUS
<1>2. WithName(refs, payload) = [all |-> refs.all + more,
                                 ours |-> refs.ours + mine]
  BY DEF WithName
<1>3. refs.all + more = IF NamesRef(payload) THEN refs.all + 1 ELSE refs.all
  OBVIOUS
<1> HIDE DEF more, mine
<1> QED
  BY <1>1, <1>2, <1>3

LEMMA ReadLineReads ==
    ASSUME NEW s \in Seq(Bytes), NEW ending, NEW read \in Reads
    PROVE  ReadLine(s, ending, read) \in Reads
<1> DEFINE at      == read.bytes
           left    == Len(s) - at
           len     == ParseLength(SubSeq(s, at + 1, at + 4))
           payload == SubSeq(s, at + 5, at + len)
           after   == ReadLine(s, ending, read)
<1>1. CASE read.result # "reading"
  <2>1. after = read
    BY <1>1, Zenon DEF ReadLine
  <2> QED
    BY <2>1
<1>2. CASE read.result = "reading"
  <2>1. /\ at \in Nat /\ read.refs \in [all : Nat, ours : Nat]
        /\ read \in [result : {"reading", "advertisement"}, bytes : Nat,
                     refs : [all : Nat, ours : Nat], error : BOOLEAN]
    <3>1. ReadError.result # "reading"
      BY DEF ReadError
    <3> QED
      BY <1>2, <3>1 DEF Reads
  <2>2. Len(s) \in Nat /\ at + 4 \in Nat
    BY <2>1, LenProperties
  <2>3. left >= 4 => len \in Nat
    <3>1. left >= 4 => at \in 0..Len(s) /\ ~(Len(s) - at < 4)
      BY <2>1, <2>2
    <3> QED
      BY <3>1, HeaderAt
  <2>4. \A b \in Nat, r \in [all : Nat, ours : Nat], e \in BOOLEAN :
           Saw(b, r, e) \in Reads
    BY DEF Saw, Reads
  <2>5. ReadError \in Reads /\ NoRefs \in [all : Nat, ours : Nat]
    BY DEF Reads, NoRefs
  <2>6. WithName(read.refs, payload) \in [all : Nat, ours : Nat]
    <3> HIDE DEF payload
    <3> QED
      BY <2>1, WithNameCounts
  <2>7. \A b \in Nat, r \in [all : Nat, ours : Nat] :
           [read EXCEPT !.bytes = b, !.refs = r] \in Reads
    BY <2>1 DEF Reads
  <2>8. CASE left < 4
    <3>1. after = IF ending = "eof" THEN Saw(at, read.refs, FALSE)
                  ELSE ReadError
      <4>1. ~(left >= 4)
        BY <2>1, <2>2, <2>8
      <4> QED
        BY <1>2, <2>8, <4>1, Zenon DEF ReadLine
    <3> HIDE DEF after, at
    <3> QED
      BY <2>1, <2>4, <2>5, <3>1 DEF after
  <2>9. CASE ~(left < 4)
    <3>1. left >= 4 /\ len \in Nat
      BY <2>1, <2>2, <2>3, <2>9
    <3>2. CASE len = NoLength
      <4>1. after = Saw(at + 4, NoRefs, FALSE)
        <5>1. ~(len < 4)
          BY <3>2 DEF NoLength
        <5> QED
          BY <1>2, <2>9, <3>1, <3>2, <5>1, Zenon DEF ReadLine
      <4> HIDE DEF after, at
      <4> QED
        BY <2>2, <2>4, <2>5, <4>1 DEF after
    <3>3. CASE len # NoLength /\ len < 4
      <4>1. after = Saw(at + 4, read.refs, FALSE)
        <5>1. ~(len >= 4)
          BY <3>1, <3>3
        <5> QED
          BY <1>2, <2>9, <3>1, <3>3, <5>1, Zenon DEF ReadLine
      <4>2. Saw(at + 4, read.refs, FALSE) \in Reads
        <5> DEFINE next == at + 4
        <5>1. next \in Nat
          BY <2>2
        <5> HIDE DEF next, at
        <5>2. Saw(next, read.refs, FALSE) \in Reads
          BY <2>1, <2>4, <5>1
        <5> QED
          BY <5>2 DEF next, at
      <4> QED
        BY <4>1, <4>2
    <3>4. CASE len # NoLength /\ ~(len < 4) /\ left < len
      <4>1. len >= 4
        BY <3>1, <3>4
      <4>2. after = ReadError
        BY <1>2, <2>9, <3>1, <3>4, <4>1, Zenon DEF ReadLine
      <4> QED
        BY <2>5, <4>2
    <3>5. CASE len # NoLength /\ ~(len < 4) /\ ~(left < len)
      <4>1. after = IF IsErr(payload) THEN Saw(at + len, read.refs, TRUE)
                    ELSE [read EXCEPT !.bytes = at + len,
                                      !.refs = WithName(@, payload)]
        BY <1>2, <2>9, <3>5, Zenon DEF ReadLine
      <4>2. at + len \in Nat
        <5> HIDE DEF len, at
        <5> QED
          BY <2>1, <3>1
      <4> HIDE DEF payload, len, after, at
      <4>3. [read EXCEPT !.bytes = at + len, !.refs = WithName(@, payload)]
              = [read EXCEPT !.bytes = at + len,
                             !.refs = WithName(read.refs, payload)]
        BY <2>1
      <4>4. Saw(at + len, read.refs, TRUE) \in Reads
        BY <2>1, <2>4, <4>2
      <4>5. [read EXCEPT !.bytes = at + len,
                         !.refs = WithName(read.refs, payload)] \in Reads
        BY <2>6, <2>7, <4>2
      <4> QED
        BY <4>1, <4>3, <4>4, <4>5 DEF after
    <3> QED
      BY <3>2, <3>3, <3>4, <3>5
  <2> QED
    BY <2>8, <2>9
<1> QED
  BY <1>1, <1>2

\* The lines of an advertisement that name no ref.
Nameless(payloads, t) == {j \in 1..t : ~NamesRef(payloads[j])}

LEMMA NamelessGrow ==
    ASSUME NEW payloads, NEW t \in Nat
    PROVE  /\ Cardinality(Nameless(payloads, t)) \in Nat
           /\ Cardinality(Nameless(payloads, t + 1))
                = IF NamesRef(payloads[t + 1])
                  THEN Cardinality(Nameless(payloads, t))
                  ELSE Cardinality(Nameless(payloads, t)) + 1
<1> DEFINE A == Nameless(payloads, t)
           B == Nameless(payloads, t + 1)
<1>1. IsFiniteSet(A) /\ t + 1 \notin A
  <2>1. IsFiniteSet(1..t) /\ A \subseteq 1..t
    BY FS_Interval DEF Nameless
  <2>2. t + 1 \notin 1..t
    OBVIOUS
  <2> HIDE DEF A
  <2> QED
    BY <2>1, <2>2, FS_Subset
<1>2. B = IF NamesRef(payloads[t + 1]) THEN A ELSE A \cup {t + 1}
  <2>1. \A j : j \in 1..(t + 1) <=> j \in 1..t \/ j = t + 1
    OBVIOUS
  <2> DEFINE u == t + 1
  <2> HIDE DEF u
  <2>2. \A j : j \in 1..u <=> j \in 1..t \/ j = u
    BY <2>1 DEF u
  <2>3. Nameless(payloads, u) = IF NamesRef(payloads[u])
                                THEN Nameless(payloads, t)
                                ELSE Nameless(payloads, t) \cup {u}
    BY <2>2 DEF Nameless
  <2> QED
    BY <2>3 DEF u
<1> HIDE DEF A, B
<1>3. Cardinality(A) \in Nat
  BY <1>1, FS_CardinalityType
<1>4. Cardinality(A \cup {t + 1}) = Cardinality(A) + 1
  BY <1>1, FS_AddElement
<1> QED
  BY <1>2, <1>3, <1>4 DEF A, B

\* The turns of read_advertisement's loop.
TurnsOf(s, ending, read) ==
    /\ read[0] = Reading
    /\ \A t \in 1..(Len(s) + 1) : read[t] = ReadLine(s, ending, read[t - 1])
    /\ ReadAdvertisement(s, ending) = read[Len(s) + 1]

LEMMA ReadingTurns ==
    ASSUME NEW s \in Seq(Bytes), NEW ending
    PROVE  \E read : TurnsOf(s, ending, read)
<1> DEFINE n == Len(s) + 1
           Turn(read) == ReadLine(s, ending, read)
           Takes(g) == g = [turn \in 0..n |-> IF turn = 0 THEN Reading
                                              ELSE Turn(g[turn - 1])]
           read == CHOOSE g : Takes(g)
<1>1. ReadAdvertisement(s, ending) = read[n]
  BY Zenon DEF ReadAdvertisement
<1>2. n \in Nat /\ Len(s) \in Nat
  BY LenProperties
<1>3. Reading \in Reads
  BY DEF Reading, Reads, NoRefs
<1>4. \A x \in Reads : Turn(x) \in Reads
  BY ReadLineReads
<1> HIDE DEF Turn
<1>5. \E g : Takes(g) /\ g \in [0..n -> Reads]
  <2> HIDE DEF n
  <2> DEFINE step == [p \in (1..n) \X Reads |-> Turn(p[2])]
  <2>1. step \in [(1..n) \X Reads -> Reads]
    <3> DEFINE Body(p) == Turn(p[2])
    <3>1. \A p \in (1..n) \X Reads : Body(p) \in Reads
      BY <1>4
    <3>2. step = [p \in (1..n) \X Reads |-> Body(p)]
      OBVIOUS
    <3> HIDE DEF Body, step
    <3> QED
      BY <3>1, <3>2
  <2>2. PICK g : StepsUp(g, Reads, Reading, n, step)
    <3> HIDE DEF step
    <3> QED
      BY <1>2, <1>3, <2>1, Iteration
  <2>3. /\ g \in [0..n -> Reads] /\ g[0] = Reading
        /\ \A t \in 1..n : g[t] = step[<<t, g[t - 1]>>]
    BY <2>2 DEF StepsUp
  <2>4. \A t \in 1..n : g[t] = Turn(g[t - 1])
    <3> SUFFICES ASSUME NEW t \in 1..n
                 PROVE  g[t] = Turn(g[t - 1])
      OBVIOUS
    <3>1. t - 1 \in 0..n
      BY <1>2
    <3>2. <<t, g[t - 1]>> \in (1..n) \X Reads
      BY <2>3, <3>1
    <3>3. step[<<t, g[t - 1]>>] = Turn(g[t - 1])
      BY <3>2
    <3> QED
      BY <2>3, <3>3
  <2> DEFINE Body(t) == IF t = 0 THEN Reading ELSE Turn(g[t - 1])
  <2>5. \A t \in 0..n : g[t] = Body(t)
    <3>1. \A t \in 0..n : t = 0 \/ t \in 1..n
      BY <1>2
    <3> QED
      BY <2>3, <2>4, <3>1
  <2>6. [t \in 0..n |-> g[t]] = [t \in 0..n |-> Body(t)]
    <3> HIDE DEF Body
    <3> QED
      BY <2>5, Zenon
  <2>7. g = [t \in 0..n |-> g[t]]
    BY <2>3
  <2>8. Takes(g)
    BY <2>6, <2>7
  <2> HIDE DEF Takes
  <2> QED
    BY <2>3, <2>8
<1>6. Takes(read)
  <2> HIDE DEF Takes
  <2> QED
    BY <1>5
<1> HIDE DEF read
<1>7. /\ read[0] = Reading
      /\ \A t \in 1..n : read[t] = Turn(read[t - 1])
  <2>1. read = [t \in 0..n |-> IF t = 0 THEN Reading ELSE Turn(read[t - 1])]
    BY <1>6
  <2>2. 0 \in 0..n /\ \A t \in 1..n : t \in 0..n /\ t # 0
    BY <1>2
  <2> HIDE DEF n
  <2> QED
    BY <2>1, <2>2
<1> QED
  BY <1>1, <1>7 DEF TurnsOf, Turn, n

\* A turn that finds a whole header, or has read one, has read four bytes.
LEMMA TurnGoesOn ==
    ASSUME NEW s \in Seq(Bytes), NEW ending, NEW read \in Reads,
           read.result = "reading",
           read.bytes >= 4 \/ Len(s) - read.bytes >= 4
    PROVE  LET after == ReadLine(s, ending, read)
           IN  \/ after.result = "error"
               \/ after.bytes \in Nat /\ after.bytes >= 4
<1> DEFINE at      == read.bytes
           left    == Len(s) - at
           len     == ParseLength(SubSeq(s, at + 1, at + 4))
           payload == SubSeq(s, at + 5, at + len)
           after   == ReadLine(s, ending, read)
<1>1. at \in Nat /\ read.result = "reading" /\ Len(s) \in Nat
      /\ read \in [result : {"reading", "advertisement"}, bytes : Nat,
                   refs : [all : Nat, ours : Nat], error : BOOLEAN]
  <2>1. ReadError.result # "reading"
    BY DEF ReadError
  <2> QED
    BY <2>1, LenProperties DEF Reads
<1>2. CASE left < 4
  <2>1. at >= 4 /\ ~(left >= 4)
    BY <1>1, <1>2
  <2>2. after = IF ending = "eof" THEN Saw(at, read.refs, FALSE)
                ELSE ReadError
    BY <1>1, <1>2, <2>1, Zenon DEF ReadLine
  <2> HIDE DEF after, at
  <2>3. after.result = "error" \/ after.bytes = at
    BY <2>2 DEF Saw, ReadError
  <2> QED
    BY <1>1, <2>1, <2>3 DEF after
<1>3. CASE ~(left < 4)
  <2>1. left >= 4 /\ len \in Nat
    <3>1. at \in 0..Len(s) /\ ~(Len(s) - at < 4) /\ left >= 4
      BY <1>1, <1>3
    <3> QED
      BY <3>1, HeaderAt
  <2>2. /\ at + 4 \in Nat /\ at + 4 >= 4
        /\ len >= 4 => at + len \in Nat /\ at + len >= 4
    <3> HIDE DEF len, at
    <3> QED
      BY <1>1, <2>1
  <2>3. ReadError.result = "error"
    BY DEF ReadError
  <2>4. \A b, refs, e : Saw(b, refs, e).bytes = b
    BY DEF Saw
  <2>6. \/ after.result = "error" \/ after.bytes = at + 4
        \/ len >= 4 /\ after.bytes = at + len
    <3>1. CASE len = NoLength
      <4>1. ~(len < 4)
        BY <3>1 DEF NoLength
      <4>2. after = Saw(at + 4, NoRefs, FALSE)
        BY <1>1, <1>3, <2>1, <3>1, <4>1, Zenon DEF ReadLine
      <4> HIDE DEF after, at
      <4> QED
        BY <2>4, <4>2
    <3>2. CASE len # NoLength /\ len < 4
      <4>1. ~(len >= 4)
        BY <2>1, <3>2
      <4>2. after = Saw(at + 4, read.refs, FALSE)
        BY <1>1, <1>3, <2>1, <3>2, <4>1, Zenon DEF ReadLine
      <4> HIDE DEF after, at
      <4> QED
        BY <2>4, <4>2
    <3>3. CASE len # NoLength /\ ~(len < 4) /\ left < len
      <4>1. len >= 4
        BY <2>1, <3>3
      <4>2. after = ReadError
        BY <1>1, <1>3, <2>1, <3>3, <4>1, Zenon DEF ReadLine
      <4> QED
        BY <2>3, <4>2
    <3>4. CASE len # NoLength /\ ~(len < 4) /\ ~(left < len)
      <4>1. len >= 4
        BY <2>1, <3>4
      <4>2. after = IF IsErr(payload) THEN Saw(at + len, read.refs, TRUE)
                    ELSE [read EXCEPT !.bytes = at + len,
                                      !.refs = WithName(@, payload)]
        BY <1>1, <1>3, <2>1, <3>4, Zenon DEF ReadLine
      <4>3. [read EXCEPT !.bytes = at + len, !.refs = WithName(@, payload)]
              = [read EXCEPT !.bytes = at + len,
                             !.refs = WithName(read.refs, payload)]
        <5> HIDE DEF at, len, payload
        <5> QED
          BY <1>1
      <4> HIDE DEF after, at, len, payload
      <4>4. \/ after = Saw(at + len, read.refs, TRUE)
            \/ after = [read EXCEPT !.bytes = at + len,
                                    !.refs = WithName(read.refs, payload)]
        BY <4>2, <4>3
      <4>5. Saw(at + len, read.refs, TRUE).bytes = at + len
        BY DEF Saw
      <4>6. [read EXCEPT !.bytes = at + len,
                         !.refs = WithName(read.refs, payload)].bytes
              = at + len
        BY <1>1
      <4> QED
        BY <4>1, <4>4, <4>5, <4>6, Zenon
    <3> QED
      BY <3>1, <3>2, <3>3, <3>4
  <2> HIDE DEF after, at, len
  <2> QED
    BY <2>2, <2>6 DEF after
<1> QED
  BY <1>2, <1>3

\* What its first turn reaches and no turn leaves is where it ends.
LEMMA TurnsStay ==
    ASSUME NEW s \in Seq(Bytes), NEW ending, NEW S,
           ReadLine(s, ending, Reading) \in S,
           \A x \in S : ReadLine(s, ending, x) \in S
    PROVE  ReadAdvertisement(s, ending) \in S
<1> DEFINE n == Len(s) + 1
           Turn(x) == ReadLine(s, ending, x)
<1>1. n \in Nat /\ n >= 1
  BY LenProperties
<1>2. PICK read : /\ read[0] = Reading
                  /\ \A t \in 1..n : read[t] = Turn(read[t - 1])
                  /\ ReadAdvertisement(s, ending) = read[n]
  BY ReadingTurns DEF TurnsOf
<1>3. Turn(Reading) \in S /\ \A x \in S : Turn(x) \in S
  OBVIOUS
<1> HIDE DEF n, Turn
<1> DEFINE Left == {t \in 1..n : read[t] \notin S}
<1>4. Left = {}
  <2> SUFFICES ASSUME Left # {}
               PROVE  FALSE
    OBVIOUS
  <2>1. PICK t \in Left : \A u \in Left : t <= u
    <3>1. Left \in SUBSET Nat
      BY <1>1
    <3> HIDE DEF Left
    <3> QED
      BY <3>1, LeastOf
  <2>2. t \in 1..n /\ read[t] \notin S
    BY <2>1
  <2>3. read[t] = Turn(read[t - 1])
    BY <1>2, <2>2
  <2>4. t # 1
    <3>1. t = 1 => t - 1 = 0
      OBVIOUS
    <3> QED
      BY <1>2, <1>3, <2>2, <2>3, <3>1
  <2>5. t - 1 \in 1..n /\ ~(t <= t - 1)
    BY <1>1, <2>2, <2>4
  <2>6. read[t - 1] \in S
    <3>1. t - 1 \notin Left
      <4> HIDE DEF Left
      <4> QED
        BY <2>1, <2>5
    <3> QED
      BY <2>5, <3>1
  <2> QED
    BY <1>3, <2>2, <2>3, <2>6
<1>5. n \in 1..n
  BY <1>1
<1> QED
  BY <1>2, <1>4, <1>5

\* read_advertisement on such a stream: up to the flush-pkt, a name from every
\* line that has one.
LEMMA AdvertisementRead ==
    ASSUME NEW s \in Seq(Bytes), NEW k, NEW payloads, NEW pos,
           LinesAt(s, k, payloads, pos),
           \A j \in 1..(k - 1) : ~IsErr(payloads[j]),
           NEW ending
    PROVE  LET seen == ReadAdvertisement(s, ending)
           IN  /\ seen.result = "advertisement" /\ ~seen.error
               /\ seen.bytes = pos[k]
               /\ seen.refs.all + Cardinality(Nameless(payloads, k - 1))
                    = k - 1
<1> DEFINE n == Len(s) + 1
           Turn(x) == ReadLine(s, ending, x)
<1>0. /\ k \in Nat /\ k >= 1
      /\ pos \in [0..k -> 0..Len(s)]
      /\ pos[0] = 0 /\ pos[k] = pos[k - 1] + 4
      /\ ParseLength(SubSeq(s, pos[k - 1] + 1, pos[k - 1] + 4)) = 0
      /\ \A j \in 1..(k - 1) :
            /\ pos[j] - pos[j - 1] \in Nat
            /\ pos[j] - pos[j - 1] >= 4
            /\ pos[j] - pos[j - 1] < NoLength
            /\ ParseLength(SubSeq(s, pos[j - 1] + 1, pos[j - 1] + 4))
                 = pos[j] - pos[j - 1]
            /\ SubSeq(s, pos[j - 1] + 5, pos[j - 1] + (pos[j] - pos[j - 1]))
                 = payloads[j]
  BY DEF LinesAt
<1> USE <1>0
<1>1. PICK read : /\ read[0] = Reading
                  /\ \A t \in 1..n : read[t] = Turn(read[t - 1])
                  /\ ReadAdvertisement(s, ending) = read[n]
  BY ReadingTurns DEF TurnsOf
<1>2. n \in Nat /\ Len(s) \in Nat
  BY LenProperties
<1> HIDE DEF Turn
<1>7. /\ read[0] = Reading
      /\ \A t \in 1..n : read[t] = Turn(read[t - 1])
  BY <1>1
<1>8. \A j \in 0..k : pos[j] \in Nat /\ pos[j] <= Len(s)
  BY <1>2
<1> DEFINE Silent(t) == Cardinality(Nameless(payloads, t))
           At(x, t) == /\ x \in [result : {"reading"}, bytes : Nat,
                                 refs : [all : Nat, ours : Nat],
                                 error : {FALSE}]
                       /\ x.bytes = pos[t]
                       /\ pos[t] >= t
                       /\ x.refs.all + Silent(t) = t
<1>9. At(Reading, 0)
  <2>1. Nameless(payloads, 0) = {}
    BY DEF Nameless
  <2>2. Silent(0) = 0
    BY <2>1, FS_EmptySet
  <2> HIDE DEF Silent
  <2> QED
    BY <2>2 DEF Reading, NoRefs
<1>10. ASSUME NEW t \in 1..(k - 1), NEW x, At(x, t - 1)
       PROVE  At(Turn(x), t)
  <2> DEFINE i == pos[t - 1]
             e == pos[t]
             len == e - i
             payload == payloads[t]
  <2>1. t \in 0..k /\ t - 1 \in 0..k /\ t - 1 \in Nat /\ t - 1 + 1 = t
    OBVIOUS
  <2>2. /\ i \in Nat /\ e \in Nat /\ e <= Len(s) /\ i <= Len(s) /\ i >= t - 1
        /\ x.bytes = i
        /\ x \in [result : {"reading"}, bytes : Nat,
                  refs : [all : Nat, ours : Nat], error : {FALSE}]
    BY <1>8, <1>10, <2>1
  <2>3. /\ len \in Nat /\ len >= 4 /\ len < NoLength
        /\ ParseLength(SubSeq(s, i + 1, i + 4)) = len
        /\ SubSeq(s, i + 5, i + len) = payload
        /\ ~IsErr(payload)
    OBVIOUS
  <2>4. x.refs.all + Silent(t - 1) = t - 1
    BY <1>10
  <2>5. /\ Silent(t - 1) \in Nat
        /\ Silent(t) = IF NamesRef(payload) THEN Silent(t - 1)
                       ELSE Silent(t - 1) + 1
    <3> DEFINE u == t - 1
    <3>1. /\ Cardinality(Nameless(payloads, u)) \in Nat
          /\ Cardinality(Nameless(payloads, u + 1))
               = IF NamesRef(payloads[u + 1])
                 THEN Cardinality(Nameless(payloads, u))
                 ELSE Cardinality(Nameless(payloads, u)) + 1
      <4>1. u \in Nat
        BY <2>1
      <4> HIDE DEF u
      <4> QED
        BY <4>1, NamelessGrow
    <3> QED
      BY <2>1, <3>1
  <2> HIDE DEF i, e, payload, Silent
  <2>6. /\ i + len = e /\ Len(s) - i >= 4 /\ ~(Len(s) - i < 4)
        /\ ~(Len(s) - i < len) /\ len # NoLength /\ ~(len < 4) /\ e >= t
    <3> HIDE <1>0
    <3>1. /\ i \in Nat /\ e \in Nat /\ e <= Len(s) /\ i >= t - 1
          /\ t \in Nat /\ len \in Nat /\ len >= 4 /\ len < NoLength
      BY <2>1, <2>2, <2>3
    <3>2. i + len = e /\ e >= t /\ Len(s) - i >= len
      BY <1>2, <3>1
    <3> HIDE DEF len
    <3>3. ~(len < 4) /\ len # NoLength
      BY <3>1 DEF NoLength
    <3>4. Len(s) - i >= 4 /\ ~(Len(s) - i < 4) /\ ~(Len(s) - i < len)
      BY <1>2, <3>1, <3>2
    <3> QED
      BY <3>2, <3>3, <3>4
  <2>7. x.result = "reading"
    BY <2>2
  <2>8. Turn(x) = [x EXCEPT !.bytes = i + len, !.refs = WithName(@, payload)]
    <3> HIDE DEF len
    <3> QED
      BY <2>2, <2>3, <2>6, <2>7, Zenon DEF Turn, ReadLine
  <2>9. /\ WithName(x.refs, payload) \in [all : Nat, ours : Nat]
        /\ WithName(x.refs, payload).all
             = IF NamesRef(payload) THEN x.refs.all + 1 ELSE x.refs.all
    BY <2>2, WithNameCounts
  <2> DEFINE refs == WithName(x.refs, payload)
  <2>10. Turn(x) = [x EXCEPT !.bytes = e, !.refs = refs]
    BY <2>2, <2>6, <2>8
  <2>11. refs.all + Silent(t) = t
    <3> HIDE <1>0
    <3> DEFINE m == x.refs.all
               r == refs.all
               u == Silent(t - 1)
               v == Silent(t)
               names == NamesRef(payload)
    <3>1. /\ m \in Nat /\ u \in Nat /\ m + u = t - 1
          /\ r = IF names THEN m + 1 ELSE m
          /\ v = IF names THEN u ELSE u + 1
      BY <2>2, <2>4, <2>5, <2>9
    <3> HIDE DEF m, r, u, v, names
    <3>2. r + v = t
      BY <3>1
    <3> QED
      BY <3>2 DEF r, v
  <2>12. refs \in [all : Nat, ours : Nat]
    BY <2>9
  <2> HIDE DEF refs
  <2>13. /\ Turn(x) \in [result : {"reading"}, bytes : Nat,
                         refs : [all : Nat, ours : Nat], error : {FALSE}]
         /\ Turn(x).bytes = e /\ Turn(x).refs = refs
    BY <2>2, <2>10, <2>12
  <2> QED
    BY <2>6, <2>11, <2>13 DEF e
<1>11. ASSUME NEW x, At(x, k - 1)
       PROVE  /\ Turn(x) = Saw(pos[k], x.refs, FALSE)
              /\ k \in 1..n
              /\ x.refs.all + Silent(k - 1) = k - 1
  <2> DEFINE i == pos[k - 1]
  <2>1. k - 1 \in 0..k /\ k \in 0..k
    OBVIOUS
  <2>2. /\ i \in Nat /\ pos[k] = i + 4 /\ i + 4 <= Len(s) /\ i >= k - 1
        /\ x.bytes = i /\ x.result = "reading"
    BY <1>8, <1>11, <2>1
  <2>3. ParseLength(SubSeq(s, i + 1, i + 4)) = 0
    OBVIOUS
  <2>4. x.refs.all + Silent(k - 1) = k - 1
    BY <1>11
  <2> HIDE DEF i, Silent
  <2>5. /\ Len(s) - i >= 4 /\ ~(Len(s) - i < 4) /\ k \in 1..n
        /\ 0 < 4 /\ ~(0 >= 4) /\ 0 # NoLength
    BY <1>2, <2>2 DEF NoLength
  <2>6. Turn(x) = Saw(i + 4, x.refs, FALSE)
    BY <2>2, <2>3, <2>5, Zenon DEF Turn, ReadLine
  <2> QED
    BY <2>2, <2>4, <2>5, <2>6
<1> DEFINE Bad == {t \in 0..n : t <= k - 1 /\ ~At(read[t], t)}
<1>12. Bad = {}
  <2> SUFFICES ASSUME Bad # {}
               PROVE  FALSE
    OBVIOUS
  <2>1. PICK t \in Bad : \A u \in Bad : t <= u
    <3>1. Bad \in SUBSET Nat
      <4> HIDE <1>0 DEF At, n
      <4> QED
        BY <1>2
    <3> HIDE DEF Bad
    <3> QED
      BY <3>1, LeastOf
  <2>2. t \in 0..n /\ t <= k - 1 /\ ~At(read[t], t)
    BY <2>1
  <2> HIDE DEF At
  <2>3. t # 0
    BY <1>7, <1>9, <2>2
  <2>4. /\ t \in 1..n /\ t - 1 \in 0..n /\ t - 1 <= k - 1 /\ ~(t <= t - 1)
        /\ t \in 1..(k - 1)
    BY <1>2, <2>2, <2>3
  <2>5. At(read[t - 1], t - 1)
    <3>1. t - 1 \notin Bad
      <4> HIDE DEF Bad
      <4> QED
        BY <2>1, <2>4
    <3> QED
      BY <2>4, <3>1
  <2>6. read[t] = Turn(read[t - 1])
    BY <1>7, <2>4
  <2> QED
    BY <1>10, <2>2, <2>4, <2>5, <2>6
<1> HIDE DEF At
<1>13. k - 1 \in 0..n /\ At(read[k - 1], k - 1)
  <2>1. k - 1 \in 0..n
    <3> DEFINE last == IF k - 1 <= n THEN k - 1 ELSE n
    <3>1. last \in 0..n /\ last <= k - 1
      BY <1>2
    <3>2. At(read[last], last)
      <4> HIDE DEF last
      <4> QED
        BY <1>12, <3>1
    <3>3. pos[last] >= last /\ pos[last] <= Len(s) /\ last \in Nat
          /\ pos[last] \in Nat
      <4>1. last \in 0..k
        BY <1>2
      <4> HIDE DEF last
      <4> QED
        BY <1>8, <3>1, <3>2, <4>1 DEF At
    <3>4. last # n
      <4> DEFINE at == pos[last]
      <4>1. at >= last /\ at <= Len(s) /\ last \in Nat /\ at \in Nat
        BY <3>3
      <4> HIDE <1>0 DEF last, at
      <4> QED
        BY <1>2, <4>1
    <3> QED
      BY <1>2, <3>4
  <2>2. k - 1 \notin Bad
    <3> HIDE DEF Bad
    <3> QED
      BY <1>12
  <2> HIDE <1>0 DEF n
  <2> QED
    BY <2>1, <2>2
<1> DEFINE seen == Saw(pos[k], read[k - 1].refs, FALSE)
<1>14. /\ k \in 1..n /\ read[k] = seen
       /\ read[k - 1].refs.all + Silent(k - 1) = k - 1
  <2> HIDE DEF n
  <2> QED
    BY <1>7, <1>11, <1>13
<1>15. seen.result = "advertisement" /\ Turn(seen) = seen
  <2>1. seen.result = "advertisement" /\ seen.result # "reading"
    BY DEF Saw
  <2> HIDE DEF seen
  <2> QED
    BY <2>1, Zenon DEF Turn, ReadLine
<1> DEFINE Gone == {t \in 0..n : t >= k /\ read[t] # seen}
<1>16. Gone = {}
  <2> SUFFICES ASSUME Gone # {}
               PROVE  FALSE
    OBVIOUS
  <2>1. PICK t \in Gone : \A u \in Gone : t <= u
    <3>1. Gone \in SUBSET Nat
      <4> HIDE <1>0 DEF seen, n
      <4> QED
        BY <1>2
    <3> HIDE DEF Gone
    <3> QED
      BY <3>1, LeastOf
  <2>2. t \in 0..n /\ t >= k /\ read[t] # seen
    BY <2>1
  <2> HIDE DEF seen
  <2>3. t # k
    BY <1>14, <2>2
  <2>4. t \in 1..n /\ t - 1 \in 0..n /\ t - 1 >= k /\ ~(t <= t - 1)
    BY <1>2, <2>2, <2>3
  <2>5. read[t - 1] = seen
    <3>1. t - 1 \notin Gone
      <4> HIDE DEF Gone
      <4> QED
        BY <2>1, <2>4
    <3> QED
      BY <2>4, <3>1
  <2> QED
    BY <1>7, <1>15, <2>2, <2>4, <2>5
<1>17. read[n] = seen
  <2>1. n \in 0..n /\ n >= k
    BY <1>2, <1>14
  <2> HIDE DEF seen
  <2> QED
    BY <1>16, <2>1
<1>18. /\ seen.result = "advertisement" /\ ~seen.error
       /\ seen.bytes = pos[k] /\ seen.refs = read[k - 1].refs
  BY DEF Saw
<1> HIDE DEF seen
<1> QED
  BY <1>1, <1>14, <1>17, <1>18

\* probe: an answer that ended within its first four bytes is no receive-pack,
\* and no other is.
LEMMA ShortIsNotReceivePack ==
    ASSUME NEW s \in Seq(Bytes), NEW ending \in {"eof", "timeout"},
           NEW sent \in BOOLEAN
    PROVE  ProbeVerdict(ReadAdvertisement(s, ending), sent) = "NotReceivePack"
             <=> Len(s) < 4 /\ ending = "eof"
<1> DEFINE seen == ReadAdvertisement(s, ending)
           first == ReadLine(s, ending, Reading)
           Told(x) == \/ x.result = "error"
                      \/ x.bytes \in Nat /\ x.bytes >= 4
<1>1. Len(s) \in Nat /\ Reading \in Reads
  BY LenProperties DEF Reading, Reads, NoRefs
<1>2. /\ Reading.result = "reading" /\ Reading.bytes = 0
      /\ Reading.refs = NoRefs
  BY DEF Reading
<1>3. CASE Len(s) < 4
  <2> DEFINE short == IF ending = "eof" THEN Saw(0, NoRefs, FALSE)
                      ELSE ReadError
  <2>1. first = short
    <3>1. Len(s) - 0 < 4 /\ ~(Len(s) - 0 >= 4)
      BY <1>1, <1>3
    <3> QED
      BY <1>2, <3>1, Zenon DEF ReadLine
  <2>2. short.result # "reading"
    BY DEF Saw, ReadError
  <2>3. ReadLine(s, ending, short) = short
    <3> HIDE DEF short
    <3> QED
      BY <2>2, Zenon DEF ReadLine
  <2>4. seen \in {short}
    <3> DEFINE S == {short}
    <3> HIDE DEF short
    <3>1. /\ ReadLine(s, ending, Reading) \in S
          /\ \A x \in S : ReadLine(s, ending, x) \in S
      BY <2>1, <2>3
    <3>2. ReadAdvertisement(s, ending) \in S
      <4> HIDE DEF S
      <4> QED
        BY <3>1, TurnsStay
    <3> QED
      BY <3>2
  <2>5. seen = short
    BY <2>4
  <2>6. CASE ending = "eof"
    <3>1. seen.result # "error" /\ ~seen.error
          /\ seen.refs.all = 0 /\ seen.bytes = 0
      BY <2>5, <2>6 DEF Saw, NoRefs
    <3> HIDE DEF seen
    <3> QED
      BY <1>3, <2>6, <3>1 DEF ProbeVerdict, seen
  <2>7. CASE ending # "eof"
    <3>1. seen.result = "error"
      BY <2>5, <2>7 DEF ReadError
    <3> HIDE DEF seen
    <3> QED
      BY <2>7, <3>1 DEF ProbeVerdict, seen
  <2> QED
    BY <2>6, <2>7
<1>4. CASE ~(Len(s) < 4)
  <2> DEFINE Far == {x \in Reads : Told(x)}
  <2>1. first \in Far
    <3>1. first \in Reads
      BY <1>1, ReadLineReads
    <3>2. Told(first)
      BY <1>1, <1>2, <1>4, TurnGoesOn
    <3> QED
      BY <3>1, <3>2
  <2>2. \A x \in Far : ReadLine(s, ending, x) \in Far
    <3> SUFFICES ASSUME NEW x \in Reads, Told(x)
                 PROVE  ReadLine(s, ending, x) \in Far
      OBVIOUS
    <3>1. ReadLine(s, ending, x) \in Reads
      BY ReadLineReads
    <3>2. Told(ReadLine(s, ending, x))
      <4>1. CASE x.result # "reading"
        <5>1. ReadLine(s, ending, x) = x
          BY <4>1, Zenon DEF ReadLine
        <5> QED
          BY <5>1
      <4>2. CASE x.result = "reading"
        <5>1. x.bytes \in Nat /\ x.bytes >= 4
          BY <4>2
        <5> QED
          BY <4>2, <5>1, TurnGoesOn
      <4> QED
        BY <4>1, <4>2
    <3> QED
      BY <3>1, <3>2
  <2>3. seen \in Far
    <3> HIDE DEF Far
    <3> QED
      BY <2>1, <2>2, TurnsStay
  <2>4. Told(seen)
    BY <2>3
  <2>5. seen.result = "error" \/ seen.bytes # 0
    <3> HIDE DEF seen
    <3> QED
      BY <2>4
  <2> HIDE DEF seen
  <2>6. ProbeVerdict(seen, sent) # "NotReceivePack"
    BY <2>5 DEF ProbeVerdict
  <2> QED
    BY <1>4, <2>6 DEF seen
<1> QED
  BY <1>3, <1>4

\* read_advertisement, FlushSplit: on whatever advertisement a receive-pack
\* sends, and whatever follows it, the probe's size is what the push client
\* counts up to the flush, and it names a ref for every packet that names one.
THEOREM ProbeCountsThePackets ==
    ASSUME NEW items, NEW k, NEW payloads, Advertised(items, k, payloads),
           \A j \in 1..(k - 1) : ~IsErr(payloads[j]),
           NEW ending
    PROVE  LET stream == FlattenSeq(items)
               seen   == ReadAdvertisement(stream, ending)
               split  == PumpSplitting(<<stream>>)
           IN  /\ seen.result = "advertisement" /\ ~seen.error
               /\ seen.bytes = split.pre_flush /\ seen.bytes # 0
               /\ split.pre_flush_pkts = k - 1
               /\ seen.refs.all + Cardinality(Nameless(payloads, k - 1))
                    = split.pre_flush_pkts
<1> DEFINE s == FlattenSeq(items)
<1>1. s \in Seq(Bytes)
  BY LinesLie
<1>2. PICK pos : LinesAt(s, k, payloads, pos)
  BY LinesLie
<1> HIDE DEF s
<1>3. pos[k] # 0
  <2>1. k \in Nat /\ k >= 1 /\ pos \in [0..k -> 0..Len(s)]
        /\ pos[k] = pos[k - 1] + 4
    BY <1>2 DEF LinesAt
  <2>2. k - 1 \in 0..k /\ Len(s) \in Nat
    BY <1>1, <2>1, LenProperties
  <2> DEFINE at == pos[k - 1]
  <2>3. at \in Nat /\ pos[k] = at + 4
    BY <2>1, <2>2
  <2> HIDE DEF at
  <2> QED
    BY <2>3
<1>4. /\ SplitOf(s).pre_flush = pos[k]
      /\ SplitOf(s).pre_flush_pkts = k - 1
  BY <1>1, <1>2, AdvertisementSplit
<1>5. /\ ReadAdvertisement(s, ending).result = "advertisement"
      /\ ~ReadAdvertisement(s, ending).error
      /\ ReadAdvertisement(s, ending).bytes = pos[k]
      /\ ReadAdvertisement(s, ending).refs.all
           + Cardinality(Nameless(payloads, k - 1)) = k - 1
  BY <1>1, <1>2, AdvertisementRead
<1>6. /\ PumpSplitting(<<s>>).pre_flush = SplitOf(s).pre_flush
      /\ PumpSplitting(<<s>>).pre_flush_pkts = SplitOf(s).pre_flush_pkts
  <2>1. <<s>> \in Seq(Seq(Bytes))
    BY <1>1
  <2>2. WireCounts(PumpSplitting(<<s>>)) = SplitOf(FlattenSeq(<<s>>))
    BY <2>1, SplitIsOfTheStream
  <2>3. FlattenSeq(<<s>>) = s
    <3>1. PICK at : Joined(<<s>>, FlattenSeq(<<s>>), at)
      BY <2>1, FlattenJoins
    <3>2. FlattenSeq(<<s>>) \in Seq(Bytes)
      BY <2>1, FlattenJoins
    <3> DEFINE w == FlattenSeq(<<s>>)
    <3> HIDE DEF w
    <3>3. Len(<<s>>) = 1 /\ <<s>>[1] = s /\ 1 \in 1..1 /\ 1 - 1 = 0
      OBVIOUS
    <3>4. Part(w, at[0], at[1]) = s /\ at[0] = 0 /\ at[1] = Len(w)
      BY <3>1, <3>3 DEF Joined, w
    <3>5. Part(w, 0, Len(w)) = w
      BY <3>2, WholePart DEF w
    <3> QED
      BY <3>4, <3>5 DEF w
  <2> DEFINE split == PumpSplitting(<<s>>)
  <2>4. /\ WireCounts(split).pre_flush = split.pre_flush
        /\ WireCounts(split).pre_flush_pkts = split.pre_flush_pkts
    BY DEF WireCounts
  <2> HIDE DEF split
  <2> QED
    BY <2>2, <2>3, <2>4 DEF split
<1> QED
  BY <1>3, <1>4, <1>5, <1>6 DEF s

-----------------------------------------------------------------------------
(* Curated and judged: what a push and doctor make of a repository.        *)

\* A finite set of numbers that is not empty has a greatest element: the sets
\* of what is above each of them are ordered by inclusion.
LEMMA GreatestOf ==
    ASSUME NEW S \in SUBSET Nat, S # {}, IsFiniteSet(S)
    PROVE  Max(S) \in S /\ \A k \in S : k <= Max(S)
<1> DEFINE Up(x) == {y \in S : y >= x}
           F == {Up(x) : x \in S}
           R == StrictSubsetOrdering(S)
<1>1. F \subseteq FiniteSubsetsOf(S) /\ F # {}
  <2>1. \A x \in S : Up(x) \in SUBSET S /\ IsFiniteSet(Up(x))
    BY FS_Subset
  <2> HIDE DEF Up
  <2> QED
    BY <2>1 DEF FiniteSubsetsOf
<1>2. IsWellFoundedOn(R, FiniteSubsetsOf(S))
  BY FS_StrictSubsetOrderingWellFounded
<1>3. PICK I \in F : \A J \in F : ~(<<J, I>> \in R)
  <2> HIDE DEF F, R
  <2> QED
    BY <1>1, <1>2, WFMin
<1>4. PICK m \in S : I = Up(m)
  BY <1>3
<1>5. ASSUME NEW k \in S
      PROVE  k <= m
  <2>0. m \in Nat /\ k \in Nat
    OBVIOUS
  <2> SUFFICES ASSUME m < k
               PROVE  FALSE
    BY <2>0
  <2>1. Up(k) \subseteq Up(m) /\ m \in Up(m) /\ m \notin Up(k)
    <3>1. \A y \in S : y \in Nat
      OBVIOUS
    <3>2. \A y \in Nat : y >= k => y >= m
      BY <2>0
    <3>3. m >= m /\ ~(m >= k)
      BY <2>0
    <3>4. \A y \in S : y >= k => y >= m
      BY <3>1, <3>2
    <3> HIDE DEF F, R
    <3> QED
      BY <3>3, <3>4
  <2>2. <<Up(k), Up(m)>> \in R
    BY <2>1 DEF StrictSubsetOrdering
  <2> QED
    BY <1>3, <1>4, <2>2
<1>6. \E x \in S : \A y \in S : x >= y
  BY <1>5
<1>7. Max(S) \in S /\ \A y \in S : Max(S) >= y
  BY <1>6, Zenon DEF Max
<1> QED
  BY <1>7

\* What a pattern and a ref at or below it have in common.
LEMMA AtOrBelowIt ==
    ASSUME NEW Words, NEW p \in Seq(Words), NEW name \in Seq(Words), IsPrefix(p, name)
    PROVE  /\ Len(p) \in Nat /\ Len(p) <= Len(name)
           /\ \A i \in 1..Len(p) : name[i] = p[i]
           /\ \A q \in Seq(Words) : IsPrefix(q, p) => IsPrefix(q, name)
<1>1. /\ Len(p) \in Nat /\ Len(name) \in Nat /\ Len(p) <= Len(name)
      /\ SubSeq(p, 1, Len(p)) = SubSeq(name, 1, Len(p))
  BY LenProperties DEF IsPrefix
<1>2. SubSeq(p, 1, Len(p)) = p
  BY SubSeqFull
<1>3. Len(p) \in 0..Len(name)
  BY <1>1
<1>4. \A i \in 1..Len(p) : SubSeq(name, 1, Len(p))[i] = name[i]
  BY <1>3, PathBegins
<1>5. ASSUME NEW q \in Seq(Words), IsPrefix(q, p)
      PROVE  IsPrefix(q, name)
  <2>1. /\ Len(q) \in Nat /\ Len(q) <= Len(p)
        /\ SubSeq(q, 1, Len(q)) = SubSeq(p, 1, Len(q))
    BY <1>5, LenProperties DEF IsPrefix
  <2>2. Len(q) \in 0..Len(p) /\ Len(q) <= Len(name)
    BY <1>1, <2>1
  <2>3. SubSeq(p, 1, Len(q)) = SubSeq(name, 1, Len(q))
    <3>1. SubSeq(SubSeq(name, 1, Len(p)), 1, Len(q)) = SubSeq(name, 1, Len(q))
      BY <1>3, <2>2, BeginsAgain
    <3> QED
      BY <1>1, <1>2, <3>1
  <2> QED
    BY <2>1, <2>2, <2>3 DEF IsPrefix
<1> QED
  BY <1>1, <1>2, <1>4, <1>5

\* The refs of a remote are not of another one, nor heads, nor in the namespace.
LEMMA RemoteIsApart ==
    ASSUME NEW Words, OwnWords \subseteq Words,
           NEW remote \in Words, NEW name \in Seq(Words),
           IsPrefix(OfRemote(remote), name)
    PROVE  /\ name[3] = remote
           /\ ~IsPrefix(Heads, name) /\ ~IsPrefix(Namespace, name)
<1>1. OfRemote(remote) \in Seq(Words)
  BY DEF OfRemote, OwnWords
<1>2. /\ Len(OfRemote(remote)) = 3
      /\ OfRemote(remote)[2] = "remotes" /\ OfRemote(remote)[3] = remote
  BY DEF OfRemote
<1>3. name[2] = "remotes" /\ name[3] = remote
  BY <1>1, <1>2, AtOrBelowIt
<1>4. ASSUME NEW q \in {Heads, Namespace}, IsPrefix(q, name)
      PROVE  FALSE
  <2>1. q \in Seq(Words) /\ Len(q) = 2 /\ q[2] # "remotes"
    <3>1. /\ Heads \in Seq(Words) /\ Len(Heads) = 2
          /\ Heads[2] # "remotes"
      BY DEF Heads, OwnWords
    <3>2. /\ Namespace \in Seq(Words) /\ Len(Namespace) = 2
          /\ Namespace[2] # "remotes"
      BY DEF Namespace, OwnWords
    <3> QED
      BY <3>1, <3>2
  <2>2. name[2] = q[2]
    BY <1>4, <2>1, AtOrBelowIt
  <2> QED
    BY <1>3, <2>1, <2>2
<1> QED
  BY <1>3, <1>4

\* Nor is a head in the namespace.
LEMMA HeadsAreApart ==
    ASSUME NEW Words, OwnWords \subseteq Words,
           NEW name \in Seq(Words), IsPrefix(Heads, name)
    PROVE  ~IsPrefix(Namespace, name)
<1>1. Heads \in Seq(Words) /\ Len(Heads) = 2 /\ Heads[2] = "heads"
  BY DEF Heads, OwnWords
<1>2. /\ Namespace \in Seq(Words) /\ Len(Namespace) = 2
      /\ Namespace[2] = "git-full-send"
  BY DEF Namespace, OwnWords
<1>3. name[2] = "heads"
  BY <1>1, AtOrBelowIt
<1>4. IsPrefix(Namespace, name) => name[2] = "git-full-send"
  BY <1>2, AtOrBelowIt
<1> QED
  BY <1>3, <1>4

\* An anchor is the target of the HEAD of its remote or a ref; it is of its
\* remote either way.
LEMMA AnchorOf ==
    ASSUME NEW Words, OwnWords \subseteq Words,
           NEW repo, IsRepository(repo, Words), NEW remote \in repo.remotes,
           RemoteAnchor(repo, remote) # NoAnchor
    PROVE  LET head   == Tracking(remote, "HEAD")
               anchor == RemoteAnchor(repo, remote)
           IN  /\ anchor \in Seq(Words)
               /\ IsPrefix(OfRemote(remote), anchor)
               /\ IF IsSymref(repo, head) THEN anchor = repo.refs[head].to
                  ELSE anchor \in DOMAIN repo.refs
<1> DEFINE head   == Tracking(remote, "HEAD")
           main   == Tracking(remote, "main")
           master == Tracking(remote, "master")
           anchor == RemoteAnchor(repo, remote)
<1>1. remote \in Words
  BY DEF IsRepository
<1>2. /\ main \in Seq(Words) /\ IsPrefix(OfRemote(remote), main)
      /\ master \in Seq(Words) /\ IsPrefix(OfRemote(remote), master)
  <2>1. ASSUME NEW branch \in Words
        PROVE  /\ Tracking(remote, branch) \in Seq(Words)
               /\ IsPrefix(OfRemote(remote), Tracking(remote, branch))
    <3> DEFINE p == OfRemote(remote)
               b == Tracking(remote, branch)
    <3>1. /\ p \in Seq(Words) /\ Len(p) = 3
          /\ p[1] = "refs" /\ p[2] = "remotes" /\ p[3] = remote
      BY <1>1 DEF OfRemote, OwnWords
    <3>2. /\ b \in Seq(Words) /\ Len(b) = 4
          /\ b[1] = "refs" /\ b[2] = "remotes" /\ b[3] = remote
      BY <1>1 DEF Tracking, OwnWords
    <3> HIDE DEF p, b
    <3>3. 3 \in 0..Len(b) /\ 3 \in 0..Len(p)
      BY <3>1, <3>2
    <3>4. /\ SubSeq(b, 1, 3) \in Seq(Words) /\ Len(SubSeq(b, 1, 3)) = 3
          /\ \A i \in 1..3 : SubSeq(b, 1, 3)[i] = b[i]
      BY <3>2, <3>3, PathBegins
    <3>5. \A i \in 1..3 : p[i] = SubSeq(b, 1, 3)[i]
      <4>1. \A i \in 1..3 : i = 1 \/ i = 2 \/ i = 3
        OBVIOUS
      <4> QED
        BY <3>1, <3>2, <3>4, <4>1
    <3>6. p = SubSeq(b, 1, 3)
      BY <3>1, <3>4, <3>5, SeqEqual
    <3>7. SubSeq(p, 1, 3) = p
      BY <3>1, SubSeqFull
    <3>8. IsPrefix(p, b)
      BY <3>1, <3>2, <3>6, <3>7 DEF IsPrefix
    <3> QED
      BY <3>2, <3>8 DEF p, b
  <2> QED
    BY <2>1 DEF OwnWords
<1>3. IsSymref(repo, head) => anchor = repo.refs[head].to
  BY Zenon DEF RemoteAnchor
<1>4. ~IsSymref(repo, head) => anchor \in {main, master} \cap DOMAIN repo.refs
  <2>1. ASSUME ~IsSymref(repo, head), main \in DOMAIN repo.refs
        PROVE  anchor = main
    BY <2>1, Zenon DEF RemoteAnchor
  <2>2. ASSUME ~IsSymref(repo, head), main \notin DOMAIN repo.refs,
               master \in DOMAIN repo.refs
        PROVE  anchor = master
    BY <2>2, Zenon DEF RemoteAnchor
  <2>3. ASSUME ~IsSymref(repo, head), main \notin DOMAIN repo.refs,
               master \notin DOMAIN repo.refs
        PROVE  anchor = NoAnchor
    BY <2>3, Zenon DEF RemoteAnchor
  <2> HIDE DEF anchor, main, master, head
  <2> QED
    BY <2>1, <2>2, <2>3 DEF anchor
<1>5. ASSUME IsSymref(repo, head)
      PROVE  /\ repo.refs[head].to \in Seq(Words)
             /\ IsPrefix(OfRemote(remote), repo.refs[head].to)
  <2> HIDE DEF head
  <2>1. head \in DOMAIN repo.refs /\ "to" \in DOMAIN repo.refs[head]
    BY <1>5 DEF IsSymref
  <2>2. repo.refs[head] \in [time : Nat \ {NoTime}] \cup [to : Seq(Words)]
    BY <2>1 DEF IsRepository
  <2>3. repo.refs[head] \in [to : Seq(Words)]
    <3>1. repo.refs[head] \in [time : Nat \ {NoTime}]
             => "to" \notin DOMAIN repo.refs[head]
      OBVIOUS
    <3> QED
      BY <2>1, <2>2, <3>1
  <2>4. repo.refs[head].to \in Seq(Words)
    BY <2>3
  <2> QED
    BY <1>5, <2>4 DEF IsRepository, OfRemote, head
<1> HIDE DEF head, main, master, anchor
<1> QED
  BY <1>2, <1>3, <1>4, <1>5 DEF head, anchor

\* A ref below an anchor is a stray.
LEMMA BelowAnchor ==
    ASSUME NEW Words, OwnWords \subseteq Words,
           NEW repo, IsRepository(repo, Words),
           NEW p \in Anchors(repo), NEW name \in DOMAIN repo.refs,
           IsPrefix(p, name), p # name
    PROVE  name \in Strays(repo)
<1>1. PICK remote \in repo.remotes : /\ p = RemoteAnchor(repo, remote)
                                     /\ p # NoAnchor
  BY DEF Anchors
<1>2. IF IsSymref(repo, Tracking(remote, "HEAD"))
      THEN p = repo.refs[Tracking(remote, "HEAD")].to
      ELSE p \in DOMAIN repo.refs
  BY <1>1, AnchorOf
<1>3. p \notin DOMAIN repo.refs
  BY DEF IsRepository
<1> QED
  BY <1>1, <1>2, <1>3 DEF Strays, IsStrictPrefix

\* What receive-pack advertises on a curated connection.
LEMMA ShownOf ==
    ASSUME NEW Words, OwnWords \subseteq Words,
           NEW repo, IsRepository(repo, Words),
           NEW extra \in Seq(Seq(Words)), NEW name \in DOMAIN repo.refs
    PROVE  /\ name \in Seq(Words)
           /\ name \in Visible(repo, TRUE, extra)
                <=> \E p \in {Namespace, Heads} \cup Anchors(repo)
                                \cup ToSet(extra) : IsPrefix(p, name)
<1>1. /\ repo.hidden \in Seq([neg : BOOLEAN, prefix : Seq(Words)])
      /\ IsFiniteSet(repo.remotes)
      /\ \A n \in DOMAIN repo.refs : IsPrefix(<<"refs">>, n)
      /\ name \in Seq(Words)
  BY DEF IsRepository
<1>2. Visible(repo, TRUE, extra)
        = {n \in DOMAIN repo.refs :
              \E p \in {Namespace, Heads} \cup Anchors(repo)
                          \cup ToSet(extra) : IsPrefix(p, n)}
  BY <1>1, CuratedIsExact
<1> QED
  BY <1>1, <1>2

\* See CuratedAdvertisement.
CuratedWell(repo, extra) ==
    LET shown == Visible(repo, TRUE, extra)
        meant == {Namespace, Heads} \cup ToSet(extra)
        other == {name \in shown : ~AtOrBelow(meant, name)} \ Strays(repo)
    IN  /\ \A name \in DOMAIN repo.refs :
              AtOrBelow(meant, name) => name \in shown
        /\ \A name \in other :
              \E remote \in repo.remotes : IsPrefix(OfRemote(remote), name)
        /\ \A a, b \in other, remote \in repo.remotes :
              /\ IsPrefix(OfRemote(remote), a)
              /\ IsPrefix(OfRemote(remote), b)
              => a = b

\* hide_refs_values, for every repository, whatever it hides or shows by its
\* own configuration, and whatever the operator adds.
LEMMA CuratedIsMeant ==
    ASSUME NEW Words, OwnWords \subseteq Words,
           NEW repo, IsRepository(repo, Words),
           NEW extra \in Seq(Seq(Words))
    PROVE  CuratedWell(repo, extra)
<1> DEFINE shown == Visible(repo, TRUE, extra)
           meant == {Namespace, Heads} \cup ToSet(extra)
           other == {name \in shown : ~AtOrBelow(meant, name)} \ Strays(repo)
<1>1. \A name \in DOMAIN repo.refs :
         name \in shown <=> \E p \in meant \cup Anchors(repo) : IsPrefix(p, name)
  <2>1. \A name \in DOMAIN repo.refs :
           name \in shown
             <=> \E p \in {Namespace, Heads} \cup Anchors(repo)
                             \cup ToSet(extra) : IsPrefix(p, name)
    BY ShownOf
  <2> HIDE DEF shown
  <2> QED
    BY <2>1
<1>2. other \subseteq Anchors(repo)
  <2> SUFFICES ASSUME NEW name \in other
               PROVE  name \in Anchors(repo)
    OBVIOUS
  <2>1. /\ name \in DOMAIN repo.refs /\ name \in shown
        /\ name \notin Strays(repo)
        /\ \A p \in meant : ~IsPrefix(p, name)
    BY DEF AtOrBelow, Visible
  <2> HIDE DEF shown, meant, other
  <2>2. PICK p \in Anchors(repo) : IsPrefix(p, name)
    BY <1>1, <2>1
  <2> QED
    BY <2>1, <2>2, BelowAnchor
<1>3. \A name \in DOMAIN repo.refs : AtOrBelow(meant, name) => name \in shown
  <2> HIDE DEF shown, meant
  <2> QED
    BY <1>1 DEF AtOrBelow
<1>4. ASSUME NEW name \in other
      PROVE  /\ name \in Seq(Words)
             /\ \E remote \in repo.remotes :
                   /\ name = RemoteAnchor(repo, remote)
                   /\ IsPrefix(OfRemote(remote), name)
  <2>1. name \in Anchors(repo)
    <3> HIDE DEF other
    <3> QED
      BY <1>2, <1>4
  <2>2. PICK remote \in repo.remotes : /\ name = RemoteAnchor(repo, remote)
                                       /\ name # NoAnchor
    BY <2>1 DEF Anchors
  <2>3. name \in Seq(Words) /\ IsPrefix(OfRemote(remote), name)
    BY <2>2, AnchorOf
  <2> QED
    BY <2>2, <2>3
<1>5. ASSUME NEW name \in other, NEW remote \in repo.remotes,
             IsPrefix(OfRemote(remote), name)
      PROVE  name = RemoteAnchor(repo, remote)
  <2>1. PICK own \in repo.remotes : /\ name = RemoteAnchor(repo, own)
                                    /\ IsPrefix(OfRemote(own), name)
    BY <1>4
  <2>2. name \in Seq(Words) /\ remote \in Words /\ own \in Words
    BY <1>4 DEF IsRepository
  <2>3. name[3] = remote
    BY <1>5, <2>2, RemoteIsApart
  <2>4. name[3] = own
    BY <2>1, <2>2, RemoteIsApart
  <2> QED
    BY <2>1, <2>3, <2>4
<1>6. \A name \in other : \E remote \in repo.remotes :
         IsPrefix(OfRemote(remote), name)
  <2> HIDE DEF other
  <2> QED
    BY <1>4
<1>7. \A a, b \in other, remote \in repo.remotes :
         IsPrefix(OfRemote(remote), a) /\ IsPrefix(OfRemote(remote), b) => a = b
  <2> HIDE DEF other
  <2>1. \A name \in other, remote \in repo.remotes :
           IsPrefix(OfRemote(remote), name) => name = RemoteAnchor(repo, remote)
    BY <1>5
  <2> QED
    BY <2>1
<1> QED
  BY <1>3, <1>6, <1>7 DEF CuratedWell

\* committer_secs has a time or none.
LEMMA SecsAreNumbers ==
    ASSUME NEW Words, NEW repo, IsRepository(repo, Words), NEW name
    PROVE  CommitterSecs(repo, name) \in Nat
<1> DEFINE tip == IF IsSymref(repo, name) THEN repo.refs[name].to ELSE name
<1>1. CASE tip \in DOMAIN repo.refs /\ ~IsSymref(repo, tip)
  <2>1. CommitterSecs(repo, name) = repo.refs[tip].time
    BY <1>1, Zenon DEF CommitterSecs
  <2> HIDE DEF tip
  <2>2. repo.refs[tip] \in [time : Nat \ {NoTime}] \cup [to : Seq(Words)]
    BY <1>1 DEF IsRepository
  <2>3. repo.refs[tip] \notin [to : Seq(Words)]
    <3>1. "to" \notin DOMAIN repo.refs[tip]
      BY <1>1 DEF IsSymref
    <3> QED
      BY <3>1
  <2>4. repo.refs[tip].time \in Nat
    BY <2>2, <2>3
  <2> QED
    BY <2>1, <2>4
<1>2. CASE ~(tip \in DOMAIN repo.refs /\ ~IsSymref(repo, tip))
  <2>1. CommitterSecs(repo, name) = NoTime
    BY <1>2, Zenon DEF CommitterSecs
  <2> QED
    BY <2>1 DEF NoTime
<1> QED
  BY <1>1, <1>2

\* The refs that doctor judges by, read from the advertised patterns, are the
\* ones that git shows for them, but for strays.
LEMMA JudgedAreShown ==
    ASSUME NEW Words, OwnWords \subseteq Words,
           NEW repo, IsRepository(repo, Words)
    PROVE  {name \in Visible(repo, TRUE, <<>>) : ~IsPrefix(Namespace, name)}
              \ Strays(repo)
              = {name \in DOMAIN repo.refs :
                   \/ IsPrefix(Heads, name)
                   \/ /\ name \in AdvertisedRefs(repo)
                      /\ ~IsPrefix(Namespace, name)}
<1> DEFINE Shown(name) == \E p \in {Namespace, Heads} \cup Anchors(repo) :
                             IsPrefix(p, name)
<1>1. \A name \in DOMAIN repo.refs :
         /\ name \in Seq(Words)
         /\ name \in Visible(repo, TRUE, <<>>) <=> Shown(name)
  <2> DEFINE none == <<>>
  <2>1. none \in Seq(Seq(Words)) /\ ToSet(none) = {}
    <3>1. Len(none) = 0
      OBVIOUS
    <3> QED
      BY <3>1, EmptySeq DEF ToSet
  <2> HIDE DEF none
  <2>2. ASSUME NEW name \in DOMAIN repo.refs
        PROVE  /\ name \in Seq(Words)
               /\ name \in Visible(repo, TRUE, none) <=> Shown(name)
    BY <2>1, ShownOf
  <2> QED
    BY <2>2 DEF none
<1>2. ASSUME NEW name \in DOMAIN repo.refs, ~IsPrefix(Namespace, name),
             name \notin Strays(repo), Shown(name)
      PROVE  IsPrefix(Heads, name) \/ name \in AdvertisedRefs(repo)
  <2>1. IsPrefix(Heads, name) \/ \E p \in Anchors(repo) : IsPrefix(p, name)
    BY <1>2
  <2>2. ASSUME NEW p \in Anchors(repo), IsPrefix(p, name)
        PROVE  name \in AdvertisedRefs(repo)
    <3>1. p = name
      BY <1>2, <2>2, BelowAnchor
    <3> QED
      BY <3>1 DEF AdvertisedRefs
  <2> QED
    BY <2>1, <2>2
<1>3. ASSUME NEW name \in DOMAIN repo.refs, name \in Strays(repo)
      PROVE  \E remote \in repo.remotes :
                LET head == Tracking(remote, "HEAD")
                IN  /\ IsSymref(repo, head)
                    /\ IsPrefix(OfRemote(remote), name)
                    /\ repo.refs[head].to # name
  <2>1. PICK remote \in repo.remotes :
           /\ IsSymref(repo, Tracking(remote, "HEAD"))
           /\ IsPrefix(repo.refs[Tracking(remote, "HEAD")].to, name)
           /\ repo.refs[Tracking(remote, "HEAD")].to # name
    BY <1>3 DEF Strays, IsStrictPrefix
  <2> DEFINE head == Tracking(remote, "HEAD")
             to == repo.refs[head].to
  <2> HIDE DEF head
  <2>2. to \in Seq(Words)
    <3>1. head \in DOMAIN repo.refs /\ "to" \in DOMAIN repo.refs[head]
      BY <2>1 DEF IsSymref, head
    <3>2. repo.refs[head] \in [time : Nat \ {NoTime}] \cup [to : Seq(Words)]
      BY <3>1 DEF IsRepository
    <3>3. repo.refs[head] \in [time : Nat \ {NoTime}]
             => "to" \notin DOMAIN repo.refs[head]
      OBVIOUS
    <3>4. repo.refs[head] \in [to : Seq(Words)]
      BY <3>1, <3>2, <3>3
    <3> QED
      BY <3>4
  <2>3. IsPrefix(OfRemote(remote), to)
    BY <2>1 DEF IsRepository, OfRemote, head
  <2>4. OfRemote(remote) \in Seq(Words)
    <3>1. remote \in Words
      BY DEF IsRepository
    <3> QED
      BY <3>1 DEF OfRemote, OwnWords
  <2>5. IsPrefix(to, name) /\ to # name /\ name \in Seq(Words)
    BY <1>1, <2>1 DEF head
  <2> HIDE DEF to
  <2>6. IsPrefix(OfRemote(remote), name)
    BY <2>2, <2>3, <2>4, <2>5, AtOrBelowIt
  <2> QED
    BY <2>1, <2>5, <2>6 DEF to, head
<1>4. ASSUME NEW name \in DOMAIN repo.refs, IsPrefix(Heads, name)
      PROVE  Shown(name) /\ ~IsPrefix(Namespace, name) /\ name \notin Strays(repo)
  <2>1. ~IsPrefix(Namespace, name)
    BY <1>1, <1>4, HeadsAreApart
  <2>2. name \notin Strays(repo)
    <3> SUFFICES ASSUME name \in Strays(repo)
                 PROVE  FALSE
      OBVIOUS
    <3>1. PICK remote \in repo.remotes : IsPrefix(OfRemote(remote), name)
      BY <1>3
    <3>2. remote \in Words /\ name \in Seq(Words)
      BY <1>1 DEF IsRepository
    <3> QED
      BY <1>4, <3>1, <3>2, RemoteIsApart
  <2> QED
    BY <1>4, <2>1, <2>2
<1>5. ASSUME NEW name \in DOMAIN repo.refs, name \in AdvertisedRefs(repo),
             ~IsPrefix(Namespace, name)
      PROVE  Shown(name) /\ name \notin Strays(repo)
  <2>1. name \in Seq(Words)
    BY <1>1
  <2>2. IsPrefix(name, name)
    BY <2>1, LenProperties DEF IsPrefix
  <2>3. CASE name \in {Namespace, Heads}
    BY <1>4, <1>5, <2>2, <2>3
  <2>4. CASE name \in Anchors(repo)
    <3>1. Shown(name)
      BY <2>2, <2>4
    <3>2. PICK remote \in repo.remotes : /\ name = RemoteAnchor(repo, remote)
                                         /\ name # NoAnchor
      BY <2>4 DEF Anchors
    <3>3. /\ IsPrefix(OfRemote(remote), name)
          /\ IsSymref(repo, Tracking(remote, "HEAD"))
               => name = repo.refs[Tracking(remote, "HEAD")].to
      BY <3>2, AnchorOf
    <3>4. ASSUME name \in Strays(repo)
          PROVE  FALSE
      <4>1. PICK other \in repo.remotes :
               /\ IsSymref(repo, Tracking(other, "HEAD"))
               /\ IsPrefix(OfRemote(other), name)
               /\ repo.refs[Tracking(other, "HEAD")].to # name
        BY <1>3, <3>4
      <4>2. remote \in Words /\ other \in Words
        BY DEF IsRepository
      <4>3. name[3] = remote
        BY <2>1, <3>3, <4>2, RemoteIsApart
      <4>4. name[3] = other
        BY <2>1, <4>1, <4>2, RemoteIsApart
      <4> QED
        BY <3>3, <4>1, <4>3, <4>4
    <3> QED
      BY <3>1, <3>4
  <2> QED
    BY <1>5, <2>3, <2>4 DEF AdvertisedRefs
<1>6. ASSUME NEW name \in DOMAIN repo.refs
      PROVE  /\ name \in Visible(repo, TRUE, <<>>)
             /\ ~IsPrefix(Namespace, name) /\ name \notin Strays(repo)
             <=> \/ IsPrefix(Heads, name)
                 \/ /\ name \in AdvertisedRefs(repo)
                    /\ ~IsPrefix(Namespace, name)
  <2>1. name \in Visible(repo, TRUE, <<>>) <=> Shown(name)
    BY <1>1
  <2> HIDE DEF Shown
  <2> QED
    BY <1>2, <1>4, <1>5, <2>1
<1>7. \A name \in Visible(repo, TRUE, <<>>) : name \in DOMAIN repo.refs
  BY DEF Visible
<1> HIDE DEF Shown
<1> QED
  BY <1>6, <1>7

\* See DoctorJudgesAdvertised.
JudgedWell(repo, stale_after) ==
    LET shown  == {name \in Visible(repo, TRUE, <<>>) :
                     ~IsPrefix(Namespace, name)}
        judged == shown \ Strays(repo)
    IN  /\ FreshestAdvertisedSecs(repo)
             = Max({NoTime} \cup {CommitterSecs(repo, n) : n \in judged})
        /\ \A remote \in repo.remotes \ MissingAnchors(repo) :
              \/ \E name \in shown :
                    IsPrefix(OfRemote(remote), name)
              \/ CommitterSecs(repo, Tracking(remote, "HEAD")) = NoTime
        /\ \A now \in Nat, name \in judged :
              CheckAnchors(repo, now, stale_after) = "stale"
                 => CommitterSecs(repo, name) + stale_after <= now

\* check_anchors, for every repository, at every time.
LEMMA DoctorJudges ==
    ASSUME NEW Words, OwnWords \subseteq Words,
           NEW repo, IsRepository(repo, Words),
           NEW stale_after \in Nat \ {0}
    PROVE  JudgedWell(repo, stale_after)
<1> DEFINE shown  == {name \in Visible(repo, TRUE, <<>>) :
                        ~IsPrefix(Namespace, name)}
           judged == shown \ Strays(repo)
           secs   == {NoTime} \cup {CommitterSecs(repo, n) : n \in judged}
           freshest == FreshestAdvertisedSecs(repo)
<1>1. judged = {name \in DOMAIN repo.refs :
                  \/ IsPrefix(Heads, name)
                  \/ /\ name \in AdvertisedRefs(repo)
                     /\ ~IsPrefix(Namespace, name)}
  BY JudgedAreShown
<1>2. freshest = Max(secs)
  <2> DEFINE read == {name \in DOMAIN repo.refs :
                        \/ IsPrefix(Heads, name)
                        \/ /\ name \in AdvertisedRefs(repo)
                           /\ ~IsPrefix(Namespace, name)}
  <2>1. freshest = Max({NoTime} \cup {CommitterSecs(repo, name) : name \in read})
    BY Zenon DEF FreshestAdvertisedSecs
  <2> HIDE DEF read, judged, freshest
  <2> QED
    BY <1>1, <2>1 DEF read
<1>3. ASSUME NEW remote \in repo.remotes, RemoteAnchor(repo, remote) # NoAnchor
      PROVE  \/ \E name \in shown : IsPrefix(OfRemote(remote), name)
             \/ CommitterSecs(repo, Tracking(remote, "HEAD")) = NoTime
  <2> DEFINE head   == Tracking(remote, "HEAD")
             anchor == RemoteAnchor(repo, remote)
  <2>1. /\ anchor \in Seq(Words) /\ IsPrefix(OfRemote(remote), anchor)
        /\ IF IsSymref(repo, head) THEN anchor = repo.refs[head].to
           ELSE anchor \in DOMAIN repo.refs
    BY <1>3, AnchorOf
  <2>2. anchor \in Anchors(repo)
    BY <1>3 DEF Anchors
  <2> HIDE DEF anchor, head
  <2>3. CASE anchor \in DOMAIN repo.refs
    <3>1. IsPrefix(anchor, anchor)
      BY <2>1, LenProperties DEF IsPrefix
    <3>2. ~IsPrefix(Namespace, anchor)
      <4>1. remote \in Words
        BY DEF IsRepository
      <4> QED
        BY <2>1, <4>1, RemoteIsApart
    <3>3. anchor \in Visible(repo, TRUE, <<>>)
      <4> DEFINE none == <<>>
      <4>1. none \in Seq(Seq(Words))
        BY EmptySeq
      <4> HIDE DEF none
      <4>2. anchor \in Visible(repo, TRUE, none)
        BY <2>2, <2>3, <3>1, <4>1, ShownOf
      <4> QED
        BY <4>2 DEF none
    <3> QED
      BY <2>1, <3>2, <3>3
  <2>4. CASE anchor \notin DOMAIN repo.refs
    <3>1. IsSymref(repo, head) /\ repo.refs[head].to \notin DOMAIN repo.refs
      BY <2>1, <2>4
    <3>2. CommitterSecs(repo, head) = NoTime
      BY <3>1, Zenon DEF CommitterSecs
    <3> QED
      BY <3>2 DEF head
  <2> QED
    BY <2>3, <2>4
<1>4. freshest \in secs /\ freshest \in Nat /\ \A k \in secs : k <= freshest
  <2>1. secs \in SUBSET Nat /\ secs # {}
    <3>1. \A n \in judged : CommitterSecs(repo, n) \in Nat
      BY SecsAreNumbers
    <3> HIDE DEF judged
    <3> QED
      BY <3>1 DEF NoTime
  <2>2. IsFiniteSet(secs)
    <3>1. IsFiniteSet(judged)
      <4>1. judged \subseteq DOMAIN repo.refs
        BY <1>1
      <4>2. IsFiniteSet(DOMAIN repo.refs)
        BY DEF IsRepository
      <4> HIDE DEF judged
      <4> QED
        BY <4>1, <4>2, FS_Subset
    <3> DEFINE times == {CommitterSecs(repo, n) : n \in judged}
               f == [n \in judged |-> CommitterSecs(repo, n)]
    <3>2. f \in Surjection(judged, times)
      <4> HIDE DEF judged
      <4>1. f \in [judged -> times] /\ \A t \in times : \E n \in judged : f[n] = t
        OBVIOUS
      <4> QED
        BY <4>1 DEF Surjection
    <3> HIDE DEF f, times, judged
    <3>3. IsFiniteSet(times)
      BY <3>1, <3>2, FS_Surjection
    <3>4. IsFiniteSet(times \cup {NoTime})
      BY <3>3, FS_AddElement
    <3>5. secs = times \cup {NoTime}
      BY DEF times
    <3> QED
      BY <3>4, <3>5
  <2> HIDE DEF secs, freshest
  <2>3. Max(secs) \in secs /\ \A k \in secs : k <= Max(secs)
    BY <2>1, <2>2, GreatestOf
  <2> QED
    BY <1>2, <2>1, <2>3
<1>5. ASSUME NEW now \in Nat, NEW name \in judged,
             CheckAnchors(repo, now, stale_after) = "stale"
      PROVE  CommitterSecs(repo, name) + stale_after <= now
  <2> DEFINE age == IF freshest > now THEN 0 ELSE now - freshest
             s   == CommitterSecs(repo, name)
  <2>1. s \in secs /\ s \in Nat
    <3>1. s \in secs
      BY <1>5
    <3> QED
      BY <3>1, SecsAreNumbers
  <2>2. s <= freshest
    <3> HIDE DEF secs, freshest, s
    <3> QED
      BY <1>4, <2>1
  <2>3. age >= stale_after
    <3>1. CheckAnchors(repo, now, stale_after)
            = IF MissingAnchors(repo) # {} THEN "no anchor"
              ELSE IF freshest # NoTime /\ now > 0 /\ age >= stale_after
                   THEN "stale"
              ELSE "ok"
      BY Zenon DEF CheckAnchors
    <3> HIDE DEF age, freshest
    <3> QED
      BY <1>5, <3>1
  <2> HIDE DEF freshest, s, secs, judged, shown
  <2>4. s + stale_after <= now
    BY <1>4, <2>1, <2>2, <2>3
  <2> QED
    BY <2>4 DEF s
<1>6. \A remote \in repo.remotes \ MissingAnchors(repo) :
         RemoteAnchor(repo, remote) # NoAnchor
  BY DEF MissingAnchors
<1>7. \A remote \in repo.remotes \ MissingAnchors(repo) :
         \/ \E name \in shown : IsPrefix(OfRemote(remote), name)
         \/ CommitterSecs(repo, Tracking(remote, "HEAD")) = NoTime
  <2> HIDE DEF shown
  <2> QED
    BY <1>3, <1>6 DEF OfRemote
<1> HIDE DEF shown, judged
<1> QED
  BY <1>2, <1>5, <1>7 DEF JudgedWell, judged, shown

-----------------------------------------------------------------------------
(* The properties of the inputs.                                           *)

\* The forms an input has.
IsStream(in) ==
    \E chunks \in Chunkings : in = [kind |-> "stream", chunks |-> chunks]

IsAnswer(in) ==
    \E items \in Answers, ending \in {"eof", "timeout"} :
        in = [kind |-> "answer", items |-> items, ending |-> ending]

IsSecrets(in) ==
    \E server_file, server_env, client_file, client_env \in SecretTexts,
       rest \in Rests :
        /\ Resolve(server_file, server_env).is = "token"
        /\ Resolve(client_file, client_env).is # "error"
        /\ in = [kind |-> "secrets", rest |-> rest,
                 server |-> ListenAuth(server_file, server_env, FALSE),
                 client |-> Resolve(client_file, client_env)]

IsLayers(in) ==
    \E tree \in Trees, project, user \in Files, extras \in ExtraFiles :
        /\ Loads(project, user, extras)
        /\ in = [kind |-> "layers", tree |-> tree,
                 layers |-> <<LayerOf(project), LayerOf(user)>>
                              \o [i \in DOMAIN extras |-> LayerOf(extras[i])],
                 search |-> LoadSearch(project, user, extras)]

IsRepo(in) ==
    \E repo \in Repos, extra \in ExtraPatterns :
        in = [kind |-> "repo", repo |-> repo, extra |-> extra]

IsSink(in) ==
    \E writes \in Sinks, last \in Lasts :
        in = [kind |-> "sink", writes |-> writes, last |-> last]

Given(in) ==
    \/ in = [kind |-> "none"]
    \/ IsStream(in)
    \/ IsAnswer(in)
    \/ IsSecrets(in)
    \/ IsLayers(in)
    \/ IsRepo(in)
    \/ IsSink(in)

\* Every state is an input of one of the kinds.
LEMMA InputsAreGiven == Spec => []Given(input)
<1>1. Init => Given(input)
  BY DEF Init, Given
<1>2. Given(input) /\ [Next]_input => Given(input)'
  <2> SUFFICES ASSUME Given(input), [Next]_input
               PROVE  Given(input')
    OBVIOUS
  <2>1. CASE UNCHANGED input
    BY <2>1
  <2>2. CASE PickStream
    BY <2>2 DEF PickStream, Given, IsStream
  <2>3. CASE PickAnswer
    BY <2>3 DEF PickAnswer, Given, IsAnswer
  <2>4. CASE PickSecrets
    <3>1. IsSecrets(input')
      BY <2>4, Zenon DEF PickSecrets, IsSecrets
    <3> QED
      BY <3>1 DEF Given
  <2>5. CASE PickLayers
    <3>1. IsLayers(input')
      BY <2>5, Zenon DEF PickLayers, IsLayers
    <3> QED
      BY <3>1 DEF Given
  <2>6. CASE PickRepo
    BY <2>6 DEF PickRepo, Given, IsRepo
  <2>7. CASE PickSink
    BY <2>7 DEF PickSink, Given, IsSink
  <2> QED
    BY <2>1, <2>2, <2>3, <2>4, <2>5, <2>6, <2>7 DEF Next
<1> QED
  BY <1>1, <1>2, PTL DEF Spec

\* What an input of a kind was made of.
LEMMA InputOfKind ==
    ASSUME Given(input)
    PROVE  /\ input.kind = "stream" => IsStream(input)
           /\ input.kind = "answer" => IsAnswer(input)
           /\ input.kind = "secrets" => IsSecrets(input)
           /\ input.kind = "layers" => IsLayers(input)
           /\ input.kind = "repo" => IsRepo(input)
           /\ input.kind = "sink" => IsSink(input)
<1>1. /\ IsStream(input) => input.kind = "stream"
      /\ IsAnswer(input) => input.kind = "answer"
      /\ IsRepo(input) => input.kind = "repo"
      /\ IsSink(input) => input.kind = "sink"
      /\ input = [kind |-> "none"] => input.kind = "none"
  BY DEF IsStream, IsAnswer, IsRepo, IsSink
<1>2. IsSecrets(input) => input.kind = "secrets"
  BY DEF IsSecrets
<1>3. IsLayers(input) => input.kind = "layers"
  BY DEF IsLayers
<1> QED
  BY <1>1, <1>2, <1>3 DEF Given

\* FlushSplit: see SplitIgnoresChunks.
THEOREM ChunksAreIgnored == Spec => []SplitIgnoresChunks
<1>1. Given(input) => SplitIgnoresChunks
  <2> SUFFICES ASSUME Given(input), input.kind = "stream"
               PROVE  WireCounts(PumpSplitting(input.chunks))
                         = SplitOf(FlattenSeq(input.chunks))
    BY DEF SplitIgnoresChunks
  <2>1. PICK chunks \in Chunkings :
           input = [kind |-> "stream", chunks |-> chunks]
    BY InputOfKind DEF IsStream
  <2>2. input.chunks = chunks /\ chunks \in Seq(Seq(Bytes))
    BY <2>1, StreamsAssumption
  <2> QED
    BY <2>2, SplitIsOfTheStream
<1> QED
  BY <1>1, InputsAreGiven, PTL

\* hide_refs_values: see CuratedAdvertisement.
THEOREM AdvertisementIsCurated == Spec => []CuratedAdvertisement
<1>1. Given(input) => CuratedAdvertisement
  <2> SUFFICES ASSUME Given(input), input.kind = "repo"
               PROVE  CuratedAdvertisement
    BY DEF CuratedAdvertisement
  <2>1. PICK repo \in Repos, extra \in ExtraPatterns :
           input = [kind |-> "repo", repo |-> repo, extra |-> extra]
    BY InputOfKind DEF IsRepo
  <2>2. /\ input.repo = repo /\ input.extra = extra
        /\ OwnWords \subseteq RefWords /\ IsRepository(repo, RefWords)
        /\ extra \in Seq(Seq(RefWords))
    BY <2>1, ReposAssumption
  <2>3. CuratedWell(repo, extra)
    BY <2>2, CuratedIsMeant
  <2> QED
    BY <2>2, <2>3, Zenon DEF CuratedAdvertisement, CuratedWell
<1> QED
  BY <1>1, InputsAreGiven, PTL

\* check_anchors: see DoctorJudgesAdvertised.
THEOREM DoctorIsRight == Spec => []DoctorJudgesAdvertised
<1>1. Given(input) => DoctorJudgesAdvertised
  <2> SUFFICES ASSUME Given(input), input.kind = "repo"
               PROVE  DoctorJudgesAdvertised
    BY DEF DoctorJudgesAdvertised
  <2>1. PICK repo \in Repos, extra \in ExtraPatterns :
           input = [kind |-> "repo", repo |-> repo, extra |-> extra]
    BY InputOfKind DEF IsRepo
  <2>2. /\ input.repo = repo
        /\ OwnWords \subseteq RefWords /\ IsRepository(repo, RefWords)
        /\ StaleAfter \in Nat \ {0} /\ Times \subseteq Nat
    BY <2>1, ReposAssumption
  <2>3. JudgedWell(repo, StaleAfter)
    BY <2>2, DoctorJudges
  <2>4. \A now \in Times : now \in Nat
    BY <2>2
  <2> QED
    BY <2>2, <2>3, <2>4, Zenon DEF DoctorJudgesAdvertised, JudgedWell
<1> QED
  BY <1>1, InputsAreGiven, PTL

\* A layer is a list of patterns, whatever became of its file.
LEMMA LayerIsList ==
    ASSUME NEW file \in Files
    PROVE  LayerOf(file) \in Seq(PatternsOver(FileNames))
<1>1. CASE file \in {Missing, Unreadable}
  <2>1. LayerOf(file) = <<>>
    BY <1>1 DEF LayerOf, Missing, Unreadable
  <2> QED
    BY <2>1, EmptySeq
<1>2. CASE file \notin {Missing, Unreadable}
  <2>1. /\ file = PatternFile(file.patterns)
        /\ file.patterns \in Seq(PatternsOver(FileNames))
    BY <1>2, LayersAssumption
  <2>2. LayerOf(file) = file.patterns
    BY <2>1 DEF LayerOf, PatternFile
  <2> QED
    BY <2>1, <2>2
<1> QED
  BY <1>1, <1>2

\* load_search: the search is its layers, one after another.
LEMMA SearchOfLayers ==
    ASSUME NEW project \in Files, NEW user \in Files, NEW extras \in ExtraFiles
    PROVE  /\ LoadSearch(project, user, extras) \in Seq(PatternsOver(FileNames))
           /\ LoadSearch(project, user, extras)
                = FlattenSeq(<<LayerOf(project), LayerOf(user)>>
                               \o [i \in DOMAIN extras |-> LayerOf(extras[i])])
<1> DEFINE Patterns == PatternsOver(FileNames)
           Whole == Seq(Patterns)
           rest == [i \in DOMAIN extras |-> LayerOf(extras[i])]
           first == LayerOf(project)
           second == LayerOf(user)
           m == Len(extras)
<1>1. m \in Nat /\ DOMAIN extras = 1..m /\ \A i \in 1..m : extras[i] \in Files
  <2>1. extras \in Seq(Files)
    BY LayersAssumption
  <2> QED
    BY <2>1, LenProperties, ElementOfSeq
<1>2. first \in Whole /\ second \in Whole
  BY LayerIsList
<1>3. rest \in Seq(Whole)
  <2>1. \A i \in 1..m : LayerOf(extras[i]) \in Whole
    BY <1>1, LayerIsList
  <2>2. rest = [i \in 1..m |-> LayerOf(extras[i])]
    BY <1>1
  <2> HIDE DEF Whole, m, rest
  <2>3. rest \in [1..m -> Whole]
    BY <2>1, <2>2
  <2> QED
    BY <1>1, <2>3, SeqDef
<1>4. LoadSearch(project, user, extras) = first \o second \o FlattenSeq(rest)
  BY Zenon DEF LoadSearch
<1> HIDE DEF Patterns, rest, first, second, m
<1>5. first \o second \o FlattenSeq(rest)
        = FlattenSeq(<<first, second>> \o rest)
  <2>1. FlattensOnto(first, second, rest)
    BY <1>2, <1>3, FlattenOnto
  <2> QED
    BY <2>1 DEF FlattensOnto
<1>6. first \o second \o FlattenSeq(rest) \in Whole
  <2>1. FlattenSeq(rest) \in Whole
    BY <1>3, FlattenJoins
  <2>2. first \o second \in Whole
    BY <1>2, ConcatProperties
  <2> QED
    BY <2>1, <2>2, ConcatProperties
<1> QED
  BY <1>4, <1>5, <1>6 DEF rest, first, second, Patterns

\* load_search, select_in: see PruneKeepsSelection.
THEOREM SelectionIsMeant == Spec => []PruneKeepsSelection
<1>1. Given(input) => PruneKeepsSelection
  <2> SUFFICES ASSUME Given(input), input.kind = "layers"
               PROVE  Selected(input.search, input.tree)
                         = Meant(FlattenSeq(input.layers), input.tree)
    BY DEF PruneKeepsSelection
  <2>1. PICK tree \in Trees, project \in Files, user \in Files,
             extras \in ExtraFiles :
           input = [kind |-> "layers", tree |-> tree,
                    layers |-> <<LayerOf(project), LayerOf(user)>>
                                 \o [i \in DOMAIN extras |-> LayerOf(extras[i])],
                    search |-> LoadSearch(project, user, extras)]
    BY InputOfKind, Zenon DEF IsLayers
  <2>2. /\ input.tree = tree /\ input.search = LoadSearch(project, user, extras)
        /\ input.layers
              = <<LayerOf(project), LayerOf(user)>>
                  \o [i \in DOMAIN extras |-> LayerOf(extras[i])]
    <3> DEFINE layers == <<LayerOf(project), LayerOf(user)>>
                           \o [i \in DOMAIN extras |-> LayerOf(extras[i])]
    <3>1. input = [kind |-> "layers", tree |-> tree, layers |-> layers,
                   search |-> LoadSearch(project, user, extras)]
      BY <2>1
    <3> HIDE DEF layers
    <3>2. input.layers = layers
      BY <3>1
    <3> QED
      BY <3>1, <3>2 DEF layers
  <2>3. IsTree(tree, FileNames)
    BY LayersAssumption
  <2>4. /\ input.search \in Seq(PatternsOver(FileNames))
        /\ input.search = FlattenSeq(input.layers)
    BY <2>2, SearchOfLayers
  <2> QED
    BY <2>2, <2>3, <2>4, PruningKeeps
<1> QED
  BY <1>1, InputsAreGiven, PTL

\* Token::resolve: a secret is made of a text, or there is none.
LEMMA ResolvedFrom ==
    ASSUME NEW file \in SecretTexts, NEW env \in SecretTexts
    PROVE  \/ Resolve(file, env) = NoSecret
           \/ \E text \in Seq(Bytes) : Resolve(file, env) = NewToken(text)
<1>1. file \in Seq(Bytes) /\ env \in Seq(Bytes)
  BY SecretsAssumption
<1>2. CASE file # Unset
  <2>1. Resolve(file, env) = NewToken(file)
    BY <1>2, Zenon DEF Resolve
  <2> QED
    BY <1>1, <2>1
<1>3. CASE file = Unset /\ env # Unset /\ Trim(env) # <<>>
  <2> DEFINE blank == Trim(env) = <<>>
  <2>1. file = Unset /\ env # Unset /\ ~blank
    BY <1>3
  <2>2. Resolve(file, env) = NewToken(env)
    <3>1. ~(file # Unset)
      BY <2>1
    <3> QED
      BY <1>3, <3>1, Zenon DEF Resolve
  <2> QED
    BY <1>1, <2>2
<1>4. CASE file = Unset /\ ~(env # Unset /\ Trim(env) # <<>>)
  <2>1. ~(file # Unset) /\ ~(file = Unset /\ env # Unset /\ Trim(env) # <<>>)
    BY <1>4, Zenon
  <2>2. Resolve(file, env) = NoSecret
    BY <2>1, Zenon DEF Resolve
  <2> QED
    BY <2>2
<1> QED
  BY <1>2, <1>3, <1>4, Zenon

\* read_auth_pkt: no outcome but Ok is for a stream without a preamble.
LEMMA NoPreambleNoEntry ==
    ASSUME NEW rest \in Rests, NEW expected \in Tokens
    PROVE  ReadAuthPkt(rest, expected).outcome # "Ok"
<1> SUFFICES ASSUME ReadAuthPkt(rest, expected).outcome = "Ok"
             PROVE  FALSE
  OBVIOUS
<1>1. /\ rest \in Seq(Bytes)
      /\ Len(rest) >= 5 => rest[5] # AuthPktPrefix[1]
  BY SecretsAssumption
<1>2. PICK used \in (5 + Len(expected))..Len(rest) :
         rest[5] = AuthPktPrefix[1]
  BY <1>1, NoSecretNoEntry
<1>3. Len(expected) \in Nat /\ Len(rest) \in Nat
  BY <1>1, LenProperties DEF Tokens
<1>4. Len(rest) >= 5
  BY <1>2, <1>3
<1> QED
  BY <1>1, <1>2, <1>4

\* Token::resolve, auth_pkt, read_auth_pkt: see SameSecretGetsIn.
THEOREM SecretsAreMatched == Spec => []SameSecretGetsIn
<1>1. Given(input) => SameSecretGetsIn
  <2> SUFFICES ASSUME Given(input), input.kind = "secrets"
               PROVE  SameSecretGetsIn
    BY DEF SameSecretGetsIn
  <2>1. PICK server_file \in SecretTexts, server_env \in SecretTexts,
             client_file \in SecretTexts, client_env \in SecretTexts,
             rest \in Rests :
           /\ Resolve(server_file, server_env).is = "token"
           /\ Resolve(client_file, client_env).is # "error"
           /\ input = [kind |-> "secrets", rest |-> rest,
                       server |-> ListenAuth(server_file, server_env, FALSE),
                       client |-> Resolve(client_file, client_env)]
    BY InputOfKind, Zenon DEF IsSecrets
  <2> DEFINE server == ListenAuth(server_file, server_env, FALSE)
             client == Resolve(client_file, client_env)
  <2>2. input.rest = rest /\ input.server = server /\ input.client = client
    <3> HIDE DEF server, client
    <3> QED
      BY <2>1 DEF server, client
  <2>3. rest \in Seq(Bytes)
    BY SecretsAssumption
  <2>4. PICK kept \in Seq(Bytes) :
           server = NewToken(kept) /\ NewToken(kept).is = "token"
    <3>1. Resolve(server_file, server_env) # NoSecret
      BY <2>1 DEF NoSecret
    <3>2. server = Resolve(server_file, server_env)
      BY <3>1 DEF ListenAuth
    <3>3. PICK text \in Seq(Bytes) :
             Resolve(server_file, server_env) = NewToken(text)
      BY <3>1, ResolvedFrom
    <3>4. Resolve(server_file, server_env).is = "token"
      BY <2>1
    <3> HIDE DEF server
    <3> QED
      BY <3>2, <3>3, <3>4
  <2>5. /\ NewToken(kept).value \in Tokens
        /\ NewToken(kept) = Secret(NewToken(kept).value)
    BY <2>4, TokenIsCarried
  <2> HIDE DEF server
  <2>6. CASE client = NoSecret
    <3>1. client.is # "token" /\ client # server
      BY <2>4, <2>6 DEF NoSecret
    <3>2. <<>> \o rest = rest
      BY <2>3, ConcatEmptySeq
    <3>3. ReadAuthPkt(rest, server.value).outcome # "Ok"
      BY <2>4, <2>5, NoPreambleNoEntry
    <3> HIDE DEF client
    <3> QED
      BY <2>2, <3>1, <3>2, <3>3 DEF SameSecretGetsIn
  <2>7. CASE client # NoSecret
    <3>1. PICK sent \in Seq(Bytes) : client = NewToken(sent)
      BY <2>7, ResolvedFrom
    <3>2. client.is = "token"
      <4>1. client.is # "error"
        BY <2>1
      <4>2. NewToken(sent).is \in {"token", "error"}
        BY DEF NewToken, Secret, AuthError
      <4> HIDE DEF client
      <4> QED
        BY <3>1, <4>1, <4>2
    <3> DEFINE stream == AuthPkt(client.value) \o rest
               read == ReadAuthPkt(stream, server.value)
    <3> HIDE DEF client
    <3>3. read = [outcome |-> IF client = server THEN "Ok" ELSE "Mismatch",
                  rest |-> rest]
      <4>1. NewToken(sent).is = "token"
        BY <3>1, <3>2
      <4>2. ReadAuthPkt(AuthPkt(NewToken(sent).value) \o rest,
                        NewToken(kept).value)
              = [outcome |-> IF NewToken(sent) = NewToken(kept) THEN "Ok"
                             ELSE "Mismatch",
                 rest |-> rest]
        BY <2>3, <2>4, <4>1, SameSecret
      <4> QED
        BY <2>4, <3>1, <4>2
    <3>4. (IF client.is = "token" THEN AuthPkt(client.value) ELSE <<>>) \o rest
            = stream
      BY <3>2
    <3> HIDE DEF stream
    <3>5. IF client = server THEN read = [outcome |-> "Ok", rest |-> rest]
          ELSE read.outcome # "Ok"
      <4> HIDE DEF read
      <4> QED
        BY <3>3
    <3> QED
      BY <2>2, <3>4, <3>5, Zenon DEF SameSecretGetsIn
  <2> QED
    BY <2>6, <2>7
<1> QED
  BY <1>1, InputsAreGiven, PTL

\* A pkt-line carries one payload.
LEMMA FramedOnce ==
    ASSUME NEW p \in Seq(Bytes), NEW q \in Seq(Bytes),
           Len(p) + 4 < NoLength, Len(q) + 4 < NoLength,
           Framed(p) = Framed(q)
    PROVE  p = q
<1> DEFINE none == <<>>
           s == Framed(p) \o none
           m == Len(p) + 4
           n == Len(q) + 4
<1>1. none \in Seq(Bytes)
  BY EmptySeq
<1> HIDE DEF none
<1>2. BeginsWith(s, m, p, none)
  <2>1. m = Len(p) + 4 /\ m < NoLength
    OBVIOUS
  <2> HIDE DEF m
  <2> QED
    BY <1>1, <2>1, FramedIsRead
<1>3. BeginsWith(s, n, q, none)
  <2>1. n = Len(q) + 4 /\ n < NoLength
    OBVIOUS
  <2>2. s = Framed(q) \o none
    OBVIOUS
  <2> HIDE DEF n, s
  <2> QED
    BY <1>1, <2>1, <2>2, FramedIsRead
<1> HIDE DEF s, m, n
<1> QED
  BY <1>2, <1>3 DEF BeginsWith

\* The payload of a line, one of some payloads.
PayloadIn(payloads, line) ==
    CHOOSE payload \in payloads : line = Framed(payload)

\* read_advertisement: see ProbeCountsAsPushDoes.
LEMMA ProbeCounts ==
    ASSUME NEW items \in Answers, NEW ending, NEW k \in DOMAIN items,
           items[k] = FlushPkt,
           \A j \in 1..(k - 1) : \E payload \in RefLines \cup PlaceholderLines :
              items[j] = Framed(payload)
    PROVE  LET stream == FlattenSeq(items)
               seen   == ReadAdvertisement(stream, ending)
               split  == PumpSplitting(<<stream>>)
               empty  == {j \in 1..(k - 1) : \E payload \in PlaceholderLines :
                                                items[j] = Framed(payload)}
           IN  /\ seen.result = "advertisement"
               /\ seen.bytes = split.pre_flush
               /\ seen.refs.all + Cardinality(empty) = split.pre_flush_pkts
               /\ \A sent \in BOOLEAN :
                     ProbeVerdict(seen, sent) = IF sent THEN "up" ELSE "Exchange"
<1> DEFINE Lines == RefLines \cup PlaceholderLines
           payloads == [j \in 1..(k - 1) |-> PayloadIn(Lines, items[j])]
           empty == {j \in 1..(k - 1) : \E payload \in PlaceholderLines :
                                           items[j] = Framed(payload)}
<1>1. items \in Seq(Seq(Bytes)) /\ k \in 1..Len(items)
  BY AnswersAssumption
<1>2. \A payload \in Lines :
         payload \in Seq(Bytes) /\ payload # <<>> /\ Len(payload) + 4 < NoLength
  BY AnswersAssumption
<1>3. \A j \in 1..(k - 1) : /\ payloads[j] \in Lines
                            /\ items[j] = Framed(payloads[j])
  <2> SUFFICES ASSUME NEW j \in 1..(k - 1)
               PROVE  payloads[j] \in Lines /\ items[j] = Framed(payloads[j])
    OBVIOUS
  <2>1. \E payload \in Lines : items[j] = Framed(payload)
    OBVIOUS
  <2> HIDE DEF Lines
  <2>2. /\ PayloadIn(Lines, items[j]) \in Lines
        /\ items[j] = Framed(PayloadIn(Lines, items[j]))
    BY <2>1 DEF PayloadIn
  <2> QED
    BY <2>2
<1>4. payloads \in [1..(k - 1) -> Seq(Bytes)]
  <2> DEFINE m == k - 1
             Body(j) == PayloadIn(Lines, items[j])
  <2>1. \A j \in 1..m : Body(j) \in Seq(Bytes)
    BY <1>2, <1>3
  <2>2. payloads = [j \in 1..m |-> Body(j)]
    OBVIOUS
  <2> HIDE DEF m, Body, payloads
  <2>3. payloads \in [1..m -> Seq(Bytes)]
    BY <2>1, <2>2
  <2> QED
    BY <2>3 DEF m
<1> HIDE DEF payloads
<1>5. Advertised(items, k, payloads)
  BY <1>1, <1>2, <1>3, <1>4 DEF Advertised
<1>6. \A j \in 1..(k - 1) : /\ payloads[j] # <<>>
                            /\ \/ payloads[j][1] \in {OurRef, OtherRef}
                                  /\ payloads[j] \in RefLines
                               \/ payloads[j][1] = Placeholder
                                  /\ payloads[j] \in PlaceholderLines
  BY <1>2, <1>3, AnswersAssumption
<1>7. \A j \in 1..(k - 1) : ~IsErr(payloads[j])
  BY <1>6 DEF IsErr, ErrLine, OurRef, OtherRef, Placeholder
<1>8. Nameless(payloads, k - 1) = empty
  <2> SUFFICES ASSUME NEW j \in 1..(k - 1)
               PROVE  ~NamesRef(payloads[j])
                        <=> \E payload \in PlaceholderLines :
                               items[j] = Framed(payload)
    BY DEF Nameless
  <2>1. ~NamesRef(payloads[j]) <=> payloads[j][1] = Placeholder
    BY <1>6 DEF NamesRef, OurRef, OtherRef, Placeholder
  <2>2. payloads[j][1] = Placeholder => payloads[j] \in PlaceholderLines
    BY <1>6 DEF OurRef, OtherRef, Placeholder
  <2>3. ASSUME NEW payload \in PlaceholderLines, items[j] = Framed(payload)
        PROVE  payloads[j][1] = Placeholder
    <3>1. payload[1] = Placeholder
      BY AnswersAssumption
    <3>2. payload = payloads[j]
      BY <1>2, <1>3, <2>3, FramedOnce
    <3> QED
      BY <3>1, <3>2
  <2> QED
    BY <1>3, <2>1, <2>2, <2>3
<1> HIDE DEF empty
<1>9. LET stream == FlattenSeq(items)
          seen   == ReadAdvertisement(stream, ending)
          split  == PumpSplitting(<<stream>>)
      IN  /\ seen.result = "advertisement" /\ ~seen.error
          /\ seen.bytes = split.pre_flush /\ seen.bytes # 0
          /\ split.pre_flush_pkts = k - 1
          /\ seen.refs.all + Cardinality(Nameless(payloads, k - 1))
               = split.pre_flush_pkts
  BY <1>5, <1>7, ProbeCountsThePackets
<1>10. \A sent \in BOOLEAN :
           ProbeVerdict(ReadAdvertisement(FlattenSeq(items), ending), sent)
             = IF sent THEN "up" ELSE "Exchange"
  <2> DEFINE seen == ReadAdvertisement(FlattenSeq(items), ending)
  <2>1. /\ seen.result = "advertisement" /\ ~seen.error /\ seen.bytes # 0
        /\ seen.result # "error"
    BY <1>9
  <2> HIDE DEF seen
  <2>2. \A sent \in BOOLEAN :
           ProbeVerdict(seen, sent) = IF sent THEN "up" ELSE "Exchange"
    BY <2>1 DEF ProbeVerdict
  <2> QED
    BY <2>2 DEF seen
<1> QED
  BY <1>8, <1>9, <1>10 DEF empty

\* read_advertisement, probe: of an advertisement that it saw to its end, the
\* probe counts the bytes that a push counts up to the flush, its references
\* with its placeholders are the packets that the push counts, and the server
\* is up; and only an answer of less than a header is no receive-pack.
THEOREM ProbeCountsLikePush == Spec => []ProbeCountsAsPushDoes
<1>1. Given(input) => ProbeCountsAsPushDoes
  <2> SUFFICES ASSUME Given(input), input.kind = "answer"
               PROVE  ProbeCountsAsPushDoes
    BY DEF ProbeCountsAsPushDoes
  <2>1. PICK items \in Answers, ending \in {"eof", "timeout"} :
           input = [kind |-> "answer", items |-> items, ending |-> ending]
    BY InputOfKind DEF IsAnswer
  <2>2. input.items = items /\ input.ending = ending
    BY <2>1
  <2> DEFINE stream == FlattenSeq(items)
             seen   == ReadAdvertisement(stream, ending)
             split  == PumpSplitting(<<stream>>)
             FramedAs(payloads, k) ==
                 {j \in 1..(k - 1) : \E payload \in payloads :
                                        items[j] = Framed(payload)}
             Counts(k) ==
                 /\ seen.result = "advertisement"
                 /\ seen.bytes = split.pre_flush
                 /\ seen.refs.all + Cardinality(FramedAs(PlaceholderLines, k))
                      = split.pre_flush_pkts
                 /\ \A sent \in BOOLEAN :
                       ProbeVerdict(seen, sent)
                         = IF sent THEN "up" ELSE "Exchange"
  <2>3. ASSUME NEW k \in DOMAIN items, items[k] = FlushPkt,
               FramedAs(RefLines \cup PlaceholderLines, k) = 1..(k - 1)
        PROVE  Counts(k)
    <3>1. \A j \in 1..(k - 1) :
             \E payload \in RefLines \cup PlaceholderLines :
                items[j] = Framed(payload)
      BY <2>3
    <3> QED
      BY <2>3, <3>1, ProbeCounts
  <2>4. \A sent \in BOOLEAN :
           ProbeVerdict(seen, sent) = "NotReceivePack"
             <=> Len(stream) < 4 /\ ending = "eof"
    <3>1. items \in Seq(Seq(Bytes))
      BY AnswersAssumption
    <3>2. stream \in Seq(Bytes)
      BY <3>1, FlattenJoins
    <3> HIDE DEF stream
    <3> QED
      BY <3>2, ShortIsNotReceivePack
  <2>5. \A k \in DOMAIN items :
           /\ items[k] = FlushPkt
           /\ FramedAs(RefLines \cup PlaceholderLines, k) = 1..(k - 1)
           => Counts(k)
    BY <2>3, Zenon
  <2> QED
    BY <2>2, <2>4, <2>5, Zenon DEF ProbeCountsAsPushDoes
<1> QED
  BY <1>1, InputsAreGiven, PTL

-----------------------------------------------------------------------------
(* The metrics sink: where the writes lie in the file.                     *)

Writes == Seq(Records \X Outcomes)

RecordOf(ws, i)  == ws[i][1]
OutcomeOf(ws, i) == ws[i][2]

\* What is left of each write begins at pos[i - 1] + 1 and ends at pos[i].
Lies(ws, file, pos) ==
    /\ Len(ws) \in Nat /\ Len(file) \in Nat /\ DOMAIN file = 1..Len(file)
    /\ pos \in [0..Len(ws) -> 0..Len(file)]
    /\ pos[0] = 0
    /\ pos[Len(ws)] = Len(file)
    /\ \A i \in 1..Len(ws) :
          /\ OutcomeOf(ws, i) \in Outcomes
          /\ OutcomeOf(ws, i) = "whole" =>
                /\ pos[i] = pos[i - 1] + 2
                /\ file[pos[i - 1] + 1] = Entry(RecordOf(ws, i))
                /\ file[pos[i - 1] + 2] = Eol
          /\ OutcomeOf(ws, i) = "unended" =>
                /\ pos[i] = pos[i - 1] + 1
                /\ file[pos[i - 1] + 1] = Entry(RecordOf(ws, i))
          /\ OutcomeOf(ws, i) = "torn" =>
                /\ pos[i] = pos[i - 1] + 1
                /\ file[pos[i - 1] + 1] = Fragment
          /\ OutcomeOf(ws, i) = "cut" =>
                /\ pos[i] = pos[i - 1] + 1
                /\ file[pos[i - 1] + 1] = Cut
          /\ OutcomeOf(ws, i) = "nothing" => pos[i] = pos[i - 1]

\* A record, a fragment and a newline are told apart.
LEMMA ItemsDiffer ==
    /\ Fragment # Eol /\ Cut # Eol
    /\ Fragment.item # "record" /\ Cut.item # "record"
    /\ Fragment # Cut
    /\ Eol.item # "record"
    /\ \A record : /\ Entry(record) # Eol
                   /\ Entry(record) # Cut
                   /\ Entry(record).item = "record"
                   /\ Entry(record).record = record
<1>1. Fragment.item = "fragment" /\ Eol.item = "eol" /\ Cut.item = "cut"
  BY DEF Fragment, Eol, Cut
<1>2. \A record : /\ Entry(record).item = "record"
                  /\ Entry(record).record = record
  BY DEF Entry
<1> QED
  BY <1>1, <1>2

\* append: what is left of one write.
LEMMA AppendedIs ==
    ASSUME NEW record
    PROVE  /\ Len(Appended(record, "whole")) = 2
           /\ Appended(record, "whole")[1] = Entry(record)
           /\ Appended(record, "whole")[2] = Eol
           /\ Len(Appended(record, "unended")) = 1
           /\ Appended(record, "unended")[1] = Entry(record)
           /\ Len(Appended(record, "torn")) = 1
           /\ Appended(record, "torn")[1] = Fragment
           /\ Len(Appended(record, "cut")) = 1
           /\ Appended(record, "cut")[1] = Cut
           /\ Len(Appended(record, "nothing")) = 0
<1>1. Appended(record, "whole") = <<Entry(record), Eol>>
  BY DEF Appended
<1>2. Appended(record, "unended") = <<Entry(record)>>
  BY DEF Appended
<1>3. Appended(record, "torn") = <<Fragment>>
  BY DEF Appended
<1>4. Appended(record, "nothing") = <<>> /\ Appended(record, "cut") = <<Cut>>
  BY DEF Appended
<1> DEFINE entry == Entry(record)
           torn  == Fragment
           cut   == Cut
           eol   == Eol
<1>5. /\ Len(<<entry, eol>>) = 2 /\ <<entry, eol>>[1] = entry
      /\ <<entry, eol>>[2] = eol
      /\ Len(<<entry>>) = 1 /\ <<entry>>[1] = entry
      /\ Len(<<torn>>) = 1 /\ <<torn>>[1] = torn
      /\ Len(<<cut>>) = 1 /\ <<cut>>[1] = cut
      /\ Len(<<>>) = 0
  <2> HIDE DEF entry, torn, cut, eol
  <2> QED
    OBVIOUS
<1> QED
  BY <1>1, <1>2, <1>3, <1>4, <1>5, Zenon

\* append, one write after another: the file is made of what is left of them.
LEMMA FileLies ==
    ASSUME NEW ws \in Writes
    PROVE  \E pos : Lies(ws, FileOf(ws), pos)
<1> DEFINE n == Len(ws)
           file == FileOf(ws)
           Item == {Eol, Fragment, Cut} \cup {Entry(record) : record \in Records}
           Left(i) == Appended(RecordOf(ws, i), OutcomeOf(ws, i))
           left == [i \in 1..n |-> Left(i)]
<1>1. n \in Nat /\ DOMAIN ws = 1..n /\ \A i \in 1..n : ws[i] \in Records \X Outcomes
  <2>1. ws \in Seq(Records \X Outcomes)
    BY DEF Writes
  <2> QED
    BY <2>1, LenProperties, ElementOfSeq
<1>2. \A i \in 1..n : RecordOf(ws, i) \in Records /\ OutcomeOf(ws, i) \in Outcomes
  BY <1>1 DEF RecordOf, OutcomeOf
<1>3. \A i \in 1..n : Left(i) \in Seq(Item)
  <2> SUFFICES ASSUME NEW i \in 1..n
               PROVE  Left(i) \in Seq(Item)
    OBVIOUS
  <2> DEFINE r == RecordOf(ws, i)
             o == OutcomeOf(ws, i)
  <2>1. r \in Records /\ o \in Outcomes
    BY <1>2
  <2> HIDE DEF r, o
  <2>2. Entry(r) \in Item /\ Eol \in Item /\ Fragment \in Item
        /\ Cut \in Item
    BY <2>1
  <2>3. o \in {"whole", "unended", "torn", "cut", "nothing"}
    BY <2>1 DEF Outcomes
  <2> HIDE DEF Item
  <2>4. /\ <<Entry(r), Eol>> \in Seq(Item) /\ <<Entry(r)>> \in Seq(Item)
        /\ <<Fragment>> \in Seq(Item) /\ <<Cut>> \in Seq(Item)
        /\ <<>> \in Seq(Item)
    BY <2>2, EmptySeq
  <2>5. Appended(r, o) \in Seq(Item)
    BY <2>3, <2>4 DEF Appended
  <2> QED
    BY <2>5 DEF r, o
<1>4. file = FlattenSeq(left)
  BY <1>1 DEF FileOf, RecordOf, OutcomeOf
<1>5. left \in Seq(Seq(Item)) /\ Len(left) = n
  <2> DEFINE Whole == Seq(Item)
  <2>1. \A i \in 1..n : Left(i) \in Whole
    BY <1>3
  <2> HIDE DEF Whole, Left, n
  <2>2. left \in [1..n -> Whole]
    BY <2>1
  <2>3. left \in Seq(Whole)
    BY <1>1, <2>2, SeqDef
  <2>4. Len(left) = n
    BY <1>1, <2>2, <2>3
  <2> QED
    BY <2>3, <2>4 DEF Whole
<1>6. \A i \in 1..n : left[i] = Left(i)
  OBVIOUS
<1> HIDE DEF left, Item
<1>7. file \in Seq(Item) /\ \E pos : Joined(left, file, pos)
  BY <1>4, <1>5, FlattenJoins
<1>8. PICK pos : Joined(left, file, pos)
  BY <1>7
<1> HIDE DEF file, Left, n
<1>9. Len(file) \in Nat /\ DOMAIN file = 1..Len(file)
  BY <1>7, LenProperties
<1>10. /\ pos \in [0..n -> 0..Len(file)] /\ pos[0] = 0 /\ pos[n] = Len(file)
       /\ \A i \in 1..n : /\ pos[i] = pos[i - 1] + Len(Left(i))
                          /\ Part(file, pos[i - 1], pos[i]) = Left(i)
  BY <1>5, <1>6, <1>8 DEF Joined
<1>11. ASSUME NEW i \in 1..n
       PROVE  /\ pos[i - 1] \in Nat
              /\ pos[i] = pos[i - 1] + Len(Left(i))
              /\ \A j \in 1..Len(Left(i)) : Left(i)[j] = file[pos[i - 1] + j]
  <2> DEFINE a == pos[i - 1]
             b == pos[i]
             l == Len(Left(i))
  <2>1. i - 1 \in 0..n /\ i \in 0..n
    BY <1>1
  <2>2. a \in 0..Len(file) /\ b \in 0..Len(file) /\ b = a + l
    BY <1>10, <2>1
  <2>3. l \in Nat
    BY <1>3, LenProperties DEF Left
  <2>4. Part(file, a, b) = Left(i)
    BY <1>10
  <2> HIDE DEF a, b, l
  <2>5. a \in 0..b /\ b - a = l
    BY <1>9, <2>2, <2>3
  <2>6. \A j \in 1..(b - a) : Part(file, a, b)[j] = file[a + j]
    BY <1>7, <2>2, <2>5, PartOf
  <2>7. \A j \in 1..l : Left(i)[j] = file[a + j]
    BY <2>4, <2>5, <2>6
  <2>8. a \in Nat
    BY <1>9, <2>2
  <2> QED
    BY <2>2, <2>7, <2>8 DEF a, b, l
<1>12. ASSUME NEW i \in 1..n
       PROVE  /\ OutcomeOf(ws, i) \in Outcomes
              /\ OutcomeOf(ws, i) = "whole" =>
                    /\ pos[i] = pos[i - 1] + 2
                    /\ file[pos[i - 1] + 1] = Entry(RecordOf(ws, i))
                    /\ file[pos[i - 1] + 2] = Eol
              /\ OutcomeOf(ws, i) = "unended" =>
                    /\ pos[i] = pos[i - 1] + 1
                    /\ file[pos[i - 1] + 1] = Entry(RecordOf(ws, i))
              /\ OutcomeOf(ws, i) = "torn" =>
                    /\ pos[i] = pos[i - 1] + 1
                    /\ file[pos[i - 1] + 1] = Fragment
              /\ OutcomeOf(ws, i) = "cut" =>
                    /\ pos[i] = pos[i - 1] + 1
                    /\ file[pos[i - 1] + 1] = Cut
              /\ OutcomeOf(ws, i) = "nothing" => pos[i] = pos[i - 1]
  <2> DEFINE r == RecordOf(ws, i)
             o == OutcomeOf(ws, i)
             a == pos[i - 1]
             b == pos[i]
  <2>1. /\ a \in Nat /\ b = a + Len(Left(i))
        /\ \A j \in 1..Len(Left(i)) : Left(i)[j] = file[a + j]
    BY <1>11
  <2>2. Left(i) = Appended(r, o)
    BY DEF Left
  <2>3. o \in Outcomes
    BY <1>2
  <2> HIDE DEF r, o, a, b
  <2>4. o = "whole" => b = a + 2 /\ file[a + 1] = Entry(r) /\ file[a + 2] = Eol
    <3> SUFFICES ASSUME o = "whole"
                 PROVE  b = a + 2 /\ file[a + 1] = Entry(r) /\ file[a + 2] = Eol
      OBVIOUS
    <3>1. Len(Left(i)) = 2 /\ Left(i)[1] = Entry(r) /\ Left(i)[2] = Eol
      BY <2>2, AppendedIs
    <3>2. 1 \in 1..2 /\ 2 \in 1..2
      OBVIOUS
    <3> QED
      BY <2>1, <3>1, <3>2
  <2>5. o = "unended" => b = a + 1 /\ file[a + 1] = Entry(r)
    <3> SUFFICES ASSUME o = "unended"
                 PROVE  b = a + 1 /\ file[a + 1] = Entry(r)
      OBVIOUS
    <3>1. Len(Left(i)) = 1 /\ Left(i)[1] = Entry(r)
      BY <2>2, AppendedIs
    <3>2. 1 \in 1..1
      OBVIOUS
    <3> QED
      BY <2>1, <3>1, <3>2
  <2>6. o = "torn" => b = a + 1 /\ file[a + 1] = Fragment
    <3> SUFFICES ASSUME o = "torn"
                 PROVE  b = a + 1 /\ file[a + 1] = Fragment
      OBVIOUS
    <3>1. Len(Left(i)) = 1 /\ Left(i)[1] = Fragment
      BY <2>2, AppendedIs
    <3>2. 1 \in 1..1
      OBVIOUS
    <3> QED
      BY <2>1, <3>1, <3>2
  <2>7. o = "nothing" => b = a
    <3> SUFFICES ASSUME o = "nothing"
                 PROVE  b = a
      OBVIOUS
    <3>1. Len(Left(i)) = 0
      BY <2>2, AppendedIs
    <3> QED
      BY <2>1, <3>1
  <2>8. o = "cut" => b = a + 1 /\ file[a + 1] = Cut
    <3> SUFFICES ASSUME o = "cut"
                 PROVE  b = a + 1 /\ file[a + 1] = Cut
      OBVIOUS
    <3>1. Len(Left(i)) = 1 /\ Left(i)[1] = Cut
      BY <2>2, AppendedIs
    <3>2. 1 \in 1..1
      OBVIOUS
    <3> QED
      BY <2>1, <3>1, <3>2
  <2> QED
    BY <2>3, <2>4, <2>5, <2>6, <2>7, <2>8 DEF r, o, a, b
<1>13. Lies(ws, file, pos)
  BY <1>1, <1>9, <1>10, <1>12 DEF Lies, n
<1> QED
  BY <1>13 DEF file

LEMMA WriteEnds ==
    ASSUME NEW ws, NEW file, NEW pos, Lies(ws, file, pos), NEW k \in 1..Len(ws)
    PROVE  /\ k - 1 \in 0..Len(ws)
           /\ pos[k - 1] \in 0..Len(file) /\ pos[k] \in 0..Len(file)
           /\ pos[k - 1] <= pos[k]
           /\ OutcomeOf(ws, k) = "nothing" <=> pos[k] = pos[k - 1]
<1>1. /\ Len(ws) \in Nat /\ Len(file) \in Nat
      /\ pos \in [0..Len(ws) -> 0..Len(file)]
  BY DEF Lies
<1>2. k - 1 \in 0..Len(ws) /\ k \in 0..Len(ws)
  BY <1>1
<1>3. pos[k - 1] \in 0..Len(file) /\ pos[k] \in 0..Len(file)
  BY <1>1, <1>2
<1> DEFINE a == pos[k - 1]
           b == pos[k]
           o == OutcomeOf(ws, k)
<1>4. /\ o \in Outcomes
      /\ o = "whole" => b = a + 2
      /\ o = "unended" => b = a + 1
      /\ o = "torn" => b = a + 1
      /\ o = "cut" => b = a + 1
      /\ o = "nothing" => b = a
  BY DEF Lies
<1> HIDE DEF a, b, o
<1>5. a \in Nat
  BY <1>1, <1>3 DEF a
<1>6. a <= b /\ (o = "nothing" <=> b = a)
  BY <1>4, <1>5 DEF Outcomes
<1> QED
  BY <1>2, <1>3, <1>6 DEF a, b, o

\* Later writes end later.
LEMMA WritesRise ==
    ASSUME NEW ws, NEW file, NEW pos, Lies(ws, file, pos),
           NEW i \in 0..Len(ws), NEW j \in 0..Len(ws), i <= j
    PROVE  pos[i] <= pos[j]
<1> DEFINE Bad == {k \in 0..Len(ws) : i <= k /\ ~(pos[i] <= pos[k])}
<1>1. /\ Len(ws) \in Nat /\ Len(file) \in Nat
      /\ pos \in [0..Len(ws) -> 0..Len(file)]
  BY DEF Lies
<1>2. Bad = {}
  <2> SUFFICES ASSUME Bad # {}
               PROVE  FALSE
    OBVIOUS
  <2>1. PICK k \in Bad : \A l \in Bad : k <= l
    <3>1. Bad \in SUBSET Nat
      BY <1>1
    <3> HIDE DEF Bad
    <3> QED
      BY <3>1, LeastOf
  <2>2. k \in 0..Len(ws) /\ i <= k /\ ~(pos[i] <= pos[k])
    BY <2>1
  <2>3. k # i /\ k \in 1..Len(ws) /\ i <= k - 1 /\ ~(k <= k - 1)
    BY <1>1, <2>2
  <2>4. k - 1 \in 0..Len(ws) /\ pos[k - 1] <= pos[k] /\ pos[k - 1] \in Nat
        /\ pos[k] \in Nat
    BY <2>3, WriteEnds
  <2>5. k - 1 \notin Bad
    <3> HIDE DEF Bad
    <3> QED
      BY <2>1, <2>3
  <2>6. pos[i] <= pos[k - 1] /\ pos[i] \in Nat
    BY <1>1, <2>3, <2>4, <2>5
  <2> DEFINE a == pos[i]
             b == pos[k - 1]
             c == pos[k]
  <2>7. a \in Nat /\ b \in Nat /\ c \in Nat /\ a <= b /\ b <= c /\ ~(a <= c)
    BY <2>2, <2>4, <2>6
  <2> HIDE DEF a, b, c
  <2> QED
    BY <2>7
<1> QED
  BY <1>2

\* Writes that leave nothing behind do not move the end.
LEMMA WritesIdle ==
    ASSUME NEW ws, NEW file, NEW pos, Lies(ws, file, pos),
           NEW i \in 0..Len(ws), NEW j \in 0..Len(ws), i <= j,
           \A k \in (i + 1)..j : OutcomeOf(ws, k) = "nothing"
    PROVE  pos[i] = pos[j]
<1> DEFINE Bad == {k \in 0..j : i <= k /\ pos[i] # pos[k]}
<1>1. Len(ws) \in Nat
  BY DEF Lies
<1>2. Bad = {}
  <2> SUFFICES ASSUME Bad # {}
               PROVE  FALSE
    OBVIOUS
  <2>1. PICK k \in Bad : \A l \in Bad : k <= l
    <3>1. Bad \in SUBSET Nat
      BY <1>1
    <3> HIDE DEF Bad
    <3> QED
      BY <3>1, LeastOf
  <2>2. k \in 0..j /\ i <= k /\ pos[i] # pos[k]
    BY <2>1
  <2>3. /\ k # i /\ k \in 1..Len(ws) /\ i <= k - 1 /\ ~(k <= k - 1)
        /\ k - 1 \in 0..j /\ k \in (i + 1)..j
    BY <1>1, <2>2
  <2>4. pos[k] = pos[k - 1]
    BY <2>3, WriteEnds
  <2>5. k - 1 \notin Bad
    <3> HIDE DEF Bad
    <3> QED
      BY <2>1, <2>3
  <2>6. pos[i] = pos[k - 1]
    BY <2>3, <2>5
  <2> QED
    BY <2>2, <2>4, <2>6
<1>3. j \in 0..j
  BY <1>1
<1> QED
  BY <1>2, <1>3

\* Every place in the file is some write's.
LEMMA WriteOf ==
    ASSUME NEW ws, NEW file, NEW pos, Lies(ws, file, pos),
           NEW p \in 1..Len(file)
    PROVE  \E i \in 1..Len(ws) : pos[i - 1] < p /\ p <= pos[i]
<1> DEFINE At == {i \in 0..Len(ws) : p <= pos[i]}
<1>1. /\ Len(ws) \in Nat /\ Len(file) \in Nat
      /\ pos \in [0..Len(ws) -> 0..Len(file)]
      /\ pos[0] = 0 /\ pos[Len(ws)] = Len(file)
  BY DEF Lies
<1>2. PICK i \in At : \A j \in At : i <= j
  <2>1. At \in SUBSET Nat
    BY <1>1
  <2>2. Len(ws) \in At
    BY <1>1
  <2> HIDE DEF At
  <2> QED
    BY <2>1, <2>2, LeastOf
<1>3. i \in 0..Len(ws) /\ p <= pos[i]
  BY <1>2
<1>4. i \in 1..Len(ws)
  BY <1>1, <1>3
<1>5. i - 1 \in 0..Len(ws) /\ ~(i <= i - 1) /\ pos[i - 1] \in Nat
  BY <1>1, <1>4
<1>6. i - 1 \notin At
  <2> HIDE DEF At
  <2> QED
    BY <1>2, <1>5
<1>7. pos[i - 1] < p
  BY <1>5, <1>6
<1> QED
  BY <1>3, <1>4, <1>7

\* Nothing is left of the first m writes on the line that they leave.
CleanAfter(ws, m) ==
    \A j \in 1..m :
        \/ OutcomeOf(ws, j) \in {"whole", "nothing"}
        \/ \E k \in (j + 1)..m : OutcomeOf(ws, k) = "whole"

\* Nothing is behind the record of write i on its line.
EndsLine(ws, i) ==
    \/ OutcomeOf(ws, i) = "whole"
    \/ /\ OutcomeOf(ws, i) = "unended"
       /\ \A j \in (i + 1)..Len(ws) : OutcomeOf(ws, j) = "nothing"

LEMMA CleanIs ==
    ASSUME NEW ws, NEW file, NEW pos, Lies(ws, file, pos),
           NEW m \in 0..Len(ws)
    PROVE  CleanAfter(ws, m) <=> pos[m] = 0 \/ file[pos[m]] = Eol
<1> DEFINE Good(l) == CleanAfter(ws, l) <=> pos[l] = 0 \/ file[pos[l]] = Eol
           Bad == {l \in 0..Len(ws) : ~Good(l)}
<1>1. /\ Len(ws) \in Nat /\ Len(file) \in Nat /\ pos[0] = 0
  BY DEF Lies
<1>2. Bad = {}
  <2> SUFFICES ASSUME Bad # {}
               PROVE  FALSE
    OBVIOUS
  <2>1. PICK l \in Bad : \A k \in Bad : l <= k
    <3>1. Bad \in SUBSET Nat
      BY <1>1
    <3> HIDE DEF Bad
    <3> QED
      BY <3>1, LeastOf
  <2>2. l \in 0..Len(ws) /\ ~Good(l)
    BY <2>1
  <2>3. CASE l = 0
    <3>1. CleanAfter(ws, 0)
      <4>1. \A j \in 1..0 : FALSE
        OBVIOUS
      <4> QED
        BY <4>1 DEF CleanAfter
    <3> QED
      BY <1>1, <2>2, <2>3, <3>1
  <2>4. CASE l # 0
    <3> DEFINE i == l - 1
               a == pos[i]
               b == pos[l]
               o == OutcomeOf(ws, l)
    <3>1. /\ l \in 1..Len(ws) /\ i \in 0..Len(ws) /\ ~(l <= i)
          /\ \A j \in 1..l : j \in 1..i \/ j = l
          /\ \A j \in 1..i : /\ j \in 1..l /\ l \in (j + 1)..l
                             /\ \A k \in (j + 1)..l : k \in (j + 1)..i \/ k = l
                             /\ \A k \in (j + 1)..i : k \in (j + 1)..l
          /\ l \in 1..l /\ \A k \in (l + 1)..l : FALSE
      <4> HIDE DEF Good
      <4> QED
        BY <1>1, <2>2, <2>4
    <3>2. CleanAfter(ws, i) <=> a = 0 \/ file[a] = Eol
      <4>1. i \notin Bad
        <5> HIDE DEF Bad, i
        <5> QED
          BY <2>1, <3>1
      <4> QED
        BY <3>1, <4>1
    <3>3. /\ o \in Outcomes
          /\ o = "whole" => b = a + 2 /\ file[a + 2] = Eol
          /\ o = "unended" => b = a + 1 /\ file[a + 1] = Entry(RecordOf(ws, l))
          /\ o = "torn" => b = a + 1 /\ file[a + 1] = Fragment
          /\ o = "cut" => b = a + 1 /\ file[a + 1] = Cut
          /\ o = "nothing" => b = a
      BY <3>1 DEF Lies
    <3>4. a \in Nat
      BY <1>1, <3>1, WriteEnds
    <3> HIDE DEF i, a, b
    <3>5. CASE o = "nothing"
      <4>1. CleanAfter(ws, l) <=> CleanAfter(ws, i)
        <5> HIDE DEF o
        <5>1. OutcomeOf(ws, l) = "nothing"
          BY <3>5 DEF o
        <5> QED
          BY <3>1, <5>1 DEF CleanAfter
      <4> QED
        BY <2>2, <3>2, <3>3, <3>5, <4>1 DEF b
    <3>6. CASE o = "whole"
      <4>1. CleanAfter(ws, l)
        <5>1. OutcomeOf(ws, l) = "whole"
          BY <3>6
        <5> QED
          BY <3>1, <5>1 DEF CleanAfter
      <4>2. file[b] = Eol
        BY <3>3, <3>6
      <4> QED
        BY <2>2, <4>1, <4>2 DEF b
    <3>7. CASE o \in {"unended", "torn", "cut"}
      <4>1. ~CleanAfter(ws, l)
        <5>1. OutcomeOf(ws, l) \notin {"whole", "nothing"}
          BY <3>7
        <5> QED
          BY <3>1, <5>1 DEF CleanAfter
      <4>2. file[b] # Eol
        <5> HIDE DEF o
        <5> QED
          BY <3>3, <3>7, ItemsDiffer
      <4>3. b # 0
        <5> HIDE DEF o
        <5>1. b = a + 1
          BY <3>3, <3>7
        <5> QED
          BY <3>4, <5>1
      <4> QED
        BY <2>2, <4>1, <4>2, <4>3 DEF b
    <3> QED
      BY <3>3, <3>5, <3>6, <3>7 DEF Outcomes
  <2> QED
    BY <2>3, <2>4
<1> QED
  BY <1>2

LEMMA EndsIs ==
    ASSUME NEW ws, NEW file, NEW pos, Lies(ws, file, pos),
           NEW i \in 1..Len(ws), OutcomeOf(ws, i) \in {"whole", "unended"}
    PROVE  EndsLine(ws, i) <=> \/ pos[i - 1] + 1 = Len(file)
                               \/ file[pos[i - 1] + 2] = Eol
<1> DEFINE a == pos[i - 1]
           b == pos[i]
           o == OutcomeOf(ws, i)
           n == Len(ws)
<1>1. n \in Nat /\ Len(file) \in Nat /\ pos[n] = Len(file)
  BY DEF Lies
<1>2. /\ o = "whole" => b = a + 2 /\ file[a + 2] = Eol
      /\ o = "unended" => b = a + 1
  BY DEF Lies
<1>3. a \in Nat /\ b \in Nat /\ b <= Len(file)
  BY <1>1, WriteEnds
<1>4. CASE o = "whole"
  BY <1>2, <1>4 DEF EndsLine
<1>5. CASE o = "unended"
  <2>0. EndsLine(ws, i) <=> \A j \in (i + 1)..n : OutcomeOf(ws, j) = "nothing"
    BY <1>5 DEF EndsLine
  <2>1. i \in 0..n /\ n \in 0..n /\ i <= n
    BY <1>1
  <2>2. CASE \A j \in (i + 1)..n : OutcomeOf(ws, j) = "nothing"
    <3>1. b = pos[n]
      BY <2>1, <2>2, WritesIdle
    <3>2. a + 1 = Len(file)
      BY <1>1, <1>2, <1>5, <3>1
    <3> QED
      BY <2>0, <2>2, <3>2
  <2>3. CASE ~\A j \in (i + 1)..n : OutcomeOf(ws, j) = "nothing"
    <3> DEFINE Later == {j \in (i + 1)..n : OutcomeOf(ws, j) # "nothing"}
    <3>1. PICK j \in Later : \A k \in Later : j <= k
      <4>1. Later \in SUBSET Nat /\ Later # {}
        BY <2>1, <2>3
      <4> HIDE DEF Later
      <4> QED
        BY <4>1, LeastOf
    <3>2. j \in (i + 1)..n /\ OutcomeOf(ws, j) # "nothing"
      BY <3>1
    <3>3. /\ j \in 1..n /\ j - 1 \in 0..n /\ i <= j - 1 /\ j \in 0..n
          /\ \A k \in (i + 1)..(j - 1) : k \in (i + 1)..n /\ ~(j <= k)
      BY <1>1, <2>1, <3>2
    <3>4. \A k \in (i + 1)..(j - 1) : OutcomeOf(ws, k) = "nothing"
      <4>1. \A k \in (i + 1)..(j - 1) : k \notin Later
        <5> HIDE DEF Later
        <5> QED
          BY <3>1, <3>3
      <4> QED
        BY <3>3, <4>1
    <3>5. pos[j - 1] = b
      BY <2>1, <3>3, <3>4, WritesIdle
    <3> DEFINE c == pos[j - 1]
               d == pos[j]
               q == OutcomeOf(ws, j)
    <3>6. /\ q \in Outcomes /\ q # "nothing"
          /\ q = "whole" => d = c + 2 /\ file[c + 1] = Entry(RecordOf(ws, j))
          /\ q = "unended" => d = c + 1 /\ file[c + 1] = Entry(RecordOf(ws, j))
          /\ q = "torn" => d = c + 1 /\ file[c + 1] = Fragment
          /\ q = "cut" => d = c + 1 /\ file[c + 1] = Cut
      BY <3>2, <3>3 DEF Lies
    <3>7. d \in Nat /\ d <= Len(file)
      BY <1>1, <3>3, WriteEnds
    <3>8. c = a + 1
      BY <1>2, <1>5, <3>5
    <3> HIDE DEF a, b, c, d, q, o
    <3>9. file[c + 1] # Eol
      BY <3>6, ItemsDiffer DEF Outcomes
    <3>10. c + 1 <= d
      BY <1>3, <3>6, <3>8 DEF Outcomes
    <3>11. c + 1 = a + 2 /\ a + 1 # Len(file)
      BY <1>1, <1>3, <3>7, <3>8, <3>10
    <3>12. file[a + 2] # Eol
      BY <3>9, <3>11
    <3> QED
      BY <2>0, <2>3, <3>11, <3>12 DEF a
  <2> QED
    BY <2>2, <2>3
<1> QED
  BY <1>4, <1>5

\* The writes that have a line of their own are those.
LEMMA CountedIs ==
    ASSUME NEW ws \in Writes, NEW kind, NEW i
    PROVE  i \in WritesOnLines(ws, kind)
              <=> /\ i \in 1..Len(ws)
                  /\ RecordOf(ws, i).kind = kind
                  /\ CleanAfter(ws, i - 1)
                  /\ EndsLine(ws, i)
<1>1. DOMAIN ws = 1..Len(ws)
  BY LenProperties DEF Writes
<1> QED
  BY <1>1, Zenon
     DEF WritesOnLines, CleanAfter, EndsLine, RecordOf, OutcomeOf

\* Where the record of a write begins.
PlaceOf(pos, i) == pos[i - 1] + 1

\* append, str::lines, from_str: the records that are read are those of the
\* writes that count.
LEMMA CountedPlaces ==
    ASSUME NEW ws \in Writes, NEW file, NEW pos,
           Lies(ws, file, pos), NEW kind
    PROVE  /\ OfKind(file, kind)
                = {PlaceOf(pos, i) : i \in WritesOnLines(ws, kind)}
           /\ \A i \in WritesOnLines(ws, kind) :
                 file[PlaceOf(pos, i)].record = RecordOf(ws, i)
<1>1. /\ Len(ws) \in Nat /\ Len(file) \in Nat /\ DOMAIN file = 1..Len(file)
  BY DEF Lies
<1>2. ASSUME NEW i \in 1..Len(ws), OutcomeOf(ws, i) \in {"whole", "unended"}
      PROVE  LET p == PlaceOf(pos, i) IN
             /\ p \in DOMAIN file
             /\ file[p] = Entry(RecordOf(ws, i))
             /\ Parses(file, p) <=> CleanAfter(ws, i - 1) /\ EndsLine(ws, i)
  <2> DEFINE a == pos[i - 1]
             p == PlaceOf(pos, i)
             r == RecordOf(ws, i)
  <2>1. /\ i - 1 \in 0..Len(ws) /\ a \in Nat /\ pos[i] \in Nat
        /\ pos[i] <= Len(file)
    BY <1>1, WriteEnds
  <2>2. /\ pos[i] >= a + 1 /\ file[a + 1] = Entry(r)
    BY <1>2, <2>1 DEF Lies
  <2>3. /\ p = a + 1 /\ p - 1 = a /\ p + 1 = a + 2 /\ p \in 1..Len(file)
        /\ p = 1 <=> a = 0
    <3> DEFINE b == pos[i]
               m == Len(file)
    <3>1. /\ a \in Nat /\ b \in Nat /\ m \in Nat /\ b <= m /\ b >= a + 1
          /\ p = a + 1
      BY <1>1, <2>1, <2>2 DEF PlaceOf
    <3> HIDE DEF a, b, m, p
    <3>2. /\ p = a + 1 /\ p - 1 = a /\ p + 1 = a + 2 /\ p \in 1..m
          /\ p = 1 <=> a = 0
      BY <3>1
    <3> QED
      BY <3>2 DEF m
  <2>4. CleanAfter(ws, i - 1) <=> a = 0 \/ file[a] = Eol
    BY <2>1, CleanIs
  <2>5. EndsLine(ws, i) <=> a + 1 = Len(file) \/ file[a + 2] = Eol
    BY <1>2, EndsIs
  <2>6. file[p].item = "record"
    BY <2>2, <2>3, ItemsDiffer
  <2> HIDE DEF a, p
  <2>7. Parses(file, p) <=> CleanAfter(ws, i - 1) /\ EndsLine(ws, i)
    BY <2>3, <2>4, <2>5, <2>6 DEF Parses
  <2> QED
    BY <1>1, <2>2, <2>3, <2>7 DEF p
<1>3. \A i \in WritesOnLines(ws, kind) :
         /\ i \in 1..Len(ws) /\ OutcomeOf(ws, i) \in {"whole", "unended"}
  BY CountedIs DEF EndsLine
<1>4. ASSUME NEW i \in WritesOnLines(ws, kind)
      PROVE  /\ PlaceOf(pos, i) \in OfKind(file, kind)
             /\ file[PlaceOf(pos, i)].record = RecordOf(ws, i)
  <2> DEFINE p == PlaceOf(pos, i)
  <2>1. /\ i \in 1..Len(ws) /\ OutcomeOf(ws, i) \in {"whole", "unended"}
        /\ RecordOf(ws, i).kind = kind
        /\ CleanAfter(ws, i - 1) /\ EndsLine(ws, i)
    BY <1>3, CountedIs
  <2>2. /\ p \in DOMAIN file /\ file[p] = Entry(RecordOf(ws, i))
        /\ Parses(file, p)
    BY <1>2, <2>1
  <2> HIDE DEF p
  <2>3. file[p].record = RecordOf(ws, i)
    BY <2>2, ItemsDiffer
  <2> QED
    BY <2>1, <2>2, <2>3 DEF OfKind, p
<1>5. ASSUME NEW p \in OfKind(file, kind)
      PROVE  \E i \in WritesOnLines(ws, kind) : p = PlaceOf(pos, i)
  <2>1. /\ p \in 1..Len(file) /\ Parses(file, p)
        /\ file[p].record.kind = kind /\ file[p].item = "record"
    BY <1>1 DEF OfKind, Parses
  <2>2. PICK i \in 1..Len(ws) : pos[i - 1] < p /\ p <= pos[i]
    BY <2>1, WriteOf
  <2> DEFINE a == pos[i - 1]
             b == pos[i]
             o == OutcomeOf(ws, i)
  <2>3. /\ o \in Outcomes
        /\ o = "whole" => b = a + 2 /\ file[a + 2] = Eol
        /\ o = "unended" => b = a + 1
        /\ o = "torn" => b = a + 1 /\ file[a + 1] = Fragment
        /\ o = "cut" => b = a + 1 /\ file[a + 1] = Cut
        /\ o = "nothing" => b = a
    BY DEF Lies
  <2>4. a \in Nat /\ b \in Nat /\ a < p /\ p <= b /\ p \in Nat
    <3>1. a \in 0..Len(file) /\ b \in 0..Len(file)
      BY <2>2, WriteEnds
    <3> HIDE DEF a, b
    <3>2. a \in Nat /\ b \in Nat /\ p \in Nat
      BY <1>1, <2>1, <3>1
    <3> QED
      BY <2>2, <3>2 DEF a, b
  <2> HIDE DEF a, b, o
  <2>5. o # "nothing" /\ (o # "whole" => p = a + 1)
        /\ (o = "whole" => p = a + 1 \/ p = a + 2)
    BY <2>3, <2>4 DEF Outcomes
  <2>6. p = a + 1 /\ o \in {"whole", "unended"}
    BY <2>1, <2>3, <2>5, ItemsDiffer DEF Outcomes
  <2>7. p = PlaceOf(pos, i)
    BY <2>6 DEF PlaceOf, a
  <2>8. /\ file[p] = Entry(RecordOf(ws, i))
        /\ CleanAfter(ws, i - 1) /\ EndsLine(ws, i)
    BY <1>2, <2>1, <2>6, <2>7 DEF o
  <2>9. RecordOf(ws, i).kind = kind
    BY <2>1, <2>8, ItemsDiffer
  <2> QED
    BY <2>7, <2>8, <2>9, CountedIs
<1> QED
  BY <1>4, <1>5

-----------------------------------------------------------------------------
(* Ranks and percentiles.                                                  *)

Below(values, v)   == {i \in DOMAIN values : values[i] < v}
AtMost(values, v)  == {i \in DOMAIN values : values[i] <= v}
AtLeast(values, v) == {i \in DOMAIN values : values[i] >= v}
ValuesOf(values)   == {values[i] : i \in DOMAIN values}

\* percentile: there is a value at every rank.
LEMMA RankedIs ==
    ASSUME NEW D, IsFiniteSet(D), NEW values \in [D -> Nat],
           NEW rank \in 1..Cardinality(D)
    PROVE  /\ AtRank(values, rank) \in ValuesOf(values)
           /\ Cardinality(Below(values, AtRank(values, rank))) < rank
           /\ Cardinality(AtMost(values, AtRank(values, rank))) >= rank
<1> DEFINE n == Cardinality(D)
           All == ValuesOf(values)
<1>1. n \in Nat /\ DOMAIN values = D /\ rank \in Nat /\ rank >= 1 /\ rank <= n
  BY FS_CardinalityType
<1>2. All \in SUBSET Nat
  BY <1>1 DEF ValuesOf
<1>3. IsFiniteSet(All)
  <2>1. values \in Surjection(D, All)
    <3>1. values \in [D -> All]
      BY <1>1 DEF ValuesOf
    <3>2. \A v \in All : \E i \in D : values[i] = v
      BY <1>1 DEF ValuesOf
    <3> HIDE DEF All
    <3> QED
      BY <3>1, <3>2 DEF Surjection
  <2> HIDE DEF All
  <2> QED
    BY <2>1, FS_Surjection
<1>4. D # {}
  <2>1. Cardinality({}) = 0
    BY FS_EmptySet
  <2> QED
    BY <1>1, <2>1
<1>5. All # {}
  BY <1>1, <1>4 DEF ValuesOf
<1>6. \A v : /\ Below(values, v) \in SUBSET D /\ AtMost(values, v) \in SUBSET D
             /\ IsFiniteSet(Below(values, v)) /\ IsFiniteSet(AtMost(values, v))
             /\ Cardinality(Below(values, v)) \in Nat
             /\ Cardinality(AtMost(values, v)) \in Nat
  <2>1. \A v : Below(values, v) \in SUBSET D /\ AtMost(values, v) \in SUBSET D
    BY <1>1 DEF Below, AtMost
  <2> QED
    BY <2>1, FS_Subset, FS_CardinalityType
<1> DEFINE Reached == {v \in All : Cardinality(AtMost(values, v)) >= rank}
<1>7. Reached # {}
  <2> DEFINE top == Max(All)
  <2>1. top \in All /\ \A v \in All : v <= top
    <3> HIDE DEF All
    <3> QED
      BY <1>2, <1>3, <1>5, GreatestOf
  <2> HIDE DEF top
  <2>2. AtMost(values, top) = D
    BY <1>1, <2>1 DEF AtMost, ValuesOf
  <2>3. Cardinality(AtMost(values, top)) >= rank
    BY <1>1, <2>2
  <2> HIDE DEF All
  <2> QED
    BY <2>1, <2>3
<1>8. PICK v \in Reached : \A w \in Reached : v <= w
  <2>1. Reached \in SUBSET Nat
    BY <1>2
  <2> HIDE DEF Reached
  <2> QED
    BY <1>7, <2>1, LeastOf
<1> HIDE DEF All
<1>9. v \in All /\ v \in Nat /\ Cardinality(AtMost(values, v)) >= rank
  BY <1>2, <1>8
<1>10. Cardinality(Below(values, v)) < rank
  <2> DEFINE Lower == {values[i] : i \in Below(values, v)}
  <2>1. CASE Lower = {}
    <3>1. Below(values, v) = {}
      BY <2>1
    <3>2. Cardinality({}) = 0
      BY FS_EmptySet
    <3> QED
      BY <1>1, <3>1, <3>2
  <2>2. CASE Lower # {}
    <3>1. Lower \subseteq All
      BY DEF Below, ValuesOf, All
    <3> DEFINE w == Max(Lower)
    <3>2. w \in Lower /\ \A u \in Lower : u <= w
      <4>1. Lower \in SUBSET Nat /\ IsFiniteSet(Lower)
        <5> HIDE DEF Lower
        <5> QED
          BY <1>2, <1>3, <3>1, FS_Subset
      <4> HIDE DEF Lower
      <4> QED
        BY <2>2, <4>1, GreatestOf
    <3> HIDE DEF w
    <3>3. w < v /\ w \in All /\ w \in Nat
      BY <1>2, <3>1, <3>2 DEF Below
    <3>4. Below(values, v) \subseteq AtMost(values, w)
      <4>1. \A i \in Below(values, v) : values[i] <= w /\ i \in DOMAIN values
        BY <3>2 DEF Below
      <4> QED
        BY <4>1 DEF AtMost
    <3>5. w \notin Reached
      <4>1. ~(v <= w)
        BY <1>9, <3>3
      <4> HIDE DEF Reached
      <4> QED
        BY <1>8, <4>1
    <3>6. Cardinality(AtMost(values, w)) < rank
      BY <1>1, <1>6, <3>3, <3>5
    <3>7. Cardinality(Below(values, v)) <= Cardinality(AtMost(values, w))
      BY <1>6, <3>4, FS_Subset
    <3> QED
      BY <1>1, <1>6, <3>6, <3>7
  <2> QED
    BY <2>1, <2>2
<1> DEFINE Fits(u) == /\ Cardinality(Below(values, u)) < rank
                      /\ Cardinality(AtMost(values, u)) >= rank
<1>11. v \in All /\ Fits(v)
  BY <1>9, <1>10
<1>12. AtRank(values, rank) = CHOOSE u \in All : Fits(u)
  BY Zenon DEF AtRank, Below, AtMost, All, ValuesOf
<1> HIDE DEF Fits
<1>13. AtRank(values, rank) \in All /\ Fits(AtRank(values, rank))
  BY <1>11, <1>12
<1> QED
  BY <1>13 DEF Fits, All

\* The value at the last rank is the largest.
LEMMA TopRank ==
    ASSUME NEW D, IsFiniteSet(D), D # {}, NEW values \in [D -> Nat]
    PROVE  AtRank(values, Cardinality(D)) = Max(ValuesOf(values))
<1> DEFINE n == Cardinality(D)
           All == ValuesOf(values)
           v == AtRank(values, n)
<1>1. n \in Nat /\ n # 0 /\ DOMAIN values = D
  BY FS_CardinalityType, FS_EmptySet
<1>2. n \in 1..Cardinality(D)
  BY <1>1
<1>3. /\ v \in All
      /\ Cardinality(AtMost(values, v)) >= n
  <2> HIDE DEF n
  <2> QED
    BY <1>2, RankedIs
<1>4. AtMost(values, v) \in SUBSET D
  BY <1>1 DEF AtMost
<1>5. AtMost(values, v) = D
  <2>1. /\ Cardinality(AtMost(values, v)) <= n
        /\ Cardinality(AtMost(values, v)) \in Nat
        /\ n = Cardinality(AtMost(values, v)) => D = AtMost(values, v)
    BY <1>4, FS_Subset, FS_CardinalityType
  <2> HIDE DEF n, v
  <2> QED
    BY <1>1, <1>3, <2>1
<1>6. All \in SUBSET Nat /\ \A w \in All : w <= v
  <2>1. \A i \in D : values[i] <= v
    BY <1>5 DEF AtMost
  <2> HIDE DEF v
  <2> QED
    BY <1>1, <2>1 DEF ValuesOf
<1>7. Max(All) = CHOOSE x \in All : \A w \in All : w <= x
  BY DEF Max
<1> HIDE DEF All, v
<1>8. \A x \in All : (\A w \in All : w <= x) => x = v
  BY <1>3, <1>6
<1>9. Max(All) = v
  BY <1>3, <1>6, <1>7, <1>8
<1> QED
  BY <1>9 DEF All, v

\* Division by 200.
LEMMA Halves ==
    ASSUME NEW n \in Nat, n # 0
    PROVE  LET r == ((2 * 50 * (n - 1) + 100) \div 200) + 1
           IN  r \in 1..n /\ 2 * r > n /\ 2 * r <= n + 2
<1> DEFINE m == 2 * 50 * (n - 1) + 100
           q == m \div 200
<1>1. m = 100 * n
  OBVIOUS
<1>2. m \in Nat
  BY <1>1
<1> HIDE DEF m
<1>3. q \in Nat /\ 200 * q <= m /\ m < 200 * q + 200
  BY <1>2
<1> HIDE DEF q
<1>4. 2 * q <= n /\ n < 2 * q + 2
  BY <1>1, <1>3
<1> DEFINE r == q + 1
<1>5. r \in Nat /\ r >= 1 /\ 2 * r > n /\ 2 * r <= n + 2
  BY <1>3, <1>4
<1>6. r <= n
  <2>1. n >= 2 => r <= n
    BY <1>5
  <2>2. n = 1 => q = 0
    BY <1>3, <1>4
  <2> QED
    BY <2>1, <2>2
<1> HIDE DEF r
<1>7. r \in 1..n /\ 2 * r > n /\ 2 * r <= n + 2
  BY <1>5, <1>6
<1> QED
  BY <1>7 DEF r, q, m

\* percentile, of 50: the median has half of the values at or below it and
\* half at or above it.
LEMMA MedianHalves ==
    ASSUME NEW D, IsFiniteSet(D), D # {}, NEW values \in [D -> Nat]
    PROVE  /\ Percentile(values, 50) \in Nat
           /\ 2 * Cardinality(AtMost(values, Percentile(values, 50)))
                >= Cardinality(D)
           /\ 2 * Cardinality(AtLeast(values, Percentile(values, 50)))
                >= Cardinality(D)
<1> DEFINE n == Cardinality(D)
           r == ((2 * 50 * (n - 1) + 100) \div 200) + 1
           v == AtRank(values, r)
<1>1. n \in Nat /\ n # 0 /\ DOMAIN values = D
  BY FS_CardinalityType, FS_EmptySet
<1>2. Percentile(values, 50) = v
  BY <1>1 DEF Percentile
<1>3. r \in 1..n /\ 2 * r > n /\ 2 * r <= n + 2
  <2> HIDE DEF n
  <2> QED
    BY <1>1, Halves
<1> HIDE DEF r
<1>4. /\ v \in ValuesOf(values)
      /\ Cardinality(Below(values, v)) < r
      /\ Cardinality(AtMost(values, v)) >= r
  BY <1>3, RankedIs
<1>5. v \in Nat
  BY <1>1, <1>4 DEF ValuesOf
<1> HIDE DEF v
<1>6. /\ Below(values, v) \in SUBSET D /\ AtMost(values, v) \in SUBSET D
      /\ AtLeast(values, v) = D \ Below(values, v)
      /\ D \cap Below(values, v) = Below(values, v)
  <2>1. \A i \in D : values[i] \in Nat
    OBVIOUS
  <2>2. \A i \in D : values[i] >= v <=> ~(values[i] < v)
    BY <1>5, <2>1
  <2> QED
    BY <1>1, <2>2 DEF Below, AtMost, AtLeast
<1> DEFINE b == Cardinality(Below(values, v))
           m == Cardinality(AtMost(values, v))
           l == Cardinality(AtLeast(values, v))
<1>7. b \in Nat /\ m \in Nat /\ l = n - b
  <2> DEFINE B == Below(values, v)
  <2>1. B \in SUBSET D /\ D \cap B = B
    BY <1>6
  <2> HIDE DEF B
  <2>2. IsFiniteSet(B) /\ Cardinality(B) \in Nat
    BY <2>1, FS_Subset, FS_CardinalityType
  <2>3. Cardinality(D \ B) = Cardinality(D) - Cardinality(B)
    BY <2>1, FS_Difference
  <2>4. Cardinality(AtMost(values, v)) \in Nat
    BY <1>6, FS_Subset, FS_CardinalityType
  <2> QED
    BY <1>6, <2>2, <2>3, <2>4 DEF B
<1>8. b < r /\ m >= r
  BY <1>4
<1> HIDE DEF b, m, l, n
<1>9. 2 * m >= n /\ 2 * l >= n
  <2>1. r \in Nat /\ b + 1 <= r
    BY <1>1, <1>3, <1>7, <1>8
  <2>2. 2 * m >= n
    BY <1>1, <1>3, <1>7, <1>8, <2>1
  <2>3. 2 * b + 2 <= n + 2
    BY <1>1, <1>3, <1>7, <2>1
  <2>4. 2 * l >= n
    BY <1>1, <1>7, <2>3
  <2> QED
    BY <2>2, <2>4
<1> QED
  BY <1>2, <1>5, <1>9 DEF m, l, n

-----------------------------------------------------------------------------
(* The statistics of a sink.                                               *)

\* Later writes have later places.
LEMMA PlacesRise ==
    ASSUME NEW ws \in Writes, NEW file, NEW pos,
           Lies(ws, file, pos), NEW kind,
           NEW i \in WritesOnLines(ws, kind), NEW j \in WritesOnLines(ws, kind)
    PROVE  /\ i \in Nat /\ PlaceOf(pos, i) \in Nat
           /\ i < j => PlaceOf(pos, i) < PlaceOf(pos, j)
<1>1. /\ i \in 1..Len(ws) /\ OutcomeOf(ws, i) # "nothing"
      /\ j \in 1..Len(ws) /\ Len(ws) \in Nat
  <2>1. i \in 1..Len(ws) /\ EndsLine(ws, i) /\ j \in 1..Len(ws)
    BY CountedIs
  <2> QED
    BY <2>1 DEF EndsLine, Lies
<1> DEFINE a == pos[i - 1]
           b == pos[i]
           c == pos[j - 1]
<1>2. a \in Nat /\ b \in Nat /\ a < b /\ c \in Nat
  <2>1. /\ a \in 0..Len(file) /\ b \in 0..Len(file) /\ c \in 0..Len(file)
        /\ a <= b /\ a # b
    BY <1>1, WriteEnds
  <2>2. Len(file) \in Nat
    BY DEF Lies
  <2> HIDE DEF a, b, c
  <2> QED
    BY <2>1, <2>2
<1>3. i < j => b <= c
  <2> SUFFICES ASSUME i < j
               PROVE  b <= c
    OBVIOUS
  <2>1. i \in 0..Len(ws) /\ j - 1 \in 0..Len(ws) /\ i <= j - 1
    BY <1>1
  <2> QED
    BY <2>1, WritesRise
<1>4. PlaceOf(pos, i) = a + 1 /\ PlaceOf(pos, j) = c + 1
  BY DEF PlaceOf
<1> HIDE DEF a, b, c
<1>5. i \in Nat
  BY <1>1
<1>6. PlaceOf(pos, i) \in Nat
  BY <1>2, <1>4
<1>7. i < j => PlaceOf(pos, i) < PlaceOf(pos, j)
  BY <1>2, <1>3, <1>4
<1> QED
  BY <1>5, <1>6, <1>7

PlacesOf(pos, S) == {PlaceOf(pos, i) : i \in S}

\* So there are as many places as writes.
LEMMA PlacesCount ==
    ASSUME NEW ws \in Writes, NEW file, NEW pos,
           Lies(ws, file, pos), NEW kind,
           NEW S \in SUBSET WritesOnLines(ws, kind)
    PROVE  /\ IsFiniteSet(S) /\ IsFiniteSet(PlacesOf(pos, S))
           /\ Cardinality(PlacesOf(pos, S)) = Cardinality(S)
<1> DEFINE T == PlacesOf(pos, S)
           f == [i \in S |-> PlaceOf(pos, i)]
<1>1. IsFiniteSet(S)
  <2>1. S \in SUBSET (1..Len(ws)) /\ Len(ws) \in Nat
    BY CountedIs DEF Lies
  <2>2. IsFiniteSet(1..Len(ws))
    BY <2>1, FS_Interval
  <2> QED
    BY <2>1, <2>2, FS_Subset
<1>2. \A i, j \in S : PlaceOf(pos, i) = PlaceOf(pos, j) => i = j
  <2> SUFFICES ASSUME NEW i \in S, NEW j \in S,
                      PlaceOf(pos, i) = PlaceOf(pos, j)
               PROVE  i = j
    OBVIOUS
  <2>1. /\ i \in Nat /\ j \in Nat /\ PlaceOf(pos, i) \in Nat
        /\ i < j => PlaceOf(pos, i) < PlaceOf(pos, j)
    BY PlacesRise
  <2>2. j < i => PlaceOf(pos, j) < PlaceOf(pos, i)
    BY PlacesRise
  <2> QED
    BY <2>1, <2>2
<1>3. f \in Surjection(S, T) /\ f \in Injection(S, T)
  <2>1. f \in [S -> T] /\ \A t \in T : \E i \in S : f[i] = t
    BY DEF PlacesOf
  <2>2. \A i, j \in S : f[i] = f[j] => i = j
    BY <1>2
  <2> HIDE DEF f, T
  <2>3. f \in Surjection(S, T)
    BY <2>1 DEF Surjection
  <2>4. f \in Injection(S, T)
    BY <2>1, <2>2 DEF Injection, IsInjective
  <2> QED
    BY <2>3, <2>4
<1> HIDE DEF f, T
<1>4. IsFiniteSet(T) /\ Cardinality(T) = Cardinality(S)
  BY <1>1, <1>3, FS_Surjection
<1> QED
  BY <1>1, <1>4 DEF T

\* The writes whose records are kept, and those of them that have a field.
KeptWrites(ws, kind, last) ==
    {i \in WritesOnLines(ws, kind) :
        Cardinality({j \in WritesOnLines(ws, kind) : j >= i}) <= last}

KeptWith(ws, kind, last, field) ==
    {i \in KeptWrites(ws, kind, last) :
        field \in DOMAIN RecordOf(ws, i).fields}

\* aggregate: the limit keeps the records of those writes.
LEMMA RecordsKept ==
    ASSUME NEW ws \in Writes, NEW file, NEW pos,
           Lies(ws, file, pos), NEW kind, NEW last
    PROVE  RecordsOf(file, kind, last)
              = PlacesOf(pos, KeptWrites(ws, kind, last))
<1> DEFINE C == WritesOnLines(ws, kind)
           all == OfKind(file, kind)
           From(i) == {j \in C : j >= i}
           After(p) == {q \in all : q >= p}
<1>1. all = {PlaceOf(pos, i) : i \in C}
  BY CountedPlaces
<1>2. ASSUME NEW i \in C
      PROVE  Cardinality(After(PlaceOf(pos, i))) = Cardinality(From(i))
  <2>1. \A j \in C : /\ j \in Nat /\ PlaceOf(pos, j) \in Nat
                     /\ i < j => PlaceOf(pos, i) < PlaceOf(pos, j)
                     /\ j < i => PlaceOf(pos, j) < PlaceOf(pos, i)
    BY PlacesRise
  <2>2. i \in Nat /\ PlaceOf(pos, i) \in Nat
    BY PlacesRise
  <2> HIDE DEF C
  <2>3. \A j \in C : j >= i <=> PlaceOf(pos, j) >= PlaceOf(pos, i)
    <3> SUFFICES ASSUME NEW j \in C
                 PROVE  j >= i <=> PlaceOf(pos, j) >= PlaceOf(pos, i)
      OBVIOUS
    <3> DEFINE x == PlaceOf(pos, i)
               y == PlaceOf(pos, j)
    <3>1. /\ j \in Nat /\ x \in Nat /\ y \in Nat
          /\ i < j => x < y
          /\ j < i => y < x
          /\ i = j => x = y
      BY <2>1, <2>2
    <3> HIDE DEF x, y
    <3>2. j >= i <=> y >= x
      BY <2>2, <3>1
    <3> QED
      BY <3>2 DEF x, y
  <2>4. After(PlaceOf(pos, i)) = PlacesOf(pos, From(i))
    <3> HIDE DEF all
    <3> QED
      BY <1>1, <2>3 DEF PlacesOf
  <2>5. From(i) \in SUBSET WritesOnLines(ws, kind)
    BY DEF C
  <2> HIDE DEF From, After
  <2> QED
    BY <2>4, <2>5, PlacesCount
<1>3. RecordsOf(file, kind, last)
        = {p \in all : Cardinality(After(p)) <= last}
  BY DEF RecordsOf
<1>4. KeptWrites(ws, kind, last) = {i \in C : Cardinality(From(i)) <= last}
  BY DEF KeptWrites
<1> HIDE DEF all, C, From, After
<1> QED
  BY <1>1, <1>2, <1>3, <1>4 DEF PlacesOf

\* What the statistics of a field say of the records that have it.
FieldTold(its, ws, with, field) ==
    LET of(i) == RecordOf(ws, i).fields[field] IN
    /\ its.count = Cardinality(with)
    /\ its.max = Max({of(i) : i \in with})
    /\ 2 * Cardinality({i \in with : of(i) <= its.p50}) >= Cardinality(with)
    /\ 2 * Cardinality({i \in with : of(i) >= its.p50}) >= Cardinality(with)

HasNumbers(ws, with, field) ==
    \A i \in with : RecordOf(ws, i).fields[field] \in Nat

\* aggregate: they are those of the writes that are kept and have the field.
LEMMA FieldIsTold ==
    ASSUME NEW ws \in Writes, NEW file, NEW pos,
           Lies(ws, file, pos), NEW kind, NEW last, NEW field,
           KeptWith(ws, kind, last, field) # {},
           HasNumbers(ws, KeptWith(ws, kind, last, field), field)
    PROVE  FieldTold(FieldStats(file, RecordsOf(file, kind, last), field), ws,
                     KeptWith(ws, kind, last, field), field)
<1>0. RecordsOf(file, kind, last) = PlacesOf(pos, KeptWrites(ws, kind, last))
  BY RecordsKept
<1> DEFINE kept   == KeptWrites(ws, kind, last)
           with   == KeptWith(ws, kind, last, field)
           places == PlacesOf(pos, with)
           of(i)  == RecordOf(ws, i).fields[field]
           values == [p \in places |-> file[p].record.fields[field]]
<1>1. /\ kept \in SUBSET WritesOnLines(ws, kind)
      /\ with \in SUBSET WritesOnLines(ws, kind)
      /\ with = {i \in kept : field \in DOMAIN RecordOf(ws, i).fields}
  BY DEF KeptWrites, KeptWith
<1>2. \A i \in kept : file[PlaceOf(pos, i)].record = RecordOf(ws, i)
  <2>1. \A i \in WritesOnLines(ws, kind) :
           file[PlaceOf(pos, i)].record = RecordOf(ws, i)
    BY CountedPlaces
  <2> HIDE DEF kept
  <2> QED
    BY <1>1, <2>1
<1>3. /\ IsFiniteSet(places) /\ Cardinality(places) = Cardinality(with)
      /\ \A S \in SUBSET with : Cardinality(PlacesOf(pos, S)) = Cardinality(S)
  <2>1. ASSUME NEW S \in SUBSET WritesOnLines(ws, kind)
        PROVE  /\ IsFiniteSet(PlacesOf(pos, S))
               /\ Cardinality(PlacesOf(pos, S)) = Cardinality(S)
    BY PlacesCount
  <2> HIDE DEF with
  <2> QED
    BY <1>1, <2>1
<1>4. with # {} /\ \A i \in with : of(i) \in Nat
  BY DEF HasNumbers
<1>5. {p \in RecordsOf(file, kind, last) :
         field \in DOMAIN file[p].record.fields} = places
  <2>1. RecordsOf(file, kind, last) = PlacesOf(pos, kept)
    BY <1>0
  <2> HIDE DEF kept, with
  <2> QED
    BY <1>1, <1>2, <2>1 DEF PlacesOf
<1>6. \A i \in with : /\ PlaceOf(pos, i) \in places
                      /\ file[PlaceOf(pos, i)].record.fields[field] = of(i)
  <2> HIDE DEF kept, with
  <2> QED
    BY <1>1, <1>2 DEF PlacesOf
<1>7. \A p \in places : \E i \in with : p = PlaceOf(pos, i)
  BY DEF PlacesOf
<1>8. FieldStats(file, RecordsOf(file, kind, last), field)
        = [count |-> Cardinality(places), p50 |-> Percentile(values, 50),
           p95 |-> Percentile(values, 95),
           max |-> AtRank(values, Cardinality(places))]
  <2> HIDE DEF places
  <2> QED
    BY <1>5 DEF FieldStats
<1> HIDE DEF kept, with, of
<1>9. /\ values \in [places -> Nat] /\ DOMAIN values = places
      /\ \A i \in with : values[PlaceOf(pos, i)] = of(i)
  <2> HIDE DEF places
  <2> QED
    BY <1>4, <1>6, <1>7
<1>10. places # {}
  BY <1>4 DEF PlacesOf
<1> HIDE DEF values
<1>11. ValuesOf(values) = {of(i) : i \in with}
  <2> HIDE DEF places
  <2> QED
    BY <1>6, <1>7, <1>9 DEF ValuesOf
<1> DEFINE v == Percentile(values, 50)
<1>12. AtMost(values, v) = PlacesOf(pos, {i \in with : of(i) <= v})
  <2> HIDE DEF places, v
  <2> QED
    BY <1>6, <1>7, <1>9 DEF AtMost, PlacesOf
<1>13. AtLeast(values, v) = PlacesOf(pos, {i \in with : of(i) >= v})
  <2> HIDE DEF places, v
  <2> QED
    BY <1>6, <1>7, <1>9 DEF AtLeast, PlacesOf
<1> HIDE DEF places
<1>14. /\ 2 * Cardinality(AtMost(values, v)) >= Cardinality(places)
       /\ 2 * Cardinality(AtLeast(values, v)) >= Cardinality(places)
  BY <1>3, <1>9, <1>10, MedianHalves
<1>15. AtRank(values, Cardinality(places)) = Max({of(i) : i \in with})
  BY <1>3, <1>9, <1>10, <1>11, TopRank
<1> HIDE DEF v
<1> DEFINE low  == {i \in with : of(i) <= v}
           high == {i \in with : of(i) >= v}
<1>16. /\ 2 * Cardinality(low) >= Cardinality(with)
       /\ 2 * Cardinality(high) >= Cardinality(with)
  <2>1. low \in SUBSET with /\ high \in SUBSET with
    OBVIOUS
  <2>2. /\ AtMost(values, v) = PlacesOf(pos, low)
        /\ AtLeast(values, v) = PlacesOf(pos, high)
    BY <1>12, <1>13
  <2> HIDE DEF low, high
  <2>3. /\ Cardinality(AtMost(values, v)) = Cardinality(low)
        /\ Cardinality(AtLeast(values, v)) = Cardinality(high)
    BY <1>3, <2>1, <2>2
  <2> QED
    BY <1>3, <1>14, <2>3
<1> DEFINE its == FieldStats(file, RecordsOf(file, kind, last), field)
<1>17. /\ its.count = Cardinality(with) /\ its.p50 = v
       /\ its.max = Max({of(i) : i \in with})
  BY <1>3, <1>8, <1>15 DEF v
<1> HIDE DEF its
<1>18. FieldTold(its, ws, with, field)
  BY <1>16, <1>17 DEF FieldTold, of
<1> QED
  BY <1>18 DEF its, with

-----------------------------------------------------------------------------
(* A cut in the midst of a character.                                      *)

HasCut(ws) == \E i \in DOMAIN ws : ws[i][2] = "cut"

\* read_to_string: what the file holds is UTF-8 as long as no write was cut so.
LEMMA ReadIs ==
    ASSUME NEW ws \in Writes
    PROVE  ReadToString(FileOf(ws)) = IF HasCut(ws) THEN <<>> ELSE FileOf(ws)
<1> DEFINE file == FileOf(ws)
<1>1. PICK pos : Lies(ws, file, pos)
  BY FileLies
<1> HIDE DEF file
<1>2. DOMAIN file = 1..Len(file) /\ Len(file) \in Nat /\ Len(ws) \in Nat
  BY <1>1 DEF Lies
<1>3. DOMAIN ws = 1..Len(ws)
  BY LenProperties DEF Writes
<1>4. ASSUME HasCut(ws)
      PROVE  Cut \in ToSet(file)
  <2>1. PICK i \in 1..Len(ws) : OutcomeOf(ws, i) = "cut"
    BY <1>3, <1>4 DEF HasCut, OutcomeOf
  <2> DEFINE a == pos[i - 1]
             b == pos[i]
  <2>2. b = a + 1 /\ file[a + 1] = Cut
    BY <1>1, <2>1 DEF Lies
  <2>3. a \in 0..Len(file) /\ b \in 0..Len(file)
    BY <1>1, WriteEnds
  <2> HIDE DEF a, b
  <2>4. a + 1 \in DOMAIN file
    BY <1>2, <2>2, <2>3
  <2> QED
    BY <2>2, <2>4 DEF ToSet
<1>5. ASSUME Cut \in ToSet(file)
      PROVE  HasCut(ws)
  <2>1. PICK p \in 1..Len(file) : file[p] = Cut
    BY <1>2, <1>5 DEF ToSet
  <2>2. PICK i \in 1..Len(ws) : pos[i - 1] < p /\ p <= pos[i]
    BY <1>1, WriteOf
  <2> DEFINE a == pos[i - 1]
             b == pos[i]
             o == OutcomeOf(ws, i)
             record == RecordOf(ws, i)
  <2>3. /\ o \in Outcomes
        /\ o = "whole" => /\ b = a + 2
                          /\ file[a + 1] = Entry(record)
                          /\ file[a + 2] = Eol
        /\ o = "unended" => b = a + 1 /\ file[a + 1] = Entry(record)
        /\ o = "torn" => b = a + 1 /\ file[a + 1] = Fragment
        /\ o = "nothing" => b = a
    BY <1>1 DEF Lies
  <2>4. a \in Nat /\ b \in Nat /\ a < p /\ p <= b /\ p \in Nat
    <3>1. a \in 0..Len(file) /\ b \in 0..Len(file)
      BY <1>1, <2>2, WriteEnds
    <3> HIDE DEF a, b
    <3>2. a \in Nat /\ b \in Nat /\ p \in Nat
      BY <1>2, <2>1, <3>1
    <3> QED
      BY <2>2, <3>2 DEF a, b
  <2> HIDE DEF a, b, o, record
  <2>5. o # "nothing" /\ (o # "whole" => (o = "cut" \/ p = a + 1))
        /\ (o = "whole" => p = a + 1 \/ p = a + 2)
    BY <2>3, <2>4 DEF Outcomes
  <2>6. o = "cut"
    BY <2>1, <2>3, <2>5, ItemsDiffer DEF Outcomes
  <2> QED
    BY <1>3, <2>6 DEF HasCut, OutcomeOf, o
<1>6. ReadToString(file) = IF HasCut(ws) THEN <<>> ELSE file
  BY <1>4, <1>5, Zenon DEF ReadToString
<1> QED
  BY <1>6 DEF file

\* aggregate: there is nothing to tell then.
LEMMA CutCostsAll ==
    ASSUME NEW ws \in Writes, HasCut(ws), NEW kind, NEW last
    PROVE  /\ Aggregate(FileOf(ws), kind, last).records = 0
           /\ DOMAIN Aggregate(FileOf(ws), kind, last).fields = {}
<1> DEFINE none == ReadToString(FileOf(ws))
           records == RecordsOf(none, kind, last)
           fields  == UNION {DOMAIN none[i].record.fields : i \in records}
           stats   == [field \in fields |-> FieldStats(none, records, field)]
<1>1. DOMAIN none = {}
  <2>1. none = <<>>
    BY ReadIs
  <2> HIDE DEF none
  <2> QED
    BY <2>1
<1>2. records = {}
  <2> HIDE DEF none
  <2> QED
    BY <1>1 DEF RecordsOf, OfKind
<1>3. Cardinality(records) = 0 /\ fields = {}
  <2> HIDE DEF records, none
  <2> QED
    BY <1>2, FS_EmptySet
<1>4. Aggregate(FileOf(ws), kind, last)
        = [records |-> Cardinality(records), fields |-> stats]
  BY DEF Aggregate
<1> HIDE DEF none, records, fields
<1>5. DOMAIN stats = fields
  OBVIOUS
<1> HIDE DEF stats
<1> QED
  BY <1>3, <1>4, <1>5

-----------------------------------------------------------------------------
(* What is told of all the writes.                                         *)

\* append, aggregate, as TornLineCostsTwoOrAll states it of writes without
\* such a cut.
StatsAreTold(ws, kind, last) ==
    LET kept    == KeptWrites(ws, kind, last)
        stats   == Aggregate(FileOf(ws), kind, last)
        carried == UNION {DOMAIN RecordOf(ws, i).fields : i \in kept}
    IN  /\ stats.records = Cardinality(kept)
        /\ DOMAIN stats.fields = carried
        /\ \A field \in carried :
              FieldTold(stats.fields[field], ws,
                        KeptWith(ws, kind, last, field), field)

LEMMA StatsTold ==
    ASSUME NEW ws \in Writes, ~HasCut(ws), NEW kind, NEW last
    PROVE  StatsAreTold(ws, kind, last)
<1> DEFINE file    == FileOf(ws)
           kept    == KeptWrites(ws, kind, last)
           records == RecordsOf(file, kind, last)
           carried == UNION {DOMAIN RecordOf(ws, i).fields : i \in kept}
           stats   == Aggregate(file, kind, last)
<1>1. PICK pos : Lies(ws, file, pos)
  BY FileLies
<1>read. ReadToString(file) = file
  BY ReadIs
<1> HIDE DEF file
<1>2. records = PlacesOf(pos, kept)
  BY <1>1, RecordsKept
<1>3. /\ kept \in SUBSET WritesOnLines(ws, kind)
      /\ kept \in SUBSET (1..Len(ws))
  BY CountedIs DEF KeptWrites
<1>4. \A i \in kept : file[PlaceOf(pos, i)].record = RecordOf(ws, i)
  <2>1. \A i \in WritesOnLines(ws, kind) :
           file[PlaceOf(pos, i)].record = RecordOf(ws, i)
    BY <1>1, CountedPlaces
  <2> HIDE DEF kept
  <2> QED
    BY <1>3, <2>1
<1>5. Cardinality(records) = Cardinality(kept)
  <2>1. ASSUME NEW S \in SUBSET WritesOnLines(ws, kind)
        PROVE  Cardinality(PlacesOf(pos, S)) = Cardinality(S)
    BY <1>1, PlacesCount
  <2> HIDE DEF kept, records
  <2> QED
    BY <1>2, <1>3, <2>1
<1>6. UNION {DOMAIN file[p].record.fields : p \in records} = carried
  <2> HIDE DEF kept, records
  <2> QED
    BY <1>2, <1>4 DEF PlacesOf
<1>7. stats = [records |-> Cardinality(records),
               fields  |-> [field \in carried |->
                              FieldStats(file, records, field)]]
  <2> HIDE DEF records, carried
  <2> QED
    BY <1>6, <1>read DEF Aggregate, records
<1>8. ASSUME NEW field \in carried
      PROVE  FieldTold(FieldStats(file, records, field), ws,
                       KeptWith(ws, kind, last, field), field)
  <2>1. KeptWith(ws, kind, last, field) # {}
    BY DEF KeptWith
  <2>2. ASSUME NEW i \in KeptWith(ws, kind, last, field)
        PROVE  RecordOf(ws, i).fields[field] \in Nat
    <3>1. i \in 1..Len(ws) /\ field \in DOMAIN RecordOf(ws, i).fields
      BY <1>3 DEF KeptWith
    <3>2. RecordOf(ws, i) \in Records
      BY <3>1, ElementOfSeq DEF RecordOf, Writes
    <3> QED
      BY <3>1, <3>2, SinksAssumption
  <2>3. HasNumbers(ws, KeptWith(ws, kind, last, field), field)
    BY <2>2 DEF HasNumbers
  <2> HIDE DEF carried, kept
  <2> QED
    BY <1>1, <2>1, <2>3, FieldIsTold
<1> HIDE DEF kept, records, carried
<1>9. /\ stats.records = Cardinality(kept)
      /\ DOMAIN stats.fields = carried
      /\ \A field \in carried :
            stats.fields[field] = FieldStats(file, records, field)
  BY <1>5, <1>7
<1> HIDE DEF stats
<1>10. \A field \in carried :
          FieldTold(stats.fields[field], ws,
                    KeptWith(ws, kind, last, field), field)
  BY <1>8, <1>9
<1> QED
  BY <1>9, <1>10 DEF StatsAreTold, stats, file, kept, carried

\* What TornLineCostsTwoOrAll says of the records of a kind.
Told(counted, ws, kind, last) ==
    LET kept    == {i \in counted :
                      Cardinality({j \in counted : j >= i}) <= last}
        stats   == Aggregate(FileOf(ws), kind, last)
        carried == UNION {DOMAIN ws[i][1].fields : i \in kept}
    IN  /\ stats.records = Cardinality(kept)
        /\ DOMAIN stats.fields = carried
        /\ \A field \in carried :
              LET with == {i \in kept : field \in DOMAIN ws[i][1].fields}
                  of(i) == ws[i][1].fields[field]
                  Share(S) == 2 * Cardinality(S) >= Cardinality(with)
                  its  == stats.fields[field]
              IN  /\ its.count = Cardinality(with)
                  /\ its.max = Max({of(i) : i \in with})
                  /\ Share({i \in with : of(i) <= its.p50})
                  /\ Share({i \in with : of(i) >= its.p50})

\* append, record, aggregate: a record that was torn by a crash or a full
\* disk costs at most one other, and what is told of the rest is exact: how
\* many there are, which fields they have, the median and the largest.  But
\* when it was torn in the midst of a character, nothing is told of any.
THEOREM TornLineCosts == Spec => []TornLineCostsTwoOrAll
<1> DEFINE ws == input.writes
<1>1. ASSUME Given(input), input.kind = "sink"
      PROVE  ws \in Writes
  <2>1. IsSink(input)
    BY <1>1, InputOfKind
  <2>2. ws \in Sinks
    BY <2>1 DEF IsSink
  <2> QED
    BY <2>2, SinksAssumption DEF Writes
<1>2. (\A kind : Told(CountedWrites(ws, kind), ws, kind, input.last))
         => TornLineCostsTwoOrAll
  BY Zenon DEF Told, TornLineCostsTwoOrAll
<1>3. ASSUME ws \in Writes, NEW kind
      PROVE  Told(CountedWrites(ws, kind), ws, kind, input.last)
  <2>1. CASE ~HasCut(ws)
    <3>1. CountedWrites(ws, kind) = WritesOnLines(ws, kind)
      BY <2>1, Zenon DEF HasCut, CountedWrites
    <3>2. StatsAreTold(ws, kind, input.last)
      BY <1>3, <2>1, StatsTold
    <3>3. Told(WritesOnLines(ws, kind), ws, kind, input.last)
      BY <3>2 DEF StatsAreTold, FieldTold, KeptWrites, KeptWith, RecordOf, Told
    <3> QED
      BY <3>1, <3>3
  <2>2. CASE HasCut(ws)
    <3>1. CountedWrites(ws, kind) = {}
      BY <2>2, Zenon DEF HasCut, CountedWrites
    <3>2. /\ Aggregate(FileOf(ws), kind, input.last).records = 0
          /\ DOMAIN Aggregate(FileOf(ws), kind, input.last).fields = {}
      BY <1>3, <2>2, CutCostsAll
    <3>3. Cardinality({}) = 0
      BY FS_EmptySet
    <3>4. Told({}, ws, kind, input.last)
      <4> DEFINE stats == Aggregate(FileOf(ws), kind, input.last)
      <4> HIDE DEF stats
      <4> QED
        BY <3>2, <3>3 DEF Told, stats
    <3> QED
      BY <3>1, <3>4
  <2> QED
    BY <2>1, <2>2
<1>4. Given(input) => TornLineCostsTwoOrAll
  <2>1. input.kind # "sink" => TornLineCostsTwoOrAll
    BY DEF TornLineCostsTwoOrAll
  <2> HIDE DEF ws
  <2> QED
    BY <1>1, <1>2, <1>3, <2>1, Zenon
<1> QED
  BY <1>4, InputsAreGiven, PTL
=============================================================================
