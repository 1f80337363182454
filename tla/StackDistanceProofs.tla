------------------------- MODULE StackDistanceProofs -------------------------
(***************************************************************************)
(* What the profiler computes, for every stream and every number of sets:  *)
(* the markers sit at the latest reference to each block, the distance     *)
(* yielded is the number of distinct blocks referenced since, the binary   *)
(* indexed tree counts the markers of any range, and the profile answers   *)
(* what LRU caches of every size would.                                    *)
(*                                                                         *)
(* The tree.  A position j sums the LowBit[j] positions that end at j.     *)
(* Two such ranges are one in the other or apart (RangesNest), so add,     *)
(* which climbs from an index by the low bit, meets the ranges that hold   *)
(* it and no other (AddCovers), and prefix, which descends by the low bit, *)
(* adds up ranges side by side (PrefixCounts).                             *)
(*                                                                         *)
(* The miss curve.  An LRU cache holds the blocks that fewer than `ways'   *)
(* others of their set were used after (LRUHoldsNewest), so a reference    *)
(* misses when its distance in the stream is not below `ways'              *)
(* (LRUMissesAre).  A bucket is the stream with the other sets left out,   *)
(* so distances in it are distances in the stream (ThreadDistance).  The   *)
(* profiles tally them: the finished sets in `merged', the current one in  *)
(* `sub' (CurveInv).                                                       *)
(***************************************************************************)
EXTENDS FenwickDistance, RecursionTheorems, FiniteSetTheorems

-----------------------------------------------------------------------------
(* The inductive invariant.                                                *)

\* Nothing is profiled before the stream is split, nor after the last set.
Phases == (read < Len(stream) => set = 0 /\ i = 0) /\ (set = numSets => i = 0)

\* The table `last' holds the latest reference to every block.
LastIsLatest ==
  \A b \in Blocks :
    /\ last[b] = -1 => \A t \in 0 .. i - 1 : Bucket[t + 1] # b
    /\ last[b] # -1 => Bucket[last[b] + 1] = b /\ LatestBefore(last[b], i)

\* The markers are the entries of the table.
MarksAreLast == marks = {t \in 0 .. i - 1 : \E b \in Blocks : last[b] = t}

DistanceInv == TypeOK /\ Phases /\ LastIsLatest /\ MarksAreLast /\ DistanceIsReuse

\* The members of M in the range of position j.
InRange(M, j) == Cardinality(M \cap (j - LowBit[j]) .. (j - 1))

\* There is a tree as long as the bucket that is profiled, and every position of it
\* has the number of markers in its range.
TreeInv ==
  /\ tree \in Seq(Int)
  /\ Len(tree) = IF read = Len(stream) /\ set < numSets THEN Len(Bucket) ELSE 0
  /\ \A j \in 1 .. Len(tree) : tree[j] = InRange(marks, j)

-----------------------------------------------------------------------------
(* Lemmas about profiles.                                                  *)

\* Extending a histogram gives a histogram with at least n entries.
LEMMA ExtendedType ==
  ASSUME NEW h \in Seq(Nat), NEW n \in Nat
  PROVE  Extended(h, n) \in Seq(Nat) /\ Len(Extended(h, n)) >= n
<1> DEFINE m == IF n - Len(h) < 0 THEN 0 ELSE n - Len(h)
           zeros == [k \in 1 .. m |-> 0]
<1>1. m \in Nat /\ 1 .. n - Len(h) = 1 .. m
  OBVIOUS
<1>2. zeros \in Seq(Nat) /\ Len(zeros) = m
  BY <1>1
<1>3. Extended(h, n) = h \o zeros
  BY <1>1 DEF Extended
<1>4. QED
  BY <1>1, <1>2, <1>3

\* Counting a distance keeps a profile a profile.
LEMMA CountedType ==
  ASSUME NEW p \in Profile, NEW d \in Nat \cup {INFINITE}
  PROVE  Counted(p, d) \in Profile
<1>0. p.references \in Nat /\ p.infinite \in Nat /\ p.histogram \in Seq(Nat)
  BY DEF Profile
<1>1. CASE d = INFINITE
  <2>1. Counted(p, d) = [references |-> p.references + 1, infinite |-> p.infinite + 1,
                         histogram |-> p.histogram]
    BY <1>0, <1>1 DEF Counted
  <2>2. QED
    BY <1>0, <2>1 DEF Profile
<1>2. CASE d \in Nat /\ d # INFINITE
  <2> DEFINE h == Extended(p.histogram, d + 1)
  <2>1. h \in Seq(Nat) /\ Len(h) >= d + 1
    <3>1. d + 1 \in Nat
      BY <1>2
    <3>2. QED
      BY ExtendedType, <1>0, <3>1
  <2>2. h[d + 1] \in Nat
    BY <1>2, <2>1
  <2>3. [h EXCEPT ![d + 1] = @ + 1] \in Seq(Nat)
    BY <1>2, <2>1, <2>2
  <2>4. Counted(p, d) = [references |-> p.references + 1, infinite |-> p.infinite,
                         histogram |-> [h EXCEPT ![d + 1] = @ + 1]]
    BY <1>0, <1>2 DEF Counted
  <2> HIDE DEF h
  <2>5. QED
    BY <1>0, <2>3, <2>4 DEF Profile
<1>3. QED
  BY <1>1, <1>2

\* The sum of two profiles is a profile.
LEMMA MergedType ==
  ASSUME NEW p \in Profile, NEW q \in Profile
  PROVE  Merged(p, q) \in Profile
<1> DEFINE h == Extended(p.histogram, Len(q.histogram))
           sum == [d \in DOMAIN h |->
                     h[d] + IF d <= Len(q.histogram) THEN q.histogram[d] ELSE 0]
<1>1. q.histogram \in Seq(Nat) /\ Len(q.histogram) \in Nat /\ p.histogram \in Seq(Nat)
  BY DEF Profile
<1>2. h \in Seq(Nat)
  BY <1>1, ExtendedType
<1>3. Merged(p, q) = [references |-> p.references + q.references,
                      infinite |-> p.infinite + q.infinite, histogram |-> sum]
  BY DEF Merged
<1> HIDE DEF h
<1>4. DOMAIN h = 1 .. Len(h) /\ Len(h) \in Nat
  BY <1>2
<1>5. \A d \in 1 .. Len(h) : sum[d] \in Nat
  BY <1>1, <1>2, <1>4
<1>6. sum \in Seq(Nat)
  BY <1>4, <1>5
<1> HIDE DEF sum
<1>7. QED
  BY <1>3, <1>6 DEF Profile

\* A range of markers has at most one marker per timestamp of the range.
LEMMA RangeSumBounds ==
  ASSUME marks \subseteq Int, NEW low \in Int, NEW high \in Int
  PROVE  RangeSum(low, high) \in Nat
         /\ RangeSum(low, high) <= IF low > high THEN 0 ELSE high - low + 1
<1>1. IsFiniteSet(low .. high)
      /\ Cardinality(low .. high) = IF low > high THEN 0 ELSE high - low + 1
  BY FS_Interval
<1>2. marks \cap low .. high \in SUBSET (low .. high)
  OBVIOUS
<1>3. IsFiniteSet(marks \cap low .. high)
      /\ Cardinality(marks \cap low .. high) <= Cardinality(low .. high)
  BY <1>1, <1>2, FS_Subset
<1>4. Cardinality(marks \cap low .. high) \in Nat
  BY <1>3, FS_CardinalityType
<1>5. QED
  BY <1>1, <1>3, <1>4 DEF RangeSum

-----------------------------------------------------------------------------
(* The distance.                                                           *)

\* Between two references to a block lies one marker per distinct block.
LEMMA MarkersCountBlocks ==
  ASSUME TypeOK, LastIsLatest, MarksAreLast, set < numSets, NEW p \in 0 .. i - 1
  PROVE  RangeSum(p + 1, i - 1) = Cardinality({Bucket[v + 1] : v \in p + 1 .. i - 1})
<1> DEFINE S == marks \cap p + 1 .. i - 1
           T == {Bucket[v + 1] : v \in p + 1 .. i - 1}
           f == [t \in S |-> Bucket[t + 1]]
<1>1. i \in Nat /\ i <= Len(Bucket) /\ Bucket \in Seq(Blocks)
      /\ last \in [Blocks -> -1 .. i - 1]
  BY SetCountsAssumption DEF TypeOK, Bucket
<1>2. \A v \in 0 .. i - 1 : Bucket[v + 1] \in Blocks
  BY <1>1
<1>3. \A t \in S : t \in p + 1 .. i - 1 /\ last[Bucket[t + 1]] = t
  <2> SUFFICES ASSUME NEW t \in S PROVE last[Bucket[t + 1]] = t
    OBVIOUS
  <2>1. PICK b \in Blocks : last[b] = t
    BY DEF MarksAreLast
  <2>2. t # -1
    BY <1>1
  <2>3. Bucket[last[b] + 1] = b
    BY <2>1, <2>2 DEF LastIsLatest
  <2>4. QED
    BY <2>1, <2>3
<1>4. f \in Injection(S, T)
  <2>1. f \in [S -> T]
    OBVIOUS
  <2>2. \A t, u \in S : f[t] = f[u] => t = u
    BY <1>3
  <2>3. QED
    BY <2>1, <2>2 DEF Injection, IsInjective
<1>5. f \in Surjection(S, T)
  <2> SUFFICES ASSUME NEW v \in p + 1 .. i - 1
               PROVE  \E t \in S : f[t] = Bucket[v + 1]
    BY DEF Surjection
  <2> DEFINE b == Bucket[v + 1]
             t == last[b]
  <2>1. v \in 0 .. i - 1 /\ b \in Blocks
    BY <1>1, <1>2
  <2>2. t # -1
    BY <2>1 DEF LastIsLatest
  <2>3. t \in 0 .. i - 1
    BY <1>1, <2>1, <2>2
  <2>4. Bucket[t + 1] = b /\ LatestBefore(t, i)
    BY <2>1, <2>2 DEF LastIsLatest
  <2>5. v <= t
    BY <2>1, <2>3, <2>4, <1>1 DEF LatestBefore
  <2>6. t \in S
    BY <2>1, <2>3, <2>5, <1>1 DEF MarksAreLast
  <2>7. QED
    BY <2>4, <2>6
<1>6. IsFiniteSet(S)
  <2>1. IsFiniteSet(p + 1 .. i - 1)
    BY FS_Interval, <1>1
  <2>2. S \in SUBSET (p + 1 .. i - 1)
    OBVIOUS
  <2>3. QED
    BY <2>1, <2>2, FS_Subset
<1>7. ExistsBijection(S, T)
  BY <1>4, <1>5 DEF ExistsBijection, Bijection
<1>8. Cardinality(T) = Cardinality(S)
  BY <1>6, <1>7, FS_Bijection
<1>9. QED
  BY <1>8 DEF RangeSum

-----------------------------------------------------------------------------
(* Every step keeps the invariant.                                         *)

LEMMA InitDistance == Init => DistanceInv
<1> SUFFICES ASSUME Init PROVE DistanceInv
  OBVIOUS
<1> USE SetCountsAssumption, BlocksAssumption, MaxReferencesAssumption
<1>1. numSets \in Nat \ {0} /\ stream \in Seq(Blocks) /\ Len(stream) \in Nat
  <2>1. PICK n \in 0 .. MaxReferences : stream \in [1 .. n -> Blocks]
    BY DEF Init, Streams
  <2>2. QED
    BY <2>1 DEF Init
<1>2. buckets \in [0 .. numSets - 1 -> Seq(Blocks)] /\ Bucket = <<>> /\ Len(Bucket) = 0
  BY <1>1 DEF Init, Bucket
<1>3. EmptyProfile \in Profile
  BY DEF EmptyProfile, Profile
<1>4. TypeOK
  BY <1>1, <1>2, <1>3 DEF Init, TypeOK, INFINITE
<1>5. Phases /\ LastIsLatest /\ MarksAreLast /\ DistanceIsReuse
  BY <1>1 DEF Init, Phases, LastIsLatest, MarksAreLast, DistanceIsReuse
<1>6. QED
  BY <1>4, <1>5 DEF DistanceInv

LEMMA SplitDistance == DistanceInv /\ Split => DistanceInv'
<1> SUFFICES ASSUME DistanceInv, Split PROVE DistanceInv'
  OBVIOUS
<1> USE SetCountsAssumption, BlocksAssumption, MaxReferencesAssumption DEF DistanceInv
<1>1. set = 0 /\ i = 0 /\ set' = 0 /\ i' = 0
  BY DEF Phases, Split
<1>2. numSets \in Nat \ {0} /\ stream \in Seq(Blocks) /\ Len(stream) \in Nat /\ read \in Nat
  <2>1. PICK n \in 0 .. MaxReferences : stream \in [1 .. n -> Blocks]
    BY DEF TypeOK, Streams
  <2>2. QED
    BY <2>1 DEF TypeOK
<1>3. buckets' \in [0 .. numSets - 1 -> Seq(Blocks)]
  <2> DEFINE block == stream[read + 1]
  <2>1. block \in Blocks
    BY <1>2 DEF Split
  <2>a. block \in Nat
    BY <2>1
  <2>2. block % numSets \in 0 .. numSets - 1
    BY <1>2, <2>a
  <2>3. QED
    BY <2>1, <2>2 DEF Split, TypeOK
<1>4. Len(Bucket)' \in Nat
  BY <1>1, <1>2, <1>3 DEF Bucket
<1>5. TypeOK'
  BY <1>1, <1>2, <1>3, <1>4 DEF Split, TypeOK
<1>6. Phases' /\ LastIsLatest' /\ MarksAreLast' /\ DistanceIsReuse'
  BY <1>1, <1>2 DEF Split, TypeOK, Phases, LastIsLatest, MarksAreLast, DistanceIsReuse
<1>7. QED
  BY <1>5, <1>6

LEMMA ReferenceDistance == DistanceInv /\ Reference => DistanceInv'
<1> SUFFICES ASSUME DistanceInv, Reference PROVE DistanceInv'
  OBVIOUS
<1> USE DEF DistanceInv
<1> DEFINE block == Bucket[i + 1]
           prev == last[block]
<1>1. i \in Nat /\ i < Len(Bucket) /\ Bucket \in Seq(Blocks) /\ Bucket' = Bucket
      /\ set < numSets /\ set \in Nat /\ numSets \in Nat
  BY SetCountsAssumption DEF Reference, TypeOK, Bucket
<1>2. block \in Blocks /\ last \in [Blocks -> -1 .. i - 1] /\ prev \in -1 .. i - 1
  <2>1. block \in Blocks
    BY <1>1
  <2>2. last \in [Blocks -> -1 .. i - 1]
    BY DEF TypeOK
  <2> HIDE DEF block
  <2>3. QED
    BY <2>1, <2>2
<1>3. \A t \in 0 .. i : Bucket[t + 1] \in Blocks
  BY <1>1
<1>4. i' = i + 1 /\ last' = [last EXCEPT ![block] = i] /\ marks' = (marks \ {prev}) \cup {i}
      /\ sub' = Counted(sub, distance')
      /\ distance' = (IF prev < 0 THEN INFINITE ELSE RangeSum(prev + 1, i - 1))
      /\ UNCHANGED <<stream, numSets, buckets, read, set, merged>> /\ read = Len(stream)
  BY DEF Reference
<1>b. block = Bucket[i + 1] /\ prev = last[block]
  BY DEF block, prev
<1> HIDE DEF block, prev
<1>5. distance' \in -1 .. i
  <2>0. marks \subseteq 0 .. i - 1
    BY DEF TypeOK
  <2>1. marks \subseteq Int
    BY <1>1, <2>0
  <2>2. CASE prev < 0
    BY <1>1, <1>4, <2>2 DEF INFINITE
  <2>3. CASE prev >= 0
    <3>1. RangeSum(prev + 1, i - 1) \in Nat
          /\ RangeSum(prev + 1, i - 1) <= IF prev + 1 > i - 1 THEN 0 ELSE (i - 1) - (prev + 1) + 1
      <4>1. prev + 1 \in Int /\ i - 1 \in Int
        BY <1>1, <1>2
      <4>2. QED
        BY <2>1, <4>1, RangeSumBounds
    <3>2. QED
      BY <1>1, <1>2, <1>4, <2>3, <3>1
  <2>4. QED
    BY <1>2, <2>2, <2>3
<1>6. TypeOK'
  <2>1. sub' \in Profile
    <3>1. sub \in Profile
      BY DEF TypeOK
    <3>2. distance' \in Nat \cup {INFINITE}
      BY <1>1, <1>5 DEF INFINITE
    <3>3. QED
      BY <1>4, <3>1, <3>2, CountedType
  <2>2. last' \in [Blocks -> -1 .. i' - 1]
    BY <1>1, <1>2, <1>4
  <2>3. marks' \subseteq 0 .. i' - 1
    <3>1. marks \subseteq 0 .. i - 1
      BY DEF TypeOK
    <3>a. marks' = (marks \ {prev}) \cup {i}
      BY <1>4
    <3>2. ASSUME NEW t \in marks' PROVE t \in 0 .. i
      BY <1>1, <3>1, <3>a
    <3>3. i' - 1 = i
      BY <1>1, <1>4
    <3>4. QED
      BY <3>2, <3>3
  <2>4. QED
    BY <1>1, <1>4, <1>5, <2>1, <2>2, <2>3 DEF TypeOK
<1>7. Phases'
  BY <1>1, <1>4 DEF Phases
<1>8. LastIsLatest'
  <2> SUFFICES ASSUME NEW b \in Blocks
               PROVE  /\ last'[b] = -1 => \A t \in 0 .. i : Bucket[t + 1] # b
                      /\ last'[b] # -1 =>
                           /\ Bucket[last'[b] + 1] = b
                           /\ last'[b] < i + 1
                           /\ \A v \in last'[b] + 1 .. i : Bucket[v + 1] # Bucket[last'[b] + 1]
    BY <1>1, <1>4 DEF LastIsLatest, LatestBefore
  <2>1. CASE b = block
    <3>1. last'[b] = i
      BY <1>2, <1>4, <2>1
    <3>2. QED
      BY <1>1, <1>b, <2>1, <3>1
  <2>2. CASE b # block
    <3>1. last'[b] = last[b] /\ last[b] \in -1 .. i - 1
      BY <1>2, <1>4, <2>2
    <3>2. Bucket[i + 1] # b
      BY <1>b, <2>2
    <3>3. CASE last[b] = -1
      BY <1>1, <3>1, <3>2, <3>3 DEF LastIsLatest
    <3>4. CASE last[b] # -1
      <4>1. Bucket[last[b] + 1] = b /\ last[b] < i
            /\ \A v \in last[b] + 1 .. i - 1 : Bucket[v + 1] # Bucket[last[b] + 1]
        BY <3>4 DEF LastIsLatest, LatestBefore
      <4>2. QED
        BY <1>1, <3>1, <3>2, <3>4, <4>1
    <3>5. QED
      BY <3>3, <3>4
  <2>3. QED
    BY <2>1, <2>2
<1>9. MarksAreLast'
  <2>1. \A t \in 0 .. i - 1 : (\E b \in Blocks : last'[b] = t) <=> t # prev /\ \E b \in Blocks : last[b] = t
    <3> SUFFICES ASSUME NEW t \in 0 .. i - 1
                 PROVE  (\E b \in Blocks : last'[b] = t)
                          <=> t # prev /\ \E b \in Blocks : last[b] = t
      OBVIOUS
    <3>1. \A b, c \in Blocks : last[b] = t /\ last[c] = t => b = c
      BY <1>1 DEF LastIsLatest
    <3>2. \A b \in Blocks : last'[b] = IF b = block THEN i ELSE last[b]
      BY <1>2, <1>4
    <3>3. QED
      <4>1. t # i /\ block \in Blocks /\ last[block] = prev
        BY <1>1, <1>2, <1>b
      <4>2. QED
        BY <3>1, <3>2, <4>1
  <2>2. last'[block] = i
    BY <1>2, <1>4
  <2>3. QED
    <3>1. marks = {t \in 0 .. i - 1 : \E b \in Blocks : last[b] = t}
      BY DEF MarksAreLast
    <3>2. i \notin 0 .. i - 1 /\ 0 .. i = (0 .. i - 1) \cup {i}
      BY <1>1
    <3>3. {t \in 0 .. i : \E b \in Blocks : last'[b] = t} = (marks \ {prev}) \cup {i}
      BY <1>2, <2>1, <2>2, <3>1, <3>2
    <3>4. i' - 1 = i
      BY <1>1, <1>4
    <3>5. QED
      BY <1>4, <3>3, <3>4 DEF MarksAreLast
<1>10. DistanceIsReuse'
  <2> DEFINE previous == {t \in 0 .. i - 1 :
                             Bucket[t + 1] = Bucket[i + 1]
                             /\ \A v \in t + 1 .. i - 1 : Bucket[v + 1] # Bucket[t + 1]}
  <2>a. i' - 1 = i
    BY <1>1, <1>4
  <2>b. SUFFICES IsReuseDistance(distance', Bucket, i)
    BY <1>1, <2>a DEF DistanceIsReuse
  <2>1. SUFFICES /\ previous = {} => distance' = INFINITE
                 /\ \A t \in previous :
                      distance' = Cardinality({Bucket[v + 1] : v \in t + 1 .. i - 1})
    BY DEF IsReuseDistance
  <2>2. CASE prev < 0
    <3>1. prev = -1
      BY <1>1, <1>2, <2>2
    <3>2. \A t \in 0 .. i - 1 : Bucket[t + 1] # block
      BY <1>2, <1>b, <3>1 DEF LastIsLatest
    <3>3. QED
      BY <1>4, <1>b, <2>2, <3>2
  <2>3. CASE prev >= 0
    <3>1. prev \in 0 .. i - 1 /\ prev # -1
      BY <1>1, <1>2, <2>3
    <3>2. Bucket[prev + 1] = block /\ LatestBefore(prev, i)
      BY <1>2, <1>b, <3>1 DEF LastIsLatest
    <3>3. \A t \in previous : t = prev
      BY <1>1, <1>b, <3>1, <3>2 DEF LatestBefore
    <3>4. prev \in previous
      BY <1>b, <3>1, <3>2 DEF LatestBefore
    <3>a. RangeSum(prev + 1, i - 1) = Cardinality({Bucket[v + 1] : v \in prev + 1 .. i - 1})
      BY <1>1, <3>1, MarkersCountBlocks
    <3>5. distance' = Cardinality({Bucket[v + 1] : v \in prev + 1 .. i - 1})
      BY <1>1, <1>2, <1>4, <2>3, <3>a
    <3>6. QED
      BY <3>3, <3>4, <3>5
  <2>4. prev < 0 \/ prev >= 0
    BY <1>1, <1>2
  <2>5. QED
    BY <2>2, <2>3, <2>4
<1>11. QED
  BY <1>6, <1>7, <1>8, <1>9, <1>10

LEMMA NextBucketDistance == DistanceInv /\ NextBucket => DistanceInv'
<1> SUFFICES ASSUME DistanceInv, NextBucket PROVE DistanceInv'
  OBVIOUS
<1> USE BlocksAssumption, SetCountsAssumption DEF DistanceInv
<1>1. set' = set + 1 /\ i' = 0 /\ last' = [b \in Blocks |-> -1] /\ marks' = {}
      /\ distance' = INFINITE /\ UNCHANGED <<stream, numSets, buckets, read>>
      /\ set < numSets /\ set \in Nat /\ numSets \in Nat /\ read = Len(stream)
  BY DEF NextBucket, TypeOK
<1>2. merged' \in Profile /\ sub' \in Profile
  BY MergedType DEF NextBucket, TypeOK, EmptyProfile, Profile
<1>3. set' < numSets => Bucket' \in Seq(Blocks)
  BY <1>1 DEF Bucket, TypeOK
<1>4. TypeOK'
  BY <1>1, <1>2, <1>3 DEF TypeOK, INFINITE
<1>5. Phases' /\ LastIsLatest' /\ MarksAreLast' /\ DistanceIsReuse'
  BY <1>1 DEF Phases, LastIsLatest, MarksAreLast, DistanceIsReuse, TypeOK
<1>6. QED
  BY <1>4, <1>5

LEMMA DistanceStutters == DistanceInv /\ UNCHANGED vars => DistanceInv'
BY DEF vars, DistanceInv, TypeOK, Phases, LastIsLatest, MarksAreLast, DistanceIsReuse,
       LatestBefore, Bucket

\* The invariant holds in every run of the profiler.
LEMMA DistanceInvariant == Spec => []DistanceInv
<1>1. DistanceInv /\ [Next]_vars => DistanceInv'
  BY DistanceStutters, SplitDistance, ReferenceDistance, NextBucketDistance DEF Next
<1>2. QED
  BY <1>1, InitDistance, PTL DEF Spec

-----------------------------------------------------------------------------
(* The binary indexed tree.                                                *)

\* LowBit[j] is j & -j: the bit of an odd number is 1, that of an even one twice the
\* bit of its half; so it is never above j.
LEMMA LowBitIs ==
  /\ \A j \in Nat \ {0} : /\ LowBit[j] \in 1 .. j
                          /\ LowBit[j] = IF j % 2 = 1 THEN 1 ELSE 2 * LowBit[j \div 2]
<1> DEFINE S == Nat \ {0}
           odd == {j \in S : j % 2 = 1}
           half == [j \in S |-> IF j % 2 = 1 THEN 1 ELSE j \div 2]
           twice == [j \in S |-> [v \in Nat |-> 2 * v]]
           rank == [j \in S |-> j]
<1>0. \A j \in S : j % 2 # 1 => j \div 2 \in S /\ j \div 2 < j /\ j = 2 * (j \div 2)
  OBVIOUS
<1>1. \E f \in [S -> Nat] : \A j \in S : f[j] = IF j \in odd THEN 1 ELSE twice[j][f[half[j]]]
  <2>1. Descends(S, Nat, rank, odd, half, 1, twice)
    BY <1>0 DEF Descends
  <2> HIDE DEF S, odd, half, twice, rank
  <2> QED BY <2>1, RecursionExists
<1>2. PICK f \in [S -> Nat] : \A j \in S : f[j] = IF j % 2 = 1 THEN 1 ELSE 2 * f[j \div 2]
  <2>1. PICK f \in [S -> Nat] : \A j \in S : f[j] = IF j \in odd THEN 1 ELSE twice[j][f[half[j]]]
    BY <1>1
  <2>2. ASSUME NEW j \in S PROVE f[j] = IF j % 2 = 1 THEN 1 ELSE 2 * f[j \div 2]
    <3>1. j \in odd <=> j % 2 = 1
      OBVIOUS
    <3>2. j % 2 # 1 => half[j] = j \div 2 /\ f[j \div 2] \in Nat
      BY <1>0
    <3>3. \A v \in Nat : twice[j][v] = 2 * v
      OBVIOUS
    <3> HIDE DEF odd, half, twice, S
    <3> QED BY <2>1, <3>1, <3>2, <3>3
  <2> HIDE DEF S
  <2> QED BY <2>2
<1>3. f = [j \in Nat \ {0} |-> IF j % 2 = 1 THEN 1 ELSE 2 * f[j \div 2]]
  BY <1>2
<1>4. LowBit = [j \in Nat \ {0} |-> IF j % 2 = 1 THEN 1 ELSE 2 * LowBit[j \div 2]]
  BY <1>3 DEF LowBit
<1>5. \A j \in S : LowBit[j] = IF j % 2 = 1 THEN 1 ELSE 2 * LowBit[j \div 2]
  BY <1>4
<1> DEFINE G == {n \in Nat : \A j \in S : j <= n => LowBit[j] \in 1 .. j}
<1>6. 0 \in G
  OBVIOUS
<1>7. ASSUME NEW n \in G PROVE n + 1 \in G
  <2> SUFFICES ASSUME NEW j \in S, j <= n + 1 PROVE LowBit[j] \in 1 .. j
    OBVIOUS
  <2>1. CASE j % 2 = 1
    BY <1>5, <2>1
  <2>2. CASE j % 2 # 1
    <3>1. j \div 2 \in S /\ j \div 2 <= n /\ j = 2 * (j \div 2)
      BY <1>0, <2>2
    <3>2. LowBit[j \div 2] \in 1 .. j \div 2
      BY <3>1
    <3>3. LowBit[j] = 2 * LowBit[j \div 2]
      BY <1>5, <2>2
    <3> QED BY <3>1, <3>2, <3>3
  <2> QED BY <2>1, <2>2
<1>8. \A n \in Nat : n \in G
  <2> HIDE DEF G
  <2>1. G \in SUBSET Nat
    BY DEF G
  <2> QED BY <1>6, <1>7, <2>1, NaturalSetInduction
<1> QED BY <1>5, <1>8

\* Position j of the tree sums the j - LowBit[j] + 1 .. j. Of two such ranges, one is in
\* the other or they do not meet: a range that has k and ends after it has the next
\* range that add visits, and one that has the next has k.
LEMMA RangesNest ==
  \A j, k \in Nat \ {0} :
    /\ j > k /\ j - LowBit[j] < k => k + LowBit[k] <= j
    /\ j >= k + LowBit[k] /\ j - LowBit[j] < k + LowBit[k] => j - LowBit[j] < k
<1> DEFINE S == Nat \ {0}
           Nests(j, k) == /\ (j > k /\ j - LowBit[j] < k) => k + LowBit[k] <= j
                          /\ (j >= k + LowBit[k] /\ j - LowBit[j] < k + LowBit[k]) => j - LowBit[j] < k
           G == {n \in Nat : \A j, k \in S : j <= n => Nests(j, k)}
<1>0. \A j \in S : j % 2 # 1 => j \div 2 \in S /\ j \div 2 < j /\ j = 2 * (j \div 2)
  OBVIOUS
<1>1. 0 \in G
  OBVIOUS
<1>2. ASSUME NEW n \in G PROVE n + 1 \in G
  <2> SUFFICES ASSUME NEW j \in S, NEW k \in S, j <= n + 1 PROVE Nests(j, k)
    OBVIOUS
  <2>0. LowBit[j] \in 1 .. j /\ LowBit[k] \in 1 .. k
    BY LowBitIs
  <2>1. CASE j % 2 = 1
    <3>1. LowBit[j] = 1
      BY <2>1, LowBitIs
    <3>2. CASE k % 2 = 1
      <4>1. LowBit[k] = 1
        BY <3>2, LowBitIs
      <4> QED BY <2>1, <3>1, <3>2, <4>1
    <3>3. CASE k % 2 # 1
      <4>1. LowBit[k] = 2 * LowBit[k \div 2] /\ LowBit[k \div 2] \in Int /\ k = 2 * (k \div 2)
        BY <1>0, <3>3, LowBitIs
      <4>2. j # k + LowBit[k]
        BY <2>1, <4>1
      <4> QED BY <2>0, <3>1, <4>2
    <3> QED BY <3>2, <3>3
  <2>2. CASE j % 2 # 1
    <3> DEFINE a == j \div 2
    <3>1. LowBit[j] = 2 * LowBit[a] /\ LowBit[a] \in 1 .. a /\ j = 2 * a /\ a \in S /\ a <= n
      BY <1>0, <2>2, LowBitIs
    <3>2. CASE k % 2 = 1
      <4>1. LowBit[k] = 1
        BY <3>2, LowBitIs
      <4>2. k \div 2 \in Nat /\ k = (2 * (k \div 2)) + 1
        BY <3>2
      <4> DEFINE c == k \div 2
      <4> HIDE DEF a, c
      <4>3. c \in Nat /\ k = (2 * c) + 1
        BY <4>2 DEF c
      <4> QED BY <3>1, <4>1, <4>3
    <3>3. CASE k % 2 # 1
      <4> DEFINE b == k \div 2
      <4>1. LowBit[k] = 2 * LowBit[b] /\ LowBit[b] \in 1 .. b /\ k = 2 * b /\ b \in S
        BY <1>0, <3>3, LowBitIs
      <4>2. Nests(a, b)
        BY <3>1, <4>1
      <4> HIDE DEF a, b
      <4> QED BY <3>1, <4>1, <4>2
    <3> QED BY <3>2, <3>3
  <2> QED BY <2>1, <2>2
<1>3. \A n \in Nat : n \in G
  <2> HIDE DEF G
  <2>1. G \in SUBSET Nat
    BY DEF G
  <2> QED BY <1>1, <1>2, <2>1, NaturalSetInduction
<1> QED BY <1>3

\* The positions of a tree of n positions that sum a range with k.
Covering(n, k) == {j \in 1 .. n : j - LowBit[j] < k /\ k <= j}

\* add changes the sums of the ranges that hold the index, and no other.
LEMMA AddCovers ==
  ASSUME NEW t \in Seq(Int), NEW index \in 0 .. Len(t) - 1, NEW delta \in Int
  PROVE  Add(t, index, delta) = [j \in 1 .. Len(t) |-> t[j] + IF j \in Covering(Len(t), index + 1) THEN delta ELSE 0]
<1> DEFINE S == Nat \ {0}
           n == Len(t)
           end == {j \in S : j > n}
           next == [j \in S |-> j + LowBit[j]]
           visit == [j \in S |-> [v \in SUBSET Nat |-> {j} \cup v]]
           rank == [j \in S |-> IF j > n THEN 0 ELSE n + 1 - j]
           path == CHOOSE path : path = [j \in S |-> IF j > n THEN {} ELSE {j} \cup path[j + LowBit[j]]]
<1>0. n \in Nat /\ \A j \in S : LowBit[j] \in 1 .. j
  BY LowBitIs
<1>1. \E f \in [S -> SUBSET Nat] : \A j \in S : f[j] = IF j \in end THEN {} ELSE visit[j][f[next[j]]]
  <2>1. Descends(S, SUBSET Nat, rank, end, next, {}, visit)
    <3>1. rank \in [S -> Nat] /\ end \in SUBSET S
      BY <1>0
    <3>2. next \in [S -> S] /\ \A j \in S : next[j] > j
      BY <1>0
    <3>3. visit \in [S -> [SUBSET Nat -> SUBSET Nat]]
      OBVIOUS
    <3>4. \A j \in S \ end : rank[next[j]] < rank[j]
      <4> HIDE DEF n
      <4>1. \A j \in S : j + LowBit[j] \in S /\ j + LowBit[j] > j
        BY <1>0
      <4> QED BY <1>0, <4>1
    <3> QED BY <3>1, <3>2, <3>3, <3>4 DEF Descends
  <2> HIDE DEF S, end, next, visit, rank
  <2> QED BY <2>1, RecursionExists
<1>2. PICK f \in [S -> SUBSET Nat] : \A j \in S : f[j] = IF j > n THEN {} ELSE {j} \cup f[j + LowBit[j]]
  <2>1. PICK f \in [S -> SUBSET Nat] : \A j \in S : f[j] = IF j \in end THEN {} ELSE visit[j][f[next[j]]]
    BY <1>1
  <2>2. ASSUME NEW j \in S PROVE f[j] = IF j > n THEN {} ELSE {j} \cup f[j + LowBit[j]]
    <3>1. j \in end <=> j > n
      OBVIOUS
    <3>2. next[j] = j + LowBit[j] /\ f[j + LowBit[j]] \in SUBSET Nat
      BY <1>0
    <3>3. \A v \in SUBSET Nat : visit[j][v] = {j} \cup v
      OBVIOUS
    <3> HIDE DEF end, next, visit, S, n
    <3> QED BY <2>1, <3>1, <3>2, <3>3
  <2> HIDE DEF S, n
  <2> QED BY <2>2
<1>3. path = [j \in S |-> IF j > n THEN {} ELSE {j} \cup path[j + LowBit[j]]]
  <2>1. f = [j \in S |-> IF j > n THEN {} ELSE {j} \cup f[j + LowBit[j]]]
    BY <1>2
  <2> HIDE DEF S, n
  <2> QED BY <2>1
<1>4. \A j \in S : path[j] = IF j > n THEN {} ELSE {j} \cup path[j + LowBit[j]]
  <2> HIDE DEF path
  <2> QED BY <1>3
<1>5. Add(t, index, delta) = [j \in 1 .. n |-> t[j] + IF j \in path[index + 1] THEN delta ELSE 0]
  BY DEF Add
<1> HIDE DEF path, n
<1> DEFINE G == {m \in Nat : \A k \in S : n + 1 - k <= m => path[k] = Covering(n, k)}
<1>6. 0 \in G
  <2> SUFFICES ASSUME NEW k \in S, n + 1 - k <= 0 PROVE path[k] = Covering(n, k)
    OBVIOUS
  <2>1. k > n
    BY <1>0
  <2>2. path[k] = {}
    BY <1>4, <2>1
  <2>3. Covering(n, k) = {}
    BY <1>0, <2>1 DEF Covering
  <2> QED BY <2>2, <2>3
<1>7. ASSUME NEW m \in G PROVE m + 1 \in G
  <2> SUFFICES ASSUME NEW k \in S, n + 1 - k <= m + 1 PROVE path[k] = Covering(n, k)
    OBVIOUS
  <2>1. CASE k > n
    BY <1>0, <1>4, <2>1 DEF Covering
  <2>2. CASE k <= n
    <3> DEFINE up == k + LowBit[k]
    <3>1. up \in S /\ up > k /\ LowBit[k] \in 1 .. k
      BY <1>0
    <3>2. n + 1 - up <= m
      BY <1>0, <3>1
    <3>3. path[k] = {k} \cup Covering(n, up)
      <4>1. path[k] = {k} \cup path[up]
        <5>1. ~(k > n)
          BY <1>0, <2>2
        <5> HIDE DEF S
        <5> QED BY <1>4, <5>1
      <4>2. path[up] = Covering(n, up)
        BY <3>1, <3>2
      <4> QED BY <4>1, <4>2
    <3>4. ASSUME NEW j \in 1 .. n PROVE j \in Covering(n, k) <=> j = k \/ j \in Covering(n, up)
      <4>1. LowBit[j] \in 1 .. j /\ j \in S
        BY <1>0
      <4>2. (j > k /\ j - LowBit[j] < k => up <= j) /\ (j >= up /\ j - LowBit[j] < up => j - LowBit[j] < k)
        BY <4>1, RangesNest
      <4> HIDE DEF up
      <4> QED BY <1>0, <3>1, <4>1, <4>2 DEF Covering
    <3>5. k \in 1 .. n
      BY <1>0, <2>2
    <3> HIDE DEF up
    <3> QED BY <3>3, <3>4, <3>5 DEF Covering
  <2> QED BY <1>0, <2>1, <2>2
<1>8. \A m \in Nat : m \in G
  <2> HIDE DEF G
  <2>1. G \in SUBSET Nat
    BY DEF G
  <2> QED BY <1>6, <1>7, <2>1, NaturalSetInduction
<1>9. path[index + 1] = Covering(n, index + 1)
  <2>1. index + 1 \in S /\ n + 1 - (index + 1) \in Nat
    BY <1>0 DEF n
  <2> HIDE DEF S
  <2> QED BY <1>8, <2>1
<1> QED BY <1>5, <1>9 DEF n

\* The count of an interval is the sum of the counts of its two parts.
LEMMA IntervalSplits ==
  ASSUME NEW M \in SUBSET Nat, NEW a \in Int, NEW b \in Int, NEW c \in Int, a <= b + 1, b <= c
  PROVE  /\ Cardinality(M \cap a .. c) = Cardinality(M \cap a .. b) + Cardinality(M \cap (b + 1) .. c)
         /\ Cardinality(M \cap a .. b) \in Nat /\ Cardinality(M \cap (b + 1) .. c) \in Nat
<1> DEFINE X == M \cap a .. b
           Y == M \cap (b + 1) .. c
<1>1. IsFiniteSet(a .. b) /\ IsFiniteSet((b + 1) .. c)
  BY FS_Interval
<1>2. IsFiniteSet(X) /\ IsFiniteSet(Y)
  <2>1. X \in SUBSET (a .. b) /\ Y \in SUBSET ((b + 1) .. c)
    OBVIOUS
  <2> QED BY <1>1, <2>1, FS_Subset
<1>3. X \cup Y = M \cap a .. c /\ X \cap Y = {}
  OBVIOUS
<1>4. Cardinality(X \cup Y) = Cardinality(X) + Cardinality(Y) - Cardinality(X \cap Y)
  BY <1>2, FS_Union
<1>5. Cardinality(X) \in Nat /\ Cardinality(Y) \in Nat
  BY <1>2, FS_CardinalityType
<1>6. Cardinality({}) = 0
  BY FS_EmptySet
<1> HIDE DEF X, Y
<1>7. Cardinality(X \cup Y) = Cardinality(X) + Cardinality(Y)
  <2>1. Cardinality(X \cap Y) = 0
    BY <1>3, <1>6
  <2> QED BY <1>4, <1>5, <2>1
<1> QED BY <1>3, <1>5, <1>7 DEF X, Y

\* prefix adds up the sums of ranges that are side by side, down to 0.
LEMMA PrefixCounts ==
  ASSUME NEW t \in Seq(Int), NEW index \in -1 .. Len(t) - 1, NEW M \in SUBSET Nat,
         \A j \in 1 .. Len(t) : t[j] = InRange(M, j)
  PROVE  Prefix(t, index) = Cardinality(M \cap 0 .. index)
<1> DEFINE S == 0 .. Len(t)
           n == Len(t)
           down == [j \in S |-> IF j = 0 THEN 0 ELSE j - LowBit[j]]
           sum == [j \in S |-> [v \in Int |-> t[j] + v]]
           rank == [j \in S |-> j]
           total == CHOOSE total : total = [j \in S |-> IF j <= 0 THEN 0 ELSE t[j] + total[j - LowBit[j]]]
           added == [j \in S |-> [v \in Int |-> IF j = 0 THEN 0 ELSE t[j] + v]]
<1>0. n \in Nat /\ \A j \in S : j # 0 => /\ LowBit[j] \in 1 .. j /\ j - LowBit[j] \in S
                                        /\ j - LowBit[j] < j /\ t[j] \in Int
  BY LowBitIs
<1>1. \E f \in [S -> Int] : \A j \in S : f[j] = IF j \in {0} THEN 0 ELSE added[j][f[down[j]]]
  <2>1. Descends(S, Int, rank, {0}, down, 0, added)
    <3>1. rank \in [S -> Nat] /\ {0} \in SUBSET S
      BY <1>0
    <3>2. down \in [S -> S]
      BY <1>0
    <3>3. added \in [S -> [Int -> Int]]
      BY <1>0
    <3>4. \A j \in S \ {0} : rank[down[j]] < rank[j]
      BY <1>0
    <3> QED BY <3>1, <3>2, <3>3, <3>4 DEF Descends
  <2> HIDE DEF S, down, added, rank
  <2> QED BY <2>1, RecursionExists
<1>2. PICK f \in [S -> Int] : \A j \in S : f[j] = IF j <= 0 THEN 0 ELSE t[j] + f[j - LowBit[j]]
  <2>1. PICK f \in [S -> Int] : \A j \in S : f[j] = IF j \in {0} THEN 0 ELSE added[j][f[down[j]]]
    BY <1>1
  <2>2. ASSUME NEW j \in S PROVE f[j] = IF j <= 0 THEN 0 ELSE t[j] + f[j - LowBit[j]]
    <3>1. j \in {0} <=> j <= 0
      BY <1>0
    <3>2. j # 0 => /\ down[j] = j - LowBit[j] /\ f[j - LowBit[j]] \in Int
                   /\ \A v \in Int : added[j][v] = t[j] + v
      BY <1>0
    <3> HIDE DEF down, added, S
    <3> QED BY <2>1, <3>1, <3>2
  <2> HIDE DEF S
  <2> QED BY <2>2
<1>3. total = [j \in S |-> IF j <= 0 THEN 0 ELSE t[j] + total[j - LowBit[j]]]
  <2>1. f = [j \in S |-> IF j <= 0 THEN 0 ELSE t[j] + f[j - LowBit[j]]]
    BY <1>2
  <2> HIDE DEF S
  <2> QED BY <2>1
<1>4. \A j \in S : total[j] = IF j <= 0 THEN 0 ELSE t[j] + total[j - LowBit[j]]
  <2> HIDE DEF total
  <2> QED BY <1>3
<1>5. Prefix(t, index) = total[index + 1]
  BY DEF Prefix
<1> HIDE DEF total
<1> DEFINE G == {m \in Nat : \A k \in S : k <= m => total[k] = Cardinality(M \cap 0 .. (k - 1))}
<1>6. 0 \in G
  <2>1. Cardinality(M \cap 0 .. (0 - 1)) = 0
    <3>1. M \cap 0 .. (0 - 1) = {}
      OBVIOUS
    <3> QED BY <3>1, FS_EmptySet
  <2>2. total[0] = 0
    BY <1>0, <1>4
  <2>3. \A k \in S : k <= 0 => k = 0
    BY <1>0
  <2> HIDE DEF S
  <2> QED BY <2>1, <2>2, <2>3
<1>7. ASSUME NEW m \in G PROVE m + 1 \in G
  <2> SUFFICES ASSUME NEW k \in S, k <= m + 1 PROVE total[k] = Cardinality(M \cap 0 .. (k - 1))
    OBVIOUS
  <2>1. CASE k = 0
    BY <1>6, <2>1
  <2>2. CASE k # 0
    <3> DEFINE d == k - LowBit[k]
    <3>1. d \in S /\ d < k /\ d <= m /\ k > 0
      BY <1>0, <2>2
    <3>2. total[k] = t[k] + total[d]
      BY <1>4, <2>2, <3>1
    <3>3. total[d] = Cardinality(M \cap 0 .. (d - 1))
      BY <3>1
    <3>4. t[k] = Cardinality(M \cap d .. (k - 1))
      <4>1. k \in 1 .. Len(t)
        BY <1>0, <3>1
      <4> QED BY <4>1 DEF InRange
    <3> HIDE DEF d
    <3>5. 0 \in Int /\ d \in Nat /\ d - 1 \in Int /\ k - 1 \in Int /\ 0 <= (d - 1) + 1 /\ d - 1 <= k - 1 /\ (d - 1) + 1 = d
      BY <3>1
    <3>6. /\ Cardinality(M \cap 0 .. (k - 1)) = Cardinality(M \cap 0 .. (d - 1)) + Cardinality(M \cap ((d - 1) + 1) .. (k - 1))
          /\ Cardinality(M \cap 0 .. (d - 1)) \in Nat /\ Cardinality(M \cap ((d - 1) + 1) .. (k - 1)) \in Nat
      BY <3>5, IntervalSplits
    <3> QED BY <3>2, <3>3, <3>4, <3>5, <3>6
  <2> QED BY <2>1, <2>2
<1>8. \A m \in Nat : m \in G
  <2> HIDE DEF G
  <2>1. G \in SUBSET Nat
    BY DEF G
  <2> QED BY <1>6, <1>7, <2>1, NaturalSetInduction
<1>9. total[index + 1] = Cardinality(M \cap 0 .. ((index + 1) - 1))
  <2>1. index + 1 \in S /\ index + 1 \in Nat /\ index + 1 <= index + 1
    BY <1>0
  <2>2. index + 1 \in G
    <3> HIDE DEF G
    <3> QED BY <1>8, <2>1
  <2> HIDE DEF S
  <2> QED BY <2>1, <2>2
<1>10. (index + 1) - 1 = index
  OBVIOUS
<1> QED BY <1>5, <1>9, <1>10

-----------------------------------------------------------------------------
(* The tree of the profiler.                                               *)

\* A new marker counts in the ranges that hold it.
LEMMA MarkerCounts ==
  ASSUME NEW M \in SUBSET Nat, NEW x \in Nat, x \notin M, NEW n \in Nat, NEW j \in 1 .. n
  PROVE  /\ InRange(M \cup {x}, j) = InRange(M, j) + IF j \in Covering(n, x + 1) THEN 1 ELSE 0
         /\ InRange(M, j) \in Nat
<1> DEFINE low == j - LowBit[j]
           high == j - 1
           R == M \cap low .. high
<1>1. LowBit[j] \in Int /\ low \in Int /\ high \in Int
  BY LowBitIs
<1>2. IsFiniteSet(R)
  <2>1. IsFiniteSet(low .. high)
    BY <1>1, FS_Interval
  <2>2. R \in SUBSET (low .. high)
    OBVIOUS
  <2> QED BY <2>1, <2>2, FS_Subset
<1>3. Cardinality(R) \in Nat
  BY <1>2, FS_CardinalityType
<1>4. InRange(M, j) = Cardinality(R) /\ InRange(M \cup {x}, j) = Cardinality((M \cup {x}) \cap low .. high)
  BY DEF InRange
<1>5. x \in low .. high <=> j \in Covering(n, x + 1)
  BY <1>1 DEF Covering
<1>6. CASE x \in low .. high
  <2>1. (M \cup {x}) \cap low .. high = R \cup {x} /\ x \notin R
    BY <1>6
  <2>2. Cardinality(R \cup {x}) = Cardinality(R) + 1
    BY <1>2, <2>1, FS_AddElement
  <2> HIDE DEF R
  <2> QED BY <1>3, <1>4, <1>5, <1>6, <2>1, <2>2
<1>7. CASE x \notin low .. high
  <2>1. (M \cup {x}) \cap low .. high = R
    BY <1>7
  <2> HIDE DEF R
  <2> QED BY <1>3, <1>4, <1>5, <1>7, <2>1
<1> QED BY <1>6, <1>7

\* add keeps the tree in step with the marker put in or taken off.
LEMMA AddMarks ==
  ASSUME NEW t \in Seq(Int), NEW M \in SUBSET Nat, NEW x \in 0 .. Len(t) - 1, x \notin M
  PROVE  /\ (\A j \in 1 .. Len(t) : t[j] = InRange(M, j)) =>
              /\ Add(t, x, 1) \in Seq(Int) /\ Len(Add(t, x, 1)) = Len(t)
              /\ \A j \in 1 .. Len(t) : Add(t, x, 1)[j] = InRange(M \cup {x}, j)
         /\ (\A j \in 1 .. Len(t) : t[j] = InRange(M \cup {x}, j)) =>
              /\ Add(t, x, -1) \in Seq(Int) /\ Len(Add(t, x, -1)) = Len(t)
              /\ \A j \in 1 .. Len(t) : Add(t, x, -1)[j] = InRange(M, j)
<1>1. Len(t) \in Nat /\ x \in Nat /\ \A j \in 1 .. Len(t) : t[j] \in Int
  OBVIOUS
<1>2. ASSUME NEW delta \in Int
      PROVE  /\ Add(t, x, delta) \in Seq(Int) /\ Len(Add(t, x, delta)) = Len(t)
             /\ \A j \in 1 .. Len(t) : Add(t, x, delta)[j] = t[j] + IF j \in Covering(Len(t), x + 1) THEN delta ELSE 0
  <2> DEFINE n == Len(t)
             added == [j \in 1 .. n |-> t[j] + IF j \in Covering(n, x + 1) THEN delta ELSE 0]
  <2>1. Add(t, x, delta) = added
    BY AddCovers
  <2>2. n \in Nat /\ \A j \in 1 .. n : added[j] \in Int
    BY <1>1
  <2>3. added = [j \in 1 .. n |-> added[j]]
    OBVIOUS
  <2>4. \A j \in 1 .. n : added[j] = t[j] + IF j \in Covering(n, x + 1) THEN delta ELSE 0
    OBVIOUS
  <2> HIDE DEF added, n
  <2>5. added \in Seq(Int) /\ Len(added) = n
    BY <2>2, <2>3
  <2> QED BY <2>1, <2>4, <2>5 DEF n
<1>3. \A j \in 1 .. Len(t) :
        /\ InRange(M \cup {x}, j) = InRange(M, j) + IF j \in Covering(Len(t), x + 1) THEN 1 ELSE 0
        /\ InRange(M, j) \in Nat
  BY <1>1, MarkerCounts
<1>4. 1 \in Int /\ -1 \in Int
  OBVIOUS
<1>5. ASSUME \A j \in 1 .. Len(t) : t[j] = InRange(M, j), NEW j \in 1 .. Len(t)
      PROVE  Add(t, x, 1)[j] = InRange(M \cup {x}, j)
  <2>1. Add(t, x, 1)[j] = t[j] + IF j \in Covering(Len(t), x + 1) THEN 1 ELSE 0
    BY <1>2, <1>4
  <2> QED BY <1>3, <1>5, <2>1
<1>6. ASSUME \A j \in 1 .. Len(t) : t[j] = InRange(M \cup {x}, j), NEW j \in 1 .. Len(t)
      PROVE  Add(t, x, -1)[j] = InRange(M, j)
  <2>1. Add(t, x, -1)[j] = t[j] + IF j \in Covering(Len(t), x + 1) THEN -1 ELSE 0
    BY <1>2, <1>4
  <2>2. /\ t[j] = InRange(M, j) + IF j \in Covering(Len(t), x + 1) THEN 1 ELSE 0
        /\ InRange(M, j) \in Nat
    BY <1>3, <1>6
  <2>3. CASE j \in Covering(Len(t), x + 1)
    BY <2>1, <2>2, <2>3
  <2>4. CASE j \notin Covering(Len(t), x + 1)
    BY <2>1, <2>2, <2>4
  <2> QED BY <2>3, <2>4
<1> QED BY <1>2, <1>4, <1>5, <1>6

\* A new tree of zeros counts no markers.
LEMMA EmptyTree ==
  ASSUME NEW n \in Nat
  PROVE  /\ Tree(n) \in Seq(Int) /\ Len(Tree(n)) = n
         /\ \A j \in 1 .. n : Tree(n)[j] = InRange({}, j)
<1>1. \A j \in 1 .. n : InRange({}, j) = 0
  <2>1. \A j \in 1 .. n : {} \cap (j - LowBit[j]) .. (j - 1) = {}
    OBVIOUS
  <2> QED BY <2>1, FS_EmptySet DEF InRange
<1> QED BY <1>1 DEF Tree

LEMMA TreeInitially == TreeInit => TreeInv
<1> SUFFICES ASSUME TreeInit PROVE TreeInv
  OBVIOUS
<1>1. tree = << >> /\ tree \in Seq(Int) /\ Len(tree) = 0
  BY DEF TreeInit
<1>2. set < numSets /\ Bucket = << >>
  BY SetCountsAssumption DEF TreeInit, Init, Bucket
<1> QED BY <1>1, <1>2 DEF TreeInv

LEMMA TreeReferenceKeeps == DistanceInv /\ TreeInv /\ TreeReference => TreeInv'
<1> SUFFICES ASSUME DistanceInv, TreeInv, TreeReference PROVE TreeInv'
  OBVIOUS
<1> DEFINE block == Bucket[i + 1]
           prev == last[block]
           n == Len(Bucket)
<1>1. /\ read = Len(stream) /\ set < numSets /\ i < n
      /\ marks' = (marks \ {prev}) \cup {i}
      /\ tree' = Add(IF prev < 0 THEN tree ELSE Add(tree, prev, -1), i, 1)
      /\ UNCHANGED <<stream, numSets, buckets, read, set>>
  BY DEF TreeReference, Reference
<1>2. /\ i \in Nat /\ n \in Nat /\ i \in 0 .. n - 1
      /\ block \in Blocks /\ prev \in -1 .. i - 1 /\ marks \in SUBSET (0 .. i - 1)
  <2>1. Bucket \in Seq(Blocks)
    BY <1>1, SetCountsAssumption DEF DistanceInv, TypeOK, Bucket
  <2>2. i \in Nat /\ last \in [Blocks -> -1 .. i - 1] /\ marks \in SUBSET (0 .. i - 1)
    BY DEF DistanceInv, TypeOK
  <2>3. block \in Blocks
    BY <1>1, <2>1, <2>2
  <2> HIDE DEF block
  <2> QED BY <1>1, <2>1, <2>2, <2>3
<1>3. tree \in Seq(Int) /\ Len(tree) = n /\ \A j \in 1 .. n : tree[j] = InRange(marks, j)
  BY <1>1 DEF TreeInv
<1>4. Bucket' = Bucket
  BY <1>1 DEF Bucket
<1>5. prev # -1 => prev \in marks
  <2>1. prev # -1 => prev \in 0 .. i - 1
    BY <1>2
  <2> QED BY <1>2, <2>1 DEF DistanceInv, MarksAreLast
<1> HIDE DEF block, prev, n
<1> DEFINE off == marks \ {prev}
           between == IF prev < 0 THEN tree ELSE Add(tree, prev, -1)
<1>6. between \in Seq(Int) /\ Len(between) = n /\ \A j \in 1 .. n : between[j] = InRange(off, j)
  <2>1. CASE prev = -1
    <3>1. off = marks
      BY <1>2, <2>1
    <3>2. between = tree
      BY <2>1
    <3> HIDE DEF off, between
    <3> QED BY <1>3, <3>1, <3>2
  <2>2. CASE prev # -1
    <3>1. off \cup {prev} = marks /\ prev \notin off /\ off \in SUBSET Nat /\ prev \in 0 .. Len(tree) - 1
      BY <1>2, <1>3, <1>5, <2>2
    <3>2. between = Add(tree, prev, -1)
      BY <1>2, <2>2
    <3> HIDE DEF off, between
    <3>3. \A j \in 1 .. Len(tree) : tree[j] = InRange(off \cup {prev}, j)
      BY <1>3, <3>1
    <3> QED BY <1>3, <3>1, <3>2, <3>3, AddMarks
  <2> QED BY <2>1, <2>2
<1>7. off \in SUBSET Nat /\ i \notin off /\ marks' = off \cup {i} /\ tree' = Add(between, i, 1)
  BY <1>1, <1>2
<1> HIDE DEF off, between
<1>8. tree' \in Seq(Int) /\ Len(tree') = n /\ \A j \in 1 .. n : tree'[j] = InRange(marks', j)
  <2>1. i \in 0 .. Len(between) - 1 /\ \A j \in 1 .. Len(between) : between[j] = InRange(off, j)
    BY <1>2, <1>6
  <2>2. /\ Add(between, i, 1) \in Seq(Int) /\ Len(Add(between, i, 1)) = Len(between)
        /\ \A j \in 1 .. Len(between) : Add(between, i, 1)[j] = InRange(off \cup {i}, j)
    BY <1>6, <1>7, <2>1, AddMarks
  <2> QED BY <1>6, <1>7, <2>2
<1>9. Len(tree') = IF read' = Len(stream') /\ set' < numSets' THEN Len(Bucket') ELSE 0
  BY <1>1, <1>4, <1>8 DEF n
<1> QED BY <1>8, <1>9 DEF TreeInv

LEMMA TreeSplitKeeps == DistanceInv /\ DistanceInv' /\ TreeInv /\ TreeSplit => TreeInv'
<1> SUFFICES ASSUME DistanceInv, DistanceInv', TreeInv, TreeSplit PROVE TreeInv'
  OBVIOUS
<1>1. /\ read < Len(stream) /\ read' = read + 1 /\ UNCHANGED <<stream, numSets, set, i, marks>>
      /\ tree' = IF read' = Len(stream) THEN Tree(Len(buckets'[0])) ELSE << >>
  BY DEF TreeSplit, Split
<1>2. set = 0 /\ i = 0 /\ numSets \in Nat \ {0} /\ marks = {}
  BY <1>1, SetCountsAssumption DEF DistanceInv, TypeOK, Phases
<1>3. buckets'[0] \in Seq(Blocks) /\ Bucket' = buckets'[0] /\ set' < numSets'
  BY <1>1, <1>2 DEF DistanceInv, TypeOK, Bucket
<1>4. CASE read' = Len(stream)
  <2>1. tree' = Tree(Len(Bucket')) /\ Len(Bucket') \in Nat
    BY <1>1, <1>3, <1>4
  <2>2. /\ tree' \in Seq(Int) /\ Len(tree') = Len(Bucket')
        /\ \A j \in 1 .. Len(Bucket') : tree'[j] = InRange({}, j)
    BY <2>1, EmptyTree
  <2> QED BY <1>1, <1>2, <1>3, <1>4, <2>2 DEF TreeInv
<1>5. CASE read' # Len(stream)
  <2>1. tree' = << >> /\ tree' \in Seq(Int) /\ Len(tree') = 0
    BY <1>1, <1>5
  <2> QED BY <1>1, <1>5, <2>1 DEF TreeInv
<1> QED BY <1>4, <1>5

LEMMA TreeNextBucketKeeps == DistanceInv /\ DistanceInv' /\ TreeInv /\ TreeNextBucket => TreeInv'
<1> SUFFICES ASSUME DistanceInv, DistanceInv', TreeInv, TreeNextBucket PROVE TreeInv'
  OBVIOUS
<1>1. /\ read = Len(stream) /\ set < numSets /\ set' = set + 1 /\ marks' = {}
      /\ UNCHANGED <<stream, numSets, buckets, read>>
      /\ tree' = IF set' < numSets THEN Tree(Len(buckets[set'])) ELSE << >>
  BY DEF TreeNextBucket, NextBucket, NewTree
<1>2. set \in Nat /\ numSets \in Nat \ {0} /\ buckets \in [0 .. numSets - 1 -> Seq(Blocks)]
  BY SetCountsAssumption DEF DistanceInv, TypeOK
<1>3. CASE set' < numSets
  <2>1. Bucket' = buckets[set'] /\ buckets[set'] \in Seq(Blocks)
    BY <1>1, <1>2, <1>3 DEF Bucket
  <2>2. tree' = Tree(Len(Bucket')) /\ Len(Bucket') \in Nat
    BY <1>1, <1>3, <2>1
  <2>3. /\ tree' \in Seq(Int) /\ Len(tree') = Len(Bucket')
        /\ \A j \in 1 .. Len(Bucket') : tree'[j] = InRange({}, j)
    BY <2>2, EmptyTree
  <2> QED BY <1>1, <1>3, <2>3 DEF TreeInv
<1>4. CASE ~(set' < numSets)
  <2>1. tree' = << >> /\ tree' \in Seq(Int) /\ Len(tree') = 0
    BY <1>1, <1>4
  <2> QED BY <1>1, <1>4, <2>1 DEF TreeInv
<1> QED BY <1>3, <1>4

\* What prefix and range_sum read from the tree.
LEMMA TreeReads == DistanceInv /\ TreeInv => TreeCountsMarkers
<1> SUFFICES ASSUME DistanceInv, TreeInv, NEW low \in 0 .. Len(tree) - 1, NEW high \in -1 .. Len(tree) - 1
             PROVE  TreeRangeSum(tree, low, high) = RangeSum(low, high)
  BY DEF TreeCountsMarkers
<1>1. tree \in Seq(Int) /\ Len(tree) \in Nat /\ \A j \in 1 .. Len(tree) : tree[j] = InRange(marks, j)
  BY DEF TreeInv
<1>2. marks \in SUBSET Nat
  BY DEF DistanceInv, TypeOK
<1>3. CASE high < low
  <2>1. marks \cap low .. high = {}
    BY <1>3
  <2>2. RangeSum(low, high) = 0
    BY <2>1, FS_EmptySet DEF RangeSum
  <2> QED BY <1>3, <2>2 DEF TreeRangeSum
<1>4. CASE low <= high
  <2>1. low - 1 \in -1 .. Len(tree) - 1
    BY <1>1
  <2>2. /\ Prefix(tree, high) = Cardinality(marks \cap 0 .. high)
        /\ Prefix(tree, low - 1) = Cardinality(marks \cap 0 .. (low - 1))
    BY <1>1, <1>2, <2>1, PrefixCounts
  <2>3. 0 \in Int /\ low - 1 \in Int /\ high \in Int /\ 0 <= (low - 1) + 1 /\ low - 1 <= high /\ (low - 1) + 1 = low
    BY <1>1, <1>4
  <2>4. /\ Cardinality(marks \cap 0 .. high) = Cardinality(marks \cap 0 .. (low - 1)) + Cardinality(marks \cap ((low - 1) + 1) .. high)
        /\ Cardinality(marks \cap 0 .. (low - 1)) \in Nat /\ Cardinality(marks \cap ((low - 1) + 1) .. high) \in Nat
    BY <1>2, <2>3, IntervalSplits
  <2>5. TreeRangeSum(tree, low, high) = Prefix(tree, high) - Prefix(tree, low - 1)
    BY <1>1, <1>4 DEF TreeRangeSum
  <2> QED BY <2>2, <2>3, <2>4, <2>5 DEF RangeSum
<1> QED BY <1>1, <1>3, <1>4

-----------------------------------------------------------------------------
(* Totals of a histogram.                                                  *)

\* f[k] is the total of the first k entries.
Sums(f, h, D) ==
  /\ f \in [0 .. Len(h) -> Nat] /\ f[0] = 0
  /\ \A k \in 1 .. Len(h) : f[k] = f[k - 1] + IF k - 1 \in D THEN h[k] ELSE 0

\* The recursive definition of the total says what it seems to.
LEMMA TotalIs ==
  ASSUME NEW h \in Seq(Nat), NEW D
  PROVE  \E f : Sums(f, h, D) /\ Total(h, D) = f[Len(h)]
<1> DEFINE n == Len(h)
           S == 0 .. n
           Is(f) == f = [k \in S |-> IF k = 0 THEN 0 ELSE f[k - 1] + IF k - 1 \in D THEN h[k] ELSE 0]
           sum == CHOOSE f : Is(f)
           rank == [k \in S |-> k]
           pred == [k \in S |-> IF k = 0 THEN 0 ELSE k - 1]
           step == [k \in S |-> [v \in Nat |-> v + IF k - 1 \in D /\ k # 0 THEN h[k] ELSE 0]]
<1>0. n \in Nat /\ \A k \in 1 .. n : h[k] \in Nat
  OBVIOUS
<1>1. Descends(S, Nat, rank, {0}, pred, 0, step)
  <2> HIDE DEF n
  <2>1. rank \in [S -> Nat] /\ {0} \in SUBSET S /\ pred \in [S -> S]
    BY <1>0
  <2>2. step \in [S -> [Nat -> Nat]]
    BY <1>0
  <2>3. \A k \in S \ {0} : rank[pred[k]] < rank[k]
    BY <1>0
  <2> HIDE DEF rank, pred, step, S
  <2> QED BY <2>1, <2>2, <2>3 DEF Descends
<1>2. PICK f \in [S -> Nat] : \A k \in S : f[k] = IF k \in {0} THEN 0 ELSE step[k][f[pred[k]]]
  <2> HIDE DEF S, rank, pred, step
  <2>1. \E f \in [S -> Nat] : \A k \in S : f[k] = IF k \in {0} THEN 0 ELSE step[k][f[pred[k]]]
    BY <1>1, RecursionExists
  <2> QED BY <2>1
<1>3. ASSUME NEW k \in S PROVE f[k] = IF k = 0 THEN 0 ELSE f[k - 1] + IF k - 1 \in D THEN h[k] ELSE 0
  <2> HIDE DEF n
  <2>1. k # 0 => k - 1 \in S /\ pred[k] = k - 1 /\ f[k - 1] \in Nat
    BY <1>0
  <2>2. k # 0 => \A v \in Nat : step[k][v] = v + IF k - 1 \in D THEN h[k] ELSE 0
    OBVIOUS
  <2> HIDE DEF pred, step
  <2> QED BY <1>2, <2>1, <2>2
<1>4. Is(f)
  <2> HIDE DEF n
  <2> QED BY <1>3
<1> HIDE DEF Is
<1>5. Is(sum)
  BY <1>4
<1> HIDE DEF sum
<1>6. /\ sum = [k \in S |-> sum[k]] /\ sum[0] = 0
      /\ \A k \in 1 .. n : sum[k] = sum[k - 1] + IF k - 1 \in D THEN h[k] ELSE 0
  <2> HIDE DEF n
  <2>1. sum = [k \in S |-> IF k = 0 THEN 0 ELSE sum[k - 1] + IF k - 1 \in D THEN h[k] ELSE 0]
    BY <1>5 DEF Is
  <2>2. 0 \in S /\ \A k \in 1 .. n : k \in S /\ k # 0
    BY <1>0
  <2> HIDE DEF S
  <2>3. \A k \in S : sum[k] = IF k = 0 THEN 0 ELSE sum[k - 1] + IF k - 1 \in D THEN h[k] ELSE 0
    BY <2>1
  <2>4. sum = [k \in S |-> sum[k]]
    BY <2>1
  <2> QED BY <2>2, <2>3, <2>4
<1>7. \A k \in Nat : k \in S => sum[k] \in Nat
  <2> DEFINE G == {k \in Nat : k \in S => sum[k] \in Nat}
  <2>1. 0 \in G
    BY <1>6
  <2>2. ASSUME NEW k \in G PROVE k + 1 \in G
    <3>1. k \in Nat /\ (k \in S => sum[k] \in Nat)
      OBVIOUS
    <3> SUFFICES ASSUME k + 1 \in S PROVE sum[k + 1] \in Nat
      OBVIOUS
    <3>2. k \in S /\ k + 1 \in 1 .. n /\ (k + 1) - 1 = k
      BY <1>0, <3>1
    <3>3. sum[k + 1] = sum[k] + IF k \in D THEN h[k + 1] ELSE 0
      BY <1>6, <3>2
    <3> QED BY <1>0, <3>1, <3>2, <3>3
  <2> HIDE DEF G
  <2>3. G \in SUBSET Nat
    BY DEF G
  <2>4. \A k \in Nat : k \in G
    BY <2>1, <2>2, <2>3, NaturalSetInduction
  <2> QED BY <2>4 DEF G
<1>8. sum \in [S -> Nat]
  <2> HIDE DEF n
  <2>1. \A k \in S : sum[k] \in Nat
    BY <1>0, <1>7
  <2> QED BY <1>6, <2>1
<1>9. Total(h, D) = sum[n]
  BY DEF Total, sum, Is
<1> QED BY <1>6, <1>8, <1>9 DEF Sums

\* Whatever has the sums of the histogram has its total.
LEMMA TotalOf ==
  ASSUME NEW h \in Seq(Nat), NEW D, NEW f, Sums(f, h, D)
  PROVE  Total(h, D) = f[Len(h)]
<1>1. PICK g : Sums(g, h, D) /\ Total(h, D) = g[Len(h)]
  BY TotalIs
<1> DEFINE n == Len(h)
           G == {k \in Nat : k <= n => f[k] = g[k]}
<1>2. n \in Nat
  OBVIOUS
<1>3. 0 \in G
  BY <1>1 DEF Sums
<1>4. ASSUME NEW k \in G PROVE k + 1 \in G
  <2>1. k \in Nat /\ (k <= n => f[k] = g[k])
    OBVIOUS
  <2> SUFFICES ASSUME k + 1 <= n PROVE f[k + 1] = g[k + 1]
    OBVIOUS
  <2>2. k <= n /\ k + 1 \in 1 .. n /\ (k + 1) - 1 = k
    BY <1>2, <2>1
  <2>3. /\ f[k + 1] = f[k] + IF k \in D THEN h[k + 1] ELSE 0
        /\ g[k + 1] = g[k] + IF k \in D THEN h[k + 1] ELSE 0
    BY <1>1, <2>2 DEF Sums
  <2> QED BY <2>1, <2>2, <2>3
<1>5. \A k \in Nat : k \in G
  <2> HIDE DEF G
  <2>1. G \in SUBSET Nat
    BY DEF G
  <2> QED BY <1>3, <1>4, <2>1, NaturalSetInduction
<1> QED BY <1>1, <1>2, <1>5

LEMMA TotalType ==
  ASSUME NEW h \in Seq(Nat), NEW D
  PROVE  Total(h, D) \in Nat
<1>1. PICK f : Sums(f, h, D) /\ Total(h, D) = f[Len(h)]
  BY TotalIs
<1>2. Len(h) \in 0 .. Len(h)
  OBVIOUS
<1> QED BY <1>1, <1>2 DEF Sums

\* Only the distances there are entries for count.
LEMMA TotalWithin ==
  ASSUME NEW h \in Seq(Nat), NEW D, NEW E, D \cap (0 .. Len(h) - 1) = E \cap (0 .. Len(h) - 1)
  PROVE  Total(h, D) = Total(h, E)
<1>1. PICK f : Sums(f, h, D) /\ Total(h, D) = f[Len(h)]
  BY TotalIs
<1>2. \A k \in 1 .. Len(h) : k - 1 \in D <=> k - 1 \in E
  <2>1. \A k \in 1 .. Len(h) : k - 1 \in 0 .. Len(h) - 1
    OBVIOUS
  <2> QED BY <2>1
<1>3. Sums(f, h, E)
  BY <1>1, <1>2 DEF Sums
<1> QED BY <1>1, <1>3, TotalOf

\* Totals over sets apart add up.
LEMMA TotalSplits ==
  ASSUME NEW h \in Seq(Nat), NEW D, NEW E, D \cap E = {}
  PROVE  Total(h, D \cup E) = Total(h, D) + Total(h, E)
<1>1. PICK f : Sums(f, h, D) /\ Total(h, D) = f[Len(h)]
  BY TotalIs
<1>2. PICK g : Sums(g, h, E) /\ Total(h, E) = g[Len(h)]
  BY TotalIs
<1> DEFINE n == Len(h)
           s == [k \in 0 .. n |-> f[k] + g[k]]
<1>3. n \in Nat /\ \A k \in 1 .. n : h[k] \in Nat
  OBVIOUS
<1>4. Sums(s, h, D \cup E)
  <2>1. s \in [0 .. n -> Nat] /\ s[0] = 0
    BY <1>1, <1>2, <1>3 DEF Sums
  <2>2. ASSUME NEW k \in 1 .. n PROVE s[k] = s[k - 1] + IF k - 1 \in D \cup E THEN h[k] ELSE 0
    <3>1. k \in 0 .. n /\ k - 1 \in 0 .. n
      BY <1>3
    <3>2. /\ f[k] = f[k - 1] + (IF k - 1 \in D THEN h[k] ELSE 0) /\ f[k - 1] \in Nat
          /\ g[k] = g[k - 1] + (IF k - 1 \in E THEN h[k] ELSE 0) /\ g[k - 1] \in Nat
      BY <1>1, <1>2, <3>1 DEF Sums
    <3>3. s[k] = f[k] + g[k] /\ s[k - 1] = f[k - 1] + g[k - 1]
      BY <3>1
    <3>4. ~(k - 1 \in D /\ k - 1 \in E) /\ (k - 1 \in D \cup E <=> k - 1 \in D \/ k - 1 \in E)
      OBVIOUS
    <3> HIDE DEF s
    <3> QED BY <1>3, <3>2, <3>3, <3>4
  <2> HIDE DEF s
  <2> QED BY <2>1, <2>2 DEF Sums
<1>5. s[n] = f[n] + g[n]
  BY <1>3
<1> HIDE DEF s
<1> QED BY <1>1, <1>2, <1>4, <1>5, TotalOf

\* The entries of an extended histogram.
LEMMA ExtendedIs ==
  ASSUME NEW h \in Seq(Nat), NEW m \in Nat
  PROVE  /\ Extended(h, m) \in Seq(Nat)
         /\ Len(Extended(h, m)) = (IF m <= Len(h) THEN Len(h) ELSE m)
         /\ \A k \in 1 .. Len(Extended(h, m)) : Extended(h, m)[k] = IF k <= Len(h) THEN h[k] ELSE 0
<1> DEFINE z == IF m - Len(h) < 0 THEN 0 ELSE m - Len(h)
           zeros == [k \in 1 .. z |-> 0]
<1>1. z \in Nat /\ 1 .. m - Len(h) = 1 .. z
  OBVIOUS
<1>2. zeros \in Seq(Nat) /\ Len(zeros) = z /\ \A k \in 1 .. z : zeros[k] = 0
  BY <1>1
<1>3. Extended(h, m) = h \o zeros
  BY <1>1 DEF Extended
<1> HIDE DEF zeros
<1>4. h \o zeros \in Seq(Nat) /\ Len(h \o zeros) = Len(h) + z
      /\ \A k \in 1 .. Len(h) + z : (h \o zeros)[k] = IF k <= Len(h) THEN h[k] ELSE zeros[k - Len(h)]
  <2> HIDE DEF z
  <2>1. Len(h) \in Nat
    OBVIOUS
  <2>2. h \o zeros \in Seq(Nat) /\ Len(h \o zeros) = Len(h) + z
    BY <1>1, <1>2
  <2>3. ASSUME NEW k \in 1 .. Len(h) + z PROVE (h \o zeros)[k] = IF k <= Len(h) THEN h[k] ELSE zeros[k - Len(h)]
    BY <1>1, <1>2, <2>1
  <2> QED BY <2>2, <2>3
<1>5. Len(h) + z = (IF m <= Len(h) THEN Len(h) ELSE m)
  OBVIOUS
<1>6. \A k \in 1 .. Len(h) + z : k <= Len(h) \/ k - Len(h) \in 1 .. z
  BY <1>1
<1> HIDE DEF z
<1> QED BY <1>2, <1>3, <1>4, <1>5, <1>6

\* Zeros at the end add nothing.
LEMMA TotalExtended ==
  ASSUME NEW h \in Seq(Nat), NEW m \in Nat, NEW D
  PROVE  Total(Extended(h, m), D) = Total(h, D)
<1> DEFINE e == Extended(h, m)
           n == Len(h)
<1>1. e \in Seq(Nat) /\ n \in Nat /\ Len(e) \in Nat /\ Len(e) >= n
      /\ \A k \in 1 .. Len(e) : e[k] = IF k <= n THEN h[k] ELSE 0
  BY ExtendedIs
<1>2. PICK f : Sums(f, h, D) /\ Total(h, D) = f[n]
  BY TotalIs
<1> HIDE DEF e, n
<1> DEFINE s == [k \in 0 .. Len(e) |-> IF k <= n THEN f[k] ELSE f[n]]
<1>3. Sums(s, e, D)
  <2>0. f \in [0 .. n -> Nat] /\ f[0] = 0
        /\ \A k \in 1 .. n : f[k] = f[k - 1] + IF k - 1 \in D THEN h[k] ELSE 0
    BY <1>2 DEF Sums, n
  <2>1. s \in [0 .. Len(e) -> Nat] /\ s[0] = 0
    BY <1>1, <2>0
  <2>2. ASSUME NEW k \in 1 .. Len(e) PROVE s[k] = s[k - 1] + IF k - 1 \in D THEN e[k] ELSE 0
    <3>1. k \in 0 .. Len(e) /\ k - 1 \in 0 .. Len(e)
      BY <1>1
    <3>2. s[k] = (IF k <= n THEN f[k] ELSE f[n]) /\ s[k - 1] = (IF k - 1 <= n THEN f[k - 1] ELSE f[n])
          /\ s[k - 1] \in Nat
      BY <2>1, <3>1
    <3> HIDE DEF s
    <3>3. CASE k <= n
      <4>1. k - 1 <= n /\ k \in 1 .. n
        BY <1>1, <3>3
      <4> QED BY <1>1, <2>0, <3>2, <3>3, <4>1
    <3>4. CASE ~(k <= n)
      <4>1. e[k] = 0
        BY <1>1, <3>4
      <4>2. k - 1 <= n => k - 1 = n
        BY <1>1, <3>4
      <4> QED BY <1>1, <3>2, <3>4, <4>1, <4>2
    <3> QED BY <3>3, <3>4
  <2> HIDE DEF s
  <2> QED BY <2>1, <2>2 DEF Sums
<1>4. s[Len(e)] = f[n]
  BY <1>1
<1> HIDE DEF s
<1> QED BY <1>1, <1>2, <1>3, <1>4, TotalOf DEF e, n

\* One more reference at the distance of entry e.
LEMMA TotalIncrement ==
  ASSUME NEW h \in Seq(Nat), NEW e \in 1 .. Len(h), NEW D
  PROVE  Total([h EXCEPT ![e] = @ + 1], D) = Total(h, D) + IF e - 1 \in D THEN 1 ELSE 0
<1> DEFINE n == Len(h)
           g == [h EXCEPT ![e] = @ + 1]
           one == IF e - 1 \in D THEN 1 ELSE 0
<1>1. n \in Nat /\ e \in Nat /\ e <= n /\ one \in Nat
      /\ g \in Seq(Nat) /\ Len(g) = n /\ \A k \in 1 .. n : h[k] \in Nat /\ g[k] = IF k = e THEN h[k] + 1 ELSE h[k]
  OBVIOUS
<1>2. PICK f : Sums(f, h, D) /\ Total(h, D) = f[n]
  BY TotalIs
<1> DEFINE s == [k \in 0 .. n |-> IF k >= e THEN f[k] + one ELSE f[k]]
<1>3. Sums(s, g, D)
  <2>0. f \in [0 .. n -> Nat] /\ f[0] = 0
        /\ \A k \in 1 .. n : f[k] = f[k - 1] + IF k - 1 \in D THEN h[k] ELSE 0
    BY <1>2 DEF Sums
  <2> HIDE DEF n, g
  <2>1. s \in [0 .. n -> Nat] /\ s[0] = 0
    <3>1. n \in Nat /\ one \in Nat /\ e >= 1 /\ e \in Nat
      BY <1>1
    <3> HIDE DEF one
    <3>2. \A k \in 0 .. n : f[k] \in Nat /\ f[k] + one \in Nat
      BY <2>0, <3>1
    <3>3. 0 \in 0 .. n /\ ~(0 >= e)
      BY <3>1
    <3> QED BY <2>0, <3>2, <3>3
  <2>2. ASSUME NEW k \in 1 .. n PROVE s[k] = s[k - 1] + IF k - 1 \in D THEN g[k] ELSE 0
    <3>1. k \in 0 .. n /\ k - 1 \in 0 .. n
      BY <1>1
    <3>2. /\ s[k] = (IF k >= e THEN f[k] + one ELSE f[k])
          /\ s[k - 1] = (IF k - 1 >= e THEN f[k - 1] + one ELSE f[k - 1])
      BY <3>1
    <3>3. f[k] \in Nat /\ f[k - 1] \in Nat /\ h[k] \in Nat
          /\ f[k] = f[k - 1] + (IF k - 1 \in D THEN h[k] ELSE 0)
          /\ g[k] = IF k = e THEN h[k] + 1 ELSE h[k]
      BY <1>1, <2>0, <3>1
    <3> HIDE DEF s
    <3>0. k \in Nat /\ e \in Nat
      BY <1>1
    <3>4. CASE k = e
      <4>1. ~(k - 1 >= e) /\ k >= e
        BY <3>0, <3>4
      <4>2. s[k] = f[k] + one /\ s[k - 1] = f[k - 1] /\ g[k] = h[k] + 1
        BY <3>2, <3>3, <3>4, <4>1
      <4>3. CASE k - 1 \in D
        <5>1. one = 1
          BY <3>4, <4>3
        <5>2. f[k] = f[k - 1] + h[k] /\ f[k - 1] \in Nat /\ h[k] \in Nat
          BY <3>3, <4>3
        <5>3. (IF k - 1 \in D THEN g[k] ELSE 0) = h[k] + 1
          BY <4>2, <4>3
        <5> HIDE DEF one
        <5>4. s[k] = (f[k - 1] + h[k]) + 1 /\ s[k - 1] = f[k - 1]
          BY <4>2, <5>1, <5>2
        <5>a. \A x, y \in Nat : (x + y) + 1 = x + (y + 1)
          OBVIOUS
        <5>b. (f[k - 1] + h[k]) + 1 = f[k - 1] + (h[k] + 1)
          BY <5>2, <5>a
        <5>5. s[k] = s[k - 1] + (h[k] + 1)
          BY <5>4, <5>b
        <5> QED BY <5>3, <5>5
      <4>4. CASE k - 1 \notin D
        <5>1. one = 0
          BY <3>4, <4>4
        <5> QED BY <3>3, <4>2, <4>4, <5>1
      <4> QED BY <4>3, <4>4
    <3>5. CASE k # e
      <4>1. k >= e <=> k - 1 >= e
        BY <3>0, <3>5
      <4>2. g[k] = h[k]
        BY <3>3, <3>5
      <4>3. one \in Nat
        BY <1>1
      <4> HIDE DEF one
      <4>4. CASE k >= e
        <5>1. s[k] = f[k] + one /\ s[k - 1] = f[k - 1] + one
          BY <3>2, <4>1, <4>4
        <5> QED BY <3>3, <4>2, <4>3, <5>1
      <4>5. CASE ~(k >= e)
        <5>1. s[k] = f[k] /\ s[k - 1] = f[k - 1]
          BY <3>2, <4>1, <4>5
        <5> QED BY <3>3, <4>2, <5>1
      <4> QED BY <4>4, <4>5
    <3> QED BY <3>4, <3>5
  <2> HIDE DEF s
  <2> QED BY <1>1, <2>1, <2>2 DEF Sums
<1>4. s[n] = f[n] + one
  BY <1>1
<1> HIDE DEF s, g, one
<1> QED BY <1>1, <1>2, <1>3, <1>4, TotalOf DEF g, one

\* A counted distance is in the totals it belongs to.
LEMMA TotalCounted ==
  ASSUME NEW p \in Profile, NEW d \in Nat \cup {INFINITE}, NEW D \in SUBSET Nat
  PROVE  Total(Counted(p, d).histogram, D) = Total(p.histogram, D) + IF d \in D THEN 1 ELSE 0
<1>1. p.histogram \in Seq(Nat)
  BY DEF Profile
<1>2. CASE d = INFINITE
  <2>1. Counted(p, d).histogram = p.histogram /\ d \notin D
    BY <1>2 DEF Counted, INFINITE
  <2>2. Total(p.histogram, D) \in Nat
    BY <1>1, TotalType
  <2> QED BY <2>1, <2>2
<1>3. CASE d \in Nat
  <2> DEFINE h == Extended(p.histogram, d + 1)
  <2>1. h \in Seq(Nat) /\ Len(h) >= d + 1
    BY <1>1, <1>3, ExtendedType
  <2>2. Counted(p, d).histogram = [h EXCEPT ![d + 1] = @ + 1]
    BY <1>3 DEF Counted, INFINITE
  <2>3. Total(h, D) = Total(p.histogram, D)
    BY <1>1, <1>3, TotalExtended
  <2> HIDE DEF h
  <2>4. d + 1 \in 1 .. Len(h) /\ (d + 1) - 1 = d
    BY <1>3, <2>1
  <2>5. Total([h EXCEPT ![d + 1] = @ + 1], D) = Total(h, D) + IF (d + 1) - 1 \in D THEN 1 ELSE 0
    BY <2>1, <2>4, TotalIncrement
  <2> QED BY <2>2, <2>3, <2>4, <2>5
<1> QED BY <1>2, <1>3

\* The entries of a merged histogram.
LEMMA MergedIs ==
  ASSUME NEW p \in Profile, NEW q \in Profile
  PROVE  LET a == p.histogram
             b == q.histogram
             m == Merged(p, q).histogram
         IN /\ a \in Seq(Nat) /\ b \in Seq(Nat) /\ m \in Seq(Nat)
            /\ Len(m) = IF Len(b) <= Len(a) THEN Len(a) ELSE Len(b)
            /\ \A k \in 1 .. Len(m) : m[k] = (IF k <= Len(a) THEN a[k] ELSE 0) + (IF k <= Len(b) THEN b[k] ELSE 0)
<1> DEFINE a == p.histogram
           b == q.histogram
           m == Merged(p, q).histogram
           h == Extended(a, Len(b))
<1>1. a \in Seq(Nat) /\ b \in Seq(Nat) /\ Len(b) \in Nat
  BY DEF Profile
<1>2. m \in Seq(Nat)
  BY MergedType DEF Profile
<1>3. m = [d \in DOMAIN h |-> h[d] + IF d <= Len(b) THEN b[d] ELSE 0]
  BY DEF Merged
<1> HIDE DEF a, b, m
<1>4. /\ h \in Seq(Nat) /\ Len(h) = (IF Len(b) <= Len(a) THEN Len(a) ELSE Len(b))
      /\ \A k \in 1 .. Len(h) : h[k] = IF k <= Len(a) THEN a[k] ELSE 0
  BY <1>1, ExtendedIs
<1> HIDE DEF h
<1>5. DOMAIN h = 1 .. Len(h) /\ Len(h) \in Nat
  BY <1>4
<1>6. DOMAIN m = 1 .. Len(h)
  BY <1>3, <1>5
<1>7. Len(m) = Len(h)
  BY <1>2, <1>5, <1>6
<1>8. \A k \in 1 .. Len(m) : m[k] = h[k] + IF k <= Len(b) THEN b[k] ELSE 0
  BY <1>3, <1>5, <1>7
<1> QED BY <1>1, <1>2, <1>4, <1>7, <1>8 DEF a, b, m

\* The totals of a merged profile.
LEMMA TotalMerged ==
  ASSUME NEW p \in Profile, NEW q \in Profile, NEW D
  PROVE  Total(Merged(p, q).histogram, D) = Total(p.histogram, D) + Total(q.histogram, D)
<1> DEFINE a == p.histogram
           b == q.histogram
           m == Merged(p, q).histogram
<1>1. /\ a \in Seq(Nat) /\ b \in Seq(Nat) /\ m \in Seq(Nat)
      /\ Len(m) = (IF Len(b) <= Len(a) THEN Len(a) ELSE Len(b))
      /\ \A k \in 1 .. Len(m) : m[k] = (IF k <= Len(a) THEN a[k] ELSE 0) + (IF k <= Len(b) THEN b[k] ELSE 0)
  BY MergedIs
<1> HIDE DEF a, b, m
<1>2. PICK f : Sums(f, a, D) /\ Total(a, D) = f[Len(a)]
  BY <1>1, TotalIs
<1>3. PICK g : Sums(g, b, D) /\ Total(b, D) = g[Len(b)]
  BY <1>1, TotalIs
<1> DEFINE A(k) == IF k <= Len(a) THEN f[k] ELSE f[Len(a)]
           B(k) == IF k <= Len(b) THEN g[k] ELSE g[Len(b)]
           s == [k \in 0 .. Len(m) |-> A(k) + B(k)]
<1>4. Len(a) \in Nat /\ Len(b) \in Nat /\ Len(m) \in Nat /\ Len(a) <= Len(m) /\ Len(b) <= Len(m)
  BY <1>1
<1>5. /\ \A k \in 0 .. Len(m) : A(k) \in Nat /\ B(k) \in Nat
      /\ A(0) = 0 /\ B(0) = 0
  <2>1. f \in [0 .. Len(a) -> Nat] /\ f[0] = 0 /\ g \in [0 .. Len(b) -> Nat] /\ g[0] = 0
    BY <1>2, <1>3 DEF Sums
  <2>2. \A k \in 0 .. Len(m) : A(k) \in Nat
    BY <1>4, <2>1
  <2>3. \A k \in 0 .. Len(m) : B(k) \in Nat
    BY <1>4, <2>1
  <2>4. A(0) = 0 /\ B(0) = 0
    BY <1>4, <2>1
  <2> QED BY <2>2, <2>3, <2>4
<1>6. ASSUME NEW k \in 1 .. Len(m)
      PROVE  /\ A(k) = A(k - 1) + IF k - 1 \in D THEN (IF k <= Len(a) THEN a[k] ELSE 0) ELSE 0
             /\ B(k) = B(k - 1) + IF k - 1 \in D THEN (IF k <= Len(b) THEN b[k] ELSE 0) ELSE 0
  <2>1. k \in Nat /\ k - 1 \in Nat /\ A(k - 1) \in Nat /\ B(k - 1) \in Nat
    BY <1>4, <1>5
  <2>2. A(k) = A(k - 1) + IF k - 1 \in D THEN (IF k <= Len(a) THEN a[k] ELSE 0) ELSE 0
    <3>1. CASE k <= Len(a)
      <4>1. k \in 1 .. Len(a) /\ k - 1 <= Len(a)
        BY <1>4, <3>1
      <4> QED BY <1>2, <3>1, <4>1 DEF Sums
    <3>2. CASE ~(k <= Len(a))
      <4>1. k - 1 <= Len(a) => k - 1 = Len(a)
        BY <1>4, <3>2
      <4>2. A(k) = A(k - 1)
        BY <3>2, <4>1
      <4> HIDE DEF A
      <4> QED BY <2>1, <3>2, <4>2
    <3> QED BY <3>1, <3>2
  <2>3. B(k) = B(k - 1) + IF k - 1 \in D THEN (IF k <= Len(b) THEN b[k] ELSE 0) ELSE 0
    <3>1. CASE k <= Len(b)
      <4>1. k \in 1 .. Len(b) /\ k - 1 <= Len(b)
        BY <1>4, <3>1
      <4> QED BY <1>3, <3>1, <4>1 DEF Sums
    <3>2. CASE ~(k <= Len(b))
      <4>1. k - 1 <= Len(b) => k - 1 = Len(b)
        BY <1>4, <3>2
      <4>2. B(k) = B(k - 1)
        BY <3>2, <4>1
      <4> HIDE DEF B
      <4> QED BY <2>1, <3>2, <4>2
    <3> QED BY <3>1, <3>2
  <2> QED BY <2>2, <2>3
<1>7. A(Len(m)) = f[Len(a)] /\ B(Len(m)) = g[Len(b)]
  BY <1>4
<1>8. \A k \in 1 .. Len(m) : /\ k <= Len(a) => a[k] \in Nat
                             /\ k <= Len(b) => b[k] \in Nat
  BY <1>1, <1>4
<1> HIDE DEF A, B
<1>9. Sums(s, m, D)
  <2>1. s \in [0 .. Len(m) -> Nat] /\ s[0] = 0
    BY <1>4, <1>5
  <2>2. ASSUME NEW k \in 1 .. Len(m) PROVE s[k] = s[k - 1] + IF k - 1 \in D THEN m[k] ELSE 0
    <3>1. k \in 0 .. Len(m) /\ k - 1 \in 0 .. Len(m)
      BY <1>4
    <3>2. s[k] = A(k) + B(k) /\ s[k - 1] = A(k - 1) + B(k - 1)
          /\ A(k - 1) \in Nat /\ B(k - 1) \in Nat
      BY <1>5, <3>1
    <3> DEFINE x == IF k <= Len(a) THEN a[k] ELSE 0
               y == IF k <= Len(b) THEN b[k] ELSE 0
    <3>3. x \in Nat /\ y \in Nat
      BY <1>8
    <3>4. m[k] = x + y
      BY <1>1
    <3>5. A(k) = A(k - 1) + (IF k - 1 \in D THEN x ELSE 0) /\ B(k) = B(k - 1) + (IF k - 1 \in D THEN y ELSE 0)
      BY <1>6
    <3> HIDE DEF s, x, y
    <3> QED BY <3>2, <3>3, <3>4, <3>5
  <2> HIDE DEF s
  <2> QED BY <2>1, <2>2 DEF Sums
<1>10. s[Len(m)] = A(Len(m)) + B(Len(m))
  BY <1>4
<1> HIDE DEF s
<1> QED BY <1>1, <1>2, <1>3, <1>7, <1>9, <1>10, TotalOf DEF a, b, m

-----------------------------------------------------------------------------
(* A profile as a tally of distances.                                      *)

\* The references of M whose distance is in D.
Among(M, dist, D) == {n \in M : dist[n] \in D}

\* Profile p counts the references of M, each at its distance.
Tallies(p, M, dist) ==
  /\ IsFiniteSet(M)
  /\ \A n \in M : dist[n] \in Nat \cup {INFINITE}
  /\ p.references = Cardinality(M)
  /\ p.infinite = Cardinality(Among(M, dist, {INFINITE}))
  /\ \A D \in SUBSET Nat : Total(p.histogram, D) = Cardinality(Among(M, dist, D))
  /\ p.histogram # <<>> => \E n \in M : dist[n] = Len(p.histogram) - 1

LEMMA AmongFinite ==
  ASSUME NEW M, IsFiniteSet(M), NEW dist, NEW D
  PROVE  IsFiniteSet(Among(M, dist, D)) /\ Cardinality(Among(M, dist, D)) \in Nat
<1>1. Among(M, dist, D) \in SUBSET M
  BY DEF Among
<1>2. IsFiniteSet(Among(M, dist, D))
  BY <1>1, FS_Subset
<1> QED BY <1>2, FS_CardinalityType

LEMMA AmongAdded ==
  ASSUME NEW M, IsFiniteSet(M), NEW dist, NEW D, NEW n, n \notin M
  PROVE  Cardinality(Among(M \cup {n}, dist, D)) = Cardinality(Among(M, dist, D)) + IF dist[n] \in D THEN 1 ELSE 0
<1> DEFINE A == Among(M, dist, D)
<1>1. IsFiniteSet(A) /\ Cardinality(A) \in Nat
  BY AmongFinite
<1>2. Among(M \cup {n}, dist, D) = (IF dist[n] \in D THEN A \cup {n} ELSE A) /\ n \notin A
  BY DEF Among
<1> HIDE DEF A
<1>3. Cardinality(A \cup {n}) = Cardinality(A) + 1
  BY <1>1, <1>2, FS_AddElement
<1> QED BY <1>1, <1>2, <1>3 DEF A

\* Two finite sets apart.
LEMMA ApartUnion ==
  ASSUME NEW S, NEW T, IsFiniteSet(S), IsFiniteSet(T), S \cap T = {}
  PROVE  /\ IsFiniteSet(S \cup T) /\ Cardinality(S \cup T) = Cardinality(S) + Cardinality(T)
         /\ Cardinality(S) \in Nat /\ Cardinality(T) \in Nat
<1>1. IsFiniteSet(S \cup T) /\ Cardinality(S \cup T) = Cardinality(S) + Cardinality(T) - Cardinality(S \cap T)
  BY FS_Union
<1>2. Cardinality(S \cap T) = 0
  BY FS_EmptySet
<1>3. Cardinality(S) \in Nat /\ Cardinality(T) \in Nat
  BY FS_CardinalityType
<1> QED BY <1>1, <1>2, <1>3

LEMMA AmongUnion ==
  ASSUME NEW M, IsFiniteSet(M), NEW L, IsFiniteSet(L), M \cap L = {}, NEW dist, NEW D
  PROVE  Cardinality(Among(M \cup L, dist, D)) = Cardinality(Among(M, dist, D)) + Cardinality(Among(L, dist, D))
<1>1. IsFiniteSet(Among(M, dist, D)) /\ IsFiniteSet(Among(L, dist, D))
  BY AmongFinite
<1>2. Among(M \cup L, dist, D) = Among(M, dist, D) \cup Among(L, dist, D)
  BY DEF Among
<1>3. Among(M, dist, D) \cap Among(L, dist, D) = {}
  BY DEF Among
<1> QED BY <1>1, <1>2, <1>3, ApartUnion

LEMMA TallyEmpty ==
  ASSUME NEW dist
  PROVE  Tallies(EmptyProfile, {}, dist)
<1>1. \A D : Among({}, dist, D) = {}
  BY DEF Among
<1>2. IsFiniteSet({}) /\ Cardinality({}) = 0
  BY FS_EmptySet
<1>3. \A D : Total(<<>>, D) = 0
  <2> SUFFICES ASSUME NEW D PROVE Total(<<>>, D) = 0
    OBVIOUS
  <2>1. << >> \in Seq(Nat) /\ Len(<< >>) = 0
    OBVIOUS
  <2>2. PICK f : Sums(f, << >>, D) /\ Total(<< >>, D) = f[Len(<< >>)]
    BY <2>1, TotalIs
  <2> QED BY <2>1, <2>2 DEF Sums
<1>4. EmptyProfile.references = 0 /\ EmptyProfile.infinite = 0 /\ EmptyProfile.histogram = <<>>
  BY DEF EmptyProfile
<1> QED BY <1>1, <1>2, <1>3, <1>4 DEF Tallies

\* stack_distance_profile counts one more reference.
LEMMA TallyCounted ==
  ASSUME NEW p \in Profile, NEW M, NEW dist, Tallies(p, M, dist),
         NEW n, n \notin M, dist[n] \in Nat \cup {INFINITE}
  PROVE  Tallies(Counted(p, dist[n]), M \cup {n}, dist)
<1> DEFINE d == dist[n]
           q == Counted(p, d)
<1>0. d \in Nat \cup {INFINITE} /\ p.references \in Nat /\ p.infinite \in Nat /\ p.histogram \in Seq(Nat)
  BY DEF Profile
<1>1. IsFiniteSet(M) /\ IsFiniteSet(M \cup {n}) /\ Cardinality(M \cup {n}) = Cardinality(M) + 1
  BY FS_AddElement DEF Tallies
<1>2. \A k \in M \cup {n} : dist[k] \in Nat \cup {INFINITE}
  BY DEF Tallies
<1>3. q.references = p.references + 1 /\ q.infinite = (IF d = INFINITE THEN p.infinite + 1 ELSE p.infinite)
      /\ q.histogram = (IF d = INFINITE THEN p.histogram ELSE [Extended(p.histogram, d + 1) EXCEPT ![d + 1] = @ + 1])
  BY DEF Counted
<1>4. \A D : Cardinality(Among(M \cup {n}, dist, D)) = Cardinality(Among(M, dist, D)) + IF d \in D THEN 1 ELSE 0
  BY <1>1, AmongAdded
<1>5. q.references = Cardinality(M \cup {n})
  BY <1>1, <1>3 DEF Tallies
<1>6. q.infinite = Cardinality(Among(M \cup {n}, dist, {INFINITE}))
  <2>1. Cardinality(Among(M \cup {n}, dist, {INFINITE})) = p.infinite + IF d \in {INFINITE} THEN 1 ELSE 0
    BY <1>4 DEF Tallies
  <2> HIDE DEF q, d
  <2> QED BY <1>0, <1>3, <2>1
<1>7. ASSUME NEW D \in SUBSET Nat PROVE Total(q.histogram, D) = Cardinality(Among(M \cup {n}, dist, D))
  <2>1. Total(p.histogram, D) = Cardinality(Among(M, dist, D))
    BY DEF Tallies
  <2>2. Total(q.histogram, D) = Total(p.histogram, D) + IF d \in D THEN 1 ELSE 0
    <3> HIDE DEF d
    <3>1. Total(Counted(p, d).histogram, D) = Total(p.histogram, D) + IF d \in D THEN 1 ELSE 0
      BY <1>0, TotalCounted
    <3> QED BY <3>1
  <2> QED BY <1>4, <2>1, <2>2
<1>8. ASSUME q.histogram # <<>> PROVE \E k \in M \cup {n} : dist[k] = Len(q.histogram) - 1
  <2>1. CASE d = INFINITE
    <3>1. q.histogram = p.histogram
      BY <1>3, <2>1
    <3> HIDE DEF q
    <3> QED BY <1>8, <3>1 DEF Tallies
  <2>2. CASE d # INFINITE
    <3> DEFINE h == Extended(p.histogram, d + 1)
    <3>1. d \in Nat
      BY <1>0, <2>2
    <3>2. h \in Seq(Nat) /\ Len(h) = IF d + 1 <= Len(p.histogram) THEN Len(p.histogram) ELSE d + 1
      BY <1>0, <3>1, ExtendedIs
    <3>3. q.histogram = [h EXCEPT ![d + 1] = @ + 1]
      BY <1>3, <2>2
    <3> HIDE DEF h
    <3>4. Len(q.histogram) = Len(h)
      <4> HIDE DEF d, q
      <4> QED BY <3>2, <3>3
    <3>5. CASE d + 1 <= Len(p.histogram)
      <4>1. p.histogram # <<>>
        <5> HIDE DEF d
        <5> QED BY <1>0, <3>1, <3>5
      <4>2. PICK k \in M : dist[k] = Len(p.histogram) - 1
        BY <4>1 DEF Tallies
      <4> QED BY <3>2, <3>4, <3>5, <4>2
    <3>6. CASE ~(d + 1 <= Len(p.histogram))
      <4>1. Len(q.histogram) - 1 = d
        BY <3>1, <3>2, <3>4, <3>6
      <4> QED BY <4>1
    <3> QED BY <3>5, <3>6
  <2> QED BY <2>1, <2>2
<1> HIDE DEF q
<1> QED BY <1>1, <1>2, <1>5, <1>6, <1>7, <1>8 DEF Tallies, q

\* per_set_profile adds up the profiles of different references.
LEMMA TallyMerged ==
  ASSUME NEW p \in Profile, NEW q \in Profile, NEW M, NEW L, NEW dist,
         Tallies(p, M, dist), Tallies(q, L, dist), M \cap L = {}
  PROVE  Tallies(Merged(p, q), M \cup L, dist)
<1> DEFINE m == Merged(p, q)
<1>0. /\ p.references \in Nat /\ p.infinite \in Nat /\ p.histogram \in Seq(Nat)
      /\ q.references \in Nat /\ q.infinite \in Nat /\ q.histogram \in Seq(Nat)
  BY DEF Profile
<1>1. IsFiniteSet(M) /\ IsFiniteSet(L) /\ IsFiniteSet(M \cup L)
      /\ Cardinality(M \cup L) = Cardinality(M) + Cardinality(L)
  <2>1. IsFiniteSet(M) /\ IsFiniteSet(L)
    BY DEF Tallies
  <2> QED BY <2>1, ApartUnion
<1>2. \A k \in M \cup L : dist[k] \in Nat \cup {INFINITE}
  BY DEF Tallies
<1>3. m.references = p.references + q.references /\ m.infinite = p.infinite + q.infinite
  BY DEF Merged
<1>4. \A D : Cardinality(Among(M \cup L, dist, D)) = Cardinality(Among(M, dist, D)) + Cardinality(Among(L, dist, D))
  BY <1>1, AmongUnion
<1>5. m.references = Cardinality(M \cup L) /\ m.infinite = Cardinality(Among(M \cup L, dist, {INFINITE}))
  BY <1>1, <1>3, <1>4 DEF Tallies
<1>6. ASSUME NEW D \in SUBSET Nat PROVE Total(m.histogram, D) = Cardinality(Among(M \cup L, dist, D))
  <2>1. Total(p.histogram, D) = Cardinality(Among(M, dist, D)) /\ Total(q.histogram, D) = Cardinality(Among(L, dist, D))
    BY DEF Tallies
  <2>2. Total(m.histogram, D) = Total(p.histogram, D) + Total(q.histogram, D)
    BY TotalMerged
  <2> QED BY <1>4, <2>1, <2>2
<1>7. ASSUME m.histogram # <<>> PROVE \E k \in M \cup L : dist[k] = Len(m.histogram) - 1
  <2>1. m.histogram \in Seq(Nat)
        /\ Len(m.histogram) = IF Len(q.histogram) <= Len(p.histogram) THEN Len(p.histogram) ELSE Len(q.histogram)
    BY MergedIs
  <2> HIDE DEF m
  <2>2. CASE Len(q.histogram) <= Len(p.histogram)
    <3>1. Len(m.histogram) = Len(p.histogram)
      BY <2>1, <2>2
    <3>2. p.histogram # <<>>
      BY <1>0, <1>7, <2>1, <3>1
    <3>3. \E k \in M : dist[k] = Len(p.histogram) - 1
      BY <3>2 DEF Tallies
    <3> QED BY <3>1, <3>3
  <2>3. CASE ~(Len(q.histogram) <= Len(p.histogram))
    <3>1. Len(m.histogram) = Len(q.histogram)
      BY <2>1, <2>3
    <3>2. q.histogram # <<>>
      BY <1>0, <1>7, <2>1, <3>1
    <3>3. \E k \in L : dist[k] = Len(q.histogram) - 1
      BY <3>2 DEF Tallies
    <3> QED BY <3>1, <3>3
  <2> QED BY <2>2, <2>3
<1> HIDE DEF m
<1> QED BY <1>1, <1>2, <1>5, <1>6, <1>7 DEF Tallies, m

-----------------------------------------------------------------------------
(* What an LRU cache holds.                                                *)

\* Removing an element of a finite set, and going over to a subset.
LEMMA Smaller ==
  ASSUME NEW S, IsFiniteSet(S), NEW T, T \subseteq S
  PROVE  /\ IsFiniteSet(T) /\ Cardinality(T) \in Nat /\ Cardinality(S) \in Nat
         /\ Cardinality(T) <= Cardinality(S)
         /\ \A x \in S : x \notin T => Cardinality(T) + 1 <= Cardinality(S)
<1>1. T \in SUBSET S
  OBVIOUS
<1>2. IsFiniteSet(T) /\ Cardinality(T) <= Cardinality(S) /\ (Cardinality(S) = Cardinality(T) => S = T)
  BY <1>1, FS_Subset
<1>3. Cardinality(T) \in Nat /\ Cardinality(S) \in Nat
  BY <1>2, FS_CardinalityType
<1>4. ASSUME NEW x \in S, x \notin T PROVE Cardinality(T) + 1 <= Cardinality(S)
  <2>1. S # T
    BY <1>4
  <2>2. Cardinality(T) # Cardinality(S)
    BY <1>2, <2>1
  <2> QED BY <1>2, <1>3, <2>2
<1> QED BY <1>2, <1>3, <1>4

\* The blocks of C used later than b.
Ahead(C, use, b) == {c \in C : use[c] > use[b]}

\* C are the blocks of one set seen so far, `use' says when each was used last, x is the
\* one used now, and old[b] are those used after b before x was.
UsedLast(C, use, x, old) ==
  /\ IsFiniteSet(C) /\ use \in [C -> Nat] /\ x \in C
  /\ \A b, c \in C : use[b] = use[c] => b = c
  /\ \A b \in C \ {x} : use[b] < use[x]
  /\ old \in [C \ {x} -> SUBSET C]
  /\ \A b \in C \ {x} : old[b] \subseteq Ahead(C, use, b) /\ Ahead(C, use, b) \subseteq old[b] \cup {x}
  /\ \A b, c \in C \ {x} : use[c] > use[b] => old[c] \subseteq old[b]

\* If the set holds the blocks with less than w others after them, then, when x has
\* joined and the least recent has gone if there are too many, it still does.
LEMMA LeastRecentGoes ==
  ASSUME NEW C, NEW use, NEW x, NEW old, UsedLast(C, use, x, old), NEW w \in Nat
  PROVE  LET mates == {x} \cup {b \in C \ {x} : Cardinality(old[b]) < w}
             kept == {b \in C : Cardinality(Ahead(C, use, b)) < w}
         IN /\ Cardinality(mates) <= w => kept = mates
            /\ \A v \in mates : (Cardinality(mates) > w /\ \A c \in mates : use[v] <= use[c]) => kept = mates \ {v}
<1> DEFINE A(b) == Ahead(C, use, b)
           M == {x} \cup {b \in C \ {x} : Cardinality(old[b]) < w}
           K == {b \in C : Cardinality(A(b)) < w}
<1>0. /\ IsFiniteSet(C) /\ use \in [C -> Nat] /\ x \in C
      /\ \A b, c \in C : use[b] = use[c] => b = c
      /\ \A b \in C \ {x} : use[b] < use[x]
      /\ old \in [C \ {x} -> SUBSET C]
      /\ \A b \in C \ {x} : old[b] \subseteq A(b) /\ A(b) \subseteq old[b] \cup {x}
      /\ \A b, c \in C \ {x} : use[c] > use[b] => old[c] \subseteq old[b]
  BY DEF UsedLast
<1> USE <1>0
<1>1. M \subseteq C /\ x \in M /\ IsFiniteSet(M) /\ Cardinality(M) \in Nat
  <2>1. M \subseteq C /\ x \in M
    OBVIOUS
  <2> HIDE DEF M
  <2> QED BY <2>1, Smaller
<1>2. \A b \in C : A(b) \subseteq C /\ IsFiniteSet(A(b)) /\ Cardinality(A(b)) \in Nat /\ b \notin A(b)
  <2> SUFFICES ASSUME NEW b \in C PROVE A(b) \subseteq C /\ IsFiniteSet(A(b)) /\ Cardinality(A(b)) \in Nat /\ b \notin A(b)
    OBVIOUS
  <2>1. A(b) \subseteq C /\ b \notin A(b)
    BY DEF Ahead
  <2> HIDE DEF A
  <2> QED BY <2>1, Smaller
<1>3. \A b \in C \ {x} : IsFiniteSet(old[b]) /\ Cardinality(old[b]) \in Nat /\ Cardinality(old[b]) <= Cardinality(A(b))
  <2> SUFFICES ASSUME NEW b \in C \ {x}
               PROVE  IsFiniteSet(old[b]) /\ Cardinality(old[b]) \in Nat /\ Cardinality(old[b]) <= Cardinality(A(b))
    OBVIOUS
  <2>1. old[b] \subseteq A(b) /\ IsFiniteSet(A(b))
    BY <1>2
  <2> HIDE DEF A
  <2> QED BY <2>1, Smaller
<1>4. A(x) = {} /\ Cardinality(A(x)) = 0
  <2>1. ASSUME NEW c \in C PROVE ~(use[c] > use[x])
    <3>1. CASE c = x
      BY <3>1
    <3>2. CASE c # x
      BY <3>2
    <3> QED BY <3>1, <3>2
  <2>2. A(x) = {}
    BY <2>1 DEF Ahead
  <2> QED BY <2>2, FS_EmptySet
<1>5. \A b \in M \ {x} : b \in C \ {x} /\ Cardinality(old[b]) < w /\ A(b) \subseteq M \ {b}
  <2> SUFFICES ASSUME NEW b \in M \ {x} PROVE b \in C \ {x} /\ Cardinality(old[b]) < w /\ A(b) \subseteq M \ {b}
    OBVIOUS
  <2>1. b \in C \ {x} /\ Cardinality(old[b]) < w
    OBVIOUS
  <2>2. ASSUME NEW c \in A(b), c # x PROVE c \in M
    <3>1. c \in C \ {x} /\ use[c] > use[b]
      BY <2>2 DEF Ahead
    <3>2. old[c] \subseteq old[b]
      BY <2>1, <3>1
    <3>3. Cardinality(old[c]) <= Cardinality(old[b]) /\ Cardinality(old[c]) \in Nat
      <4>1. IsFiniteSet(old[b])
        BY <1>3, <2>1
      <4> QED BY <3>2, <4>1, Smaller
    <3>4. Cardinality(old[b]) \in Nat
      BY <1>3, <2>1
    <3>5. Cardinality(old[c]) < w
      <4> HIDE DEF M
      <4> QED BY <2>1, <3>3, <3>4
    <3> QED BY <3>1, <3>5
  <2>3. b \notin A(b) /\ x \in M
    BY <1>2, <2>1
  <2> HIDE DEF A, M
  <2> QED BY <2>1, <2>2, <2>3
<1>6. \A b \in C : b \notin M => b \notin K
  <2> SUFFICES ASSUME NEW b \in C, b \notin M PROVE ~(Cardinality(A(b)) < w)
    OBVIOUS
  <2>1. b \in C \ {x} /\ ~(Cardinality(old[b]) < w)
    OBVIOUS
  <2>2. Cardinality(old[b]) \in Nat /\ Cardinality(A(b)) \in Nat /\ Cardinality(old[b]) <= Cardinality(A(b))
    BY <1>2, <1>3, <2>1
  <2> HIDE DEF A, M
  <2> QED BY <2>1, <2>2
<1>7. \A b \in M \ {x} : Cardinality(A(b)) + 1 <= Cardinality(M)
  <2> SUFFICES ASSUME NEW b \in M \ {x} PROVE Cardinality(A(b)) + 1 <= Cardinality(M)
    OBVIOUS
  <2>1. A(b) \subseteq M /\ b \in M /\ b \notin A(b)
    BY <1>5
  <2> HIDE DEF A, M
  <2> QED BY <1>1, <2>1, Smaller
<1>8. ASSUME Cardinality(M) <= w PROVE K = M
  <2>1. ASSUME NEW b \in M PROVE Cardinality(A(b)) < w
    <3>1. CASE b = x
      <4>1. Cardinality(M) # 0
        BY <1>1, FS_EmptySet
      <4>2. w > 0
        <5> HIDE DEF M
        <5> QED BY <1>1, <1>8, <4>1
      <4>3. Cardinality(A(b)) = 0
        BY <1>4, <3>1
      <4> HIDE DEF A, M
      <4> QED BY <4>2, <4>3
    <3>2. CASE b # x
      <4>1. Cardinality(A(b)) + 1 <= Cardinality(M) /\ Cardinality(A(b)) \in Nat
        BY <1>1, <1>2, <1>7, <3>2
      <4> HIDE DEF A, M
      <4> QED BY <1>1, <1>8, <4>1
    <3> QED BY <3>1, <3>2
  <2>2. \A b \in M : b \in K
    BY <1>1, <2>1
  <2>3. K \subseteq C
    OBVIOUS
  <2> HIDE DEF K, M
  <2> QED BY <1>1, <1>6, <2>2, <2>3
<1>9. ASSUME NEW v \in M, Cardinality(M) > w, \A c \in M : use[v] <= use[c] PROVE K = M \ {v}
  <2>1. CASE w = 0
    <3>1. \A b \in C \ {x} : ~(Cardinality(old[b]) < w)
      BY <1>3, <2>1
    <3>2. M = {x}
      BY <3>1
    <3>3. \A b \in C : ~(Cardinality(A(b)) < w)
      BY <1>2, <2>1
    <3>4. K = {}
      BY <3>3
    <3> HIDE DEF K, M
    <3> QED BY <3>2, <3>4
  <2>2. CASE w # 0
    <3>1. v # x
      <4> SUFFICES ASSUME v = x PROVE FALSE
        OBVIOUS
      <4>1. \A b \in M : b = x
        <5> SUFFICES ASSUME NEW b \in M, b # x PROVE FALSE
          OBVIOUS
        <5>1. use[b] < use[x] /\ use[v] <= use[b] /\ use[b] \in Nat /\ use[x] \in Nat
          BY <1>1, <1>9
        <5> QED BY <5>1
      <4>2. M = {x}
        BY <4>1
      <4>3. Cardinality(M) = 1
        BY <4>2, FS_Singleton
      <4> HIDE DEF M
      <4> QED BY <1>9, <2>2, <4>3
    <3>2. v \in C \ {x} /\ Cardinality(old[v]) < w
      BY <1>5, <3>1
    <3>3. A(v) = M \ {v}
      <4>1. ASSUME NEW c \in M \ {v} PROVE c \in A(v)
        <5>1. c \in C /\ v \in C /\ use[v] <= use[c] /\ use[v] # use[c]
          BY <1>1, <1>9
        <5>2. use[v] \in Nat /\ use[c] \in Nat
          BY <5>1
        <5>3. use[c] > use[v]
          BY <5>1, <5>2
        <5> QED BY <5>1, <5>3 DEF Ahead
      <4>2. A(v) \subseteq M \ {v}
        BY <1>5, <3>1
      <4> HIDE DEF A, M
      <4> QED BY <4>1, <4>2
    <3>4. Cardinality(A(v)) = Cardinality(M) - 1
      <4> HIDE DEF A, M
      <4>1. Cardinality(M \ {v}) = Cardinality(M) - 1
        BY <1>1, FS_RemoveElement
      <4> QED BY <3>3, <4>1
    <3>5. Cardinality(A(v)) = w
      <4>1. A(v) \subseteq old[v] \cup {x}
        BY <3>2
      <4>2. IsFiniteSet(old[v]) /\ Cardinality(old[v]) \in Nat
        BY <1>3, <3>2
      <4> HIDE DEF A, M
      <4>3. IsFiniteSet(old[v] \cup {x}) /\ Cardinality(old[v] \cup {x}) <= Cardinality(old[v]) + 1
        <5>1. /\ IsFiniteSet(old[v] \cup {x})
              /\ Cardinality(old[v] \cup {x}) = IF x \in old[v] THEN Cardinality(old[v]) ELSE Cardinality(old[v]) + 1
          BY <4>2, FS_AddElement
        <5> QED BY <4>2, <5>1
      <4>4. Cardinality(A(v)) <= Cardinality(old[v] \cup {x}) /\ Cardinality(A(v)) \in Nat
            /\ Cardinality(old[v] \cup {x}) \in Nat
        BY <4>1, <4>3, Smaller
      <4> QED BY <1>1, <1>9, <3>2, <3>4, <4>2, <4>3, <4>4
    <3>6. ASSUME NEW b \in M \ {v} PROVE Cardinality(A(b)) < w
      <4>1. CASE b = x
        <5>1. Cardinality(A(b)) = 0
          BY <1>4, <4>1
        <5> HIDE DEF A, M
        <5> QED BY <2>2, <5>1
      <4>2. CASE b # x
        <5>1. v \notin A(b)
          <6>1. use[v] <= use[b] /\ use[v] \in Nat /\ use[b] \in Nat
            BY <1>1, <1>9
          <6> QED BY <6>1 DEF Ahead
        <5>2. b \in A(v) /\ b \notin A(b) /\ A(b) \subseteq A(v)
          BY <1>5, <3>3, <4>2, <5>1
        <5>3. v \in C /\ IsFiniteSet(A(v)) /\ Cardinality(A(v)) \in Nat
          BY <1>2, <3>2
        <5> HIDE DEF A, M
        <5>4. Cardinality(A(b)) + 1 <= Cardinality(A(v)) /\ Cardinality(A(b)) \in Nat
          BY <5>2, <5>3, Smaller
        <5> QED BY <3>5, <5>4
      <4> QED BY <4>1, <4>2
    <3>7. \A b \in M \ {v} : b \in K
      BY <1>1, <3>6
    <3>8. v \notin K
      <4> HIDE DEF A
      <4> QED BY <3>5
    <3>9. K \subseteq C
      OBVIOUS
    <3> HIDE DEF K, M
    <3> QED BY <1>1, <1>6, <3>7, <3>8, <3>9
  <2> QED BY <2>1, <2>2
<1> QED BY <1>8, <1>9

-----------------------------------------------------------------------------
(* The latest references of a stream s to its blocks.                      *)

\* The blocks of the first n references.
SeenBy(s, n) == {s[k] : k \in 1 .. n}

\* LatestUse, of any stream.
LatestOf(s, n, b) == CHOOSE m \in 1 .. n : s[m] = b /\ \A k \in m + 1 .. n : s[k] # b

\* The blocks of b's set used after b, of the first n references.
Since(s, N, n, b) == {c \in SeenBy(s, n) : c % N = b % N /\ LatestOf(s, n, c) > LatestOf(s, n, b)}

\* The blocks with less than w others of their set used after them.
Newest(s, N, w, n) == {b \in SeenBy(s, n) : Cardinality(Since(s, N, n, b)) < w}

\* The distance of every reference, its set being the blocks equal to it modulo N.
Distances(s, N) ==
  [n \in 1 .. Len(s) |-> IF s[n] \in SeenBy(s, n - 1) THEN Cardinality(Since(s, N, n - 1, s[n])) ELSE INFINITE]

\* Reference m is the latest to b.
IsLatest(s, n, m, b) == m \in 1 .. n /\ s[m] = b /\ \A k \in m + 1 .. n : s[k] # b

LEMMA LatestOfIs ==
  ASSUME NEW s, NEW n \in Nat, NEW b \in SeenBy(s, n)
  PROVE  /\ LatestOf(s, n, b) \in 1 .. n
         /\ s[LatestOf(s, n, b)] = b
         /\ \A k \in LatestOf(s, n, b) + 1 .. n : s[k] # b
<1> DEFINE T == {k \in 1 .. n : s[k] = b}
           P(m) == s[m] = b /\ \A k \in m + 1 .. n : s[k] # b
<1>1. T \in SUBSET Nat /\ T # {} /\ \A k \in T : k <= n
  BY DEF SeenBy
<1>2. PICK m \in T : \A k \in T : m >= k
  <2> HIDE DEF T
  <2>1. \E m \in T : \A k \in T : m >= k
    BY <1>1, LargestOfBounded
  <2> QED BY <2>1
<1>3. m \in 1 .. n /\ P(m)
  <2>1. ASSUME NEW k \in m + 1 .. n PROVE s[k] # b
    <3>1. k \in 1 .. n /\ ~(m >= k)
      OBVIOUS
    <3> QED BY <1>2, <3>1
  <2> QED BY <2>1
<1> HIDE DEF P, T
<1>4. \E k \in 1 .. n : P(k)
  BY <1>3
<1> DEFINE l == CHOOSE k \in 1 .. n : P(k)
<1>5. l \in 1 .. n /\ P(l)
  BY <1>4
<1>6. LatestOf(s, n, b) = l
  BY DEF LatestOf, P
<1> HIDE DEF l
<1> QED BY <1>5, <1>6 DEF P

LEMMA LatestOfUnique ==
  ASSUME NEW s, NEW n \in Nat, NEW m, NEW b, IsLatest(s, n, m, b)
  PROVE  LatestOf(s, n, b) = m /\ b \in SeenBy(s, n)
<1>0. m \in 1 .. n /\ s[m] = b /\ \A k \in m + 1 .. n : s[k] # b
  BY DEF IsLatest
<1>1. b \in SeenBy(s, n)
  BY <1>0 DEF SeenBy
<1> DEFINE l == LatestOf(s, n, b)
<1>2. l \in 1 .. n /\ s[l] = b /\ \A k \in l + 1 .. n : s[k] # b
  BY <1>1, LatestOfIs
<1> HIDE DEF l
<1>3. l = m
  <2>1. ~(l > m)
    BY <1>0, <1>2
  <2>2. ~(m > l)
    BY <1>0, <1>2
  <2> QED BY <1>0, <1>2, <2>1, <2>2
<1> QED BY <1>1, <1>3 DEF l

\* Different blocks were used last at different references.
LEMMA LatestOfDiffers ==
  ASSUME NEW s, NEW n \in Nat, NEW b \in SeenBy(s, n), NEW c \in SeenBy(s, n), LatestOf(s, n, b) = LatestOf(s, n, c)
  PROVE  b = c
<1>1. s[LatestOf(s, n, b)] = b /\ s[LatestOf(s, n, c)] = c
  BY LatestOfIs
<1> QED BY <1>1

LEMMA LatestOfNext ==
  ASSUME NEW s, NEW n \in Nat
  PROVE  /\ SeenBy(s, n + 1) = SeenBy(s, n) \cup {s[n + 1]}
         /\ LatestOf(s, n + 1, s[n + 1]) = n + 1
         /\ \A b \in SeenBy(s, n) : b # s[n + 1] => LatestOf(s, n + 1, b) = LatestOf(s, n, b)
<1>1. 1 .. n + 1 = (1 .. n) \cup {n + 1} /\ n + 1 \in Nat
  OBVIOUS
<1>2. SeenBy(s, n + 1) = SeenBy(s, n) \cup {s[n + 1]}
  BY <1>1 DEF SeenBy
<1>3. LatestOf(s, n + 1, s[n + 1]) = n + 1
  <2> DEFINE p == n + 1
             x == s[p]
  <2>1. p \in Nat /\ p \in 1 .. p /\ s[p] = x /\ \A k \in p + 1 .. p : s[k] # x
    OBVIOUS
  <2> HIDE DEF p, x
  <2>2. LatestOf(s, p, x) = p
    <3>1. IsLatest(s, p, p, x)
      BY <2>1 DEF IsLatest
    <3>2. p \in Nat
      BY <2>1
    <3> QED BY <3>1, <3>2, LatestOfUnique
  <2> QED BY <2>2 DEF p, x
<1>4. ASSUME NEW b \in SeenBy(s, n), b # s[n + 1] PROVE LatestOf(s, n + 1, b) = LatestOf(s, n, b)
  <2> DEFINE m == LatestOf(s, n, b)
  <2>1. m \in 1 .. n /\ s[m] = b /\ \A k \in m + 1 .. n : s[k] # b
    BY LatestOfIs
  <2> HIDE DEF m
  <2>2. m \in 1 .. n + 1
    BY <2>1
  <2>3. \A k \in m + 1 .. n + 1 : s[k] # b
    <3> SUFFICES ASSUME NEW k \in m + 1 .. n + 1 PROVE s[k] # b
      OBVIOUS
    <3>1. k \in m + 1 .. n \/ k = n + 1
      BY <2>1
    <3> QED BY <1>4, <2>1, <3>1
  <2>4. LatestOf(s, n + 1, b) = m
    <3> DEFINE p == n + 1
    <3>1. p \in Nat /\ m \in 1 .. p /\ s[m] = b /\ \A k \in m + 1 .. p : s[k] # b
      BY <1>1, <2>1, <2>2, <2>3
    <3> HIDE DEF p
    <3>2. LatestOf(s, p, b) = m
      <4>1. IsLatest(s, p, m, b)
        BY <3>1 DEF IsLatest
      <4>2. p \in Nat
        BY <3>1
      <4> QED BY <4>1, <4>2, LatestOfUnique
    <3> QED BY <3>2 DEF p
  <2> QED BY <2>4 DEF m
<1> QED BY <1>2, <1>3, <1>4

LEMMA SeenFinite ==
  ASSUME NEW s, NEW n \in Nat
  PROVE  IsFiniteSet(SeenBy(s, n))
<1> DEFINE S == SeenBy(s, n)
           f == [k \in 1 .. n |-> s[k]]
<1>1. f \in Surjection(1 .. n, S)
  <2>1. f \in [1 .. n -> S]
    BY DEF SeenBy
  <2>2. \A b \in S : \E k \in 1 .. n : f[k] = b
    BY DEF SeenBy
  <2> HIDE DEF f, S
  <2> QED BY <2>1, <2>2 DEF Surjection
<1>2. IsFiniteSet(1 .. n)
  BY FS_Interval
<1> HIDE DEF f, S
<1>3. IsFiniteSet(S)
  BY <1>1, <1>2, FS_Surjection
<1> QED BY <1>3 DEF S

\* Reference n + 1 joins them; those of its set then; which of some blocks was used first.
Joined(s, N, w, n) == Newest(s, N, w, n) \cup {s[n + 1]}
Mates(s, N, w, n) == {b \in Joined(s, N, w, n) : b % N = s[n + 1] % N}
IsOldest(s, n, v, B) == v \in B /\ \A c \in B : LatestOf(s, n, v) <= LatestOf(s, n, c)

\* The next reference, in the set of its block.
LEMMA NewestNext ==
  ASSUME NEW s \in Seq(Nat), NEW N \in Nat \ {0}, NEW n \in Nat, n < Len(s), NEW w \in Nat
  PROVE  /\ Cardinality(Mates(s, N, w, n)) <= w => Newest(s, N, w, n + 1) = Joined(s, N, w, n)
         /\ \E v : IsOldest(s, n + 1, v, Mates(s, N, w, n))
         /\ \A v : (Cardinality(Mates(s, N, w, n)) > w /\ IsOldest(s, n + 1, v, Mates(s, N, w, n))) =>
                   Newest(s, N, w, n + 1) = Joined(s, N, w, n) \ {v}
<1> DEFINE x == s[n + 1]
           joined == Newest(s, N, w, n) \cup {x}
           mates == {b \in joined : b % N = x % N}
           C == {b \in SeenBy(s, n + 1) : b % N = x % N}
           use == [b \in C |-> LatestOf(s, n + 1, b)]
           old == [b \in C \ {x} |-> Since(s, N, n, b)]
           others == {b \in Newest(s, N, w, n) : b % N # x % N}
<1>1. /\ SeenBy(s, n + 1) = SeenBy(s, n) \cup {x}
      /\ LatestOf(s, n + 1, x) = n + 1
      /\ \A b \in SeenBy(s, n) : b # x => LatestOf(s, n + 1, b) = LatestOf(s, n, b)
  BY LatestOfNext
<1>2. \A b \in SeenBy(s, n) : LatestOf(s, n, b) \in 1 .. n
  BY LatestOfIs
<1> HIDE DEF x
<1>3. IsFiniteSet(C) /\ x \in C
  <2>1. IsFiniteSet(SeenBy(s, n + 1))
    BY SeenFinite
  <2>2. C \subseteq SeenBy(s, n + 1) /\ x \in C
    BY <1>1
  <2> HIDE DEF C
  <2> QED BY <2>1, <2>2, Smaller
<1>4. \A b \in C \ {x} : b \in SeenBy(s, n) /\ use[b] = LatestOf(s, n, b) /\ use[b] \in 1 .. n /\ b \in C
  BY <1>1, <1>2
<1>5. use[x] = n + 1 /\ x \in C
  BY <1>1, <1>3
<1>6. use \in [C -> Nat]
  <2>1. \A b \in C : use[b] \in Nat
    BY <1>4, <1>5
  <2> HIDE DEF C
  <2> QED BY <2>1
<1>7. \A b, c \in C : use[b] = use[c] => b = c
  <2> SUFFICES ASSUME NEW b \in C, NEW c \in C, use[b] = use[c] PROVE b = c
    OBVIOUS
  <2>1. b \in SeenBy(s, n + 1) /\ c \in SeenBy(s, n + 1) /\ LatestOf(s, n + 1, b) = LatestOf(s, n + 1, c) /\ n + 1 \in Nat
    OBVIOUS
  <2> QED BY <2>1, LatestOfDiffers
<1>8. \A b \in C \ {x} : use[b] < use[x]
  BY <1>4, <1>5
<1>9. \A b \in C : Ahead(C, use, b) = Since(s, N, n + 1, b)
  BY DEF Ahead, Since
<1>10. \A b \in C \ {x} : /\ old[b] = Since(s, N, n, b)
                          /\ old[b] = {c \in SeenBy(s, n) : c % N = x % N /\ LatestOf(s, n, c) > LatestOf(s, n, b)}
  BY DEF Since
<1>11. \A b \in C \ {x} : old[b] \subseteq Ahead(C, use, b) /\ Ahead(C, use, b) \subseteq old[b] \cup {x}
  <2> SUFFICES ASSUME NEW b \in C \ {x} PROVE old[b] \subseteq Ahead(C, use, b) /\ Ahead(C, use, b) \subseteq old[b] \cup {x}
    OBVIOUS
  <2>1. ASSUME NEW c \in old[b] PROVE c \in Ahead(C, use, b)
    <3>1. c \in SeenBy(s, n) /\ c % N = x % N /\ LatestOf(s, n, c) > LatestOf(s, n, b)
      BY <1>10
    <3>2. c \in C
      BY <1>1, <3>1
    <3>3. use[c] > use[b]
      <4>1. CASE c = x
        BY <1>4, <1>5, <4>1
      <4>2. CASE c # x
        BY <1>4, <3>1, <3>2, <4>2
      <4> QED BY <4>1, <4>2
    <3> HIDE DEF C, use
    <3> QED BY <3>2, <3>3 DEF Ahead
  <2>2. ASSUME NEW c \in Ahead(C, use, b), c # x PROVE c \in old[b]
    <3>1. c \in C \ {x} /\ use[c] > use[b]
      BY <2>2 DEF Ahead
    <3>2. c \in SeenBy(s, n) /\ LatestOf(s, n, c) > LatestOf(s, n, b)
      BY <1>4, <3>1
    <3>3. c % N = x % N
      BY <3>1
    <3> HIDE DEF C, use, old
    <3> QED BY <1>10, <3>2, <3>3
  <2> HIDE DEF C, use, old
  <2> QED BY <2>1, <2>2
<1>12. old \in [C \ {x} -> SUBSET C]
  <2>1. \A b \in C \ {x} : old[b] \subseteq C
    BY <1>1, <1>10
  <2> HIDE DEF C
  <2> QED BY <2>1
<1>13. \A b, c \in C \ {x} : use[c] > use[b] => old[c] \subseteq old[b]
  <2> SUFFICES ASSUME NEW b \in C \ {x}, NEW c \in C \ {x}, use[c] > use[b], NEW d \in old[c] PROVE d \in old[b]
    OBVIOUS
  <2>1. d \in SeenBy(s, n) /\ d % N = x % N /\ LatestOf(s, n, d) > LatestOf(s, n, c)
    BY <1>10
  <2>2. LatestOf(s, n, c) > LatestOf(s, n, b)
    BY <1>4
  <2>3. LatestOf(s, n, d) \in Nat /\ LatestOf(s, n, c) \in Nat /\ LatestOf(s, n, b) \in Nat
    BY <1>2, <1>4, <2>1
  <2>4. LatestOf(s, n, d) > LatestOf(s, n, b)
    BY <2>1, <2>2, <2>3
  <2> HIDE DEF C, use, old
  <2> QED BY <1>10, <2>1, <2>4
<1> DEFINE M == {x} \cup {b \in C \ {x} : Cardinality(old[b]) < w}
           kept == {b \in C : Cardinality(Ahead(C, use, b)) < w}
<1>14. mates = M
  <2>1. ASSUME NEW b, b # x PROVE b \in mates <=> b \in M
    <3>1. b \in C <=> b \in SeenBy(s, n) /\ b % N = x % N
      BY <1>1, <2>1
    <3>2. b \in C => old[b] = Since(s, N, n, b)
      BY <1>10, <2>1
    <3> HIDE DEF C, old
    <3> QED BY <2>1, <3>1, <3>2 DEF Newest
  <2>2. x \in mates /\ x \in M
    OBVIOUS
  <2> HIDE DEF mates, M
  <2>3. \A b : b \in mates <=> b \in M
    BY <2>1, <2>2
  <2> QED BY <2>3
<1>15. joined = mates \cup others /\ mates \cap others = {}
  OBVIOUS
<1>16. Newest(s, N, w, n + 1) = kept \cup others
  <2>1. ASSUME NEW b, b % N = x % N PROVE b \in Newest(s, N, w, n + 1) <=> b \in kept
    BY <1>9, <2>1 DEF Newest
  <2>2. ASSUME NEW b, b % N # x % N PROVE b \in Newest(s, N, w, n + 1) <=> b \in others
    <3>1. b # x
      BY <2>2
    <3>2. b \in SeenBy(s, n + 1) <=> b \in SeenBy(s, n)
      BY <1>1, <3>1
    <3>3. ASSUME b \in SeenBy(s, n) PROVE Since(s, N, n + 1, b) = Since(s, N, n, b)
      <4>1. \A c : c % N = b % N => c # x
        BY <2>2
      <4>2. LatestOf(s, n + 1, b) = LatestOf(s, n, b)
        BY <1>1, <3>1, <3>3
      <4>3. ASSUME NEW c PROVE c \in Since(s, N, n + 1, b) <=> c \in Since(s, N, n, b)
        <5>1. CASE c % N # b % N
          BY <5>1 DEF Since
        <5>2. CASE c % N = b % N
          <6>1. c # x
            BY <4>1, <5>2
          <6>2. c \in SeenBy(s, n + 1) <=> c \in SeenBy(s, n)
            BY <1>1, <6>1
          <6>3. c \in SeenBy(s, n) => LatestOf(s, n + 1, c) = LatestOf(s, n, c)
            BY <1>1, <6>1
          <6> QED BY <4>2, <6>2, <6>3 DEF Since
        <5> QED BY <5>1, <5>2
      <4> QED BY <4>3
    <3> QED BY <2>2, <3>2, <3>3 DEF Newest
  <2>3. \A b \in kept : b % N = x % N
    OBVIOUS
  <2>4. \A b \in others : b % N # x % N
    OBVIOUS
  <2> HIDE DEF kept, others
  <2> QED BY <2>1, <2>2, <2>3, <2>4
<1>17. \A c \in mates : c \in C /\ use[c] = LatestOf(s, n + 1, c)
  <2>1. M \subseteq C
    BY <1>3
  <2> HIDE DEF M, mates
  <2> QED BY <1>14, <2>1
<1>18. /\ Cardinality(mates) <= w => kept = mates
       /\ \A v \in mates : (Cardinality(mates) > w /\ \A c \in mates : use[v] <= use[c]) => kept = mates \ {v}
  <2> HIDE DEF C, use, old, mates
  <2>1. /\ Cardinality(M) <= w => kept = M
        /\ \A v \in M : (Cardinality(M) > w /\ \A c \in M : use[v] <= use[c]) => kept = M \ {v}
    <3>1. UsedLast(C, use, x, old)
      BY <1>3, <1>6, <1>7, <1>8, <1>11, <1>12, <1>13 DEF UsedLast
    <3> QED BY <3>1, LeastRecentGoes
  <2> HIDE DEF M, kept
  <2> QED BY <1>14, <2>1
<1>19. \E v \in mates : \A c \in mates : LatestOf(s, n + 1, v) <= LatestOf(s, n + 1, c)
  <2> DEFINE T == {use[c] : c \in mates}
  <2>1. T \in SUBSET Nat /\ T # {}
    <3>1. \A c \in mates : use[c] \in Nat
      BY <1>6, <1>17
    <3>2. x \in mates
      OBVIOUS
    <3> HIDE DEF mates, use
    <3> QED BY <3>1, <3>2
  <2>2. PICK l \in T : \A y \in T : l <= y
    <3> HIDE DEF T
    <3>1. \E l \in T : \A y \in T : l <= y
      BY <2>1, LeastOfNaturals
    <3> QED BY <3>1
  <2> HIDE DEF mates, use
  <2>3. PICK v \in mates : use[v] = l
    OBVIOUS
  <2>4. \A c \in mates : use[v] <= use[c]
    BY <2>2, <2>3
  <2> QED BY <1>17, <2>4
<1>20. ASSUME Cardinality(mates) <= w PROVE Newest(s, N, w, n + 1) = joined
  <2> HIDE DEF mates, others, kept, joined
  <2> QED BY <1>15, <1>16, <1>18, <1>20
<1>21. ASSUME Cardinality(mates) > w, NEW v \in mates, \A c \in mates : LatestOf(s, n + 1, v) <= LatestOf(s, n + 1, c)
       PROVE  Newest(s, N, w, n + 1) = joined \ {v}
  <2> HIDE DEF mates, others, kept, joined, use
  <2>1. \A c \in mates : use[v] <= use[c]
    BY <1>17, <1>21
  <2>2. kept = mates \ {v}
    BY <1>18, <1>21, <2>1
  <2> QED BY <1>15, <1>16, <1>21, <2>2
<1>22. Mates(s, N, w, n) = mates /\ Joined(s, N, w, n) = joined
  BY DEF Mates, Joined, x
<1> HIDE DEF mates, joined
<1> QED BY <1>19, <1>20, <1>21, <1>22 DEF IsOldest

\* No more or fewer blocks than the distance have come since.
LEMMA DistancesType ==
  ASSUME NEW s, NEW N, Len(s) \in Nat
  PROVE  /\ DOMAIN Distances(s, N) = 1 .. Len(s)
         /\ \A n \in 1 .. Len(s) : /\ Distances(s, N)[n] \in Nat \cup {INFINITE}
                                   /\ s[n] \in SeenBy(s, n - 1) => Distances(s, N)[n] = Cardinality(Since(s, N, n - 1, s[n]))
                                   /\ s[n] \notin SeenBy(s, n - 1) => Distances(s, N)[n] = INFINITE
<1> SUFFICES ASSUME NEW n \in 1 .. Len(s) PROVE Cardinality(Since(s, N, n - 1, s[n])) \in Nat
  BY DEF Distances
<1>1. n - 1 \in Nat
  OBVIOUS
<1>2. IsFiniteSet(SeenBy(s, n - 1))
  BY <1>1, SeenFinite
<1>3. Since(s, N, n - 1, s[n]) \subseteq SeenBy(s, n - 1)
  BY DEF Since
<1> QED BY <1>2, <1>3, Smaller

-----------------------------------------------------------------------------
(* The misses of the caches the profile is compared with.                  *)

\* One reference to a cache that holds h.
AfterReference(h, n, ways) ==
  LET joined == h \cup {stream[n]}
      mates == {b \in joined : b % numSets = stream[n] % numSets}
  IN IF Cardinality(mates) <= ways THEN joined ELSE joined \ {LeastRecent(n, mates)}

LEMMA AfterReferenceIs ==
  ASSUME stream \in Seq(Nat), numSets \in Nat \ {0}, NEW ways \in Nat, NEW n \in Nat, n < Len(stream)
  PROVE  AfterReference(Newest(stream, numSets, ways, n), n + 1, ways) = Newest(stream, numSets, ways, n + 1)
<1> DEFINE joined == Joined(stream, numSets, ways, n)
           mates == Mates(stream, numSets, ways, n)
           next == Newest(stream, numSets, ways, n + 1)
           Oldest(u) == IsOldest(stream, n + 1, u, mates)
           v == LeastRecent(n + 1, mates)
<1>1. /\ Cardinality(mates) <= ways => next = joined
      /\ \E u : Oldest(u)
      /\ \A u : (Cardinality(mates) > ways /\ Oldest(u)) => next = joined \ {u}
  BY NewestNext
<1>2. AfterReference(Newest(stream, numSets, ways, n), n + 1, ways) = IF Cardinality(mates) <= ways THEN joined ELSE joined \ {v}
  BY DEF AfterReference, Mates, Joined
<1>3. v = CHOOSE u \in mates : \A c \in mates : LatestOf(stream, n + 1, u) <= LatestOf(stream, n + 1, c)
  BY DEF LeastRecent, LatestUse, LatestOf
<1>4. Cardinality(mates) \in Nat
  <2>1. IsFiniteSet(SeenBy(stream, n + 1))
    BY SeenFinite
  <2>2. joined \subseteq SeenBy(stream, n + 1)
    BY LatestOfNext DEF Newest, Joined
  <2>3. mates \subseteq SeenBy(stream, n + 1)
    BY <2>2 DEF Mates
  <2> HIDE DEF mates
  <2> QED BY <2>1, <2>3, Smaller
<1>5. Oldest(v)
  <2>1. PICK u : Oldest(u)
    BY <1>1
  <2>2. u \in mates /\ \A c \in mates : LatestOf(stream, n + 1, u) <= LatestOf(stream, n + 1, c)
    BY <2>1 DEF IsOldest
  <2> HIDE DEF mates, v
  <2>3. v \in mates /\ \A c \in mates : LatestOf(stream, n + 1, v) <= LatestOf(stream, n + 1, c)
    BY <1>3, <2>2
  <2> QED BY <2>3 DEF IsOldest
<1> HIDE DEF mates, joined, next, Oldest, v
<1>6. CASE Cardinality(mates) <= ways
  BY <1>1, <1>2, <1>6 DEF next
<1>7. CASE ~(Cardinality(mates) <= ways)
  <2>1. Cardinality(mates) > ways
    BY <1>4, <1>7
  <2> QED BY <1>1, <1>2, <1>5, <1>7, <2>1 DEF next
<1> QED BY <1>6, <1>7

\* An LRU cache holds the blocks with less than `ways' others of their set used after them.
LEMMA LRUHoldsNewest ==
  ASSUME stream \in Seq(Nat), numSets \in Nat \ {0}, NEW ways \in Nat
  PROVE  \A n \in 0 .. Len(stream) : LRUContents(ways)[n] = Newest(stream, numSets, ways, n)
<1> DEFINE L == Len(stream)
           New(n) == Newest(stream, numSets, ways, n)
           Is(f) == f = [n \in 0 .. L |-> IF n = 0 THEN {} ELSE AfterReference(f[n - 1], n, ways)]
           held == CHOOSE f : Is(f)
           newest == [n \in 0 .. L |-> New(n)]
<1>1. L \in Nat
  OBVIOUS
<1>2. New(0) = {}
  BY DEF Newest, SeenBy
<1>3. \A n \in Nat : n < L => AfterReference(New(n), n + 1, ways) = New(n + 1)
  BY AfterReferenceIs
<1> HIDE DEF L, New
<1>4. Is(newest)
  <2>1. ASSUME NEW n \in 0 .. L PROVE newest[n] = IF n = 0 THEN {} ELSE AfterReference(newest[n - 1], n, ways)
    <3>1. CASE n = 0
      BY <1>1, <1>2, <3>1
    <3>2. CASE n # 0
      <4>1. n - 1 \in Nat /\ n - 1 < L /\ (n - 1) + 1 = n /\ n - 1 \in 0 .. L
        BY <1>1, <3>2
      <4>2. newest[n - 1] = New(n - 1) /\ newest[n] = New(n)
        BY <4>1
      <4>3. AfterReference(New(n - 1), (n - 1) + 1, ways) = New((n - 1) + 1)
        BY <1>3, <4>1
      <4> HIDE DEF newest
      <4> QED BY <3>2, <4>1, <4>2, <4>3
    <3> QED BY <3>1, <3>2
  <2> QED BY <2>1
<1> HIDE DEF Is, newest
<1>5. Is(held)
  BY <1>4
<1> HIDE DEF held
<1>6. \A n \in 0 .. L : held[n] = IF n = 0 THEN {} ELSE AfterReference(held[n - 1], n, ways)
  BY <1>5 DEF Is
<1> DEFINE G == {n \in Nat : n <= L => held[n] = New(n)}
<1>7. 0 \in G
  <2>1. 0 \in 0 .. L /\ 0 \in Nat
    BY <1>1
  <2>2. held[0] = New(0)
    BY <1>2, <1>6, <2>1
  <2> QED BY <2>1, <2>2
<1>8. ASSUME NEW n \in G PROVE n + 1 \in G
  <2>1. n \in Nat /\ (n <= L => held[n] = New(n))
    OBVIOUS
  <2> SUFFICES ASSUME n + 1 <= L PROVE held[n + 1] = New(n + 1)
    OBVIOUS
  <2>2. n + 1 \in 0 .. L /\ n + 1 # 0 /\ (n + 1) - 1 = n /\ n < L /\ n <= L
    BY <1>1, <2>1
  <2>3. held[n + 1] = AfterReference(held[n], n + 1, ways)
    BY <1>6, <2>2
  <2> QED BY <1>3, <2>1, <2>2, <2>3
<1>9. \A n \in Nat : n \in G
  <2> HIDE DEF G
  <2>1. G \in SUBSET Nat
    BY DEF G
  <2> QED BY <1>7, <1>8, <2>1, NaturalSetInduction
<1>10. LRUContents(ways) = held
  BY DEF LRUContents, held, Is, AfterReference, L
<1> QED BY <1>1, <1>9, <1>10 DEF L, New

\* So a reference misses when its distance is at least the number of ways.
LEMMA LRUMissesAre ==
  ASSUME stream \in Seq(Nat), numSets \in Nat \ {0}, NEW ways \in Nat
  PROVE  LRUMisses(ways) = Cardinality(Among(1 .. Len(stream), Distances(stream, numSets), {INFINITE} \cup {d \in Nat : d >= ways}))
<1> DEFINE dist == Distances(stream, numSets)
           held == LRUContents(ways)
           M == {n \in DOMAIN stream : stream[n] \notin held[n - 1]}
           A == Among(1 .. Len(stream), dist, {INFINITE} \cup {d \in Nat : d >= ways})
<1>1. DOMAIN stream = 1 .. Len(stream) /\ Len(stream) \in Nat
  OBVIOUS
<1>2. ASSUME NEW n \in 1 .. Len(stream) PROVE n \in M <=> n \in A
  <2> DEFINE c == Cardinality(Since(stream, numSets, n - 1, stream[n]))
  <2>1. n - 1 \in 0 .. Len(stream)
    BY <1>1
  <2>2. held[n - 1] = Newest(stream, numSets, ways, n - 1)
    BY <2>1, LRUHoldsNewest
  <2>3. stream[n] \in held[n - 1] <=> stream[n] \in SeenBy(stream, n - 1) /\ c < ways
    BY <2>2 DEF Newest
  <2>4. /\ dist[n] \in Nat \cup {INFINITE}
        /\ stream[n] \in SeenBy(stream, n - 1) => dist[n] = c
        /\ stream[n] \notin SeenBy(stream, n - 1) => dist[n] = INFINITE
    BY <1>1, DistancesType
  <2>5. n \in A <=> dist[n] = INFINITE \/ (dist[n] \in Nat /\ dist[n] >= ways)
    BY DEF Among
  <2>6. n \in M <=> stream[n] \notin held[n - 1]
    BY <1>1
  <2>7. stream[n] \in SeenBy(stream, n - 1) => c \in Nat
    <3> SUFFICES ASSUME stream[n] \in SeenBy(stream, n - 1) PROVE c \in Nat
      OBVIOUS
    <3>1. IsFiniteSet(SeenBy(stream, n - 1))
      BY <2>1, SeenFinite
    <3>2. Since(stream, numSets, n - 1, stream[n]) \subseteq SeenBy(stream, n - 1)
      BY DEF Since
    <3> QED BY <3>1, <3>2, Smaller
  <2> HIDE DEF c, dist, held, A, M
  <2>8. CASE stream[n] \in SeenBy(stream, n - 1)
    BY <2>3, <2>4, <2>5, <2>6, <2>7, <2>8 DEF INFINITE
  <2>9. CASE stream[n] \notin SeenBy(stream, n - 1)
    BY <2>3, <2>4, <2>5, <2>6, <2>9
  <2> QED BY <2>8, <2>9
<1>3. M = A
  <2>1. M \subseteq 1 .. Len(stream) /\ A \subseteq 1 .. Len(stream)
    BY <1>1 DEF Among
  <2> HIDE DEF M, A
  <2> QED BY <1>2, <2>1
<1>4. LRUMisses(ways) = Cardinality(M)
  BY DEF LRUMisses
<1> QED BY <1>3, <1>4

-----------------------------------------------------------------------------
(* Where the references of a bucket are in the stream.                     *)

\* pos[j] is the place of the j-th reference of q, the references to set k among
\* the first r of stream s.
IsThread(pos, s, N, k, r, q) ==
  /\ pos \in [1 .. Len(q) -> 1 .. r]
  /\ \A j, l \in 1 .. Len(q) : j < l => pos[j] < pos[l]
  /\ \A j \in 1 .. Len(q) : s[pos[j]] = q[j]
  /\ \A n \in 1 .. r : s[n] % N = k <=> \E j \in 1 .. Len(q) : pos[j] = n

LEMMA ThreadStarts ==
  ASSUME NEW s, NEW N, NEW k
  PROVE  \E pos : IsThread(pos, s, N, k, 0, <<>>)
<1> DEFINE pos == [j \in 1 .. 0 |-> 0]
<1>1. Len(<<>>) = 0
  OBVIOUS
<1>2. 1 .. 0 = {}
  OBVIOUS
<1>3. pos \in [1 .. 0 -> 1 .. 0]
  BY <1>2
<1> HIDE DEF pos
<1>4. IsThread(pos, s, N, k, 0, <<>>)
  BY <1>1, <1>2, <1>3 DEF IsThread
<1> QED BY <1>4

LEMMA ThreadGrows ==
  ASSUME NEW s, NEW N, NEW k, NEW r \in Nat, NEW q \in Seq(Nat), NEW pos, IsThread(pos, s, N, k, r, q)
  PROVE  /\ s[r + 1] % N # k => IsThread(pos, s, N, k, r + 1, q)
         /\ (s[r + 1] % N = k /\ s[r + 1] \in Nat) => \E new : IsThread(new, s, N, k, r + 1, Append(q, s[r + 1]))
<1> DEFINE L == Len(q)
           x == s[r + 1]
<1>1. /\ pos \in [1 .. L -> 1 .. r] /\ L \in Nat
      /\ \A j, l \in 1 .. L : j < l => pos[j] < pos[l]
      /\ \A j \in 1 .. L : s[pos[j]] = q[j]
      /\ \A n \in 1 .. r : s[n] % N = k <=> \E j \in 1 .. L : pos[j] = n
  BY DEF IsThread
<1>2. \A n \in 1 .. r + 1 : n \in 1 .. r \/ n = r + 1
  OBVIOUS
<1>3. \A j \in 1 .. L : pos[j] \in 1 .. r /\ pos[j] # r + 1 /\ pos[j] \in 1 .. r + 1
  <2>1. \A j \in 1 .. L : pos[j] \in 1 .. r
    BY <1>1
  <2>2. \A p \in 1 .. r : p # r + 1 /\ p \in 1 .. r + 1
    OBVIOUS
  <2> QED BY <2>1, <2>2
<1>4. ASSUME x % N # k PROVE IsThread(pos, s, N, k, r + 1, q)
  <2>1. pos \in [1 .. L -> 1 .. r + 1]
    BY <1>1, <1>3
  <2>2. \A n \in 1 .. r + 1 : s[n] % N = k <=> \E j \in 1 .. L : pos[j] = n
    BY <1>1, <1>2, <1>3, <1>4
  <2> QED BY <1>1, <2>1, <2>2 DEF IsThread
<1>5. ASSUME x % N = k, x \in Nat PROVE \E new : IsThread(new, s, N, k, r + 1, Append(q, x))
  <2> DEFINE a == Append(q, x)
             new == [j \in 1 .. L + 1 |-> IF j = L + 1 THEN r + 1 ELSE pos[j]]
  <2>1. Len(a) = L + 1 /\ \A j \in 1 .. L + 1 : a[j] = IF j = L + 1 THEN x ELSE q[j]
    BY <1>1, <1>5
  <2>2. \A j \in 1 .. L + 1 : j \in 1 .. L \/ j = L + 1
    BY <1>1
  <2>3. \A j \in 1 .. L + 1 : new[j] = IF j = L + 1 THEN r + 1 ELSE pos[j]
    OBVIOUS
  <2>4. new \in [1 .. L + 1 -> 1 .. r + 1]
    <3>1. \A j \in 1 .. L + 1 : new[j] \in 1 .. r + 1
      BY <1>3, <2>2, <2>3
    <3> QED BY <3>1
  <2>e. 1 .. L \subseteq 1 .. L + 1 /\ L + 1 \in 1 .. L + 1 /\ ~(L + 1 \in 1 .. L)
    BY <1>1
  <2> HIDE DEF new, a
  <2>5. \A j, l \in 1 .. L + 1 : j < l => new[j] < new[l]
    <3> SUFFICES ASSUME NEW j \in 1 .. L + 1, NEW l \in 1 .. L + 1, j < l PROVE new[j] < new[l]
      OBVIOUS
    <3>1. j \in 1 .. L /\ new[j] = pos[j]
      BY <1>1, <2>3
    <3>2. CASE l = L + 1
      <4>1. new[l] = r + 1
        BY <2>3, <3>2
      <4>2. pos[j] \in 1 .. r
        BY <1>3, <3>1
      <4>3. \A p \in 1 .. r : p < r + 1
        OBVIOUS
      <4> QED BY <3>1, <4>1, <4>2, <4>3
    <3>3. CASE l # L + 1
      BY <1>1, <2>2, <2>3, <3>1, <3>3
    <3> QED BY <3>2, <3>3
  <2>6. \A j \in 1 .. L + 1 : s[new[j]] = a[j]
    BY <1>1, <2>1, <2>2, <2>3
  <2>7. \A n \in 1 .. r + 1 : s[n] % N = k <=> \E j \in 1 .. L + 1 : new[j] = n
    <3> SUFFICES ASSUME NEW n \in 1 .. r + 1 PROVE s[n] % N = k <=> \E j \in 1 .. L + 1 : new[j] = n
      OBVIOUS
    <3>1. CASE n = r + 1
      <4>1. new[L + 1] = n
        BY <2>3, <2>e, <3>1
      <4> QED BY <1>5, <2>e, <3>1, <4>1
    <3>2. CASE n # r + 1
      <4>1. n \in 1 .. r
        BY <1>2, <3>2
      <4>2. \A j \in 1 .. L + 1 : new[j] = n => j \in 1 .. L /\ pos[j] = n
        BY <2>2, <2>3, <3>2
      <4>3. \A j \in 1 .. L : pos[j] = n => j \in 1 .. L + 1 /\ new[j] = n
        BY <2>3, <2>e
      <4> QED BY <1>1, <4>1, <4>2, <4>3
    <3> QED BY <3>1, <3>2
  <2>8. IsThread(new, s, N, k, r + 1, a)
    BY <2>1, <2>4, <2>5, <2>6, <2>7 DEF IsThread
  <2> QED BY <2>8 DEF a
<1> QED BY <1>4, <1>5

\* The distance of a reference in its bucket is the one it has in the stream.
LEMMA ThreadDistance ==
  ASSUME NEW s \in Seq(Nat), NEW N \in Nat \ {0}, NEW k, NEW q \in Seq(Nat), NEW pos, IsThread(pos, s, N, k, Len(s), q),
         NEW u \in Nat, u < Len(q), NEW d, IsReuseDistance(d, q, u)
  PROVE  d = Distances(s, N)[pos[u + 1]]
<1> DEFINE L == Len(q)
           n == pos[u + 1]
           x == s[n]
           previous == {t \in 0 .. u - 1 : q[t + 1] = q[u + 1] /\ \A v \in t + 1 .. u - 1 : q[v + 1] # q[t + 1]}
           dist == Distances(s, N)
<1>1. /\ pos \in [1 .. L -> 1 .. Len(s)] /\ L \in Nat /\ Len(s) \in Nat
      /\ \A j, l \in 1 .. L : j < l => pos[j] < pos[l]
      /\ \A j \in 1 .. L : s[pos[j]] = q[j]
      /\ \A m \in 1 .. Len(s) : s[m] % N = k <=> \E j \in 1 .. L : pos[j] = m
  BY DEF IsThread
<1>2. /\ previous = {} => d = INFINITE
      /\ \A t \in previous : d = Cardinality({q[v + 1] : v \in t + 1 .. u - 1})
  BY DEF IsReuseDistance
<1>3. u + 1 \in 1 .. L /\ n \in 1 .. Len(s) /\ x = q[u + 1] /\ x % N = k /\ n - 1 \in Nat
  <2>1. u + 1 \in 1 .. L
    BY <1>1
  <2>2. n \in 1 .. Len(s)
    BY <1>1, <2>1
  <2>3. x = q[u + 1] /\ x % N = k
    BY <1>1, <2>1, <2>2
  <2> HIDE DEF n
  <2>4. n - 1 \in Nat
    BY <2>2
  <2> QED BY <2>1, <2>2, <2>3, <2>4
<1>4. \A j, l \in 1 .. L : pos[j] \in Nat /\ pos[l] \in Nat /\ (pos[j] < pos[l] => j < l)
  <2> SUFFICES ASSUME NEW j \in 1 .. L, NEW l \in 1 .. L PROVE pos[j] \in Nat /\ pos[l] \in Nat /\ (pos[j] < pos[l] => j < l)
    OBVIOUS
  <2>1. pos[j] \in Nat /\ pos[l] \in Nat
    <3>1. pos[j] \in 1 .. Len(s) /\ pos[l] \in 1 .. Len(s)
      BY <1>1
    <3>2. \A p \in 1 .. Len(s) : p \in Nat
      BY <1>1
    <3> QED BY <3>1, <3>2
  <2>2. l < j => pos[l] < pos[j]
    BY <1>1
  <2>3. l = j => pos[l] = pos[j]
    OBVIOUS
  <2> QED BY <1>1, <2>1, <2>2, <2>3
<1>5. \A v \in 0 .. u - 1 : v + 1 \in 1 .. L /\ pos[v + 1] \in 1 .. n - 1 /\ s[pos[v + 1]] = q[v + 1]
  <2> SUFFICES ASSUME NEW v \in 0 .. u - 1 PROVE v + 1 \in 1 .. L /\ pos[v + 1] \in 1 .. n - 1 /\ s[pos[v + 1]] = q[v + 1]
    OBVIOUS
  <2>1. v + 1 \in 1 .. L /\ v + 1 < u + 1
    BY <1>1
  <2>2. pos[v + 1] < n
    BY <1>1, <1>3, <2>1
  <2>3. s[pos[v + 1]] = q[v + 1] /\ pos[v + 1] \in 1 .. Len(s)
    BY <1>1, <2>1
  <2>4. n \in 1 .. Len(s)
    BY <1>3
  <2> HIDE DEF n
  <2>5. \A p \in 1 .. Len(s) : p < n => p \in 1 .. n - 1
    BY <1>1, <2>4
  <2> QED BY <2>1, <2>2, <2>3, <2>5
<1>6. \A m \in 1 .. n - 1 : s[m] % N = k => \E v \in 0 .. u - 1 : pos[v + 1] = m /\ q[v + 1] = s[m]
  <2> SUFFICES ASSUME NEW m \in 1 .. n - 1, s[m] % N = k PROVE \E v \in 0 .. u - 1 : pos[v + 1] = m /\ q[v + 1] = s[m]
    OBVIOUS
  <2>1. m \in 1 .. Len(s) /\ m < n
    <3>1. n \in 1 .. Len(s)
      BY <1>3
    <3> HIDE DEF n
    <3> QED BY <1>1, <3>1
  <2>2. PICK j \in 1 .. L : pos[j] = m
    BY <1>1, <2>1
  <2>3. j < u + 1
    BY <1>3, <1>4, <2>1, <2>2
  <2>4. j - 1 \in 0 .. u - 1 /\ (j - 1) + 1 = j
    BY <2>3
  <2> HIDE DEF n
  <2> QED BY <1>1, <2>2, <2>4
<1>7. /\ dist[n] \in Nat \cup {INFINITE}
      /\ x \in SeenBy(s, n - 1) => dist[n] = Cardinality(Since(s, N, n - 1, x))
      /\ x \notin SeenBy(s, n - 1) => dist[n] = INFINITE
  BY <1>1, <1>3, DistancesType
<1> HIDE DEF L, n, x, dist
<1>8. CASE x \notin SeenBy(s, n - 1)
  <2>1. ASSUME NEW t \in previous PROVE FALSE
    <3>1. t \in 0 .. u - 1 /\ q[t + 1] = x
      BY <1>3
    <3>2. pos[t + 1] \in 1 .. n - 1 /\ s[pos[t + 1]] = x
      BY <1>5, <3>1
    <3> QED BY <1>8, <3>2 DEF SeenBy
  <2> HIDE DEF previous
  <2>2. previous = {}
    BY <2>1
  <2> QED BY <1>2, <1>7, <1>8, <2>2 DEF n, dist
<1>9. CASE x \in SeenBy(s, n - 1)
  <2> DEFINE m == LatestOf(s, n - 1, x)
  <2>1. m \in 1 .. n - 1 /\ s[m] = x /\ \A l \in m + 1 .. n - 1 : s[l] # x
    <3>1. n - 1 \in Nat
      BY <1>3
    <3> QED BY <1>9, <3>1, LatestOfIs
  <2> HIDE DEF m
  <2>2. PICK t \in 0 .. u - 1 : pos[t + 1] = m /\ q[t + 1] = x
    BY <1>3, <1>6, <2>1
  <2>3. ASSUME NEW v \in t + 1 .. u - 1
        PROVE  v \in 0 .. u - 1 /\ pos[v + 1] \in m + 1 .. n - 1 /\ s[pos[v + 1]] = q[v + 1] /\ q[v + 1] # x
    <3>1. v \in 0 .. u - 1 /\ t \in 0 .. u - 1 /\ t + 1 < v + 1
      BY <2>2
    <3>2. v + 1 \in 1 .. L /\ t + 1 \in 1 .. L /\ pos[v + 1] \in 1 .. n - 1 /\ s[pos[v + 1]] = q[v + 1]
      BY <1>5, <3>1
    <3>3. pos[v + 1] > m
      BY <1>1, <2>2, <3>1, <3>2
    <3>4. pos[v + 1] \in m + 1 .. n - 1
      BY <1>3, <2>1, <3>2, <3>3
    <3> QED BY <2>1, <3>1, <3>2, <3>4
  <2>4. t \in previous
    BY <1>3, <2>2, <2>3
  <2>5. d = Cardinality({q[v + 1] : v \in t + 1 .. u - 1})
    BY <1>2, <2>4
  <2>6. ASSUME NEW v \in t + 1 .. u - 1 PROVE q[v + 1] \in Since(s, N, n - 1, x)
    <3> DEFINE c == q[v + 1]
               p == pos[v + 1]
               l == LatestOf(s, n - 1, c)
    <3>1. p \in m + 1 .. n - 1 /\ p \in 1 .. n - 1 /\ s[p] = c /\ v \in 0 .. u - 1
      BY <2>1, <2>3
    <3>2. c \in SeenBy(s, n - 1)
      BY <3>1 DEF SeenBy
    <3>3. l \in 1 .. n - 1 /\ \A e \in l + 1 .. n - 1 : s[e] # c
      BY <1>3, <3>2, LatestOfIs
    <3>4. c % N = k
      <4>1. v + 1 \in 1 .. L /\ p \in 1 .. Len(s)
        BY <1>1, <1>3, <1>5, <3>1
      <4> HIDE DEF c
      <4> QED BY <1>1, <3>1, <4>1
    <3> HIDE DEF c, p, l
    <3>5. l > m
      <4>1. ~(p \in l + 1 .. n - 1)
        BY <3>1, <3>3
      <4> QED BY <1>3, <2>1, <3>1, <3>3, <4>1
    <3>6. c \in Since(s, N, n - 1, x)
      BY <1>3, <3>2, <3>4, <3>5 DEF Since, l, m
    <3> QED BY <3>6 DEF c
  <2>7. ASSUME NEW c \in Since(s, N, n - 1, x) PROVE \E v \in t + 1 .. u - 1 : q[v + 1] = c
    <3> DEFINE l == LatestOf(s, n - 1, c)
    <3>1. c \in SeenBy(s, n - 1) /\ c % N = k /\ l > m
      BY <1>3 DEF Since, m
    <3>2. l \in 1 .. n - 1 /\ s[l] = c
      BY <1>3, <3>1, LatestOfIs
    <3> HIDE DEF l
    <3>3. PICK v \in 0 .. u - 1 : pos[v + 1] = l /\ q[v + 1] = c
      BY <1>6, <3>1, <3>2
    <3>4. t + 1 \in 1 .. L /\ v + 1 \in 1 .. L /\ pos[t + 1] < pos[v + 1]
      BY <1>5, <2>2, <3>1, <3>3, <2>1, <3>2
    <3>5. t + 1 < v + 1
      BY <1>4, <3>4
    <3>6. v \in t + 1 .. u - 1
      BY <2>2, <3>3, <3>5
    <3> QED BY <3>3, <3>6
  <2>8. {q[v + 1] : v \in t + 1 .. u - 1} = Since(s, N, n - 1, x)
    BY <2>6, <2>7
  <2> QED BY <1>7, <1>9, <2>5, <2>8 DEF n, dist
<1> QED BY <1>8, <1>9

-----------------------------------------------------------------------------
(* The profile tallies the references profiled so far.                     *)

\* The places of the bucket of set k, the first c of them, and those of the sets below k.
Places(s, N, k, r, q) == CHOOSE pos : IsThread(pos, s, N, k, r, q)
FirstPlaces(pos, c) == {pos[j] : j \in 1 .. c}
InSetsBelow(s, N, k) == {n \in 1 .. Len(s) : s[n] % N < k}

\* Every bucket has the references to its set, and the profiles tally the distances of
\* those of the bucket consumed and of the buckets finished.
CurveInv ==
  /\ DistanceInv
  /\ \A k \in 0 .. numSets - 1 : \E pos : IsThread(pos, stream, numSets, k, read, buckets[k])
  /\ set < numSets => Tallies(sub, FirstPlaces(Places(stream, numSets, set, read, Bucket), i), Distances(stream, numSets))
  /\ Tallies(merged, InSetsBelow(stream, numSets, set), Distances(stream, numSets))

LEMMA StreamTypes ==
  ASSUME TypeOK
  PROVE  /\ stream \in Seq(Blocks) /\ stream \in Seq(Nat) /\ Len(stream) \in Nat /\ numSets \in Nat \ {0}
         /\ \A k \in 0 .. numSets - 1 : buckets[k] \in Seq(Nat)
<1>1. stream \in Seq(Blocks) /\ Len(stream) \in Nat
  <2>1. PICK n \in 0 .. MaxReferences : stream \in [1 .. n -> Blocks]
    BY DEF TypeOK, Streams
  <2> QED BY <2>1, MaxReferencesAssumption
<1>2. \A q \in Seq(Blocks) : q \in Seq(Nat)
  <2> SUFFICES ASSUME NEW q \in Seq(Blocks) PROVE q \in Seq(Nat)
    OBVIOUS
  <2>1. Len(q) \in Nat /\ q = [j \in 1 .. Len(q) |-> q[j]] /\ \A j \in 1 .. Len(q) : q[j] \in Blocks
    OBVIOUS
  <2>2. \A j \in 1 .. Len(q) : q[j] \in Nat
    BY <2>1, BlocksAssumption
  <2> QED BY <2>1, <2>2
<1>3. numSets \in Nat \ {0}
  BY SetCountsAssumption DEF TypeOK
<1>4. \A k \in 0 .. numSets - 1 : buckets[k] \in Seq(Blocks)
  BY DEF TypeOK
<1> QED BY <1>1, <1>2, <1>3, <1>4

LEMMA CurveInitially == Init => CurveInv
<1> SUFFICES ASSUME Init PROVE CurveInv
  OBVIOUS
<1>1. DistanceInv /\ TypeOK
  BY InitDistance DEF DistanceInv
<1>2. stream \in Seq(Nat) /\ Len(stream) \in Nat /\ numSets \in Nat \ {0}
  BY <1>1, StreamTypes
<1>3. read = 0 /\ set = 0 /\ i = 0 /\ sub = EmptyProfile /\ merged = EmptyProfile
      /\ \A k \in 0 .. numSets - 1 : buckets[k] = <<>>
  BY DEF Init
<1>4. \A k \in 0 .. numSets - 1 : \E pos : IsThread(pos, stream, numSets, k, read, buckets[k])
  BY <1>3, ThreadStarts
<1>5. \A pos : FirstPlaces(pos, 0) = {}
  BY DEF FirstPlaces
<1>6. InSetsBelow(stream, numSets, 0) = {}
  <2>1. \A n \in 1 .. Len(stream) : ~(stream[n] % numSets < 0)
    <3> SUFFICES ASSUME NEW n \in 1 .. Len(stream) PROVE ~(stream[n] % numSets < 0)
      OBVIOUS
    <3>1. stream[n] \in Nat
      BY <1>2
    <3> QED BY <1>2, <3>1
  <2> QED BY <2>1 DEF InSetsBelow
<1> QED BY <1>1, <1>3, <1>4, <1>5, <1>6, TallyEmpty DEF CurveInv

LEMMA CurveSplit == CurveInv /\ DistanceInv' /\ Split => CurveInv'
<1> SUFFICES ASSUME CurveInv, DistanceInv', Split PROVE CurveInv'
  OBVIOUS
<1>1. /\ read < Len(stream) /\ read' = read + 1
      /\ buckets' = [buckets EXCEPT ![stream[read + 1] % numSets] = Append(@, stream[read + 1])]
      /\ UNCHANGED <<stream, numSets, set, i, sub, merged>>
  BY DEF Split
<1>2. TypeOK /\ set = 0 /\ i = 0
  BY <1>1 DEF CurveInv, DistanceInv, Phases
<1>3. stream \in Seq(Nat) /\ Len(stream) \in Nat /\ numSets \in Nat \ {0}
      /\ \A k \in 0 .. numSets - 1 : buckets[k] \in Seq(Nat)
  BY <1>2, StreamTypes
<1>4. read \in Nat /\ buckets \in [0 .. numSets - 1 -> Seq(Blocks)]
  BY <1>2, <1>3 DEF TypeOK
<1>5. stream[read + 1] \in Nat
  BY <1>1, <1>3, <1>4
<1>6. ASSUME NEW k \in 0 .. numSets - 1
      PROVE  \E pos : IsThread(pos, stream, numSets, k, read + 1, buckets'[k])
  <2>1. PICK pos : IsThread(pos, stream, numSets, k, read, buckets[k])
    BY DEF CurveInv
  <2>2. /\ stream[read + 1] % numSets # k => IsThread(pos, stream, numSets, k, read + 1, buckets[k])
        /\ stream[read + 1] % numSets = k => \E new : IsThread(new, stream, numSets, k, read + 1, Append(buckets[k], stream[read + 1]))
    <3>1. buckets[k] \in Seq(Nat)
      BY <1>3
    <3> QED BY <1>4, <1>5, <2>1, <3>1, ThreadGrows
  <2>3. CASE stream[read + 1] % numSets # k
    <3>1. buckets'[k] = buckets[k]
      BY <1>1, <1>4, <2>3
    <3> QED BY <2>2, <2>3, <3>1
  <2>4. CASE stream[read + 1] % numSets = k
    <3>1. buckets'[k] = Append(buckets[k], stream[read + 1])
      BY <1>1, <1>4, <2>4
    <3> QED BY <2>2, <2>4, <3>1
  <2> QED BY <2>3, <2>4
<1>7. \A pos : FirstPlaces(pos, 0) = {}
  BY DEF FirstPlaces
<1>8. set < numSets /\ Tallies(sub, {}, Distances(stream, numSets))
  <2>1. set < numSets
    BY <1>2, <1>3
  <2>2. Tallies(sub, FirstPlaces(Places(stream, numSets, set, read, Bucket), i), Distances(stream, numSets))
    BY <2>1 DEF CurveInv
  <2> QED BY <1>2, <1>7, <2>1, <2>2
<1>9. Tallies(merged, InSetsBelow(stream, numSets, set), Distances(stream, numSets))
  BY DEF CurveInv
<1>10. \A k \in 0 .. numSets' - 1 : \E pos : IsThread(pos, stream', numSets', k, read', buckets'[k])
  BY <1>1, <1>6
<1>11. Tallies(sub', FirstPlaces(Places(stream', numSets', set', read', Bucket'), i'), Distances(stream', numSets'))
  BY <1>1, <1>2, <1>7, <1>8
<1>12. Tallies(merged', InSetsBelow(stream', numSets', set'), Distances(stream', numSets'))
  BY <1>1, <1>9
<1> QED BY <1>10, <1>11, <1>12 DEF CurveInv

LEMMA CurveReference == CurveInv /\ DistanceInv' /\ Reference => CurveInv'
<1> SUFFICES ASSUME CurveInv, DistanceInv', Reference PROVE CurveInv'
  OBVIOUS
<1> DEFINE dist == Distances(stream, numSets)
           pos == Places(stream, numSets, set, read, Bucket)
           n == pos[i + 1]
<1>1. /\ read = Len(stream) /\ set < numSets /\ i < Len(Bucket) /\ i' = i + 1
      /\ sub' = Counted(sub, distance')
      /\ UNCHANGED <<stream, numSets, buckets, read, set, merged>>
  BY DEF Reference
<1>2. TypeOK
  BY DEF CurveInv, DistanceInv
<1>3. stream \in Seq(Nat) /\ Len(stream) \in Nat /\ numSets \in Nat \ {0}
      /\ \A k \in 0 .. numSets - 1 : buckets[k] \in Seq(Nat)
  BY <1>2, StreamTypes
<1>4. i \in Nat /\ set \in 0 .. numSets - 1 /\ sub \in Profile
  BY <1>1, <1>2, <1>3 DEF TypeOK
<1>5. Bucket \in Seq(Nat) /\ Bucket' = Bucket
  BY <1>1, <1>3, <1>4 DEF Bucket
<1>6. IsThread(pos, stream, numSets, set, Len(stream), Bucket)
  <2>1. \E p : IsThread(p, stream, numSets, set, read, Bucket)
    BY <1>4 DEF CurveInv, Bucket
  <2>2. IsThread(pos, stream, numSets, set, read, Bucket)
    BY <2>1 DEF Places
  <2> QED BY <1>1, <2>2
<1>7. distance' = dist[n]
  <2>1. IsReuseDistance(distance', Bucket, i)
    <3>1. i' > 0 /\ i' - 1 = i
      BY <1>1, <1>4
    <3> QED BY <1>5, <3>1 DEF DistanceInv, DistanceIsReuse
  <2> HIDE DEF pos
  <2> QED BY <1>1, <1>3, <1>4, <1>5, <1>6, <2>1, ThreadDistance
<1>8. /\ i + 1 \in 1 .. Len(Bucket) /\ pos \in [1 .. Len(Bucket) -> 1 .. Len(stream)]
      /\ \A j, l \in 1 .. Len(Bucket) : j < l => pos[j] < pos[l]
  <2>1. i + 1 \in 1 .. Len(Bucket)
    BY <1>1, <1>4, <1>5
  <2> HIDE DEF pos
  <2> QED BY <1>6, <2>1 DEF IsThread
<1> HIDE DEF pos
<1>9. dist[n] \in Nat \cup {INFINITE}
  <2>1. n \in 1 .. Len(stream)
    BY <1>8
  <2> HIDE DEF n
  <2> QED BY <1>3, <2>1, DistancesType
<1>10. FirstPlaces(pos, i + 1) = FirstPlaces(pos, i) \cup {n}
  <2>1. 1 .. i + 1 = (1 .. i) \cup {i + 1}
    BY <1>4
  <2> QED BY <2>1 DEF FirstPlaces
<1>11. n \notin FirstPlaces(pos, i)
  <2> SUFFICES ASSUME NEW j \in 1 .. i PROVE pos[j] # n
    BY DEF FirstPlaces
  <2>1. j \in 1 .. Len(Bucket) /\ j < i + 1
    BY <1>1, <1>4, <1>5
  <2>2. pos[j] < n /\ pos[j] \in 1 .. Len(stream)
    BY <1>8, <2>1
  <2> QED BY <1>3, <2>2
<1>12. Tallies(sub, FirstPlaces(pos, i), dist)
  BY <1>1 DEF CurveInv, pos
<1> HIDE DEF n, dist
<1>13. Tallies(sub', FirstPlaces(pos, i + 1), dist)
  <2>1. Tallies(Counted(sub, dist[n]), FirstPlaces(pos, i) \cup {n}, dist)
    BY <1>4, <1>9, <1>11, <1>12, TallyCounted
  <2> QED BY <1>1, <1>7, <1>10, <2>1
<1>14. Tallies(sub', FirstPlaces(Places(stream', numSets', set', read', Bucket'), i'), Distances(stream', numSets'))
  BY <1>1, <1>5, <1>13 DEF pos, dist
<1>15. \A k \in 0 .. numSets' - 1 : \E p : IsThread(p, stream', numSets', k, read', buckets'[k])
  BY <1>1 DEF CurveInv
<1>16. Tallies(merged', InSetsBelow(stream', numSets', set'), Distances(stream', numSets'))
  BY <1>1 DEF CurveInv
<1> QED BY <1>14, <1>15, <1>16 DEF CurveInv

LEMMA CurveNextBucket == CurveInv /\ DistanceInv' /\ NextBucket => CurveInv'
<1> SUFFICES ASSUME CurveInv, DistanceInv', NextBucket PROVE CurveInv'
  OBVIOUS
<1> DEFINE dist == Distances(stream, numSets)
           pos == Places(stream, numSets, set, read, Bucket)
           L == FirstPlaces(pos, i)
           M == InSetsBelow(stream, numSets, set)
<1>1. /\ read = Len(stream) /\ set < numSets /\ i = Len(Bucket) /\ i' = 0 /\ set' = set + 1
      /\ merged' = Merged(merged, sub) /\ sub' = EmptyProfile
      /\ UNCHANGED <<stream, numSets, buckets, read>>
  BY DEF NextBucket
<1>2. TypeOK
  BY DEF CurveInv, DistanceInv
<1>3. stream \in Seq(Nat) /\ Len(stream) \in Nat /\ numSets \in Nat \ {0}
      /\ \A k \in 0 .. numSets - 1 : buckets[k] \in Seq(Nat)
  BY <1>2, StreamTypes
<1>4. i \in Nat /\ set \in 0 .. numSets - 1 /\ sub \in Profile /\ merged \in Profile
  BY <1>1, <1>2, <1>3 DEF TypeOK
<1>5. IsThread(pos, stream, numSets, set, Len(stream), Bucket)
  <2>1. \E p : IsThread(p, stream, numSets, set, read, Bucket)
    BY <1>4 DEF CurveInv, Bucket
  <2>2. IsThread(pos, stream, numSets, set, read, Bucket)
    BY <2>1 DEF Places
  <2> QED BY <1>1, <2>2
<1>6. Tallies(sub, L, dist) /\ Tallies(merged, M, dist)
  BY <1>1 DEF CurveInv
<1>7. L = {n \in 1 .. Len(stream) : stream[n] % numSets = set}
  <2> HIDE DEF pos
  <2>1. /\ pos \in [1 .. Len(Bucket) -> 1 .. Len(stream)]
        /\ \A n \in 1 .. Len(stream) : stream[n] % numSets = set <=> \E j \in 1 .. Len(Bucket) : pos[j] = n
    BY <1>5 DEF IsThread
  <2>2. L = {pos[j] : j \in 1 .. Len(Bucket)}
    BY <1>1 DEF FirstPlaces
  <2> QED BY <2>1, <2>2
<1>8. M \cap L = {} /\ M \cup L = InSetsBelow(stream, numSets, set + 1)
  <2>1. ASSUME NEW n \in 1 .. Len(stream)
        PROVE  /\ ~(stream[n] % numSets < set /\ stream[n] % numSets = set)
               /\ stream[n] % numSets < set + 1 <=> (stream[n] % numSets < set \/ stream[n] % numSets = set)
    <3>1. stream[n] \in Nat
      BY <1>3
    <3>2. stream[n] % numSets \in Nat
      BY <1>3, <3>1
    <3> QED BY <1>4, <3>2
  <2> HIDE DEF L
  <2> QED BY <1>7, <2>1 DEF InSetsBelow
<1> HIDE DEF L, M
<1>9. Tallies(merged', InSetsBelow(stream, numSets, set + 1), dist)
  <2>1. Tallies(Merged(merged, sub), M \cup L, dist)
    <3> HIDE DEF dist
    <3> QED BY <1>4, <1>6, <1>8, TallyMerged
  <2> QED BY <1>1, <1>8, <2>1
<1>10. \A p : FirstPlaces(p, 0) = {}
  BY DEF FirstPlaces
<1>11. Tallies(sub', FirstPlaces(Places(stream', numSets', set', read', Bucket'), i'), Distances(stream', numSets'))
  BY <1>1, <1>10, TallyEmpty
<1>12. \A k \in 0 .. numSets' - 1 : \E p : IsThread(p, stream', numSets', k, read', buckets'[k])
  BY <1>1 DEF CurveInv
<1>13. Tallies(merged', InSetsBelow(stream', numSets', set'), Distances(stream', numSets'))
  BY <1>1, <1>9
<1> QED BY <1>11, <1>12, <1>13 DEF CurveInv

LEMMA CurveInvariant == Spec => []CurveInv
<1>1. CurveInv /\ [Next]_vars => CurveInv'
  <2> SUFFICES ASSUME CurveInv, [Next]_vars PROVE CurveInv'
    OBVIOUS
  <2>0. DistanceInv
    BY DEF CurveInv
  <2>1. CASE Split
    BY <2>0, <2>1, SplitDistance, CurveSplit
  <2>2. CASE Reference
    BY <2>0, <2>2, ReferenceDistance, CurveReference
  <2>3. CASE NextBucket
    BY <2>0, <2>3, NextBucketDistance, CurveNextBucket
  <2>4. CASE UNCHANGED vars
    <3>1. DistanceInv'
      BY <2>0, <2>4, DistanceStutters
    <3>2. UNCHANGED <<stream, numSets, buckets, read, set, i, sub, merged>> /\ Bucket' = Bucket
      BY <2>4 DEF vars, Bucket
    <3> QED BY <3>1, <3>2 DEF CurveInv
  <2> QED BY <2>1, <2>2, <2>3, <2>4 DEF Next
<1> QED BY <1>1, CurveInitially, PTL DEF Spec

-----------------------------------------------------------------------------
(* Power-of-two buckets and capacities.                                    *)

LEMMA BitLengthIs ==
  /\ BitLength[0] = 0
  /\ \A n \in Nat \ {0} : BitLength[n] = 1 + BitLength[n \div 2]
  /\ \A n \in Nat : BitLength[n] \in Nat
<1> DEFINE S == Nat
           half == [n \in S |-> IF n = 0 THEN 0 ELSE n \div 2]
           more == [n \in S |-> [v \in Nat |-> 1 + v]]
           rank == [n \in S |-> n]
<1>0. \A n \in S : n # 0 => n \div 2 \in S /\ n \div 2 < n
  OBVIOUS
<1>1. \E f \in [S -> Nat] : \A n \in S : f[n] = IF n \in {0} THEN 0 ELSE more[n][f[half[n]]]
  <2>1. Descends(S, Nat, rank, {0}, half, 0, more)
    BY <1>0 DEF Descends
  <2> HIDE DEF S, half, more, rank
  <2> QED BY <2>1, RecursionExists
<1>2. PICK f \in [S -> Nat] : \A n \in S : f[n] = IF n = 0 THEN 0 ELSE 1 + f[n \div 2]
  <2>1. PICK f \in [S -> Nat] : \A n \in S : f[n] = IF n \in {0} THEN 0 ELSE more[n][f[half[n]]]
    BY <1>1
  <2>2. ASSUME NEW n \in S PROVE f[n] = IF n = 0 THEN 0 ELSE 1 + f[n \div 2]
    <3>1. n # 0 => half[n] = n \div 2 /\ f[n \div 2] \in Nat
      BY <1>0
    <3>2. \A v \in Nat : more[n][v] = 1 + v
      OBVIOUS
    <3> HIDE DEF half, more, S
    <3> QED BY <2>1, <3>1, <3>2
  <2> HIDE DEF S
  <2> QED BY <2>2
<1>3. f = [n \in Nat |-> IF n = 0 THEN 0 ELSE 1 + f[n \div 2]]
  BY <1>2
<1>4. BitLength = [n \in Nat |-> IF n = 0 THEN 0 ELSE 1 + BitLength[n \div 2]]
  BY <1>3 DEF BitLength
<1>5. \A n \in Nat : BitLength[n] = IF n = 0 THEN 0 ELSE 1 + BitLength[n \div 2]
  BY <1>4
<1> DEFINE G == {m \in Nat : \A n \in Nat : n <= m => BitLength[n] \in Nat}
<1>6. 0 \in G
  BY <1>5
<1>7. ASSUME NEW m \in G PROVE m + 1 \in G
  <2> SUFFICES ASSUME NEW n \in Nat, n <= m + 1 PROVE BitLength[n] \in Nat
    OBVIOUS
  <2>1. CASE n = 0
    BY <1>5, <2>1
  <2>2. CASE n # 0
    <3>1. n \div 2 \in Nat /\ n \div 2 <= m
      BY <1>0, <2>2
    <3>2. BitLength[n \div 2] \in Nat
      BY <3>1
    <3> QED BY <1>5, <2>2, <3>2
  <2> QED BY <2>1, <2>2
<1>8. \A m \in Nat : m \in G
  <2> HIDE DEF G
  <2>1. G \in SUBSET Nat
    BY DEF G
  <2> QED BY <1>6, <1>7, <2>1, NaturalSetInduction
<1>9. \A n \in Nat : BitLength[n] \in Nat
  BY <1>8
<1> QED BY <1>5, <1>9

\* A number lies between the powers of its bit length.
LEMMA BitLengthBounds ==
  \A d \in Nat \ {0} : /\ BitLength[d] \in Nat \ {0} /\ BitLength[d] - 1 \in Nat
                       /\ Power[BitLength[d] - 1] <= d /\ d < Power[BitLength[d]]
<1> DEFINE Good(d) == /\ BitLength[d] \in Nat \ {0} /\ BitLength[d] - 1 \in Nat
                      /\ Power[BitLength[d] - 1] <= d /\ d < Power[BitLength[d]]
           G == {m \in Nat : \A d \in Nat \ {0} : d <= m => Good(d)}
<1>1. 0 \in G
  OBVIOUS
<1>2. ASSUME NEW m \in G PROVE m + 1 \in G
  <2> SUFFICES ASSUME NEW d \in Nat \ {0}, d <= m + 1 PROVE Good(d)
    OBVIOUS
  <2>1. CASE d = 1
    <3>1. 1 \div 2 = 0
      OBVIOUS
    <3>2. BitLength[d] = 1
      BY <2>1, <3>1, BitLengthIs
    <3>3. Power[0] = 1 /\ Power[1] = 2
      <4>1. Power[0] = 1 /\ Power[0 + 1] = 2 * Power[0]
        BY PowerIs
      <4> QED BY <4>1
    <3> QED BY <2>1, <3>2, <3>3
  <2>2. CASE d # 1
    <3> DEFINE q == d \div 2
               b == BitLength[q]
    <3>1. q \in Nat \ {0} /\ q <= m /\ (d = 2 * q \/ d = (2 * q) + 1)
      BY <2>2
    <3> HIDE DEF q
    <3>2. Good(q)
      BY <3>1
    <3>3. b \in Nat \ {0} /\ b - 1 \in Nat /\ Power[b - 1] <= q /\ q < Power[b]
      BY <3>2
    <3>4. BitLength[d] = 1 + b
      BY BitLengthIs DEF q
    <3> HIDE DEF b
    <3>5. Power[b] = 2 * Power[b - 1] /\ Power[b + 1] = 2 * Power[b] /\ Power[b - 1] \in Nat /\ Power[b] \in Nat
      <4>1. (b - 1) + 1 = b
        BY <3>3
      <4>2. Power[(b - 1) + 1] = 2 * Power[b - 1] /\ Power[b + 1] = 2 * Power[b] /\ Power[b - 1] \in Nat /\ Power[b] \in Nat
        BY <3>3, PowerIs
      <4> QED BY <4>1, <4>2
    <3>6. BitLength[d] = b + 1 /\ BitLength[d] - 1 = b
      BY <3>3, <3>4
    <3>7. Power[b] <= d /\ d < Power[b + 1]
      BY <3>1, <3>3, <3>5
    <3> QED BY <3>3, <3>6, <3>7
  <2> QED BY <2>1, <2>2
<1>3. \A m \in Nat : m \in G
  <2> HIDE DEF G
  <2>1. G \in SUBSET Nat
    BY DEF G
  <2> QED BY <1>1, <1>2, <2>1, NaturalSetInduction
<1> QED BY <1>3

\* The least distance of bucket k.
Lowest(k) == IF k = 0 THEN 0 ELSE Power[k - 1]

LEMMA BucketIndexIs ==
  ASSUME NEW d \in Nat
  PROVE  /\ BucketIndex(d) \in Nat
         /\ \A k \in Nat : BucketIndex(d) = k <=> Lowest(k) <= d /\ d < Power[k]
<1>1. Power[0] = 1
  BY PowerIs
<1>2. CASE d = 0
  <2>1. BucketIndex(d) = 0
    BY <1>2 DEF BucketIndex
  <2>2. ASSUME NEW k \in Nat, k # 0 PROVE ~(Lowest(k) <= d)
    <3>1. k - 1 \in Nat
      BY <2>2
    <3>2. Power[k - 1] \in Nat \ {0}
      BY <3>1, PowerPositive
    <3> QED BY <1>2, <2>2, <3>2 DEF Lowest
  <2> QED BY <1>1, <1>2, <2>1, <2>2 DEF Lowest
<1>3. CASE d # 0
  <2> DEFINE b == BitLength[d]
  <2>1. b \in Nat /\ b # 0 /\ b - 1 \in Nat /\ Power[b - 1] <= d /\ d < Power[b]
    BY <1>3, BitLengthBounds
  <2>2. BucketIndex(d) = b
    BY <1>3 DEF BucketIndex
  <2> HIDE DEF b
  <2>3. Lowest(b) <= d /\ d < Power[b]
    BY <2>1 DEF Lowest
  <2>4. ASSUME NEW k \in Nat, Lowest(k) <= d, d < Power[k] PROVE b = k
    <3>0. Power[k] \in Nat /\ Power[b] \in Nat /\ Power[b - 1] \in Nat
      BY <2>1, PowerIs
    <3>1. ~(b < k)
      <4> SUFFICES ASSUME b < k PROVE FALSE
        OBVIOUS
      <4>1. k - 1 \in Nat /\ b <= k - 1 /\ k # 0
        BY <2>1
      <4>2. Power[b] <= Power[k - 1] /\ Power[k - 1] \in Nat
        BY <2>1, <4>1, PowerGrows, PowerIs
      <4>3. Power[k - 1] <= d
        BY <2>4, <4>1 DEF Lowest
      <4> QED BY <2>1, <3>0, <4>2, <4>3
    <3>2. ~(k < b)
      <4> SUFFICES ASSUME k < b PROVE FALSE
        OBVIOUS
      <4>1. k <= b - 1
        BY <2>1
      <4>2. Power[k] <= Power[b - 1]
        BY <2>1, <4>1, PowerGrows
      <4> QED BY <2>1, <2>4, <3>0, <4>2
    <3> QED BY <2>1, <3>1, <3>2
  <2> QED BY <2>1, <2>2, <2>3, <2>4
<1> QED BY <1>2, <1>3

\* The last of the default capacities is the first power of two that is large enough.
LEMMA CapacitiesEnd ==
  ASSUME NEW limit \in Nat
  PROVE  LET sizes == Capacities(limit)
         IN sizes[Len(sizes)] \in Nat /\ sizes[Len(sizes)] >= limit
<1> DEFINE T == {k \in Nat : Power[k] >= limit}
           P(k) == Power[k] >= limit /\ \A j \in 0 .. k - 1 : Power[j] < limit
           n == CHOOSE k \in 0 .. limit : P(k)
           sizes == Capacities(limit)
<1>1. limit \in T
  <2>1. limit < Power[limit] /\ Power[limit] \in Nat
    BY PowerAbove, PowerIs
  <2> QED BY <2>1
<1>2. PICK l \in T : \A k \in T : l <= k
  <2>1. T \in SUBSET Nat /\ T # {}
    BY <1>1
  <2> HIDE DEF T
  <2>2. \E l \in T : \A k \in T : l <= k
    BY <2>1, LeastOfNaturals
  <2> QED BY <2>2
<1>3. l \in 0 .. limit /\ P(l)
  <2>1. l \in Nat /\ l <= limit /\ Power[l] >= limit
    BY <1>1, <1>2
  <2>2. ASSUME NEW j \in 0 .. l - 1 PROVE Power[j] < limit
    <3>1. j \in Nat /\ ~(l <= j)
      BY <2>1
    <3>2. j \notin T
      BY <1>2, <3>1
    <3>3. ~(Power[j] >= limit) /\ Power[j] \in Nat
      BY <3>1, <3>2, PowerIs
    <3> QED BY <3>3
  <2> QED BY <2>1, <2>2
<1> HIDE DEF P
<1>4. n \in 0 .. limit /\ P(n)
  BY <1>3
<1>5. sizes = [k \in 1 .. n + 1 |-> Power[k - 1]]
  BY DEF Capacities, P
<1> HIDE DEF n, sizes
<1>6. Len(sizes) = n + 1 /\ sizes[n + 1] = Power[n]
  <2>1. n \in Nat /\ (n + 1) - 1 = n /\ n + 1 \in 1 .. n + 1 /\ n + 1 \in Nat
    BY <1>4
  <2>2. Len(sizes) = n + 1
    BY <1>5, <2>1
  <2>3. sizes[n + 1] = Power[(n + 1) - 1]
    BY <1>5, <2>1
  <2> QED BY <2>1, <2>2, <2>3
<1>7. Power[n] \in Nat /\ Power[n] >= limit
  BY <1>4, PowerIs DEF P
<1> QED BY <1>6, <1>7 DEF sizes

-----------------------------------------------------------------------------
(* What a histogram is asked.                                              *)

\* The distances of a cache size that miss.
From(w) == {d \in Nat : d >= w}

LEMMA ReusesAre ==
  ASSUME NEW p \in Profile, NEW w \in Nat
  PROVE  /\ ReusesAtLeast(p, w) = Total(p.histogram, From(w))
         /\ ReusesAtLeast(p, w) \in Nat
         /\ w >= Len(p.histogram) => ReusesAtLeast(p, w) = 0
<1> DEFINE h == p.histogram
           E == {e \in 0 .. Len(h) : e >= w}
<1>1. h \in Seq(Nat) /\ Len(h) \in Nat
  BY DEF Profile
<1>2. ReusesAtLeast(p, w) = Total(h, E)
  BY DEF ReusesAtLeast
<1> HIDE DEF h
<1>3. E \cap (0 .. Len(h) - 1) = From(w) \cap (0 .. Len(h) - 1)
  BY <1>1 DEF From
<1>4. Total(h, E) = Total(h, From(w)) /\ Total(h, E) \in Nat
  <2> HIDE DEF E
  <2> QED BY <1>1, <1>3, TotalWithin, TotalType
<1>5. ASSUME w >= Len(h) PROVE Total(h, From(w)) = 0
  <2>1. From(w) \cap (0 .. Len(h) - 1) = {} \cap (0 .. Len(h) - 1)
    BY <1>1, <1>5 DEF From
  <2>2. Total(h, From(w)) = Total(h, {})
    BY <1>1, <2>1, TotalWithin
  <2> DEFINE none == Total(h, {})
  <2>3. none = none + none /\ none \in Nat
    <3>1. {} \cap {} = {} /\ {} \cup {} = {}
      OBVIOUS
    <3>2. Total(h, {} \cup {}) = Total(h, {}) + Total(h, {}) /\ Total(h, {}) \in Nat
      BY <1>1, <3>1, TotalSplits, TotalType
    <3> QED BY <3>1, <3>2
  <2> HIDE DEF none
  <2>4. none = 0
    BY <2>3
  <2> QED BY <2>2, <2>4 DEF none
<1> QED BY <1>2, <1>4, <1>5 DEF h

\* The working set is the least size whose misses are near the floor.
LEMMA WorkingSetIs ==
  ASSUME NEW p \in Profile, NEW percent \in Nat, p.references = 0 => p.histogram = <<>>
  PROVE  LET size == WorkingSetSize(p, <<percent, 100>>)
             Near(w) == ReusesAtLeast(p, w) * 100 <= percent * p.references
         IN size \in Nat \ {0} /\ Near(size) /\ \A w \in 1 .. size - 1 : ~Near(w)
<1> DEFINE h == p.histogram
           size == WorkingSetSize(p, <<percent, 100>>)
           limit == percent * p.references
           Near(w) == ReusesAtLeast(p, w) * 100 <= limit
           enough == {c \in 1 .. Len(h) : Near(c)}
           P(c) == \A d \in enough : c <= d
<1>1. h \in Seq(Nat) /\ Len(h) \in Nat /\ p.references \in Nat
  BY DEF Profile
<1>2. limit \in Nat
  BY <1>1
<1>3. \A w \in Nat : w >= Len(h) => Near(w)
  <2> SUFFICES ASSUME NEW w \in Nat, w >= Len(h) PROVE Near(w)
    OBVIOUS
  <2>1. ReusesAtLeast(p, w) = 0
    BY ReusesAre
  <2> HIDE DEF limit
  <2> QED BY <1>2, <2>1
<1>4. <<percent, 100>>[1] = percent /\ <<percent, 100>>[2] = 100
  OBVIOUS
<1>5. size = IF p.references = 0 \/ h = <<>> THEN 1 ELSE CHOOSE c \in enough : P(c)
  BY <1>4 DEF WorkingSetSize
<1>6. h = <<>> => Len(h) = 0
  OBVIOUS
<1>7. h # <<>> => Len(h) \in 1 .. Len(h)
  BY <1>1
<1>h. p.references = 0 => h = <<>>
  OBVIOUS
<1> HIDE DEF h, limit, Near, size
<1>8. CASE h = <<>>
  <2>1. size = 1
    BY <1>5, <1>8
  <2>2. Near(1)
    BY <1>3, <1>6, <1>8
  <2> QED BY <2>1, <2>2 DEF Near, size, limit
<1>9. CASE h # <<>>
  <2>1. Len(h) \in enough
    BY <1>1, <1>3, <1>7, <1>9
  <2>2. enough \in SUBSET Nat
    BY <1>1
  <2> HIDE DEF enough
  <2>3. \E l \in enough : \A d \in enough : l <= d
    BY <2>1, <2>2, LeastOfNaturals
  <2>4. \E l \in enough : P(l)
    BY <2>3
  <2>5. size = CHOOSE c \in enough : P(c)
    BY <1>5, <1>9, <1>h
  <2>6. size \in enough /\ P(size)
    <3> HIDE DEF P
    <3> QED BY <2>4, <2>5
  <2>7. size \in 1 .. Len(h) /\ Near(size)
    BY <2>6 DEF enough
  <2>8. ASSUME NEW w \in 1 .. size - 1 PROVE ~Near(w)
    <3>1. w \in 1 .. Len(h) /\ ~(size <= w)
      BY <1>1, <2>7
    <3>2. w \notin enough
      BY <2>6, <3>1
    <3> QED BY <3>1, <3>2 DEF enough
  <2>9. size \in Nat \ {0}
    BY <1>1, <2>7
  <2> QED BY <2>7, <2>8, <2>9 DEF Near, size, limit
<1> QED BY <1>8, <1>9

-----------------------------------------------------------------------------
(* The finished profile.                                                   *)

\* It tallies all references.
LEMMA FinishedTally ==
  ASSUME CurveInv, Finished
  PROVE  Tallies(merged, 1 .. Len(stream), Distances(stream, numSets))
<1>1. stream \in Seq(Nat) /\ Len(stream) \in Nat /\ numSets \in Nat \ {0}
  BY StreamTypes DEF CurveInv, DistanceInv
<1>2. \A n \in 1 .. Len(stream) : stream[n] % numSets < numSets
  <2> SUFFICES ASSUME NEW n \in 1 .. Len(stream) PROVE stream[n] % numSets < numSets
    OBVIOUS
  <2>1. stream[n] \in Nat
    BY <1>1
  <2> QED BY <1>1, <2>1
<1>3. InSetsBelow(stream, numSets, numSets) = 1 .. Len(stream)
  BY <1>2 DEF InSetsBelow
<1> QED BY <1>3 DEF CurveInv, Finished

\* Its miss counts are those of the caches.
LEMMA MissesAreExact ==
  ASSUME CurveInv, Finished, NEW ways \in Nat
  PROVE  LRUMisses(ways) = merged.infinite + ReusesAtLeast(merged, ways) /\ merged.infinite \in Nat
<1> DEFINE dist == Distances(stream, numSets)
           M == 1 .. Len(stream)
<1>1. stream \in Seq(Nat) /\ numSets \in Nat \ {0} /\ merged \in Profile
  BY StreamTypes DEF CurveInv, DistanceInv, TypeOK
<1>2. Tallies(merged, M, dist)
  BY FinishedTally
<1>3. LRUMisses(ways) = Cardinality(Among(M, dist, {INFINITE} \cup From(ways)))
  BY <1>1, LRUMissesAre DEF From
<1> HIDE DEF M, dist
<1>4. /\ IsFiniteSet(M) /\ merged.infinite = Cardinality(Among(M, dist, {INFINITE}))
      /\ Total(merged.histogram, From(ways)) = Cardinality(Among(M, dist, From(ways)))
  <2>1. From(ways) \in SUBSET Nat
    BY DEF From
  <2> QED BY <1>2, <2>1 DEF Tallies
<1> DEFINE A == Among(M, dist, {INFINITE})
           B == Among(M, dist, From(ways))
<1>5. Among(M, dist, {INFINITE} \cup From(ways)) = A \cup B
  BY DEF Among
<1>6. A \cap B = {}
  BY DEF Among, From, INFINITE
<1>7. IsFiniteSet(A) /\ IsFiniteSet(B)
  BY <1>4, AmongFinite
<1> HIDE DEF A, B
<1>8. Cardinality(A \cup B) = Cardinality(A) + Cardinality(B) /\ Cardinality(A) \in Nat
  BY <1>6, <1>7, ApartUnion
<1>9. ReusesAtLeast(merged, ways) = Total(merged.histogram, From(ways))
  BY <1>1, ReusesAre
<1> QED BY <1>3, <1>4, <1>5, <1>8, <1>9 DEF A, B

\* Its buckets have the references of their ranges.
LEMMA BucketsAreExact ==
  ASSUME CurveInv, Finished
  PROVE  BucketsPartition
<1> DEFINE h == merged.histogram
           largest == Len(h) - 1
           InBucket(k) == {d \in 0 .. largest : BucketIndex(d) = k}
           last_bucket == IF largest < 0 THEN -1 ELSE BucketIndex(largest)
           ranges == ReuseBuckets(merged)
           M == 1 .. Len(stream)
           dist == Distances(stream, numSets)
<1>1. merged \in Profile /\ h \in Seq(Nat) /\ Len(h) \in Nat
  BY DEF CurveInv, DistanceInv, TypeOK, Profile
<1>2. ranges = [k \in 0 .. last_bucket |-> Total(h, InBucket(k))]
  BY DEF ReuseBuckets
<1>3. Tallies(merged, M, dist)
  BY FinishedTally
<1>4. \A w \in Nat : ReusesAtLeast(merged, w) = Total(h, From(w)) /\ ReusesAtLeast(merged, w) \in Nat
  BY <1>1, ReusesAre
<1>5. h # <<>> => largest \in Nat
  BY <1>1
<1>6. h = <<>> => last_bucket = -1
  OBVIOUS
<1>7. h # <<>> => last_bucket \in Nat /\ last_bucket = BucketIndex(largest)
  BY <1>5, BucketIndexIs
<1>t. (h # <<>> => \E n \in M : dist[n] = largest) /\ IsFiniteSet(M)
      /\ \A D \in SUBSET Nat : Total(h, D) = Cardinality(Among(M, dist, D))
  BY <1>3 DEF Tallies
<1> HIDE DEF h, M, dist, ranges, last_bucket
<1>8. \A k \in DOMAIN ranges : k \in Nat /\ ranges[k] = Total(h, InBucket(k))
  BY <1>2, <1>5, <1>6, <1>7
<1>9. ASSUME NEW k \in DOMAIN ranges
      PROVE  ranges[k] = ReusesAtLeast(merged, Lowest(k)) - ReusesAtLeast(merged, Power[k])
  <2>1. k \in Nat /\ ranges[k] = Total(h, InBucket(k))
    BY <1>8
  <2>2. Power[k] \in Nat /\ Lowest(k) \in Nat /\ Lowest(k) <= Power[k]
    <3>1. Power[k] \in Nat
      BY <2>1, PowerIs
    <3>2. CASE k = 0
      BY <3>1, <3>2 DEF Lowest
    <3>3. CASE k # 0
      <4>1. k - 1 \in Nat /\ k - 1 <= k
        BY <2>1, <3>3
      <4>2. Power[k - 1] \in Nat /\ Power[k - 1] <= Power[k]
        BY <2>1, <4>1, PowerIs, PowerGrows
      <4> QED BY <3>1, <3>3, <4>2 DEF Lowest
    <3> QED BY <3>2, <3>3
  <2> DEFINE R == {d \in Nat : Lowest(k) <= d /\ d < Power[k]}
  <2>3. InBucket(k) \cap (0 .. Len(h) - 1) = R \cap (0 .. Len(h) - 1)
    <3>1. \A d \in 0 .. Len(h) - 1 : d \in Nat /\ (BucketIndex(d) = k <=> Lowest(k) <= d /\ d < Power[k])
      <4> SUFFICES ASSUME NEW d \in 0 .. Len(h) - 1
                   PROVE  d \in Nat /\ (BucketIndex(d) = k <=> Lowest(k) <= d /\ d < Power[k])
        OBVIOUS
      <4>1. d \in Nat
        BY <1>1
      <4> QED BY <2>1, <4>1, BucketIndexIs
    <3> QED BY <3>1
  <2>4. Total(h, InBucket(k)) = Total(h, R)
    <3> HIDE DEF InBucket, R
    <3> QED BY <1>1, <2>3, TotalWithin
  <2>5. R \cap From(Power[k]) = {} /\ R \cup From(Power[k]) = From(Lowest(k))
    <3> DEFINE top == Power[k]
               low == Lowest(k)
    <3>1. top \in Nat /\ low \in Nat /\ low <= top
      BY <2>2
    <3> HIDE DEF top, low
    <3>2. ASSUME NEW d \in Nat
          PROVE  ~((low <= d /\ d < top) /\ d >= top) /\ ((low <= d /\ d < top) \/ d >= top <=> d >= low)
      BY <3>1
    <3> QED BY <3>2 DEF From, top, low
  <2>6. Total(h, R \cup From(Power[k])) = Total(h, R) + Total(h, From(Power[k]))
    <3> HIDE DEF R
    <3> QED BY <1>1, <2>5, TotalSplits
  <2>7. Total(h, R) \in Nat /\ Total(h, From(Power[k])) \in Nat
    BY <1>1, TotalType
  <2>8. /\ ReusesAtLeast(merged, Lowest(k)) = Total(h, From(Lowest(k)))
        /\ ReusesAtLeast(merged, Power[k]) = Total(h, From(Power[k]))
    BY <1>4, <2>2
  <2> DEFINE inside == Total(h, R)
             above == Total(h, From(Power[k]))
             total == Total(h, From(Lowest(k)))
  <2>9. total = inside + above
    BY <2>5, <2>6
  <2>10. inside \in Nat /\ above \in Nat
    BY <2>7
  <2>11. ranges[k] = inside /\ ReusesAtLeast(merged, Lowest(k)) = total /\ ReusesAtLeast(merged, Power[k]) = above
    BY <2>1, <2>4, <2>8
  <2> HIDE DEF inside, above, total
  <2> QED BY <2>9, <2>10, <2>11
<1>10. ASSUME ranges # <<>>
       PROVE  \E k \in DOMAIN ranges : k + 1 \notin DOMAIN ranges /\ ranges[k] > 0
  <2>1. h # <<>>
    <3> SUFFICES ASSUME h = <<>> PROVE FALSE
      OBVIOUS
    <3>1. 0 .. last_bucket = {}
      BY <1>6
    <3>2. ranges = [k \in {} |-> Total(h, InBucket(k))]
      BY <1>2, <3>1
    <3>3. ranges = <<>>
      <4> HIDE DEF InBucket
      <4> QED BY <3>2
    <3> QED BY <1>10, <3>3
  <2>2. last_bucket \in Nat /\ last_bucket = BucketIndex(largest) /\ largest \in Nat
    BY <1>5, <1>7, <2>1
  <2>3. DOMAIN ranges = 0 .. last_bucket
    BY <1>2
  <2>4. last_bucket \in DOMAIN ranges /\ last_bucket + 1 \notin DOMAIN ranges
    BY <2>2, <2>3
  <2>5. InBucket(last_bucket) \in SUBSET Nat /\ largest \in InBucket(last_bucket)
    BY <2>2
  <2>6. PICK n \in M : dist[n] = largest
    BY <1>t, <2>1
  <2> HIDE DEF InBucket, largest
  <2>7. n \in Among(M, dist, InBucket(last_bucket))
    BY <2>5, <2>6 DEF Among
  <2>8. /\ IsFiniteSet(Among(M, dist, InBucket(last_bucket)))
        /\ Cardinality(Among(M, dist, InBucket(last_bucket))) \in Nat
    BY <1>t, AmongFinite
  <2>9. Cardinality(Among(M, dist, InBucket(last_bucket))) # 0
    BY <2>7, <2>8, FS_EmptySet
  <2>10. ranges[last_bucket] = Cardinality(Among(M, dist, InBucket(last_bucket)))
    BY <1>8, <1>t, <2>4, <2>5
  <2>11. ranges[last_bucket] > 0
    BY <2>8, <2>9, <2>10
  <2> QED BY <2>4, <2>11
<1> QED BY <1>9, <1>10 DEF BucketsPartition, Lowest, ranges

-----------------------------------------------------------------------------
(* The theorems.                                                           *)

\* stack_distances yields what it promises, for every stream and number of sets:
\* INFINITE at a first reference, otherwise the number of distinct blocks
\* referenced since the previous reference to the block.
THEOREM DistanceIsExact == Spec => []DistanceIsReuse
BY DistanceInvariant, PTL DEF DistanceInv

\* The tree of stack_distances always holds one 1 per block referenced, at the
\* timestamp of the latest reference to it.
THEOREM MarkersStayAtLastUse == Spec => []MarkersAtLastUse
<1>1. DistanceInv => MarkersAtLastUse
  <2> SUFFICES ASSUME DistanceInv, NEW t \in 0 .. i - 1
               PROVE  (\E b \in Blocks : last[b] = t) <=> LatestBefore(t, i)
    BY DEF DistanceInv, MarksAreLast, MarkersAtLastUse
  <2>1. set < numSets /\ i \in Nat /\ i <= Len(Bucket) /\ Bucket \in Seq(Blocks)
        /\ last \in [Blocks -> -1 .. i - 1]
    BY SetCountsAssumption DEF DistanceInv, TypeOK, Phases, Bucket
  <2>2. ASSUME NEW b \in Blocks, last[b] = t PROVE LatestBefore(t, i)
    BY <2>1, <2>2 DEF DistanceInv, LastIsLatest
  <2>3. ASSUME LatestBefore(t, i) PROVE \E b \in Blocks : last[b] = t
    <3> DEFINE b == Bucket[t + 1]
               u == last[b]
    <3>1. b \in Blocks /\ u \in -1 .. i - 1
      BY <2>1
    <3>2. u # -1
      BY <3>1 DEF DistanceInv, LastIsLatest
    <3>3. Bucket[u + 1] = b /\ LatestBefore(u, i)
      BY <3>1, <3>2 DEF DistanceInv, LastIsLatest
    <3>4. u = t
      BY <2>1, <2>3, <3>1, <3>2, <3>3 DEF LatestBefore
    <3>5. QED
      BY <3>1, <3>4
  <2>4. QED
    BY <2>2, <2>3
<1>2. QED
  BY <1>1, DistanceInvariant, PTL

\* The profiler's variables keep their types, for every stream.
THEOREM ProfileTypeCorrect == Spec => []TypeOK
BY DistanceInvariant, PTL DEF DistanceInv

\* stackdist.py:66, for every stream and number of sets: after any calls of add that
\* stack_distances makes, the binary indexed tree holds what it should, whatever
\* range is asked for.
THEOREM TreeIsExact == TreeSpec => []TreeCountsMarkers
<1>1. TreeInit => DistanceInv /\ TreeInv
  BY InitDistance, TreeInitially DEF TreeInit
<1>2. DistanceInv /\ TreeInv /\ [TreeNext]_treeVars => DistanceInv' /\ TreeInv'
  <2> SUFFICES ASSUME DistanceInv, TreeInv, [TreeNext]_treeVars PROVE DistanceInv' /\ TreeInv'
    OBVIOUS
  <2>1. CASE TreeSplit
    <3>1. DistanceInv'
      BY <2>1, SplitDistance DEF TreeSplit
    <3> QED BY <2>1, <3>1, TreeSplitKeeps
  <2>2. CASE TreeReference
    BY <2>2, ReferenceDistance, TreeReferenceKeeps DEF TreeReference
  <2>3. CASE TreeNextBucket
    <3>1. DistanceInv'
      BY <2>3, NextBucketDistance DEF TreeNextBucket
    <3> QED BY <2>3, <3>1, TreeNextBucketKeeps
  <2>4. CASE UNCHANGED treeVars
    <3>1. DistanceInv'
      BY <2>4, DistanceStutters DEF treeVars
    <3>2. TreeInv'
      BY <2>4 DEF treeVars, vars, TreeInv, Bucket, InRange
    <3> QED BY <3>1, <3>2
  <2> QED BY <2>1, <2>2, <2>3, <2>4 DEF TreeNext
<1> QED BY <1>1, <1>2, TreeReads, PTL DEF TreeSpec

\* Running the tree beside the profiler changes nothing of it, so what is proved of
\* Spec holds there too.
THEOREM TreeRunsBeside == TreeSpec => Spec
<1>1. TreeInit => Init
  BY DEF TreeInit
<1>2. [TreeNext]_treeVars => [Next]_vars
  BY DEF TreeNext, TreeSplit, TreeReference, TreeNextBucket, Next, treeVars, vars
<1> QED BY <1>1, <1>2, PTL DEF TreeSpec, Spec

\* stackdist.py:246, for every stream and number of sets: the miss curve of the profile is
\* exact for every number of ways, its reuse histogram loses and repeats no reference, the
\* working set is the smallest size that near the floor, and the default capacities reach it.
THEOREM CurveIsExact == Spec => []MissCurve
<1>1. ASSUME CurveInv, Finished PROVE CurveExact /\ BucketsPartition /\ WorkingSetSmallest /\ LastAtFloor
  <2>1. \A ways \in Nat : LRUMisses(ways) = merged.infinite + ReusesAtLeast(merged, ways) /\ merged.infinite \in Nat
    BY <1>1, MissesAreExact
  <2>2. merged \in Profile /\ merged.histogram \in Seq(Nat) /\ Len(merged.histogram) \in Nat /\ Len(stream) \in Nat
    BY <1>1, StreamTypes DEF CurveInv, DistanceInv, TypeOK, Profile
  <2>3. \A ways \in Nat : /\ ReusesAtLeast(merged, ways) \in Nat
                          /\ ways >= Len(merged.histogram) => ReusesAtLeast(merged, ways) = 0
    BY <2>2, ReusesAre
  <2>4. CurveExact
    <3>1. \A ways \in 0 .. MaxReferences + 1 : ways \in Nat
      OBVIOUS
    <3> QED BY <2>1, <3>1 DEF CurveExact, Misses
  <2>5. BucketsPartition
    BY <1>1, BucketsAreExact
  <2>6. merged.references = Len(stream) /\ (merged.references = 0 => merged.histogram = <<>>)
    <3>1. Tallies(merged, 1 .. Len(stream), Distances(stream, numSets))
      BY <1>1, FinishedTally
    <3>2. Cardinality(1 .. Len(stream)) = Len(stream)
      <4>1. 1 \in Int /\ Len(stream) \in Int
        BY <2>2
      <4>2. Cardinality(1 .. Len(stream)) = IF 1 > Len(stream) THEN 0 ELSE Len(stream) - 1 + 1
        BY <4>1, FS_Interval
      <4> QED BY <2>2, <4>2
    <3>3. merged.references = Len(stream)
      BY <3>1, <3>2 DEF Tallies
    <3>4. merged.histogram # <<>> => \E n \in 1 .. Len(stream) : TRUE
      BY <3>1 DEF Tallies
    <3> QED BY <2>2, <3>3, <3>4
  <2>7. WorkingSetSmallest
    <3> SUFFICES ASSUME NEW percent \in {0, 25, 50}
                 PROVE  LET size == WorkingSetSize(merged, <<percent, 100>>)
                            Near(ways) == 100 * (LRUMisses(ways) - merged.infinite) <= percent * Len(stream)
                        IN Near(size) /\ \A ways \in 1 .. size - 1 : ~Near(ways)
      BY DEF WorkingSetSmallest
    <3> DEFINE size == WorkingSetSize(merged, <<percent, 100>>)
               limit == percent * Len(stream)
    <3>0. percent \in Nat
      OBVIOUS
    <3>1. /\ size \in Nat \ {0}
          /\ ReusesAtLeast(merged, size) * 100 <= percent * merged.references
          /\ \A w \in 1 .. size - 1 : ~(ReusesAtLeast(merged, w) * 100 <= percent * merged.references)
      BY <2>2, <2>6, <3>0, WorkingSetIs
    <3> HIDE DEF size
    <3>2. /\ ReusesAtLeast(merged, size) * 100 <= limit
          /\ \A w \in 1 .. size - 1 : ~(ReusesAtLeast(merged, w) * 100 <= limit)
      BY <2>6, <3>1
    <3>3. limit \in Nat
      BY <2>2, <3>0
    <3> HIDE DEF limit
    <3>4. \A w \in Nat : 100 * (LRUMisses(w) - merged.infinite) = ReusesAtLeast(merged, w) * 100
      <4> SUFFICES ASSUME NEW w \in Nat PROVE 100 * (LRUMisses(w) - merged.infinite) = ReusesAtLeast(merged, w) * 100
        OBVIOUS
      <4>1. LRUMisses(w) = merged.infinite + ReusesAtLeast(merged, w) /\ merged.infinite \in Nat /\ ReusesAtLeast(merged, w) \in Nat
        BY <2>1, <2>3
      <4> QED BY <4>1
    <3>5. \A w \in 1 .. size - 1 : w \in Nat
      BY <3>1
    <3>6. 100 * (LRUMisses(size) - merged.infinite) <= limit
      BY <3>1, <3>2, <3>4
    <3>7. \A w \in 1 .. size - 1 : ~(100 * (LRUMisses(w) - merged.infinite) <= limit)
      BY <3>2, <3>4, <3>5
    <3> QED BY <3>6, <3>7 DEF size, limit
  <2>8. LastAtFloor
    <3> DEFINE sizes == Capacities(Len(merged.histogram))
               c == sizes[Len(sizes)]
    <3>1. c \in Nat /\ c >= Len(merged.histogram)
      BY <2>2, CapacitiesEnd
    <3> HIDE DEF sizes, c
    <3>2. LRUMisses(c) = merged.infinite
      <4>1. LRUMisses(c) = merged.infinite + ReusesAtLeast(merged, c) /\ merged.infinite \in Nat
        BY <2>1, <3>1
      <4>2. ReusesAtLeast(merged, c) = 0
        BY <2>3, <3>1
      <4> QED BY <4>1, <4>2
    <3> QED BY <3>2 DEF LastAtFloor, c, sizes
  <2> QED BY <2>4, <2>5, <2>7, <2>8
<1>2. CurveInv => MissCurve
  BY <1>1 DEF MissCurve
<1> QED BY <1>2, CurveInvariant, PTL
=============================================================================
