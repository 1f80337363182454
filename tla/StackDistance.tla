----------------------------- MODULE StackDistance -----------------------------
(***************************************************************************)
(* The Mattson profiler of cachesim/stackdist.py: per_set_profile splits a *)
(* stream of block references over the sets of a cache, runs               *)
(* stack_distances over each set's references and adds up the histograms.  *)
(* With one set it is stack_distance_profile.                              *)
(*                                                                         *)
(* One step is one reference put in its bucket, or one reference profiled: *)
(* a turn of the loop of stack_distances together with the turn of the     *)
(* loop of stack_distance_profile that consumes what it yields.  The tree  *)
(* is abstracted to the set of timestamps that hold a 1; module            *)
(* FenwickDistance runs the tree itself beside it.                         *)
(***************************************************************************)
EXTENDS Indexing, Sequences, FiniteSets

CONSTANTS
  Blocks,         \* the block numbers of the streams
  SetCounts,      \* the values of num_sets
  MaxReferences   \* bound: the length of a stream

ASSUME BlocksAssumption == Blocks \subseteq Nat
ASSUME SetCountsAssumption == SetCounts \subseteq Nat \ {0}
ASSUME MaxReferencesAssumption == MaxReferences \in Nat

INFINITE == -1

Streams == UNION {[1 .. n -> Blocks] : n \in 0 .. MaxReferences}

\* A StackDistanceProfile: histogram[d + 1] counts the references at distance d.
Profile == [references : Nat, infinite : Nat, histogram : Seq(Nat)]
EmptyProfile == [references |-> 0, infinite |-> 0, histogram |-> <<>>]

VARIABLES
  stream,    \* the references to profile
  numSets,   \* num_sets
  buckets,   \* buckets[k]: the references that map to set k
  read,      \* how many references have been put in their bucket
  set,       \* the set whose references are profiled, numSets when all are
  i,         \* timestamp: how many of them have been consumed
  last,      \* last[b]: timestamp of the latest reference to b, or -1
  marks,     \* the timestamps that hold a 1
  distance,  \* the value yielded last
  sub,       \* the profile of the bucket so far
  merged     \* the profile of the finished buckets

vars == <<stream, numSets, buckets, read, set, i, last, marks, distance, sub, merged>>

-----------------------------------------------------------------------------
\* The references of the set that is profiled.
Bucket == buckets[set]

\* Mutant of RangeSum: the reference that moves the marker counts itself.
IncludesOwnMarker(low, high) == Cardinality(marks \cap (low - 1) .. high)

\* The number of 1s at the timestamps low .. high.
RangeSum(low, high) == Cardinality(marks \cap low .. high)

\* `histogram' extended with zeros to n entries, if it is shorter.
Extended(h, n) == h \o [k \in 1 .. n - Len(h) |-> 0]

\* Mutant of Counted: a distance beyond the histogram replaces it by zeros.
CountedAnew(p, d) ==
  [references |-> p.references + 1,
   infinite |-> IF d = INFINITE THEN p.infinite + 1 ELSE p.infinite,
   histogram |-> IF d = INFINITE THEN p.histogram
                 ELSE IF d < Len(p.histogram) THEN [p.histogram EXCEPT ![d + 1] = @ + 1]
                 ELSE [k \in 1 .. d + 1 |-> IF k = d + 1 THEN 1 ELSE 0]]

\* stack_distance_profile takes one more distance.
Counted(p, d) ==
  [references |-> p.references + 1,
   infinite |-> IF d = INFINITE THEN p.infinite + 1 ELSE p.infinite,
   histogram |-> IF d = INFINITE THEN p.histogram
                 ELSE [Extended(p.histogram, d + 1) EXCEPT ![d + 1] = @ + 1]]

\* per_set_profile adds the profile q of one set to the profile p.
Merged(p, q) ==
  LET h == Extended(p.histogram, Len(q.histogram))
  IN [references |-> p.references + q.references,
      infinite |-> p.infinite + q.infinite,
      histogram |-> [d \in DOMAIN h |->
                       h[d] + IF d <= Len(q.histogram) THEN q.histogram[d] ELSE 0]]

-----------------------------------------------------------------------------
Init ==
  /\ stream \in Streams
  /\ numSets \in SetCounts
  /\ buckets = [k \in 0 .. numSets - 1 |-> <<>>]
  /\ read = 0
  /\ set = 0
  /\ i = 0
  /\ last = [b \in Blocks |-> -1]
  /\ marks = {}
  /\ distance = INFINITE
  /\ sub = EmptyProfile
  /\ merged = EmptyProfile

\* Blocks map to sets modulo num_sets.
Split ==
  /\ read < Len(stream)
  /\ LET block == stream[read + 1]
     IN buckets' = [buckets EXCEPT ![block % numSets] = Append(@, block)]
  /\ read' = read + 1
  /\ UNCHANGED <<stream, numSets, set, i, last, marks, distance, sub, merged>>

\* One reference: its distance is yielded and counted, then the marker of its
\* block moves from the timestamp of the previous reference to this one.
Reference ==
  /\ read = Len(stream)
  /\ set < numSets
  /\ i < Len(Bucket)
  /\ LET block == Bucket[i + 1]
         prev == last[block]
     IN /\ distance' = IF prev < 0 THEN INFINITE ELSE RangeSum(prev + 1, i - 1)
        /\ marks' = (marks \ {prev}) \cup {i}
        /\ last' = [last EXCEPT ![block] = i]
        /\ sub' = Counted(sub, distance')
  /\ i' = i + 1
  /\ UNCHANGED <<stream, numSets, buckets, read, set, merged>>

\* The bucket is exhausted: its profile is merged and the next one started.
NextBucket ==
  /\ read = Len(stream)
  /\ set < numSets
  /\ i = Len(Bucket)
  /\ merged' = Merged(merged, sub)
  /\ set' = set + 1
  /\ i' = 0
  /\ last' = [b \in Blocks |-> -1]
  /\ marks' = {}
  /\ distance' = INFINITE
  /\ sub' = EmptyProfile
  /\ UNCHANGED <<stream, numSets, buckets, read>>

Next == Split \/ Reference \/ NextBucket
Spec == Init /\ [][Next]_vars

-----------------------------------------------------------------------------
(* What the profile is asked: the miss curve and the reuse histogram.      *)

\* The references of histogram h whose distance is in D.
Total(h, D) ==
  LET sum[k \in 0 .. Len(h)] == IF k = 0 THEN 0 ELSE sum[k - 1] + IF k - 1 \in D THEN h[k] ELSE 0
  IN sum[Len(h)]

\* reuses_at_least.
ReusesAtLeast(p, d) == Total(p.histogram, {e \in 0 .. Len(p.histogram) : e >= d})

\* misses: of an LRU cache of `ways' lines per set.
Misses(p, ways) == p.infinite + ReusesAtLeast(p, ways)

\* int.bit_length.
BitLength[n \in Nat] == IF n = 0 THEN 0 ELSE 1 + BitLength[n \div 2]

\* The bucket of distance d: 0 for 0, k for 2^(k-1) .. 2^k - 1.
BucketIndex(d) == IF d = 0 THEN 0 ELSE BitLength[d]

\* reuse_histogram: the buckets up to the one of the largest distance.
ReuseBuckets(p) ==
  LET largest == Len(p.histogram) - 1
      InBucket(k) == {d \in 0 .. largest : BucketIndex(d) = k}
  IN [k \in 0 .. (IF largest < 0 THEN -1 ELSE BucketIndex(largest)) |-> Total(p.histogram, InBucket(k))]

\* working_set_size, the tolerance being tolerance[1] / tolerance[2].
WorkingSetSize(p, tolerance) ==
  LET enough == {c \in 1 .. Len(p.histogram) :
                   ReusesAtLeast(p, c) * tolerance[2] <= tolerance[1] * p.references}
  IN IF p.references = 0 \/ p.histogram = <<>> THEN 1
     ELSE CHOOSE c \in enough : \A d \in enough : c <= d

\* power_of_two_capacities.
Capacities(limit) ==
  LET n == CHOOSE k \in 0 .. limit : Power[k] >= limit /\ \A j \in 0 .. k - 1 : Power[j] < limit
  IN [k \in 1 .. n + 1 |-> Power[k - 1]]

-----------------------------------------------------------------------------
(* Properties.                                                             *)

TypeOK ==
  /\ stream \in Streams
  /\ numSets \in SetCounts
  /\ buckets \in [0 .. numSets - 1 -> Seq(Blocks)]
  /\ read \in 0 .. Len(stream)
  /\ set \in 0 .. numSets
  /\ i \in Nat /\ (set < numSets => i <= Len(Bucket))
  /\ last \in [Blocks -> -1 .. i - 1]
  /\ marks \subseteq 0 .. i - 1
  /\ distance \in -1 .. i - 1
  /\ sub \in Profile
  /\ merged \in Profile

\* The timestamp t is the latest reference to its block before timestamp u.
LatestBefore(t, u) == t < u /\ \A v \in t + 1 .. u - 1 : Bucket[v + 1] # Bucket[t + 1]

\* The docstring of stack_distances: the tree holds one 1 per distinct block, at
\* the timestamp of its most recent reference.
MarkersAtLastUse == marks = {t \in 0 .. i - 1 : LatestBefore(t, i)}

\* The distance d of the reference at timestamp u of s: how many distinct blocks
\* were referenced since the previous reference to its block.
IsReuseDistance(d, s, u) ==
  LET previous == {t \in 0 .. u - 1 :
                     s[t + 1] = s[u + 1] /\ \A v \in t + 1 .. u - 1 : s[v + 1] # s[t + 1]}
  IN /\ previous = {} => d = INFINITE
     /\ \A t \in previous : d = Cardinality({s[v + 1] : v \in t + 1 .. u - 1})

\* stack_distances yields what its docstring promises: INFINITE for the first
\* reference to a block, otherwise its distance.
DistanceIsReuse == i > 0 => IsReuseDistance(distance, Bucket, i - 1)

\* The latest of the first n references to block b.
LatestUse(n, b) == CHOOSE m \in 1 .. n : stream[m] = b /\ \A k \in m + 1 .. n : stream[k] # b

LeastRecent(n, bs) == CHOOSE b \in bs : \A c \in bs : LatestUse(n, b) <= LatestUse(n, c)

\* What an LRU cache with numSets sets of `ways' lines holds after each number of
\* references: the block joins its set, and if that has too many the least recent goes.
LRUContents(ways) ==
  LET held[n \in 0 .. Len(stream)] ==
        IF n = 0 THEN {}
        ELSE LET joined == held[n - 1] \cup {stream[n]}
                 mates == {b \in joined : b % numSets = stream[n] % numSets}
             IN IF Cardinality(mates) <= ways THEN joined ELSE joined \ {LeastRecent(n, mates)}
  IN held

Finished == set = numSets

LRUMisses(ways) ==
  LET held == LRUContents(ways)
  IN Cardinality({n \in DOMAIN stream : stream[n] \notin held[n - 1]})

\* For every number of ways, the misses computed from the merged histogram.
CurveExact == \A ways \in 0 .. MaxReferences + 1 : Misses(merged, ways) = LRUMisses(ways)

\* Power-of-two buckets lose and repeat no reference: each holds the references
\* whose distance is in its range, and the last one is not empty.
BucketsPartition ==
  LET ranges == ReuseBuckets(merged)
      low(k) == IF k = 0 THEN 0 ELSE Power[k - 1]
  IN /\ \A k \in DOMAIN ranges :
          ranges[k] = ReusesAtLeast(merged, low(k)) - ReusesAtLeast(merged, Power[k])
     /\ ranges # <<>> => \E k \in DOMAIN ranges : k + 1 \notin DOMAIN ranges /\ ranges[k] > 0

\* The working set is the smallest cache whose misses are that near the floor.
WorkingSetSmallest ==
  \A percent \in {0, 25, 50} :
    LET size == WorkingSetSize(merged, <<percent, 100>>)
        Near(ways) == 100 * (LRUMisses(ways) - merged.infinite) <= percent * Len(stream)
    IN Near(size) /\ \A ways \in 1 .. size - 1 : ~Near(ways)

\* The default capacities end at the floor.
LastAtFloor ==
  LET sizes == Capacities(Len(merged.histogram))
  IN LRUMisses(sizes[Len(sizes)]) = merged.infinite

\* stackdist.py:246 "Exact, by the inclusion property": everything asked of the merged
\* profile is what LRU caches of each size, one per set, would answer.
MissCurve == Finished => CurveExact /\ BucketsPartition /\ WorkingSetSmallest /\ LastAtFloor
=============================================================================
