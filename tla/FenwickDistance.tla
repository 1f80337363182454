--------------------------- MODULE FenwickDistance ---------------------------
(***************************************************************************)
(* The binary indexed tree _Fenwick of cachesim/stackdist.py, run beside   *)
(* StackDistance: `tree' receives the calls of add that stack_distances    *)
(* makes, and every range it could be asked for must hold the number of    *)
(* 1s that StackDistance counts.                                           *)
(***************************************************************************)
EXTENDS StackDistance

VARIABLE tree   \* tree[j] for the 1-based positions j of the tree

treeVars == <<vars, tree>>

\* j & -j: the largest power of two that divides j.
LowBit[j \in Nat \ {0}] == IF j % 2 = 1 THEN 1 ELSE 2 * LowBit[j \div 2]

\* _Fenwick(size).
Tree(size) == [j \in 1 .. size |-> 0]

\* Mutant of Add: the stride is that of prefix.
AddsDownwards(t, index, delta) ==
  LET path[j \in 0 .. Len(t)] == IF j <= 0 THEN {} ELSE {j} \cup path[j - LowBit[j]]
  IN [j \in DOMAIN t |-> t[j] + IF j \in path[index + 1] THEN delta ELSE 0]

\* add: the positions of the tree whose range holds `index'.
Add(t, index, delta) ==
  LET path[j \in Nat \ {0}] == IF j > Len(t) THEN {} ELSE {j} \cup path[j + LowBit[j]]
  IN [j \in DOMAIN t |-> t[j] + IF j \in path[index + 1] THEN delta ELSE 0]

\* prefix: the sum of the positions 0 .. index, 0 for index -1.
Prefix(t, index) ==
  LET total[j \in 0 .. Len(t)] == IF j <= 0 THEN 0 ELSE t[j] + total[j - LowBit[j]]
  IN total[index + 1]

\* range_sum.
TreeRangeSum(t, low, high) ==
  IF high < low THEN 0 ELSE Prefix(t, high) - Prefix(t, low - 1)

TreeInit == Init /\ tree = <<>>

\* The marker moves in the tree: first off the previous timestamp, then on.
TreeReference ==
  /\ Reference
  /\ LET prev == last[Bucket[i + 1]]
     IN tree' = Add(IF prev < 0 THEN tree ELSE Add(tree, prev, -1), i, 1)

\* A new tree, as long as the bucket that is profiled next.
NewTree == tree' = IF set' < numSets THEN Tree(Len(buckets[set'])) ELSE <<>>

TreeSplit == Split /\ tree' = IF read' = Len(stream) THEN Tree(Len(buckets'[0])) ELSE <<>>

TreeNextBucket == NextBucket /\ NewTree

TreeNext == TreeSplit \/ TreeReference \/ TreeNextBucket
TreeSpec == TreeInit /\ [][TreeNext]_treeVars

\* The tree holds what StackDistance reads from the set of markers: the sum of
\* every range of timestamps is the number of markers in it.
TreeCountsMarkers ==
  \A low \in 0 .. Len(tree) - 1, high \in -1 .. Len(tree) - 1 :
    TreeRangeSum(tree, low, high) = RangeSum(low, high)
=============================================================================
