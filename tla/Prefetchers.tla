----------------------------- MODULE Prefetchers -----------------------------
(***************************************************************************)
(* cachesim/prefetch.py: the prefetchers that watch the references of a    *)
(* level.  A prefetcher is a record [name, table]; Observe is predict():   *)
(* the prefetcher it leaves behind and the block it names, or NoBlock.     *)
(***************************************************************************)
EXTENDS Indexing

CONSTANTS
  StrideEntries,  \* slots of the reference table of the stride prefetcher
  RegionShift     \* a region holds 2^RegionShift blocks

ASSUME TableAssumption == StrideEntries \in Nat \ {0} /\ RegionShift \in Nat

NoBlock == -1
THRESHOLD == 2
MaxConfidence == 3

PrefetcherNames == {"none", "next-line", "stride"}

EmptySlot == [region |-> -1, last |-> 0, stride |-> 0, confidence |-> 0]

\* make_prefetcher; reset() of the stride prefetcher gives the same table.
Prefetcher(name) == [name |-> name, table |-> [n \in 0 .. StrideEntries - 1 |-> EmptySlot]]

Region(block) == block \div Power[RegionShift]

Slot(region) == region % StrideEntries

\* Mutant of Trained: a slot taken over by another region keeps its stride.
KeepsStride(slot, block) ==
  LET stride == block - slot.last
      moved == [slot EXCEPT !.region = Region(block), !.last = block]
  IN IF stride = 0 THEN moved
     ELSE IF stride = slot.stride
     THEN [moved EXCEPT !.confidence = IF @ < MaxConfidence THEN @ + 1 ELSE @]
     ELSE [moved EXCEPT !.stride = stride, !.confidence = 1]

\* The slot after a reference to `block'.
Trained(slot, block) ==
  LET stride == block - slot.last
      moved == [slot EXCEPT !.last = block]
  IN IF slot.region # Region(block)
     THEN [region |-> Region(block), last |-> block, stride |-> 0, confidence |-> 0]
     ELSE IF stride = 0 THEN moved
     ELSE IF stride = slot.stride
     THEN [moved EXCEPT !.confidence = IF @ < MaxConfidence THEN @ + 1 ELSE @]
     ELSE [moved EXCEPT !.stride = stride, !.confidence = 1]

ObserveStride(f, block) ==
  LET n == Slot(Region(block))
      slot == f.table[n]
      after == Trained(slot, block)
      trusted == /\ slot.region = Region(block)
                 /\ block # slot.last
                 /\ after.confidence >= THRESHOLD
  IN [prefetcher |-> [f EXCEPT !.table[n] = after],
      target |-> IF trusted THEN block + after.stride ELSE NoBlock]

\* The caller drops negative block numbers.
NonNegative(block) == IF block < 0 THEN NoBlock ELSE block

Observe(f, block, hit, wasPrefetched) ==
  CASE f.name = "none" -> [prefetcher |-> f, target |-> NoBlock]
    [] f.name = "next-line" ->
         [prefetcher |-> f, target |-> IF hit /\ ~wasPrefetched THEN NoBlock ELSE block + 1]
    [] f.name = "stride" ->
         LET seen == ObserveStride(f, block)
         IN [seen EXCEPT !.target = NonNegative(@)]
===============================================================================
