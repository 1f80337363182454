-------------------------------- MODULE Checks --------------------------------
(***************************************************************************)
(* cachesim/invariants.py: what `cachesim run --check' verifies of a       *)
(* hierarchy after a run.  Counters that are sums of two others here (the  *)
(* accesses of a level) make one identity of the code true by definition;  *)
(* it is left out.                                                         *)
(***************************************************************************)
EXTENDS Simulator

\* _traffic_features: nothing changes how traffic or dirty data moves.
PlainTraffic(h) ==
  \A i \in DOMAIN h.level :
    LET p == Policy(h, i)
    IN /\ p.inclusion = "nine" /\ p.prefetcher = "none" /\ p.entries = 0
       /\ ~p.writeThrough /\ p.writeAllocate

\* _transfer_features.
PlainTiming(h) == ConstantLatency(h.memory) /\ \A i \in DOMAIN h.level : Policy(h, i).busWidth = 0

\* _check_level_counters.
CountersAddUp(c) ==
  LET n == c.n
  IN /\ n["readHits"] + n["writeHits"] = n["hits"]
     /\ n["readMisses"] + n["writeMisses"] = n["misses"]
     /\ n["evictions"] <= n["fills"]
     /\ n["writebackAllocations"] <= n["writebacksReceived"]
     /\ c.g.classify =>
          /\ n["compulsory"] + n["capacity"] + n["conflict"] = n["misses"]
          /\ n["compulsory"] + CapacityAggregate(c) + ConflictAggregate(c) = n["misses"]
          /\ CapacityAggregate(c) = n["capacity"] + n["antiConflictHits"]
          /\ ConflictAggregate(c) = n["conflict"] - n["antiConflictHits"]
          /\ n["shadowMisses"] = n["compulsory"] + n["capacity"] + n["antiConflictHits"]

\* _check_level_structure, what does not depend on the number of copies.
LinesInPlace(c) ==
  LET lines == Lines(c)
  IN /\ Len(lines) <= NumBlocks(c.g) + c.g.entries
     /\ \A s \in SetsOf(c.g), w \in WaysOf(c.g) :
          c.ways[s][w] # NoLine => SetOf(c, c.ways[s][w].block) = s
     /\ \A n \in DOMAIN lines : Contains(c, lines[n].block)

\* A block has at most one copy in a cache.
OneCopyEach(c) ==
  LET lines == Lines(c)
  IN \A m, n \in DOMAIN lines : lines[m].block = lines[n].block => m = n

\* is_dirty agrees with the line's dirty bit.
DirtyBitsAgree(c) ==
  LET lines == Lines(c)
  IN \A n \in DOMAIN lines : CopyOf(c, lines[n].block).dirty = lines[n].dirty

Last(h) == Nlevels(h) - 1

\* _check_writeback_conservation.
WritebacksConserved(h) ==
  /\ \A i \in 1 .. Last(h) : CacheAt(h, i).n["writebacksReceived"] = CacheAt(h, i - 1).n["writebacks"]
  /\ h.n["dramWrites"] = CacheAt(h, Last(h)).n["writebacks"]

\* _check_traffic_flow.
TrafficFlows(h) ==
  /\ CacheAccesses(h, 0) = h.n["accesses"]
  /\ \A i \in 1 .. Last(h) : CacheAccesses(h, i) = CacheAt(h, i - 1).n["misses"]
  /\ h.n["dramReads"] = CacheAt(h, Last(h)).n["misses"]
  /\ \A i \in DOMAIN h.level :
       CacheAt(h, i).n["fills"] = CacheAt(h, i).n["misses"] + CacheAt(h, i).n["writebackAllocations"]

\* amat() is measured_amat(), cross-multiplied.
AmatMeasured(h) == Amat(h)[1] * h.n["accesses"] = TotalTime(h) * Amat(h)[2]

\* _check_timing.
TimingAddsUp(h) ==
  LET probed[i \in -1 .. Last(h)] ==
        IF i < 0 THEN 0 ELSE probed[i - 1] + (Policy(h, i).hitTime * CacheAccesses(h, i))
  IN /\ TotalTime(h) = probed[Last(h)] + (h.memory.p.latency * h.n["dramReads"])
     /\ AmatMeasured(h)

\* A cache has a dirty line.
DirtyLeft(c) == \E n \in DOMAIN Lines(c) : Lines(c)[n].dirty

\* The checks of a level that assume one copy per block.
SingleCopyChecks(c, afterFlush) ==
  /\ OneCopyEach(c)
  /\ DirtyBitsAgree(c)
  /\ afterFlush => ~DirtyLeft(c)

\* check_hierarchy, with `single' the levels whose blocks are to have one copy: in
\* the code every level.
CheckHierarchy(h, single, afterFlush) ==
  /\ h.n["reads"] + h.n["writes"] = h.n["accesses"]
  /\ h.n["dramReads"] <= h.n["accesses"]
  /\ \A i \in DOMAIN h.level : CountersAddUp(CacheAt(h, i)) /\ LinesInPlace(CacheAt(h, i))
  /\ \A i \in single : SingleCopyChecks(CacheAt(h, i), afterFlush)
  /\ PlainTraffic(h) => WritebacksConserved(h) /\ TrafficFlows(h)
  /\ PlainTraffic(h) /\ PlainTiming(h) /\ h.n["accesses"] > 0 => TimingAddsUp(h)
===============================================================================
