------------------------------ MODULE Simulator ------------------------------
(***************************************************************************)
(* The whole of cachesim/hierarchy.py as a function of the state: levels   *)
(* with their caches, policies, prefetchers and counters over a main       *)
(* memory.  Where module Hierarchy goes step by step through the contents  *)
(* of a hierarchy with any replacement, here one operator is one call,     *)
(* with everything it counts and every cycle it charges.                   *)
(*                                                                         *)
(* A specification s has the fields levels (a sequence of level            *)
(* specifications, L1 first) and memory (see MainMemory).  A level         *)
(* specification p has the fields of a geometry (see CacheLevel) and       *)
(* hitTime, inclusion, writeThrough, writeAllocate, busWidth (0 for an     *)
(* infinitely wide bus), prefetcher.                                       *)
(*                                                                         *)
(* A hierarchy h is [level, memory, n]; levels are numbered from 0.  Bytes *)
(* are counted in blocks: every transfer of the code is one block.         *)
(***************************************************************************)
EXTENDS CacheLevel, MainMemory, Prefetchers

CONSTANT BlockSize  \* bytes of a block

ASSUME BlockSizeAssumption == BlockSize \in Nat \ {0}

LevelCounters == {"backInvalidations", "writeThroughs", "writeBypasses", "readFromBelow",
                  "writtenBelow", "prefetchesIssued", "prefetchHits", "prefetchEvictedUnused",
                  "prefetchProbes", "prefetchProbeHits"}
HierarchyCounters == {"accesses", "reads", "writes", "dramReads", "dramWrites",
                      "dramDemandWrites", "dramPrefetchReads", "dramRead", "dramWritten",
                      "readCycles", "writeCycles"}

NoLevelCounts == [name \in LevelCounters |-> 0]
NoHierarchyCounts == [name \in HierarchyCounters |-> 0]

\* Cycles a whole block occupies the link from below: ceil(block size / width).
TransferCycles(p) == IF p.busWidth = 0 THEN 0 ELSE (BlockSize + p.busWidth - 1) \div p.busWidth

\* Hierarchy.from_spec.
FromSpec(s) ==
  [level |-> [i \in 0 .. Len(s.levels) - 1 |->
                LET p == s.levels[i + 1]
                IN [p |-> p, cache |-> Cache(p), n |-> NoLevelCounts,
                    prefetcher |-> Prefetcher(p.prefetcher)]],
   memory |-> Memory(s.memory),
   n |-> NoHierarchyCounts]

Nlevels(h) == Cardinality(DOMAIN h.level)
Policy(h, i) == h.level[i].p
CacheAt(h, i) == h.level[i].cache
IsExclusive(h, i) == i < Nlevels(h) /\ Policy(h, i).inclusion = "exclusive"

\* No level and no memory asks for anything beyond the original model.
AllDefaults(h) ==
  /\ ConstantLatency(h.memory)
  /\ \A i \in DOMAIN h.level :
       /\ Policy(h, i).inclusion = "nine"
       /\ ~Policy(h, i).writeThrough /\ Policy(h, i).writeAllocate
       /\ TransferCycles(Policy(h, i)) = 0
       /\ Policy(h, i).prefetcher = "none"
       /\ Policy(h, i).entries = 0

Add(n, name, amount) == [n EXCEPT ![name] = @ + amount]

CountHierarchy(h, names) ==
  [h EXCEPT !.n = [x \in HierarchyCounters |-> IF x \in names THEN @[x] + 1 ELSE @[x]]]
CountLevel(h, i, names) ==
  [h EXCEPT !.level[i].n = [x \in LevelCounters |-> IF x \in names THEN @[x] + 1 ELSE @[x]]]
CountCache(h, i, names) == [h EXCEPT !.level[i].cache = Count(@, names)]

-----------------------------------------------------------------------------
(* Evictions and write-backs.                                              *)

Remembered(h, served) == [h EXCEPT !.memory = served.memory]

WriteCounted(h) == CountHierarchy(h, {"dramWrites", "dramWritten"})

\* Mutant of WriteToMemory: every write counts as on the critical path.
AlwaysCharged(h, b, charged) ==
  IF ConstantLatency(h.memory) THEN WriteCounted(h)
  ELSE Remembered(WriteCounted(h), Write(h.memory, b * BlockSize, TRUE))

\* _write_to_memory.
WriteToMemory(h, b, charged) ==
  IF ConstantLatency(h.memory) THEN WriteCounted(h)
  ELSE Remembered(WriteCounted(h), Write(h.memory, b * BlockSize, charged))

ReadCounted(h, kind) == CountHierarchy(h, {kind, "dramRead"})

ReadFromMemory(h, b, kind, charged) ==
  IF ConstantLatency(h.memory) THEN ReadCounted(h, kind)
  ELSE Remembered(ReadCounted(h, kind), Read(h.memory, b * BlockSize, charged))

RECURSIVE HandleEviction(_, _, _), WriteBack(_, _, _), BackInvalidate(_, _, _, _)

\* The line that left level i, if any, is handled.
Settled(h, i, left) ==
  IF left.out = NoLine THEN [h EXCEPT !.level[i].cache = left.cache]
  ELSE HandleEviction([h EXCEPT !.level[i].cache = left.cache], i, left.out)

\* Cache.allocate at level i.
Install(h, i, line) == Settled(h, i, Allocate(CacheAt(h, i), line))

\* Level i sends a block of modified data to the level below.
SendsDown(h, i, names) == CountLevel(h, i, names \cup {"writtenBelow"})

\* A write-through level passes on what it was sent.
PassThrough(h, i, b) == WriteBack(SendsDown(h, i, {"writeThroughs"}), i + 1, b)

InstallReceived(h, i, line) == Install(CountCache(h, i, {"writebackAllocations"}), i, line)

\* Level i receives block b; `held' says whether it has a copy.
Receive(h, i, b, held) ==
  LET p == Policy(h, i)
  IN IF p.writeThrough
     THEN PassThrough(IF p.writeAllocate /\ ~held THEN InstallReceived(h, i, Line(b, FALSE, FALSE)) ELSE h, i, b)
     ELSE IF held THEN [h EXCEPT !.level[i].cache = MarkDirty(@, b)]
     ELSE IF p.writeAllocate THEN InstallReceived(h, i, Line(b, TRUE, FALSE))
     ELSE WriteBack(SendsDown(h, i, {"writeBypasses"}), i + 1, b)

WriteBack(h, i, b) ==
  IF i = Nlevels(h) THEN WriteToMemory(h, b, FALSE)
  ELSE Receive(CountCache(h, i, {"writebacksReceived"}), i, b, Contains(CacheAt(h, i), b))

\* Level i takes the line in, clean if it is write-through, and then passes it on.
HandOver(h, i, line) ==
  LET through == line.dirty /\ Policy(h, i).writeThrough
      received == IF line.dirty THEN {"writebacksReceived", "writebackAllocations"} ELSE {}
      Passed(kept) == IF through THEN PassThrough(kept, i, line.block) ELSE kept
  IN Passed(Install(CountCache(h, i, received), i, Line(line.block, line.dirty /\ ~through, FALSE)))

\* The line goes into an exclusive level below, or down as a write-back if it is
\* dirty.
MoveDown(h, i, line) ==
  IF IsExclusive(h, i + 1) THEN HandOver(SendsDown(h, i, {}), i + 1, line)
  ELSE IF line.dirty THEN WriteBack(SendsDown(h, i, {}), i + 1, line.block) ELSE h

UnusedIf(prefetched) == IF prefetched THEN {"prefetchEvictedUnused"} ELSE {}

\* An inclusive level takes the block away from the levels above.
Enforced(h, i, b) == IF Policy(h, i).inclusion = "inclusive" THEN BackInvalidate(h, i, i - 1, b) ELSE h

HandleEviction(h, i, line) ==
  Enforced(MoveDown(CountLevel(h, i, UnusedIf(line.prefetched)), i, line), i, line.block)

\* Level k has lost the line `left' has; level i writes it down if it was dirty.
Collected(h, i, k, left, b) ==
  LET Without(x) == CountLevel([x EXCEPT !.level[k].cache = left.cache], k,
                               {"backInvalidations"} \cup UnusedIf(left.out.prefetched))
  IN IF left.out = NoLine THEN h
     ELSE IF left.out.dirty THEN WriteBack(SendsDown(Without(h), k, {}), i + 1, b) ELSE Without(h)

\* The loop of _back_invalidate at level k, on behalf of level i.
BackInvalidate(h, i, k, b) ==
  IF k < 0 THEN h
  ELSE BackInvalidate(Collected(h, i, k, Invalidate(CacheAt(h, k), b, TRUE), b), i, k - 1, b)

-----------------------------------------------------------------------------
(* An access.                                                              *)

\* The locals of access().
Start(write) == [time |-> 0, hit |-> -1, write |-> write, taken |-> -1, fillFrom |-> 0, forward |-> -1]

With(h, r) == [h |-> h, r |-> r]

\* No level hits.
ServedByMemory(h, r, b) ==
  LET n == Nlevels(h)
      Served(served) == [r EXCEPT !.hit = n, !.time = @ + served.cycles, !.fillFrom = IF r.write THEN n ELSE @]
  IN IF r.write
     THEN With(WriteToMemory(CountHierarchy(h, {"dramDemandWrites"}), b, TRUE), Served(Write(h.memory, b * BlockSize, TRUE)))
     ELSE With(ReadFromMemory(h, b, "dramReads", TRUE), Served(Read(h.memory, b * BlockSize, TRUE)))

\* Level i takes the store; the levels below see a load.
Takes(r, i, p) == [r EXCEPT !.taken = i, !.fillFrom = i, !.forward = IF p.writeThrough THEN i + 1 ELSE @]

\* A store that a write-through level takes leaves its copy clean.
Cleaned(h, r, i, b) ==
  IF r.write /\ Policy(h, i).writeThrough THEN [h EXCEPT !.level[i].cache = Clean(@, b)] ELSE h

\* The loop that probes, from level i on.
RECURSIVE ProbeFrom(_, _, _, _)

\* What level i answered; r has paid for the probe.
Answered(h, r, i, b, probe) ==
  LET p == Policy(h, i)
      takes == IF r.write THEN Takes(r, i, p) ELSE r
  IN IF probe.hit THEN With(Cleaned(Settled(h, i, probe), r, i, b), [takes EXCEPT !.hit = i])
     ELSE IF r.write /\ ~p.writeAllocate
     THEN ProbeFrom(SendsDown([h EXCEPT !.level[i].cache = probe.cache], i, {"writeBypasses"}), r, i + 1, b)
     ELSE ProbeFrom([h EXCEPT !.level[i].cache = probe.cache], [takes EXCEPT !.write = FALSE], i + 1, b)

ProbeFrom(h, r, i, b) ==
  IF i = Nlevels(h) THEN ServedByMemory(h, r, b)
  ELSE Answered(h, [r EXCEPT !.time = @ + Policy(h, i).hitTime], i, b, Probe(CacheAt(h, i), b, r.write))

\* Mutant of TransferCharge: the link is paid for once per access.
PaidOnce(h, r, i) == IF i = r.fillFrom THEN TransferCycles(Policy(h, i)) ELSE 0

\* What moving the block into level i costs.
TransferCharge(h, r, i) == TransferCycles(Policy(h, i))

\* The block has come into level i over the link from below.
Fills(h, i, line) == Install(CountLevel(h, i, {"readFromBelow"}), i, line)

\* The loop that fills, from level i up to fill_from.
RECURSIVE FillFrom(_, _, _, _, _)
FillFrom(h, r, i, b, dirty) ==
  IF i < r.fillFrom THEN With(h, r)
  ELSE IF IsExclusive(h, i) /\ i # r.taken THEN FillFrom(h, r, i - 1, b, dirty)
  ELSE FillFrom(Fills(h, i, Line(b, dirty /\ i = r.fillFrom, FALSE)),
                [r EXCEPT !.time = @ + TransferCharge(h, r, i)], i - 1, b, dirty)

\* The level that supplies a prefetch issued at level i: the first below that
\* holds the block, or main memory.
PrefetchSource(h, i, b) ==
  LET holders == {k \in DOMAIN h.level : k > i /\ Contains(CacheAt(h, k), b)}
  IN IF holders = {} THEN Nlevels(h) ELSE CHOOSE k \in holders : \A j \in holders : k <= j

\* The fill loop of _prefetch_fill at level k.
RECURSIVE PrefetchInto(_, _, _, _, _)
PrefetchInto(h, i, k, b, dirty) ==
  IF k < i THEN h
  ELSE IF IsExclusive(h, k) /\ k # i THEN PrefetchInto(h, i, k - 1, b, dirty)
  ELSE PrefetchInto(Fills(h, k, Line(b, dirty /\ k = i, k = i)), i, k - 1, b, dirty)

\* The levels between were asked for the block, and the source had it.
PrefetchProbed(h, i, source) ==
  LET Names(k) == (IF k > i /\ k <= source THEN {"prefetchProbes"} ELSE {})
                  \cup (IF k = source THEN {"prefetchProbeHits"} ELSE {})
  IN [h EXCEPT !.level = [k \in DOMAIN @ |->
        [@[k] EXCEPT !.n = [x \in LevelCounters |-> IF x \in Names(k) THEN @[x] + 1 ELSE @[x]]]]]

\* An exclusive level gives the block up, and its dirty bit with it.
TakenUp(h, source, left) == With([h EXCEPT !.level[source].cache = left.cache], left.out.dirty)
Supplied(h, source, b) ==
  IF source = Nlevels(h) THEN With(ReadFromMemory(h, b, "dramPrefetchReads", FALSE), FALSE)
  ELSE IF IsExclusive(h, source) THEN TakenUp(h, source, Invalidate(CacheAt(h, source), b, FALSE))
  ELSE With(h, FALSE)

PrefetchFrom(supplied, i, source, b) == PrefetchInto(supplied.h, i, source - 1, b, supplied.r)

PrefetchBy(h, i, source, b) == PrefetchFrom(Supplied(PrefetchProbed(h, i, source), source, b), i, source, b)

PrefetchFill(h, i, b) == PrefetchBy(h, i, PrefetchSource(h, i, b), b)

\* Level i had prefetched the block that it hit.
WasPrefetched(h, i, b, hit) == hit /\ Contains(CacheAt(h, i), b) /\ CopyOf(CacheAt(h, i), b).prefetched

NotedUse(h, i, b, used) ==
  IF used THEN CountLevel([h EXCEPT !.level[i].cache = ClearPrefetched(@, b)], i, {"prefetchHits"}) ELSE h

Issue(h, i, target) ==
  IF target = NoBlock \/ Contains(CacheAt(h, i), target) THEN h
  ELSE PrefetchFill(CountLevel(h, i, {"prefetchesIssued"}), i, target)

Trains(h, i, seen) == Issue([h EXCEPT !.level[i].prefetcher = seen.prefetcher], i, seen.target)

Watches(h, i, b, hit, used) ==
  Trains(NotedUse(h, i, b, used), i, Observe(h.level[i].prefetcher, b, hit, used))

\* The loop of _run_prefetchers at level i.
RECURSIVE RunPrefetchers(_, _, _, _)
RunPrefetchers(h, i, b, hitLevel) ==
  IF i > hitLevel \/ i = Nlevels(h) THEN h
  ELSE IF h.level[i].prefetcher.name = "none" THEN RunPrefetchers(h, i + 1, b, hitLevel)
  ELSE RunPrefetchers(Watches(h, i, b, i = hitLevel, WasPrefetched(h, i, b, i = hitLevel)), i + 1, b, hitLevel)

\* The access is counted, and its time charged to loads or stores.
Charge(h, write, time) ==
  [h EXCEPT !.n = Add(Add(@, IF write THEN "writes" ELSE "reads", 1),
                      IF write THEN "writeCycles" ELSE "readCycles", time)]

\* The block leaves the exclusive level that hit for a level above.
Moves(h, r) == r.fillFrom < r.hit /\ IsExclusive(h, r.hit)

StoresHere(h, r) == r.taken >= 0 /\ ~Policy(h, r.taken).writeThrough

\* The fills, the block being taken out of the level that hit if it moves.
FilledWith(h, r, b, taken) == FillFrom(taken.h, r, r.hit - 1, b, StoresHere(h, r) \/ taken.r)
Filled(h, r, b) ==
  FilledWith(h, r, b, IF Moves(h, r) THEN TakenUp(h, r.hit, Invalidate(CacheAt(h, r.hit), b, FALSE)) ELSE With(h, FALSE))

\* The duplicate of a write-through level goes down.
Forwarded(h, r, b) ==
  IF r.forward < 0 THEN h ELSE WriteBack(SendsDown(h, r.forward - 1, {"writeThroughs"}), r.forward, b)

Finished(filled, b, write) ==
  Charge(RunPrefetchers(Forwarded(filled.h, filled.r, b), 0, b, filled.r.hit), write, filled.r.time)

Resolved(probed, b, write) == Finished(Filled(probed.h, probed.r, b), b, write)

\* The body of access() for any hierarchy.
GeneralAccess(h, b, write) ==
  Resolved(ProbeFrom(CountHierarchy(h, {"accesses"}), Start(write), 0, b), b, write)

\* The loops of _access_default: levels 1 and on, which see a load.
RECURSIVE DefaultProbe(_, _, _, _)
DefaultAnswered(h, i, b, time, probe) ==
  IF probe.hit THEN [h |-> [h EXCEPT !.level[i].cache = probe.cache], hit |-> i, time |-> time]
  ELSE DefaultProbe([h EXCEPT !.level[i].cache = probe.cache], i + 1, b, time)
DefaultProbe(h, i, b, time) ==
  IF i = Nlevels(h)
  THEN [h |-> ReadCounted(h, "dramReads"), hit |-> i, time |-> time + h.memory.p.latency]
  ELSE DefaultAnswered(h, i, b, time + Policy(h, i).hitTime, Probe(CacheAt(h, i), b, FALSE))

RECURSIVE DefaultFill(_, _, _, _)
DefaultFill(h, i, b, write) ==
  IF i < 0 THEN h ELSE DefaultFill(Fills(h, i, Line(b, write /\ i = 0, FALSE)), i - 1, b, write)

DefaultFilled(rest, b, write) == Charge(DefaultFill(rest.h, rest.hit - 1, b, write), write, rest.time)

FirstProbed(h, b, write, probe) ==
  IF probe.hit THEN Charge([h EXCEPT !.level[0].cache = probe.cache], write, Policy(h, 0).hitTime)
  ELSE DefaultFilled(DefaultProbe([h EXCEPT !.level[0].cache = probe.cache], 1, b, Policy(h, 0).hitTime), b, write)

\* Mutant of DefaultAccess: the peeled first iteration forgets the store.
PeeledAsLoad(h, b, write) ==
  FirstProbed(CountHierarchy(h, {"accesses"}), b, write, Probe(CacheAt(h, 0), b, FALSE))

\* _access_default: the first level is peeled out of the loop.
DefaultAccess(h, b, write) ==
  FirstProbed(CountHierarchy(h, {"accesses"}), b, write, Probe(CacheAt(h, 0), b, write))

AccessHierarchy(h, b, write) ==
  IF AllDefaults(h) THEN DefaultAccess(h, b, write) ELSE GeneralAccess(h, b, write)

-----------------------------------------------------------------------------
(* Flush, reset and the metrics.                                           *)

\* The lines `lines' of level i, a copy made before the first is written.
RECURSIVE FlushLines(_, _, _)
FlushLine(h, i, line) ==
  IF line.dirty
  THEN WriteBack(SendsDown([h EXCEPT !.level[i].cache = Count(Clean(@, line.block), {"writebacks"})], i, {}),
                 i + 1, line.block)
  ELSE h
FlushLines(h, i, lines) ==
  IF lines = << >> THEN h ELSE FlushLines(FlushLine(h, i, Head(lines)), i, Tail(lines))

RECURSIVE FlushFrom(_, _)
FlushFrom(h, i) ==
  IF i = Nlevels(h) THEN h ELSE FlushFrom(FlushLines(h, i, Lines(CacheAt(h, i))), i + 1)

Flush(h) == FlushFrom(h, 0)

\* reset_stats of the hierarchy, its memory, its levels and their caches.
ResetHierarchy(h) ==
  [h EXCEPT !.n = NoHierarchyCounts,
            !.memory = ResetMemory(@),
            !.level = [i \in DOMAIN @ |-> [@[i] EXCEPT !.n = NoLevelCounts, !.cache = ResetStats(@)]]]

TotalTime(h) == h.n["readCycles"] + h.n["writeCycles"]

CacheAccesses(h, i) == CacheAt(h, i).n["hits"] + CacheAt(h, i).n["misses"]

\* amat, a fraction <<numerator, denominator>>: bottom-up over the levels.
Amat(h) ==
  LET penalty[i \in 0 .. Nlevels(h)] ==
        IF i = Nlevels(h) THEN AverageLatency(h.memory)
        ELSE LET below == penalty[i + 1]
                 p == Policy(h, i)
                 accesses == CacheAccesses(h, i)
             IN IF accesses = 0 THEN <<p.hitTime, 1>>
                ELSE <<(p.hitTime * accesses * below[2])
                       + (CacheAt(h, i).n["misses"] * ((TransferCycles(p) * below[2]) + below[1])),
                       accesses * below[2]>>
  IN penalty[0]
===============================================================================
