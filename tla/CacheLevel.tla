------------------------------ MODULE CacheLevel ------------------------------
(***************************************************************************)
(* Class Cache of cachesim/cache.py, ways, counters and all: one cache     *)
(* level as a record, its methods as operators that return the record they *)
(* leave behind (and, where the method returns a line, that line).         *)
(*                                                                         *)
(* A geometry g has the fields                                             *)
(*   sets, ways  the number of sets and of ways                            *)
(*   index       the name of the index function                            *)
(*   policy      "lru", "fifo", "mru", "random" or "opt"; module           *)
(*               Replacement has the other online ones                     *)
(*   draws       what the seeded generator returns, call by call           *)
(*   entries     the size of the victim buffer, 0 for none                 *)
(*   classify    track_3c                                                  *)
(*                                                                         *)
(* Where the code keeps a list or an ordered dictionary by age, the record *)
(* has a sequence, oldest first: the recency order of a set, the victim    *)
(* buffer, the shadow cache.                                               *)
(***************************************************************************)
EXTENDS Indexing, Belady, FiniteSets

Ext == INSTANCE SequencesExt

EMPTY == -1

Line(block, dirty, prefetched) == [block |-> block, dirty |-> dirty, prefetched |-> prefetched]
NoLine == Line(EMPTY, FALSE, FALSE)

Counters == {"hits", "misses", "readHits", "readMisses", "writeHits", "writeMisses",
             "victimHits", "fills", "evictions", "invalidations", "writebacks",
             "writebacksReceived", "writebackAllocations",
             "compulsory", "capacity", "conflict", "shadowMisses", "antiConflictHits"}

Zero == [name \in Counters |-> 0]

SetsOf(g) == 0 .. g.sets - 1
WaysOf(g) == 0 .. g.ways - 1
NumBlocks(g) == g.sets * g.ways

Cache(g) ==
  [g |-> g,
   ways |-> [s \in SetsOf(g) |-> [w \in WaysOf(g) |-> NoLine]],
   order |-> [s \in SetsOf(g) |-> [n \in 1 .. g.ways |-> n - 1]],
   drawn |-> 0,
   opt |-> [future |-> << >>, cursor |-> 0, nextUse |-> << >>, raised |-> FALSE],
   buffer |-> << >>,
   shadow |-> << >>,
   seen |-> {},
   n |-> Zero]

\* The counters `names' go up by one.
Count(c, names) == [c EXCEPT !.n = [x \in Counters |-> IF x \in names THEN @[x] + 1 ELSE @[x]]]

SetOf(c, b) == IndexOf(c.g.index, c.g.sets, b)

FirstOf(ways) == IF ways = {} THEN EMPTY ELSE CHOOSE w \in ways : \A v \in ways : w <= v

\* The first way of a set that holds block b, or EMPTY; the first free way for b = EMPTY.
WayIn(set, b) == FirstOf({w \in DOMAIN set : set[w].block = b})

WayOf(c, b) == WayIn(c.ways[SetOf(c, b)], b)

Buffered(c, b) == \E n \in DOMAIN c.buffer : c.buffer[n].block = b
BufferEntry(c, b) == CHOOSE n \in DOMAIN c.buffer : c.buffer[n].block = b

Contains(c, b) == WayOf(c, b) # EMPTY \/ Buffered(c, b)

\* The copy of a resident block, in the array or in the victim buffer.
CopyOf(c, b) ==
  IF WayOf(c, b) # EMPTY THEN c.ways[SetOf(c, b)][WayOf(c, b)] ELSE c.buffer[BufferEntry(c, b)]

-----------------------------------------------------------------------------
(* The hooks of the replacement policy.                                    *)

ToBack(c, s, w) == [c EXCEPT !.order[s] = Append(Ext!Remove(@, w), w)]

OnHit(c, s, w) == IF c.g.policy \in {"lru", "mru"} THEN ToBack(c, s, w) ELSE c

OnFill(c, s, w) == IF c.g.policy \in {"lru", "fifo", "mru"} THEN ToBack(c, s, w) ELSE c

OnInvalidate(c, s, w) ==
  IF c.g.policy \in {"lru", "fifo", "mru"} THEN [c EXCEPT !.order[s] = <<w>> \o Ext!Remove(@, w)] ELSE c

\* OPTPolicy.preload.
Preload(c, stream) ==
  [c EXCEPT !.opt = [future |-> stream, cursor |-> 0, nextUse |-> << >>, raised |-> FALSE]]

\* OPTPolicy.on_probe reads one reference of the stream; a probe of any other block,
\* or past the end, raises.
Expected(c, b) == c.opt.cursor < Len(c.opt.future) /\ c.opt.future[c.opt.cursor + 1] = b

\* Mutant of OnProbe: the next use of a block is looked up at its first probe only.
LooksOnce(c, b) ==
  LET n == c.opt.cursor + 1
      known == DOMAIN c.opt.nextUse
  IN IF c.g.policy # "opt" THEN c
     ELSE IF ~Expected(c, b) THEN [c EXCEPT !.opt.raised = TRUE]
     ELSE [c EXCEPT !.opt.cursor = n,
                    !.opt.nextUse = [x \in known \cup {b} |-> IF x \in known THEN @[x] ELSE NextUse(c.opt.future, n)]]

OnProbe(c, b) ==
  LET n == c.opt.cursor + 1
  IN IF c.g.policy # "opt" THEN c
     ELSE IF ~Expected(c, b) THEN [c EXCEPT !.opt.raised = TRUE]
     ELSE [c EXCEPT !.opt.cursor = n,
                    !.opt.nextUse = [x \in DOMAIN @ \cup {b} |-> IF x = b THEN NextUse(c.opt.future, n) ELSE @[x]]]

\* OPTPolicy.victim: a block nobody referenced, as one written back from above, is
\* never referenced again.
OptVictim(c, s) ==
  LET When(w) == LET b == c.ways[s][w].block
                 IN IF b \in DOMAIN c.opt.nextUse THEN c.opt.nextUse[b] ELSE Never(c.opt.future)
  IN CHOOSE w \in WaysOf(c.g) :
       \A v \in WaysOf(c.g) : When(w) > When(v) \/ (When(w) = When(v) /\ w <= v)

VictimWay(c, s) ==
  CASE c.g.policy \in {"lru", "fifo"} -> Head(c.order[s])
    [] c.g.policy = "mru" -> Ext!Last(c.order[s])
    [] c.g.policy = "random" -> c.g.draws[(c.drawn % Len(c.g.draws)) + 1]
    [] c.g.policy = "opt" -> OptVictim(c, s)

\* One value of the generator is used up.
Drawn(c) == IF c.g.policy = "random" THEN [c EXCEPT !.drawn = @ + 1] ELSE c

-----------------------------------------------------------------------------
(* The 3-C classification: a fully-associative LRU cache of the same size  *)
(* sees every reference.                                                   *)

Shadowed(c, b) == Ext!Contains(c.shadow, b)

\* _classify_miss: before the shadow cache sees the reference.
ClassOf(c, b) ==
  IF b \notin c.seen THEN "compulsory"
  ELSE IF Shadowed(c, b) THEN "conflict" ELSE "capacity"

\* The youngest blocks, as many as the cache has.
Youngest(c, shadow) == IF Len(shadow) > NumBlocks(c.g) THEN Tail(shadow) ELSE shadow

\* Mutant of ReferenceShadow: a hit does not refresh the LRU position.
ShadowFifo(c, b) ==
  Count([c EXCEPT !.seen = @ \cup {b}, !.shadow = IF Shadowed(c, b) THEN @ ELSE Youngest(c, Append(@, b))],
        IF Shadowed(c, b) THEN {} ELSE {"shadowMisses"})

\* _update_shadow.
ReferenceShadow(c, b) ==
  Count([c EXCEPT !.seen = @ \cup {b}, !.shadow = Youngest(c, Append(Ext!Remove(@, b), b))],
        IF Shadowed(c, b) THEN {} ELSE {"shadowMisses"})

\* A hit that the shadow cache would have missed.
ShadowHit(c, b) ==
  IF ~c.g.classify THEN c
  ELSE Count(ReferenceShadow(c, b), IF Shadowed(c, b) THEN {} ELSE {"antiConflictHits"})

\* Mutant of ShadowMiss: the miss is classified after the shadow cache saw it.
ClassifiedLate(c, b) ==
  IF ~c.g.classify THEN c
  ELSE LET after == ReferenceShadow(c, b) IN Count(after, {ClassOf(after, b)})

ShadowMiss(c, b) ==
  IF ~c.g.classify THEN c ELSE Count(ReferenceShadow(c, b), {ClassOf(c, b)})

-----------------------------------------------------------------------------
(* The primitives.  A result is the cache left behind with what else the   *)
(* method returns: `out', the line that left the level or NoLine, and      *)
(* `hit'.                                                                  *)

Leaves(c, line) == [cache |-> c, out |-> line]

\* VictimBuffer.push: the line pushed in is the youngest.
Overflowed(c, lines) ==
  IF Len(lines) > c.g.entries THEN Leaves([c EXCEPT !.buffer = Tail(lines)], Head(lines))
  ELSE Leaves([c EXCEPT !.buffer = lines], NoLine)

Pushed(c, line) == Overflowed(c, Append(SelectSeq(c.buffer, LAMBDA l : l.block # line.block), line))

\* Mutant of FillWay: a line installed clean keeps the dirty bit of its way.
KeepsDirtyBit(c, s, w, line) ==
  OnFill(Count([c EXCEPT !.ways[s][w] = [line EXCEPT !.dirty = @ \/ c.ways[s][w].dirty]], {"fills"}), s, w)

\* The line takes the way, flags and all.
FillWay(c, s, w, line) == OnFill(Count([c EXCEPT !.ways[s][w] = line], {"fills"}), s, w)

\* The line that the array replaces goes into the victim buffer, if there is one.
Displaced(c, line) == IF c.g.entries > 0 THEN Pushed(c, line) ELSE Leaves(c, line)

WritesOut(left) == IF left.out.dirty THEN [left EXCEPT !.cache = Count(@, {"writebacks"})] ELSE left

Refilled(left, s, w, line) == [left EXCEPT !.cache = FillWay(@, s, w, line)]

Evict(c, s, w, line) ==
  Refilled(WritesOut(Displaced(Count(Drawn(c), {"evictions"}), c.ways[s][w])), s, w, line)

AllocateIn(c, s, own, free, line) ==
  IF own # EMPTY THEN Leaves([c EXCEPT !.ways[s][own].dirty = @ \/ line.dirty], NoLine)
  ELSE IF free # EMPTY THEN Leaves(FillWay(c, s, free, line), NoLine)
  ELSE Evict(c, s, VictimWay(c, s), line)

\* allocate.
Allocate(c, line) ==
  LET s == SetOf(c, line.block)
  IN AllocateIn(c, s, WayIn(c.ways[s], line.block), WayIn(c.ways[s], EMPTY), line)

HitCounts(write) == {"hits", IF write THEN "writeHits" ELSE "readHits"}
MissCounts(write) == {"misses", IF write THEN "writeMisses" ELSE "readMisses"}

Probes(c, hit, line) == [cache |-> c, hit |-> hit, out |-> line]

HitWay(c, s, w, b, write) ==
  Probes(ShadowHit(Count(OnHit([c EXCEPT !.ways[s][w].dirty = @ \/ write], s, w), HitCounts(write)), b), TRUE, NoLine)

\* The block goes back into the array, and the line it displaces into the buffer.
Swapped(left, b) == Probes(ShadowHit(left.cache, b), TRUE, left.out)
HitBuffer(c, n, b, write) ==
  Swapped(Allocate(Count([c EXCEPT !.buffer = Ext!RemoveAt(@, n)], HitCounts(write) \cup {"victimHits"}),
                   [c.buffer[n] EXCEPT !.dirty = @ \/ write]), b)

ProbeIn(c, way, b, write) ==
  IF way # EMPTY THEN HitWay(c, SetOf(c, b), way, b, write)
  ELSE IF Buffered(c, b) THEN HitBuffer(c, BufferEntry(c, b), b, write)
  ELSE Probes(ShadowMiss(Count(c, MissCounts(write)), b), FALSE, NoLine)

\* probe.
Probe(c, b, write) == ProbeIn(OnProbe(c, b), WayOf(c, b), b, write)

\* A line moved up to the level above is not written back.
Counted(c, line, countWriteback) ==
  Count(c, {"invalidations"} \cup (IF line.dirty /\ countWriteback THEN {"writebacks"} ELSE {}))

InvalidateWay(c, s, w, countWriteback) ==
  Leaves(OnInvalidate(Counted([c EXCEPT !.ways[s][w] = NoLine], c.ways[s][w], countWriteback), s, w), c.ways[s][w])

InvalidateEntry(c, n, countWriteback) ==
  Leaves(Counted([c EXCEPT !.buffer = Ext!RemoveAt(@, n)], c.buffer[n], countWriteback), c.buffer[n])

\* invalidate.
Invalidate(c, b, countWriteback) ==
  IF WayOf(c, b) # EMPTY THEN InvalidateWay(c, SetOf(c, b), WayOf(c, b), countWriteback)
  ELSE IF Buffered(c, b) THEN InvalidateEntry(c, BufferEntry(c, b), countWriteback)
  ELSE Leaves(c, NoLine)

\* The copy of block b, if there is one, becomes `line'.
Rewritten(c, b, line) ==
  IF WayOf(c, b) # EMPTY THEN [c EXCEPT !.ways[SetOf(c, b)][WayOf(c, b)] = line]
  ELSE IF Buffered(c, b) THEN [c EXCEPT !.buffer[BufferEntry(c, b)] = line] ELSE c

MarkDirty(c, b) == Rewritten(c, b, [CopyOf(c, b) EXCEPT !.dirty = TRUE])
Clean(c, b) == Rewritten(c, b, [CopyOf(c, b) EXCEPT !.dirty = FALSE])

\* Mutant of ClearPrefetched: the line that was used keeps its flag.
KeepsFlag(c, b) == c

ClearPrefetched(c, b) == Rewritten(c, b, [CopyOf(c, b) EXCEPT !.prefetched = FALSE])

\* lines: set by set and way by way, then the victim buffer.
Lines(c) ==
  LET slots == [n \in 1 .. NumBlocks(c.g) |-> c.ways[(n - 1) \div c.g.ways][(n - 1) % c.g.ways]]
  IN SelectSeq(slots, LAMBDA l : l # NoLine) \o c.buffer

\* access: a level of its own, backed by memory.
FillOnMiss(probe, line) == IF probe.hit THEN probe.cache ELSE Allocate(probe.cache, line).cache

Access(c, b, write) == FillOnMiss(Probe(c, b, write), Line(b, write, FALSE))

\* Mutant of ResetStats: the shadow cache is cleared with the counters, the
\* blocks seen are not.
ResetShadow(c) == [c EXCEPT !.n = Zero, !.shadow = << >>]

\* reset_stats: the counters only.
ResetStats(c) == [c EXCEPT !.n = Zero]

\* capacity_misses_aggregate and conflict_misses_aggregate.
CapacityAggregate(c) == c.n["shadowMisses"] - c.n["compulsory"]
ConflictAggregate(c) == c.n["misses"] - c.n["shadowMisses"]
===============================================================================
