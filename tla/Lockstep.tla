------------------------------- MODULE Lockstep -------------------------------
(***************************************************************************)
(* One caller drives several simulators with the same calls: a hierarchy   *)
(* through access(); a twin whose statistics are never reset; and, when no *)
(* optional feature is on, so that access() takes the path of              *)
(* _access_default, the same hierarchy through the general path and the    *)
(* naive simulator of reference.py.                                        *)
(***************************************************************************)
EXTENDS Checks, Reference

CONSTANTS
  Specs,   \* the specifications built, each with a bound on the caller's calls
  Blocks   \* the block numbers referenced

VARIABLES
  h,        \* driven by access()
  twin,     \* the same, never reset
  base,     \* the counters of the twin when h was last reset
  general,  \* driven by the general path
  ref,      \* the reference simulator
  left,     \* the calls the caller still makes
  last,     \* the last call
  tampered, \* the caller removed a dirty line behind the hierarchy's back
  history   \* the references each level saw: [block, hit, counted]

vars == <<h, twin, base, general, ref, left, last, tampered, history>>

\* Every counter of a hierarchy.
CountersOf(x) ==
  [hierarchy |-> x.n, memory |-> x.memory.n,
   level |-> [i \in DOMAIN x.level |-> x.level[i].n],
   cache |-> [i \in DOMAIN x.level |-> CacheAt(x, i).n]]

\* The reference simulator and the default path know this hierarchy.
Comparable(s) == AllDefaults(FromSpec(s)) /\ RefSupports(s)
HasTwins == ref.accesses >= 0

Init ==
  \E s \in Specs :
    /\ h = FromSpec(s)
    /\ twin = FromSpec(s)
    /\ base = CountersOf(FromSpec(s))
    /\ general = FromSpec(s)
    /\ ref = IF Comparable(s) THEN RefHierarchy(s) ELSE [accesses |-> -1]
    /\ left = s.calls /\ last = "none" /\ tampered = FALSE
    /\ history = [i \in DOMAIN FromSpec(s).level |-> << >>]

Called(name) == left > 0 /\ left' = left - 1 /\ last' = name

\* What the two simulators of a default hierarchy do; any other goes the general
\* way in h already.
Beside(generally, referred) ==
  /\ general' = IF HasTwins THEN generally ELSE h'
  /\ ref' = IF HasTwins THEN referred ELSE ref

\* Level i looked the block up in the last step, and what it found.
Noted(i, b) ==
  IF CacheAccesses(h', i) = CacheAccesses(h, i) THEN history[i]
  ELSE Append(history[i], [block |-> b, counted |-> TRUE,
                           hit |-> CacheAt(h', i).n["hits"] > CacheAt(h, i).n["hits"]])

Refer(b, write) ==
  /\ Called("access")
  /\ h' = AccessHierarchy(h, b, write) /\ twin' = AccessHierarchy(twin, b, write)
  /\ Beside(GeneralAccess(general, b, write), RefAccess(ref, b, write))
  /\ history' = [i \in DOMAIN history |-> Noted(i, b)]
  /\ UNCHANGED <<base, tampered>>

FlushAll ==
  /\ Called("flush")
  /\ h' = Flush(h) /\ twin' = Flush(twin)
  /\ Beside(Flush(general), RefFlush(ref))
  /\ UNCHANGED <<base, tampered, history>>

\* The warm-up ends.
ResetAll ==
  /\ Called("reset_stats")
  /\ h' = ResetHierarchy(h) /\ UNCHANGED twin /\ base' = CountersOf(twin)
  /\ Beside(ResetHierarchy(general), RefResetHierarchy(ref))
  /\ history' = [i \in DOMAIN history |->
                   [n \in DOMAIN history[i] |-> [history[i][n] EXCEPT !.counted = FALSE]]]
  /\ UNCHANGED tampered

\* Methods of a cache that a caller uses directly.
OfTopCache(x, cache) == [x EXCEPT !.level[0].cache = cache]

InvalidateBlock(b) ==
  /\ HasTwins /\ Nlevels(h) = 1
  /\ Called("invalidate")
  /\ h' = OfTopCache(h, Invalidate(CacheAt(h, 0), b, TRUE).cache)
  /\ twin' = OfTopCache(twin, Invalidate(CacheAt(twin, 0), b, TRUE).cache)
  /\ Beside(OfTopCache(general, Invalidate(CacheAt(general, 0), b, TRUE).cache),
            [ref EXCEPT !.cache[0] = RefInvalidate(@, b)])
  /\ tampered' = (tampered \/ Invalidate(CacheAt(h, 0), b, TRUE).out.dirty)
  /\ UNCHANGED <<base, history>>

MarkBlockDirty(b) ==
  /\ HasTwins /\ Nlevels(h) = 1
  /\ Called("mark_dirty")
  /\ h' = OfTopCache(h, MarkDirty(CacheAt(h, 0), b)) /\ twin' = OfTopCache(twin, MarkDirty(CacheAt(twin, 0), b))
  /\ Beside(OfTopCache(general, MarkDirty(CacheAt(general, 0), b)), [ref EXCEPT !.cache[0] = RefMarkDirty(@, b)])
  /\ UNCHANGED <<base, tampered, history>>

Next ==
  \/ \E b \in Blocks, write \in BOOLEAN : Refer(b, write)
  \/ FlushAll
  \/ ResetAll
  \/ \E b \in Blocks : InvalidateBlock(b) \/ MarkBlockDirty(b)

Spec == Init /\ [][Next]_vars

-----------------------------------------------------------------------------
(* The reference simulator.                                                *)

SameLine(line, slot) == line.block = slot.block /\ line.dirty = slot.dirty

SameCache(c, r) ==
  /\ \A s \in SetsOf(c.g), w \in WaysOf(c.g) : SameLine(c.ways[s][w], r.slots[s][w])
  /\ c.shadow = r.shadow /\ c.seen = r.seen /\ c.drawn = r.drawn
  /\ \A name \in RefCounters : c.n[name] = r.n[name]

\* reference.py:1 "A second, deliberately naive simulator": an order of the ways
\* kept by moving entries and timestamps on the lines agree in every way of every
\* set, in the shadow cache, in every counter both have and in the cycles, after
\* any accesses, flushes, resets, invalidations and stores of write-backs.
SameAsReference ==
  HasTwins =>
  /\ \A i \in DOMAIN h.level : SameCache(CacheAt(h, i), ref.cache[i])
  /\ h.n["accesses"] = ref.accesses
  /\ h.n["reads"] = ref.reads /\ h.n["writes"] = ref.writes
  /\ h.n["dramReads"] = ref.dramReads /\ h.n["dramWrites"] = ref.dramWrites
  /\ TotalTime(h) = ref.totalTime

(* The two paths through Hierarchy.                                        *)

\* hierarchy.py:611 _access_default "restates" access() for a hierarchy of default
\* features: contents, counters, cycles and replacement state never drift apart.
DefaultAgrees == h = general

(* The three classes of misses.                                            *)

\* The blocks referenced before position n, latest reference first.
Recency(stream, n) ==
  LET before == {stream[k].block : k \in 1 .. n - 1}
      LastUse(b) == CHOOSE k \in 1 .. n - 1 :
                      stream[k].block = b /\ \A j \in k + 1 .. n - 1 : stream[j].block # b
      Younger(b) == {a \in before : LastUse(a) > LastUse(b)}
  IN [depth \in 1 .. Cardinality(before) |-> CHOOSE b \in before : Cardinality(Younger(b)) = depth - 1]

FirstUse(stream, n) == \A k \in 1 .. n - 1 : stream[k].block # stream[n].block

\* A fully-associative LRU cache of `size' blocks would hold the block.
WouldHold(stream, n, size) ==
  \E depth \in DOMAIN Recency(stream, n) : depth <= size /\ Recency(stream, n)[depth] = stream[n].block

\* The number of counted references at which P holds.
Tally(stream, P(_)) == Cardinality({n \in DOMAIN stream : stream[n].counted /\ P(n)})

\* cache.py:607 and :621: whatever the order of hits and misses, and wherever a
\* warm-up ends, the classes are those of Hill: a miss of a block never seen is
\* compulsory, one that a fully-associative LRU cache of the same size would hit is
\* a conflict miss, the others are capacity misses; an anti-conflict hit is a hit
\* that cache would miss.
MissClasses ==
  \A i \in DOMAIN h.level :
    LET c == CacheAt(h, i)
        stream == history[i]
        Holds(n) == WouldHold(stream, n, NumBlocks(c.g))
    IN c.g.classify =>
         /\ c.n["compulsory"] = Tally(stream, LAMBDA n : ~stream[n].hit /\ FirstUse(stream, n))
         /\ c.n["conflict"] = Tally(stream, LAMBDA n : ~stream[n].hit /\ Holds(n))
         /\ c.n["capacity"] = Tally(stream, LAMBDA n : ~stream[n].hit /\ ~FirstUse(stream, n) /\ ~Holds(n))
         /\ c.n["antiConflictHits"] = Tally(stream, LAMBDA n : stream[n].hit /\ ~Holds(n))
         /\ c.n["shadowMisses"] = Tally(stream, LAMBDA n : ~Holds(n))

-----------------------------------------------------------------------------
(* The checks of invariants.py.                                            *)

\* The levels that hold a block twice, in the array and in the victim buffer.
Doubled(x) == {i \in DOMAIN x.level : ~OneCopyEach(CacheAt(x, i))}

\* An exclusive level allocates the lines evicted above it without a look into its
\* victim buffer (hierarchy.py:798).
MayDouble(p) == p.inclusion = "exclusive" /\ p.entries > 0

\* invariants.py:182: after any calls, at any time and not only at the end of a run,
\* `--check' finds nothing and a flush leaves nothing dirty, unless Cache.invalidate
\* took a dirty line from outside.  The one exception is an exclusive level with a
\* victim buffer: where it holds a block twice, that check fires, against
\* invariants.py:63 "Structure (always)", and the dirty bits of the two copies may
\* differ and one of them outlast a flush.  Every other check holds even then, and no
\* other level ever holds a block twice.
ChecksHold ==
  ~tampered =>
    /\ \A i \in Doubled(h) : MayDouble(Policy(h, i))
    /\ CheckHierarchy(h, DOMAIN h.level \ Doubled(h), last = "flush")

(* Statistics.                                                             *)

\* A hierarchy without its counters.
StateOf(x) ==
  [memory |-> x.memory.open,
   level |-> [i \in DOMAIN x.level |-> <<x.level[i].prefetcher, [CacheAt(x, i) EXCEPT !.n = Zero]>>]]

Less(m, n) == [name \in DOMAIN m |-> m[name] - n[name]]

\* cache.py:636 and hierarchy.py:953: reset_stats() ends a warm-up without a trace:
\* the hierarchy goes on as the one never reset does, and each of its counters is
\* the difference of that one's counter to its value at the reset.
ResetIsSilent ==
  LET now == CountersOf(twin)
  IN /\ StateOf(h) = StateOf(twin)
     /\ h.n = Less(now.hierarchy, base.hierarchy)
     /\ h.memory.n = Less(now.memory, base.memory)
     /\ \A i \in DOMAIN h.level :
          /\ h.level[i].n = Less(now.level[i], base.level[i])
          /\ CacheAt(h, i).n = Less(now.cache[i], base.cache[i])

\* A level with a finite bus that is filled by every miss it takes.
FillsEachMiss(p) == p.busWidth > 0 => p.inclusion # "exclusive" /\ p.writeAllocate

\* hierarchy.py:991 "This equals measured_amat() exactly for an allocate-on-miss NINE
\* hierarchy", with any memory model; where a level does not fill on every miss, the
\* analytic figure is an upper bound.
AmatIsMeasured ==
  h.n["accesses"] > 0 =>
    /\ Amat(h)[1] * h.n["accesses"] >= TotalTime(h) * Amat(h)[2]
    /\ (\A i \in DOMAIN h.level : FillsEachMiss(Policy(h, i))) => AmatMeasured(h)

\* What crosses the last link is what main memory reads and writes, whichever way it
\* went: demand, prefetch, bypassing store, write-back; and the memory model sees
\* every access once, charged or not (dram.py:218).
DramTraffic ==
  LET bottom == h.level[Last(h)]
      m == h.memory.n
  IN /\ h.n["dramRead"] = h.n["dramReads"] + h.n["dramPrefetchReads"]
     /\ h.n["dramWritten"] = h.n["dramWrites"]
     /\ bottom.p.inclusion # "exclusive" => h.n["dramRead"] = bottom.n["readFromBelow"]
     /\ bottom.p.inclusion # "inclusive" => h.n["dramWritten"] = bottom.n["writtenBelow"]
     /\ ~ConstantLatency(h.memory) =>
          /\ m["reads"] = h.n["dramRead"] /\ m["writes"] = h.n["dramWritten"]
          /\ m["rowHits"] + m["rowMisses"] = m["reads"] + m["writes"]
          /\ m["chargedAccesses"] = h.n["dramReads"] + h.n["dramDemandWrites"]

\* The lines of level i that still carry the prefetched flag.
Flagged(x, i) == Len(SelectSeq(Lines(CacheAt(x, i)), LAMBDA l : l.prefetched))

\* hierarchy.py:301: every line a prefetcher of a level that is not exclusive fetched
\* was used, left unused or is still there, flagged.
PrefetchesAccounted ==
  \A i \in DOMAIN twin.level :
    LET n == twin.level[i].n
    IN Policy(twin, i).inclusion # "exclusive" =>
         n["prefetchesIssued"] = n["prefetchHits"] + n["prefetchEvictedUnused"] + Flagged(twin, i)
===============================================================================
