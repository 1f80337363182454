------------------------------ MODULE Reference ------------------------------
(***************************************************************************)
(* cachesim/reference.py: the second, deliberately naive simulator that    *)
(* the tests compare the first one with.  Lines carry timestamps instead   *)
(* of an order of the ways; only write-back, write-allocate NINE levels    *)
(* with LRU, FIFO or random replacement over a constant latency exist.     *)
(***************************************************************************)
EXTENDS Integers, Sequences, FiniteSets

LOCAL INSTANCE SequencesExt

RefPolicies == {"lru", "fifo", "random"}

Free == [block |-> -1, dirty |-> FALSE, lastUsed |-> 0, filledAt |-> 0]

RefCounters == {"hits", "misses", "readHits", "readMisses", "writeHits", "writeMisses",
                "fills", "evictions", "invalidations", "writebacks",
                "writebacksReceived", "writebackAllocations",
                "compulsory", "capacity", "conflict", "shadowMisses", "antiConflictHits"}

RefZero == [name \in RefCounters |-> 0]

\* A cache of the geometry g (see CacheLevel).
RefCache(g) ==
  [g |-> g,
   slots |-> [s \in 0 .. g.sets - 1 |-> [w \in 0 .. g.ways - 1 |-> Free]],
   drawn |-> 0, clock |-> 0, shadow |-> << >>, seen |-> {}, n |-> RefZero]

RefCount(c, names) == [c EXCEPT !.n = [x \in RefCounters |-> IF x \in names THEN @[x] + 1 ELSE @[x]]]

RefSet(c, b) == b % c.g.sets

\* The slots of the set of block b that hold it.
SlotsOf(c, b) == {w \in DOMAIN c.slots[RefSet(c, b)] : c.slots[RefSet(c, b)][w].block = b}

RefContains(c, b) == SlotsOf(c, b) # {}

\* The line of block b becomes `line'.
RefRewrite(c, b, line) ==
  [c EXCEPT !.slots[RefSet(c, b)] = [w \in DOMAIN @ |-> IF w \in SlotsOf(c, b) THEN line ELSE @[w]]]

RefLine(c, b) == c.slots[RefSet(c, b)][CHOOSE w \in SlotsOf(c, b) : TRUE]

-----------------------------------------------------------------------------
(* The shadow cache.                                                       *)

RefClassify(c, b) ==
  RefCount(c, {IF b \notin c.seen THEN "compulsory"
               ELSE IF \E n \in DOMAIN c.shadow : c.shadow[n] = b THEN "conflict" ELSE "capacity"})

RefShadow(c, b) ==
  LET hit == \E n \in DOMAIN c.shadow : c.shadow[n] = b
      moved == Append(SelectSeq(c.shadow, LAMBDA x : x # b), b)
      kept == IF Len(moved) > c.g.sets * c.g.ways THEN Tail(moved) ELSE moved
  IN [cache |-> RefCount([c EXCEPT !.seen = @ \cup {b}, !.shadow = kept], IF hit THEN {} ELSE {"shadowMisses"}),
      hit |-> hit]

-----------------------------------------------------------------------------
(* The cache.                                                              *)

RefProbe(c, b, write) ==
  LET used == [RefLine(c, b) EXCEPT !.dirty = @ \/ write, !.lastUsed = c.clock + 1]
      hit == RefCount(RefRewrite([c EXCEPT !.clock = @ + 1], b, used),
                      {"hits", IF write THEN "writeHits" ELSE "readHits"})
      miss == RefCount(c, {"misses", IF write THEN "writeMisses" ELSE "readMisses"})
      shadow == RefShadow(hit, b)
  IN IF RefContains(c, b)
     THEN IF ~c.g.classify THEN hit
          ELSE IF shadow.hit THEN shadow.cache ELSE RefCount(shadow.cache, {"antiConflictHits"})
     ELSE IF c.g.classify THEN RefShadow(RefClassify(miss, b), b).cache ELSE miss

\* _choose_victim: the smallest timestamp, or a draw.
ChooseVictim(c, s) ==
  LET Stamp(w) == IF c.g.policy = "lru" THEN c.slots[s][w].lastUsed ELSE c.slots[s][w].filledAt
  IN IF c.g.policy = "random" THEN c.g.draws[(c.drawn % Len(c.g.draws)) + 1]
     ELSE CHOOSE w \in DOMAIN c.slots[s] :
            \A v \in DOMAIN c.slots[s] : Stamp(w) < Stamp(v) \/ (Stamp(w) = Stamp(v) /\ w <= v)

\* The line that allocate() evicts, or Free.
RefAllocate(c, b, dirty) ==
  LET s == RefSet(c, b)
      free == {w \in DOMAIN c.slots[s] : c.slots[s][w] = Free}
      full == free = {}
      way == IF full THEN ChooseVictim(c, s) ELSE CHOOSE w \in free : \A v \in free : w <= v
      victim == c.slots[s][way]
      now == c.clock + 1
      names == {"fills"} \cup (IF full THEN {"evictions"} ELSE {})
               \cup (IF full /\ victim.dirty THEN {"writebacks"} ELSE {})
      line == [block |-> b, dirty |-> dirty, lastUsed |-> now, filledAt |-> now]
  IN IF RefContains(c, b)
     THEN [cache |-> IF dirty THEN RefRewrite(c, b, [RefLine(c, b) EXCEPT !.dirty = TRUE]) ELSE c,
           out |-> Free]
     ELSE [cache |-> RefCount([c EXCEPT !.slots[s][way] = line, !.clock = now,
                                        !.drawn = IF full /\ c.g.policy = "random" THEN @ + 1 ELSE @], names),
           out |-> IF full THEN victim ELSE Free]

RefInvalidate(c, b) ==
  IF ~RefContains(c, b) THEN c
  ELSE RefCount(RefRewrite(c, b, Free),
                {"invalidations"} \cup (IF RefLine(c, b).dirty THEN {"writebacks"} ELSE {}))

RefMarkDirty(c, b) == IF RefContains(c, b) THEN RefRewrite(c, b, [RefLine(c, b) EXCEPT !.dirty = TRUE]) ELSE c
RefClean(c, b) == IF RefContains(c, b) THEN RefRewrite(c, b, [RefLine(c, b) EXCEPT !.dirty = FALSE]) ELSE c

\* The dirty blocks, set by set and way by way.
RefDirtyLines(c) ==
  LET slots == [n \in 1 .. c.g.sets * c.g.ways |-> c.slots[(n - 1) \div c.g.ways][(n - 1) % c.g.ways]]
  IN SelectSeq(slots, LAMBDA l : l # Free /\ l.dirty)

RefReset(c) == [c EXCEPT !.n = RefZero]

-----------------------------------------------------------------------------
(* The hierarchy.                                                          *)

\* The specifications from_spec accepts, among those of Simulator: a constant
\* latency; it drops what the reference does not have.
RefSupports(s) ==
  /\ s.memory.type = "constant"
  /\ \A n \in DOMAIN s.levels : s.levels[n].policy \in RefPolicies

RefHierarchy(s) ==
  [cache |-> [i \in 0 .. Len(s.levels) - 1 |-> RefCache(s.levels[i + 1])],
   hitTime |-> [i \in 0 .. Len(s.levels) - 1 |-> s.levels[i + 1].hitTime],
   latency |-> s.memory.latency,
   accesses |-> 0, reads |-> 0, writes |-> 0, dramReads |-> 0, dramWrites |-> 0, totalTime |-> 0]

RefLevels(r) == Cardinality(DOMAIN r.cache)

\* _write_back.
RECURSIVE RefWriteBack(_, _, _)
RefWriteBack(r, i, b) ==
  IF i = RefLevels(r) THEN [r EXCEPT !.dramWrites = @ + 1]
  ELSE LET received == RefCount(r.cache[i], {"writebacksReceived"})
           allocated == RefAllocate(RefCount(received, {"writebackAllocations"}), b, TRUE)
           installed == [r EXCEPT !.cache[i] = allocated.cache]
       IN IF RefContains(received, b) THEN [r EXCEPT !.cache[i] = RefMarkDirty(received, b)]
          ELSE IF allocated.out.dirty THEN RefWriteBack(installed, i + 1, allocated.out.block)
          ELSE installed

\* The loop of access() that fills, from level i up.
RECURSIVE RefFill(_, _, _, _)
RefFill(r, i, b, write) ==
  IF i < 0 THEN r
  ELSE LET allocated == RefAllocate(r.cache[i], b, write /\ i = 0)
           installed == [r EXCEPT !.cache[i] = allocated.cache]
       IN RefFill(IF allocated.out.dirty THEN RefWriteBack(installed, i + 1, allocated.out.block) ELSE installed,
                  i - 1, b, write)

\* Only L1 sees the store.
RefAccess(r, b, write) ==
  LET holders == {i \in DOMAIN r.cache : RefContains(r.cache[i], b)}
      hit == IF holders = {} THEN RefLevels(r) ELSE CHOOSE i \in holders : \A k \in holders : i <= k
      Paid[i \in 0 .. RefLevels(r)] ==
        IF i = RefLevels(r) THEN r.latency ELSE r.hitTime[i] + (IF i = hit THEN 0 ELSE Paid[i + 1])
      probed == [r EXCEPT
        !.accesses = @ + 1, !.writes = IF write THEN @ + 1 ELSE @, !.reads = IF write THEN @ ELSE @ + 1,
        !.cache = [i \in DOMAIN @ |-> IF i <= hit THEN RefProbe(@[i], b, write /\ i = 0) ELSE @[i]],
        !.dramReads = IF hit = RefLevels(r) THEN @ + 1 ELSE @,
        !.totalTime = @ + Paid[0]]
  IN RefFill(probed, hit - 1, b, write)

RECURSIVE RefFlushLines(_, _, _)
RefFlushLines(r, i, lines) ==
  IF lines = << >> THEN r
  ELSE LET cleaned == [r EXCEPT !.cache[i] = RefCount(RefClean(@, Head(lines).block), {"writebacks"})]
       IN RefFlushLines(RefWriteBack(cleaned, i + 1, Head(lines).block), i, Tail(lines))

RECURSIVE RefFlushFrom(_, _)
RefFlushFrom(r, i) ==
  IF i = RefLevels(r) THEN r ELSE RefFlushFrom(RefFlushLines(r, i, RefDirtyLines(r.cache[i])), i + 1)

RefFlush(r) == RefFlushFrom(r, 0)

RefResetHierarchy(r) ==
  [r EXCEPT !.accesses = 0, !.reads = 0, !.writes = 0, !.dramReads = 0, !.dramWrites = 0, !.totalTime = 0,
            !.cache = [i \in DOMAIN @ |-> RefReset(@[i])]]
===============================================================================
