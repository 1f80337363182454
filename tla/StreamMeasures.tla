---------------------------- MODULE StreamMeasures ----------------------------
(***************************************************************************)
(* What is measured of one stream of references: the bound of opt_misses,  *)
(* step by step, and, reference by reference beside it, the bound of       *)
(* run_opt, the tallies of setpressure.py, a stride prefetcher and a       *)
(* row-buffer memory.                                                      *)
(***************************************************************************)
EXTENDS OptMisses, SetPressure, Prefetchers, MainMemory

CONSTANTS
  Geometries,  \* geometries with a window size and a warm-up length
  Parameters   \* the parameters of the row-buffer memory

ASSUME GeometriesAssumption ==
  /\ Geometries \subseteq [sets : Nat \ {0}, ways : Nat \ {0}, index : IndexNames, policy : STRING,
                            draws : Seq(Nat), entries : Nat, classify : BOOLEAN,
                            window : Nat \ {0}, warmup : Nat]
  /\ \A g \in Geometries : IndexDefined(g.index, g.sets)
ASSUME ParametersAssumption ==
  /\ Parameters \in [type : {"row-buffer"}, rowSize : Int, banks : Int, rowHit : Int, rowMiss : Int]
  /\ MemoryValid(Parameters)

VARIABLES
  geometry,    \* the geometry measured
  bound,       \* the cache of run_opt
  hot,         \* hot_sets
  pressure,    \* window_pressure
  prefetcher,  \* a stride prefetcher
  named,       \* the block it named last, or NoBlock
  memory,      \* a row-buffer memory
  best         \* what any replacement can reach: see Replacements

measureVars == <<geometry, bound, hot, pressure, prefetcher, named, memory, best>>
vars == <<optVars, measureVars>>

\* An empty cache, with the misses so far.
NothingHeld == {[held |-> {}, misses |-> 0]}

\* What a reference to b can leave of cache f: on a miss b goes into one of `ways'
\* places, at the cost of any of its rivals if they take up all of them.
Replaced(f, b, rivals, ways) ==
  LET mates == f.held \cap rivals
      Missed(held) == [held |-> held \cup {b}, misses |-> f.misses + 1]
  IN IF b \in f.held THEN {f}
     ELSE IF Cardinality(mates) < ways THEN {Missed(f.held)}
     ELSE {Missed(f.held \ {v}) : v \in mates}

Replacements(found, b, rivals, ways) == UNION {Replaced(f, b, rivals, ways) : f \in found}

Init ==
  \E g \in Geometries, stream \in Streams :
    /\ InitOpt(stream, NumBlocks(g))
    /\ geometry = g
    /\ bound = Preload(Cache([g EXCEPT !.policy = "opt", !.entries = 0]), stream)
    /\ hot = HotSets(g) /\ pressure = NoPressure
    /\ prefetcher = Prefetcher("stride") /\ named = NoBlock
    /\ memory = Memory(Parameters)
    /\ best = [flat |-> NothingHeld, split |-> NothingHeld]

\* Odd references are reads somebody waits for, even ones write-backs.
MemoryAccess(m, n, b) == IF n % 2 = 1 THEN Read(m, b, TRUE) ELSE Write(m, b, FALSE)

\* The reference that opt_misses has just handled.
Measure ==
  LET b == blocks[i]
      seen == Observe(prefetcher, b, FALSE, FALSE)
      warm == IF i - 1 = geometry.warmup /\ i > 1 THEN ResetMemory(memory) ELSE memory
      rivals == {x \in Blocks : SetOf(bound, x) = SetOf(bound, b)}
  IN /\ bound' = Access(bound, b, FALSE)
     /\ hot' = HotAccess(hot, b, FALSE)
     /\ pressure' = WindowAccess(pressure, geometry.sets, geometry.ways, geometry.window, b)
     /\ prefetcher' = seen.prefetcher /\ named' = seen.target
     /\ memory' = MemoryAccess(warm, i, b).memory
     /\ best' = [flat |-> Replacements(best.flat, b, Blocks, capacity),
                 split |-> Replacements(best.split, b, rivals, geometry.ways)]
     /\ UNCHANGED geometry

Next ==
  \/ (Hit \/ FillFree \/ Install) /\ Measure
  \/ (MissFull \/ PopStale \/ PopVictim) /\ UNCHANGED measureVars

Spec == Init /\ [][Next]_vars

-----------------------------------------------------------------------------
(* Belady's bound.                                                         *)

FewestMisses(found) == Sets!Min({f.misses : f \in found})

\* opt.py:70 and :221 "Every miss allocates": at every reference, and not only at the
\* end of the stream, opt_misses has counted the fewest misses any replacement can
\* have in a fully-associative cache, run_opt the fewest with the sets there are,
\* and the second is never below the first.
OptIsBest ==
  pc = "next" =>
    /\ misses = FewestMisses(best.flat)
    /\ bound.n["misses"] = FewestMisses(best.split)
    /\ bound.n["misses"] >= misses
    /\ ~bound.opt.raised

(* Set pressure.                                                           *)

Handled == 1 .. i - 1

\* The distinct blocks of set s in window w, counted from 0.
Asked(w, s) ==
  {blocks[n] : n \in {m \in Handled : (m - 1) \div geometry.window = w /\ blocks[m] % geometry.sets = s}}

\* setpressure.py:292: the figures reported after any number of accesses, on a window
\* boundary or in a partial last window, are those of the windows by definition; a
\* set asked for more blocks than it has ways costs at least the difference in
\* misses, each tallied in its set; and the hottest sets never have less than a
\* uniform share.
WindowsByDefinition ==
  pc = "next" =>
    LET p == CloseWindow(pressure, geometry.ways)
        pairs == {q \in (0 .. i - 1) \X SetsOf(geometry) : Asked(q[1], q[2]) # {}}
        over == {q \in pairs : Cardinality(Asked(q[1], q[2])) > geometry.ways}
        Distinct(q) == Cardinality(Asked(q[1], q[2]))
        sets == geometry.sets
    IN /\ p.accesses = i - 1
       /\ p.windows = Cardinality({q[1] : q \in pairs})
       /\ p.touched = Cardinality(pairs)
       /\ p.oversubscribed = Cardinality(over)
       /\ p.windowsOver = Cardinality({q[1] : q \in over})
       /\ p.totalDistinct = Fns!SumFunction([q \in pairs |-> Distinct(q)])
       /\ p.maxDistinct = Sets!Max({0} \cup {Distinct(q) : q \in pairs})
       /\ hot.cache.n["misses"] >= Fns!SumFunction([q \in over |-> Distinct(q) - geometry.ways])
       /\ hot.cache.n["misses"] = Fns!SumFunction(hot.perSet)
       /\ \A k \in 1 .. 4 :
            TopMisses(hot.perSet, <<k, 4>>) * sets >= TopSets(<<k, 4>>, sets) * hot.cache.n["misses"]

(* Index functions.                                                        *)

\* The two numbers agree below the bit `low' and from as many bits above it as the
\* index has.
Apart(sets, low, x, y) == x # y /\ x % low = y % low /\ x \div (low * sets) = y \div (low * sets)

\* indexing.py:16: of two blocks of the stream that differ only within as many adjacent
\* bits as the index has, wherever these are, a hashed index never makes a conflict.
\* indexing.py:14-17 says more than that, and more than holds: of blocks that differ
\* only in high-order bits, and of a power-of-two stride, some still collide when the
\* bits are further apart.  With four sets blocks 4 and 16 are both in set 1.
IndexSpreads ==
  LET SetNumber(n) == SetOf(bound, blocks[n])
  IN geometry.index = "xor" =>
       \A m, n \in Handled :
         (\E low \in 1 .. blocks[m] + blocks[n] :
            IsPowerOfTwo(low) /\ Apart(geometry.sets, low, blocks[m], blocks[n]))
         => SetNumber(m) # SetNumber(n)

(* The stride prefetcher.                                                  *)

\* The latest reference of another region to the slot of reference n, or 0.
Taken(n) ==
  LET others == {m \in 1 .. n - 1 : /\ Slot(Region(blocks[m])) = Slot(Region(blocks[n]))
                                    /\ Region(blocks[m]) # Region(blocks[n])}
  IN Sets!Max({0} \cup others)

\* The references to the region of n since then, n the last of them, and the steps
\* between them that are not 0.
Run(n) == {m \in Taken(n) + 1 .. n : Region(blocks[m]) = Region(blocks[n])}
Step(n, m) == blocks[m] - blocks[Sets!Max({k \in Run(n) : k < m})]
Steps(n) == {m \in Run(n) \ {Sets!Min(Run(n))} : Step(n, m) # 0}

\* prefetch.py:142 "seen twice": a block is named only after two equal steps in a row
\* in one region, repeated references aside, with no other region in its slot in
\* between, and then always; it is the next block at that step.
TrustNeedsTwoStrides ==
  pc = "next" /\ i > 1 =>
    LET n == i - 1
        earlier == Steps(n) \ {n}
        trusted == /\ n \in Steps(n) /\ earlier # {}
                   /\ Step(n, n) = Step(n, Sets!Max(earlier))
    IN named = IF trusted THEN NonNegative(blocks[n] + Step(n, n)) ELSE NoBlock

(* The row buffers.                                                        *)

RowOf(n) == Row(Parameters, blocks[n])
SameBank(m, n) == Bank(Parameters, RowOf(m)) = Bank(Parameters, RowOf(n))

\* The last access to the bank of n was to the same row.
Repeats(n) ==
  LET before == {m \in 1 .. n - 1 : SameBank(m, n)}
  IN before # {} /\ RowOf(Sets!Max(before)) = RowOf(n)

\* dram.py:218: an access is a row hit if and only if the latest access to its bank,
\* charged or not, before the warm-up ended or after, was to the same row; the
\* cycles charged are those of the charged ones alone.
RowHitIsRepeat ==
  pc = "next" =>
    LET measured == {n \in Handled : geometry.warmup < i - 1 => n > geometry.warmup}
        charged == {n \in measured : n % 2 = 1}
        Hits(ns) == Cardinality({n \in ns : Repeats(n)})
        Misses(ns) == Cardinality({n \in ns : ~Repeats(n)})
    IN /\ memory.n["rowHits"] = Hits(measured)
       /\ memory.n["rowMisses"] = Misses(measured)
       /\ memory.n["chargedCycles"] = Parameters.rowHit * Hits(charged) + Parameters.rowMiss * Misses(charged)
===============================================================================
