------------------------------ MODULE SetPressure ------------------------------
(***************************************************************************)
(* cachesim/setpressure.py: which sets take the misses of a cache, and how *)
(* many distinct blocks each set is asked for in a window of the trace.    *)
(***************************************************************************)
EXTENDS CacheLevel

Sets == INSTANCE FiniteSetsExt
Fns == INSTANCE Functions

-----------------------------------------------------------------------------
(* window_pressure: no cache is simulated.                                 *)

\* The figures of the windows closed so far, and the blocks seen per set since.
NoPressure ==
  [accesses |-> 0, windows |-> 0, touched |-> 0, oversubscribed |-> 0, windowsOver |-> 0,
   maxDistinct |-> 0, totalDistinct |-> 0, current |-> << >>]

\* flush.
CloseWindow(p, ways) ==
  LET touched == DOMAIN p.current
      Distinct(s) == Cardinality(p.current[s])
      over == {s \in touched : Distinct(s) > ways}
  IN IF touched = {} THEN p
     ELSE [p EXCEPT !.windows = @ + 1,
                    !.touched = @ + Cardinality(touched),
                    !.totalDistinct = @ + Fns!SumFunction([s \in touched |-> Distinct(s)]),
                    !.maxDistinct = Sets!Max({@} \cup {Distinct(s) : s \in touched}),
                    !.oversubscribed = @ + Cardinality(over),
                    !.windowsOver = IF over = {} THEN @ ELSE @ + 1,
                    !.current = << >>]

\* Mutant of WindowOver: the first window is one access short.
WindowShort(p, window) == p.accesses > 0 /\ (p.accesses + 1) % window = 0

\* A window is closed when the access after it arrives.
WindowOver(p, window) == p.accesses > 0 /\ p.accesses % window = 0

\* One access of the loop.
WindowAccess(pressure, sets, ways, window, b) ==
  LET p == IF WindowOver(pressure, window) THEN CloseWindow(pressure, ways) ELSE pressure
      s == b % sets
      known == DOMAIN p.current
  IN [p EXCEPT !.accesses = @ + 1,
               !.current = [x \in known \cup {s} |->
                              (IF x \in known THEN @[x] ELSE {}) \cup (IF x = s THEN {b} ELSE {})]]

-----------------------------------------------------------------------------
(* hot_sets: one cache level with the misses tallied by set.               *)

HotSets(g) == [cache |-> Cache([g EXCEPT !.index = "modulo", !.entries = 0, !.classify = FALSE]),
               perSet |-> [s \in SetsOf(g) |-> 0]]

\* One access of the loop.
HotAccess(hot, b, write) ==
  LET probe == Probe(hot.cache, b, write)
  IN IF probe.hit THEN [hot EXCEPT !.cache = probe.cache]
     ELSE [hot EXCEPT !.cache = Allocate(probe.cache, Line(b, write, FALSE)).cache,
                      !.perSet[b % hot.cache.g.sets] = @ + 1]

\* The sets, busiest first and by number among equals.
Hottest(perSet) ==
  LET Before(s) == {t \in DOMAIN perSet : perSet[t] > perSet[s] \/ (perSet[t] = perSet[s] /\ t < s)}
  IN [n \in 1 .. Cardinality(DOMAIN perSet) |->
        CHOOSE s \in DOMAIN perSet : Cardinality(Before(s)) = n - 1]

\* top_sets, the fraction being fraction[1] / fraction[2].
TopSets(fraction, sets) ==
  Sets!Max({1, ((fraction[1] * sets) + fraction[2] - 1) \div fraction[2]})

\* The numerator of top_share; the denominator is the number of misses.
TopMisses(perSet, fraction) ==
  LET top == 1 .. TopSets(fraction, Cardinality(DOMAIN perSet))
  IN Fns!SumFunctionOnSet(perSet, {Hottest(perSet)[n] : n \in top})
===============================================================================
