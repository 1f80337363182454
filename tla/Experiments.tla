------------------------------ MODULE Experiments ------------------------------
(***************************************************************************)
(* The drivers that replay a trace: simulate of compare.py, which hands a  *)
(* configuration with an OPT level to the two passes of simulate_with_opt  *)
(* of opt.py; and, over the same trace, the comparison of policies of      *)
(* policycmp.py and the sweeps of sweep.py.                                *)
(***************************************************************************)
EXTENDS Configuration

\* What is run: a configuration, a warm-up length, the accesses of the traces, their
\* length, and whether the first level is also compared and swept.
CONSTANT Subjects

VARIABLES
  subject,   \* the member of Subjects
  trace,     \* the accesses: [block, write]
  phase,     \* "load", "record" (pass 1), "replay" (the run measured) or "done"
  position,         \* accesses replayed in this phase
  first,     \* the hierarchy of pass 1
  recorded,  \* the blocks its recorder was probed for
  hierarchy  \* the hierarchy measured

vars == <<subject, trace, phase, position, first, recorded, hierarchy>>

Specification == ParseConfig(subject.config)

UsesOpt(spec) == OptLevels(spec) # {}

\* _opt_level, as a number of Simulator.
OptLevel(spec) == (CHOOSE k \in OptLevels(spec) : TRUE) - 1

\* _opt_level does not raise.
OptAccepted(spec) ==
  /\ spec.levels[OptLevel(spec) + 1].inclusion = "nine"
  /\ \A k \in DOMAIN spec.levels : k > OptLevel(spec) + 1 => spec.levels[k].inclusion # "inclusive"

\* The OPT level runs LRU in pass 1, in a _ProbeRecorder.
Recorder(spec) ==
  LET L == OptLevel(spec)
      lru == Build([spec EXCEPT !.levels[L + 1].policy = "lru"])
  IN [lru EXCEPT !.level[L].cache = Cache([lru.level[L].p EXCEPT !.classify = FALSE])]

Init ==
  \E s \in Subjects :
    LET spec == ParseConfig(s.config)
    IN /\ ConfigAccepted(s.config) /\ Buildable(spec) /\ (UsesOpt(spec) => OptAccepted(spec))
       /\ subject = s
       /\ trace = s.prefix /\ phase = "load" /\ position = 0
       /\ hierarchy = Build(spec)
       /\ first = IF UsesOpt(spec) THEN Recorder(spec) ELSE Build(spec)
       /\ recorded = << >>

Load(access) ==
  /\ phase = "load" /\ Len(trace) < subject.length
  /\ trace' = Append(trace, access)
  /\ UNCHANGED <<subject, phase, position, first, recorded, hierarchy>>

\* simulate dispatches on uses_opt.
Begin ==
  /\ phase = "load"
  /\ phase' = IF UsesOpt(Specification) THEN "record" ELSE "replay"
  /\ UNCHANGED <<subject, trace, position, first, recorded, hierarchy>>

Playing(x, access) == AccessHierarchy(x, access.block, access.write)

\* Mutant of Probed: the recorder notes every access to the hierarchy.
EveryAccess(before, after) == TRUE

\* The access probed the level that records.
Probed(before, after) ==
  LET L == OptLevel(Specification) IN CacheAccesses(after, L) > CacheAccesses(before, L)

\* One access of pass 1.
RecordAccess ==
  /\ phase = "record" /\ position < Len(trace)
  /\ first' = Playing(first, trace[position + 1])
  /\ recorded' = IF Probed(first, first') THEN Append(recorded, trace[position + 1].block) ELSE recorded
  /\ position' = position + 1
  /\ UNCHANGED <<subject, trace, phase, hierarchy>>

\* Pass 2: the stream is preloaded into the policy.
StartReplay ==
  /\ phase = "record" /\ position = Len(trace)
  /\ phase' = "replay" /\ position' = 0
  /\ hierarchy' = [hierarchy EXCEPT !.level[OptLevel(Specification)].cache = Preload(@, recorded)]
  /\ UNCHANGED <<subject, trace, first, recorded>>

\* One access of the run; the statistics are reset when the warm-up is over.
ReplayAccess ==
  /\ phase = "replay" /\ position < Len(trace)
  /\ LET warm == IF position = subject.warmup /\ position > 0 THEN ResetHierarchy(hierarchy) ELSE hierarchy
     IN hierarchy' = Playing(warm, trace[position + 1])
  /\ position' = position + 1
  /\ UNCHANGED <<subject, trace, phase, first, recorded>>

\* A warm-up as long as the trace leaves nothing measured.
FinishReplay ==
  /\ phase = "replay" /\ position = Len(trace)
  /\ phase' = "done"
  /\ hierarchy' = IF 0 < Len(trace) /\ Len(trace) <= subject.warmup THEN ResetHierarchy(hierarchy) ELSE hierarchy
  /\ UNCHANGED <<subject, trace, position, first, recorded>>

Next ==
  \/ \E access \in subject.accesses : Load(access)
  \/ Begin
  \/ RecordAccess
  \/ StartReplay
  \/ ReplayAccess
  \/ FinishReplay

Spec == Init /\ [][Next]_vars

-----------------------------------------------------------------------------
(* policycmp.py                                                            *)

\* The loop of run_opt and of _run_policy over one cache.
Replayed(cache) ==
  LET after[k \in 0 .. Len(trace)] ==
        IF k = 0 THEN cache ELSE Access(after[k - 1], trace[k].block, trace[k].write)
  IN after[Len(trace)]

BlockStream == [k \in DOMAIN trace |-> trace[k].block]

\* _run_policy; for "opt" it is run_opt.
RunPolicy(g, policy) ==
  LET cache == Cache([g EXCEPT !.policy = policy, !.index = "modulo", !.entries = 0, !.classify = FALSE])
  IN Replayed(IF policy = "opt" THEN Preload(cache, BlockStream) ELSE cache)

\* A row: the miss rate is misses / accesses and the AMAT is amat / accesses.
RowOf(policy, accesses, misses, hitTime, memTime) ==
  [policy |-> policy, accesses |-> accesses, misses |-> misses, amat |-> (hitTime * accesses) + (memTime * misses)]

RowOfCounters(n, policy, hitTime, memTime) == RowOf(policy, n["hits"] + n["misses"], n["misses"], hitTime, memTime)

PolicyRow(g, policy, hitTime, memTime) == RowOfCounters(RunPolicy(g, policy).n, policy, hitTime, memTime)

Place(names, row) == CHOOSE k \in DOMAIN names : names[k] = row.policy

\* Mutant of Before: equals are in alphabetical order, OPT among them.
TiesByName(names, r, s) == r.misses < s.misses \/ (r.misses = s.misses /\ Place(names, r) < Place(names, s))

\* The sort key: the fewest misses first, OPT before any other among equals, then the
\* order of the names.
Before(names, r, s) ==
  \/ r.misses < s.misses
  \/ r.misses = s.misses /\ r.policy = "opt" /\ s.policy # "opt"
  \/ /\ r.misses = s.misses /\ (r.policy = "opt" <=> s.policy = "opt")
     /\ Place(names, r) < Place(names, s)

\* compare_policies, on the names in their alphabetical order.
ComparePolicies(g, names, hitTime, memTime) ==
  SortSeq([k \in DOMAIN names |-> PolicyRow(g, names[k], hitTime, memTime)], LAMBDA r, s : Before(names, r, s))

-----------------------------------------------------------------------------
(* sweep.py: base is a CacheSpec.                                          *)

\* _apply; a sweep of the block size is left out.
Applied(base, param, value) ==
  CASE param = "size" -> [base EXCEPT !.size = value]
    [] param = "associativity" -> [base EXCEPT !.associativity = value]
    [] param = "policy" -> [base EXCEPT !.policy = value]

\* The hierarchy of run_point: one level over a constant-latency memory.
SweptHierarchy(p, memTime) ==
  FromSpec([levels |-> <<[LevelOf(p) EXCEPT !.inclusion = "nine", !.writeThrough = FALSE, !.writeAllocate = TRUE,
                                            !.busWidth = 0, !.prefetcher = "none"]>>,
            memory |-> [type |-> "constant", latency |-> memTime]])

ReplayedIn(start) ==
  LET after[k \in 0 .. Len(trace)] == IF k = 0 THEN start ELSE Playing(after[k - 1], trace[k])
  IN after[Len(trace)]

PointOf(p, c, amat) ==
  [size |-> p.size, ways |-> p.associativity, sets |-> NumSets(p), misses |-> c.n["misses"],
   compulsory |-> c.n["compulsory"], capacity |-> CapacityAggregate(c), conflict |-> ConflictAggregate(c),
   amat |-> amat]

Point(p, end) == PointOf(p, CacheAt(end, 0), Amat(end))

\* run_point.
RunPoint(p, memTime) == Point(p, ReplayedIn(SweptHierarchy(p, memTime)))

\* sweep, for the values of one parameter.
Sweep(base, param, values, memTime) ==
  [k \in DOMAIN values |-> RunPoint(Applied(base, param, values[k]), memTime)]

\* Mutant of NonMonotonicPairs: as many misses as before count as more.
NotFewer(rows, values) == {k \in 1 .. Len(rows) - 1 : values[k + 1] > values[k] /\ rows[k + 1].misses >= rows[k].misses}

\* non_monotonic_pairs: the positions of the first rows of the pairs.
NonMonotonicPairs(rows, values) ==
  {k \in 1 .. Len(rows) - 1 : values[k + 1] > values[k] /\ rows[k + 1].misses > rows[k].misses}

\* The cells of sweep_grid: the combinations that can be built.
GridCells(base, sizes, ways) ==
  {q \in (DOMAIN sizes) \X (DOMAIN ways) : sizes[q[1]] % (base.block_size * ways[q[2]]) = 0}

\* sweep_grid.
SweepGrid(base, sizes, ways, memTime) ==
  [q \in GridCells(base, sizes, ways) |->
     RunPoint([base EXCEPT !.size = sizes[q[1]], !.associativity = ways[q[2]]], memTime)]

-----------------------------------------------------------------------------
(* Properties.                                                             *)

\* Levels above the OPT level pass dirty lines on among themselves, and an exclusive
\* level below it may supply some, or not, as OPT leaves them there.
DirtyFromBelow(spec) ==
  /\ OptLevel(spec) >= 2
  /\ \E k \in DOMAIN spec.levels : k > OptLevel(spec) + 1 /\ spec.levels[k].inclusion = "exclusive"

\* Which block is where, and how old.
Placement(cache) ==
  [ways |-> [s \in DOMAIN cache.ways |-> [w \in DOMAIN cache.ways[s] |-> cache.ways[s][w].block]],
   buffer |-> [k \in DOMAIN cache.buffer |-> cache.buffer[k].block],
   order |-> cache.order]

OptState == CacheAt(hierarchy, OptLevel(Specification)).opt

\* The stream recorded is the one the OPT level sees: the replay never raises and
\* uses the stream up.
StreamSeen == ~OptState.raised /\ (phase = "done" => OptState.cursor = Len(recorded))

\* The levels above hold the blocks that pass 1 left there.
SameAbove ==
  phase = "done" =>
    \A k \in 0 .. OptLevel(Specification) - 1 : Placement(CacheAt(hierarchy, k)) = Placement(CacheAt(first, k))

\* opt.py:345 "The recorded stream is exactly the stream the OPT run sees, not an
\* approximation of it", whatever the write policies, buses, victim buffers and
\* prefetchers around it, unless two levels or more are above it and an exclusive one
\* below; and what is measured is what comes after the warm-up.
StreamReplays ==
  /\ UsesOpt(Specification) /\ ~DirtyFromBelow(Specification) => StreamSeen /\ SameAbove
  /\ phase = "done" =>
       hierarchy.n["accesses"] = IF subject.warmup >= Len(trace) THEN 0 ELSE Len(trace) - subject.warmup

\* The same sentence of opt.py:345, for every configuration _opt_level accepts.
RecordedStreamExact == UsesOpt(Specification) => StreamSeen

Compared == subject.compared /\ phase = "load"
Base == [Specification.levels[1] EXCEPT !.policy = "lru"]

Alphabetical == <<"fifo", "lru", "mru", "opt", "random">>

SameAsSwept(row, point) ==
  /\ point.misses = row.misses
  /\ point.amat[1] * row.accesses = row.amat * point.amat[2]

Bounded(rows, flat) ==
  /\ rows[1].policy = "opt"
  /\ \A k \in DOMAIN rows : rows[1].misses <= rows[k].misses
  /\ flat.n["misses"] <= rows[1].misses
  /\ \A k \in DOMAIN rows :
       rows[k].policy # "opt" /\ trace # << >> =>
         SameAsSwept(rows[k], RunPoint(Applied(Base, "policy", rows[k].policy), 100))

FullyAssociative(g) == [g EXCEPT !.sets = 1, !.ways = NumBlocks(g)]

\* policycmp.py:102 "a lower bound for every other row at this geometry": OPT comes
\* first whatever the others do; a fully-associative OPT of the same size bounds it in
\* turn; and the AMAT of a row, computed from the miss rate, is the one a hierarchy of
\* that one level reports in a sweep of the policies.
PolicyBound ==
  Compared => Bounded(ComparePolicies(LevelOf(Base), Alphabetical, Base.hit_time, 100),
                      RunPolicy(FullyAssociative(LevelOf(Base)), "opt"))

Sizes == <<BlockSize, 2 * BlockSize, 4 * BlockSize>>
Ways == <<1, 2, 4>>

GridMonotone(grid) ==
  /\ \A q, r \in DOMAIN grid :
       /\ q[1] < r[1] /\ q[2] = r[2] => grid[r].misses <= grid[q].misses
       /\ grid[q].sets = grid[r].sets /\ q[2] < r[2] => grid[r].misses <= grid[q].misses
  /\ \A q, r \in DOMAIN grid :
       q[1] = r[1] => grid[q].compulsory = grid[r].compulsory /\ grid[q].capacity = grid[r].capacity
  /\ \A q \in DOMAIN grid : grid[q].sets = 1 => grid[q].conflict = 0

\* sweep.py:319 "a LARGER parameter value caused MORE misses": under LRU that never
\* happens as the size grows, whether it adds sets or ways, so a pair reported there
\* would be an error of the simulator; rows of one size, which may differ either way,
\* differ in conflict misses alone, and a single set has none.
SweepsMonotone ==
  Compared =>
    /\ NonMonotonicPairs(Sweep([Base EXCEPT !.associativity = 1], "size", Sizes, 100), Sizes) = {}
    /\ GridMonotone(SweepGrid(Base, Sizes, Ways, 100))
===============================================================================
