# Formal models of the cache hierarchy simulator

TLA+ specifications of `cachesim`, the trace-driven cache simulator of this
repository, the TLC runs that check them and the TLAPS proofs about them.
`PROJECT.json` lists the components, the runs, which source lines every
definition models, the hazards and the theorems.

## The system

`cachesim` replays a stream of `(address, is_write)` pairs through a chain of
cache levels over main memory and counts. It is single-threaded and keeps no
data bytes: its state is which blocks a level holds, a few bits per line, the
bookkeeping of the replacement policies, and counters. What makes it hard is
not concurrency but recursion and combination: one access may fill several
levels, every fill may evict, every eviction may write back or back-invalidate,
each of these may allocate and evict again; and inclusion policies, write
policies, write allocation, victim buffers and prefetchers are chosen for each
level independently; and that several pieces of code compute the same thing in
different ways (two access paths, a second simulator, two passes of OPT, analytic
and counted AMAT) and must agree. The tests run chosen combinations on random
streams; the models take all combinations of small hierarchies and all streams.

| component | source | state | operations | what makes it correct |
|---|---|---|---|---|
| hierarchy | `hierarchy.py` | the chain of levels, traffic counters, cycles | `access`, `flush`, `reset_stats`; inside: `_run_prefetchers`, `_prefetch_fill`, `_handle_eviction`, `_back_invalidate`, `_write_back` | no modified data lost, newest data served, inclusion relations hold, every call ends |
| cache | `cache.py` | ways of each set, dirty and prefetched bits, victim buffer, 3-C shadow cache, counters | `probe`, `allocate`, `invalidate`, `mark_dirty`, `clean`, `clear_prefetched`, `lines`, `access` | one copy of a block, no overflow, the buffer is part of the level, the classes of misses sum up |
| policies | `policies.py` | recency order, tree bits, reference bits, counts, RRPVs and PSEL | `on_hit`, `on_fill`, `on_invalidate`, `victim` | the victim is the one the policy's definition names; loops end; counters saturate |
| optimal replacement | `opt.py` | next-use times, lazy heap, stream cursor | `opt_misses`, `OPTPolicy` hooks, `simulate_with_opt` | no replacement does better; the recorded stream is the replayed one |
| stack distances | `stackdist.py` | Fenwick tree, last-use map, histogram | `stack_distances`, `misses`, `per_set_profile` | equals an LRU cache of every size |
| indexing | `indexing.py` | none | `modulo_index`, `xor_index` | onto the sets, balanced |
| prefetch | `prefetch.py` | stride table | `predict`, `reset` | predicts only after two equal strides |
| main memory | `dram.py` | open row per bank, counters | `read`, `write` | row hits and misses sum up, charged apart from total |
| set pressure | `setpressure.py` | blocks per set of the current window | `window_pressure`, `hot_sets` | every access in exactly one window |
| stats, invariants | `stats.py`, `invariants.py` | none | `collect`, `check_hierarchy` | the counter identities hold at any time, after any calls |
| reference | `reference.py` | a second, simpler simulator | as hierarchy | agrees with the first |
| sweep, compare, policycmp | `sweep.py`, `compare.py`, `policycmp.py` | none | loops over independent simulations, tables | more ways of LRU never miss more |
| config, trace, workloads, report, plot, command line | the other files | none | parsing, generating, printing | - |

A `Hierarchy` owns its `Level`s; a `Level` owns a `Cache`, which owns a policy
and a victim buffer and calls the policy through hooks. All calls are
synchronous. `opt.py` builds two hierarchies and replays one trace through
both; everything from `sweep` on only starts simulations and prints.

## Modules

There are two models of a hierarchy. `Hierarchy` goes step by step through the
contents of one, with the Python call stack as a variable and any replacement; it
is the one that is proved about. `Simulator` is the same code as operators on a
record, an operator for each method and for its parts, with the actual policies, every counter and every
cycle; a step of the modules above it is one call.

| module | models |
|---|---|
| `Hierarchy` | the contents of every level under `access`, prefetching and `flush`, step by step |
| `HierarchyProofs` | type correctness of `Hierarchy`, that a victim-buffer hit displaces nothing, and that no store is lost when no exclusive level has a victim buffer |
| `HierarchyInclusion` | under the same condition: inclusion is kept, the referenced block stays, the list of a flush is current |
| `HierarchyPolicies` | when exclusion is kept, and that a write-through level is clean |
| `HierarchyFreshness` | that references are served by the newest data, and that a flush leaves all of it in memory |
| `MCHierarchy` | one small hierarchy for TLC |
| `MCConfigurations` | every combination of level policies of small hierarchies |
| `Replacement`, `MCReplacement` | the replacement policies of `policies.py` under the hooks of `Cache` |
| `ReplacementProofs` | that their books stay in range and their victims are those of their definitions |
| `StackDistance` | the Mattson profiler of `stackdist.py` over a set of markers |
| `FenwickDistance` | its binary indexed tree, run beside `StackDistance` |
| `StackDistanceProofs` | that its distances, its tree and its miss curves are exact |
| `Indexing`, `Prefetchers`, `MainMemory` | `indexing.py`, `prefetch.py`, `dram.py` |
| `Belady` | `next_use_indices` of `opt.py` |
| `CacheLevel` | class `Cache`: ways, policy hooks (with `OPTPolicy`), victim buffer, shadow cache, counters |
| `Simulator` | class `Hierarchy` over these: both paths of `access()`, prefetching, evictions, `flush`, `reset_stats`, AMAT |
| `Checks` | `check_hierarchy` of `invariants.py` |
| `Reference` | the naive simulator of `reference.py` |
| `Lockstep`, `MCLockstep` | one caller that drives `Simulator` on both paths, a twin never reset, and `Reference` |
| `OptMisses` | `opt_misses` of `opt.py`, with its heap, step by step |
| `SetPressure` | `hot_sets` and `window_pressure` of `setpressure.py` |
| `StreamMeasures`, `MCStreamMeasures` | `OptMisses` and, beside it, `run_opt`, set pressure, a stride prefetcher and row buffers over one stream |
| `StreamMeasuresProofs` | that the heap never runs dry, its victim is the farthest, Belady's misses are the fewest, and what else is measured is what its definition says |
| `RecursionTheorems` | induction and recursion over the naturals for the proofs above, powers of two, division |
| `Configuration` | `parse_config` of `config.py` and the building of a hierarchy |
| `Experiments`, `MCExperiments` | `simulate`, `simulate_with_opt`, `compare_policies` and the sweeps |

`CacheLevel` is used by `Simulator`, `SetPressure` and, through them, by all that
follow; `Simulator` by `Checks`, `Lockstep` and `Configuration`; `Configuration` by
`Experiments`.

### Hierarchy

*State.* `resident`, `dirty` and `prefetched` are the array of `Cache`
(`_blocks`, `_dirty`, `_prefetched`) by block instead of by way; `buffer[i]` is
the ordered dictionary of `VictimBuffer`. `req` and `fetch` are the locals of
`access` and of a fill loop, `snapshot` the list `flush` walks. `pc` says which
loop of the entry point runs and `work` is the Python call stack of the three
mutually recursive methods.

*Steps.* One probe, one fill, one observation of a prefetcher, one eviction,
one iteration of `_back_invalidate` or `_write_back`, one line of a flush. The
steps of the entry point wait until `work` is empty, so the interleaving is
exactly the one of the code: nothing runs concurrently. What is
nondeterministic is the environment (which block, load or store, or a flush)
and the replacement policy.

| action | code |
|---|---|
| `BeginAccess`, `ProbeHit`, `ProbeVictimHit`, `ProbeMiss`, `ReachMemory` | the probe loop of `access` with `Cache.probe` |
| `Settle`, `MoveUp` | what is filled; the block leaves the exclusive level that hit |
| `Fill`, `Forward` | the fill loop; the write-through duplicate |
| `Observe`, `Issue`, `PrefetchFill`, `PrefetchDone` | `_run_prefetchers`, `_prefetch_fill` |
| `FinishAccess` | `access` returns |
| `HandleEviction`, `BackInvalidateStep`, `WriteBackStep` | the recursive methods |
| `BeginFlush`, `FlushLine`, `FlushNextLevel`, `FinishFlush` | `flush` |

*Abstractions.* A full set may lose any of its lines (every policy of
`policies.py` picks one of them, `random` any). The stride prefetcher may
predict any block or none. `SetOf` is any mapping of blocks to sets. Counters
and cycles are left out. `FlushLine` takes the lines of a flush in any order; the
code takes them in the order of `Cache.lines`.

*History variables.* The simulator moves no bytes, so "the newest data" is
carried by `fresh` (array copies that would hold it; buffered and moving lines
have a field of that name) and `memory` (blocks whose newest data main memory
has). `owed` holds the blocks stored and not written to memory since. No guard
reads them. A fill passes on what it fetched (`FilledCurrent`), but on a store miss only
the level that took the store gets the store's data: the levels between it and the hit get
a plain line fill of the data before the store, and their copies are stale.

### Replacement

The sets of one cache under one policy of the registry, chosen by the rigid
variable `config` together with the geometry. `Hit`, `FillEmpty`, `Search` and
`Replace`, and `Invalidate` are what `probe`, `allocate` and `invalidate` do to a
set and the hook each calls; `Search` stands for the call of `victim()` and `Age`
for one pass of its loop in the RRIP policies. `OnHit`, `OnFill`, `OnInvalidate`
and `Victims` collect the methods of the classes, one line per family. Blocks are
left out, since a policy sees only ways; a draw of the random generator is any
value it can return. Powers and shifts are recursive functions (`Power` of `Indexing`,
`ShiftRight`), so that they can be reasoned about. The width of PSEL and the period of the leader sets are
constants, smaller in the runs than in the code.

`used`, `filled` and `lead` are history variables: the valid ways by last reference and
by fill, against which the victims of LRU, FIFO, MRU and tree PLRU are compared, and the
misses in a row of one side's leader sets, up to PSEL_MAX, against which PSEL is.

### StackDistance and FenwickDistance

A behaviour is one call of `per_set_profile`: `Init` picks the stream and
`num_sets` (with one set it is `stack_distance_profile`), `Split` puts one
reference in its bucket, `Reference` is one turn of the loops of
`stack_distances` and `stack_distance_profile`, `NextBucket` merges the profile
of a set. What the result is asked (`Misses`, `ReuseBuckets`) are operators on a
profile. The generator yields before it moves the marker and its consumer only
counts, so the two loops are one step.

`StackDistance` keeps the timestamps that hold a 1 as a set and counts them in an
interval. `FenwickDistance` adds the array of `_Fenwick` with the `add` calls of
the code and compares every range sum with that count, so the distances of the
code are those of `StackDistance`: what `per_set_profile` computes is stated and
proved about the set, and the tree is shown to count it.

`MissCurve` compares the profile with an LRU cache of each size that is run on the
stream (`LRUContents`), as a fold over the references.

*Abstraction.* Blocks map to sets modulo `num_sets`, as in the code; whether an
access was a load or a store is dropped there too.

### CacheLevel, Simulator and what they are made of

A cache is a record: `ways[s][w]` is a line, `order[s]` the ways of a set by age,
`buffer` and `shadow` the ordered dictionaries of the victim buffer and of the 3-C
shadow cache, `seen` the blocks ever referenced, `opt` the cursor and the next uses
of `OPTPolicy`, `n` the counters under their names in the code. Each method is an
operator from a record to the record it leaves behind; a method that also returns
something returns both. A hierarchy is a record of levels, memory and counters in
the same way, and the mutually recursive methods are mutually recursive operators.

*Abstractions.* Addresses are block numbers and bytes are counted in blocks (every
transfer of the code is one block). A random generator is the sequence of what it
returns, cycled through. Policies are `lru`, `fifo`, `mru`, `random` and `opt`;
the others are in `Replacement`. A rate is a pair of integers and is compared by
cross-multiplication, so no property depends on rounding.

### Lockstep

A step is one call by the user of the library: a load or store, a flush, a reset,
and for a single level `Cache.invalidate` and `Cache.mark_dirty`, which the
differential tests call too. `h` is driven by `access()`, which picks its path as
the code does; `general` always takes the general path and `ref` is the reference
simulator, both only where the hierarchy has default features; `twin` is never
reset. `history` is a history variable: what each level was probed for, and whether
it hit. The three classes of misses are compared with their definition over it.

### OptMisses and StreamMeasures

`Hit`, `FillFree`, `MissFull` and `Install` are the branches of the loop of
`opt_misses`, `PopStale` and `PopVictim` one turn of the loop that pops the heap.
The heap is the set of its pairs (`heappop` of pairs is decided by the pairs alone,
and no pair is pushed twice, as only one reference to a block precedes its next).
`StreamMeasures` is this program composed with what else is measured of the same
stream: whenever a reference is done, `run_opt`, `hot_sets`, `window_pressure`, a
`StridePrefetcher` and a `RowBufferMemory` are given it. `best` is a history
variable, the sets of all contents and miss counts that some replacement can reach, in
one fully-associative cache (`best.flat`) and with the sets of `run_opt`
(`best.split`).

### Configuration and Experiments

A configuration is a function on the keys a JSON object has. A behaviour of
`Experiments` is: choose a configuration, `Load` a trace, and `simulate` it: directly,
or in two passes when a level asks for OPT (`RecordAccess`, `StartReplay`,
`ReplayAccess`), with the reset at the end of the warm-up. `compare_policies`, `sweep`,
`sweep_grid` and `non_monotonic_pairs` keep no state between calls and are operators
on the trace; the properties about them hold for every trace loaded.

## Runs

The constants of `Hierarchy` are one configuration. `MCConfigurations`
instantiates it for a rigid variable `config`, so that one run covers every
combination of policies; each property there names the configurations it holds
for.

| run | shows |
|---|---|
| `configurations` | 192 configurations of two levels (inclusion x write policy x write allocation x victim buffers, each level on its own), 576 of three levels without victim buffers (nested back-invalidations, chains of exclusive levels), and 192 of two levels with a prefetcher that may predict anything at either, both or none. In all of them `LinesStay`: no eviction takes a line that a flush has listed or that a reference was for. Where no exclusive level can come to hold a block twice (`SingleCopies`), `DataSurvives`: no store is lost, a reference is served by the newest data, and what memory lacks of it is in a dirty copy. `LevelsRelated`: inclusion holds under the same condition, exclusion if nothing is allocated in an exclusive level that the level above may keep, and write-through levels are clean if no dirty line can move into them. `FlushWritesAll`: after a flush, which must go from the top down, every level is clean and memory has the newest data of every block |
| `every_step` | one hierarchy with a NINE, an exclusive and an inclusive level, two set mappings, a victim buffer, both write policies and both kinds of prefetcher, where every action happens and that satisfies the hypotheses of all theorems: `TypeOK`, `StoresConserved`, `ServedNewest`, `NewestKept`, `InclusionHolds`, `ExclusionHolds`, `WriteThroughClean`, `SnapshotCurrent`, `ReferencedBlockStays`, `VictimHitDisplacesNothing`; under `FairSpec` every call returns (`CallsReturn`) |
| `replacement` | all ten policies on one set of two, three or four ways, DRRIP on caches of one to five sets: the recency policies and tree PLRU name the victims of their definitions after any sequence of hits, fills and invalidations, PSEL stays within its bits at both ends and, after as many misses in a row of one side's leaders as it has steps to its middle, the followers insert like the other side (`PselSaturates`); the victim search of RRIP ends |
| `stack_distance` | all 5461 streams of up to six references to four blocks, over one, two and three sets: distances by definition; the miss curve, the reuse buckets, the working-set sizes and the default capacities against LRU caches of every number of ways run on the stream (`MissCurve`); the tree against the markers (`TreeCountsMarkers`). That the markers are at the last uses (`MarkersAtLastUse`) is proved and not checked here: a marker elsewhere would make a later distance wrong |
| `lockstep` | five default hierarchies and 47 pairs of levels with other features, two of them with a victim buffer in an exclusive L2, under any four or five calls. `SameAsReference`: the naive simulator agrees in every way of every set, every counter and every cycle. `DefaultAgrees`: so does the general path with `_access_default`. `MissClasses`: the classes of misses are those of Hill. `ChecksHold`: `--check` finds nothing at any time, except that an exclusive level with a victim buffer, and no other, may hold a block twice, where its check of single copies and of dirty bits fires (the two hierarchies for it reach that). `ResetIsSilent`: a reset only subtracts. `AmatIsMeasured`, `DramTraffic`, `PrefetchesAccounted` |
| `measures` | every stream of six references to four blocks and 64 longer ones, with three geometries: `opt_misses` and `run_opt` have the fewest misses any replacement can have, at every reference (`OptIsBest`); the heap holds every resident block and names the farthest victim; set-pressure figures, XOR-indexed sets, predictions of the stride table and row hits are those of their definitions |
| `experiments` | OPT at the only level with three warm-ups, and at the second or third of 19 hierarchies of three levels, with every trace of up to four accesses; two levels that are compared and swept, with every trace of up to five: `StreamReplays` (pass 2 probes the OPT level for exactly the recorded stream, and what is measured is what follows the warm-up), `PolicyBound`, `SweepsMonotone` |
| `lost_store`, `exclusive_flush`, `write_through_dirty`, `prefetched_used`, `opt_stream` | the code does not do what its documentation says; see Findings |

*Bounds.* In `Hierarchy`: blocks, levels, ways and victim-buffer entries, all finite
by construction of the constants; there is no counter to cap. Three blocks, one or
two ways and buffers of one entry make every set and buffer overflow and every
write-back chain occur; two levels are one pair of every inclusion relation,
three levels are the least in which a back-invalidation passes a level, an
exclusive level is below an exclusive or a NINE one, and a write-back passes a
level that does not keep it. `every_step` has four blocks, so that lines leave
the victim buffer too. Blocks are symmetric where nothing orders them. Four ways
make a tree of two levels; `MaxCount` caps the references LFU counts for one line;
two bits of PSEL reach both of its ends and the misses in a row that saturate it (`lead`), and a leader period of four makes one to
five sets pass through every layout of leaders. Streams of
six references to four blocks (`MaxReferences`) have reuse at every distance up to
three, between repetitions of other blocks, and make trees of sizes that are and
are not powers of two.

`lockstep` has counters that never come down, so the caller's calls are bounded
(`calls`, four or five per hierarchy): enough to fill a set of two, evict from it,
flush or reset in between and refer to what was evicted. Blocks 0 and 1 share an
open row, block 2 does not. In `measures` three of the four blocks share one of two sets, a
stream of six ends in a partial window or on a window boundary, and an index modulo
four would put two blocks together that XOR separates; the walks are what a stride needs to be trusted and then lost. In
`experiments` an L1 of one block and an L2 of two leave OPT a choice within four
accesses; `opt_stream` takes the traces of seven accesses that begin with
`Beginning`, since a stream that goes wrong needs seven.

*Fairness.* `FairSpec` of `Hierarchy` adds `WF_vars(Step)`: `access` and `flush` run
to completion once called, as straight-line Python does. Nothing says that a caller
ever calls. In `Replacement` it is `WF_vars(Age \/ Replace)`: `victim()` runs to
completion. The other modules state no fairness and no liveness: a call is one step
there, or, in `OptMisses`, the loop ends because the heap shrinks with every turn.

## Findings

* `lost_store` (a bug): a store is lost. `_handle_eviction` hands a line to an
  exclusive level with `Cache.allocate` without looking into that level's victim
  buffer. With a write-through L1 over a write-back exclusive L2 with a victim
  buffer, stores to blocks 2, 3, 2 (one line each) leave a clean copy of block 3
  in the array over a dirty one in the buffer; when the clean one is replaced it
  overwrites the dirty one. The store to block 3 never reaches DRAM, even after
  `flush()`. `configurations` shows, and `NoStoreIsLost` and
  `ConservedBesideExclusion` prove, that exclusive levels with a victim buffer that
  are given a block they may hold are the only place: everywhere else nothing is
  lost. The same double copy breaks inclusion: an inclusive level below the
  exclusive one that evicts the block back-invalidates one copy, and the other stays.
  And it makes `--check` fail where `invariants.py:63` says "always": "a block has at
  most one copy in a cache" (`ChecksHold` states the exception).
* `exclusive_flush`: exclusion does not survive `flush()`, which allocates the
  lines L1 keeps in the exclusive L2. The same happens for every write-back that
  a write-allocate exclusive level receives for a block still held above
  (a write-through duplicate, or a NINE level that re-allocates a block its
  upper neighbour kept), and when an exclusive level has a prefetcher. The
  condition `NeverAllocatesShared` excludes exactly these.
* `write_through_dirty`: a write-through level above a write-back exclusive one
  receives dirty lines that move up, although it "never holds a dirty line".
* `prefetched_used`: a prefetched line that a reference hits still carries its
  flag while that reference's fills evict it, and is then counted as evicted
  unused.
* `opt_stream` (a bug): `_opt_level` accepts an exclusive level below the OPT level,
  and `simulate_with_opt` says that the stream recorded with LRU is then "exactly
  the stream the OPT run sees". A block that an exclusive level hands up brings its
  dirty bit along, so what the OPT level evicts decides which lines above it are
  dirty; with two levels above OPT the write-backs of the first change what the
  second holds, and with that which accesses reach OPT. Loads and stores 0W 1W 0R
  2R 0R 1R 0R over an L1 and L2 of one block, an L3 of two with OPT and an
  exclusive L4 of two end in the RuntimeError of `OPTPolicy` in pass 2.
  `StreamReplays` shows that with one level above OPT, or no exclusive level below
  it, the stream is exact.

## Proofs

`HierarchyProofs` proves, for every number of levels, every geometry and every
choice of policies (from the named ASSUMEs of `Hierarchy` only):

* `TypeCorrect`: `Spec => []TypeOK`.
* `VictimHitIsQuiet`: `Spec => VictimHitDisplacesNothing`, so
  `take_pending_eviction` never returns a line.

`TypeOK` is not inductive: that a flag stays on a resident block needs the line
that moves up or is cleaned to be where `req` and `fetch` say it is. The
inductive invariant is `TypeInv`: the levels are well formed (`LevelsOK`),
no buffer overflows (`BuffersBounded`), the stack is empty while the entry point
probes or moves a line (`StackOK`), the locals are in range (`LocalsOK`), and
the level that hit still holds the block when it is settled and moved
(`HitHolds`). Each operator of `Cache` has a lemma about what it does to
`LevelsOK` and `BuffersBounded`; each action has a lemma that cites them.
`VictimHitIsQuiet` follows from `BuffersBounded`: taking the entry that hit
leaves room for the one that is displaced.

It also proves `NoStoreIsLost`:
`BareVictimLevels => (Spec => []StoresConserved)`, where `BareVictimLevels` says
that no exclusive level has a victim buffer. The hypothesis is needed: the run
`lost_store` is a configuration without it in which a store is lost.
`StoresConserved` alone is not inductive, because whether the step that drops a
copy drops the last dirty one depends on where the other copies can be. The
invariant `ConservationInv` adds to `TypeInv`:

* `SingleCopy`: a level holds a block once, in the array or in the buffer, so
  what `Cache` does to the copy it finds it does to the only one;
* `FillsAbsent`: the block that is filled is in no victim buffer of a level still
  to be filled, so the copy that is placed is the only one;
* `WorkBelow`: the evictions of one fill stay below the level that is filled
  next, so they cannot bring the block back there;
* `ReqFacts`, `FetchFacts`: the dirty bit the access carries between taking a
  line from an exclusive level and filling it again above is not forgotten.

Each has one lemma per action; `ConservationInv` was model-checked before it was
proved. The hypothesis enters in one place, where a line is handed to an exclusive
level whose buffer must not hold the block: `ConservationStep` is proved from that
fact about the current state (`EvictsAbsent`), so that it serves other hypotheses
too.

`HierarchyInclusion` proves, under `BareVictimLevels`:

* `InclusionIsKept`: `Spec => []InclusionHolds`;
* `ReferenceIsServed`: `Spec => []ReferencedBlockStays`;
* `FlushListIsCurrent`: `Spec => []SnapshotCurrent`.

`InclusionHolds` is broken in the middle of every access, when an inclusive level
has evicted a block its upper levels still hold, and again while a fill has reached
some levels and not others. `InclusionInv` says what is true then. A block that a
level has and an inclusive one below it lacks is one that a call on the stack is about
to take out of that level (`AlmostInclusive`). Only a fill takes a line out of an
inclusive level: every other call is about a block that the inclusive levels it may
reach hold already (`CallsHeld`), so it allocates in none of them. Hence blocks are
back-invalidated only above the level just filled (`PurgesAbove`) and everything else
happens below it (`CallsBelow`). Neither touches the block that is being filled
(`FetchHeld`, `FilledStays`), nor the lines a flush has listed (`ListedDirty`).

`HierarchyPolicies` proves

* `ExclusionIsKept`: `NeverAllocatesShared => (Spec => []ExclusionHolds)`, with
  victim buffers allowed at exclusive levels. The invariant is about chains, each
  a level followed by the exclusive levels right below it: a block is in at most one
  level of a chain (`ChainsDisjoint`), a line handed to an exclusive level is nowhere
  else in its chain (`EvictsInChain`), the levels probed so far miss the block
  (`Missed`), no exclusive level is filled (`PlainFills`), and the chains of the levels
  still to fill do not have the block (`FetchClear`). Two neighbours alone would not
  do: the line that leaves the first of three exclusive levels must not be in the
  third either.
* `ConservedBesideExclusion`: under the same hypothesis `StoresConserved`,
  `InclusionHolds`, `ReferencedBlockStays` and `SnapshotCurrent` hold; the chain
  invariant implies `EvictsAbsent`, and the rest is `InclusionStep`.
* `WriteThroughStaysClean`: `NoDirtyMovesIntoWriteThrough => (Spec => []WriteThroughClean)`. During a
  store a write-through level is dirty for a moment, in the line that was hit;
  `CleanLevels` names that line, and `CleanFills` says that a dirty line
  is never carried to a fill of a write-through level.

The three hypotheses are conditions on the configuration, satisfied by most and
necessary in the sense of the findings: `lost_store`, `exclusive_flush` and
`write_through_dirty` are configurations outside them in which the property fails.

`HierarchyFreshness` proves, under `BareVictimLevels \/ NeverAllocatesShared`, the
condition `SingleCopies` of the runs:

* `ReadsServeNewest`: `Spec => []ServedNewest`;
* `NewestStaysDirty`: `Spec => []NewestKept`;
* `FlushLeavesNothing`: `Spec => FlushWritesAll`.

`NoStoreIsLost` says that modified data stays somewhere; these say that it is the
right data, although older copies of the block, dirty ones too, may be in other levels
at the same time. The argument gives every place that can have a copy of a block a
height, top first: level `k` has 2k + 1, a call on the stack that is about to write to
level `k` has 2k, memory has 2N + 1, and what the access in progress carries is at the
level it will be filled into. A place is `Covered` when modified data of its block is
higher up. `CurrentLevels`, `CurrentMemory`, `CurrentCalls` and `CurrentFetch` say that
whatever is not covered has the newest data; so a read, which takes the first copy from
the top, gets it, and the topmost dirty copy has it. A step preserves this as long as
no dirty data overtakes a copy of the same block on its way down, and that is what the
rest of `FreshInv` is for:

* `Ordered`: the calls on the stack are in the order of their heights, the lowest
  first to run, and only the last may still go through the levels above it;
* `PurgesClear`: a back-invalidation finds no copy of its block in the levels it has
  passed, which is the reason why `_back_invalidate` goes upwards, nearest level first;
* `Missed`, `HitFacts`: no level above the one that hit has the block, and a store
  taken by a write-through level has its duplicate to send;
* `Flushed`: the levels `flush` has passed are clean and the level it is at is clean
  but for the lines listed, which is the reason why it goes top-down.

`FreshInv` includes `InclusionInv`, since the levels a line passes on its way down
must be known to have the block or not. Two fills put older data into a level. A
prefetch may do so while a level above has modified data, which then covers it. A store
miss does so in the levels between the one that took the store and the one that hit;
there the modified data is still in the fill, or in the duplicate of a write-through
level, at a place above them (`CurrentFetch`), and covers them from the start
(`WritesOlder`). As before the hypothesis enters through `EvictsAbsent` only (`FreshStep`), once from
each of the two conditions. `FreshInv` was model-checked on `every_step`
before it was proved.

`StackDistanceProofs` proves, for every finite stream (the bound
`MaxReferences` is arbitrary) and every number of sets:

* `ProfileTypeCorrect`: `Spec => []TypeOK`;
* `MarkersStayAtLastUse`: `Spec => []MarkersAtLastUse`;
* `DistanceIsExact`: `Spec => []DistanceIsReuse`;
* `TreeIsExact`: `TreeSpec => []TreeCountsMarkers`, and `TreeRunsBeside`:
  `TreeSpec => Spec`, so what is proved of the profiler holds of the one with the tree;
* `CurveIsExact`: `Spec => []MissCurve`.

The invariant `DistanceInv` adds to `TypeOK` that `last` holds the latest
reference to every block (`LastIsLatest`), that the markers are its entries
(`MarksAreLast`) and that nothing is profiled while the stream is being split
(`Phases`). The distance is exact because the markers between two references to a
block are in bijection with the blocks referenced between them
(`MarkersCountBlocks`).

Position j of the tree sums the `LowBit[j]` timestamps that end at j: `TreeInv` says
that it is the number of markers among them. Two of these ranges are one inside the
other or apart (`RangesNest`). Hence `add`, which climbs from an index by its low bit,
meets every range that has the index in it and no other (`AddCovers`), and
`prefix_sum`, which descends by the low bit, adds ranges that lie side by side
(`PrefixCounts`). The tree is emptied between two sets because its markers are.

`CurveIsExact` relates three things: an LRU cache that is run on the whole stream, the
distances in the whole stream, and the histogram of distances that are computed set by
set, each in a stream of its own.

* The cache holds the blocks after whose latest reference fewer than `ways` others of
  their set were referenced (`LRUHoldsNewest`; one reference is `NewestNext`, and
  `LeastRecentGoes` is about counts alone: the block put out is the one that no longer
  qualifies). So a reference misses if its distance is not below `ways`
  (`LRUMissesAre`).
* A bucket is the stream with other sets left out. `IsThread` maps its positions to
  those of the stream, and distances are the same along it (`ThreadDistance`).
* A histogram tallies the distances of the references of a set of positions
  (`Tallies`); counting one more and merging two disjoint ones keeps that
  (`TallyCounted`, `TallyMerged`). `CurveInv` says which positions: `merged` has those
  of the finished sets, `sub` those of the current one.

The rest is arithmetic: sums over a histogram (`TotalIs` and what follows it), the
power-of-two buckets (`BitLengthBounds`, `BucketIndexIs`), the search for the working set
(`WorkingSetIs`) and the doubling of the default capacities (`CapacitiesEnd`).
`MissesAreExact` holds for every number of ways; the bound in `MissCurve` is for TLC.

`StreamMeasuresProofs` proves, for every set of streams of block numbers and every
capacity:

* `OptTypeCorrect`: `SpecOpt => []TypeOK`;
* `PopFindsALiveEntry`: `SpecOpt => []HeapHoldsResidents`, so `heappop` is never
  called on an empty heap;
* `VictimIsFarthest`: `SpecOpt => EvictsFarthest`, so a stale entry never names a
  victim and never hides one;

and, for every set of geometries that `make_index` accepts,

* `BeladyIsBest`: `Spec => []OptIsBest`, so `opt_misses` and `run_opt` count the fewest
  misses there can be, after every reference, and `on_probe` never raises;
* `RowHitsAreRepeats`: `Spec => []RowHitIsRepeat`, for every row-buffer memory;
* `TrustIsTwoStrides`: `Spec => []TrustNeedsTwoStrides`, for every table;
* `HashSpreads`: `Spec => []IndexSpreads`;
* `WindowsAreByDefinition`: `Spec => []WindowsByDefinition`, for every window size and
  for every replacement policy of the cache of `hot_sets`.

`HeapHoldsResidents` needs more to be inductive. `UsesAhead` says that the use stored
for a resident block is its next reference; `LiveInHeap` that the pair of both is in
the heap; `EntriesEarly` that no entry, stale or live, is later than the next
reference to its block or than the end of the stream, which bounds the heap so that
it has a top; `Occupancy` counts the residents, so that a full cache has one. A hit
makes one entry stale, that of its own block, because the use of any other resident
block is another reference. The top of the heap is not below the live entry of any
resident block, so if it is live itself it is the farthest of them.

`OptIsBest` compares counts of misses, and that is not inductive: a rival with as many
misses could hold better blocks. `NoWorse` is the comparison that lasts. Give every set
a horizon and count, for two caches, the blocks referenced again by the horizon of their
set; then the rival has no more of them than Belady's cache, except for those it has paid
misses for. It holds for all horizons together, because sets are independent, and one that
looks no further than the current reference says who hits. `StaysNoWorse` is the exchange
argument: if Belady's cache gives up a block that counts, then, as it was referenced
last of its set, the whole set counts, and no rival has a fuller one. Hence a cache that
serves every reference this way leads all caches that replacement can reach (`LeadStays`),
and a leader has the fewest misses (`LeaderHasFewest`: with the horizon at 0 no block
counts). What is left is that both programs do serve references this way. For
`opt_misses` that is `VictimIsFarthest`, reference by reference (`RecordServes`; `Before`
says what the cache was before a reference whose handling takes several steps). For
`run_opt` it goes through all of `Cache.access` (`AccessEffect`): the shadow cache and the
counters change nothing else, an empty buffer stays empty, a block is always in the
set its index names (`IndexInRange`, for which the recursive fold of `XorIndex` is shown to
be defined and to stay below a power of two), the next uses `on_probe` stores are those of
the stream, and a set is full exactly when it has no free way (`SetHasRoom`). That
`run_opt` never beats `opt_misses` is `NoWorse` again, with one horizon for all sets: all
its sets together hold no more than the capacity (`HeldIsSmall`).

The others say what a program that keeps a small state computes about the whole
stream, so their invariants say what the state is of the stream so far. `LeftOpen`: the
row open in a bank is that of the last access to the bank, before or after the
warm-up, which resets the counters and leaves the rows open; the counters are the sizes
of sets of references (`Tallied`). `SlotAfter`: a slot of the stride table has the last
region that used it, the last block of it and what `LearntBy` says of the steps: the
confidence has reached the threshold if and only if the last two that are not 0 are
equal. `IndexSpreads` is about blocks that differ within as many adjacent bits as the index
has; the module's documentation (`indexing.py:14-17`) promises an index apart for all
that differ only in high-order bits, which is too much: with four sets blocks 4 and 16
share set 1. If the bits in which the two differ begin in the first chunk, they end in the second at the latest, and as the low bits of an exclusive or are decided
by those of its arguments (`XorAgrees`), one part of the index or the other differs
(`SpreadsLow`); if they begin later, the first chunks are equal and the rest of the
blocks is such a pair (`Spreads`).

`WindowsByDefinition` relates two programs. Of `window_pressure`, `Figures` says that
each number is the size of a set of pairs of a window and a set of the cache (the total of
distinct blocks is the size of the set of such pairs with a block), for the windows
closed so far; the open window holds the blocks each set was asked for in it
(`OpenWindow`); closing it adds its pairs (`CloseAdds`), and nothing else is left to do
when the figures are reported in the middle of a window (`PressureReported`). Of
`hot_sets`, `HotIs` names the set of the references that missed, so that misses can be told
apart by set and by window. That a set asked for more blocks than it has ways has paid
for them is not inductive. What is: the blocks a set was asked for in the open
window *and* the blocks it holds are together no more than its ways and its misses in the
window. A miss adds one block to these and one to the misses, and whatever the policy
evicts can only make them fewer (`HotNext`, `HotAccessEffect`); at the start of a window
they are what the set holds. Then the excesses of different pairs add up to at most
the misses, which are different references (`SumAtMost`, `SumCounts`). The share of the
hottest sets is about `Hottest` alone: its places are a permutation of the sets
(`PlacesAre`), so every one of the first has as many misses as any of the rest
(`TopHasShare`).

`ReplacementProofs` proves, for every policy, every number of sets and ways, every
width of PSEL and every leader period (`MaxCount`, the bound of the LFU counts, is
arbitrary too):

* `TypeCorrect`: `Spec => [](TypeOK /\ VictimsInRange)`;
* `DuelSaturates`: `Spec => []PselSaturates`;
* `RecencyIsKept`: `Spec => []RecencyVictim`;
* `TreeIsKept`: `Spec => []TreeVictimIsOld`.

`PselSaturates` follows from `DuelCounted`: n misses in a row of one side have moved
PSEL at least n steps away from the end that the other side moves it to, so enough of them
put it on their side of the middle, and past neither end. `RecencyVictim` speaks of full sets only and is not inductive. `RecentLast` says what
holds of every set: the valid ways, by last reference (LRU, MRU) or fill (FIFO), are
the end of the order, in that order. This is why `on_invalidate` moves the emptied
way to the front. In a full set the end of the order is all of it, because two lists of the
same ways have the same length. `TreeBalanced` is the invariant of the tree: at every
level, the bit of a subtree points away from the way of it referenced last, unless
there is an empty way in the subtree the bit points to. A touch sets the bits of one
path, an invalidation sets them the other way; that neither changes what is said of
another subtree needs the nodes of different paths to be different (`NodesApart`),
which follows from numbering the nodes of a level after those of the levels above
(`NodeOfPath`). The bits always lead to a way (`VictimFound`). Both invariants were model-checked on the `replacement`
instance before they were proved.

The library's induction and recursion theorems take operators as parameters, which
the provers cannot instantiate. Here both are stated for sets: a set that has 0 and
the successors of its members has every natural (`NaturalSetInduction`, from the least
element of a set of naturals), and a step function given as a function has a solution
along every rank (`RecursionExists`). `RecursionTheorems` has them, with what follows for
powers of two and for nested divisions.

What only TLC checks: liveness (`CallsReturn`, `SearchEnds`), which the installed
provers cannot do; the four properties of `configurations`, which are those of
`Hierarchy` with the configuration chosen in the first state (above they are proved for
every configuration, `LinesStay` under the hypothesis of the others, which the run does
without); and everything about `Simulator`, `Reference` and what is built on them: they
are recursive like the code, and what a recursive operator computes cannot be proved
with these provers.

## Not modelled

* Parsers and writers of traces (`trace.py`), tables, CSV and plots (`report.py`,
  `plot.py`, the `format_*` functions), the command line with its benchmark, and
  `scripts/make_figures.py`: input and output, with no state that survives a call.
* The workload generators: loops that yield addresses, most from a seeded random
  generator. Every property here is about all streams over a few blocks, so none
  depends on which of them a generator makes.
* Sweeps of the block size: a hierarchy of `Simulator` has one block size.
* The type tests of `config.py`: a configuration here has values of the right types
  and may be refused for everything else.
* Floating point: rates are exact fractions here and rounded in the code.

## Plan

Left is `Hierarchy` as the abstract specification of `Simulator`: one call of the second
is a sequence of steps of the first.
