----------------------------- MODULE Configuration -----------------------------
(***************************************************************************)
(* cachesim/config.py: from a configuration to the specification of a      *)
(* hierarchy, and on to the hierarchy of Hierarchy.from_spec.              *)
(*                                                                         *)
(* A JSON object is a function on the keys it has.  The type tests of the  *)
(* code are left out, as are the shorthands of a value (a number for the   *)
(* object with that number); NULL is the JSON null.  The value of rng_seed *)
(* is what a generator with that seed returns.                             *)
(***************************************************************************)
EXTENDS Simulator, TLC

NULL == -1

PolicyNames == {"lru", "fifo", "mru", "random", "opt"}
InclusionNames == {"nine", "inclusive", "exclusive"}

Required == {"name", "size", "block_size", "associativity", "hit_time"}

LevelDefaults ==
  [policy |-> "lru", track_3c |-> TRUE, rng_seed |-> <<0>>, index |-> "modulo", inclusion |-> "nine",
   write_policy |-> "write-back", write_allocate |-> TRUE, bus_width |-> NULL, prefetcher |-> "none",
   victim_cache |-> NULL]

\* CacheSpec, from the keys given and the defaults of the others.
CacheSpec(raw) == raw @@ LevelDefaults

AtLeastOne(n) == n >= 1
NullOrAtLeastOne(n) == n = NULL \/ n >= 1

\* _parse_level does not raise.
LevelAccepted(raw) ==
  /\ Required \subseteq DOMAIN raw
  /\ DOMAIN raw \subseteq (Required \cup DOMAIN LevelDefaults)
  /\ LET p == CacheSpec(raw)
     IN /\ AtLeastOne(p.size) /\ AtLeastOne(p.block_size) /\ AtLeastOne(p.associativity)
        /\ p.hit_time >= 0
        /\ p.policy \in PolicyNames /\ p.index \in IndexNames /\ p.inclusion \in InclusionNames
        /\ p.write_policy \in {"write-back", "write-through"} /\ p.prefetcher \in PrefetcherNames
        /\ NullOrAtLeastOne(p.bus_width) /\ NullOrAtLeastOne(p.victim_cache)

RowBufferDefaults == [rowSize |-> 8192, banks |-> 8, rowHit |-> 40, rowMiss |-> 100]

MemoryKeys == {"memory", "memory_access_time"}

\* _parse_memory.
MemorySpec(raw) ==
  IF "memory" \notin DOMAIN raw THEN [type |-> "constant", latency |-> raw.memory_access_time]
  ELSE IF raw.memory.type = "constant" THEN raw.memory
  ELSE raw.memory @@ RowBufferDefaults

MemoryKeysKnown(memory) ==
  IF memory.type = "constant" THEN DOMAIN memory = {"type", "latency"}
  ELSE DOMAIN memory \subseteq ({"type"} \cup DOMAIN RowBufferDefaults)

MemoryAccepted(raw) ==
  /\ \E key \in MemoryKeys : key \in DOMAIN raw /\ (MemoryKeys \ {key}) \cap DOMAIN raw = {}
  /\ "memory" \in DOMAIN raw => raw.memory.type \in {"constant", "row-buffer"} /\ MemoryKeysKnown(raw.memory)
  /\ MemoryValid(MemorySpec(raw))

\* parse_config.
ParseConfig(raw) ==
  [levels |-> [n \in DOMAIN raw.levels |-> CacheSpec(raw.levels[n])], memory |-> MemorySpec(raw)]

\* The levels that ask for the offline policy.
OptLevels(spec) == {n \in DOMAIN spec.levels : spec.levels[n].policy = "opt"}

ConfigAccepted(raw) ==
  /\ DOMAIN raw \subseteq (MemoryKeys \cup {"levels"}) /\ "levels" \in DOMAIN raw
  /\ MemoryAccepted(raw)
  /\ raw.levels # << >> /\ \A n \in DOMAIN raw.levels : LevelAccepted(raw.levels[n])
  /\ LET levels == ParseConfig(raw).levels
     IN /\ \A m, n \in DOMAIN levels : levels[m].name = levels[n].name => m = n
        /\ \A m, n \in DOMAIN levels : levels[m].block_size = levels[n].block_size
        /\ Cardinality(OptLevels(ParseConfig(raw))) <= 1
        /\ levels[1].inclusion = "nine"

-----------------------------------------------------------------------------
(* Building what the specification describes.                              *)

NumSets(p) == p.size \div (p.block_size * p.associativity)

\* _validate_geometry and the constructors of Cache and of its index function.
CacheBuildable(p) ==
  /\ IsPowerOfTwo(p.block_size)
  /\ p.size >= 1 /\ p.size % (p.block_size * p.associativity) = 0
  /\ IndexDefined(p.index, NumSets(p))

OrNone(n) == IF n = NULL THEN 0 ELSE n

\* What Simulator takes for a level specification.
LevelOf(p) ==
  [sets |-> NumSets(p), ways |-> p.associativity, index |-> p.index, policy |-> p.policy,
   draws |-> p.rng_seed, entries |-> OrNone(p.victim_cache), classify |-> p.track_3c,
   hitTime |-> p.hit_time, inclusion |-> p.inclusion, writeThrough |-> p.write_policy = "write-through",
   writeAllocate |-> p.write_allocate, busWidth |-> OrNone(p.bus_width), prefetcher |-> p.prefetcher]

\* Hierarchy.from_spec raises nothing.  A hierarchy of this model has blocks of
\* BlockSize bytes.
Buildable(spec) == \A n \in DOMAIN spec.levels : CacheBuildable(spec.levels[n]) /\ spec.levels[n].block_size = BlockSize

Build(spec) ==
  FromSpec([levels |-> [n \in DOMAIN spec.levels |-> LevelOf(spec.levels[n])], memory |-> spec.memory])
===============================================================================
