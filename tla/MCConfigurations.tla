--------------------------- MODULE MCConfigurations ---------------------------
(***************************************************************************)
(* Module Hierarchy under every combination of level policies at once.     *)
(*                                                                         *)
(* The rigid variable `config' stands for the configuration a Hierarchy    *)
(* object was built with; H(config) is the specification of that object.   *)
(* Each property says which configurations it is about: the condition is   *)
(* as weak as TLC allows, so a property that fails outside it shows up in  *)
(* a run of MCHierarchy that expects a violation.                          *)
(***************************************************************************)
EXTENDS Integers, Sequences, FiniteSets, TLC

CONSTANTS
  Blocks, None,
  Configs    \* the configurations checked

VARIABLES config, resident, dirty, prefetched, buffer, pc, req, fetch, work,
          snapshot, fresh, memory, owed

vars == <<config, resident, dirty, prefetched, buffer, pc, req, fetch, work, snapshot,
          fresh, memory, owed>>

\* All blocks map to one set.
H(c) == INSTANCE Hierarchy WITH
  N <- Len(c.inclusion),
  Sets <- {0},
  SetOf <- [i \in DOMAIN c.ways |-> [x \in Blocks |-> 0]],
  Ways <- c.ways, Entries <- c.entries,
  Inclusion <- [i \in DOMAIN c.ways |-> c.inclusion[i + 1]],
  WriteThrough <- c.writeThrough, WriteAllocate <- c.writeAllocate,
  Prefetcher <- c.prefetcher, NextBlock <- [x \in Blocks |-> None]

Interchangeable == Permutations(Blocks)

-----------------------------------------------------------------------------
(* The configurations.                                                     *)

\* Every write policy, allocation policy, victim buffer and prefetcher at each
\* of the levels that `inclusions' name the inclusion policies of.  The last level
\* has two ways, the others one.
Combinations(inclusions, entries, prefetchers) ==
  UNION {LET levels == 0 .. Len(inclusion) - 1 IN
         {[inclusion |-> inclusion, ways |-> [i \in levels |-> IF i = Len(inclusion) - 1 THEN 2 ELSE 1], entries |-> e,
           writeThrough |-> wt, writeAllocate |-> wa, prefetcher |-> p] :
            e \in [levels -> entries], wt \in [levels -> BOOLEAN],
            wa \in [levels -> BOOLEAN], p \in [levels -> prefetchers]} :
         inclusion \in inclusions}

Policy == {"nine", "inclusive", "exclusive"}

TwoLevels == Combinations({<<"nine", p>> : p \in Policy}, {0, 1}, {"none"})
ThreeLevels == Combinations({<<"nine", p, q>> : p, q \in Policy}, {0}, {"none"})
Prefetching == Combinations({<<"nine", p>> : p \in Policy}, {0}, {"none", "stride"})
AllConfigurations == TwoLevels \cup ThreeLevels \cup Prefetching

-----------------------------------------------------------------------------
Init == config \in Configs /\ \E c \in {config} : H(c)!Init

Next == \E c \in {config} : H(c)!Next /\ UNCHANGED config

Spec == Init /\ [][Next]_vars

-----------------------------------------------------------------------------
(* Correctness.                                                            *)

\* No exclusive level can come to hold a block twice, once in its array and once in
\* its victim buffer: it has no buffer, or is never given a block it may hold.
SingleCopies(c) == H(c)!BareVictimLevels \/ H(c)!NeverAllocatesShared

\* No data is lost, whatever the policies: modified data is never dropped, a
\* reference is served by the newest data, and between two calls the newest data of
\* every block can still reach memory.
DataSurvives == \A c \in {config} : SingleCopies(c) =>
  H(c)!StoresConserved /\ H(c)!ServedNewest /\ H(c)!NewestKept

\* A flush, whatever the policies, writes all of it: when it returns no level has a
\* dirty line and memory has the newest data of every block.
FlushWritesAll == [][\A c \in {config} : SingleCopies(c) => H(c)!FlushWrites]_vars

\* Between two calls the levels stand in the relations their policies promise.  An
\* inclusive level is a superset of the levels above it, but below an exclusive level
\* that holds a block twice it need not be: a back-invalidation removes one copy.  An
\* exclusive level shares no block with the level above where no store or write-back
\* is allocated next to them.  A write-through level is clean unless dirty lines move
\* up into it.
LevelsRelated == \A c \in {config} :
  /\ SingleCopies(c) => H(c)!InclusionHolds
  /\ H(c)!NeverAllocatesShared => H(c)!ExclusionHolds
  /\ H(c)!NoDirtyMovesIntoWriteThrough => H(c)!WriteThroughClean

\* No eviction, however deep, takes away a line that a call under way relies on: the
\* lines flush() is about to write stay there and dirty, and the block of a reference
\* stays in the level it was filled into.
LinesStay == \A c \in {config} : H(c)!SnapshotCurrent /\ H(c)!ReferencedBlockStays
=============================================================================
