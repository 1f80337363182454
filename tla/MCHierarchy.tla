----------------------------- MODULE MCHierarchy -----------------------------
(* One small hierarchy at a time for TLC: each .cfg picks the values of the  *)
(* constants of module Hierarchy among the definitions below.                *)
EXTENDS Hierarchy, TLC

\* Blocks are interchangeable where no prefetcher orders them and all of them
\* map to one set.
Interchangeable == Permutations(Blocks)

\* Levels are numbered from 0, so a choice per level is written L1, L2, ... and
\* read with an offset.
PerLevel(choices) == [i \in Levels |-> choices[i + 1]]

OneSet == [i \in Levels |-> [x \in Blocks |-> 0]]
TwoSetsInL1 == [i \in Levels |-> [x \in Blocks |-> IF i = 0 THEN x % 2 ELSE 0]]

NoSuccessor == [x \in Blocks |-> None]
Successor == [x \in Blocks |-> IF x + 1 \in Blocks THEN x + 1 ELSE None]

\* Ways or victim-buffer entries of L1, L2, ...
W11 == PerLevel(<<1, 1>>)
W111 == PerLevel(<<1, 1, 1>>)

NoBuffers == [i \in Levels |-> 0]
V01 == PerLevel(<<0, 1>>)
V001 == PerLevel(<<0, 0, 1>>)

\* Inclusion policies, by their initials.
AllNine == [i \in Levels |-> "nine"]
NX == PerLevel(<<"nine", "exclusive">>)
NXI == PerLevel(<<"nine", "exclusive", "inclusive">>)

\* Which levels are write-through, or allocate on a write miss.
Never == [i \in Levels |-> FALSE]
Always == [i \in Levels |-> TRUE]
First == [i \in Levels |-> i = 0]
NotFirst == [i \in Levels |-> i # 0]
Third == [i \in Levels |-> i = 2]

NoPrefetchers == [i \in Levels |-> "none"]
StrideAt1NextLineAt3 == PerLevel(<<"stride", "none", "next-line">>)
StrideAt2 == PerLevel(<<"none", "stride">>)
StrideAt1 == PerLevel(<<"stride", "none">>)
=============================================================================
