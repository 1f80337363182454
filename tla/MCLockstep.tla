----------------------------- MODULE MCLockstep -----------------------------
(* Hierarchies with default features and each policy the reference simulator *)
(* has; and pairs of levels with the other features.                         *)
EXTENDS Lockstep

Level(sets, ways, policy, draws, hitTime) ==
  [sets |-> sets, ways |-> ways, index |-> "modulo", policy |-> policy, draws |-> draws,
   entries |-> 0, classify |-> TRUE, hitTime |-> hitTime, inclusion |-> "nine",
   writeThrough |-> FALSE, writeAllocate |-> TRUE, busWidth |-> 0, prefetcher |-> "none"]

Over(calls, levels) ==
  [calls |-> calls, levels |-> levels, memory |-> [type |-> "constant", latency |-> 100]]

Single == {Over(4, <<Level(1, 2, "lru", <<0>>, 1)>>),
           Over(4, <<Level(1, 2, "fifo", <<0>>, 1)>>),
           Over(4, <<Level(1, 2, "random", <<0, 1, 1>>, 1)>>)}

Pairs == {Over(5, <<Level(2, 1, "lru", <<0>>, 1), Level(1, 2, "random", <<1, 0>>, 10)>>),
          Over(4, <<Level(1, 2, "fifo", <<0>>, 1), Level(2, 1, "lru", <<0>>, 10)>>)}

Defaults == Single \cup Pairs

Watcher(inclusion) == IF inclusion = "inclusive" THEN "stride" ELSE "next-line"

\* One way above two, over open-page memory, with a bus into each level.
Featured ==
  {[calls |-> 4,
    levels |->
      <<[Level(1, 1, "lru", <<0>>, 1) EXCEPT
           !.writeThrough = through, !.writeAllocate = ~through, !.busWidth = 4,
           !.prefetcher = IF watched /\ ~through THEN "next-line" ELSE "none", !.entries = entries],
        [Level(2, 1, "lru", <<0>>, 10) EXCEPT
           !.index = "xor", !.inclusion = inclusion, !.writeThrough = (writes = "through"),
           !.writeAllocate = (writes # "bypass"), !.busWidth = 2, !.prefetcher = IF watched /\ through THEN Watcher(inclusion) ELSE "none"]>>,
    memory |-> [type |-> "row-buffer", rowSize |-> 8, banks |-> 1, rowHit |-> 20, rowMiss |-> 50]] :
     through \in BOOLEAN, entries \in {0, 1}, watched \in BOOLEAN,
     inclusion \in {"nine", "inclusive", "exclusive"}, writes \in {"back", "through", "bypass"}}

\* An exclusive level with a victim buffer, which may come to hold a block twice.
Doubling ==
  {Over(4, <<[Level(1, 1, "lru", <<0>>, 1) EXCEPT !.writeThrough = through],
             [Level(1, 1, "lru", <<0>>, 10) EXCEPT !.inclusion = "exclusive", !.entries = 1]>>) :
     through \in BOOLEAN}

\* The victim buffer without the write-through level and the prefetchers.
MCSpecs ==
  Defaults \cup Doubling \cup {s \in Featured :
    s.levels[1].entries > 0 => ~s.levels[1].writeThrough /\ \A n \in DOMAIN s.levels : s.levels[n].prefetcher = "none"}
=============================================================================
