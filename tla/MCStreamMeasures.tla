--------------------------- MODULE MCStreamMeasures ---------------------------
(* Every stream of six references to four blocks, three of them in one of two *)
(* sets; and streams that walk through a region and then go anywhere.         *)
EXTENDS StreamMeasures

Geometry(sets, ways, index, window, warmup) ==
  [sets |-> sets, ways |-> ways, index |-> index, policy |-> "lru", draws |-> <<0>>,
   entries |-> 0, classify |-> FALSE, window |-> window, warmup |-> warmup]

MCGeometries == {Geometry(1, 2, "modulo", 2, 0), Geometry(4, 1, "xor", 4, 3), Geometry(2, 2, "modulo", 3, 2)}

Walks == {<<0, 2, 4, 6>> \o walk : walk \in [1 .. 3 -> {5, 6, 8, 4}]}

MCStreams == [1 .. 6 -> {0, 1, 2, 4}] \cup Walks

MCParameters == [type |-> "row-buffer", rowSize |-> 2, banks |-> 2, rowHit |-> 2, rowMiss |-> 5]
=============================================================================
