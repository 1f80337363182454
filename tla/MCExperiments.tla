----------------------------- MODULE MCExperiments -----------------------------
(* A level that is compared and swept; and hierarchies of two, three and four *)
(* levels with OPT at one of them and every feature above and below it.       *)
EXTENDS Experiments

RawLevel(name, blocks, ways) ==
  [name |-> name, size |-> blocks * BlockSize, block_size |-> BlockSize, associativity |-> ways, hit_time |-> 1]

Constant == [memory_access_time |-> 100]
RowBuffer == [memory |-> [type |-> "row-buffer", rowSize |-> 8, banks |-> 1]]

Under(levels, memory) == [levels |-> levels] @@ memory

Accesses(blocks, writes) == [block : blocks, write : writes]

Subject(config, warmup, accesses, length) ==
  [config |-> config, warmup |-> warmup, accesses |-> accesses, length |-> length,
   prefix |-> << >>, compared |-> FALSE]

Opt(level) == [policy |-> "opt"] @@ level
Given(key, value, level) == (key :> value) @@ level

\* Compared with the other policies, and the base of the sweeps.
Comparing == {[Subject(Under(<<RawLevel("L1", 2, ways)>>, Constant), 2, Accesses(0 .. 3, {FALSE}), 5)
                EXCEPT !.compared = TRUE] : ways \in {1, 2}}

\* OPT at the first level of one and at the second of two.
AtTop == {Subject(Under(<<Opt(RawLevel("L1", 2, 2))>>, Constant), warmup, Accesses(0 .. 2, BOOLEAN), 4) :
            warmup \in {0, 1, 4}}

Tops == {RawLevel("L1", 1, 1),
         Given("write_policy", "write-through", RawLevel("L1", 1, 1)),
         Given("write_allocate", FALSE, RawLevel("L1", 1, 1)),
         Given("prefetcher", "next-line", RawLevel("L1", 1, 1)),
         Given("victim_cache", 1, RawLevel("L1", 1, 1))}

Middles == {RawLevel("L2", 2, 2),
            Given("victim_cache", 1, RawLevel("L2", 1, 1)),
            Given("prefetcher", "stride", Given("bus_width", 2, RawLevel("L2", 2, 1)))}

Bottoms == {RawLevel("L3", 2, 2), Given("inclusion", "exclusive", RawLevel("L3", 2, 2))}

Stores == Accesses({0, 1, 2}, {FALSE}) \cup Accesses({0, 1}, {TRUE})

BelowOneLevel ==
  {Subject(Under(<<top, Opt(middle), bottom>>, RowBuffer), 1, Stores, 4) :
     <<top, middle, bottom>> \in {<<t, m, b>> \in Tops \X Middles \X Bottoms :
                                   t = RawLevel("L1", 1, 1) \/ m = RawLevel("L2", 2, 2)}}

BelowTwoLevels ==
  {Subject(Under(<<top, RawLevel("L2", 1, 1), Opt(RawLevel("L3", 2, 2))>>, Constant), 0, Stores, 4) :
     top \in Tops}

\* Configurations that parse_config, the constructors or _opt_level refuse.
Refused ==
  {Subject(config, 0, {}, 0) : config \in {
     Under(<<Opt(RawLevel("L1", 1, 1)), Opt(RawLevel("L2", 2, 2))>>, Constant),
     Under(<<Given("inclusion", "inclusive", RawLevel("L1", 1, 1))>>, Constant),
     Under(<<RawLevel("L1", 3, 2)>>, Constant),
     Under(<<Opt(RawLevel("L1", 1, 1)), Given("inclusion", "inclusive", RawLevel("L2", 2, 2))>>, Constant)}}

MCSubjects == Comparing \cup AtTop \cup BelowOneLevel \cup BelowTwoLevels \cup Refused

\* Two levels above OPT, an exclusive level below: the traces that begin this way.
Demand(block, write) == [block |-> block, write |-> write]
Beginning == <<Demand(0, TRUE), Demand(1, TRUE), Demand(0, FALSE)>>
MCBelowTwo ==
  {[Subject(Under(<<RawLevel("L1", 1, 1), RawLevel("L2", 1, 1), Opt(RawLevel("L3", 2, 2)),
                    Given("inclusion", "exclusive", RawLevel("L4", 2, 2))>>, Constant),
            0, Accesses(0 .. 2, BOOLEAN), 7)
      EXCEPT !.prefix = Beginning]}
=============================================================================
