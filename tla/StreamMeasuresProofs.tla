------------------------- MODULE StreamMeasuresProofs -------------------------
(***************************************************************************)
(* For every stream, geometry and capacity: the heap of opt_misses always  *)
(* finds a live entry, the entry names the block referenced last of all    *)
(* resident ones, and the misses it and run_opt count are the fewest any   *)
(* replacement can have; an access of the memory is a row hit if and only  *)
(* if its bank was last used for the same row; the stride prefetcher names *)
(* a block if and only if two steps of a region agree; a hashed index      *)
(* tells blocks apart that differ in few adjacent bits; and the figures of *)
(* window_pressure are those of the windows by definition, as hot_sets     *)
(* bears out.                                                              *)
(*                                                                         *)
(* The heap.  HeapHoldsResidents is not inductive: that a live entry is    *)
(* never below a stale one of the same block needs EntriesEarly, which     *)
(* bounds every entry, live or stale, by the next reference to its block;  *)
(* and that a full cache has something to pop needs the count of resident  *)
(* blocks.                                                                 *)
(*                                                                         *)
(* The bound.  OptIsBest is not inductive either: a cache with as many     *)
(* misses may hold better blocks.  NoWorse compares two caches, whatever   *)
(* horizon one looks to in each set: of the blocks referenced by then, a   *)
(* rival holds no more than Belady's cache does, but for those it paid     *)
(* misses for.  A cache that gives up the block of the set referenced last *)
(* stays no worse than one that gives up any other (StaysNoWorse), so      *)
(* Belady's cache goes on leading all the caches that replacement can      *)
(* reach (LeadStays); with one horizon for every set the cache of          *)
(* opt_misses is no worse than that of run_opt.  With the horizon at 0 no  *)
(* block counts, and what is left is the comparison of the misses.         *)
(*                                                                         *)
(* The row buffers.  LeftOpen says of a bank's open row which reference    *)
(* left it open; the counters are the cardinalities of the references of   *)
(* each kind, and a step adds one reference to one of each pair.           *)
(*                                                                         *)
(* The stride prefetcher.  SlotAfter says what a slot has learnt from the  *)
(* references to it: the region, the last block, the last step that was    *)
(* not 0, and a confidence at the threshold if and only if the step before *)
(* was the same one.                                                       *)
(*                                                                         *)
(* The hashed index.  Two folds agree in their low bits if what is folded  *)
(* does (XorAgrees): so the lower of the two chunks that the bits reach    *)
(* into differs, or else the higher one does, and the fold keeps the       *)
(* difference of either (SpreadsLow); chunks below only pass it on         *)
(* (Spreads).                                                              *)
(*                                                                         *)
(* The windows.  AskedIn says which blocks each set was asked for in each  *)
(* window; the figures are cardinalities of sets of pairs, and closing a   *)
(* window adds its pairs to them (CloseAdds).  HotIs names the references  *)
(* that missed: what a set was asked for in the window under way and what  *)
(* it holds are together no more than its ways and its misses since the    *)
(* window began.  Sums over finite sets, shares of the largest terms among *)
(* them, come first (SumAdds to TopHasShare).                              *)
(***************************************************************************)
EXTENDS StreamMeasures, RecursionTheorems, FiniteSetTheorems

\* The next use of a resident block is its next reference from i on.
UsesAhead ==
  \A b \in DOMAIN resident :
    /\ resident[b] \in i .. Len(blocks) + 1
    /\ resident[b] <= Len(blocks) => blocks[resident[b]] = b
    /\ \A n \in i .. resident[b] - 1 : blocks[n] # b

\* No entry is later than the next reference to its block.
EntriesEarly ==
  \A e \in heap :
    /\ e.use <= Len(blocks) + 1
    /\ \A n \in i .. Len(blocks) : blocks[n] = e.block => e.use <= n

\* How many blocks are resident where.
Occupancy ==
  /\ IsFiniteSet(DOMAIN resident)
  /\ Cardinality(DOMAIN resident) <= capacity
  /\ pc = "pop" => Full
  /\ pc = "install" => Cardinality(DOMAIN resident) < capacity
  /\ pc # "next" => blocks[i] \notin DOMAIN resident

LiveInHeap == \A b \in DOMAIN resident : [use |-> resident[b], block |-> b] \in heap

Inv == TypeOK /\ UsesAhead /\ EntriesEarly /\ Occupancy /\ LiveInHeap

-----------------------------------------------------------------------------
(* The heap.                                                               *)

\* What next_use_indices stores.
LEMMA NextUseProperties ==
  ASSUME NEW s \in Seq(Blocks), NEW n \in 1 .. Len(s)
  PROVE  /\ NextUse(s, n) \in n + 1 .. Len(s) + 1
         /\ NextUse(s, n) <= Len(s) => s[NextUse(s, n)] = s[n]
         /\ \A m \in n + 1 .. Len(s) : s[m] = s[n] => NextUse(s, n) <= m
<1> DEFINE Later == {m \in n + 1 .. Len(s) : s[m] = s[n]}
<1>1. CASE Later = {}
  BY <1>1 DEF NextUse, Never
<1>2. CASE Later # {}
  <2>0. Later \in SUBSET Nat
    OBVIOUS
  <2>1. \E x \in Later : \A y \in Later : x <= y
    <3> HIDE DEF Later
    <3> QED BY <1>2, <2>0, LeastOfNaturals
  <2> DEFINE use == CHOOSE m \in Later : \A k \in Later : m <= k
  <2>2. use \in Later /\ \A y \in Later : use <= y
    BY <2>1
  <2>3. NextUse(s, n) = use
    BY <1>2 DEF NextUse
  <2> HIDE DEF use
  <2> QED BY <2>2, <2>3
<1> QED BY <1>1, <1>2

\* heappop finds the farthest entry, the smaller block among equals.
LEMMA TopIsFarthest ==
  ASSUME TypeOK, EntriesEarly, heap # {}
  PROVE  Top \in heap /\ \A e \in heap : Top.use >= e.use
<1> DEFINE Uses == {e.use : e \in heap}
<1>1. Uses \in SUBSET Nat /\ Uses # {} /\ \A u \in Uses : u <= Len(blocks) + 1
  BY DEF TypeOK, EntriesEarly, Entries
<1>2. PICK u \in Uses : \A x \in Uses : u >= x
  <2> HIDE DEF Uses
  <2>1. Len(blocks) + 1 \in Nat
    BY DEF TypeOK
  <2> QED BY <1>1, <2>1, LargestOfBounded
<1> DEFINE Named == {b \in Blocks : [use |-> u, block |-> b] \in heap}
<1>3. Named \in SUBSET Nat /\ Named # {}
  <2>1. PICK e \in heap : e.use = u
    BY <1>2
  <2>2. e.block \in Blocks /\ e = [use |-> u, block |-> e.block]
    BY <2>1 DEF TypeOK, Entries
  <2> QED BY <2>1, <2>2, BlocksAssumption
<1>4. PICK b \in Named : \A x \in Named : b <= x
  <2> HIDE DEF Named
  <2> QED BY <1>3, LeastOfNaturals
<1> DEFINE farthest == [use |-> u, block |-> b]
<1>5. farthest \in heap
  BY <1>4
<1>6. ASSUME NEW f \in heap PROVE farthest.use > f.use \/ (farthest.use = f.use /\ farthest.block <= f.block)
  <2>1. u >= f.use /\ u \in Nat /\ f.use \in Nat /\ f.block \in Blocks
    BY <1>2, <1>1 DEF TypeOK, Entries
  <2>2. u = f.use => f.block \in Named
    BY <1>6, <2>1 DEF TypeOK, Entries
  <2> QED BY <1>4, <2>1, <2>2
<1>7. Top \in heap /\ \A f \in heap : Top.use > f.use \/ (Top.use = f.use /\ Top.block <= f.block)
  <2> HIDE DEF farthest
  <2> QED BY <1>5, <1>6 DEF Top
<1>8. \A e \in heap : e.use \in Nat
  BY DEF TypeOK, Entries
<1> QED BY <1>7, <1>8

-----------------------------------------------------------------------------
(* The invariant.                                                          *)

\* An empty cache with an empty heap.
LEMMA InitInv == InitOptMisses => Inv
<1> SUFFICES ASSUME NEW stream \in Streams, NEW size \in Nat \ {0}, InitOpt(stream, size)
             PROVE  Inv
  BY DEF InitOptMisses
<1> USE DEF InitOpt
<1>1. stream \in Seq(Blocks) /\ Len(stream) \in Nat
  BY StreamsAssumption
<1>2. DOMAIN resident = {}
  OBVIOUS
<1>3. TypeOK
  BY <1>1, <1>2 DEF TypeOK
<1>4. Occupancy
  BY <1>2, FS_EmptySet DEF Occupancy
<1> QED BY <1>2, <1>3, <1>4 DEF Inv, UsesAhead, EntriesEarly, LiveInHeap

\* Storing the next use of the block just referenced and pushing an entry for it.
LEMMA RecordKeeps ==
  ASSUME Inv, i <= Len(blocks), Record, misses' \in Nat,
         Cardinality(DOMAIN resident) < capacity \/ blocks[i] \in DOMAIN resident
  PROVE  Inv'
<1> DEFINE c == blocks[i]
           use == NextUse(blocks, i)
<1>1. /\ blocks \in Seq(Blocks) /\ capacity \in Nat \ {0} /\ Len(blocks) \in Nat
      /\ i \in 1 .. Len(blocks) /\ c \in Blocks
  BY DEF Inv, TypeOK
<1>2. /\ use \in i + 1 .. Len(blocks) + 1
      /\ use <= Len(blocks) => blocks[use] = c
      /\ \A m \in i + 1 .. Len(blocks) : blocks[m] = c => use <= m
  BY <1>1, NextUseProperties
<1> HIDE DEF use
<1>3. /\ resident' = [b \in DOMAIN resident \cup {c} |-> IF b = c THEN use ELSE resident[b]]
      /\ heap' = heap \cup {[use |-> use, block |-> c]}
      /\ i' = i + 1 /\ pc' = "next" /\ blocks' = blocks /\ capacity' = capacity
  BY DEF Record, use
<1>4. /\ DOMAIN resident' = DOMAIN resident \cup {c} /\ resident'[c] = use
      /\ \A b \in DOMAIN resident \ {c} : resident'[b] = resident[b]
  BY <1>3
<1> HIDE DEF c
<1>5. TypeOK'
  <2>1. DOMAIN resident \subseteq Blocks /\ \A b \in DOMAIN resident : resident[b] \in Nat \ {0}
    BY DEF Inv, TypeOK
  <2>2. use \in Nat \ {0}
    BY <1>1, <1>2
  <2>3. DOMAIN resident' \subseteq Blocks /\ resident' \in [DOMAIN resident' -> Nat \ {0}]
    BY <1>1, <1>3, <2>1, <2>2
  <2>4. heap' \subseteq Entries
    BY <1>1, <1>3, <2>2 DEF Inv, TypeOK, Entries
  <2>5. i' \in 1 .. Len(blocks') + 1
    BY <1>1, <1>3
  <2> QED BY <1>1, <1>3, <2>3, <2>4, <2>5 DEF TypeOK
<1>6. UsesAhead'
  <2> SUFFICES ASSUME NEW b \in DOMAIN resident'
               PROVE  /\ resident'[b] \in i + 1 .. Len(blocks) + 1
                      /\ resident'[b] <= Len(blocks) => blocks[resident'[b]] = b
                      /\ \A n \in i + 1 .. resident'[b] - 1 : blocks[n] # b
    BY <1>3 DEF UsesAhead
  <2>1. CASE b = c
    <3>1. ASSUME NEW n \in i + 1 .. use - 1 PROVE blocks[n] # c
      BY <1>1, <1>2
    <3> QED BY <1>2, <1>4, <2>1, <3>1
  <2>2. CASE b # c
    <3>1. b \in DOMAIN resident /\ resident'[b] = resident[b]
      BY <1>4, <2>2
    <3>2. /\ resident[b] \in i .. Len(blocks) + 1
          /\ resident[b] <= Len(blocks) => blocks[resident[b]] = b
          /\ \A n \in i .. resident[b] - 1 : blocks[n] # b
      BY <3>1 DEF Inv, UsesAhead
    <3>3. resident[b] # i
      BY <1>1, <2>2, <3>2 DEF c
    <3> QED BY <1>1, <3>1, <3>2, <3>3
  <2> QED BY <2>1, <2>2
<1>7. EntriesEarly'
  <2> SUFFICES ASSUME NEW e \in heap'
               PROVE  /\ e.use <= Len(blocks) + 1
                      /\ \A n \in i + 1 .. Len(blocks) : blocks[n] = e.block => e.use <= n
    BY <1>3 DEF EntriesEarly
  <2>1. CASE e \in heap
    BY <1>1, <2>1 DEF Inv, EntriesEarly
  <2>2. CASE e = [use |-> use, block |-> c]
    BY <1>1, <1>2, <2>2
  <2> QED BY <1>3, <2>1, <2>2
<1>8. Occupancy'
  <2>1. IsFiniteSet(DOMAIN resident) /\ Cardinality(DOMAIN resident) <= capacity
    BY DEF Inv, Occupancy
  <2>2. CASE c \in DOMAIN resident
    <3>1. DOMAIN resident' = DOMAIN resident
      BY <1>4, <2>2
    <3> QED BY <1>3, <2>1, <3>1 DEF Occupancy
  <2>3. CASE c \notin DOMAIN resident
    <3>1. /\ IsFiniteSet(DOMAIN resident')
          /\ Cardinality(DOMAIN resident') = Cardinality(DOMAIN resident) + 1
      BY <1>4, <2>1, <2>3, FS_AddElement
    <3>2. Cardinality(DOMAIN resident) \in Nat /\ Cardinality(DOMAIN resident) < capacity
      BY <2>1, <2>3, FS_CardinalityType DEF c
    <3>3. Cardinality(DOMAIN resident') <= capacity'
      BY <1>1, <1>3, <3>1, <3>2
    <3> QED BY <1>3, <3>1, <3>3 DEF Occupancy
  <2> QED BY <2>2, <2>3
<1>9. LiveInHeap'
  BY <1>3, <1>4 DEF Inv, LiveInHeap
<1> QED BY <1>5, <1>6, <1>7, <1>8, <1>9 DEF Inv

\* A full cache has a resident block, whose live entry is in the heap.
LEMMA HeapNotEmpty == ASSUME Inv, Full PROVE heap # {}
<1>1. DOMAIN resident # {}
  BY FS_EmptySet DEF Inv, TypeOK, Full
<1> QED BY <1>1 DEF Inv, LiveInHeap

\* A live entry that surfaces is the farthest next use of all resident blocks.
LEMMA LiveTopIsFarthest ==
  ASSUME Inv, heap # {}, Live(Top)
  PROVE  /\ Top \in heap /\ Top.block \in DOMAIN resident /\ resident[Top.block] = Top.use
         /\ \A b \in DOMAIN resident : resident[b] <= resident[Top.block]
<1>1. Top \in heap /\ \A e \in heap : Top.use >= e.use
  BY TopIsFarthest DEF Inv
<1>2. Top.block \in DOMAIN resident /\ resident[Top.block] = Top.use
  BY DEF Live
<1>3. ASSUME NEW b \in DOMAIN resident PROVE resident[b] <= Top.use
  <2>1. [use |-> resident[b], block |-> b] \in heap
    BY <1>3 DEF Inv, LiveInHeap
  <2>2. Top.use >= [use |-> resident[b], block |-> b].use
    BY <1>1, <2>1
  <2>3. Top.use \in Nat /\ resident[b] \in Nat
    BY <1>1, <1>3 DEF Inv, TypeOK, Entries
  <2> QED BY <2>2, <2>3
<1> QED BY <1>1, <1>2, <1>3

\* Every step keeps the heap in order.
LEMMA StepInv == ASSUME Inv, [NextOpt]_optVars PROVE Inv'
<1>1. misses \in Nat /\ misses + 1 \in Nat /\ Len(blocks) \in Nat /\ i \in Nat
  BY DEF Inv, TypeOK
<1>2. CASE Hit
  BY <1>1, <1>2, RecordKeeps DEF Hit, Begin
<1>3. CASE FillFree
  <2>1. Cardinality(DOMAIN resident) < capacity
    <3>1. Cardinality(DOMAIN resident) \in Nat /\ capacity \in Nat
      BY FS_CardinalityType DEF Inv, TypeOK, Occupancy
    <3> QED BY <1>3, <3>1 DEF FillFree, Full, Inv, Occupancy
  <2> QED BY <1>1, <1>3, <2>1, RecordKeeps DEF FillFree, Begin
<1>4. CASE MissFull
  <2>1. /\ Begin /\ blocks[i] \notin DOMAIN resident /\ Full
        /\ misses' = misses + 1 /\ pc' = "pop"
        /\ blocks' = blocks /\ capacity' = capacity /\ i' = i /\ resident' = resident /\ heap' = heap
    BY <1>4 DEF MissFull
  <2>2. TypeOK'
    BY <1>1, <2>1 DEF Inv, TypeOK, Begin, Entries
  <2>3. Occupancy'
    BY <2>1 DEF Inv, Occupancy, Full
  <2> QED BY <2>1, <2>2, <2>3 DEF Inv, UsesAhead, EntriesEarly, LiveInHeap
<1>5. CASE PopStale
  <2>1. /\ pc = "pop" /\ heap # {} /\ heap' = heap \ {Top} /\ ~Live(Top)
        /\ blocks' = blocks /\ capacity' = capacity /\ i' = i /\ misses' = misses
        /\ pc' = pc /\ resident' = resident
    BY <1>5 DEF PopStale, Popping
  <2>2. TypeOK'
    BY <2>1 DEF Inv, TypeOK, Entries
  <2>3. LiveInHeap'
    <3>1. ASSUME NEW b \in DOMAIN resident PROVE Top # [use |-> resident[b], block |-> b]
      BY <2>1, <3>1 DEF Live
    <3> HIDE DEF Top
    <3> QED BY <2>1, <3>1 DEF Inv, LiveInHeap
  <2>4. EntriesEarly'
    BY <2>1 DEF Inv, EntriesEarly
  <2>5. Occupancy'
    BY <2>1 DEF Inv, Occupancy, Full
  <2> QED BY <2>1, <2>2, <2>3, <2>4, <2>5 DEF Inv, UsesAhead
<1>6. CASE PopVictim
  <2> DEFINE v == Top.block
  <2>1. /\ pc = "pop" /\ heap # {} /\ heap' = heap \ {Top} /\ Live(Top)
        /\ blocks' = blocks /\ capacity' = capacity /\ i' = i /\ misses' = misses
        /\ pc' = "install" /\ resident' = [b \in DOMAIN resident \ {v} |-> resident[b]]
    BY <1>6 DEF PopVictim, Popping
  <2>2. v \in DOMAIN resident
    BY <2>1, LiveTopIsFarthest
  <2> HIDE DEF v
  <2>3. /\ DOMAIN resident' = DOMAIN resident \ {v}
        /\ \A b \in DOMAIN resident' : resident'[b] = resident[b]
    BY <2>1
  <2>4. TypeOK'
    <3>1. DOMAIN resident \subseteq Blocks /\ \A b \in DOMAIN resident : resident[b] \in Nat \ {0}
      BY DEF Inv, TypeOK
    <3>2. resident' \in [DOMAIN resident' -> Nat \ {0}] /\ DOMAIN resident' \subseteq Blocks
      BY <2>1, <2>3, <3>1
    <3> QED BY <2>1, <3>2 DEF Inv, TypeOK, Entries
  <2>5. UsesAhead'
    BY <2>1, <2>3 DEF Inv, UsesAhead
  <2>6. EntriesEarly'
    BY <2>1 DEF Inv, EntriesEarly
  <2>7. Occupancy'
    <3>1. IsFiniteSet(DOMAIN resident) /\ blocks[i] \notin DOMAIN resident
      BY <2>1 DEF Inv, Occupancy
    <3>2. /\ IsFiniteSet(DOMAIN resident')
          /\ Cardinality(DOMAIN resident') = Cardinality(DOMAIN resident) - 1
      BY <2>2, <2>3, <3>1, FS_RemoveElement
    <3>3. Cardinality(DOMAIN resident) = capacity /\ capacity \in Nat
      BY <2>1 DEF Inv, TypeOK, Occupancy, Full
    <3>4. Cardinality(DOMAIN resident') < capacity' /\ Cardinality(DOMAIN resident') <= capacity'
      BY <2>1, <3>2, <3>3
    <3> QED BY <2>1, <2>3, <3>1, <3>2, <3>4 DEF Occupancy
  <2>8. LiveInHeap'
    <3>1. ASSUME NEW b \in DOMAIN resident' PROVE Top # [use |-> resident[b], block |-> b]
      BY <2>3, <3>1 DEF v
    <3> HIDE DEF Top
    <3> QED BY <2>1, <2>3, <3>1 DEF Inv, LiveInHeap
  <2> QED BY <2>4, <2>5, <2>6, <2>7, <2>8 DEF Inv
<1>7. CASE Install
  <2>1. /\ pc = "install" /\ Record /\ misses' = misses
    BY <1>7 DEF Install
  <2>2. i <= Len(blocks) /\ Cardinality(DOMAIN resident) < capacity
    BY <2>1 DEF Inv, TypeOK, Occupancy
  <2> QED BY <1>1, <2>1, <2>2, RecordKeeps
<1>8. CASE UNCHANGED optVars
  BY <1>8 DEF optVars, Inv, TypeOK, Entries, UsesAhead, EntriesEarly, Occupancy, Full, LiveInHeap
<1> QED BY <1>2, <1>3, <1>4, <1>5, <1>6, <1>7, <1>8 DEF NextOpt

\* The invariant of opt_misses holds in every state.
LEMMA Invariance == SpecOpt => []Inv
  BY InitInv, StepInv, PTL DEF SpecOpt

\* For every stream and capacity the variables of opt_misses keep their types.
THEOREM OptTypeCorrect == SpecOpt => []TypeOK
<1>1. Inv => TypeOK
  BY DEF Inv
<1> QED BY <1>1, Invariance, PTL

\* opt.py:99, for every stream and capacity: every resident block has a live entry, and
\* heappop is never called on an empty heap.
THEOREM PopFindsALiveEntry == SpecOpt => []HeapHoldsResidents
<1>1. Inv => HeapHoldsResidents
  BY HeapNotEmpty DEF Inv, HeapHoldsResidents, LiveInHeap, Occupancy
<1> QED BY <1>1, Invariance, PTL

\* opt.py:101, for every stream and capacity: the block evicted is a resident one whose
\* next reference is the farthest, whatever stale entries the heap holds.
THEOREM VictimIsFarthest == SpecOpt => EvictsFarthest
<1> DEFINE Farthest ==
      \A v \in DOMAIN resident \ DOMAIN resident' :
        /\ \A b \in DOMAIN resident : resident[b] <= resident[v]
        /\ \A n \in i .. resident[v] - 1 : blocks[n] # v
<1>1. ASSUME Inv, [NextOpt]_optVars PROVE [Farthest]_optVars
  <2> SUFFICES ASSUME NEW v \in DOMAIN resident \ DOMAIN resident'
               PROVE  /\ \A b \in DOMAIN resident : resident[b] <= resident[v]
                      /\ \A n \in i .. resident[v] - 1 : blocks[n] # v
    OBVIOUS
  <2>1. CASE Record
    BY <2>1 DEF Record
  <2>2. CASE PopVictim
    <3>1. resident' = [b \in DOMAIN resident \ {Top.block} |-> resident[b]] /\ Live(Top) /\ heap # {}
      BY <2>2 DEF PopVictim, Popping
    <3>2. v = Top.block
      BY <3>1
    <3> QED BY <1>1, <3>1, <3>2, LiveTopIsFarthest DEF Inv, UsesAhead
  <2>3. CASE UNCHANGED resident
    BY <2>3
  <2> QED BY <1>1, <2>1, <2>2, <2>3 DEF NextOpt, Hit, FillFree, MissFull, PopStale, Install, optVars
<1> QED BY <1>1, Invariance, PTL DEF SpecOpt, EvictsFarthest

-----------------------------------------------------------------------------
(* Definitions by recursion.                                               *)

-----------------------------------------------------------------------------
(* Index functions.                                                        *)

\* The two numbers, halved together until both are 0.
Pairs(size) == (0 .. size - 1) \X (0 .. size - 1)
Halved(size) == [p \in Pairs(size) |-> <<p[1] \div 2, p[2] \div 2>>]
Sum(size) == [p \in Pairs(size) |-> p[1] + p[2]]
Bit(size) == [p \in Pairs(size) |-> [v \in Nat |-> (2 * v) + ((p[1] + p[2]) % 2)]]

\* The recursive definition of the fold says what it seems to.
LEMMA XorIs ==
  ASSUME NEW size \in Nat \ {0}
  PROVE  \E f :
           /\ \A x \in 0 .. size - 1, y \in 0 .. size - 1 :
                f[<<x, y>>] = IF x = 0 /\ y = 0 THEN 0 ELSE (2 * f[<<x \div 2, y \div 2>>]) + ((x + y) % 2)
           /\ \A x \in 0 .. size - 1, y \in 0 .. size - 1 : Xor(size, x, y) = f[<<x, y>>]
<1> DEFINE T == 0 .. size - 1
           S == Pairs(size)
           Is(f) == f = [p \in S |-> IF p = <<0, 0>> THEN 0
                                     ELSE (2 * f[<<p[1] \div 2, p[2] \div 2>>]) + ((p[1] + p[2]) % 2)]
           xor == CHOOSE f : Is(f)
<1>1. ASSUME NEW x \in T, NEW y \in T
      PROVE  x \div 2 \in T /\ y \div 2 \in T /\ (x # 0 \/ y # 0 => x \div 2 + y \div 2 < x + y)
  OBVIOUS
<1>2. Descends(S, Nat, Sum(size), {<<0, 0>>}, Halved(size), 0, Bit(size))
  <2>1. Sum(size) \in [S -> Nat] /\ {<<0, 0>>} \in SUBSET S
    BY DEF Sum, Pairs
  <2>2. Halved(size) \in [S -> S]
    BY <1>1 DEF Halved, Pairs
  <2>3. Bit(size) \in [S -> [Nat -> Nat]]
    BY DEF Bit, Pairs
  <2>4. ASSUME NEW p \in S \ {<<0, 0>>} PROVE Sum(size)[Halved(size)[p]] < Sum(size)[p]
    <3>1. PICK x \in T, y \in T : p = <<x, y>>
      BY DEF Pairs
    <3>2. x # 0 \/ y # 0
      BY <2>4, <3>1
    <3>3. Halved(size)[p] = <<x \div 2, y \div 2>> /\ <<x \div 2, y \div 2>> \in S
      BY <1>1, <3>1 DEF Halved, Pairs
    <3>4. Sum(size)[p] = x + y /\ Sum(size)[<<x \div 2, y \div 2>>] = x \div 2 + y \div 2
      BY <3>1, <3>3 DEF Sum
    <3> QED BY <1>1, <3>2, <3>3, <3>4
  <2> QED BY <2>1, <2>2, <2>3, <2>4 DEF Descends
<1>3. PICK f \in [S -> Nat] : \A p \in S : f[p] = IF p \in {<<0, 0>>} THEN 0 ELSE Bit(size)[p][f[Halved(size)[p]]]
  BY <1>2, RecursionExists
<1>4. ASSUME NEW p \in S
      PROVE  f[p] = IF p = <<0, 0>> THEN 0 ELSE (2 * f[<<p[1] \div 2, p[2] \div 2>>]) + ((p[1] + p[2]) % 2)
  <2>1. Halved(size)[p] = <<p[1] \div 2, p[2] \div 2>> /\ Halved(size)[p] \in S
    BY <1>2 DEF Halved, Descends
  <2>2. \A v \in Nat : Bit(size)[p][v] = (2 * v) + ((p[1] + p[2]) % 2)
    BY DEF Bit
  <2>3. f[Halved(size)[p]] \in Nat
    BY <2>1
  <2> QED BY <1>3, <2>1, <2>2, <2>3
<1>5. Is(f)
  BY <1>4
<1> HIDE DEF Is
<1>6. Is(xor)
  BY <1>5
<1> HIDE DEF xor
<1>7. \A x \in T, y \in T : Xor(size, x, y) = xor[<<x, y>>]
  BY DEF Xor, Is, xor, Pairs
<1>8. \A x \in T, y \in T :
        xor[<<x, y>>] = IF x = 0 /\ y = 0 THEN 0 ELSE (2 * xor[<<x \div 2, y \div 2>>]) + ((x + y) % 2)
  BY <1>6 DEF Is, Pairs
<1> QED BY <1>7, <1>8

\* Below a power of two the fold stays below it.
LEMMA XorInRange ==
  ASSUME NEW size \in Nat \ {0}, IsPowerOfTwo(size), NEW x \in 0 .. size - 1, NEW y \in 0 .. size - 1
  PROVE  Xor(size, x, y) \in 0 .. size - 1
<1> DEFINE T == 0 .. size - 1
<1>1. PICK f :
        /\ \A a \in T, b \in T :
             f[<<a, b>>] = IF a = 0 /\ b = 0 THEN 0 ELSE (2 * f[<<a \div 2, b \div 2>>]) + ((a + b) % 2)
        /\ \A a \in T, b \in T : Xor(size, a, b) = f[<<a, b>>]
  BY XorIs
<1> DEFINE Small(k) == \A a, b \in T : a < Power[k] /\ b < Power[k] => f[<<a, b>>] \in Nat /\ f[<<a, b>>] < Power[k]
           G == {k \in Nat : Small(k)}
<1>2. \A k \in Nat : k \in G
  <2>1. 0 \in G
    <3>1. \A a, b \in T : a < 1 /\ b < 1 => f[<<a, b>>] = 0
      BY <1>1
    <3> QED BY <3>1, PowerIs
  <2>2. ASSUME NEW k \in G PROVE k + 1 \in G
    <3>1. Power[k] \in Nat /\ Power[k + 1] = 2 * Power[k]
      BY PowerIs
    <3>2. ASSUME NEW a \in T, NEW b \in T, a < Power[k + 1], b < Power[k + 1]
          PROVE  f[<<a, b>>] \in Nat /\ f[<<a, b>>] < Power[k + 1]
      <4> DEFINE v == f[<<a \div 2, b \div 2>>]
      <4>1. a \div 2 \in T /\ b \div 2 \in T /\ a \div 2 < Power[k] /\ b \div 2 < Power[k]
        BY <3>1, <3>2
      <4>2. v \in Nat /\ v < Power[k]
        BY <4>1
      <4>3. f[<<a, b>>] = IF a = 0 /\ b = 0 THEN 0 ELSE (2 * v) + ((a + b) % 2)
        BY <1>1
      <4> HIDE DEF v
      <4>4. (a + b) % 2 \in {0, 1}
        OBVIOUS
      <4> QED BY <3>1, <4>2, <4>3, <4>4
    <3> QED BY <3>2
  <2> HIDE DEF G
  <2>3. G \in SUBSET Nat
    BY DEF G
  <2> QED BY <2>1, <2>2, <2>3, NaturalSetInduction
<1>3. PICK k \in Nat : Power[k] = size
  BY DEF IsPowerOfTwo
<1>4. Small(k)
  BY <1>2
<1> HIDE DEF G
<1>5. f[<<x, y>>] \in Nat /\ f[<<x, y>>] < size
  BY <1>3, <1>4
<1> QED BY <1>1, <1>5

\* The block number cut into chunks.
Chunks(size, block) == [b \in 0 .. block |-> b \div size]
Folds(size, block) == [b \in 0 .. block |-> [v \in 0 .. size - 1 |-> Xor(size, b % size, v)]]
Ranks(block) == [b \in 0 .. block |-> b]

\* A block number has fewer chunks than itself.
LEMMA ChunkFacts ==
  ASSUME NEW size \in Nat \ {0}, size # 1, NEW b \in Nat
  PROVE  b % size \in 0 .. size - 1 /\ b \div size \in 0 .. b /\ (b # 0 => b \div size < b)
<1>1. size \in Nat /\ size >= 2
  OBVIOUS
<1>2. b = (size * (b \div size)) + (b % size) /\ b \div size \in Nat /\ b % size \in 0 .. size - 1
  BY Division
<1>3. \A q \in Nat : size * q >= 2 * q
  BY <1>1
<1> QED BY <1>1, <1>2, <1>3

IsFold(f, size, block) ==
  /\ f \in [0 .. block -> 0 .. size - 1]
  /\ \A b \in 0 .. block : f[b] = IF b = 0 THEN 0 ELSE Xor(size, b % size, f[b \div size])

\* The recursive definition of the hash says what it seems to.
LEMMA XorIndexIs ==
  ASSUME NEW size \in Nat \ {0}, size # 1, IsPowerOfTwo(size), NEW block \in Nat
  PROVE  \E f : IsFold(f, size, block) /\ XorIndex(size, block) = f[block]
<1> DEFINE S == 0 .. block
           T == 0 .. size - 1
           Is(f) == f = [b \in S |-> IF b = 0 THEN 0 ELSE Xor(size, b % size, f[b \div size])]
           folded == CHOOSE f : Is(f)
<1>1. ASSUME NEW b \in S PROVE b % size \in T /\ b \div size \in S /\ (b # 0 => b \div size < b)
  <2>1. b \in Nat
    OBVIOUS
  <2>2. b % size \in T /\ b \div size \in 0 .. b /\ (b # 0 => b \div size < b)
    <3> HIDE DEF S
    <3> QED BY <2>1, ChunkFacts
  <2> QED BY <2>2
<1>2. Descends(S, T, Ranks(block), {0}, Chunks(size, block), 0, Folds(size, block))
  <2>1. \A b \in S, v \in T : Xor(size, b % size, v) \in T
    BY <1>1, XorInRange
  <2>2. Folds(size, block) \in [S -> [T -> T]]
    BY <2>1 DEF Folds
  <2>3. Chunks(size, block) \in [S -> S] /\ \A b \in S : Chunks(size, block)[b] = b \div size
    BY <1>1 DEF Chunks
  <2>4. Ranks(block) \in [S -> Nat] /\ \A b \in S : Ranks(block)[b] = b
    BY DEF Ranks
  <2>5. 0 \in T /\ {0} \in SUBSET S
    OBVIOUS
  <2>6. \A b \in S \ {0} : Ranks(block)[Chunks(size, block)[b]] < Ranks(block)[b]
    <3> SUFFICES ASSUME NEW b \in S \ {0} PROVE Ranks(block)[Chunks(size, block)[b]] < Ranks(block)[b]
      OBVIOUS
    <3>1. b \in S /\ b # 0
      OBVIOUS
    <3>2. b \div size \in S /\ b \div size < b
      BY <1>1, <3>1
    <3> HIDE DEF S
    <3> QED BY <2>3, <2>4, <3>1, <3>2
  <2> HIDE DEF T, S
  <2> QED BY <2>2, <2>3, <2>4, <2>5, <2>6 DEF Descends
<1>3. PICK f \in [S -> T] :
        \A b \in S : f[b] = IF b \in {0} THEN 0 ELSE Folds(size, block)[b][f[Chunks(size, block)[b]]]
  <2> HIDE DEF S, T
  <2>1. \E f \in [S -> T] :
          \A b \in S : f[b] = IF b \in {0} THEN 0 ELSE Folds(size, block)[b][f[Chunks(size, block)[b]]]
    BY <1>2, RecursionExists
  <2> QED BY <2>1
<1>4. ASSUME NEW b \in S PROVE f[b] = IF b = 0 THEN 0 ELSE Xor(size, b % size, f[b \div size])
  <2>1. f[b \div size] \in T /\ Chunks(size, block)[b] = b \div size
    BY <1>1 DEF Chunks
  <2>2. \A v \in T : Folds(size, block)[b][v] = Xor(size, b % size, v)
    BY DEF Folds
  <2> QED BY <1>3, <2>1, <2>2
<1>5. Is(f)
  BY <1>4
<1> HIDE DEF Is
<1>6. Is(folded)
  BY <1>5
<1> HIDE DEF folded
<1>7. \A b \in S : folded[b] = IF b = 0 THEN 0 ELSE Xor(size, b % size, folded[b \div size])
  BY <1>6 DEF Is
<1>8. folded = [b \in S |-> folded[b]]
  BY <1>6 DEF Is
<1> DEFINE Bad == {b \in S : folded[b] \notin T}
<1>9. Bad = {}
  <2> SUFFICES ASSUME Bad # {} PROVE FALSE
    OBVIOUS
  <2>1. PICK b \in Bad : \A c \in Bad : b <= c
    <3>1. Bad \in SUBSET Nat
      OBVIOUS
    <3> HIDE DEF Bad
    <3> QED BY <3>1, LeastOfNaturals
  <2>2. b # 0 /\ b \in S
    BY <1>7
  <2>3. b % size \in T /\ b \div size \in S /\ b \div size < b
    <3> HIDE DEF Bad, S, T
    <3> QED BY <1>1, <2>2
  <2>4. folded[b \div size] \in T
    <3>1. b \div size \notin Bad
      <4>1. b \in Nat /\ b \div size \in Nat
        BY <2>2, <2>3
      <4> HIDE DEF Bad
      <4> QED BY <2>1, <2>3, <4>1
    <3> QED BY <2>3, <3>1
  <2>5. folded[b] = Xor(size, b % size, folded[b \div size])
    BY <1>7, <2>2
  <2>6. folded[b] \in T
    BY <2>3, <2>4, <2>5, XorInRange
  <2> QED BY <2>1, <2>6
<1>10. XorIndex(size, block) = folded[block]
  BY DEF XorIndex, folded, Is
<1>11. folded \in [S -> T]
  <2>1. \A b \in S : folded[b] \in T
    BY <1>9
  <2> QED BY <1>8, <2>1
<1> QED BY <1>7, <1>10, <1>11 DEF IsFold

\* The hash stays below the number of sets.
LEMMA XorIndexInRange ==
  ASSUME NEW size \in Nat \ {0}, IsPowerOfTwo(size), NEW block \in Nat
  PROVE  XorIndex(size, block) \in 0 .. size - 1
<1>1. CASE size = 1
  BY <1>1 DEF XorIndex
<1>2. CASE size # 1
  <2>1. PICK f : IsFold(f, size, block) /\ XorIndex(size, block) = f[block]
    BY <1>2, XorIndexIs
  <2> QED BY <2>1 DEF IsFold
<1> QED BY <1>1, <1>2

\* Every block goes to a set there is.
LEMMA IndexInRange ==
  ASSUME NEW sets \in Nat \ {0}, NEW name \in IndexNames, IndexDefined(name, sets), NEW b \in Nat
  PROVE  IndexOf(name, sets, b) \in 0 .. sets - 1
<1>1. b % sets \in 0 .. sets - 1
  OBVIOUS
<1>2. name # "modulo" => name = "xor"
  BY DEF IndexNames
<1> QED BY <1>1, <1>2, XorIndexInRange DEF IndexOf, IndexDefined

\* The fold bit by bit.
LEMMA XorHalves ==
  ASSUME NEW size \in Nat \ {0}, IsPowerOfTwo(size), NEW x \in 0 .. size - 1, NEW y \in 0 .. size - 1
  PROVE  /\ Xor(size, x, y) \in Nat /\ x \div 2 \in 0 .. size - 1 /\ y \div 2 \in 0 .. size - 1
         /\ Xor(size, x, y) \div 2 = Xor(size, x \div 2, y \div 2)
         /\ Xor(size, x, y) % 2 = (x + y) % 2
<1>1. x \div 2 \in 0 .. size - 1 /\ y \div 2 \in 0 .. size - 1
  OBVIOUS
<1>2. Xor(size, x, y) \in Nat /\ Xor(size, x \div 2, y \div 2) \in Nat
  <2>1. Xor(size, x, y) \in 0 .. size - 1
    BY XorInRange
  <2>2. Xor(size, x \div 2, y \div 2) \in 0 .. size - 1
    BY <1>1, XorInRange
  <2>3. \A v \in 0 .. size - 1 : v \in Nat
    OBVIOUS
  <2> QED BY <2>1, <2>2, <2>3
<1>3. PICK f :
        /\ \A a \in 0 .. size - 1, b \in 0 .. size - 1 :
             f[<<a, b>>] = IF a = 0 /\ b = 0 THEN 0 ELSE (2 * f[<<a \div 2, b \div 2>>]) + ((a + b) % 2)
        /\ \A a \in 0 .. size - 1, b \in 0 .. size - 1 : Xor(size, a, b) = f[<<a, b>>]
  BY XorIs
<1>4. Xor(size, x, y) = IF x = 0 /\ y = 0 THEN 0 ELSE (2 * Xor(size, x \div 2, y \div 2)) + ((x + y) % 2)
  BY <1>1, <1>3
<1>5. x = 0 /\ y = 0 => x \div 2 = 0 /\ y \div 2 = 0 /\ (x + y) % 2 = 0
  OBVIOUS
<1>6. Xor(size, x, y) = (2 * Xor(size, x \div 2, y \div 2)) + ((x + y) % 2)
  <2>1. CASE x = 0 /\ y = 0
    <3>1. Xor(size, x, y) = 0 /\ Xor(size, x \div 2, y \div 2) = 0
      <4>1. Xor(size, x, y) = 0
        BY <1>4, <2>1
      <4> QED BY <1>5, <2>1, <4>1
    <3> QED BY <1>5, <2>1, <3>1
  <2>2. CASE ~(x = 0 /\ y = 0)
    BY <1>4, <2>2
  <2> QED BY <2>1, <2>2
<1> DEFINE v == Xor(size, x \div 2, y \div 2)
           w == Xor(size, x, y)
<1>7. w = (2 * v) + ((x + y) % 2) /\ v \in Nat /\ (x + y) % 2 \in 0 .. 1
  <2>1. (x + y) % 2 \in 0 .. 1
    OBVIOUS
  <2> QED BY <1>2, <1>6, <2>1
<1> HIDE DEF v, w
<1>8. w \div 2 = v /\ w % 2 = (x + y) % 2
  BY <1>7, DivisionUnique
<1> QED BY <1>1, <1>2, <1>8 DEF v, w

\* Two folds that agree in their low bits come from numbers that agree in these
\* bits on both sides or on neither.
LEMMA XorAgrees ==
  ASSUME NEW size \in Nat \ {0}, IsPowerOfTwo(size)
  PROVE  \A k \in Nat : \A a, b, c, d \in 0 .. size - 1 :
           Xor(size, a, b) % Power[k] = Xor(size, c, d) % Power[k]
           => (a % Power[k] = c % Power[k] <=> b % Power[k] = d % Power[k])
<1> DEFINE T == 0 .. size - 1
           Agree(k) == \A a, b, c, d \in T :
                         Xor(size, a, b) % Power[k] = Xor(size, c, d) % Power[k]
                         => (a % Power[k] = c % Power[k] <=> b % Power[k] = d % Power[k])
           G == {k \in Nat : Agree(k)}
<1>1. 0 \in G
  <2>1. \A x, y \in Nat : x % 1 = y % 1
    OBVIOUS
  <2>2. T \in SUBSET Nat
    OBVIOUS
  <2> QED BY <2>1, <2>2, PowerIs
<1>2. ASSUME NEW k \in G PROVE k + 1 \in G
  <2> DEFINE p == Power[k]
  <2>1. p \in Nat \ {0} /\ Power[k + 1] = 2 * p
    BY PowerIs, PowerPositive
  <2> SUFFICES ASSUME NEW a \in T, NEW b \in T, NEW c \in T, NEW d \in T,
                      Xor(size, a, b) % Power[k + 1] = Xor(size, c, d) % Power[k + 1]
               PROVE  a % Power[k + 1] = c % Power[k + 1] <=> b % Power[k + 1] = d % Power[k + 1]
    OBVIOUS
  <2> DEFINE v == Xor(size, a, b)
             w == Xor(size, c, d)
             v2 == Xor(size, a \div 2, b \div 2)
             w2 == Xor(size, c \div 2, d \div 2)
  <2>2. /\ v \in Nat /\ w \in Nat /\ v \div 2 = v2 /\ w \div 2 = w2
        /\ v % 2 = (a + b) % 2 /\ w % 2 = (c + d) % 2
        /\ a \div 2 \in T /\ b \div 2 \in T /\ c \div 2 \in T /\ d \div 2 \in T
    BY XorHalves
  <2>3. v2 % p = w2 % p => ((a \div 2) % p = (c \div 2) % p <=> (b \div 2) % p = (d \div 2) % p)
    BY <2>2
  <2>4. v % (2 * p) = w % (2 * p)
    BY <2>1
  <2> HIDE DEF p, v, w, v2, w2, G
  <2>5. v % 2 = w % 2 /\ v2 % p = w2 % p
    <3>1. /\ v % (2 * p) = (2 * (v2 % p)) + (v % 2) /\ w % (2 * p) = (2 * (w2 % p)) + (w % 2)
          /\ v2 % p \in Nat /\ w2 % p \in Nat /\ v % 2 \in {0, 1} /\ w % 2 \in {0, 1}
      BY <2>1, <2>2, Halving
    <3> QED BY <2>4, <3>1
  <2>6. ASSUME NEW x \in T, NEW y \in T
        PROVE  x % (2 * p) = y % (2 * p) <=> x % 2 = y % 2 /\ (x \div 2) % p = (y \div 2) % p
    <3>1. x \in Nat /\ y \in Nat
      OBVIOUS
    <3>2. /\ x % (2 * p) = (2 * ((x \div 2) % p)) + (x % 2) /\ y % (2 * p) = (2 * ((y \div 2) % p)) + (y % 2)
          /\ (x \div 2) % p \in Nat /\ (y \div 2) % p \in Nat /\ x % 2 \in {0, 1} /\ y % 2 \in {0, 1}
      BY <2>1, <3>1, Halving
    <3> QED BY <3>2
  <2>7. a % 2 = c % 2 <=> b % 2 = d % 2
    <3>1. (a + b) % 2 = (c + d) % 2
      BY <2>2, <2>5
    <3> QED BY <3>1
  <2> QED BY <2>1, <2>3, <2>5, <2>6, <2>7
<1>3. \A k \in Nat : k \in G
  <2> HIDE DEF G
  <2>1. G \in SUBSET Nat
    BY DEF G
  <2> QED BY <1>1, <1>2, <2>1, NaturalSetInduction
<1> QED BY <1>3

\* What is folded into a number can be told from the result.
LEMMA XorInjective ==
  ASSUME NEW size \in Nat \ {0}, IsPowerOfTwo(size),
         NEW a \in 0 .. size - 1, NEW b \in 0 .. size - 1, NEW c \in 0 .. size - 1, NEW d \in 0 .. size - 1,
         Xor(size, a, b) = Xor(size, c, d)
  PROVE  a = c <=> b = d
<1>1. PICK k \in Nat : Power[k] = size
  BY DEF IsPowerOfTwo
<1>2. a % size = c % size <=> b % size = d % size
  BY <1>1, XorAgrees
<1>3. \A x \in 0 .. size - 1 : x % size = x
  OBVIOUS
<1> QED BY <1>2, <1>3

\* The folds of two blocks agree where both are defined.
LEMMA FoldsAgree ==
  ASSUME NEW size \in Nat \ {0}, size # 1, NEW block \in Nat, NEW part \in 0 .. block,
         NEW f, IsFold(f, size, block), NEW g, IsFold(g, size, part)
  PROVE  f[part] = g[part]
<1> DEFINE Bad == {b \in 0 .. part : f[b] # g[b]}
<1>1. Bad = {}
  <2> SUFFICES ASSUME Bad # {} PROVE FALSE
    OBVIOUS
  <2>1. PICK b \in Bad : \A c \in Bad : b <= c
    <3>1. Bad \in SUBSET Nat
      OBVIOUS
    <3> HIDE DEF Bad
    <3> QED BY <3>1, LeastOfNaturals
  <2>2. b \in 0 .. part /\ b \in 0 .. block /\ b \in Nat /\ f[b] # g[b]
    OBVIOUS
  <2>3. /\ f[b] = IF b = 0 THEN 0 ELSE Xor(size, b % size, f[b \div size])
        /\ g[b] = IF b = 0 THEN 0 ELSE Xor(size, b % size, g[b \div size])
    BY <2>2 DEF IsFold
  <2>4. b # 0
    BY <2>2, <2>3
  <2>5. b \div size \in 0 .. b /\ b \div size < b
    BY <2>2, <2>4, ChunkFacts
  <2>6. b \div size \notin Bad
    <3> HIDE DEF Bad
    <3> QED BY <2>1, <2>2, <2>5
  <2>7. f[b \div size] = g[b \div size]
    BY <2>2, <2>5, <2>6
  <2> QED BY <2>2, <2>3, <2>4, <2>7
<1> QED BY <1>1

\* The hash of a block from that of its higher chunks.
LEMMA XorIndexUnfolds ==
  ASSUME NEW size \in Nat \ {0}, size # 1, IsPowerOfTwo(size), NEW block \in Nat
  PROVE  XorIndex(size, block) = Xor(size, block % size, XorIndex(size, block \div size))
<1>1. PICK f : IsFold(f, size, block) /\ XorIndex(size, block) = f[block]
  BY XorIndexIs
<1>2. block \div size \in 0 .. block /\ block \div size \in Nat
  <2>1. block \div size \in 0 .. block
    BY ChunkFacts
  <2> QED BY <2>1
<1>3. PICK g : IsFold(g, size, block \div size) /\ XorIndex(size, block \div size) = g[block \div size]
  BY <1>2, XorIndexIs
<1>4. f[block \div size] = XorIndex(size, block \div size)
  BY <1>1, <1>2, <1>3, FoldsAgree
<1>5. f[block] = IF block = 0 THEN 0 ELSE Xor(size, block % size, f[block \div size])
  BY <1>1 DEF IsFold
<1>6. CASE block # 0
  BY <1>1, <1>4, <1>5, <1>6
<1>7. CASE block = 0
  <2>1. block % size = 0 /\ block \div size = 0
    <3>1. block = (size * 0) + 0 /\ 0 \in 0 .. size - 1
      BY <1>7
    <3> QED BY <3>1, DivisionUnique
  <2>2. XorIndex(size, block) = 0 /\ XorIndex(size, block \div size) = 0
    BY <1>1, <1>5, <1>7, <2>1
  <2>3. Xor(size, 0, 0) = 0
    <3>1. 0 \in 0 .. size - 1
      OBVIOUS
    <3> QED BY <3>1, XorIs
  <2> QED BY <2>1, <2>2, <2>3
<1> QED BY <1>6, <1>7

\* They get different sets, if the bits start in the lowest chunk.
LEMMA SpreadsLow ==
  ASSUME NEW w \in Nat, NEW k \in Nat, k < w, NEW x \in Nat, NEW y \in Nat, Apart(Power[w], Power[k], x, y)
  PROVE  XorIndex(Power[w], x) # XorIndex(Power[w], y)
<1> DEFINE s == Power[w]
           low == Power[k]
           top == Power[w - k]
           xs == x \div s
           ys == y \div s
           rest == xs \div s
<1>1. s \in Nat \ {0} /\ low \in Nat \ {0} /\ top \in Nat \ {0} /\ w - k \in Nat
  BY PowerPositive
<1>2. s = low * top
  BY <1>1, PowerAdds
<1>3. s # 1 /\ IsPowerOfTwo(s)
  BY PowerIsPower
<1>4. x % low = y % low /\ x \div (low * s) = y \div (low * s) /\ x # y
  BY DEF Apart
<1> SUFFICES ASSUME XorIndex(s, x) = XorIndex(s, y) PROVE FALSE
  OBVIOUS
<1> HIDE DEF s, low, top
<1>5. xs \in Nat /\ ys \in Nat /\ x % s \in 0 .. s - 1 /\ y % s \in 0 .. s - 1
  BY <1>1, Division
<1> HIDE DEF xs, ys
<1>6. rest \in Nat /\ xs % s \in 0 .. s - 1 /\ ys % s \in 0 .. s - 1
  BY <1>1, <1>5, Division
<1>7. ys \div s = rest
  <2>1. ASSUME NEW z \in Nat PROVE (z \div s) \div s = (z \div (low * s)) \div top
    <3> DEFINE p == low * s
               r == s * s
    <3>1. p \in Nat \ {0} /\ p = low * s /\ r = s * s
      BY <1>1, DivisionByProduct
    <3>2. r = p * top
      <4>1. (low * s) * top = (low * top) * s
        BY <1>1
      <4> QED BY <1>2, <4>1
    <3> HIDE DEF p, r
    <3>5. IsProduct(r, s, s) /\ IsProduct(r, p, top)
      BY <3>1, <3>2 DEF IsProduct
    <3>6. p \in Nat \ {0}
      BY <3>1
    <3>3. z \div r = (z \div s) \div s
      BY <1>1, <3>5, QuotientTwice
    <3>4. z \div r = (z \div p) \div top
      BY <1>1, <3>5, <3>6, QuotientTwice
    <3> QED BY <3>3, <3>4 DEF p
  <2> QED BY <1>4, <2>1 DEF xs, ys
<1> HIDE DEF rest
<1> DEFINE ix == XorIndex(s, xs)
           iy == XorIndex(s, ys)
           ir == XorIndex(s, rest)
<1>8. /\ XorIndex(s, x) = Xor(s, x % s, ix) /\ XorIndex(s, y) = Xor(s, y % s, iy)
      /\ ix = Xor(s, xs % s, ir) /\ iy = Xor(s, ys % s, ir)
  <2>1. XorIndex(s, x) = Xor(s, x % s, ix) /\ XorIndex(s, y) = Xor(s, y % s, iy)
    BY <1>1, <1>3, XorIndexUnfolds DEF xs, ys
  <2>2. ix = Xor(s, xs % s, ir) /\ iy = Xor(s, ys % s, ir)
    BY <1>1, <1>3, <1>5, <1>7, XorIndexUnfolds DEF rest
  <2> QED BY <2>1, <2>2
<1>9. ix \in 0 .. s - 1 /\ iy \in 0 .. s - 1 /\ ir \in 0 .. s - 1
  BY <1>1, <1>3, <1>5, <1>6, XorIndexInRange
<1> HIDE DEF ix, iy, ir
<1>10. ix % low = iy % low
  <2>1. (x % s) % low = (y % s) % low
    BY <1>1, <1>2, <1>4, LowPart
  <2>2. Xor(s, x % s, ix) % Power[k] = Xor(s, y % s, iy) % Power[k]
    BY <1>8
  <2> QED BY <1>1, <1>3, <1>5, <1>9, <2>1, <2>2, XorAgrees DEF low
<1>11. (xs % s) % low = (ys % s) % low
  <2>1. Xor(s, xs % s, ir) % Power[k] = Xor(s, ys % s, ir) % Power[k]
    BY <1>8, <1>10 DEF low
  <2> QED BY <1>1, <1>3, <1>6, <1>9, <2>1, XorAgrees DEF low
<1>12. xs = ys
  <2>1. xs % low = ys % low
    <3>1. (xs % s) % low = xs % low /\ (ys % s) % low = ys % low
      BY <1>1, <1>2, <1>5, LowPart
    <3> QED BY <1>11, <3>1
  <2>2. xs \div low = ys \div low
    <3> DEFINE p == low * s
    <3>1. p = s * low
      BY <1>1
    <3>2. x \div p = y \div p
      BY <1>4
    <3> HIDE DEF p
    <3>3. x \div p = xs \div low /\ y \div p = ys \div low
      <4>1. IsProduct(p, s, low)
        BY <3>1 DEF IsProduct
      <4> QED BY <1>1, <4>1, QuotientTwice DEF xs, ys
    <3> QED BY <3>2, <3>3
  <2>3. xs = (low * (xs \div low)) + (xs % low) /\ ys = (low * (ys \div low)) + (ys % low)
    BY <1>1, <1>5, Division
  <2> QED BY <2>1, <2>2, <2>3
<1>13. x % s = y % s
  <2> DEFINE a == x % s
             b == y % s
  <2>1. a \in 0 .. s - 1 /\ b \in 0 .. s - 1 /\ Xor(s, a, ix) = Xor(s, b, ix)
    BY <1>5, <1>8, <1>12 DEF ix, iy
  <2> HIDE DEF a, b
  <2>2. a = b <=> ix = ix
    BY <1>1, <1>3, <1>9, <2>1, XorInjective
  <2> QED BY <2>2 DEF a, b
<1>14. x = (s * xs) + (x % s) /\ y = (s * ys) + (y % s)
  BY <1>1, Division DEF xs, ys
<1> QED BY <1>4, <1>12, <1>13, <1>14

\* And wherever the bits start.
LEMMA Spreads ==
  ASSUME NEW w \in Nat, w # 0
  PROVE  \A k \in Nat : \A x, y \in Nat :
           Apart(Power[w], Power[k], x, y) => XorIndex(Power[w], x) # XorIndex(Power[w], y)
<1> DEFINE s == Power[w]
           Bad == {k \in Nat : \E x, y \in Nat : Apart(s, Power[k], x, y) /\ XorIndex(s, x) = XorIndex(s, y)}
<1> SUFFICES ASSUME Bad # {} PROVE FALSE
  OBVIOUS
<1>1. PICK k \in Bad : \A m \in Bad : k <= m
  <2>1. Bad \in SUBSET Nat
    OBVIOUS
  <2> HIDE DEF Bad
  <2> QED BY <2>1, LeastOfNaturals
<1>2. PICK x \in Nat, y \in Nat : Apart(s, Power[k], x, y) /\ XorIndex(s, x) = XorIndex(s, y)
  OBVIOUS
<1>3. k >= w
  BY <1>2, SpreadsLow
<1> DEFINE low == Power[k - w]
           xs == x \div s
           ys == y \div s
<1>4. k - w \in Nat /\ w + (k - w) = k /\ k - w < k
  BY <1>3
<1>5. Power[k] = s * low /\ s \in Nat \ {0} /\ low \in Nat \ {0}
  <2>1. Power[w + (k - w)] = s * low
    BY <1>4, PowerAdds
  <2> QED BY <1>4, <2>1, PowerPositive
<1>6. s # 1 /\ IsPowerOfTwo(s)
  BY PowerIsPower
<1>7. xs \in Nat /\ ys \in Nat /\ x % s \in 0 .. s - 1 /\ y % s \in 0 .. s - 1
      /\ x = (s * xs) + (x % s) /\ y = (s * ys) + (y % s)
  <2> HIDE DEF s
  <2> QED BY <1>5, Division
<1>8. x # y /\ x % (s * low) = y % (s * low) /\ x \div ((s * low) * s) = y \div ((s * low) * s)
  BY <1>2, <1>5 DEF Apart
<1> HIDE DEF s, low, Bad
<1>9. /\ x % (s * low) = (s * (xs % low)) + (x % s)
      /\ y % (s * low) = (s * (ys % low)) + (y % s)
  BY <1>5, DivisionByProduct
<1>10. xs % low = ys % low /\ x % s = y % s
  <2> DEFINE a == xs % low
             b == ys % low
  <2>1. a \in Nat /\ b \in Nat
    <3> HIDE DEF xs, ys
    <3> QED BY <1>5, <1>7, Division
  <2> HIDE DEF a, b, xs, ys
  <2>2. ((s * a) + (x % s)) \div s = a /\ ((s * a) + (x % s)) % s = x % s
    BY <1>5, <1>7, <2>1, DivisionUnique
  <2>3. ((s * b) + (y % s)) \div s = b /\ ((s * b) + (y % s)) % s = y % s
    BY <1>5, <1>7, <2>1, DivisionUnique
  <2>4. (s * a) + (x % s) = (s * b) + (y % s)
    BY <1>8, <1>9 DEF a, b
  <2>5. a = b /\ x % s = y % s
    BY <2>2, <2>3, <2>4
  <2> QED BY <2>5 DEF a, b
<1>11. xs \div (low * s) = ys \div (low * s)
  <2> DEFINE e == low * s
             p == (s * low) * s
  <2>1. e \in Nat \ {0}
    BY <1>5, DivisionByProduct
  <2>2. p = s * e
    BY <1>5
  <2>3. x \div p = y \div p
    BY <1>8
  <2> HIDE DEF e, p
  <2>4. x \div p = xs \div e /\ y \div p = ys \div e
    <3>1. IsProduct(p, s, e)
      BY <2>2 DEF IsProduct
    <3> QED BY <1>5, <2>1, <3>1, QuotientTwice DEF xs, ys
  <2> QED BY <2>3, <2>4 DEF e
<1> HIDE DEF xs, ys
<1>12. Apart(s, low, xs, ys)
  BY <1>7, <1>8, <1>10, <1>11 DEF Apart
<1>13. XorIndex(s, xs) # XorIndex(s, ys)
  <2>1. k - w \notin Bad
    BY <1>1, <1>4 DEF Bad
  <2> QED BY <1>4, <1>7, <1>12, <2>1 DEF Bad, low
<1>14. XorIndex(s, x) = Xor(s, x % s, XorIndex(s, xs)) /\ XorIndex(s, y) = Xor(s, y % s, XorIndex(s, ys))
  BY <1>5, <1>6, XorIndexUnfolds DEF xs, ys
<1>15. XorIndex(s, xs) \in 0 .. s - 1 /\ XorIndex(s, ys) \in 0 .. s - 1
  BY <1>5, <1>6, <1>7, XorIndexInRange
<1> DEFINE r == x % s
           a == XorIndex(s, xs)
           b == XorIndex(s, ys)
<1>16. r \in 0 .. s - 1 /\ a \in 0 .. s - 1 /\ b \in 0 .. s - 1 /\ a # b /\ Xor(s, r, a) = Xor(s, r, b)
  BY <1>2, <1>7, <1>10, <1>13, <1>14, <1>15
<1> HIDE DEF r, a, b
<1>17. r = r <=> a = b
  BY <1>5, <1>6, <1>16, XorInjective
<1> QED BY <1>16, <1>17

-----------------------------------------------------------------------------
(* No cache is better.                                                     *)

\* The blocks of X that go to set s.
Class(X, cls, s) == {x \in X : cls[x] = s}

\* The blocks of X referenced again by the time u gives for their set.
Near(X, up, cls, u) == {x \in X : up[x] <= u[cls[x]]}

\* However far one looks ahead in each set, a cache that holds C after mc misses has
\* no more of the blocks referenced by then than one that holds H after m misses,
\* unless it paid for them.
NoWorse(H, m, C, mc, up, cls) ==
  \A u \in [Nat -> Nat] :
    Cardinality(Near(C, up, cls, u)) + m <= Cardinality(Near(H, up, cls, u)) + mc

\* The near blocks of other sets than that of b, and those of its set but b.
Others(X, b, up, cls, u) == {x \in X : cls[x] # cls[b] /\ up[x] <= u[cls[x]]}
Mates(X, b, up, cls, u) == {x \in X : x # b /\ cls[x] = cls[b] /\ up[x] <= u[cls[b]]}

One(p) == IF p THEN 1 ELSE 0

\* The near blocks are those of other sets, those of the set of b, and b itself.
LEMMA NearParts ==
  ASSUME NEW X, IsFiniteSet(X), NEW b, NEW up, NEW cls, NEW u
  PROVE  /\ Cardinality(Others(X, b, up, cls, u)) \in Nat
         /\ Cardinality(Mates(X, b, up, cls, u)) \in Nat
         /\ Cardinality(Near(X, up, cls, u)) =
              Cardinality(Others(X, b, up, cls, u)) + Cardinality(Mates(X, b, up, cls, u))
              + One(b \in X /\ up[b] <= u[cls[b]])
<1> DEFINE others == Others(X, b, up, cls, u)
           mates == Mates(X, b, up, cls, u)
           both == others \cup mates
<1>1. IsFiniteSet(others) /\ IsFiniteSet(mates)
  BY FS_Subset DEF Others, Mates
<1>2. others \cap mates = {} /\ b \notin both
  BY DEF Others, Mates
<1>3. Near(X, up, cls, u) = both \cup (IF b \in X /\ up[b] <= u[cls[b]] THEN {b} ELSE {})
  BY DEF Near, Others, Mates
<1> HIDE DEF others, mates
<1>4. IsFiniteSet(both) /\ Cardinality(both) = Cardinality(others) + Cardinality(mates)
  <2>1. Cardinality(others \cap mates) = 0 /\ Cardinality(others) \in Nat /\ Cardinality(mates) \in Nat
    BY <1>1, <1>2, FS_EmptySet, FS_CardinalityType
  <2>2. /\ IsFiniteSet(both)
        /\ Cardinality(both) = Cardinality(others) + Cardinality(mates) - Cardinality(others \cap mates)
    BY <1>1, FS_Union
  <2> HIDE DEF both
  <2> QED BY <2>1, <2>2
<1>5. Cardinality(others) \in Nat /\ Cardinality(mates) \in Nat
  BY <1>1, FS_CardinalityType
<1>6. Cardinality(both \cup {b}) = Cardinality(both) + 1
  BY <1>2, <1>4, FS_AddElement
<1>7. Cardinality(Near(X, up, cls, u)) = Cardinality(both) + One(b \in X /\ up[b] <= u[cls[b]])
  <2>1. CASE b \in X /\ up[b] <= u[cls[b]]
    BY <1>3, <1>6, <2>1 DEF One
  <2>2. CASE ~(b \in X /\ up[b] <= u[cls[b]])
    <3>1. Near(X, up, cls, u) = both
      BY <1>3, <2>2
    <3> QED BY <1>4, <1>5, <2>2, <3>1 DEF One
  <2> QED BY <2>1, <2>2
<1> QED BY <1>4, <1>5, <1>7 DEF others, mates

\* A reference to b leaves C2 of C, which has room for b or gives up some block for
\* it, and H2 of H, which has room for b, or gives up the block of its set that is
\* referenced last.
Takes(C, C2, mc, mc2, b) ==
  /\ b \in C2 /\ C2 \ {b} \subseteq C
  /\ mc2 = mc + One(b \notin C)

GivesUpLast(H, H2, b, up, cls, ways) ==
  \E v \in H :
    /\ b \notin H /\ cls[v] = cls[b] /\ H2 = (H \ {v}) \cup {b}
    /\ \A x \in Class(H, cls, cls[b]) : up[x] <= up[v]
    /\ Cardinality(Class(H2, cls, cls[b])) = ways

\* The exchange argument: whoever gives up the block referenced last is no worse than
\* whoever gives up another.
LEMMA StaysNoWorse ==
  ASSUME NEW H \in SUBSET Blocks, NEW C \in SUBSET Blocks, NEW H2 \in SUBSET Blocks, NEW C2 \in SUBSET Blocks,
         IsFiniteSet(H), IsFiniteSet(C), IsFiniteSet(H2), IsFiniteSet(C2),
         NEW cls \in [Blocks -> Nat], NEW up \in [Blocks -> Nat], NEW up2 \in [Blocks -> Nat],
         NEW b \in Blocks, \A x \in Blocks \ {b} : up[x] > up[b] /\ up2[x] = up[x],
         NEW m \in Nat, NEW mc \in Nat, NEW m2 \in Nat, NEW mc2 \in Nat, NEW ways \in Nat,
         NoWorse(H, m, C, mc, up, cls),
         Takes(C, C2, mc, mc2, b), Cardinality(Class(C2, cls, cls[b])) <= ways,
         Takes(H, H2, m, m2, b), H \subseteq H2 \/ GivesUpLast(H, H2, b, up, cls, ways)
  PROVE  NoWorse(H2, m2, C2, mc2, up2, cls)
<1> SUFFICES ASSUME NEW u \in [Nat -> Nat]
             PROVE  Cardinality(Near(C2, up2, cls, u)) + m2 <= Cardinality(Near(H2, up2, cls, u)) + mc2
  BY DEF NoWorse
<1> DEFINE others(X) == Others(X, b, up, cls, u)
           mates(X) == Mates(X, b, up, cls, u)
           t == u[cls[b]]
           now == [u EXCEPT ![cls[b]] = up[b]]
<1>1. \A X \in {H, C, H2, C2} : Cardinality(others(X)) \in Nat /\ Cardinality(mates(X)) \in Nat
  BY NearParts
<1>2. \A X \in {H, C} : Cardinality(Near(X, up, cls, u)) =
                          Cardinality(others(X)) + Cardinality(mates(X)) + One(b \in X /\ up[b] <= t)
  BY NearParts
<1>3. \A X \in {H, C} : Cardinality(Near(X, up, cls, now)) = Cardinality(others(X)) + One(b \in X)
  <2> SUFFICES ASSUME NEW X \in {H, C}
               PROVE  Cardinality(Near(X, up, cls, now)) = Cardinality(others(X)) + One(b \in X)
    OBVIOUS
  <2> HIDE DEF now, others
  <2>1. /\ now \in [Nat -> Nat] /\ now[cls[b]] = up[b]
        /\ Others(X, b, up, cls, now) = others(X) /\ Mates(X, b, up, cls, now) = {}
    <3>1. now \in [Nat -> Nat] /\ now[cls[b]] = up[b] /\ \A s \in Nat \ {cls[b]} : now[s] = u[s]
      BY DEF now
    <3>2. ASSUME NEW x \in X
          PROVE  (cls[x] # cls[b] => now[cls[x]] = u[cls[x]]) /\ (x # b => ~(up[x] <= now[cls[b]]))
      <4>1. x \in Blocks /\ cls[x] \in Nat /\ up[x] \in Nat /\ up[b] \in Nat /\ (x # b => up[x] > up[b])
        OBVIOUS
      <4> QED BY <3>1, <4>1
    <3>3. Others(X, b, up, cls, now) = others(X)
      <4>1. ASSUME NEW x \in X
            PROVE  (cls[x] # cls[b] /\ up[x] <= now[cls[x]]) <=> (cls[x] # cls[b] /\ up[x] <= u[cls[x]])
        <5>1. cls[x] # cls[b] => now[cls[x]] = u[cls[x]]
          BY <3>2
        <5> QED BY ONLY <5>1
      <4>2. Others(X, b, up, cls, now) = Others(X, b, up, cls, u)
        BY ONLY <4>1 DEF Others
      <4> QED BY <4>2 DEF others
    <3>4. Mates(X, b, up, cls, now) = {}
      BY <3>2 DEF Mates
    <3> QED BY <3>1, <3>3, <3>4
  <2>2. Cardinality(Near(X, up, cls, now)) =
          Cardinality(Others(X, b, up, cls, now)) + Cardinality(Mates(X, b, up, cls, now))
          + One(b \in X /\ up[b] <= now[cls[b]])
    BY NearParts
  <2>3. One(b \in X /\ up[b] <= now[cls[b]]) = One(b \in X)
    BY <2>1
  <2>4. Cardinality(others(X)) \in Nat /\ One(b \in X) \in Nat
    BY <1>1 DEF One
  <2> QED BY <2>1, <2>2, <2>3, <2>4, FS_EmptySet
<1>4. \A X \in {H2, C2} : Cardinality(Near(X, up2, cls, u)) =
                            Cardinality(others(X)) + Cardinality(mates(X)) + One(up2[b] <= t)
  <2> SUFFICES ASSUME NEW X \in {H2, C2}
               PROVE  Cardinality(Near(X, up2, cls, u)) =
                        Cardinality(others(X)) + Cardinality(mates(X)) + One(up2[b] <= t)
    OBVIOUS
  <2>1. Others(X, b, up2, cls, u) = others(X) /\ Mates(X, b, up2, cls, u) = mates(X)
    BY DEF Others, Mates
  <2>2. One(b \in X /\ up2[b] <= t) = One(up2[b] <= t)
    BY DEF Takes
  <2> QED BY <2>1, <2>2, NearParts
<1>5. Cardinality(others(C)) + One(b \in C) + m <= Cardinality(others(H)) + One(b \in H) + mc
  <2>1. now \in [Nat -> Nat]
    OBVIOUS
  <2> QED BY <1>3, <2>1 DEF NoWorse
<1>6. Cardinality(others(C)) + Cardinality(mates(C)) + One(b \in C) + m
        <= Cardinality(others(H)) + Cardinality(mates(H)) + One(b \in H) + mc
  <2>1. CASE up[b] <= t
    BY <1>2, <2>1 DEF NoWorse
  <2>2. CASE ~(up[b] <= t)
    <3>1. mates(C) = {} /\ mates(H) = {}
      BY <2>2 DEF Mates
    <3>2. Cardinality(mates(C)) = 0 /\ Cardinality(mates(H)) = 0
      BY <3>1, FS_EmptySet
    <3> QED BY <1>1, <1>5, <3>2 DEF One
  <2> QED BY <2>1, <2>2
<1>7. Cardinality(others(C2)) <= Cardinality(others(C)) /\ Cardinality(mates(C2)) <= Cardinality(mates(C))
  <2>1. others(C2) \in SUBSET others(C) /\ mates(C2) \in SUBSET mates(C)
    BY DEF Takes, Others, Mates
  <2>2. IsFiniteSet(others(C)) /\ IsFiniteSet(mates(C))
    BY FS_Subset DEF Others, Mates
  <2> QED BY <2>1, <2>2, FS_Subset
<1>8. others(H2) = others(H)
  BY DEF Takes, GivesUpLast, Others
<1>9. mc2 = mc + 1 - One(b \in C) /\ m2 = m + 1 - One(b \in H) /\ One(b \in C) \in {0, 1} /\ One(b \in H) \in {0, 1}
  BY DEF Takes, One
<1>10. One(up2[b] <= t) \in Nat
  BY DEF One
<1> DEFINE nOthersC == Cardinality(others(C))
           nOthersC2 == Cardinality(others(C2))
           nOthersH == Cardinality(others(H))
           nMatesC == Cardinality(mates(C))
           nMatesC2 == Cardinality(mates(C2))
           nMatesH == Cardinality(mates(H))
           nMatesH2 == Cardinality(mates(H2))
<1>11. CASE mates(H2) = mates(H)
  <2>1. nMatesH2 = nMatesH /\ Cardinality(others(H2)) = nOthersH
    BY <1>8, <1>11
  <2>2. /\ nOthersC \in Nat /\ nOthersC2 \in Nat /\ nOthersH \in Nat /\ nMatesC \in Nat /\ nMatesC2 \in Nat
        /\ nMatesH \in Nat /\ nOthersC2 <= nOthersC /\ nMatesC2 <= nMatesC
        /\ nOthersC + nMatesC + One(b \in C) + m <= nOthersH + nMatesH + One(b \in H) + mc
    BY <1>1, <1>6, <1>7
  <2>3. /\ Cardinality(Near(C2, up2, cls, u)) = nOthersC2 + nMatesC2 + One(up2[b] <= t)
        /\ Cardinality(Near(H2, up2, cls, u)) = nOthersH + nMatesH + One(up2[b] <= t)
    BY <1>4, <2>1
  <2> HIDE DEF nOthersC, nOthersC2, nOthersH, nMatesC, nMatesC2, nMatesH, nMatesH2
  <2>4. nOthersC2 + nMatesC2 + m2 <= nOthersH + nMatesH + mc2
    BY <1>9, <2>2
  <2> QED BY <1>10, <2>2, <2>3, <2>4
<1>12. CASE mates(H2) # mates(H)
  <2>1. PICK v \in H : /\ b \notin H /\ cls[v] = cls[b] /\ H2 = (H \ {v}) \cup {b}
                       /\ \A x \in Class(H, cls, cls[b]) : up[x] <= up[v]
                       /\ Cardinality(Class(H2, cls, cls[b])) = ways
    <3>1. ~(H \subseteq H2)
      BY <1>12 DEF Takes, Mates
    <3> QED BY <3>1 DEF GivesUpLast
  <2>2. up[v] <= t
    BY <1>12, <2>1 DEF Mates
  <2>3. mates(H2) = Class(H2, cls, cls[b]) \ {b} /\ b \in Class(H2, cls, cls[b])
    BY <2>1, <2>2 DEF Mates, Class
  <2>4. nMatesH2 = ways - 1
    <3>1. IsFiniteSet(Class(H2, cls, cls[b]))
      BY FS_Subset DEF Class
    <3>2. Cardinality(Class(H2, cls, cls[b]) \ {b}) = Cardinality(Class(H2, cls, cls[b])) - 1
      BY <2>3, <3>1, FS_RemoveElement
    <3> QED BY <2>1, <2>3, <3>2
  <2>5. nMatesC2 <= ways - 1
    <3> DEFINE own == Class(C2, cls, cls[b])
    <3>1. IsFiniteSet(own) /\ b \in own /\ mates(C2) \in SUBSET (own \ {b})
      BY FS_Subset DEF Class, Mates, Takes
    <3> HIDE DEF own
    <3>2. IsFiniteSet(own \ {b}) /\ Cardinality(own \ {b}) = Cardinality(own) - 1
      BY <3>1, FS_RemoveElement
    <3>3. nMatesC2 <= Cardinality(own \ {b})
      BY <3>1, <3>2, FS_Subset
    <3>4. Cardinality(own) \in Nat /\ Cardinality(own) <= ways
      BY <3>1, FS_CardinalityType DEF own
    <3> QED BY <1>1, <3>2, <3>3, <3>4
  <2>6. /\ nOthersC \in Nat /\ nOthersC2 \in Nat /\ nOthersH \in Nat /\ nMatesC2 \in Nat
        /\ nOthersC2 <= nOthersC
        /\ nOthersC + One(b \in C) + m <= nOthersH + One(b \in H) + mc
    BY <1>1, <1>5, <1>7
  <2>7. /\ Cardinality(Near(C2, up2, cls, u)) = nOthersC2 + nMatesC2 + One(up2[b] <= t)
        /\ Cardinality(Near(H2, up2, cls, u)) = nOthersH + nMatesH2 + One(up2[b] <= t)
    BY <1>4, <1>8
  <2> HIDE DEF nOthersC, nOthersC2, nOthersH, nMatesC, nMatesC2, nMatesH, nMatesH2
  <2>8. nOthersC2 + nMatesC2 + m2 <= nOthersH + nMatesH2 + mc2
    BY <1>9, <2>4, <2>5, <2>6
  <2>9. nMatesH2 \in Int
    BY <2>4
  <2> QED BY <1>10, <2>6, <2>7, <2>8, <2>9
<1> QED BY <1>11, <1>12

-----------------------------------------------------------------------------
(* The next reference to a block.                                          *)

\* Where block b is referenced from n on, or Never.
NextAt(s, n, b) ==
  LET later == {m \in n .. Len(s) : s[m] = b}
  IN IF later = {} THEN Never(s) ELSE CHOOSE m \in later : \A k \in later : m <= k

IsNextAt(x, s, n, b) ==
  /\ x \in n .. Len(s) + 1
  /\ x <= Len(s) => s[x] = b
  /\ \A m \in n .. Len(s) : s[m] = b => x <= m

\* NextAt is the first reference from n on.
LEMMA NextAtIs ==
  ASSUME NEW s \in Seq(Blocks), NEW n \in 1 .. Len(s) + 1, NEW b
  PROVE  IsNextAt(NextAt(s, n, b), s, n, b)
<1> DEFINE later == {m \in n .. Len(s) : s[m] = b}
<1>1. CASE later = {}
  BY <1>1 DEF NextAt, Never, IsNextAt
<1>2. CASE later # {}
  <2>0. later \in SUBSET Nat
    OBVIOUS
  <2>1. \E x \in later : \A y \in later : x <= y
    <3> HIDE DEF later
    <3> QED BY <1>2, <2>0, LeastOfNaturals
  <2> DEFINE use == CHOOSE m \in later : \A k \in later : m <= k
  <2>2. use \in later /\ \A y \in later : use <= y
    BY <2>1
  <2>3. NextAt(s, n, b) = use
    BY <1>2 DEF NextAt
  <2> HIDE DEF use
  <2> QED BY <2>2, <2>3 DEF IsNextAt
<1> QED BY <1>1, <1>2

\* Nothing else is.
LEMMA NextAtOnly ==
  ASSUME NEW s \in Seq(Blocks), NEW n \in 1 .. Len(s) + 1, NEW b, NEW x, IsNextAt(x, s, n, b)
  PROVE  x = NextAt(s, n, b)
<1>1. IsNextAt(NextAt(s, n, b), s, n, b)
  BY NextAtIs
<1>2. NextAt(s, n, b) \in Nat /\ x \in Nat /\ Len(s) \in Nat
  BY <1>1 DEF IsNextAt
<1> QED BY <1>1, <1>2 DEF IsNextAt

\* What next_use_indices stores is the next reference after this one, and this one
\* changes that of no other block.
LEMMA NextAtStep ==
  ASSUME NEW s \in Seq(Blocks), NEW n \in 1 .. Len(s)
  PROVE  /\ NextAt(s, n, s[n]) = n
         /\ NextUse(s, n) = NextAt(s, n + 1, s[n])
         /\ \A b \in Blocks \ {s[n]} : NextAt(s, n + 1, b) = NextAt(s, n, b) /\ NextAt(s, n, b) > n
<1>1. NextAt(s, n, s[n]) = n
  <2>1. IsNextAt(n, s, n, s[n])
    BY DEF IsNextAt
  <2> QED BY <2>1, NextAtOnly
<1>2. NextUse(s, n) = NextAt(s, n + 1, s[n])
  BY DEF NextUse, NextAt
<1>3. ASSUME NEW b \in Blocks \ {s[n]} PROVE NextAt(s, n + 1, b) = NextAt(s, n, b) /\ NextAt(s, n, b) > n
  <2>1. IsNextAt(NextAt(s, n + 1, b), s, n + 1, b)
    BY NextAtIs
  <2>2. IsNextAt(NextAt(s, n + 1, b), s, n, b)
    BY <1>3, <2>1 DEF IsNextAt
  <2>3. NextAt(s, n + 1, b) = NextAt(s, n, b)
    BY <2>2, NextAtOnly
  <2> QED BY <2>1, <2>3 DEF IsNextAt
<1> QED BY <1>1, <1>2, <1>3

Upcoming(s, n) == [b \in Blocks |-> NextAt(s, n, b)]

\* A reference to b changes when b comes next, and nothing comes before it.
Advances(up, up2, b) ==
  /\ up \in [Blocks -> Nat] /\ up2 \in [Blocks -> Nat]
  /\ \A x \in Blocks \ {b} : up[x] > up[b] /\ up2[x] = up[x]

\* A reference moves its own block back, and nothing is before it.
LEMMA UpcomingAdvances ==
  ASSUME NEW s \in Seq(Blocks), NEW n \in 1 .. Len(s)
  PROVE  Advances(Upcoming(s, n), Upcoming(s, n + 1), s[n]) /\ \A b \in Blocks : Upcoming(s, n)[b] > 0
<1>1. ASSUME NEW k \in 1 .. Len(s) + 1, NEW b \in Blocks PROVE NextAt(s, k, b) \in Nat /\ NextAt(s, k, b) > 0
  BY NextAtIs DEF IsNextAt
<1>2. n \in 1 .. Len(s) + 1 /\ n + 1 \in 1 .. Len(s) + 1 /\ s[n] \in Blocks
  OBVIOUS
<1> QED BY <1>1, <1>2, NextAtStep DEF Upcoming, Advances

-----------------------------------------------------------------------------
(* The best of all replacements.                                           *)

\* The caches found are sets of blocks, no more than `ways' of them of one set.
Found(found, cls, ways) ==
  \A f \in found :
    /\ f = [held |-> f.held, misses |-> f.misses]
    /\ f.held \in SUBSET Blocks /\ IsFiniteSet(f.held) /\ f.misses \in Nat
    /\ \A s \in Nat : Cardinality(Class(f.held, cls, s)) <= ways

\* A cache that holds H after m misses is one of them, and none is better.
Leads(H, m, found, up, cls) ==
  /\ [held |-> H, misses |-> m] \in found
  /\ \A f \in found : NoWorse(H, m, f.held, f.misses, up, cls)

\* What a reference to b makes of H.
Serves(H, H2, m, m2, b, up, cls, ways) ==
  /\ m2 = m + One(b \notin H)
  /\ \/ b \in H /\ H2 = H
     \/ b \notin H /\ H2 = H \cup {b} /\ Cardinality(Class(H, cls, cls[b])) < ways
     \/ /\ b \notin H /\ ~(Cardinality(Class(H, cls, cls[b])) < ways)
        /\ \E v \in Class(H, cls, cls[b]) :
             H2 = (H \ {v}) \cup {b} /\ \A x \in Class(H, cls, cls[b]) : up[x] <= up[v]

\* At first there is one cache, and it is empty.
LEMMA NothingLeads ==
  ASSUME NEW up \in [Blocks -> Nat], NEW cls \in [Blocks -> Nat], NEW ways \in Nat
  PROVE  Found(NothingHeld, cls, ways) /\ Leads({}, 0, NothingHeld, up, cls)
<1>1. \A s \in Nat : Class({}, cls, s) = {}
  BY DEF Class
<1>2. \A u \in [Nat -> Nat] : Near({}, up, cls, u) = {}
  BY DEF Near
<1>3. Found(NothingHeld, cls, ways)
  BY <1>1, FS_EmptySet DEF NothingHeld, Found
<1>4. NoWorse({}, 0, {}, 0, up, cls)
  <2>1. \A u \in [Nat -> Nat] : Cardinality(Near({}, up, cls, u)) = 0
    BY <1>2, FS_EmptySet
  <2> QED BY <2>1 DEF NoWorse
<1> QED BY <1>3, <1>4 DEF NothingHeld, Leads

\* A cache found after a reference to b comes from one found before it.
LEMMA ReplacedFrom ==
  ASSUME NEW found, NEW cls \in [Blocks -> Nat], NEW ways \in Nat \ {0}, Found(found, cls, ways),
         NEW b \in Blocks, NEW rivals, rivals = {x \in Blocks : cls[x] = cls[b]},
         NEW g \in Replacements(found, b, rivals, ways)
  PROVE  /\ \E f \in found : Takes(f.held, g.held, f.misses, g.misses, b)
         /\ Found({g}, cls, ways)
<1>1. PICK f \in found : g \in Replaced(f, b, rivals, ways)
  BY DEF Replacements
<1>2. /\ f = [held |-> f.held, misses |-> f.misses]
      /\ f.held \in SUBSET Blocks /\ IsFiniteSet(f.held) /\ f.misses \in Nat
      /\ \A s \in Nat : Cardinality(Class(f.held, cls, s)) <= ways
  BY DEF Found
<1> DEFINE mates == Class(f.held, cls, cls[b])
<1>3. f.held \cap rivals = mates /\ IsFiniteSet(mates)
  BY <1>2, FS_Subset DEF Class
<1> HIDE DEF mates
<1>4. CASE b \in f.held
  <2>1. g = f
    BY <1>1, <1>4 DEF Replaced
  <2> QED BY <1>2, <1>4, <2>1 DEF Takes, Found, One
<1>5. ASSUME b \notin f.held, NEW kept, kept \subseteq f.held, g = [held |-> kept \cup {b}, misses |-> f.misses + 1],
             Cardinality(Class(kept, cls, cls[b])) < ways
      PROVE  /\ Takes(f.held, g.held, f.misses, g.misses, b)
             /\ Found({g}, cls, ways)
  <2>1. g.held = kept \cup {b} /\ g.misses = f.misses + 1 /\ g = [held |-> g.held, misses |-> g.misses]
    BY <1>5
  <2>2. kept \in SUBSET f.held /\ IsFiniteSet(kept) /\ IsFiniteSet(g.held)
    BY <1>2, <1>5, <2>1, FS_Subset, FS_AddElement
  <2>3. ASSUME NEW s \in Nat PROVE Cardinality(Class(g.held, cls, s)) <= ways
    <3>1. IsFiniteSet(Class(kept, cls, s)) /\ IsFiniteSet(Class(f.held, cls, s))
      BY <1>2, <2>2, FS_Subset DEF Class
    <3>2. CASE s = cls[b]
      <4>1. Class(g.held, cls, s) = Class(kept, cls, s) \cup {b}
        BY <2>1, <3>2 DEF Class
      <4>2. b \notin Class(kept, cls, s)
        BY <1>5 DEF Class
      <4>3. Cardinality(Class(g.held, cls, s)) = Cardinality(Class(kept, cls, s)) + 1
        BY <3>1, <4>1, <4>2, FS_AddElement
      <4>4. Cardinality(Class(kept, cls, s)) \in Nat
        BY <3>1, FS_CardinalityType
      <4> QED BY <1>5, <3>2, <4>3, <4>4
    <3>3. CASE s # cls[b]
      <4>1. Class(g.held, cls, s) \in SUBSET Class(f.held, cls, s)
        BY <2>1, <2>2, <3>3 DEF Class
      <4>2. Cardinality(Class(g.held, cls, s)) <= Cardinality(Class(f.held, cls, s))
        BY <3>1, <4>1, FS_Subset
      <4>3. /\ Cardinality(Class(g.held, cls, s)) \in Nat /\ Cardinality(Class(f.held, cls, s)) \in Nat
            /\ Cardinality(Class(f.held, cls, s)) <= ways
        BY <1>2, <3>1, <4>1, FS_Subset, FS_CardinalityType
      <4> QED BY <4>2, <4>3
    <3> QED BY <3>2, <3>3
  <2>4. Takes(f.held, g.held, f.misses, g.misses, b)
    BY <1>5, <2>1, <2>2 DEF Takes, One
  <2>5. g.held \in SUBSET Blocks /\ g.misses \in Nat
    BY <1>2, <2>1, <2>2
  <2>6. Found({g}, cls, ways)
    <3> SUFFICES ASSUME NEW x \in {g}
                 PROVE  /\ x = [held |-> x.held, misses |-> x.misses]
                        /\ x.held \in SUBSET Blocks /\ IsFiniteSet(x.held) /\ x.misses \in Nat
                        /\ \A s \in Nat : Cardinality(Class(x.held, cls, s)) <= ways
      BY DEF Found
    <3>1. x = g
      OBVIOUS
    <3> QED BY <2>1, <2>2, <2>3, <2>5, <3>1
  <2> QED BY <2>4, <2>6
<1>6. CASE b \notin f.held /\ Cardinality(mates) < ways
  <2>1. g = [held |-> f.held \cup {b}, misses |-> f.misses + 1]
    BY <1>1, <1>3, <1>6 DEF Replaced
  <2> QED BY <1>5, <1>6, <2>1 DEF mates
<1>7. CASE b \notin f.held /\ ~(Cardinality(mates) < ways)
  <2>1. PICK v \in mates : g = [held |-> (f.held \ {v}) \cup {b}, misses |-> f.misses + 1]
    BY <1>1, <1>3, <1>7 DEF Replaced
  <2>2. Class(f.held \ {v}, cls, cls[b]) = mates \ {v}
    BY DEF mates, Class
  <2>3. Cardinality(mates) \in Nat /\ Cardinality(mates) <= ways /\ Cardinality(mates \ {v}) = Cardinality(mates) - 1
    <3>1. Cardinality(mates) <= ways
      BY <1>2 DEF mates
    <3> QED BY <1>3, <3>1, FS_CardinalityType, FS_RemoveElement
  <2> DEFINE kept == f.held \ {v}
  <2>4. Cardinality(Class(kept, cls, cls[b])) < ways /\ kept \subseteq f.held
    BY <2>2, <2>3
  <2>5. g = [held |-> kept \cup {b}, misses |-> f.misses + 1]
    BY <2>1
  <2> HIDE DEF kept
  <2> QED BY <1>5, <1>7, <2>4, <2>5
<1> QED BY <1>4, <1>6, <1>7

\* A cache that has no room for b gives up the block that is referenced last.
LEMMA ServesGivesUp ==
  ASSUME NEW H, NEW cls, NEW b, NEW ways \in Nat \ {0},
         IsFiniteSet(Class(H, cls, cls[b])), Cardinality(Class(H, cls, cls[b])) <= ways,
         NEW H2, NEW m, NEW m2, NEW up, Serves(H, H2, m, m2, b, up, cls, ways)
  PROVE  H \subseteq H2 \/ GivesUpLast(H, H2, b, up, cls, ways)
<1>1. CASE ~(H \subseteq H2)
  <2>1. /\ b \notin H /\ ~(Cardinality(Class(H, cls, cls[b])) < ways)
        /\ \E v \in Class(H, cls, cls[b]) :
             H2 = (H \ {v}) \cup {b} /\ \A x \in Class(H, cls, cls[b]) : up[x] <= up[v]
    BY <1>1 DEF Serves
  <2>2. PICK v \in Class(H, cls, cls[b]) :
             H2 = (H \ {v}) \cup {b} /\ \A x \in Class(H, cls, cls[b]) : up[x] <= up[v]
    BY <2>1
  <2> DEFINE mates == Class(H, cls, cls[b])
  <2>3. /\ Class(H2, cls, cls[b]) = (mates \ {v}) \cup {b} /\ b \notin mates \ {v}
        /\ v \in H /\ cls[v] = cls[b]
    BY <2>1, <2>2 DEF Class
  <2>4. ~(Cardinality(mates) < ways) /\ Cardinality(mates) <= ways /\ IsFiniteSet(mates) /\ v \in mates
    BY <2>1
  <2> HIDE DEF mates
  <2>5. Cardinality(mates) = ways
    BY <2>4, FS_CardinalityType
  <2>6. Cardinality((mates \ {v}) \cup {b}) = ways
    <3>1. IsFiniteSet(mates \ {v}) /\ Cardinality(mates \ {v}) = ways - 1
      BY <2>4, <2>5, FS_RemoveElement
    <3>2. Cardinality((mates \ {v}) \cup {b}) = (ways - 1) + 1
      BY <2>3, <3>1, FS_AddElement
    <3> QED BY <3>2
  <2> QED BY <2>1, <2>2, <2>3, <2>6 DEF GivesUpLast
<1> QED BY <1>1

\* Who gives up the block that is referenced last goes on leading.
LEMMA LeadStays ==
  ASSUME NEW found, NEW cls \in [Blocks -> Nat], NEW ways \in Nat \ {0}, Found(found, cls, ways),
         NEW up, NEW up2, NEW b \in Blocks, Advances(up, up2, b),
         NEW rivals, rivals = {x \in Blocks : cls[x] = cls[b]},
         NEW H, NEW m, Leads(H, m, found, up, cls),
         NEW H2, NEW m2, Serves(H, H2, m, m2, b, up, cls, ways)
  PROVE  LET next == Replacements(found, b, rivals, ways)
         IN Found(next, cls, ways) /\ Leads(H2, m2, next, up2, cls)
<1> DEFINE next == Replacements(found, b, rivals, ways)
           own == [held |-> H, misses |-> m]
           own2 == [held |-> H2, misses |-> m2]
<1>1. own \in found /\ own.held = H /\ own.misses = m
  BY DEF Leads
<1>2. /\ H \in SUBSET Blocks /\ IsFiniteSet(H) /\ m \in Nat
      /\ \A s \in Nat : Cardinality(Class(H, cls, s)) <= ways
  BY <1>1 DEF Found
<1>3. H \cap rivals = Class(H, cls, cls[b]) /\ IsFiniteSet(Class(H, cls, cls[b]))
  BY <1>2, FS_Subset DEF Class
<1>4. own2 \in next
  <2> DEFINE after == Replaced(own, b, rivals, ways)
  <2>1. after \subseteq next
    BY <1>1 DEF Replacements
  <2>2. own2 \in after
    <3>1. CASE b \in H
      BY <1>1, <1>2, <3>1 DEF Serves, One, Replaced
    <3>2. CASE b \notin H /\ Cardinality(Class(H, cls, cls[b])) < ways
      BY <1>1, <1>3, <3>2 DEF Serves, One, Replaced
    <3>3. CASE b \notin H /\ ~(Cardinality(Class(H, cls, cls[b])) < ways)
      BY <1>1, <1>3, <3>3 DEF Serves, One, Replaced
    <3> QED BY <3>1, <3>2, <3>3
  <2> QED BY <2>1, <2>2
<1>5. \A g \in next : (\E f \in found : Takes(f.held, g.held, f.misses, g.misses, b)) /\ Found({g}, cls, ways)
  BY ReplacedFrom
<1> HIDE DEF next
<1>6. Found(next, cls, ways)
  BY <1>5 DEF Found
<1>7. /\ H2 \in SUBSET Blocks /\ IsFiniteSet(H2) /\ m2 \in Nat
      /\ Cardinality(Class(H2, cls, cls[b])) <= ways
  BY <1>4, <1>6 DEF Found
<1>8. Takes(H, H2, m, m2, b)
  BY DEF Serves, Takes
<1>9. H \subseteq H2 \/ GivesUpLast(H, H2, b, up, cls, ways)
  <2>1. Cardinality(Class(H, cls, cls[b])) <= ways
    BY <1>2
  <2> QED BY <1>3, <2>1, ServesGivesUp
<1>10. ASSUME NEW g \in next PROVE NoWorse(H2, m2, g.held, g.misses, up2, cls)
  <2>1. PICK f \in found : Takes(f.held, g.held, f.misses, g.misses, b)
    BY <1>5
  <2>2. /\ f.held \in SUBSET Blocks /\ IsFiniteSet(f.held) /\ f.misses \in Nat
        /\ NoWorse(H, m, f.held, f.misses, up, cls)
    BY DEF Found, Leads
  <2>3. /\ g.held \in SUBSET Blocks /\ IsFiniteSet(g.held) /\ g.misses \in Nat
        /\ Cardinality(Class(g.held, cls, cls[b])) <= ways
    BY <1>6 DEF Found
  <2>4. /\ up \in [Blocks -> Nat] /\ up2 \in [Blocks -> Nat]
        /\ \A x \in Blocks \ {b} : up[x] > up[b] /\ up2[x] = up[x]
    BY DEF Advances
  <2> QED BY <1>2, <1>7, <1>8, <1>9, <2>1, <2>2, <2>3, <2>4, StaysNoWorse
<1> QED BY <1>4, <1>6, <1>10 DEF Leads, next

\* Who leads has had the fewest misses.
LEMMA LeaderHasFewest ==
  ASSUME NEW found, NEW cls \in [Blocks -> Nat], NEW ways, Found(found, cls, ways),
         NEW up \in [Blocks -> Nat], \A b \in Blocks : up[b] > 0,
         NEW H, NEW m, Leads(H, m, found, up, cls)
  PROVE  m = FewestMisses(found)
<1> DEFINE counts == {f.misses : f \in found}
           u == [n \in Nat |-> 0]
<1>1. ASSUME NEW f \in found PROVE m <= f.misses /\ f.misses \in Nat /\ m \in Nat
  <2>1. u \in [Nat -> Nat] /\ f.held \in SUBSET Blocks
    BY DEF Found
  <2>2. [held |-> H, misses |-> m] \in found /\ H \in SUBSET Blocks /\ m \in Nat
    BY DEF Found, Leads
  <2>3. \A X \in SUBSET Blocks : Near(X, up, cls, u) = {}
    BY DEF Near
  <2>4. Cardinality(Near(f.held, up, cls, u)) + m <= Cardinality(Near(H, up, cls, u)) + f.misses
    BY <2>1 DEF Leads, NoWorse
  <2> HIDE DEF u
  <2>5. 0 + m <= 0 + f.misses
    BY <2>1, <2>2, <2>3, <2>4, FS_EmptySet
  <2> QED BY <2>2, <2>5 DEF Found
<1>2. m \in counts
  <2>1. [held |-> H, misses |-> m] \in found
    BY DEF Leads
  <2> QED BY <2>1
<1>3. \A x \in counts : m <= x /\ x \in Nat
  BY <1>1
<1> HIDE DEF counts
<1>4. \A y \in counts : (\A x \in counts : y <= x) => y = m
  BY <1>2, <1>3
<1> DEFINE least == CHOOSE y \in counts : \A x \in counts : y <= x
<1>5. least \in counts /\ \A x \in counts : least <= x
  BY <1>2, <1>3
<1>6. FewestMisses(found) = least
  BY DEF FewestMisses, Sets!Min, counts
<1> QED BY <1>4, <1>5, <1>6

-----------------------------------------------------------------------------
(* The cache of run_opt.                                                   *)

IsCache(c) ==
  c = [g |-> c.g, ways |-> c.ways, order |-> c.order, drawn |-> c.drawn, opt |-> c.opt, buffer |-> c.buffer,
       shadow |-> c.shadow, seen |-> c.seen, n |-> c.n]

\* d differs from c in bookkeeping only, and in the counters `names', one higher.
Alike(c, d, missed) ==
  /\ IsCache(d) /\ d.g = c.g /\ d.ways = c.ways /\ d.opt = c.opt /\ d.buffer = c.buffer
  /\ d.n \in [Counters -> Nat] /\ d.n["misses"] = c.n["misses"] + One(missed)

\* Counting changes counters only.
LEMMA CountAlike ==
  ASSUME NEW c, IsCache(c), c.n \in [Counters -> Nat], NEW names
  PROVE  Alike(c, Count(c, names), "misses" \in names)
<1>1. "misses" \in Counters
  BY DEF Counters
<1> DEFINE n2 == [x \in Counters |-> IF x \in names THEN c.n[x] + 1 ELSE c.n[x]]
<1>2. n2 \in [Counters -> Nat] /\ n2["misses"] = c.n["misses"] + One("misses" \in names)
  BY <1>1 DEF One
<1> HIDE DEF n2
<1>3. Count(c, names) = [g |-> c.g, ways |-> c.ways, order |-> c.order, drawn |-> c.drawn, opt |-> c.opt,
                         buffer |-> c.buffer, shadow |-> c.shadow, seen |-> c.seen, n |-> n2]
  BY DEF Count, IsCache, n2
<1> QED BY <1>2, <1>3 DEF Alike, IsCache

\* Bookkeeping after bookkeeping is bookkeeping.
LEMMA AlikeTwice ==
  ASSUME NEW c, NEW d, NEW e, c.n["misses"] \in Nat, NEW p
  PROVE  /\ Alike(c, d, FALSE) /\ Alike(d, e, p) => Alike(c, e, p)
         /\ Alike(c, d, p) /\ Alike(d, e, FALSE) => Alike(c, e, p)
<1> DEFINE m == c.n["misses"]
<1>1. m \in Nat
  OBVIOUS
<1>2. ASSUME Alike(c, d, FALSE), Alike(d, e, p) PROVE Alike(c, e, p)
  <2>1. d.n["misses"] = m + 0 /\ e.n["misses"] = d.n["misses"] + One(p)
    BY <1>2 DEF Alike, One
  <2> HIDE DEF m
  <2>2. e.n["misses"] = m + One(p)
    BY <1>1, <2>1
  <2> QED BY <1>2, <2>2 DEF Alike, m
<1>3. ASSUME Alike(c, d, p), Alike(d, e, FALSE) PROVE Alike(c, e, p)
  <2>1. d.n["misses"] = m + One(p) /\ e.n["misses"] = d.n["misses"] + 0
    BY <1>3 DEF Alike, One
  <2> HIDE DEF m
  <2>2. e.n["misses"] = m + One(p)
    BY <1>1, <2>1 DEF One
  <2> QED BY <1>3, <2>2 DEF Alike, m
<1> QED BY <1>2, <1>3

\* The shadow cache and the classes of misses are bookkeeping.
LEMMA ShadowAlike ==
  ASSUME NEW c, IsCache(c), c.n \in [Counters -> Nat], NEW b
  PROVE  Alike(c, ShadowHit(c, b), FALSE) /\ Alike(c, ShadowMiss(c, b), FALSE)
<1>0. c.n["misses"] \in Nat
  BY DEF Counters
<1>1. Alike(c, c, FALSE)
  BY <1>0 DEF Alike, One
<1> DEFINE moved == [c EXCEPT !.seen = @ \cup {b}, !.shadow = Youngest(c, Append(Ext!Remove(@, b), b))]
           names == IF Shadowed(c, b) THEN {} ELSE {"shadowMisses"}
<1>2. IsCache(moved) /\ moved.n = c.n /\ Alike(c, moved, FALSE)
  <2> DEFINE younger == Youngest(c, Append(Ext!Remove(c.shadow, b), b))
  <2>1. moved = [g |-> c.g, ways |-> c.ways, order |-> c.order, drawn |-> c.drawn, opt |-> c.opt,
                 buffer |-> c.buffer, shadow |-> younger, seen |-> c.seen \cup {b}, n |-> c.n]
    <3> HIDE DEF younger
    <3>1. moved = [c EXCEPT !.seen = c.seen \cup {b}, !.shadow = younger]
      BY DEF younger
    <3> HIDE DEF moved
    <3> QED BY <3>1 DEF IsCache
  <2> HIDE DEF moved, younger
  <2> QED BY <1>0, <2>1 DEF IsCache, Alike, One
<1> HIDE DEF moved
<1>3. Alike(c, ReferenceShadow(c, b), FALSE)
  <2>1. ReferenceShadow(c, b) = Count(moved, names)
    BY DEF ReferenceShadow, moved
  <2>2. Alike(moved, Count(moved, names), "misses" \in names)
    BY <1>2, CountAlike
  <2>3. "misses" \notin names
    OBVIOUS
  <2>4. Alike(moved, Count(moved, names), FALSE)
    BY <2>2, <2>3 DEF Alike, One
  <2>5. Alike(c, Count(moved, names), FALSE)
    BY <1>0, <1>2, <2>4, AlikeTwice
  <2> QED BY <2>1, <2>5
<1>4. ASSUME NEW more, "misses" \notin more PROVE Alike(c, Count(ReferenceShadow(c, b), more), FALSE)
  <2> DEFINE d == ReferenceShadow(c, b)
  <2>1. IsCache(d) /\ d.n \in [Counters -> Nat]
    BY <1>3 DEF Alike
  <2> HIDE DEF d
  <2>2. Alike(d, Count(d, more), "misses" \in more)
    BY <2>1, CountAlike
  <2>3. Alike(d, Count(d, more), FALSE)
    BY <1>4, <2>2 DEF Alike, One
  <2>4. Alike(c, Count(d, more), FALSE)
    BY <1>0, <1>3, <2>3, AlikeTwice DEF d
  <2> QED BY <2>4 DEF d
<1>5. "misses" \notin (IF Shadowed(c, b) THEN {} ELSE {"antiConflictHits"}) /\ "misses" \notin {ClassOf(c, b)}
  BY DEF ClassOf
<1> QED BY <1>1, <1>4, <1>5 DEF ShadowHit, ShadowMiss

-----------------------------------------------------------------------------
(* A level with Belady's policy and no victim buffer.                      *)

OptLines == [block : Blocks \cup {EMPTY}, dirty : BOOLEAN, prefetched : BOOLEAN]

\* d is c with `line' in way w of set k.
FilledWith(c, d, k, w, line) ==
  /\ IsCache(d) /\ d.g = c.g /\ d.opt = c.opt /\ d.buffer = c.buffer
  /\ d.ways = [c.ways EXCEPT ![k][w] = line]
  /\ d.n \in [Counters -> Nat] /\ d.n["misses"] = c.n["misses"]

\* It has no order to keep and no draws to make.
LEMMA FillWayFills ==
  ASSUME NEW c, IsCache(c), c.n \in [Counters -> Nat], c.g.policy = "opt",
         NEW sets, NEW slots, c.ways \in [sets -> [slots -> OptLines]], NEW s \in sets, NEW w \in slots, NEW line
  PROVE  FilledWith(c, FillWay(c, s, w, line), s, w, line)
<1> DEFINE filled == [c EXCEPT !.ways[s][w] = line]
           ways2 == [c.ways EXCEPT ![s][w] = line]
<1>1. filled = [g |-> c.g, ways |-> ways2, order |-> c.order, drawn |-> c.drawn, opt |-> c.opt,
                buffer |-> c.buffer, shadow |-> c.shadow, seen |-> c.seen, n |-> c.n]
  <2>1. filled = [c EXCEPT !.ways = ways2]
    OBVIOUS
  <2> HIDE DEF filled, ways2
  <2> QED BY <2>1 DEF IsCache
<1> HIDE DEF filled, ways2
<1>2. IsCache(filled) /\ filled.n \in [Counters -> Nat] /\ filled.g = c.g
  BY <1>1 DEF IsCache
<1>3. FillWay(c, s, w, line) = Count(filled, {"fills"})
  <2> DEFINE d == Count(filled, {"fills"})
  <2>1. FillWay(c, s, w, line) = OnFill(d, s, w)
    BY DEF FillWay, filled
  <2>2. d.g = c.g
    BY <1>2, CountAlike DEF Alike
  <2> HIDE DEF d
  <2>3. d.g.policy \notin {"lru", "fifo", "mru"}
    BY <2>2
  <2>4. OnFill(d, s, w) = d
    BY <2>3 DEF OnFill
  <2> QED BY <2>1, <2>4 DEF d
<1>4. Alike(filled, Count(filled, {"fills"}), FALSE)
  <2>1. Alike(filled, Count(filled, {"fills"}), "misses" \in {"fills"})
    BY <1>2, CountAlike
  <2> QED BY <2>1 DEF Alike, One
<1>5. c.n["misses"] \in Nat
  BY DEF Counters
<1> DEFINE d == FillWay(c, s, w, line)
<1>6. /\ IsCache(d) /\ d.g = filled.g /\ d.ways = filled.ways /\ d.opt = filled.opt /\ d.buffer = filled.buffer
      /\ d.n \in [Counters -> Nat] /\ d.n["misses"] = filled.n["misses"] + 0
  BY <1>3, <1>4 DEF Alike, One
<1> HIDE DEF d
<1>7. filled.n = c.n /\ filled.ways = ways2 /\ filled.g = c.g /\ filled.opt = c.opt /\ filled.buffer = c.buffer
  BY <1>1
<1>8. d.n["misses"] = c.n["misses"]
  <2> DEFINE m == c.n["misses"]
  <2>1. filled.n["misses"] = m /\ m \in Nat
    BY <1>5, <1>7
  <2>2. d.n["misses"] = m + 0
    BY <1>6, <2>1
  <2> HIDE DEF m
  <2>3. d.n["misses"] = m
    BY <2>1, <2>2
  <2> QED BY <2>3 DEF m
<1>9. /\ IsCache(d) /\ d.g = c.g /\ d.opt = c.opt /\ d.buffer = c.buffer
      /\ d.ways = ways2 /\ d.n \in [Counters -> Nat] /\ d.n["misses"] = c.n["misses"]
  BY <1>6, <1>7, <1>8
<1> QED BY <1>9 DEF d, ways2, FilledWith

GeometryOK(g) == g.sets \in Nat \ {0} /\ g.ways \in Nat \ {0} /\ g.index \in IndexNames

IsOpt(o) == o = [future |-> o.future, cursor |-> o.cursor, nextUse |-> o.nextUse, raised |-> o.raised]

\* The cache of run_opt before reference n of stream s.
OptCache(c, g, s, n) ==
  /\ IsCache(c)
  /\ c.g.policy = "opt" /\ c.g.sets = g.sets /\ c.g.ways = g.ways /\ c.g.index = g.index /\ c.g.entries = 0
  /\ c.ways \in [SetsOf(g) -> [WaysOf(g) -> OptLines]]
  /\ \A k \in SetsOf(g), w \in WaysOf(g) :
       c.ways[k][w].block # EMPTY =>
         /\ IndexOf(g.index, g.sets, c.ways[k][w].block) = k
         /\ c.ways[k][w].block \in DOMAIN c.opt.nextUse
         /\ c.opt.nextUse[c.ways[k][w].block] = NextAt(s, n, c.ways[k][w].block)
  /\ \A k \in SetsOf(g), v, w \in WaysOf(g) :
       c.ways[k][v].block = c.ways[k][w].block => v = w \/ c.ways[k][w].block = EMPTY
  /\ c.buffer = << >>
  /\ IsOpt(c.opt) /\ c.opt.future = s /\ c.opt.cursor = n - 1 /\ ~c.opt.raised
  /\ c.n \in [Counters -> Nat]

\* FirstOf takes a member of a set that is not empty.
LEMMA FirstOfIs ==
  ASSUME NEW ways \in SUBSET Nat
  PROVE  /\ ways = {} => FirstOf(ways) = EMPTY
         /\ ways # {} => FirstOf(ways) \in ways /\ FirstOf(ways) # EMPTY
<1>1. ASSUME ways # {} PROVE FirstOf(ways) \in ways /\ FirstOf(ways) # EMPTY
  <2>1. \E w \in ways : \A v \in ways : w <= v
    BY <1>1, LeastOfNaturals
  <2> DEFINE first == CHOOSE w \in ways : \A v \in ways : w <= v
  <2>2. first \in ways
    BY <2>1
  <2>3. FirstOf(ways) = first
    BY <1>1 DEF FirstOf
  <2> HIDE DEF first
  <2> QED BY <2>2, <2>3 DEF EMPTY
<1> QED BY <1>1 DEF FirstOf

\* The next uses after reference n, which is to block b.
Learnt(c, s, n, b) ==
  [x \in DOMAIN c.opt.nextUse \cup {b} |-> IF x = b THEN NextUse(s, n) ELSE c.opt.nextUse[x]]

OptAfter(c, d, s, n, b) ==
  /\ IsOpt(d.opt) /\ d.opt.future = s /\ d.opt.cursor = n /\ d.opt.raised = c.opt.raised
  /\ d.opt.nextUse = Learnt(c, s, n, b)

\* on_probe finds the reference it expects.
LEMMA ProbeLearns ==
  ASSUME NEW g, NEW s \in Seq(Blocks), NEW n \in 1 .. Len(s), NEW c, OptCache(c, g, s, n)
  PROVE  LET d == OnProbe(c, s[n])
         IN /\ IsCache(d) /\ d.g = c.g /\ d.ways = c.ways /\ d.buffer = c.buffer /\ d.n = c.n
            /\ OptAfter(c, d, s, n, s[n])
<1> DEFINE b == s[n]
           d == OnProbe(c, b)
           learnt == Learnt(c, s, n, b)
<1>1. IsCache(c) /\ IsOpt(c.opt)
  BY DEF OptCache
<1>2. c.opt.cursor = n - 1 /\ c.opt.future = s
  BY DEF OptCache
<1>3. Expected(c, b)
  BY <1>2 DEF Expected
<1>4. c.g.policy = "opt" /\ c.opt.cursor + 1 = n
  BY <1>2 DEF OptCache
<1>5. d = [c EXCEPT !.opt.cursor = n, !.opt.nextUse = learnt]
  BY <1>2, <1>3, <1>4 DEF OnProbe, Learnt
<1> HIDE DEF d, learnt, b
<1> DEFINE opt2 == [[c.opt EXCEPT !.cursor = n] EXCEPT !.nextUse = learnt]
<1>6. opt2 = [future |-> s, cursor |-> n, nextUse |-> learnt, raised |-> c.opt.raised]
  <2> DEFINE later == [c.opt EXCEPT !.cursor = n]
  <2>1. later = [future |-> s, cursor |-> n, nextUse |-> c.opt.nextUse, raised |-> c.opt.raised]
    BY <1>1, <1>2 DEF IsOpt
  <2> HIDE DEF later
  <2>2. [later EXCEPT !.nextUse = learnt] = [future |-> s, cursor |-> n, nextUse |-> learnt, raised |-> c.opt.raised]
    BY <2>1
  <2> QED BY <2>2 DEF later
<1>7. d = [c EXCEPT !.opt = opt2]
  <2>1. [c EXCEPT !.opt.cursor = n] = [c EXCEPT !.opt = [c.opt EXCEPT !.cursor = n]]
    OBVIOUS
  <2> DEFINE c2 == [c EXCEPT !.opt = [c.opt EXCEPT !.cursor = n]]
  <2>2. d = [c2 EXCEPT !.opt.nextUse = learnt]
    BY <1>5
  <2>3. c2 = [g |-> c.g, ways |-> c.ways, order |-> c.order, drawn |-> c.drawn, opt |-> [c.opt EXCEPT !.cursor = n],
              buffer |-> c.buffer, shadow |-> c.shadow, seen |-> c.seen, n |-> c.n]
    BY <1>1 DEF IsCache
  <2> HIDE DEF c2
  <2>4. d = [c2 EXCEPT !.opt = [c2.opt EXCEPT !.nextUse = learnt]]
    BY <2>2
  <2>5. [c2.opt EXCEPT !.nextUse = learnt] = opt2
    BY <2>3
  <2>6. d = [c2 EXCEPT !.opt = opt2]
    BY <2>4, <2>5
  <2> HIDE DEF opt2
  <2> QED BY <1>1, <2>3, <2>6 DEF IsCache
<1> HIDE DEF opt2
<1>8. d = [g |-> c.g, ways |-> c.ways, order |-> c.order, drawn |-> c.drawn, opt |-> opt2,
           buffer |-> c.buffer, shadow |-> c.shadow, seen |-> c.seen, n |-> c.n]
  BY <1>1, <1>7 DEF IsCache
<1> QED BY <1>6, <1>8 DEF IsCache, IsOpt, OptAfter, d, learnt, b

\* What a probe returns.
LEMMA ProbesIs ==
  ASSUME NEW c, NEW line
  PROVE  /\ Probes(c, TRUE, line).hit /\ Probes(c, TRUE, line).cache = c
         /\ ~Probes(c, FALSE, line).hit /\ Probes(c, FALSE, line).cache = c
  BY DEF Probes

\* A hit leaves the ways as they are.
LEMMA HitKeepsWays ==
  ASSUME NEW c, IsCache(c), c.n \in [Counters -> Nat], c.g.policy = "opt", NEW sets, NEW slots,
         c.ways \in [sets -> [slots -> OptLines]], NEW k \in sets, NEW w \in slots, NEW b
  PROVE  LET p == HitWay(c, k, w, b, FALSE)
         IN p.hit /\ Alike(c, p.cache, FALSE)
<1> DEFINE marked == [c EXCEPT !.ways[k][w].dirty = @ \/ FALSE]
<1>1. marked = c
  <2>1. c.ways[k] \in [slots -> OptLines] /\ c.ways[k][w] \in OptLines
    OBVIOUS
  <2>2. [c.ways[k][w] EXCEPT !.dirty = @ \/ FALSE] = c.ways[k][w]
    BY <2>1 DEF OptLines
  <2>3. [c.ways[k] EXCEPT ![w] = c.ways[k][w]] = c.ways[k]
    BY <2>1
  <2>4. [c.ways EXCEPT ![k] = c.ways[k]] = c.ways
    OBVIOUS
  <2>5. marked = [c EXCEPT !.ways = [c.ways EXCEPT ![k] =
                                       [c.ways[k] EXCEPT ![w] = [c.ways[k][w] EXCEPT !.dirty = @ \/ FALSE]]]]
    OBVIOUS
  <2>6. marked = [c EXCEPT !.ways = c.ways]
    BY <2>2, <2>3, <2>4, <2>5
  <2> HIDE DEF marked
  <2> QED BY <2>6 DEF IsCache
<1> HIDE DEF marked
<1> DEFINE counted == Count(c, HitCounts(FALSE))
<1>2. Alike(c, counted, FALSE)
  <2>1. "misses" \notin HitCounts(FALSE)
    BY DEF HitCounts
  <2> QED BY <2>1, CountAlike DEF Alike, One
<1>3. OnHit(c, k, w) = c
  BY DEF OnHit
<1>4. HitWay(c, k, w, b, FALSE) = Probes(ShadowHit(counted, b), TRUE, NoLine)
  <2>1. HitWay(c, k, w, b, FALSE) = Probes(ShadowHit(Count(OnHit(marked, k, w), HitCounts(FALSE)), b), TRUE, NoLine)
    BY DEF HitWay, marked
  <2> QED BY <1>1, <1>3, <2>1
<1>5. Alike(counted, ShadowHit(counted, b), FALSE)
  BY <1>2, ShadowAlike DEF Alike
<1>6. Alike(c, ShadowHit(counted, b), FALSE)
  <2>1. c.n["misses"] \in Nat
    BY DEF Counters
  <2> QED BY <1>2, <1>5, <2>1, AlikeTwice
<1> DEFINE p == HitWay(c, k, w, b, FALSE)
           d == ShadowHit(counted, b)
<1>7. p.hit /\ p.cache = d
  <2>1. p = Probes(d, TRUE, NoLine)
    BY <1>4
  <2> HIDE DEF p, d
  <2>2. Probes(d, TRUE, NoLine).hit /\ Probes(d, TRUE, NoLine).cache = d
    BY ProbesIs
  <2> QED BY <2>1, <2>2
<1> QED BY <1>6, <1>7

\* An eviction puts the new line in the way of the old.
LEMMA FillAfterEviction ==
  ASSUME NEW c, IsCache(c), c.n \in [Counters -> Nat], c.g.policy = "opt", c.g.entries = 0,
         NEW sets, NEW slots, c.ways \in [sets -> [slots -> OptLines]],
         NEW k \in sets, NEW w \in slots, NEW line
  PROVE  FilledWith(c, Evict(c, k, w, line).cache, k, w, line)
<1> DEFINE counted == Count(c, {"evictions"})
           out == c.ways[k][w]
           left == WritesOut(Leaves(counted, out))
<1>0. c.n["misses"] \in Nat
  BY DEF Counters
<1>1. Alike(c, counted, FALSE)
  <2>1. Alike(c, counted, "misses" \in {"evictions"})
    BY CountAlike
  <2> QED BY <2>1 DEF Alike, One
<1>2. Displaced(counted, out) = Leaves(counted, out)
  <2>1. counted.g = c.g
    BY <1>1 DEF Alike
  <2> HIDE DEF counted
  <2> QED BY <2>1 DEF Displaced
<1>3. Drawn(c) = c
  BY DEF Drawn
<1>4. Evict(c, k, w, line) = Refilled(left, k, w, line)
  BY <1>2, <1>3 DEF Evict
<1>5. left = Leaves(left.cache, out) /\ Alike(c, left.cache, FALSE)
  <2> HIDE DEF counted, out
  <2>1. left = (IF out.dirty THEN Leaves(Count(counted, {"writebacks"}), out) ELSE Leaves(counted, out))
    BY DEF Leaves, WritesOut
  <2>2. Alike(c, Count(counted, {"writebacks"}), FALSE)
    <3>1. Alike(counted, Count(counted, {"writebacks"}), "misses" \in {"writebacks"})
      BY <1>1, CountAlike DEF Alike
    <3>2. Alike(counted, Count(counted, {"writebacks"}), FALSE)
      BY <3>1 DEF Alike, One
    <3> QED BY <1>0, <1>1, <3>2, AlikeTwice
  <2> HIDE DEF left
  <2> QED BY <1>1, <2>1, <2>2 DEF Leaves
<1> HIDE DEF left, out
<1> DEFINE e == left.cache
<1>6. Refilled(left, k, w, line).cache = FillWay(e, k, w, line)
  BY <1>5 DEF Refilled, Leaves
<1>7. IsCache(e) /\ e.n \in [Counters -> Nat] /\ e.g = c.g /\ e.ways = c.ways /\ e.opt = c.opt /\ e.buffer = c.buffer
  BY <1>5 DEF Alike
<1>8. e.n["misses"] = c.n["misses"]
  <2> DEFINE m == c.n["misses"]
  <2>1. e.n["misses"] = m + 0 /\ m \in Nat
    BY <1>0, <1>5 DEF Alike, One
  <2> HIDE DEF m, e
  <2>2. e.n["misses"] = m
    BY <2>1
  <2> QED BY <2>2 DEF m
<1> HIDE DEF e
<1>9. FilledWith(e, FillWay(e, k, w, line), k, w, line)
  <2>1. e.ways \in [sets -> [slots -> OptLines]] /\ e.g.policy = "opt"
    BY <1>7
  <2> QED BY <1>7, <2>1, FillWayFills
<1> QED BY <1>4, <1>6, <1>7, <1>8, <1>9 DEF FilledWith

\* An allocation of a block the set does not hold.
LEMMA AllocateFills ==
  ASSUME NEW c, IsCache(c), c.n \in [Counters -> Nat], c.g.policy = "opt", c.g.entries = 0,
         NEW g, WaysOf(g) \in SUBSET Nat, c.ways \in [SetsOf(g) -> [WaysOf(g) -> OptLines]],
         NEW k \in SetsOf(g), NEW line, SetOf(c, line.block) = k,
         \A w \in WaysOf(g) : c.ways[k][w].block # line.block,
         (\A w \in WaysOf(g) : c.ways[k][w].block # EMPTY) => VictimWay(c, k) \in WaysOf(g)
  PROVE  \E w \in WaysOf(g) :
           /\ FilledWith(c, Allocate(c, line).cache, k, w, line)
           /\ c.ways[k][w].block = EMPTY
              \/ ((\A x \in WaysOf(g) : c.ways[k][x].block # EMPTY) /\ w = VictimWay(c, k))
<1> DEFINE set == c.ways[k]
           slots == WaysOf(g)
           free == {w \in slots : set[w].block = EMPTY}
<1>0. slots \in SUBSET Nat /\ c.ways \in [SetsOf(g) -> [slots -> OptLines]]
  OBVIOUS
<1>1. DOMAIN set = slots
  OBVIOUS
<1>2. WayIn(set, line.block) = EMPTY
  BY <1>0, <1>1, FirstOfIs DEF WayIn, set, slots
<1>3. WayIn(set, EMPTY) = FirstOf(free)
  BY <1>1 DEF WayIn
<1> HIDE DEF set, slots
<1>4. CASE free # {}
  <2> DEFINE w == FirstOf(free)
  <2>1. w \in free /\ w # EMPTY
    BY <1>0, <1>4, FirstOfIs
  <2> HIDE DEF w, free
  <2>2. Allocate(c, line) = Leaves(FillWay(c, k, w, line), NoLine)
    BY <1>2, <1>3, <2>1 DEF Allocate, AllocateIn, set, w
  <2>3. Allocate(c, line).cache = FillWay(c, k, w, line)
    BY <2>2 DEF Leaves
  <2>4. w \in slots /\ set[w].block = EMPTY
    BY <2>1 DEF free
  <2>5. FilledWith(c, FillWay(c, k, w, line), k, w, line)
    BY <1>0, <2>4, FillWayFills
  <2>6. FilledWith(c, Allocate(c, line).cache, k, w, line) /\ c.ways[k][w].block = EMPTY
    BY <2>3, <2>4, <2>5 DEF set
  <2> QED BY <2>4, <2>6 DEF slots
<1>5. CASE free = {}
  <2>1. WayIn(set, EMPTY) = EMPTY
    BY <1>0, <1>3, <1>5, FirstOfIs
  <2>2. VictimWay(c, k) \in slots
    BY <1>5 DEF set, slots
  <2>3. Allocate(c, line) = Evict(c, k, VictimWay(c, k), line)
    BY <1>2, <2>1 DEF Allocate, AllocateIn, set
  <2>4. FilledWith(c, Allocate(c, line).cache, k, VictimWay(c, k), line)
    BY <1>0, <2>2, <2>3, FillAfterEviction
  <2> QED BY <1>5, <2>2, <2>4 DEF set, slots
<1> QED BY <1>4, <1>5

\* The first of the largest.
LEMMA FirstLargest ==
  ASSUME NEW slots \in SUBSET Nat, slots # {}, NEW limit \in Nat, NEW f \in [slots -> 0 .. limit]
  PROVE  \E w \in slots : \A v \in slots : f[w] > f[v] \/ (f[w] = f[v] /\ w <= v)
<1> DEFINE values == {f[w] : w \in slots}
<1>1. PICK u \in values : \A x \in values : u >= x
  <2>1. \A w \in slots : f[w] \in Nat /\ f[w] <= limit
    OBVIOUS
  <2>2. values \in SUBSET Nat /\ values # {} /\ \A x \in values : x <= limit
    BY <2>1
  <2> HIDE DEF values
  <2> QED BY <2>2, LargestOfBounded
<1> DEFINE tops == {w \in slots : f[w] = u}
<1>2. PICK w \in tops : \A v \in tops : w <= v
  <2>1. tops \in SUBSET Nat /\ tops # {}
    OBVIOUS
  <2> HIDE DEF tops
  <2> QED BY <2>1, LeastOfNaturals
<1>3. ASSUME NEW v \in slots PROVE f[w] > f[v] \/ (f[w] = f[v] /\ w <= v)
  <2>1. f[v] \in values /\ f[w] = u /\ f[v] \in Nat /\ f[w] \in Nat
    BY <1>2
  <2>2. u >= f[v]
    BY <1>1, <2>1
  <2>3. f[v] = u => w <= v
    BY <1>2
  <2> QED BY <2>1, <2>2, <2>3
<1> QED BY <1>2, <1>3

\* victim() names a way whose block is referenced last of all.
LEMMA OptVictimIs ==
  ASSUME NEW g, GeometryOK(g), NEW s \in Seq(Blocks), NEW n \in 1 .. Len(s), NEW c, OptCache(c, g, s, n),
         NEW k \in SetsOf(g), \A w \in WaysOf(g) : c.ways[k][w].block \notin {EMPTY, s[n]},
         NEW d, d.g = c.g, d.ways = c.ways, d.opt.nextUse = Learnt(c, s, n, s[n])
  PROVE  /\ VictimWay(d, k) \in WaysOf(g)
         /\ \A v \in WaysOf(g) : NextAt(s, n, c.ways[k][v].block) <= NextAt(s, n, c.ways[k][VictimWay(d, k)].block)
<1> DEFINE slots == WaysOf(g)
           f == [w \in slots |-> NextAt(s, n, c.ways[k][w].block)]
           limit == Len(s) + 1
<1>1. /\ d.g.policy = "opt" /\ d.g.ways = g.ways /\ c.ways[k] \in [slots -> OptLines]
      /\ \A w \in slots :
           /\ c.ways[k][w].block \in DOMAIN c.opt.nextUse
           /\ c.opt.nextUse[c.ways[k][w].block] = NextAt(s, n, c.ways[k][w].block)
  BY DEF OptCache
<1>2. f \in [slots -> 0 .. limit]
  <2>1. n \in 1 .. Len(s) + 1 /\ Len(s) \in Nat
    OBVIOUS
  <2>2. ASSUME NEW b PROVE NextAt(s, n, b) \in 0 .. limit
    BY <2>1, NextAtIs DEF IsNextAt
  <2> QED BY <2>2
<1>3. slots \in SUBSET Nat /\ slots # {} /\ limit \in Nat
  <2>1. g.ways \in Nat \ {0}
    BY DEF GeometryOK
  <2>2. 0 \in slots /\ slots \in SUBSET Nat
    BY <2>1 DEF WaysOf
  <2> QED BY <2>2
<1> DEFINE When(w) == LET b == d.ways[k][w].block
                      IN IF b \in DOMAIN d.opt.nextUse THEN d.opt.nextUse[b] ELSE Never(d.opt.future)
           victim == CHOOSE w \in slots : \A v \in slots : When(w) > When(v) \/ (When(w) = When(v) /\ w <= v)
<1>4. \A w \in slots : When(w) = f[w]
  BY <1>1 DEF Learnt
<1>5. VictimWay(d, k) = victim
  <2>1. VictimWay(d, k) = OptVictim(d, k)
    BY <1>1 DEF VictimWay
  <2>2. WaysOf(d.g) = slots
    BY <1>1 DEF WaysOf
  <2> HIDE DEF slots
  <2>3. OptVictim(d, k) = victim
    BY <2>2 DEF OptVictim
  <2> QED BY <2>1, <2>3
<1> HIDE DEF slots, limit
<1>6. \E w \in slots : \A v \in slots : f[w] > f[v] \/ (f[w] = f[v] /\ w <= v)
  <2> HIDE DEF f
  <2> QED BY <1>2, <1>3, FirstLargest
<1>7. victim \in slots /\ \A v \in slots : When(victim) > When(v) \/ (When(victim) = When(v) /\ victim <= v)
  <2>1. \E w \in slots : \A v \in slots : When(w) > When(v) \/ (When(w) = When(v) /\ w <= v)
    <3> HIDE DEF f, When
    <3> QED BY <1>4, <1>6
  <2> HIDE DEF When
  <2> QED BY <2>1
<1> HIDE DEF victim, When
<1>8. \A v \in slots : f[v] <= f[victim]
  <2>1. \A w \in slots : f[w] \in Nat
    BY <1>2
  <2> HIDE DEF f
  <2> QED BY <1>4, <1>7, <2>1
<1>9. \A v \in slots : f[v] = NextAt(s, n, c.ways[k][v].block)
  OBVIOUS
<1> HIDE DEF f
<1>10. victim \in slots /\ \A v \in slots : NextAt(s, n, c.ways[k][v].block) <= NextAt(s, n, c.ways[k][victim].block)
  BY <1>7, <1>8, <1>9
<1> QED BY <1>5, <1>10 DEF slots

\* A reference leaves the ways as they are on a hit; on a miss its block replaces
\* nothing, or the block of its set referenced last.
LEMMA AccessEffect ==
  ASSUME NEW g, GeometryOK(g), NEW s \in Seq(Blocks), NEW n \in 1 .. Len(s), NEW c, OptCache(c, g, s, n),
         NEW k \in SetsOf(g), IndexOf(g.index, g.sets, s[n]) = k
  PROVE  LET b == s[n]
             d == Access(c, b, FALSE)
             own == {w \in WaysOf(g) : c.ways[k][w].block = b}
         IN /\ IsCache(d) /\ d.g = c.g /\ d.buffer = c.buffer /\ OptAfter(c, d, s, n, b)
            /\ d.n \in [Counters -> Nat] /\ d.n["misses"] = c.n["misses"] + One(own = {})
            /\ own # {} => d.ways = c.ways
            /\ own = {} =>
                 \E w \in WaysOf(g) :
                   /\ d.ways = [c.ways EXCEPT ![k][w] = Line(b, FALSE, FALSE)]
                   /\ \/ c.ways[k][w].block = EMPTY
                      \/ \A v \in WaysOf(g) :
                           /\ c.ways[k][v].block # EMPTY
                           /\ NextAt(s, n, c.ways[k][v].block) <= NextAt(s, n, c.ways[k][w].block)
<1> DEFINE b == s[n]
           d == Access(c, b, FALSE)
           slots == WaysOf(g)
           own == {w \in slots : c.ways[k][w].block = b}
           c1 == OnProbe(c, b)
<1>1. /\ IsCache(c) /\ c.g.policy = "opt" /\ c.g.sets = g.sets /\ c.g.ways = g.ways /\ c.g.index = g.index
      /\ c.g.entries = 0 /\ c.ways \in [SetsOf(g) -> [slots -> OptLines]] /\ c.buffer = << >>
      /\ c.n \in [Counters -> Nat]
  BY DEF OptCache
<1>2. /\ IsCache(c1) /\ c1.g = c.g /\ c1.ways = c.ways /\ c1.buffer = c.buffer /\ c1.n = c.n
      /\ OptAfter(c, c1, s, n, b)
  BY ProbeLearns
<1>3. c.n["misses"] \in Nat
  BY <1>1 DEF Counters
<1>4. slots \in SUBSET Nat
  BY DEF WaysOf, GeometryOK
<1>5. SetOf(c, b) = k /\ SetOf(c1, b) = k
  BY <1>1, <1>2 DEF SetOf
<1>6. WayOf(c, b) = FirstOf(own)
  BY <1>1, <1>5 DEF WayOf, WayIn
<1> HIDE DEF c1, slots, b
<1>7. Probe(c, b, FALSE) = ProbeIn(c1, FirstOf(own), b, FALSE)
  BY <1>6 DEF Probe, c1
<1>8. CASE own # {}
  <2> DEFINE w == FirstOf(own)
             p == HitWay(c1, k, w, b, FALSE)
  <2>1. w \in own /\ w # EMPTY
    BY <1>4, <1>8, FirstOfIs
  <2> HIDE DEF w
  <2>2. w \in slots
    BY <2>1
  <2> HIDE DEF own
  <2>3. Probe(c, b, FALSE) = p
    BY <1>5, <1>7, <2>1 DEF ProbeIn, w
  <2>4. p.hit /\ Alike(c1, p.cache, FALSE)
    BY <1>1, <1>2, <2>2, HitKeepsWays
  <2> HIDE DEF p
  <2>5. d = p.cache
    BY <2>3, <2>4 DEF Access, FillOnMiss
  <2> HIDE DEF d
  <2>6. /\ IsCache(d) /\ d.g = c.g /\ d.buffer = c.buffer /\ d.opt = c1.opt /\ d.ways = c.ways
        /\ d.n \in [Counters -> Nat]
    BY <1>2, <2>4, <2>5 DEF Alike
  <2>7. d.n["misses"] = c.n["misses"] + One(own = {})
    BY <1>2, <1>8, <2>4, <2>5 DEF Alike, One
  <2>8. OptAfter(c, d, s, n, b)
    BY <1>2, <2>6 DEF OptAfter
  <2> QED BY <1>8, <2>6, <2>7, <2>8 DEF own, d, slots, b
<1>9. CASE own = {}
  <2> DEFINE counted == Count(c1, MissCounts(FALSE))
             c2 == ShadowMiss(counted, b)
             line == Line(b, FALSE, FALSE)
  <2>1. Alike(c1, counted, TRUE)
    <3>1. "misses" \in MissCounts(FALSE)
      BY DEF MissCounts
    <3>2. Alike(c1, counted, "misses" \in MissCounts(FALSE))
      BY <1>1, <1>2, CountAlike
    <3> QED BY <3>1, <3>2 DEF Alike, One
  <2>2. Alike(c1, c2, TRUE)
    <3>1. Alike(counted, c2, FALSE)
      BY <2>1, ShadowAlike DEF Alike
    <3> HIDE DEF counted, c2
    <3> QED BY <1>2, <1>3, <2>1, <3>1, AlikeTwice
  <2> HIDE DEF c2
  <2>3. d = Allocate(c2, line).cache
    <3>1. ~Buffered(c1, b)
      BY <1>1, <1>2 DEF Buffered
    <3>2. FirstOf(own) = EMPTY
      BY <1>4, <1>9, FirstOfIs
    <3>3. Probe(c, b, FALSE) = Probes(c2, FALSE, NoLine)
      BY <1>7, <3>1, <3>2 DEF ProbeIn, c2
    <3>4. ~Probe(c, b, FALSE).hit /\ Probe(c, b, FALSE).cache = c2
      BY <3>3, ProbesIs
    <3> HIDE DEF line
    <3> QED BY <3>4 DEF Access, FillOnMiss, line
  <2>4. /\ IsCache(c2) /\ c2.g = c.g /\ c2.ways = c.ways /\ c2.opt = c1.opt /\ c2.buffer = c.buffer
        /\ c2.n \in [Counters -> Nat] /\ c2.n["misses"] = c.n["misses"] + One(own = {})
    BY <1>2, <1>9, <2>2 DEF Alike, One
  <2>5. line.block = b /\ SetOf(c2, line.block) = k
    BY <1>5, <2>4 DEF Line, SetOf
  <2> DEFINE full == \A x \in slots : c.ways[k][x].block # EMPTY
  <2>6. full => /\ VictimWay(c2, k) \in slots
                     /\ \A v \in slots : NextAt(s, n, c.ways[k][v].block)
                                           <= NextAt(s, n, c.ways[k][VictimWay(c2, k)].block)
    <3> SUFFICES ASSUME full
                 PROVE  /\ VictimWay(c2, k) \in slots
                        /\ \A v \in slots : NextAt(s, n, c.ways[k][v].block)
                                              <= NextAt(s, n, c.ways[k][VictimWay(c2, k)].block)
      OBVIOUS
    <3>1. \A w \in slots : c.ways[k][w].block \notin {EMPTY, b}
      BY <1>9
    <3>2. c2.opt.nextUse = Learnt(c, s, n, b)
      BY <1>2, <2>4 DEF OptAfter
    <3> QED BY <2>4, <3>1, <3>2, OptVictimIs DEF slots, b
  <2>7. PICK w \in slots :
           /\ FilledWith(c2, Allocate(c2, line).cache, k, w, line)
           /\ c2.ways[k][w].block = EMPTY
              \/ ((\A x \in slots : c2.ways[k][x].block # EMPTY) /\ w = VictimWay(c2, k))
    <3>1. \A w \in slots : c2.ways[k][w].block # line.block
      BY <1>9, <2>4, <2>5
    <3>2. (\A w \in slots : c2.ways[k][w].block # EMPTY) => VictimWay(c2, k) \in slots
      BY <2>4, <2>6
    <3>3. c2.g.policy = "opt" /\ c2.g.entries = 0 /\ c2.ways \in [SetsOf(g) -> [slots -> OptLines]]
      BY <1>1, <2>4
    <3>4. IsCache(c2) /\ c2.n \in [Counters -> Nat] /\ SetOf(c2, line.block) = k /\ k \in SetsOf(g)
      BY <2>4, <2>5
    <3> HIDE DEF line
    <3> QED BY <1>4, <3>1, <3>2, <3>3, <3>4, AllocateFills DEF slots
  <2> HIDE DEF line, d
  <2>8. /\ IsCache(d) /\ d.g = c.g /\ d.buffer = c.buffer /\ d.opt = c1.opt /\ d.n \in [Counters -> Nat]
        /\ d.n["misses"] = c.n["misses"] + One(own = {}) /\ d.ways = [c.ways EXCEPT ![k][w] = line]
    BY <2>3, <2>4, <2>7 DEF FilledWith
  <2>9. OptAfter(c, d, s, n, b)
    BY <1>2, <2>8 DEF OptAfter
  <2>10. \/ c.ways[k][w].block = EMPTY
         \/ \A v \in slots :
              /\ c.ways[k][v].block # EMPTY
              /\ NextAt(s, n, c.ways[k][v].block) <= NextAt(s, n, c.ways[k][w].block)
    BY <2>4, <2>6, <2>7
  <2> QED BY <1>9, <2>8, <2>9, <2>10 DEF d, slots, b, line
<1> QED BY <1>8, <1>9

-----------------------------------------------------------------------------
(* What the cache holds.                                                   *)

\* The set of every block.
SetNumbers(g) == [x \in Blocks |-> IndexOf(g.index, g.sets, x)]

\* The blocks of a cache.
Held(c, g) == {x \in Blocks : \E k \in SetsOf(g), w \in WaysOf(g) : c.ways[k][w].block = x}

\* As many distinct things as there are indices.
LEMMA CountOfDistinct ==
  ASSUME NEW S, NEW T, NEW f \in [S -> T], IsFiniteSet(S),
         \A x, y \in S : f[x] = f[y] => x = y, \A z \in T : \E x \in S : f[x] = z
  PROVE  IsFiniteSet(T) /\ Cardinality(T) = Cardinality(S)
<1>1. f \in Bijection(S, T)
  BY DEF Bijection, Injection, Surjection, IsInjective
<1>2. ExistsBijection(S, T)
  BY <1>1 DEF ExistsBijection
<1> QED BY <1>2, FS_Bijection

\* A set has room for a block if it has a free way.
LEMMA SetHasRoom ==
  ASSUME NEW g, GeometryOK(g), NEW s, NEW n, NEW c, OptCache(c, g, s, n), NEW k \in SetsOf(g)
  PROVE  LET own == Class(Held(c, g), SetNumbers(g), k)
         IN /\ \A x : x \in own <=> x # EMPTY /\ \E w \in WaysOf(g) : c.ways[k][w].block = x
            /\ IsFiniteSet(own) /\ Cardinality(own) \in Nat /\ Cardinality(own) <= g.ways
            /\ Cardinality(own) < g.ways <=> \E w \in WaysOf(g) : c.ways[k][w].block = EMPTY
<1> DEFINE own == Class(Held(c, g), SetNumbers(g), k)
           slots == WaysOf(g)
           set == c.ways[k]
           used == {w \in slots : set[w].block # EMPTY}
           blocksOf == {set[w].block : w \in used}
           f == [w \in used |-> set[w].block]
<1>1. /\ g.ways \in Nat \ {0} /\ slots = 0 .. g.ways - 1
      /\ \A j \in SetsOf(g), w \in slots :
           /\ c.ways[j][w].block \in Blocks \cup {EMPTY}
           /\ c.ways[j][w].block # EMPTY => IndexOf(g.index, g.sets, c.ways[j][w].block) = j
      /\ \A v, w \in slots : set[v].block = set[w].block => v = w \/ set[w].block = EMPTY
  <2>1. g.ways \in Nat \ {0} /\ slots = 0 .. g.ways - 1
    BY DEF GeometryOK, WaysOf
  <2>2. /\ c.ways \in [SetsOf(g) -> [slots -> OptLines]]
        /\ \A j \in SetsOf(g), w \in slots :
             c.ways[j][w].block # EMPTY => IndexOf(g.index, g.sets, c.ways[j][w].block) = j
        /\ \A v, w \in slots : set[v].block = set[w].block => v = w \/ set[w].block = EMPTY
    BY DEF OptCache
  <2> HIDE DEF slots, set
  <2>3. \A j \in SetsOf(g), w \in slots : c.ways[j][w].block \in Blocks \cup {EMPTY}
    <3>1. ASSUME NEW j \in SetsOf(g), NEW w \in slots PROVE c.ways[j][w] \in OptLines
      BY <2>2
    <3>2. \A line \in OptLines : line.block \in Blocks \cup {EMPTY}
      BY DEF OptLines
    <3> QED BY <3>1, <3>2
  <2> QED BY <2>1, <2>2, <2>3
<1> HIDE DEF slots, set
<1>2. own = blocksOf
  <2>1. EMPTY \notin Blocks
    BY BlocksAssumption DEF EMPTY
  <2>2. ASSUME NEW x \in own PROVE x \in blocksOf
    <3>1. x \in Blocks /\ IndexOf(g.index, g.sets, x) = k
      BY <2>2 DEF Class, Held, SetNumbers
    <3>2. PICK j \in SetsOf(g), w \in slots : c.ways[j][w].block = x
      BY <2>2 DEF Class, Held, slots
    <3>3. j = k /\ x # EMPTY
      BY <1>1, <2>1, <3>1, <3>2
    <3> QED BY <3>2, <3>3 DEF set
  <2>3. ASSUME NEW w \in used PROVE set[w].block \in own
    <3>1. set[w].block \in Blocks /\ IndexOf(g.index, g.sets, set[w].block) = k
      BY <1>1 DEF set
    <3>2. set[w].block \in Held(c, g)
      BY <3>1 DEF Held, set, slots
    <3> QED BY <3>1, <3>2 DEF Class, SetNumbers
  <2> HIDE DEF own
  <2> QED BY <2>2, <2>3
<1>3. IsFiniteSet(slots) /\ Cardinality(slots) = g.ways
  BY <1>1, FS_Interval
<1>4. IsFiniteSet(used) /\ Cardinality(used) <= g.ways /\ (Cardinality(used) = g.ways => used = slots)
  <2>1. used \in SUBSET slots
    OBVIOUS
  <2> HIDE DEF used
  <2> QED BY <1>3, <2>1, FS_Subset
<1>5. IsFiniteSet(blocksOf) /\ Cardinality(blocksOf) = Cardinality(used)
  <2>1. f \in [used -> blocksOf] /\ \A z \in blocksOf : \E x \in used : f[x] = z
    OBVIOUS
  <2>2. \A x, y \in used : f[x] = f[y] => x = y
    BY <1>1
  <2> HIDE DEF f, used, blocksOf
  <2> QED BY <1>4, <2>1, <2>2, CountOfDistinct
<1>6. Cardinality(used) \in Nat
  <2> HIDE DEF used
  <2> QED BY <1>4, FS_CardinalityType
<1>7. used = slots <=> ~\E w \in slots : set[w].block = EMPTY
  OBVIOUS
<1>8. Cardinality(used) < g.ways <=> \E w \in slots : set[w].block = EMPTY
  <2>1. used = slots => Cardinality(used) = g.ways
    BY <1>3
  <2> HIDE DEF used
  <2> QED BY <1>1, <1>4, <1>6, <1>7, <2>1
<1>9. \A x : x \in own <=> x # EMPTY /\ \E w \in slots : set[w].block = x
  <2> HIDE DEF own
  <2> QED BY <1>2
<1>10. /\ IsFiniteSet(own) /\ Cardinality(own) \in Nat /\ Cardinality(own) <= g.ways
       /\ Cardinality(own) < g.ways <=> \E w \in slots : set[w].block = EMPTY
  BY <1>2, <1>4, <1>5, <1>6, <1>8
<1> QED BY <1>9, <1>10 DEF slots, set

\* All the sets together hold no more than sets * ways blocks.
LEMMA HeldIsSmall ==
  ASSUME NEW g, GeometryOK(g), NEW s, NEW n, NEW c, OptCache(c, g, s, n)
  PROVE  IsFiniteSet(Held(c, g)) /\ Cardinality(Held(c, g)) <= NumBlocks(g)
<1> DEFINE places == SetsOf(g) \X WaysOf(g)
           taken == {p \in places : c.ways[p[1]][p[2]].block \in Blocks}
           f == [p \in taken |-> c.ways[p[1]][p[2]].block]
<1>1. g.sets \in Nat \ {0} /\ g.ways \in Nat \ {0}
  BY DEF GeometryOK
<1>2. /\ IsFiniteSet(SetsOf(g)) /\ Cardinality(SetsOf(g)) = g.sets
      /\ IsFiniteSet(WaysOf(g)) /\ Cardinality(WaysOf(g)) = g.ways
  <2>1. \A m \in Nat \ {0} : IsFiniteSet(0 .. m - 1) /\ Cardinality(0 .. m - 1) = m
    BY FS_Interval
  <2> QED BY <1>1, <2>1 DEF SetsOf, WaysOf
<1>3. IsFiniteSet(places) /\ Cardinality(places) = NumBlocks(g)
  BY <1>2, FS_Product DEF NumBlocks
<1>4. IsFiniteSet(taken) /\ Cardinality(taken) <= NumBlocks(g)
  <2>1. taken \in SUBSET places
    OBVIOUS
  <2> HIDE DEF taken, places
  <2> QED BY <1>3, <2>1, FS_Subset
<1>5. f \in Surjection(taken, Held(c, g))
  <2>1. ASSUME NEW p \in taken PROVE c.ways[p[1]][p[2]].block \in Held(c, g)
    BY DEF Held
  <2>2. ASSUME NEW x \in Held(c, g) PROVE \E p \in taken : f[p] = x
    <3>1. PICK k \in SetsOf(g), w \in WaysOf(g) : c.ways[k][w].block = x
      BY DEF Held
    <3>2. x \in Blocks
      BY DEF Held
    <3>3. <<k, w>> \in taken /\ f[<<k, w>>] = x
      BY <3>1, <3>2
    <3> QED BY <3>3
  <2> QED BY <2>1, <2>2 DEF Surjection
<1>6. IsFiniteSet(Held(c, g)) /\ Cardinality(Held(c, g)) <= Cardinality(taken)
  <2> HIDE DEF f, taken
  <2> QED BY <1>4, <1>5, FS_Surjection
<1>7. Cardinality(Held(c, g)) \in Nat /\ Cardinality(taken) \in Nat /\ NumBlocks(g) \in Nat
  <2>1. NumBlocks(g) \in Nat
    BY <1>1 DEF NumBlocks
  <2> HIDE DEF taken
  <2> QED BY <1>4, <1>6, <2>1, FS_CardinalityType
<1> QED BY <1>4, <1>6, <1>7

\* A reference to b keeps the cache what it is, and it gives up the block of its set
\* that is referenced last.
LEMMA OptCacheServes ==
  ASSUME NEW g, GeometryOK(g), NEW s \in Seq(Blocks), NEW n \in 1 .. Len(s), NEW c, OptCache(c, g, s, n),
         SetNumbers(g) \in [Blocks -> SetsOf(g)]
  PROVE  LET d == Access(c, s[n], FALSE)
         IN /\ OptCache(d, g, s, n + 1)
            /\ Serves(Held(c, g), Held(d, g), c.n["misses"], d.n["misses"], s[n],
                      Upcoming(s, n), SetNumbers(g), g.ways)
<1> DEFINE b == s[n]
           d == Access(c, b, FALSE)
           slots == WaysOf(g)
           cls == SetNumbers(g)
           k == cls[b]
           own == {w \in slots : c.ways[k][w].block = b}
           mates == Class(Held(c, g), cls, k)
           up == Upcoming(s, n)
<1>1. b \in Blocks /\ k \in SetsOf(g) /\ k = IndexOf(g.index, g.sets, b) /\ EMPTY \notin Blocks
  BY BlocksAssumption DEF SetNumbers, EMPTY
<1>2. /\ IsCache(d) /\ d.g = c.g /\ d.buffer = c.buffer /\ OptAfter(c, d, s, n, b)
      /\ d.n \in [Counters -> Nat] /\ d.n["misses"] = c.n["misses"] + One(own = {})
      /\ own # {} => d.ways = c.ways
      /\ own = {} =>
           \E w \in slots :
             /\ d.ways = [c.ways EXCEPT ![k][w] = Line(b, FALSE, FALSE)]
             /\ \/ c.ways[k][w].block = EMPTY
                \/ \A v \in slots :
                     /\ c.ways[k][v].block # EMPTY
                     /\ NextAt(s, n, c.ways[k][v].block) <= NextAt(s, n, c.ways[k][w].block)
  BY <1>1, AccessEffect
<1>3. /\ c.ways \in [SetsOf(g) -> [slots -> OptLines]]
      /\ \A j \in SetsOf(g), w \in slots :
           c.ways[j][w].block # EMPTY =>
             /\ IndexOf(g.index, g.sets, c.ways[j][w].block) = j
             /\ c.ways[j][w].block \in DOMAIN c.opt.nextUse
             /\ c.opt.nextUse[c.ways[j][w].block] = NextAt(s, n, c.ways[j][w].block)
      /\ \A j \in SetsOf(g), v, w \in slots :
           c.ways[j][v].block = c.ways[j][w].block => v = w \/ c.ways[j][w].block = EMPTY
  BY DEF OptCache
<1> HIDE DEF d, slots, cls, b, k
<1>4. ASSUME NEW x \in Blocks, x = b \/ (x \in DOMAIN c.opt.nextUse /\ c.opt.nextUse[x] = NextAt(s, n, x))
      PROVE  x \in DOMAIN d.opt.nextUse /\ d.opt.nextUse[x] = NextAt(s, n + 1, x)
  <2>1. d.opt.nextUse = Learnt(c, s, n, b)
    BY <1>2 DEF OptAfter
  <2>2. NextUse(s, n) = NextAt(s, n + 1, b) /\ (x # b => NextAt(s, n + 1, x) = NextAt(s, n, x))
    BY NextAtStep DEF b
  <2> QED BY <1>4, <2>1, <2>2 DEF Learnt
<1>5. /\ d.g.policy = "opt" /\ d.g.sets = g.sets /\ d.g.ways = g.ways /\ d.g.index = g.index /\ d.g.entries = 0
      /\ d.buffer = << >> /\ IsOpt(d.opt) /\ d.opt.future = s /\ d.opt.cursor = (n + 1) - 1 /\ ~d.opt.raised
  BY <1>2 DEF OptCache, OptAfter
<1>6. b \in Held(c, g) <=> own # {}
  <2>1. ASSUME NEW w \in own PROVE b \in Held(c, g)
    BY <1>1 DEF Held, slots
  <2>2. ASSUME b \in Held(c, g) PROVE own # {}
    <3>1. PICK j \in SetsOf(g), w \in slots : c.ways[j][w].block = b
      BY <2>2 DEF Held, slots
    <3>2. j = k
      BY <1>1, <1>3, <3>1
    <3> QED BY <3>1, <3>2
  <2> QED BY <2>1, <2>2
<1>7. CASE own # {}
  <2>1. d.ways = c.ways
    BY <1>2, <1>7
  <2>2. Held(d, g) = Held(c, g) /\ b \in Held(c, g)
    BY <1>6, <1>7, <2>1 DEF Held
  <2>3. OptCache(d, g, s, n + 1)
    <3>1. ASSUME NEW j \in SetsOf(g), NEW w \in slots, d.ways[j][w].block # EMPTY
          PROVE  /\ IndexOf(g.index, g.sets, d.ways[j][w].block) = j
                 /\ d.ways[j][w].block \in DOMAIN d.opt.nextUse
                 /\ d.opt.nextUse[d.ways[j][w].block] = NextAt(s, n + 1, d.ways[j][w].block)
      <4>1. d.ways[j][w].block \in Blocks
        BY <1>3, <2>1, <3>1 DEF OptLines
      <4> DEFINE x == d.ways[j][w].block
      <4>2. IndexOf(g.index, g.sets, x) = j /\ x \in DOMAIN c.opt.nextUse /\ c.opt.nextUse[x] = NextAt(s, n, x)
        BY <1>3, <2>1, <3>1
      <4> HIDE DEF x
      <4>3. x \in DOMAIN d.opt.nextUse /\ d.opt.nextUse[x] = NextAt(s, n + 1, x)
        BY <1>4, <4>1, <4>2 DEF x
      <4> QED BY <4>2, <4>3 DEF x
    <3> QED BY <1>2, <1>3, <1>5, <2>1, <3>1 DEF OptCache, slots
  <2>4. d.n["misses"] = c.n["misses"] + One(b \notin Held(c, g))
    BY <1>2, <1>6 DEF One
  <2>5. Serves(Held(c, g), Held(d, g), c.n["misses"], d.n["misses"], b, up, cls, g.ways)
    BY <2>2, <2>4 DEF Serves
  <2> QED BY <2>3, <2>5 DEF d, b, cls
<1>8. CASE own = {}
  <2> DEFINE line == Line(b, FALSE, FALSE)
  <2>1. PICK way \in slots :
          /\ d.ways = [c.ways EXCEPT ![k][way] = line]
          /\ \/ c.ways[k][way].block = EMPTY
             \/ \A v \in slots :
                  /\ c.ways[k][v].block # EMPTY
                  /\ NextAt(s, n, c.ways[k][v].block) <= NextAt(s, n, c.ways[k][way].block)
    BY <1>2, <1>8
  <2>2. line \in OptLines /\ line.block = b
    BY <1>1 DEF Line, OptLines
  <2> HIDE DEF line
  <2>3. /\ d.ways \in [SetsOf(g) -> [slots -> OptLines]]
        /\ d.ways[k][way].block = b
        /\ \A j \in SetsOf(g), w \in slots : j # k \/ w # way => d.ways[j][w] = c.ways[j][w]
    <3>1. d.ways \in [SetsOf(g) -> [slots -> OptLines]]
      <4>1. [c.ways[k] EXCEPT ![way] = line] \in [slots -> OptLines]
        BY <1>1, <1>3, <2>2
      <4>2. d.ways = [c.ways EXCEPT ![k] = [c.ways[k] EXCEPT ![way] = line]]
        BY <2>1
      <4> QED BY <1>1, <1>3, <4>1, <4>2
    <3>2. d.ways[k] = [c.ways[k] EXCEPT ![way] = line] /\ \A j \in SetsOf(g) : j # k => d.ways[j] = c.ways[j]
      BY <1>1, <1>3, <2>1
    <3>3. d.ways[k][way] = line /\ \A w \in slots : w # way => d.ways[k][w] = c.ways[k][w]
      BY <1>1, <1>3, <3>2
    <3> QED BY <2>2, <3>1, <3>2, <3>3
  <2>4. \A w \in slots : c.ways[k][w].block # b
    BY <1>8
  <2>5. OptCache(d, g, s, n + 1)
    <3>1. ASSUME NEW j \in SetsOf(g), NEW w \in slots, d.ways[j][w].block # EMPTY
          PROVE  /\ IndexOf(g.index, g.sets, d.ways[j][w].block) = j
                 /\ d.ways[j][w].block \in DOMAIN d.opt.nextUse
                 /\ d.opt.nextUse[d.ways[j][w].block] = NextAt(s, n + 1, d.ways[j][w].block)
      <4>1. CASE j = k /\ w = way
        <5>1. d.ways[j][w].block = b
          BY <2>3, <4>1
        <5>2. b \in DOMAIN d.opt.nextUse /\ d.opt.nextUse[b] = NextAt(s, n + 1, b)
          BY <1>1, <1>4
        <5> QED BY <1>1, <4>1, <5>1, <5>2
      <4>2. CASE j # k \/ w # way
        <5>1. d.ways[j][w] = c.ways[j][w]
          BY <2>3, <4>2
        <5>2. c.ways[j][w].block \in Blocks
          BY <1>3, <3>1, <5>1 DEF OptLines
        <5> QED BY <1>3, <1>4, <3>1, <5>1, <5>2
      <4> QED BY <4>1, <4>2
    <3>2. ASSUME NEW j \in SetsOf(g), NEW v \in slots, NEW w \in slots, d.ways[j][v].block = d.ways[j][w].block
          PROVE  v = w \/ d.ways[j][w].block = EMPTY
      <4>1. CASE j # k
        BY <1>3, <2>3, <3>2, <4>1
      <4>2. CASE j = k /\ v # way /\ w # way
        BY <1>3, <2>3, <3>2, <4>2
      <4>3. CASE j = k /\ (v = way \/ w = way)
        BY <2>3, <2>4, <3>2, <4>3
      <4> QED BY <4>1, <4>2, <4>3
    <3> QED BY <1>2, <1>5, <2>3, <3>1, <3>2 DEF OptCache, slots
  <2>6. b \notin Held(c, g) /\ d.n["misses"] = c.n["misses"] + One(b \notin Held(c, g))
    BY <1>2, <1>6, <1>8 DEF One
  <2>7. /\ \A x : x \in mates <=> x # EMPTY /\ \E w \in slots : c.ways[k][w].block = x
        /\ Cardinality(mates) < g.ways <=> \E w \in slots : c.ways[k][w].block = EMPTY
    <3>1. mates = Class(Held(c, g), SetNumbers(g), k)
      BY DEF cls
    <3> HIDE DEF mates
    <3>2. LET own2 == Class(Held(c, g), SetNumbers(g), k)
          IN /\ \A x : x \in own2 <=> x # EMPTY /\ \E w \in WaysOf(g) : c.ways[k][w].block = x
             /\ Cardinality(own2) < g.ways <=> \E w \in WaysOf(g) : c.ways[k][w].block = EMPTY
      BY <1>1, SetHasRoom
    <3> QED BY <3>1, <3>2 DEF slots
  <2>8. CASE c.ways[k][way].block = EMPTY
    <3>1. Held(d, g) = Held(c, g) \cup {b}
      <4>1. ASSUME NEW x \in Held(d, g) PROVE x \in Held(c, g) \cup {b}
        BY <2>3 DEF Held, slots
      <4>2. ASSUME NEW x \in Held(c, g) PROVE x \in Held(d, g)
        BY <1>1, <2>3, <2>8 DEF Held, slots
      <4>3. b \in Held(d, g)
        BY <1>1, <2>3 DEF Held, slots
      <4> QED BY <4>1, <4>2, <4>3
    <3>2. Cardinality(Class(Held(c, g), cls, cls[b])) < g.ways
      BY <2>7, <2>8 DEF k
    <3> QED BY <2>5, <2>6, <3>1, <3>2 DEF Serves, d, b, cls
  <2>9. CASE c.ways[k][way].block # EMPTY
    <3> DEFINE v == c.ways[k][way].block
    <3>1. /\ \A w \in slots : c.ways[k][w].block # EMPTY
          /\ \A w \in slots : NextAt(s, n, c.ways[k][w].block) <= NextAt(s, n, v)
      BY <2>1, <2>9
    <3>2. v \in Class(Held(c, g), cls, cls[b])
      BY <2>7, <2>9 DEF k
    <3>3. Held(d, g) = (Held(c, g) \ {v}) \cup {b}
      <4>1. ASSUME NEW x \in Held(d, g) PROVE x \in (Held(c, g) \ {v}) \cup {b}
        <5>1. PICK j \in SetsOf(g), w \in slots : d.ways[j][w].block = x
          BY DEF Held, slots
        <5>2. CASE j = k /\ w = way
          BY <2>3, <5>1, <5>2
        <5>3. CASE j # k \/ w # way
          <6>1. c.ways[j][w].block = x /\ x \in Blocks
            BY <2>3, <5>1, <5>3 DEF Held
          <6>2. x \in Held(c, g)
            BY <6>1 DEF Held, slots
          <6>3. x # v
            BY <1>1, <1>3, <5>3, <6>1
          <6> QED BY <6>2, <6>3
        <5> QED BY <5>2, <5>3
      <4>2. ASSUME NEW x \in Held(c, g), x # v PROVE x \in Held(d, g)
        <5>1. PICK j \in SetsOf(g), w \in slots : c.ways[j][w].block = x
          BY DEF Held, slots
        <5>2. j # k \/ w # way
          BY <4>2, <5>1
        <5>3. d.ways[j][w].block = x
          BY <2>3, <5>1, <5>2
        <5> QED BY <5>3 DEF Held, slots
      <4>3. b \in Held(d, g)
        BY <1>1, <2>3 DEF Held, slots
      <4> QED BY <4>1, <4>2, <4>3
    <3>4. ~(Cardinality(Class(Held(c, g), cls, cls[b])) < g.ways)
      BY <2>7, <3>1 DEF k
    <3>5. \A x \in Class(Held(c, g), cls, cls[b]) : up[x] <= up[v]
      <4>1. ASSUME NEW x \in mates PROVE up[x] <= up[v]
        <5>1. x \in Blocks /\ v \in Blocks
          BY <3>2 DEF Class, Held
        <5>2. NextAt(s, n, x) <= NextAt(s, n, v)
          BY <2>7, <3>1
        <5> QED BY <5>1, <5>2 DEF Upcoming
      <4> QED BY <4>1 DEF k
    <3> HIDE DEF v, up
    <3>6. Serves(Held(c, g), Held(d, g), c.n["misses"], d.n["misses"], b, up, cls, g.ways)
      BY <2>6, <3>2, <3>3, <3>4, <3>5 DEF Serves
    <3> QED BY <2>5, <3>6 DEF d, b, cls, up
  <2> QED BY <2>8, <2>9
<1> QED BY <1>7, <1>8

-----------------------------------------------------------------------------
(* The two bounds together.                                                *)

\* Every block in one set: the cache is fully-associative.
Single == [x \in Blocks |-> 0]

\* What opt_misses held before the reference it handles, and its misses then.
Before(H, m) ==
  \/ pc = "next" /\ H = DOMAIN resident /\ m = misses
  \/ pc = "pop" /\ H = DOMAIN resident /\ m = misses - 1
  \/ /\ pc = "install" /\ m = misses - 1
     /\ \E v \in Blocks \ (DOMAIN resident \cup {blocks[i]}) :
          /\ H = DOMAIN resident \cup {v} /\ Cardinality(H) = capacity
          /\ \A x \in DOMAIN resident : resident[x] <= NextAt(blocks, i, v)

\* The invariant: run_opt keeps the next uses right, its cache leads those of its
\* sets, and opt_misses leads those of one set and is no worse than run_opt.
BoundIsOpt ==
  /\ geometry \in Geometries /\ capacity = NumBlocks(geometry)
  /\ OptCache(bound, geometry, blocks, i)

SplitLeads ==
  /\ Found(best.split, SetNumbers(geometry), geometry.ways)
  /\ Leads(Held(bound, geometry), bound.n["misses"], best.split, Upcoming(blocks, i), SetNumbers(geometry))

FlatLeads ==
  /\ Found(best.flat, Single, capacity)
  /\ \E H, m :
       /\ Before(H, m)
       /\ Leads(H, m, best.flat, Upcoming(blocks, i), Single)
       /\ NoWorse(H, m, Held(bound, geometry), bound.n["misses"], Upcoming(blocks, i), Single)

Best == BoundIsOpt /\ SplitLeads /\ FlatLeads

\* What GeometriesAssumption says of one geometry.
LEMMA GeometryFacts ==
  ASSUME NEW g \in Geometries
  PROVE  /\ GeometryOK(g) /\ NumBlocks(g) \in Nat \ {0}
         /\ SetNumbers(g) \in [Blocks -> SetsOf(g)] /\ SetsOf(g) \subseteq Nat
<1>1. g.sets \in Nat \ {0} /\ g.ways \in Nat \ {0} /\ g.index \in IndexNames /\ IndexDefined(g.index, g.sets)
  BY GeometriesAssumption
<1>2. NumBlocks(g) \in Nat \ {0}
  BY <1>1 DEF NumBlocks
<1>3. \A b \in Blocks : IndexOf(g.index, g.sets, b) \in SetsOf(g)
  BY <1>1, BlocksAssumption, IndexInRange DEF SetsOf
<1> QED BY <1>1, <1>2, <1>3 DEF GeometryOK, SetNumbers, SetsOf

\* opt_misses knows when its resident blocks are referenced next.
LEMMA ResidentIsNext ==
  ASSUME Inv, NEW x \in DOMAIN resident
  PROVE  x \in Blocks /\ resident[x] = NextAt(blocks, i, x)
<1>1. x \in Blocks /\ blocks \in Seq(Blocks) /\ i \in 1 .. Len(blocks) + 1
  BY DEF Inv, TypeOK
<1>2. IsNextAt(resident[x], blocks, i, x)
  <2>1. /\ resident[x] \in i .. Len(blocks) + 1
        /\ resident[x] <= Len(blocks) => blocks[resident[x]] = x
        /\ \A n \in i .. resident[x] - 1 : blocks[n] # x
    BY DEF Inv, UsesAhead
  <2>2. ASSUME NEW n \in i .. Len(blocks), blocks[n] = x PROVE resident[x] <= n
    BY <1>1, <2>1, <2>2
  <2> QED BY <2>1, <2>2 DEF IsNextAt
<1> QED BY <1>1, <1>2, NextAtOnly

\* A reference handled to its end serves the cache there was before it.
LEMMA RecordServes ==
  ASSUME Inv, Hit \/ FillFree \/ Install, NEW H, NEW m, Before(H, m), IsFiniteSet(H)
  PROVE  /\ Serves(H, DOMAIN resident', m, misses', blocks[i], Upcoming(blocks, i), Single, capacity)
         /\ i \in 1 .. Len(blocks) /\ i' = i + 1 /\ pc' = "next" /\ blocks' = blocks /\ capacity' = capacity
<1> DEFINE b == blocks[i]
           up == Upcoming(blocks, i)
<1>1. blocks \in Seq(Blocks) /\ capacity \in Nat \ {0} /\ misses \in Nat /\ i \in 1 .. Len(blocks) + 1
  BY DEF Inv, TypeOK
<1>2. Record /\ i \in 1 .. Len(blocks)
  BY <1>1 DEF Hit, FillFree, Install, Begin, Inv, TypeOK
<1>3. /\ i' = i + 1 /\ pc' = "next" /\ blocks' = blocks /\ capacity' = capacity
      /\ DOMAIN resident' = DOMAIN resident \cup {b}
  BY <1>2 DEF Record
<1>4. b \in Blocks /\ DOMAIN resident \subseteq Blocks
  BY <1>1, <1>2 DEF Inv, TypeOK
<1> HIDE DEF b
<1>5. \A X \in SUBSET Blocks : Class(X, Single, Single[b]) = X
  BY <1>4 DEF Class, Single
<1>6. ASSUME Hit PROVE Serves(H, DOMAIN resident', m, misses', b, up, Single, capacity)
  <2>1. b \in DOMAIN resident /\ misses' = misses /\ H = DOMAIN resident /\ m = misses
    BY <1>6 DEF Hit, Begin, Before, b
  <2>2. DOMAIN resident' = H /\ b \in H
    BY <1>3, <2>1
  <2>3. misses' = m + One(b \notin H)
    BY <1>1, <2>1, <2>2 DEF One
  <2> HIDE DEF up
  <2>4. Serves(H, DOMAIN resident', m, misses', b, up, Single, capacity)
    BY <2>2, <2>3 DEF Serves
  <2> QED BY <2>4
<1>7. ASSUME FillFree PROVE Serves(H, DOMAIN resident', m, misses', b, up, Single, capacity)
  <2>1. b \notin DOMAIN resident /\ ~Full /\ misses' = misses + 1 /\ H = DOMAIN resident /\ m = misses
    BY <1>7 DEF FillFree, Begin, Before, b
  <2>2. Cardinality(H) < capacity
    <3>1. Cardinality(H) \in Nat /\ Cardinality(H) <= capacity
      BY <2>1, FS_CardinalityType DEF Inv, Occupancy
    <3> QED BY <1>1, <2>1, <3>1 DEF Full
  <2>3. misses' = m + One(b \notin H)
    BY <1>1, <2>1 DEF One
  <2> HIDE DEF up
  <2>4. Class(H, Single, Single[b]) = H /\ DOMAIN resident' = H \cup {b} /\ b \notin H
    BY <1>3, <1>4, <1>5, <2>1
  <2>5. Serves(H, DOMAIN resident', m, misses', b, up, Single, capacity)
    BY <2>2, <2>3, <2>4 DEF Serves
  <2> QED BY <2>5
<1>8. ASSUME Install PROVE Serves(H, DOMAIN resident', m, misses', b, up, Single, capacity)
  <2>1. pc = "install" /\ misses' = misses
    BY <1>8 DEF Install
  <2>2. m = misses - 1 /\ b \notin DOMAIN resident
    BY <2>1 DEF Before, Inv, Occupancy, b
  <2>3. PICK v \in Blocks \ (DOMAIN resident \cup {b}) :
          /\ H = DOMAIN resident \cup {v} /\ Cardinality(H) = capacity
          /\ \A x \in DOMAIN resident : resident[x] <= NextAt(blocks, i, v)
    BY <2>1 DEF Before, b
  <2>4. b \notin H /\ H \in SUBSET Blocks /\ DOMAIN resident' = (H \ {v}) \cup {b} /\ v \in H
    BY <1>3, <1>4, <2>2, <2>3
  <2>5. \A x \in H : up[x] <= up[v]
    <3>1. NextAt(blocks, i, v) \in Nat
      BY <1>1, NextAtIs DEF IsNextAt
    <3>2. ASSUME NEW x \in H PROVE NextAt(blocks, i, x) <= NextAt(blocks, i, v)
      <4>1. x = v \/ x \in DOMAIN resident
        BY <2>3
      <4> QED BY <2>3, <3>1, <4>1, ResidentIsNext
    <3> QED BY <2>4, <3>2 DEF Upcoming
  <2>6. misses' = m + One(b \notin H)
    BY <1>1, <2>1, <2>2, <2>4 DEF One
  <2>7. ~(Cardinality(H) < capacity)
    BY <1>1, <2>3
  <2> HIDE DEF up
  <2>8. Serves(H, DOMAIN resident', m, misses', b, up, Single, capacity)
    <3>1. Class(H, Single, Single[b]) = H
      BY <1>5, <2>4
    <3> QED BY <2>4, <2>5, <2>6, <2>7, <3>1 DEF Serves
  <2> QED BY <2>8
<1>9. Serves(H, DOMAIN resident', m, misses', b, up, Single, capacity)
  BY <1>2, <1>6, <1>7, <1>8
<1> QED BY <1>2, <1>3, <1>9 DEF b, up

\* A cache that serves a reference takes its block.
LEMMA ServesTakes ==
  ASSUME NEW H, NEW H2, NEW m, NEW m2, NEW b, NEW up, NEW cls, NEW ways, Serves(H, H2, m, m2, b, up, cls, ways)
  PROVE  Takes(H, H2, m, m2, b)
  BY DEF Serves, Takes

\* Preload gives a cache the stream and changes nothing else.
LEMMA PreloadIs ==
  ASSUME NEW c, c = [g |-> c.g, ways |-> c.ways, order |-> c.order, drawn |-> c.drawn, opt |-> c.opt,
                     buffer |-> c.buffer, shadow |-> c.shadow, seen |-> c.seen, n |-> c.n], NEW s
  PROVE  LET d == Preload(c, s)
         IN /\ IsCache(d) /\ d.g = c.g /\ d.ways = c.ways /\ d.buffer = c.buffer /\ d.n = c.n
            /\ IsOpt(d.opt) /\ d.opt.future = s /\ d.opt.cursor = 0 /\ ~d.opt.raised
<1> DEFINE o == [future |-> s, cursor |-> 0, nextUse |-> << >>, raised |-> FALSE]
           d == Preload(c, s)
<1>1. IsOpt(o) /\ o.future = s /\ o.cursor = 0
  BY DEF IsOpt
<1>2. ~o.raised
  OBVIOUS
<1> HIDE DEF o
<1>3. d = [g |-> c.g, ways |-> c.ways, order |-> c.order, drawn |-> c.drawn, opt |-> o, buffer |-> c.buffer,
           shadow |-> c.shadow, seen |-> c.seen, n |-> c.n]
  <2>1. d = [c EXCEPT !.opt = o]
    BY DEF Preload, o
  <2> HIDE DEF d
  <2> QED BY <2>1
<1> HIDE DEF d
<1>4. IsCache(d) /\ d.g = c.g /\ d.ways = c.ways /\ d.buffer = c.buffer /\ d.n = c.n /\ d.opt = o
  BY <1>3 DEF IsCache
<1> QED BY <1>1, <1>2, <1>4 DEF d

\* The cache run_opt starts with.
LEMMA FreshOptCache ==
  ASSUME NEW g \in Geometries, NEW s
  PROVE  LET c == Preload(Cache([g EXCEPT !.policy = "opt", !.entries = 0]), s)
         IN OptCache(c, g, s, 1) /\ Held(c, g) = {} /\ c.n["misses"] = 0
<1> DEFINE h == [g EXCEPT !.policy = "opt", !.entries = 0]
           fresh == Cache(h)
           c == Preload(fresh, s)
           empty == [k \in SetsOf(g) |-> [w \in WaysOf(g) |-> NoLine]]
<1>1. h.policy = "opt" /\ h.entries = 0 /\ h.sets = g.sets /\ h.ways = g.ways /\ h.index = g.index
  BY GeometriesAssumption
<1> HIDE DEF h
<1>2. SetsOf(h) = SetsOf(g) /\ WaysOf(h) = WaysOf(g)
  BY <1>1 DEF SetsOf, WaysOf
<1>3. /\ fresh.g = h /\ fresh.ways = empty /\ fresh.buffer = << >> /\ fresh.n = Zero
      /\ fresh = [g |-> fresh.g, ways |-> fresh.ways, order |-> fresh.order, drawn |-> fresh.drawn, opt |-> fresh.opt,
                  buffer |-> fresh.buffer, shadow |-> fresh.shadow, seen |-> fresh.seen, n |-> fresh.n]
  <2> DEFINE order == [k \in SetsOf(h) |-> [n \in 1 .. h.ways |-> n - 1]]
             opt == [future |-> << >>, cursor |-> 0, nextUse |-> << >>, raised |-> FALSE]
  <2>1. fresh = [g |-> h, ways |-> empty, order |-> order, drawn |-> 0, opt |-> opt, buffer |-> << >>,
                 shadow |-> << >>, seen |-> {}, n |-> Zero]
    BY <1>2 DEF Cache
  <2> HIDE DEF fresh, order, opt, empty
  <2> QED BY <2>1
<1> HIDE DEF fresh
<1>4. /\ IsCache(c) /\ c.g = h /\ c.ways = empty /\ c.buffer = << >> /\ c.n = Zero
      /\ IsOpt(c.opt) /\ c.opt.future = s /\ c.opt.cursor = 0 /\ ~c.opt.raised
  BY <1>3, PreloadIs
<1> HIDE DEF c
<1>5. NoLine \in OptLines /\ NoLine.block = EMPTY
  BY DEF NoLine, Line, OptLines
<1>6. Zero \in [Counters -> Nat] /\ Zero["misses"] = 0
  BY DEF Zero, Counters
<1>7. \A k \in SetsOf(g), w \in WaysOf(g) : c.ways[k][w] = NoLine
  BY <1>4
<1>8. Held(c, g) = {}
  <2>1. EMPTY \notin Blocks
    BY BlocksAssumption DEF EMPTY
  <2> QED BY <1>5, <1>7, <2>1 DEF Held
<1>9. c.ways \in [SetsOf(g) -> [WaysOf(g) -> OptLines]]
  BY <1>4, <1>5
<1> HIDE DEF empty
<1>10. OptCache(c, g, s, 1)
  BY <1>1, <1>4, <1>5, <1>6, <1>7, <1>9 DEF OptCache
<1> QED BY <1>4, <1>6, <1>8, <1>10 DEF c, fresh, h

\* The next references are positions in the stream, or Never.
LEMMA UpcomingType ==
  ASSUME NEW s \in Seq(Blocks), NEW n \in 1 .. Len(s) + 1
  PROVE  Upcoming(s, n) \in [Blocks -> Nat] /\ \A b \in Blocks : Upcoming(s, n)[b] > 0
<1>1. ASSUME NEW b \in Blocks PROVE NextAt(s, n, b) \in Nat /\ NextAt(s, n, b) > 0
  BY NextAtIs DEF IsNextAt
<1> QED BY <1>1 DEF Upcoming

\* At first no cache holds anything.
LEMMA BestInit == Init => Inv /\ Best
<1> SUFFICES ASSUME NEW g \in Geometries, NEW stream \in Streams,
                    InitOpt(stream, NumBlocks(g)), geometry = g,
                    bound = Preload(Cache([g EXCEPT !.policy = "opt", !.entries = 0]), stream),
                    best = [flat |-> NothingHeld, split |-> NothingHeld]
             PROVE  Inv /\ Best
  BY DEF Init
<1> DEFINE up == Upcoming(blocks, i)
           cls == SetNumbers(g)
<1>1. GeometryOK(g) /\ NumBlocks(g) \in Nat \ {0} /\ cls \in [Blocks -> Nat]
  BY GeometryFacts
<1>2. Inv
  BY <1>1, InitInv DEF InitOptMisses
<1>3. blocks = stream /\ capacity = NumBlocks(g) /\ i = 1 /\ pc = "next" /\ DOMAIN resident = {} /\ misses = 0
  BY DEF InitOpt
<1>4. OptCache(bound, g, blocks, i) /\ Held(bound, g) = {} /\ bound.n["misses"] = 0
  BY <1>3, FreshOptCache
<1>5. up \in [Blocks -> Nat]
  BY <1>2, UpcomingType DEF Inv, TypeOK
<1>6. Single \in [Blocks -> Nat] /\ g.ways \in Nat
  BY <1>1 DEF Single, GeometryOK
<1> HIDE DEF up, cls
<1>7. /\ Found(NothingHeld, cls, g.ways) /\ Leads({}, 0, NothingHeld, up, cls)
      /\ Found(NothingHeld, Single, capacity) /\ Leads({}, 0, NothingHeld, up, Single)
  BY <1>1, <1>3, <1>5, <1>6, NothingLeads
<1>8. BoundIsOpt
  BY <1>3, <1>4 DEF BoundIsOpt
<1>9. SplitLeads
  BY <1>4, <1>7 DEF SplitLeads, up, cls
<1>10. FlatLeads
  <2>1. NoWorse({}, 0, {}, 0, up, Single)
    <3>1. [held |-> {}, misses |-> 0] \in NothingHeld
      BY DEF NothingHeld
    <3>2. [held |-> {}, misses |-> 0].held = {} /\ [held |-> {}, misses |-> 0].misses = 0
      OBVIOUS
    <3> QED BY <1>7, <3>1, <3>2 DEF Leads
  <2>2. Before({}, 0)
    BY <1>3 DEF Before
  <2> QED BY <1>4, <1>7, <2>1, <2>2 DEF FlatLeads, up
<1> QED BY <1>2, <1>8, <1>9, <1>10 DEF Best

\* Measuring the reference that opt_misses has just handled.
LEMMA MeasuredKeepsBest ==
  ASSUME Inv, Inv', Best, Hit \/ FillFree \/ Install, Measure
  PROVE  Best'
<1> DEFINE g == geometry
           b == blocks[i]
           C == Held(bound, g)
           C2 == Held(bound', g)
           H2 == DOMAIN resident'
           mc == bound.n["misses"]
           mc2 == bound'.n["misses"]
           up == Upcoming(blocks, i)
           up2 == Upcoming(blocks, i + 1)
           cls == SetNumbers(g)
           rivals == {x \in Blocks : SetOf(bound, x) = SetOf(bound, b)}
<1>1. /\ g \in Geometries /\ capacity = NumBlocks(g) /\ OptCache(bound, g, blocks, i)
      /\ Found(best.split, cls, g.ways) /\ Leads(C, mc, best.split, up, cls)
      /\ Found(best.flat, Single, capacity)
  BY DEF Best, BoundIsOpt, SplitLeads, FlatLeads
<1>2. PICK H, m : Before(H, m) /\ Leads(H, m, best.flat, up, Single) /\ NoWorse(H, m, C, mc, up, Single)
  BY DEF Best, FlatLeads
<1>3. /\ GeometryOK(g) /\ NumBlocks(g) \in Nat \ {0} /\ cls \in [Blocks -> SetsOf(g)] /\ cls \in [Blocks -> Nat]
      /\ g.ways \in Nat \ {0} /\ Single \in [Blocks -> Nat]
  BY <1>1, GeometryFacts DEF GeometryOK, Single
<1>4. H \in SUBSET Blocks /\ IsFiniteSet(H) /\ m \in Nat
  <2>1. [held |-> H, misses |-> m] \in best.flat
    BY <1>2 DEF Leads
  <2> QED BY <1>1, <2>1 DEF Found
<1>5. /\ Serves(H, H2, m, misses', b, up, Single, capacity)
      /\ i \in 1 .. Len(blocks) /\ i' = i + 1 /\ pc' = "next" /\ blocks' = blocks /\ capacity' = capacity
  BY <1>2, <1>4, RecordServes
<1>6. blocks \in Seq(Blocks) /\ b \in Blocks
  BY <1>5 DEF Inv, TypeOK
<1>7. /\ bound' = Access(bound, b, FALSE) /\ geometry' = g
      /\ best' = [flat |-> Replacements(best.flat, b, Blocks, capacity),
                  split |-> Replacements(best.split, b, rivals, g.ways)]
  BY DEF Measure
<1>8. OptCache(bound', g, blocks, i + 1) /\ Serves(C, C2, mc, mc2, b, up, cls, g.ways)
  BY <1>1, <1>3, <1>5, <1>6, <1>7, OptCacheServes
<1>9. Advances(up, up2, b) /\ up \in [Blocks -> Nat] /\ up2 \in [Blocks -> Nat]
  BY <1>5, <1>6, UpcomingAdvances DEF Advances
<1>10. rivals = {x \in Blocks : cls[x] = cls[b]} /\ Blocks = {x \in Blocks : Single[x] = Single[b]}
  <2>1. bound.g.index = g.index /\ bound.g.sets = g.sets
    BY <1>1 DEF OptCache
  <2>2. \A x \in Blocks : SetOf(bound, x) = cls[x]
    BY <2>1 DEF SetOf, SetNumbers
  <2> HIDE DEF cls
  <2> QED BY <1>6, <2>2 DEF Single
<1> HIDE DEF up, up2, cls, rivals, b, C, C2, mc, mc2, H2, g
<1>11. Found(best'.split, cls, g.ways) /\ Leads(C2, mc2, best'.split, up2, cls)
  BY <1>1, <1>3, <1>6, <1>7, <1>8, <1>9, <1>10, LeadStays
<1>12. Found(best'.flat, Single, capacity) /\ Leads(H2, misses', best'.flat, up2, Single)
  BY <1>1, <1>2, <1>3, <1>5, <1>6, <1>7, <1>9, <1>10, LeadStays
<1>13. NoWorse(H2, misses', C2, mc2, up2, Single)
  <2>1. C \in SUBSET Blocks /\ IsFiniteSet(C) /\ mc \in Nat
    <3>1. [held |-> C, misses |-> mc] \in best.split
      BY <1>1 DEF Leads
    <3> QED BY <1>1, <3>1 DEF Found
  <2>2. C2 \in SUBSET Blocks /\ IsFiniteSet(C2) /\ mc2 \in Nat
    <3>1. [held |-> C2, misses |-> mc2] \in best'.split
      BY <1>11 DEF Leads
    <3> QED BY <1>11, <3>1 DEF Found
  <2>3. H2 \in SUBSET Blocks /\ IsFiniteSet(H2) /\ misses' \in Nat
    <3>1. [held |-> H2, misses |-> misses'] \in best'.flat
      BY <1>12 DEF Leads
    <3> QED BY <1>12, <3>1 DEF Found
  <2>4. \A X \in SUBSET Blocks : Class(X, Single, Single[b]) = X
    BY <1>6 DEF Class, Single
  <2>5. Cardinality(Class(C2, Single, Single[b])) <= capacity
    BY <1>1, <1>3, <1>8, <2>2, <2>4, HeldIsSmall DEF C2
  <2>6. Takes(H, H2, m, misses', b) /\ Takes(C, C2, mc, mc2, b)
    BY <1>5, <1>8, ServesTakes
  <2>7. H \subseteq H2 \/ GivesUpLast(H, H2, b, up, Single, capacity)
    <3>1. Cardinality(H) <= capacity /\ Class(H, Single, Single[b]) = H
      <4>1. [held |-> H, misses |-> m] \in best.flat
        BY <1>2 DEF Leads
      <4>2. Single[b] \in Nat
        BY <1>6 DEF Single
      <4> QED BY <1>1, <1>4, <2>4, <4>1, <4>2 DEF Found
    <3> QED BY <1>1, <1>3, <1>4, <1>5, <3>1, ServesGivesUp
  <2>8. capacity \in Nat /\ \A x \in Blocks \ {b} : up[x] > up[b] /\ up2[x] = up[x]
    BY <1>1, <1>3, <1>9 DEF Advances
  <2> QED BY <1>2, <1>3, <1>4, <1>6, <1>9, <2>1, <2>2, <2>3, <2>5, <2>6, <2>7, <2>8, StaysNoWorse
<1>14. BoundIsOpt'
  BY <1>1, <1>5, <1>7, <1>8 DEF BoundIsOpt, g
<1>15. SplitLeads'
  BY <1>5, <1>7, <1>11 DEF SplitLeads, up2, cls, C2, mc2, g
<1>16. FlatLeads'
  <2>1. PICK K, n : K = H2 /\ n = misses'
    OBVIOUS
  <2>2. pc' = "next" /\ K = DOMAIN resident' /\ n = misses'
    BY <1>5, <2>1 DEF H2
  <2>3. Leads(K, n, best'.flat, up2, Single) /\ NoWorse(K, n, C2, mc2, up2, Single)
    BY <1>12, <1>13, <2>1
  <2> QED BY <1>5, <1>7, <1>12, <2>2, <2>3 DEF FlatLeads, Before, up2, C2, mc2, g
<1> QED BY <1>14, <1>15, <1>16 DEF Best

\* The steps between, which only opt_misses takes.
LEMMA EvictingKeepsBest ==
  ASSUME Inv, Inv', Best, MissFull \/ PopStale \/ PopVictim, UNCHANGED measureVars
  PROVE  Best'
<1> DEFINE up == Upcoming(blocks, i)
<1>1. blocks' = blocks /\ capacity' = capacity /\ i' = i /\ geometry' = geometry /\ bound' = bound /\ best' = best
  BY DEF MissFull, PopStale, PopVictim, Popping, measureVars
<1>2. BoundIsOpt' /\ SplitLeads'
  BY <1>1 DEF Best, BoundIsOpt, SplitLeads
<1>3. PICK H, m : /\ Before(H, m) /\ Leads(H, m, best.flat, up, Single)
                  /\ NoWorse(H, m, Held(bound, geometry), bound.n["misses"], up, Single)
  BY DEF Best, FlatLeads
<1>4. misses \in Nat
  BY DEF Inv, TypeOK
<1>5. \/ pc' = "next" /\ H = DOMAIN resident' /\ m = misses'
      \/ pc' = "pop" /\ H = DOMAIN resident' /\ m = misses' - 1
      \/ /\ pc' = "install" /\ m = misses' - 1
         /\ \E v \in Blocks \ (DOMAIN resident' \cup {blocks[i]}) :
              /\ H = DOMAIN resident' \cup {v} /\ Cardinality(H) = capacity
              /\ \A x \in DOMAIN resident' : resident'[x] <= NextAt(blocks, i, v)
  <2>1. CASE MissFull
    <3>1. pc = "next" /\ pc' = "pop" /\ misses' = misses + 1 /\ resident' = resident
      BY <2>1 DEF MissFull, Begin
    <3> QED BY <1>3, <1>4, <3>1 DEF Before
  <2>2. CASE PopStale
    <3>1. pc = "pop" /\ pc' = "pop" /\ misses' = misses /\ resident' = resident
      BY <2>2 DEF PopStale, Popping
    <3> QED BY <1>3, <1>4, <3>1 DEF Before
  <2>3. CASE PopVictim
    <3> DEFINE v == Top.block
    <3>1. /\ pc = "pop" /\ heap # {} /\ Live(Top) /\ misses' = misses
          /\ pc' = "install" /\ resident' = [x \in DOMAIN resident \ {v} |-> resident[x]]
      BY <2>3 DEF PopVictim, Popping
    <3>2. v \in DOMAIN resident /\ \A x \in DOMAIN resident : resident[x] <= resident[v]
      BY <3>1, LiveTopIsFarthest
    <3> HIDE DEF v
    <3>3. v \in Blocks /\ resident[v] = NextAt(blocks, i, v)
      BY <3>2, ResidentIsNext
    <3>4. blocks[i] \notin DOMAIN resident /\ Cardinality(DOMAIN resident) = capacity
      BY <3>1 DEF Inv, Occupancy, Full
    <3>5. H = DOMAIN resident /\ m = misses - 1
      BY <1>3, <3>1 DEF Before
    <3>6. DOMAIN resident' = DOMAIN resident \ {v} /\ \A x \in DOMAIN resident' : resident'[x] = resident[x]
      BY <3>1
    <3> QED BY <3>1, <3>2, <3>3, <3>4, <3>5, <3>6
  <2> QED BY <2>1, <2>2, <2>3
<1> HIDE DEF up
<1>6. FlatLeads'
  BY <1>1, <1>3, <1>5 DEF Best, FlatLeads, Before, up
<1> QED BY <1>2, <1>6 DEF Best

\* Measuring leaves the variables of opt_misses to opt_misses.
LEMMA StepOpt == [Next]_vars => [NextOpt]_optVars
  BY DEF Next, vars, NextOpt

\* Every step keeps the invariant.
LEMMA BestStep == Inv /\ Best /\ [Next]_vars => Inv' /\ Best'
<1> SUFFICES ASSUME Inv, Best, [Next]_vars PROVE Inv' /\ Best'
  OBVIOUS
<1>1. Inv'
  BY StepOpt, StepInv
<1>2. CASE (Hit \/ FillFree \/ Install) /\ Measure
  BY <1>1, <1>2, MeasuredKeepsBest
<1>3. CASE (MissFull \/ PopStale \/ PopVictim) /\ UNCHANGED measureVars
  BY <1>1, <1>3, EvictingKeepsBest
<1>4. CASE UNCHANGED vars
  <2>1. /\ blocks' = blocks /\ capacity' = capacity /\ i' = i /\ pc' = pc /\ resident' = resident /\ misses' = misses
        /\ geometry' = geometry /\ bound' = bound /\ best' = best
    BY <1>4 DEF vars, optVars, measureVars
  <2>2. BoundIsOpt'
    BY <2>1 DEF Best, BoundIsOpt
  <2>3. SplitLeads'
    BY <2>1 DEF Best, SplitLeads
  <2>4. FlatLeads'
    BY <2>1 DEF Best, FlatLeads, Before
  <2> QED BY <1>1, <2>2, <2>3, <2>4 DEF Best
<1> QED BY <1>1, <1>2, <1>3, <1>4 DEF Next

\* opt.py:70 and :221, for every stream, geometry and number of references: opt_misses
\* has counted the fewest misses any replacement can have, run_opt the fewest with the
\* sets there are, and the second is never below the first.
THEOREM BeladyIsBest == Spec => []OptIsBest
<1>1. ASSUME Inv, Best PROVE OptIsBest
  <2> SUFFICES ASSUME pc = "next"
               PROVE  /\ misses = FewestMisses(best.flat)
                      /\ bound.n["misses"] = FewestMisses(best.split)
                      /\ bound.n["misses"] >= misses
                      /\ ~bound.opt.raised
    BY DEF OptIsBest
  <2> DEFINE up == Upcoming(blocks, i)
             C == Held(bound, geometry)
             mc == bound.n["misses"]
             H == DOMAIN resident
             cls == SetNumbers(geometry)
  <2>1. /\ Leads(H, misses, best.flat, up, Single) /\ NoWorse(H, misses, C, mc, up, Single)
        /\ Found(best.flat, Single, capacity)
        /\ Found(best.split, cls, geometry.ways) /\ Leads(C, mc, best.split, up, cls)
    BY <1>1 DEF Best, SplitLeads, FlatLeads, Before
  <2>2. up \in [Blocks -> Nat] /\ \A b \in Blocks : up[b] > 0
    BY <1>1, UpcomingType DEF Inv, TypeOK
  <2>3. Single \in [Blocks -> Nat] /\ cls \in [Blocks -> Nat]
    BY <1>1, GeometryFacts DEF Best, BoundIsOpt, Single
  <2>4. ~bound.opt.raised
    BY <1>1 DEF Best, BoundIsOpt, OptCache
  <2> HIDE DEF up, C, mc, H, cls
  <2>5. misses = FewestMisses(best.flat)
    BY <2>1, <2>2, <2>3, LeaderHasFewest
  <2>6. mc = FewestMisses(best.split)
    BY <2>1, <2>2, <2>3, LeaderHasFewest
  <2>7. mc >= misses
    <3> DEFINE u == [n \in Nat |-> 0]
    <3>1. C \in SUBSET Blocks /\ H \in SUBSET Blocks /\ mc \in Nat /\ misses \in Nat
      <4>1. [held |-> C, misses |-> mc] \in best.split /\ [held |-> H, misses |-> misses] \in best.flat
        BY <2>1 DEF Leads
      <4> QED BY <2>1, <4>1 DEF Found
    <3>2. Near(C, up, Single, u) = {} /\ Near(H, up, Single, u) = {}
      BY <2>2, <2>3, <3>1 DEF Near
    <3>3. u \in [Nat -> Nat]
      OBVIOUS
    <3> HIDE DEF u
    <3>4. Cardinality(Near(C, up, Single, u)) + misses <= Cardinality(Near(H, up, Single, u)) + mc
      BY <2>1, <3>3 DEF NoWorse
    <3> QED BY <3>1, <3>2, <3>4, FS_EmptySet
  <2> QED BY <2>4, <2>5, <2>6, <2>7 DEF mc
<1>2. [](Inv /\ Best) => []OptIsBest
  BY <1>1, PTL
<1>3. Spec => [](Inv /\ Best)
  BY BestInit, BestStep, PTL DEF Spec
<1> QED BY <1>2, <1>3

-----------------------------------------------------------------------------
(* The row buffers.                                                        *)

\* The row of reference n of stream s, and its bank.
RowAt(s, n) == Row(Parameters, s[n])
BankAt(s, n) == Bank(Parameters, RowAt(s, n))

\* `row' is open in the bank after k references.
LeftOpen(s, k, bank, row) ==
  \/ row = CLOSED /\ \A m \in 1 .. k : BankAt(s, m) # bank
  \/ \E m \in 1 .. k : /\ BankAt(s, m) = bank /\ row = RowAt(s, m)
                       /\ \A j \in m + 1 .. k : BankAt(s, j) # bank

\* The references whose bank was last used for the same row, and the others; the
\* references somebody waits for.
Again(s) ==
  {n \in 1 .. Len(s) :
     \E m \in 1 .. n - 1 : /\ BankAt(s, m) = BankAt(s, n) /\ RowAt(s, m) = RowAt(s, n)
                           /\ \A j \in m + 1 .. n - 1 : BankAt(s, j) # BankAt(s, n)}
Anew(s) == (1 .. Len(s)) \ Again(s)
Waited(s) == {n \in 1 .. Len(s) : n % 2 = 1}

IsMemory(m) ==
  /\ m = [p |-> Parameters, open |-> m.open, n |-> m.n]
  /\ m.open \in [Banks(Parameters) -> Int] /\ m.n \in [MemoryCounters -> Int]

OpenAfter(m, s, k) == \A bank \in Banks(Parameters) : LeftOpen(s, k, bank, m.open[bank])

\* The counters of the references in M.
Tallied(n, s, M) ==
  /\ n["rowHits"] = Cardinality(M \cap Again(s))
  /\ n["rowMisses"] = Cardinality(M \cap Anew(s))
  /\ n["chargedCycles"] = (Parameters.rowHit * Cardinality(M \cap (Waited(s) \cap Again(s))))
                          + (Parameters.rowMiss * Cardinality(M \cap (Waited(s) \cap Anew(s))))

LEMMA ParameterFacts ==
  /\ Parameters.type = "row-buffer" /\ Parameters.rowSize \in Nat \ {0} /\ Parameters.banks \in Nat \ {0}
  /\ Parameters.rowHit \in Int /\ Parameters.rowMiss \in Int
  /\ Banks(Parameters) = 0 .. Parameters.banks - 1
  BY ParametersAssumption DEF MemoryValid, Banks

LEMMA RowFacts ==
  ASSUME NEW s \in Seq(Blocks), NEW n \in 1 .. Len(s)
  PROVE  /\ s[n] \in Nat /\ RowAt(s, n) \in Nat /\ BankAt(s, n) \in Banks(Parameters)
<1>1. s[n] \in Nat
  <2>1. s[n] \in Blocks
    OBVIOUS
  <2> QED BY <2>1, BlocksAssumption
<1>2. ASSUME NEW x \in Nat, NEW d \in Nat \ {0} PROVE x \div d \in Nat /\ x % d \in 0 .. d - 1
  OBVIOUS
<1>3. RowAt(s, n) \in Nat
  BY <1>1, <1>2, ParameterFacts DEF RowAt, Row
<1>4. BankAt(s, n) \in 0 .. Parameters.banks - 1
  BY <1>2, <1>3, ParameterFacts DEF BankAt, Bank
<1> QED BY <1>1, <1>3, <1>4, ParameterFacts

\* One member more.
LEMMA CountOneMore ==
  ASSUME NEW M, IsFiniteSet(M), NEW x, x \notin M, NEW H
  PROVE  /\ Cardinality(M \cap H) \in Nat
         /\ Cardinality((M \cup {x}) \cap H) = Cardinality(M \cap H) + IF x \in H THEN 1 ELSE 0
<1> DEFINE X == M \cap H
<1>1. IsFiniteSet(X)
  BY FS_Subset
<1>2. Cardinality(X) \in Nat
  BY <1>1, FS_CardinalityType
<1>3. CASE x \in H
  <2>1. (M \cup {x}) \cap H = X \cup {x} /\ x \notin X
    BY <1>3
  <2>2. Cardinality(X \cup {x}) = Cardinality(X) + 1
    BY <1>1, <2>1, FS_AddElement
  <2> HIDE DEF X
  <2> QED BY <1>2, <1>3, <2>1, <2>2 DEF X
<1>4. CASE x \notin H
  <2>1. (M \cup {x}) \cap H = X
    BY <1>4
  <2>2. Cardinality((M \cup {x}) \cap H) = Cardinality(X)
    BY <2>1
  <2> QED BY <1>2, <1>4, <2>2
<1> QED BY <1>3, <1>4

\* What an access leaves behind.
LEMMA ServeEffect ==
  ASSUME NEW m, IsMemory(m), NEW b, NEW n \in Nat, NEW m2, m2 = MemoryAccess(m, n, b).memory,
         NEW row, row = Row(Parameters, b), NEW bank \in Banks(Parameters), bank = Bank(Parameters, row)
  PROVE  /\ m2 = [p |-> Parameters, open |-> m2.open, n |-> m2.n]
         /\ m2.open = [m.open EXCEPT ![bank] = row]
         /\ m2.n \in [MemoryCounters -> Int]
         /\ m2.n["rowHits"] = m.n["rowHits"] + IF m.open[bank] = row THEN 1 ELSE 0
         /\ m2.n["rowMisses"] = m.n["rowMisses"] + IF m.open[bank] = row THEN 0 ELSE 1
         /\ m2.n["chargedCycles"] = m.n["chargedCycles"]
              + IF n % 2 # 1 THEN 0 ELSE IF m.open[bank] = row THEN Parameters.rowHit ELSE Parameters.rowMiss
<1> DEFINE open == m.open[bank] = row
           cycles == IF open THEN Parameters.rowHit ELSE Parameters.rowMiss
           outcome == IF open THEN "rowHits" ELSE "rowMisses"
           names(charged, operation) == {operation, outcome} \cup (IF charged THEN {"chargedAccesses"} ELSE {})
           counted(charged, operation) ==
             [x \in MemoryCounters |-> IF x \in names(charged, operation) THEN m.n[x] + 1 ELSE m.n[x]]
           n2(charged, operation) ==
             [counted(charged, operation) EXCEPT !["chargedCycles"] = IF charged THEN @ + cycles ELSE @]
           open2 == [m.open EXCEPT ![bank] = row]
<1>1. /\ m = [p |-> Parameters, open |-> m.open, n |-> m.n] /\ m.p = Parameters
      /\ m.open \in [Banks(Parameters) -> Int] /\ m.n \in [MemoryCounters -> Int]
  BY DEF IsMemory
<1>2. ~ConstantLatency(m) /\ (RowOpen(m, b) <=> open) /\ Opened(m, b) = open2
  BY <1>1, ParameterFacts DEF ConstantLatency, RowOpen, Opened
<1>3. ASSUME NEW charged \in BOOLEAN, NEW operation \in {"reads", "writes"}
      PROVE  Serve(m, b, charged, operation).memory = [m EXCEPT !.open = open2, !.n = n2(charged, operation)]
  <2> DEFINE served == Serve(m, b, charged, operation)
             its == {operation} \cup (IF ConstantLatency(m) THEN {}
                                      ELSE {IF RowOpen(m, b) THEN "rowHits" ELSE "rowMisses"})
                    \cup (IF charged THEN {"chargedAccesses"} ELSE {})
             cost == IF ConstantLatency(m) THEN m.p.latency
                     ELSE IF RowOpen(m, b) THEN m.p.rowHit ELSE m.p.rowMiss
             all == [x \in MemoryCounters |-> IF x \in its THEN m.n[x] + 1 ELSE m.n[x]]
  <2>1. served.memory = [m EXCEPT !.open = Opened(m, b),
                                  !.n = [all EXCEPT !["chargedCycles"] = IF charged THEN @ + cost ELSE @]]
    BY DEF Serve
  <2>2. its = names(charged, operation)
    BY <1>2
  <2>3. cost = cycles
    BY <1>1, <1>2
  <2> HIDE DEF its, cost, names, cycles, served
  <2>4. all = counted(charged, operation)
    BY <2>2
  <2> HIDE DEF all, counted
  <2> QED BY <1>2, <2>1, <2>3, <2>4 DEF served
<1>4. PICK charged \in BOOLEAN, operation \in {"reads", "writes"} :
        (charged <=> n % 2 = 1) /\ m2 = Serve(m, b, charged, operation).memory
  BY DEF MemoryAccess, Read, Write
<1> DEFINE after == n2(charged, operation)
<1>5. m2 = [m EXCEPT !.open = open2, !.n = after]
  <2> HIDE DEF n2, open2
  <2> QED BY <1>3, <1>4
<1>6. after \in [MemoryCounters -> Int]
  <2>1. counted(charged, operation) \in [MemoryCounters -> Int]
    BY <1>1
  <2>2. cycles \in Int
    BY ParameterFacts
  <2> HIDE DEF counted, cycles
  <2> QED BY <2>1, <2>2 DEF MemoryCounters
<1>7. after["rowHits"] = m.n["rowHits"] + IF open THEN 1 ELSE 0
  BY <1>1 DEF MemoryCounters
<1>8. after["rowMisses"] = m.n["rowMisses"] + IF open THEN 0 ELSE 1
  BY <1>1 DEF MemoryCounters
<1>9. after["chargedCycles"] = m.n["chargedCycles"] + IF n % 2 # 1 THEN 0 ELSE cycles
  BY <1>1, <1>4, ParameterFacts DEF MemoryCounters
<1> HIDE DEF open2, after
<1>10. m2 = [p |-> Parameters, open |-> open2, n |-> after]
  BY <1>1, <1>5
<1>11. m2.open = open2 /\ m2.n = after
  BY <1>10
<1> QED BY <1>6, <1>7, <1>8, <1>9, <1>10, <1>11 DEF open2

\* An access is a row hit if its bank was last used for the same row.
LEMMA OpenIsAgain ==
  ASSUME NEW s \in Seq(Blocks), NEW n \in 1 .. Len(s), NEW row, LeftOpen(s, n - 1, BankAt(s, n), row)
  PROVE  row = RowAt(s, n) <=> n \in Again(s)
<1>1. RowAt(s, n) \in Nat
  BY RowFacts
<1>2. CASE row = CLOSED /\ \A m \in 1 .. n - 1 : BankAt(s, m) # BankAt(s, n)
  BY <1>1, <1>2 DEF CLOSED, Again
<1>3. CASE \E m \in 1 .. n - 1 : /\ BankAt(s, m) = BankAt(s, n) /\ row = RowAt(s, m)
                                 /\ \A j \in m + 1 .. n - 1 : BankAt(s, j) # BankAt(s, n)
  <2>1. PICK m \in 1 .. n - 1 : /\ BankAt(s, m) = BankAt(s, n) /\ row = RowAt(s, m)
                                /\ \A j \in m + 1 .. n - 1 : BankAt(s, j) # BankAt(s, n)
    BY <1>3
  <2>2. ASSUME NEW k \in 1 .. n - 1, BankAt(s, k) = BankAt(s, n),
               \A j \in k + 1 .. n - 1 : BankAt(s, j) # BankAt(s, n)
        PROVE  k = m
    <3>1. ~(m < k) /\ ~(k < m)
      BY <2>1, <2>2
    <3> QED BY <3>1
  <2> QED BY <2>1, <2>2 DEF Again
<1> QED BY <1>2, <1>3 DEF LeftOpen

\* The row of the last reference to a bank stays open in it.
LEMMA LeftOpenNext ==
  ASSUME NEW s \in Seq(Blocks), NEW n \in 1 .. Len(s), NEW open \in [Banks(Parameters) -> Int],
         \A bank \in Banks(Parameters) : LeftOpen(s, n - 1, bank, open[bank])
  PROVE  LET after == [open EXCEPT ![BankAt(s, n)] = RowAt(s, n)]
         IN /\ after \in [Banks(Parameters) -> Int]
            /\ \A bank \in Banks(Parameters) : LeftOpen(s, n, bank, after[bank])
<1> DEFINE after == [open EXCEPT ![BankAt(s, n)] = RowAt(s, n)]
<1>1. RowAt(s, n) \in Nat /\ BankAt(s, n) \in Banks(Parameters)
  BY RowFacts
<1>2. ASSUME NEW bank \in Banks(Parameters) PROVE LeftOpen(s, n, bank, after[bank])
  <2>1. CASE bank = BankAt(s, n)
    <3>1. after[bank] = RowAt(s, n)
      BY <1>1, <2>1
    <3>2. n \in 1 .. n /\ \A j \in n + 1 .. n : BankAt(s, j) # bank
      OBVIOUS
    <3> QED BY <2>1, <3>1, <3>2 DEF LeftOpen
  <2>2. CASE bank # BankAt(s, n)
    <3>1. after[bank] = open[bank] /\ LeftOpen(s, n - 1, bank, open[bank])
      BY <1>1, <2>2
    <3> HIDE DEF after
    <3>2. \A j \in 1 .. n : j \notin 1 .. n - 1 => j = n
      OBVIOUS
    <3>3. CASE open[bank] = CLOSED /\ \A k \in 1 .. n - 1 : BankAt(s, k) # bank
      BY <2>2, <3>1, <3>2, <3>3 DEF LeftOpen
    <3>4. CASE \E k \in 1 .. n - 1 : /\ BankAt(s, k) = bank /\ open[bank] = RowAt(s, k)
                                     /\ \A j \in k + 1 .. n - 1 : BankAt(s, j) # bank
      <4>1. PICK k \in 1 .. n - 1 : /\ BankAt(s, k) = bank /\ open[bank] = RowAt(s, k)
                                    /\ \A j \in k + 1 .. n - 1 : BankAt(s, j) # bank
        BY <3>4
      <4>2. k \in 1 .. n /\ \A j \in k + 1 .. n : BankAt(s, j) # bank
        <5> SUFFICES ASSUME NEW j \in k + 1 .. n PROVE BankAt(s, j) # bank
          OBVIOUS
        <5>1. j = n \/ j \in k + 1 .. n - 1
          OBVIOUS
        <5> QED BY <2>2, <4>1, <5>1
      <4> QED BY <3>1, <4>1, <4>2 DEF LeftOpen
    <3> QED BY <3>1, <3>3, <3>4 DEF LeftOpen
  <2> QED BY <2>1, <2>2
<1> QED BY <1>1, <1>2

\* One access more.
LEMMA AccessTallied ==
  ASSUME NEW s \in Seq(Blocks), NEW n \in 1 .. Len(s), NEW m, IsMemory(m), OpenAfter(m, s, n - 1),
         NEW M \in SUBSET (1 .. n - 1), Tallied(m.n, s, M),
         NEW m2, m2 = MemoryAccess(m, n, s[n]).memory
  PROVE  IsMemory(m2) /\ OpenAfter(m2, s, n) /\ Tallied(m2.n, s, M \cup {n})
<1> DEFINE row == RowAt(s, n)
           bank == BankAt(s, n)
           open == m.open[bank] = row
<1>1. row \in Nat /\ bank \in Banks(Parameters) /\ n \in Nat
  BY RowFacts
<1>2. m.open \in [Banks(Parameters) -> Int] /\ m.n \in [MemoryCounters -> Int]
  BY DEF IsMemory
<1>3. row = Row(Parameters, s[n]) /\ bank = Bank(Parameters, row)
  BY DEF RowAt, BankAt
<1>4. open <=> n \in Again(s)
  BY <1>1, OpenIsAgain DEF OpenAfter
<1> HIDE DEF row, bank
<1>5. /\ m2 = [p |-> Parameters, open |-> m2.open, n |-> m2.n]
      /\ m2.open = [m.open EXCEPT ![bank] = row]
      /\ m2.n \in [MemoryCounters -> Int]
      /\ m2.n["rowHits"] = m.n["rowHits"] + IF open THEN 1 ELSE 0
      /\ m2.n["rowMisses"] = m.n["rowMisses"] + IF open THEN 0 ELSE 1
      /\ m2.n["chargedCycles"] = m.n["chargedCycles"]
           + IF n % 2 # 1 THEN 0 ELSE IF open THEN Parameters.rowHit ELSE Parameters.rowMiss
  BY <1>1, <1>3, ServeEffect
<1> HIDE DEF open
<1>6. m2.open \in [Banks(Parameters) -> Int] /\ OpenAfter(m2, s, n)
  <2>1. \A x \in Banks(Parameters) : LeftOpen(s, n - 1, x, m.open[x])
    BY DEF OpenAfter
  <2>2. m2.open = [m.open EXCEPT ![BankAt(s, n)] = RowAt(s, n)]
    BY <1>5 DEF row, bank
  <2> QED BY <1>2, <2>1, <2>2, LeftOpenNext DEF OpenAfter
<1>7. IsFiniteSet(M) /\ n \notin M
  <2>1. IsFiniteSet(1 .. n - 1)
    BY FS_Interval
  <2>2. n \notin 1 .. n - 1
    BY <1>1
  <2> QED BY <2>1, <2>2, FS_Subset
<1>8. \A H : /\ Cardinality(M \cap H) \in Nat
             /\ Cardinality((M \cup {n}) \cap H) = Cardinality(M \cap H) + IF n \in H THEN 1 ELSE 0
  BY <1>7, CountOneMore
<1>9. m2.n["rowHits"] = Cardinality((M \cup {n}) \cap Again(s))
  BY <1>4, <1>5, <1>8 DEF Tallied
<1>10. m2.n["rowMisses"] = Cardinality((M \cup {n}) \cap Anew(s))
  <2>1. n \in Anew(s) <=> ~open
    BY <1>4 DEF Anew
  <2> QED BY <2>1, <1>5, <1>8 DEF Tallied
<1>11. m2.n["chargedCycles"] = (Parameters.rowHit * Cardinality((M \cup {n}) \cap (Waited(s) \cap Again(s))))
                               + (Parameters.rowMiss * Cardinality((M \cup {n}) \cap (Waited(s) \cap Anew(s))))
  <2> DEFINE hits == Cardinality(M \cap (Waited(s) \cap Again(s)))
             misses2 == Cardinality(M \cap (Waited(s) \cap Anew(s)))
             hit == n \in Waited(s) \cap Again(s)
             miss == n \in Waited(s) \cap Anew(s)
  <2>1. (hit <=> (n % 2 = 1 /\ open)) /\ (miss <=> (n % 2 = 1 /\ ~open))
    BY <1>4 DEF Anew, Waited
  <2>2. hits \in Nat /\ misses2 \in Nat
    BY <1>8
  <2>3. /\ Cardinality((M \cup {n}) \cap (Waited(s) \cap Again(s))) = hits + IF hit THEN 1 ELSE 0
        /\ Cardinality((M \cup {n}) \cap (Waited(s) \cap Anew(s))) = misses2 + IF miss THEN 1 ELSE 0
    BY <1>8
  <2>4. m.n["chargedCycles"] = (Parameters.rowHit * hits) + (Parameters.rowMiss * misses2)
    BY DEF Tallied
  <2> HIDE DEF hits, misses2, hit, miss
  <2>5. \A a, c \in Int : a * (c + 1) = (a * c) + a
    OBVIOUS
  <2>6. /\ Parameters.rowHit * (hits + 1) = (Parameters.rowHit * hits) + Parameters.rowHit
        /\ Parameters.rowMiss * (misses2 + 1) = (Parameters.rowMiss * misses2) + Parameters.rowMiss
    <3>1. Parameters.rowHit * (hits + 1) = (Parameters.rowHit * hits) + Parameters.rowHit
      <4>1. Parameters.rowHit \in Int /\ hits \in Int
        BY <2>2, ParameterFacts
      <4> QED BY <2>5, <4>1
    <3>2. Parameters.rowMiss * (misses2 + 1) = (Parameters.rowMiss * misses2) + Parameters.rowMiss
      <4>1. Parameters.rowMiss \in Int /\ misses2 \in Int
        BY <2>2, ParameterFacts
      <4> QED BY <2>5, <4>1
    <3> QED BY <3>1, <3>2
  <2> DEFINE cost == Parameters.rowHit * hits
             cost2 == Parameters.rowMiss * misses2
  <2>7. cost \in Int /\ cost2 \in Int
    BY <2>2, ParameterFacts
  <2>8. CASE hit
    <3>1. ~miss /\ m2.n["chargedCycles"] = m.n["chargedCycles"] + Parameters.rowHit
      BY <1>5, <2>1, <2>8
    <3>2. m2.n["chargedCycles"] = (Parameters.rowHit * (hits + 1)) + cost2
      BY <2>4, <2>6, <2>7, <3>1, ParameterFacts
    <3> QED BY <2>2, <2>3, <2>8, <3>1, <3>2
  <2>9. CASE miss
    <3>1. ~hit /\ m2.n["chargedCycles"] = m.n["chargedCycles"] + Parameters.rowMiss
      BY <1>5, <2>1, <2>9
    <3>2. m2.n["chargedCycles"] = cost + (Parameters.rowMiss * (misses2 + 1))
      BY <2>4, <2>6, <2>7, <3>1, ParameterFacts
    <3> QED BY <2>2, <2>3, <2>9, <3>1, <3>2
  <2>10. CASE ~hit /\ ~miss
    <3>1. m2.n["chargedCycles"] = m.n["chargedCycles"]
      BY <1>2, <1>5, <2>1, <2>10 DEF MemoryCounters
    <3> QED BY <2>2, <2>3, <2>4, <2>10, <3>1
  <2> QED BY <2>8, <2>9, <2>10
<1> QED BY <1>5, <1>6, <1>9, <1>10, <1>11 DEF IsMemory, Tallied

\* The references the counters are about, after k of them.
Measured(k, warmup) == {n \in 1 .. k : warmup < k => n > warmup}

RowInv ==
  /\ geometry \in Geometries
  /\ IsMemory(memory) /\ OpenAfter(memory, blocks, i - 1)
  /\ Tallied(memory.n, blocks, Measured(i - 1, geometry.warmup))

\* No references, no counts.
LEMMA NothingTallied ==
  ASSUME NEW m, m.n = NoMemoryCounts, NEW s
  PROVE  Tallied(m.n, s, {})
<1>1. \A H : Cardinality({} \cap H) = 0
  <2>1. \A H : {} \cap H = {}
    OBVIOUS
  <2> QED BY <2>1, FS_EmptySet
<1>2. \A a \in Int : a * 0 = 0
  OBVIOUS
<1>3. Parameters.rowHit * 0 = 0 /\ Parameters.rowMiss * 0 = 0
  BY <1>2, ParameterFacts
<1>4. m.n["rowHits"] = 0 /\ m.n["rowMisses"] = 0 /\ m.n["chargedCycles"] = 0
  BY DEF NoMemoryCounts, MemoryCounters
<1> QED BY <1>1, <1>3, <1>4 DEF Tallied

LEMMA RowInit == Init => RowInv
<1> SUFFICES ASSUME Init PROVE RowInv
  OBVIOUS
<1>1. geometry \in Geometries /\ i = 1 /\ memory = Memory(Parameters)
  BY DEF Init, InitOpt
<1>2. memory.n = NoMemoryCounts /\ memory.open = [bank \in Banks(Parameters) |-> CLOSED] /\ IsMemory(memory)
  BY <1>1 DEF Memory, IsMemory, CLOSED, NoMemoryCounts
<1>3. OpenAfter(memory, blocks, i - 1)
  BY <1>1, <1>2 DEF OpenAfter, LeftOpen
<1>4. Measured(i - 1, geometry.warmup) = {}
  BY <1>1 DEF Measured
<1> QED BY <1>1, <1>2, <1>3, <1>4, NothingTallied DEF RowInv

LEMMA RowStep == Inv /\ RowInv /\ [Next]_vars => RowInv'
<1> SUFFICES ASSUME Inv, RowInv, [Next]_vars PROVE RowInv'
  OBVIOUS
<1>1. ASSUME Hit \/ FillFree \/ Install, Measure PROVE RowInv'
  <2> DEFINE warmup == geometry.warmup
             warm == IF i - 1 = warmup /\ i > 1 THEN ResetMemory(memory) ELSE memory
             M == IF i - 1 = warmup /\ i > 1 THEN {} ELSE Measured(i - 1, warmup)
  <2>1. i' = i + 1 /\ blocks' = blocks
    BY <1>1 DEF Hit, FillFree, Install, Record
  <2>2. geometry' = geometry /\ memory' = MemoryAccess(warm, i, blocks[i]).memory
    BY <1>1 DEF Measure
  <2>3. blocks \in Seq(Blocks) /\ i \in 1 .. Len(blocks)
    BY <1>1 DEF Inv, TypeOK, Hit, FillFree, Install, Begin
  <2>4. warmup \in Nat
    BY GeometriesAssumption DEF RowInv
  <2>5. IsMemory(warm) /\ OpenAfter(warm, blocks, i - 1) /\ Tallied(warm.n, blocks, M)
    <3>1. CASE i - 1 = warmup /\ i > 1
      <4> DEFINE reset == ResetMemory(memory)
      <4>1. reset = [p |-> Parameters, open |-> memory.open, n |-> NoMemoryCounts]
        BY DEF ResetMemory, RowInv, IsMemory
      <4>2. warm = reset /\ M = {}
        BY <3>1
      <4> HIDE DEF reset, warm, M
      <4>3. reset.open = memory.open /\ reset.n = NoMemoryCounts /\ IsMemory(reset)
        BY <4>1 DEF IsMemory, RowInv, NoMemoryCounts
      <4>4. OpenAfter(reset, blocks, i - 1)
        BY <4>3 DEF RowInv, OpenAfter
      <4> QED BY <4>2, <4>3, <4>4, NothingTallied
    <3>2. CASE ~(i - 1 = warmup /\ i > 1)
      <4>1. warm = memory /\ M = Measured(i - 1, warmup)
        BY <3>2
      <4> HIDE DEF warm, M
      <4> QED BY <4>1 DEF RowInv
    <3> QED BY <3>1, <3>2
  <2>6. M \in SUBSET (1 .. i - 1) /\ M \cup {i} = Measured(i, warmup)
    <3>1. CASE i - 1 = warmup /\ i > 1
      BY <2>3, <2>4, <3>1 DEF Measured
    <3>2. CASE ~(i - 1 = warmup /\ i > 1)
      <4>1. M = Measured(i - 1, warmup)
        BY <3>2
      <4> HIDE DEF M
      <4>2. warmup < i - 1 \/ i <= warmup \/ (i = 1 /\ warmup = 0)
        BY <2>3, <2>4, <3>2
      <4> HIDE DEF warmup
      <4> QED BY <2>3, <2>4, <4>1, <4>2 DEF Measured
    <3> QED BY <3>1, <3>2
  <2> HIDE DEF warm, M, warmup
  <2>7. PICK after : after = memory'
    OBVIOUS
  <2>8. IsMemory(after) /\ OpenAfter(after, blocks, i) /\ Tallied(after.n, blocks, M \cup {i})
    BY <2>2, <2>3, <2>5, <2>6, <2>7, AccessTallied
  <2>9. i' - 1 = i /\ geometry' \in Geometries /\ geometry'.warmup = warmup
    BY <2>1, <2>2, <2>3 DEF warmup, RowInv
  <2>10. IsMemory(memory)' /\ OpenAfter(memory, blocks, i - 1)'
    BY <2>1, <2>7, <2>8, <2>9
  <2>11. Tallied(memory.n, blocks, Measured(i - 1, geometry.warmup))'
    BY <2>1, <2>6, <2>7, <2>8, <2>9
  <2> QED BY <2>9, <2>10, <2>11 DEF RowInv
<1>2. CASE UNCHANGED <<blocks, i, geometry, memory>>
  BY <1>2 DEF RowInv
<1>3. CASE (MissFull \/ PopStale \/ PopVictim) /\ UNCHANGED measureVars
  BY <1>2, <1>3 DEF MissFull, PopStale, PopVictim, Popping, measureVars
<1>4. CASE UNCHANGED vars
  BY <1>2, <1>4 DEF vars, optVars, measureVars
<1> QED BY <1>1, <1>3, <1>4 DEF Next

\* What Repeats says.
LEMMA RepeatsIs ==
  ASSUME Inv, NEW n \in 1 .. Len(blocks)
  PROVE  Repeats(n) <=> n \in Again(blocks)
<1> DEFINE before == {m \in 1 .. n - 1 : SameBank(m, n)}
           latest == CHOOSE x \in before : \A y \in before : x >= y
<1>1. \A m \in 1 .. Len(blocks) : RowOf(m) = RowAt(blocks, m) /\ (SameBank(m, n) <=> BankAt(blocks, m) = BankAt(blocks, n))
  BY DEF RowOf, SameBank, RowAt, BankAt
<1>2. Repeats(n) <=> before # {} /\ RowOf(latest) = RowOf(n)
  BY DEF Repeats, Sets!Max
<1>3. Len(blocks) \in Nat
  BY DEF Inv, TypeOK
<1>4. CASE before = {}
  BY <1>1, <1>2, <1>3, <1>4 DEF Again
<1>5. CASE before # {}
  <2>1. \E x \in before : \A y \in before : x >= y
    <3>1. before \in SUBSET Nat /\ n \in Nat /\ \A x \in before : x <= n
      OBVIOUS
    <3> HIDE DEF before
    <3> QED BY <1>5, <3>1, LargestOfBounded
  <2>2. latest \in before /\ \A y \in before : latest >= y
    BY <2>1
  <2> HIDE DEF latest
  <2>3. latest \in 1 .. n - 1 /\ BankAt(blocks, latest) = BankAt(blocks, n)
    BY <1>1, <1>3, <2>2
  <2>4. \A j \in latest + 1 .. n - 1 : BankAt(blocks, j) # BankAt(blocks, n)
    BY <1>1, <1>3, <2>2, <2>3
  <2>5. RowOf(latest) = RowAt(blocks, latest) /\ RowOf(n) = RowAt(blocks, n)
    BY <1>1, <1>3, <2>3
  <2>6. ASSUME NEW m \in 1 .. n - 1, BankAt(blocks, m) = BankAt(blocks, n),
               \A j \in m + 1 .. n - 1 : BankAt(blocks, j) # BankAt(blocks, n)
        PROVE  m = latest
    <3>1. ~(m < latest) /\ ~(latest < m)
      BY <2>3, <2>4, <2>6
    <3> QED BY <2>3, <3>1
  <2> QED BY <1>2, <1>3, <1>5, <2>3, <2>4, <2>5, <2>6 DEF Again
<1> QED BY <1>4, <1>5

\* dram.py:218, for every stream, geometry and parameters of the memory: an access is a
\* row hit if and only if the latest access to its bank was to the same row, and the
\* cycles charged are those of the accesses somebody waited for.
THEOREM RowHitsAreRepeats == Spec => []RowHitIsRepeat
<1>1. ASSUME Inv, RowInv PROVE RowHitIsRepeat
  <2> DEFINE measured == {n \in Handled : geometry.warmup < i - 1 => n > geometry.warmup}
             charged == {n \in measured : n % 2 = 1}
             M == Measured(i - 1, geometry.warmup)
  <2>1. blocks \in Seq(Blocks) /\ i - 1 \in Int /\ i - 1 <= Len(blocks) /\ Len(blocks) \in Nat
    BY <1>1 DEF Inv, TypeOK
  <2>2. measured = M
    BY DEF Handled, Measured
  <2>3. \A n \in M : n \in 1 .. Len(blocks) /\ (Repeats(n) <=> n \in Again(blocks))
    <3>1. \A n \in M : n \in 1 .. Len(blocks)
      BY <2>1 DEF Measured
    <3> HIDE DEF M
    <3> QED BY <1>1, <3>1, RepeatsIs
  <2> HIDE DEF M
  <2>4. /\ {n \in measured : Repeats(n)} = M \cap Again(blocks)
        /\ {n \in measured : ~Repeats(n)} = M \cap Anew(blocks)
        /\ {n \in charged : Repeats(n)} = M \cap (Waited(blocks) \cap Again(blocks))
        /\ {n \in charged : ~Repeats(n)} = M \cap (Waited(blocks) \cap Anew(blocks))
    <3> HIDE DEF measured
    <3> QED BY <2>2, <2>3 DEF Anew, Waited
  <2>5. Tallied(memory.n, blocks, M)
    BY <1>1 DEF RowInv, M
  <2> HIDE DEF measured, charged
  <2>6. /\ memory.n["rowHits"] = Cardinality({n \in measured : Repeats(n)})
        /\ memory.n["rowMisses"] = Cardinality({n \in measured : ~Repeats(n)})
        /\ memory.n["chargedCycles"] = (Parameters.rowHit * Cardinality({n \in charged : Repeats(n)}))
                                       + (Parameters.rowMiss * Cardinality({n \in charged : ~Repeats(n)}))
    BY <2>4, <2>5 DEF Tallied
  <2> QED BY <2>6 DEF RowHitIsRepeat, measured, charged
<1>2. Init => Inv /\ RowInv
  BY BestInit, RowInit
<1>3. Inv /\ RowInv /\ [Next]_vars => Inv' /\ RowInv'
  BY StepOpt, StepInv, RowStep
<1> QED BY <1>1, <1>2, <1>3, PTL DEF Spec

-----------------------------------------------------------------------------
(* The stride prefetcher.                                                  *)

\* Taken, Run, Step and Steps of a stream s.
TakenOf(s, n) ==
  LET others == {m \in 1 .. n - 1 : /\ Slot(Region(s[m])) = Slot(Region(s[n]))
                                    /\ Region(s[m]) # Region(s[n])}
  IN Sets!Max({0} \cup others)
RunOf(s, n) == {m \in TakenOf(s, n) + 1 .. n : Region(s[m]) = Region(s[n])}
StepOf(s, n, m) == s[m] - s[Sets!Max({k \in RunOf(s, n) : k < m})]
StepsOf(s, n) == {m \in RunOf(s, n) \ {Sets!Min(RunOf(s, n))} : StepOf(s, n, m) # 0}

\* The block named at reference n, or NoBlock.
Trusted(s, n) ==
  LET earlier == StepsOf(s, n) \ {n}
  IN /\ n \in StepsOf(s, n) /\ earlier # {}
     /\ StepOf(s, n, n) = StepOf(s, n, Sets!Max(earlier))
NameOf(s, n) == IF Trusted(s, n) THEN NonNegative(s[n] + StepOf(s, n, n)) ELSE NoBlock

SlotOf(s, n) == Slot(Region(s[n]))

\* Reference p is the last one to the slot of n before n.
Precedes(s, p, n) ==
  /\ p \in 1 .. n - 1 /\ SlotOf(s, p) = SlotOf(s, n)
  /\ \A j \in p + 1 .. n - 1 : SlotOf(s, j) # SlotOf(s, n)

\* What a slot has learnt from the references of the run that ends at m.
LearntBy(s, m, e) ==
  LET steps == StepsOf(s, m)
      newest == Sets!Max(steps)
      earlier == steps \ {newest}
  IN IF steps = {} THEN e.stride = 0 /\ e.confidence = 0
     ELSE /\ e.stride = StepOf(s, m, newest) /\ e.confidence \in 1 .. MaxConfidence
          /\ e.confidence >= THRESHOLD <=> /\ earlier # {}
                                           /\ StepOf(s, m, Sets!Max(earlier)) = e.stride

\* Slot q after k references.
SlotAfter(s, k, q, e) ==
  \/ e = EmptySlot /\ \A m \in 1 .. k : SlotOf(s, m) # q
  \/ \E m \in 1 .. k :
       /\ SlotOf(s, m) = q /\ \A j \in m + 1 .. k : SlotOf(s, j) # q
       /\ e.region = Region(s[m]) /\ e.last = s[m] /\ LearntBy(s, m, e)

TableSlots == [region : Int, last : Int, stride : Int, confidence : 0 .. MaxConfidence]

LEMMA SlotFacts ==
  ASSUME NEW s \in Seq(Blocks), NEW n \in 1 .. Len(s)
  PROVE  s[n] \in Nat /\ Region(s[n]) \in Nat /\ SlotOf(s, n) \in 0 .. StrideEntries - 1
<1>1. s[n] \in Nat
  <2>1. s[n] \in Blocks
    OBVIOUS
  <2> QED BY <2>1, BlocksAssumption
<1>2. ASSUME NEW x \in Nat, NEW d \in Nat \ {0} PROVE x \div d \in Nat /\ x % d \in 0 .. d - 1
  OBVIOUS
<1>3. Region(s[n]) \in Nat
  BY <1>1, <1>2, PowerPositive, TableAssumption DEF Region
<1> QED BY <1>1, <1>2, <1>3, TableAssumption DEF SlotOf, Slot

\* The largest and the least of a bounded set.
LEMMA MaxIs ==
  ASSUME NEW T \in SUBSET Nat, NEW limit \in Nat, \A x \in T : x <= limit, T # {}
  PROVE  /\ Sets!Max(T) \in T /\ \A y \in T : Sets!Max(T) >= y
         /\ Sets!Min(T) \in T /\ \A y \in T : Sets!Min(T) <= y
<1>1. \E x \in T : \A y \in T : x >= y
  BY LargestOfBounded
<1>2. \E x \in T : \A y \in T : x <= y
  BY LeastOfNaturals
<1> QED BY <1>1, <1>2 DEF Sets!Max, Sets!Min

LEMMA MaxOnly ==
  ASSUME NEW T \in SUBSET Nat, NEW x \in T, \A y \in T : x >= y
  PROVE  Sets!Max(T) = x
<1>1. Sets!Max(T) \in T /\ Sets!Max(T) >= x
  BY DEF Sets!Max
<1> DEFINE max == Sets!Max(T)
<1>2. max \in T /\ max >= x
  BY <1>1
<1> HIDE DEF max
<1>3. max \in Nat /\ x \in Nat /\ x >= max
  BY <1>2
<1>4. max = x
  BY <1>2, <1>3
<1> QED BY <1>4 DEF max

\* The references of a run are numbers up to its last one.
LEMMA RunFacts ==
  ASSUME NEW s \in Seq(Blocks), NEW n \in 1 .. Len(s)
  PROVE  /\ TakenOf(s, n) \in 0 .. n - 1
         /\ RunOf(s, n) \in SUBSET (1 .. n) /\ n \in RunOf(s, n)
         /\ StepsOf(s, n) \in SUBSET RunOf(s, n)
<1> DEFINE others == {m \in 1 .. n - 1 : /\ Slot(Region(s[m])) = Slot(Region(s[n]))
                                        /\ Region(s[m]) # Region(s[n])}
           T == {0} \cup others
<1>1. TakenOf(s, n) = Sets!Max(T)
  BY DEF TakenOf
<1>2. T \in SUBSET (0 .. n - 1) /\ T \in SUBSET Nat /\ T # {} /\ n - 1 \in Nat /\ \A x \in T : x <= n - 1
  OBVIOUS
<1> HIDE DEF T
<1>3. TakenOf(s, n) \in 0 .. n - 1
  BY <1>1, <1>2, MaxIs
<1> QED BY <1>3 DEF RunOf, StepsOf

\* A reference to another region, or the first one to a slot, begins a run.
LEMMA RunBegins ==
  ASSUME NEW s \in Seq(Blocks), NEW n \in 1 .. Len(s),
         \A p \in 1 .. n - 1 : Precedes(s, p, n) => Region(s[p]) # Region(s[n])
  PROVE  StepsOf(s, n) = {}
<1> DEFINE others == {m \in 1 .. n - 1 : /\ Slot(Region(s[m])) = Slot(Region(s[n]))
                                        /\ Region(s[m]) # Region(s[n])}
           T == {0} \cup others
           mates == {m \in 1 .. n - 1 : SlotOf(s, m) = SlotOf(s, n)}
<1>1. T \in SUBSET Nat /\ mates \in SUBSET Nat /\ n \in Nat /\ \A m \in mates : m <= n
  OBVIOUS
<1>2. RunOf(s, n) = {n}
  <2> SUFFICES ASSUME NEW m \in TakenOf(s, n) + 1 .. n - 1, Region(s[m]) = Region(s[n]) PROVE FALSE
    BY RunFacts DEF RunOf
  <2>1. m \in mates
    BY RunFacts DEF SlotOf
  <2>2. PICK p \in mates : \A y \in mates : p >= y
    <3> HIDE DEF mates
    <3> QED BY <1>1, <2>1, LargestOfBounded
  <2>3. Precedes(s, p, n)
    BY <2>2 DEF Precedes
  <2>4. p \in T
    BY <2>2, <2>3 DEF SlotOf
  <2>5. TakenOf(s, n) = Sets!Max(T)
    BY DEF TakenOf
  <2>6. Sets!Max(T) >= p
    <3>1. \A x \in T : x <= n
      OBVIOUS
    <3> HIDE DEF T
    <3> QED BY <1>1, <2>4, <3>1, MaxIs
  <2> QED BY <2>1, <2>2, <2>5, <2>6, RunFacts
<1>3. Sets!Min({n}) = n
  BY DEF Sets!Min
<1> QED BY <1>2, <1>3 DEF StepsOf

\* Any other reference goes on with the run of the one before it.
LEMMA RunGoesOn ==
  ASSUME NEW s \in Seq(Blocks), NEW n \in 1 .. Len(s), NEW p \in 1 .. n - 1,
         Precedes(s, p, n), Region(s[p]) = Region(s[n])
  PROVE  /\ StepOf(s, n, n) = s[n] - s[p]
         /\ \A m \in StepsOf(s, p) : StepOf(s, n, m) = StepOf(s, p, m)
         /\ StepsOf(s, n) = StepsOf(s, p) \cup (IF s[n] = s[p] THEN {} ELSE {n})
<1>0. p \in 1 .. Len(s) /\ s[n] \in Nat /\ s[p] \in Nat /\ n \in Nat /\ p < n
  BY SlotFacts
<1>1. TakenOf(s, n) = TakenOf(s, p)
  <2>1. {m \in 1 .. n - 1 : Slot(Region(s[m])) = Slot(Region(s[n])) /\ Region(s[m]) # Region(s[n])}
        = {m \in 1 .. p - 1 : Slot(Region(s[m])) = Slot(Region(s[p])) /\ Region(s[m]) # Region(s[p])}
    BY DEF Precedes, SlotOf
  <2> QED BY <2>1 DEF TakenOf
<1>2. RunOf(s, n) = RunOf(s, p) \cup {n}
  <2>1. \A m \in p + 1 .. n - 1 : Region(s[m]) # Region(s[n])
    BY DEF Precedes, SlotOf
  <2>2. TakenOf(s, p) \in 0 .. p - 1 /\ TakenOf(s, n) \in 0 .. n - 1
    BY <1>0, RunFacts
  <2> QED BY <1>0, <1>1, <2>1, <2>2 DEF RunOf
<1> DEFINE R == RunOf(s, p)
<1>3. R \in SUBSET (1 .. p) /\ p \in R /\ R \in SUBSET Nat /\ StepsOf(s, p) \in SUBSET R
  BY <1>0, RunFacts
<1> HIDE DEF R
<1>a. p \in Nat /\ \A y \in R : y \in Nat /\ y >= 1 /\ y <= p /\ y < n /\ y # n
  <2>1. \A y \in R : y \in 1 .. p
    BY <1>3
  <2> QED BY <1>0, <2>1
<1>4. Sets!Max({k \in R \cup {n} : k < n}) = p
  <2> DEFINE T == {k \in R \cup {n} : k < n}
  <2>1. T = R
    BY <1>0, <1>a
  <2> HIDE DEF T
  <2> QED BY <1>3, <1>a, <2>1, MaxOnly
<1>5. StepOf(s, n, n) = s[n] - s[p]
  BY <1>2, <1>4 DEF StepOf, R
<1>6. ASSUME NEW m \in R PROVE StepOf(s, n, m) = StepOf(s, p, m)
  <2>1. {k \in R \cup {n} : k < m} = {k \in R : k < m}
    BY <1>a
  <2> QED BY <1>2, <2>1 DEF StepOf, R
<1>7. Sets!Min(R \cup {n}) = Sets!Min(R)
  <2>1. Sets!Min(R) \in R /\ \A y \in R : Sets!Min(R) <= y
    BY <1>3, <1>a, MaxIs
  <2>2. Sets!Min(R \cup {n}) \in R \cup {n} /\ \A y \in R \cup {n} : Sets!Min(R \cup {n}) <= y
    <3>1. R \cup {n} \in SUBSET Nat /\ R \cup {n} # {} /\ \A y \in R \cup {n} : y <= n
      BY <1>0, <1>3, <1>a
    <3> QED BY <1>0, <3>1, MaxIs
  <2> DEFINE least == Sets!Min(R)
             least2 == Sets!Min(R \cup {n})
  <2>3. least \in R /\ (\A y \in R : least <= y) /\ least2 \in R \cup {n} /\ \A y \in R \cup {n} : least2 <= y
    BY <2>1, <2>2
  <2> HIDE DEF least, least2
  <2>4. least2 # n
    BY <1>0, <1>3, <1>a, <2>3
  <2>5. least <= least2 /\ least2 <= least /\ least \in Nat /\ least2 \in Nat
    BY <1>a, <2>3, <2>4
  <2>6. least2 = least
    BY <2>5
  <2> QED BY <2>6 DEF least, least2
<1>8. Sets!Min(R) \in R /\ n \notin R
  BY <1>3, <1>a, MaxIs
<1>9. StepsOf(s, n) = {m \in (R \cup {n}) \ {Sets!Min(R)} : StepOf(s, n, m) # 0}
  BY <1>2, <1>7 DEF StepsOf, R
<1>10. StepsOf(s, p) = {m \in R \ {Sets!Min(R)} : StepOf(s, p, m) # 0}
  BY DEF StepsOf, R
<1>11. StepOf(s, n, n) # 0 <=> s[n] # s[p]
  BY <1>0, <1>5
<1>12. StepsOf(s, n) = StepsOf(s, p) \cup (IF s[n] = s[p] THEN {} ELSE {n})
  BY <1>6, <1>8, <1>9, <1>10, <1>11
<1> QED BY <1>3, <1>5, <1>6, <1>12

\* The slot of an entry, field by field.
LEMMA TrainedIs ==
  ASSUME NEW e \in TableSlots, NEW b \in Int
  PROVE  LET stride == b - e.last
         IN Trained(e, b) =
              IF e.region # Region(b) THEN [region |-> Region(b), last |-> b, stride |-> 0, confidence |-> 0]
              ELSE [region |-> e.region, last |-> b,
                    stride |-> IF stride = 0 THEN e.stride ELSE stride,
                    confidence |-> IF stride = 0 THEN e.confidence
                                   ELSE IF stride # e.stride THEN 1
                                   ELSE IF e.confidence < MaxConfidence THEN e.confidence + 1 ELSE e.confidence]
<1> DEFINE stride == b - e.last
           moved == [e EXCEPT !.last = b]
<1>1. e = [region |-> e.region, last |-> e.last, stride |-> e.stride, confidence |-> e.confidence]
      /\ e.last \in Int /\ e.stride \in Int /\ stride \in Int
  BY DEF TableSlots
<1>2. moved = [region |-> e.region, last |-> b, stride |-> e.stride, confidence |-> e.confidence]
  BY <1>1
<1>3. CASE e.region # Region(b)
  BY <1>3 DEF Trained
<1>4. CASE e.region = Region(b) /\ stride = 0
  BY <1>2, <1>4 DEF Trained
<1>5. CASE e.region = Region(b) /\ stride # 0 /\ stride = e.stride
  <2>1. Trained(e, b) = [moved EXCEPT !.confidence = IF @ < MaxConfidence THEN @ + 1 ELSE @]
    BY <1>5 DEF Trained
  <2> HIDE DEF moved
  <2>2. Trained(e, b) = [region |-> e.region, last |-> b, stride |-> e.stride,
                         confidence |-> IF e.confidence < MaxConfidence THEN e.confidence + 1 ELSE e.confidence]
    BY <1>2, <2>1
  <2> HIDE DEF stride
  <2> QED BY <1>5, <2>2 DEF stride
<1>6. CASE e.region = Region(b) /\ stride # 0 /\ stride # e.stride
  <2>1. Trained(e, b) = [moved EXCEPT !.stride = stride, !.confidence = 1]
    BY <1>6 DEF Trained
  <2> HIDE DEF moved, stride
  <2>2. Trained(e, b) = [region |-> e.region, last |-> b, stride |-> stride, confidence |-> 1]
    BY <1>2, <2>1
  <2> QED BY <1>6, <2>2 DEF stride
<1> QED BY <1>3, <1>4, <1>5, <1>6

\* What a reference teaches its slot, and when the slot is trusted after it.
LEMMA TrainSlot ==
  ASSUME NEW s \in Seq(Blocks), NEW n \in 1 .. Len(s), NEW e \in TableSlots,
         SlotAfter(s, n - 1, SlotOf(s, n), e), NEW e2, e2 = Trained(e, s[n])
  PROVE  /\ e2 \in TableSlots
         /\ e2.region = Region(s[n]) /\ e2.last = s[n] /\ LearntBy(s, n, e2)
         /\ Trusted(s, n) <=> e.region = Region(s[n]) /\ s[n] # e.last /\ e2.confidence >= THRESHOLD
         /\ Trusted(s, n) => e2.stride = StepOf(s, n, n)
<1> DEFINE b == s[n]
           stride == b - e.last
<1>0. b \in Nat /\ Region(b) \in Nat /\ n \in Nat /\ e.region \in Int /\ e.last \in Int /\ e.stride \in Int
      /\ e.confidence \in 0 .. MaxConfidence
  BY SlotFacts DEF TableSlots
<1>1. e2 = IF e.region # Region(b) THEN [region |-> Region(b), last |-> b, stride |-> 0, confidence |-> 0]
           ELSE [region |-> e.region, last |-> b,
                 stride |-> IF stride = 0 THEN e.stride ELSE stride,
                 confidence |-> IF stride = 0 THEN e.confidence
                                ELSE IF stride # e.stride THEN 1
                                ELSE IF e.confidence < MaxConfidence THEN e.confidence + 1 ELSE e.confidence]
  BY <1>0, TrainedIs
<1>2. CASE e.region # Region(b)
  <2>1. e2 = [region |-> Region(b), last |-> b, stride |-> 0, confidence |-> 0]
    BY <1>1, <1>2
  <2>2. ASSUME NEW p \in 1 .. n - 1, Precedes(s, p, n) PROVE Region(s[p]) # Region(s[n])
    <3>1. PICK m \in 1 .. n - 1 : /\ SlotOf(s, m) = SlotOf(s, n) /\ \A j \in m + 1 .. n - 1 : SlotOf(s, j) # SlotOf(s, n)
                                  /\ e.region = Region(s[m])
      BY <2>2 DEF SlotAfter, Precedes
    <3>2. ~(m < p) /\ ~(p < m)
      BY <2>2, <3>1 DEF Precedes
    <3>3. m = p
      BY <3>2
    <3> QED BY <1>2, <3>1, <3>3
  <2>3. StepsOf(s, n) = {}
    BY <2>2, RunBegins
  <2>4. LearntBy(s, n, e2) /\ ~Trusted(s, n)
    BY <2>1, <2>3 DEF LearntBy, Trusted
  <2>5. e2 \in TableSlots
    BY <1>0, <2>1 DEF TableSlots, MaxConfidence
  <2> QED BY <1>2, <2>1, <2>4, <2>5
<1>3. CASE e.region = Region(b)
  <2>1. PICK p \in 1 .. n - 1 :
          /\ SlotOf(s, p) = SlotOf(s, n) /\ \A j \in p + 1 .. n - 1 : SlotOf(s, j) # SlotOf(s, n)
          /\ e.region = Region(s[p]) /\ e.last = s[p] /\ LearntBy(s, p, e)
    <3>1. e # EmptySlot
      BY <1>0, <1>3 DEF EmptySlot
    <3> QED BY <3>1 DEF SlotAfter
  <2> DEFINE S == StepsOf(s, p)
             S2 == StepsOf(s, n)
  <2>2. p \in 1 .. Len(s) /\ p \in Nat /\ p < n
    OBVIOUS
  <2>3. S \in SUBSET Nat /\ n \notin S /\ \A y \in S : y <= n
    <3>1. S \in SUBSET (1 .. p)
      BY <2>2, RunFacts
    <3> HIDE DEF S
    <3> QED BY <2>2, <3>1
  <2>4. /\ StepOf(s, n, n) = s[n] - s[p]
        /\ \A m \in S : StepOf(s, n, m) = StepOf(s, p, m)
        /\ S2 = S \cup (IF s[n] = s[p] THEN {} ELSE {n})
    <3>1. Precedes(s, p, n) /\ Region(s[p]) = Region(s[n])
      BY <1>3, <2>1 DEF Precedes
    <3>2. p \in 1 .. n - 1
      OBVIOUS
    <3> HIDE DEF S, S2
    <3> QED BY <3>1, <3>2, RunGoesOn DEF S, S2
  <2>5. S # {} => Sets!Max(S) \in S
    BY <1>0, <2>3, MaxIs
  <2>6. (S \ {Sets!Max(S)}) # {} => Sets!Max(S \ {Sets!Max(S)}) \in S
    <3> DEFINE T == S \ {Sets!Max(S)}
    <3>1. T \in SUBSET Nat /\ T \subseteq S /\ \A y \in T : y <= n
      BY <2>3
    <3> HIDE DEF T
    <3>2. T # {} => Sets!Max(T) \in T
      BY <1>0, <3>1, MaxIs
    <3> QED BY <3>1, <3>2 DEF T
  <2>7. IF S = {} THEN e.stride = 0 /\ e.confidence = 0
        ELSE /\ e.stride = StepOf(s, p, Sets!Max(S)) /\ e.confidence \in 1 .. MaxConfidence
             /\ e.confidence >= THRESHOLD <=> /\ S \ {Sets!Max(S)} # {}
                                              /\ StepOf(s, p, Sets!Max(S \ {Sets!Max(S)})) = e.stride
    BY <2>1 DEF LearntBy
  <2>8. stride = s[n] - s[p]
    BY <2>1
  <2>9. e2 \in TableSlots /\ e2.region = Region(b) /\ e2.last = b
    BY <1>0, <1>1, <1>3 DEF TableSlots, MaxConfidence
  <2>10. CASE stride = 0
    <3>1. s[n] = s[p] /\ S2 = S /\ n \notin S2
      <4>1. s[p] \in Nat
        BY <2>2, SlotFacts
      <4> QED BY <1>0, <2>3, <2>4, <2>8, <2>10, <4>1
    <3>2. e2.stride = e.stride /\ e2.confidence = e.confidence
      BY <1>1, <1>3, <2>10
    <3>3. LearntBy(s, n, e2)
      <4> HIDE DEF S, S2
      <4> QED BY <2>4, <2>5, <2>6, <2>7, <3>1, <3>2 DEF LearntBy, S2
    <3>4. ~Trusted(s, n)
      BY <3>1 DEF Trusted
    <3>5. s[n] = e.last
      BY <2>1, <3>1
    <3> QED BY <2>9, <3>3, <3>4, <3>5
  <2>11. CASE stride # 0
    <3>1. s[n] # s[p] /\ S2 = S \cup {n}
      <4>1. s[p] \in Nat
        BY <2>2, SlotFacts
      <4> QED BY <1>0, <2>4, <2>8, <2>11, <4>1
    <3>2. Sets!Max(S2) = n /\ S2 \ {n} = S
      <4>1. S2 \in SUBSET Nat /\ n \in S2 /\ \A y \in S2 : n >= y
        BY <1>0, <2>3, <3>1
      <4> HIDE DEF S2, S
      <4> QED BY <2>3, <3>1, <4>1, MaxOnly
    <3>3. Trusted(s, n) <=> S # {} /\ stride = StepOf(s, n, Sets!Max(S))
      <4> HIDE DEF S, stride
      <4> QED BY <2>4, <2>8, <3>1, <3>2 DEF Trusted, S2
    <3>4. Trusted(s, n) <=> stride = e.stride
      <4> HIDE DEF S, stride
      <4> QED BY <2>4, <2>5, <2>7, <2>11, <3>3
    <3>5. e2.stride = stride /\ e2.confidence = IF stride # e.stride THEN 1
                                ELSE IF e.confidence < MaxConfidence THEN e.confidence + 1 ELSE e.confidence
      BY <1>1, <1>3, <2>11
    <3>6. stride = e.stride => e.confidence \in 1 .. MaxConfidence
      <4> HIDE DEF S, stride
      <4> QED BY <2>7, <2>11
    <3>7. e2.confidence \in 1 .. MaxConfidence /\ (e2.confidence >= THRESHOLD <=> stride = e.stride)
      <4> HIDE DEF stride
      <4> QED BY <1>0, <3>5, <3>6 DEF MaxConfidence, THRESHOLD
    <3>8. LearntBy(s, n, e2)
      <4> HIDE DEF S, stride
      <4>1. S2 # {} /\ Sets!Max(S2) = n /\ S2 \ {Sets!Max(S2)} = S
        BY <3>1, <3>2
      <4>2. e2.stride = StepOf(s, n, n)
        BY <2>4, <2>8, <3>5
      <4>3. (S # {} /\ StepOf(s, n, Sets!Max(S)) = e2.stride) <=> stride = e.stride
        BY <3>3, <3>4, <3>5
      <4> HIDE DEF S2
      <4> QED BY <3>7, <4>1, <4>2, <4>3 DEF LearntBy, S2
    <3>9. s[n] # e.last
      BY <2>1, <3>1
    <3> QED BY <1>3, <2>4, <2>8, <2>9, <3>4, <3>5, <3>7, <3>8, <3>9
  <2> QED BY <2>10, <2>11
<1> QED BY <1>2, <1>3

\* A reference to one slot leaves the others as they are.
LEMMA OtherSlots ==
  ASSUME NEW s \in Seq(Blocks), NEW n \in 1 .. Len(s), NEW q, NEW e, SlotAfter(s, n - 1, q, e), q # SlotOf(s, n)
  PROVE  SlotAfter(s, n, q, e)
<1>1. \A j \in 1 .. n : j \in 1 .. n - 1 \/ j = n
  OBVIOUS
<1>2. CASE e = EmptySlot /\ \A m \in 1 .. n - 1 : SlotOf(s, m) # q
  BY <1>1, <1>2 DEF SlotAfter
<1>3. CASE \E m \in 1 .. n - 1 : /\ SlotOf(s, m) = q /\ \A j \in m + 1 .. n - 1 : SlotOf(s, j) # q
                                 /\ e.region = Region(s[m]) /\ e.last = s[m] /\ LearntBy(s, m, e)
  <2>1. PICK m \in 1 .. n - 1 : /\ SlotOf(s, m) = q /\ \A j \in m + 1 .. n - 1 : SlotOf(s, j) # q
                                /\ e.region = Region(s[m]) /\ e.last = s[m] /\ LearntBy(s, m, e)
    BY <1>3
  <2>2. ASSUME NEW j \in m + 1 .. n PROVE SlotOf(s, j) # q
    <3>1. j \in m + 1 .. n - 1 \/ j = n
      OBVIOUS
    <3> QED BY <2>1, <3>1
  <2>3. m \in 1 .. n
    OBVIOUS
  <2> QED BY <2>1, <2>2, <2>3 DEF SlotAfter
<1> QED BY <1>2, <1>3 DEF SlotAfter

-----------------------------------------------------------------------------

StrideInv ==
  /\ prefetcher = [name |-> "stride", table |-> prefetcher.table]
  /\ prefetcher.table \in [0 .. StrideEntries - 1 -> TableSlots]
  /\ \A q \in 0 .. StrideEntries - 1 : SlotAfter(blocks, i - 1, q, prefetcher.table[q])
  /\ i > 1 => named = NameOf(blocks, i - 1)

LEMMA StrideInit == Init => StrideInv
<1> SUFFICES ASSUME Init PROVE StrideInv
  OBVIOUS
<1>1. i = 1 /\ prefetcher = [name |-> "stride", table |-> [n \in 0 .. StrideEntries - 1 |-> EmptySlot]]
  BY DEF Init, InitOpt, Prefetcher
<1>2. prefetcher.table = [n \in 0 .. StrideEntries - 1 |-> EmptySlot] /\ EmptySlot \in TableSlots
  BY <1>1 DEF EmptySlot, TableSlots, MaxConfidence
<1> QED BY <1>1, <1>2 DEF StrideInv, SlotAfter

LEMMA StrideStep == Inv /\ StrideInv /\ [Next]_vars => StrideInv'
<1> SUFFICES ASSUME Inv, StrideInv, [Next]_vars PROVE StrideInv'
  OBVIOUS
<1>1. ASSUME Hit \/ FillFree \/ Install, Measure PROVE StrideInv'
  <2> DEFINE b == blocks[i]
             q == SlotOf(blocks, i)
             e == prefetcher.table[q]
             e2 == Trained(e, b)
             trusted == e.region = Region(b) /\ b # e.last /\ e2.confidence >= THRESHOLD
             table2 == [prefetcher.table EXCEPT ![q] = e2]
  <2>1. i' = i + 1 /\ blocks' = blocks
    BY <1>1 DEF Hit, FillFree, Install, Record
  <2>2. blocks \in Seq(Blocks) /\ i \in 1 .. Len(blocks)
    BY <1>1 DEF Inv, TypeOK, Hit, FillFree, Install, Begin
  <2>3. q \in 0 .. StrideEntries - 1 /\ e \in TableSlots /\ SlotAfter(blocks, i - 1, q, e)
    <3>1. q \in 0 .. StrideEntries - 1
      BY <2>2, SlotFacts
    <3> HIDE DEF q
    <3> QED BY <3>1 DEF StrideInv
  <2>4. /\ e2 \in TableSlots /\ e2.region = Region(b) /\ e2.last = b /\ LearntBy(blocks, i, e2)
        /\ Trusted(blocks, i) <=> trusted
        /\ Trusted(blocks, i) => e2.stride = StepOf(blocks, i, i)
    <3> HIDE DEF e
    <3>1. SlotAfter(blocks, i - 1, SlotOf(blocks, i), e)
      BY <2>3
    <3> QED BY <2>2, <2>3, <3>1, TrainSlot
  <2>5. /\ prefetcher' = [prefetcher EXCEPT !.table[q] = e2]
        /\ named' = NonNegative(IF trusted THEN b + e2.stride ELSE NoBlock)
    <3>1. prefetcher.name = "stride"
      BY DEF StrideInv
    <3>2. prefetcher' = Observe(prefetcher, b, FALSE, FALSE).prefetcher /\ named' = Observe(prefetcher, b, FALSE, FALSE).target
      BY <1>1 DEF Measure
    <3>3. Observe(prefetcher, b, FALSE, FALSE)
          = [ObserveStride(prefetcher, b) EXCEPT !.target = NonNegative(@)]
      BY <3>1 DEF Observe
    <3>4. ObserveStride(prefetcher, b) = [prefetcher |-> [prefetcher EXCEPT !.table[q] = e2],
                                          target |-> IF trusted THEN b + e2.stride ELSE NoBlock]
      BY DEF ObserveStride, SlotOf
    <3> DEFINE p2 == [prefetcher EXCEPT !.table[q] = e2]
               t == IF trusted THEN b + e2.stride ELSE NoBlock
    <3>5. Observe(prefetcher, b, FALSE, FALSE) = [[prefetcher |-> p2, target |-> t] EXCEPT !.target = NonNegative(@)]
      BY <3>3, <3>4
    <3> HIDE DEF p2, t
    <3>6. [[prefetcher |-> p2, target |-> t] EXCEPT !.target = NonNegative(@)] = [prefetcher |-> p2, target |-> NonNegative(t)]
      OBVIOUS
    <3>7. prefetcher' = p2 /\ named' = NonNegative(t)
      BY <3>2, <3>5, <3>6
    <3> QED BY <3>7 DEF p2, t
  <2> HIDE DEF e2, trusted, e
  <2>6. prefetcher' = [name |-> "stride", table |-> table2]
    BY <2>5 DEF StrideInv
  <2> HIDE DEF table2
  <2>7. prefetcher'.table = table2
    BY <2>6
  <2>8. table2 \in [0 .. StrideEntries - 1 -> TableSlots]
    BY <2>4 DEF table2, StrideInv
  <2>9. ASSUME NEW x \in 0 .. StrideEntries - 1 PROVE SlotAfter(blocks, i, x, table2[x])
    <3>1. CASE x = q
      <4>1. table2[x] = e2
        BY <2>3, <3>1 DEF table2, StrideInv
      <4>2. i \in 1 .. i /\ \A j \in i + 1 .. i : SlotOf(blocks, j) # x
        BY <2>2
      <4> QED BY <2>4, <3>1, <4>1, <4>2 DEF SlotAfter
    <3>2. CASE x # q
      <4>1. table2[x] = prefetcher.table[x] /\ SlotAfter(blocks, i - 1, x, prefetcher.table[x])
        BY <3>2 DEF table2, StrideInv
      <4> QED BY <2>2, <3>2, <4>1, OtherSlots
    <3> QED BY <3>1, <3>2
  <2>10. named' = NameOf(blocks, i)
    <3>1. CASE trusted
      BY <2>4, <2>5, <3>1 DEF NameOf
    <3>2. CASE ~trusted
      BY <2>4, <2>5, <3>2 DEF NameOf, NonNegative, NoBlock
    <3> QED BY <3>1, <3>2
  <2>11. i' - 1 = i
    BY <2>1, <2>2
  <2> QED BY <2>1, <2>6, <2>7, <2>8, <2>9, <2>10, <2>11 DEF StrideInv
<1>2. CASE UNCHANGED <<blocks, i, prefetcher, named>>
  BY <1>2 DEF StrideInv
<1>3. CASE (MissFull \/ PopStale \/ PopVictim) /\ UNCHANGED measureVars
  BY <1>2, <1>3 DEF MissFull, PopStale, PopVictim, Popping, measureVars
<1>4. CASE UNCHANGED vars
  BY <1>2, <1>4 DEF vars, optVars, measureVars
<1> QED BY <1>1, <1>3, <1>4 DEF Next

\* prefetch.py:142, for every stream, size of the table and of a region: the block named
\* is the next one at the step of the last two steps in the region that were not 0, if
\* they were equal and no other region took the slot in between; else none is named.
THEOREM TrustIsTwoStrides == Spec => []TrustNeedsTwoStrides
<1>1. ASSUME StrideInv PROVE TrustNeedsTwoStrides
  <2>1. \A n : Taken(n) = TakenOf(blocks, n)
    BY DEF Taken, TakenOf
  <2>2. \A n : Run(n) = RunOf(blocks, n)
    BY <2>1 DEF Run, RunOf
  <2>3. \A n, m : Step(n, m) = StepOf(blocks, n, m)
    BY <2>2 DEF Step, StepOf
  <2>4. \A n : Steps(n) = StepsOf(blocks, n)
    BY <2>2, <2>3 DEF Steps, StepsOf
  <2> SUFFICES ASSUME pc = "next", i > 1,
                      NEW n, n = i - 1, NEW earlier, earlier = Steps(n) \ {n},
                      NEW trusted, trusted = (n \in Steps(n) /\ earlier # {} /\ Step(n, n) = Step(n, Sets!Max(earlier)))
               PROVE  named = IF trusted THEN NonNegative(blocks[n] + Step(n, n)) ELSE NoBlock
    BY DEF TrustNeedsTwoStrides
  <2>5. named = NameOf(blocks, n)
    BY <1>1 DEF StrideInv
  <2>6. trusted <=> Trusted(blocks, n)
    BY <2>3, <2>4 DEF Trusted
  <2> QED BY <2>3, <2>5, <2>6 DEF NameOf
<1>2. Init => Inv /\ StrideInv
  BY BestInit, StrideInit
<1>3. Inv /\ StrideInv /\ [Next]_vars => Inv' /\ StrideInv'
  BY StepOpt, StepInv, StrideStep
<1> QED BY <1>1, <1>2, <1>3, PTL DEF Spec

-----------------------------------------------------------------------------
(* The hashed index.                                                       *)

\* indexing.py:16, for every stream and every number of sets: two blocks that differ
\* only within as many adjacent bits as the index has go to different sets.
THEOREM HashSpreads == Spec => []IndexSpreads
<1>1. ASSUME Inv, Best PROVE IndexSpreads
  <2> DEFINE s == geometry.sets
  <2>1. blocks \in Seq(Blocks) /\ i - 1 \in Int /\ i - 1 <= Len(blocks) /\ Len(blocks) \in Nat
    BY <1>1 DEF Inv, TypeOK
  <2> SUFFICES ASSUME geometry.index = "xor", NEW m \in Handled, NEW n \in Handled,
                      NEW low \in 1 .. blocks[m] + blocks[n], IsPowerOfTwo(low), Apart(s, low, blocks[m], blocks[n])
               PROVE  SetOf(bound, blocks[m]) # SetOf(bound, blocks[n])
    BY DEF IndexSpreads
  <2> DEFINE x == blocks[m]
             y == blocks[n]
  <2>2. x \in Nat /\ y \in Nat
    <3>1. m \in 1 .. Len(blocks) /\ n \in 1 .. Len(blocks)
      BY <2>1 DEF Handled
    <3>2. x \in Blocks /\ y \in Blocks
      BY <2>1, <3>1
    <3> QED BY <3>2, BlocksAssumption
  <2>3. s \in Nat \ {0} /\ IndexDefined("xor", s)
    BY <1>1, GeometriesAssumption DEF Best, BoundIsOpt
  <2>4. SetOf(bound, x) = XorIndex(s, x) /\ SetOf(bound, y) = XorIndex(s, y)
    BY <1>1 DEF Best, BoundIsOpt, OptCache, SetOf, IndexOf
  <2>5. Apart(s, low, x, y)
    OBVIOUS
  <2> HIDE DEF s, x, y
  <2>6. PICK w \in Nat, k \in Nat : s = Power[w] /\ low = Power[k]
    BY <2>3 DEF IsPowerOfTwo, IndexDefined
  <2>7. w # 0
    <3> SUFFICES ASSUME w = 0 PROVE FALSE
      OBVIOUS
    <3>1. s = 1
      BY <2>6, PowerIs
    <3>2. low \in Nat \ {0}
      BY <2>6, PowerPositive
    <3>3. low * s = low
      BY <3>1, <3>2
    <3>4. x # y /\ x % low = y % low /\ x \div low = y \div low
      BY <2>5, <3>3 DEF Apart
    <3>5. x = (low * (x \div low)) + (x % low) /\ y = (low * (y \div low)) + (y % low)
      BY <2>2, <3>2, Division
    <3> QED BY <3>4, <3>5
  <2>8. XorIndex(s, x) # XorIndex(s, y)
    BY <2>2, <2>5, <2>6, <2>7, Spreads
  <2> QED BY <2>4, <2>8 DEF x, y
<1>2. [](Inv /\ Best) => []IndexSpreads
  BY <1>1, PTL
<1>3. Spec => [](Inv /\ Best)
  BY BestInit, BestStep, PTL DEF Spec
<1> QED BY <1>2, <1>3

-----------------------------------------------------------------------------
(* Sums over finite sets.                                                  *)

\* What can be built from the empty set, one element at a time.
LEMMA SubsetInduction ==
  ASSUME NEW S, IsFiniteSet(S), NEW G, {} \in G,
         \A T \in SUBSET S, x \in S : T \in G /\ x \notin T => T \cup {x} \in G
  PROVE  S \in G
<1> DEFINE N == {n \in Nat : \A T \in SUBSET S : Cardinality(T) = n => T \in G}
<1>1. 0 \in N
  <2>1. \A T \in SUBSET S : Cardinality(T) = 0 => T = {}
    BY FS_Subset, FS_EmptySet
  <2> QED BY <2>1
<1>2. ASSUME NEW n \in N PROVE n + 1 \in N
  <2>1. n \in Nat /\ \A T \in SUBSET S : Cardinality(T) = n => T \in G
    OBVIOUS
  <2>2. ASSUME NEW T \in SUBSET S, Cardinality(T) = n + 1 PROVE T \in G
    <3>1. IsFiniteSet(T) /\ T # {}
      BY <2>1, <2>2, FS_Subset, FS_EmptySet
    <3>2. PICK x \in T : TRUE
      BY <3>1
    <3>3. Cardinality(T \ {x}) = Cardinality(T) - 1
      BY <3>1, FS_RemoveElement
    <3>4. Cardinality(T \ {x}) = n
      BY <2>1, <2>2, <3>3
    <3>5. T \ {x} \in SUBSET S /\ x \in S /\ x \notin T \ {x} /\ (T \ {x}) \cup {x} = T
      BY <3>2
    <3>6. T \ {x} \in G
      BY <2>1, <3>4, <3>5
    <3> QED BY <3>5, <3>6
  <2> QED BY <2>1, <2>2
<1>3. N \in SUBSET Nat
  OBVIOUS
<1> HIDE DEF N
<1>4. \A n \in Nat : n \in N
  BY <1>1, <1>2, <1>3, NaturalSetInduction
<1>5. Cardinality(S) \in Nat
  BY FS_CardinalityType
<1> QED BY <1>4, <1>5 DEF N

\* The sum of f[x], x in S.
SumOver(f, S) == Fns!SumFunctionOnSet(f, S)

\* The element a sum over T takes next.
Some(T) == CHOOSE x \in T : TRUE

\* h has the sums of f over the subsets of S.
IsSum(h, f, S) == h = [T \in SUBSET S |-> IF T = {} THEN 0 ELSE f[Some(T)] + h[T \ {Some(T)}]]

\* There is a sum of the naturals f[x], x in S.
Summable(f, S) == IsFiniteSet(S) /\ \A x \in S : f[x] \in Nat

\* It is one of T.
LEMMA SomeIs == \A T : T # {} => Some(T) \in T
BY DEF Some

\* The sum is the last value of such a function.
LEMMA SumIs ==
  ASSUME NEW f, NEW S, NEW h, IsSum(h, f, S)
  PROVE  \E g : IsSum(g, f, S) /\ SumOver(f, S) = g[S]
<1> DEFINE g == CHOOSE g : g = [T \in SUBSET S |-> IF T = {} THEN 0 ELSE f[Some(T)] + g[T \ {Some(T)}]]
<1>1. IsSum(g, f, S)
  BY DEF IsSum
<1>2. SumOver(f, S) = g[S]
  BY DEF SumOver, Fns!SumFunctionOnSet, Fns!FoldFunctionOnSet, Fns!MapThenFoldSet, Some
<1> HIDE DEF g
<1> QED BY <1>1, <1>2

\* Such functions agree where both are defined.
LEMMA SumsAgree ==
  ASSUME NEW f, NEW S, IsFiniteSet(S), NEW T, NEW g, NEW h, IsSum(g, f, S), IsSum(h, f, T)
  PROVE  \A X \in SUBSET S : X \in SUBSET T => g[X] = h[X]
<1> DEFINE N == {n \in Nat : \A X \in SUBSET S : X \in SUBSET T /\ Cardinality(X) = n => g[X] = h[X]}
<1>0. \A X \in SUBSET S : IsFiniteSet(X) /\ Cardinality(X) \in Nat
  BY FS_Subset, FS_CardinalityType
<1>1. 0 \in N
  <2>1. \A X \in SUBSET S : Cardinality(X) = 0 => X = {}
    BY <1>0, FS_EmptySet
  <2>2. g[{}] = 0 /\ h[{}] = 0
    BY DEF IsSum
  <2> QED BY <2>1, <2>2
<1>2. ASSUME NEW n \in N PROVE n + 1 \in N
  <2>1. n \in Nat /\ \A X \in SUBSET S : X \in SUBSET T /\ Cardinality(X) = n => g[X] = h[X]
    OBVIOUS
  <2>2. ASSUME NEW X \in SUBSET S, X \in SUBSET T, Cardinality(X) = n + 1 PROVE g[X] = h[X]
    <3> DEFINE x == Some(X)
    <3>1. X # {} /\ x \in X
      BY <2>1, <2>2, FS_EmptySet, SomeIs
    <3>2. Cardinality(X \ {x}) = Cardinality(X) - 1
      BY <1>0, <3>1, FS_RemoveElement
    <3>3. Cardinality(X \ {x}) = n
      BY <2>1, <2>2, <3>2
    <3>4. g[X] = f[x] + g[X \ {x}] /\ h[X] = f[x] + h[X \ {x}]
      BY <2>2, <3>1 DEF IsSum
    <3> HIDE DEF x
    <3>5. g[X \ {x}] = h[X \ {x}]
      BY <2>1, <2>2, <3>3
    <3> QED BY <3>4, <3>5
  <2> QED BY <2>1, <2>2
<1>3. N \in SUBSET Nat
  OBVIOUS
<1> HIDE DEF N
<1>4. \A n \in Nat : n \in N
  BY <1>1, <1>2, <1>3, NaturalSetInduction
<1> QED BY <1>0, <1>4 DEF N

\* h has the sums of f over the subsets of S, naturals all of them.
Sums(h, f, S) ==
  IsSum(h, f, S) /\ h \in [SUBSET S -> Nat] /\ \A T \in SUBSET S : SumOver(f, T) = h[T]

\* There are sums of naturals, and they are naturals.
LEMMA SumsExist ==
  ASSUME NEW S, NEW f, Summable(f, S)
  PROVE  \E h : Sums(h, f, S)
<1> DEFINE P == SUBSET S
           rank == [T \in P |-> Cardinality(T)]
           pred == [T \in P |-> T \ {Some(T)}]
           step == [T \in P |-> [v \in Nat |-> IF T = {} THEN 0 ELSE f[Some(T)] + v]]
<1> USE DEF Summable
<1>0. \A T \in P : IsFiniteSet(T) /\ Cardinality(T) \in Nat
  BY FS_Subset, FS_CardinalityType
<1>1. Descends(P, Nat, rank, {{}}, pred, 0, step)
  <2>1. rank \in [P -> Nat] /\ {{}} \in SUBSET P /\ pred \in [P -> P]
    BY <1>0
  <2>2. step \in [P -> [Nat -> Nat]]
    BY SomeIs
  <2>3. ASSUME NEW T \in P \ {{}} PROVE rank[pred[T]] < rank[T]
    <3>1. Some(T) \in T
      BY SomeIs
    <3>2. Cardinality(T \ {Some(T)}) = Cardinality(T) - 1
      BY <1>0, <3>1, FS_RemoveElement
    <3>3. rank[T] = Cardinality(T) /\ rank[pred[T]] = Cardinality(T \ {Some(T)}) /\ Cardinality(T) \in Nat
      BY <1>0
    <3> HIDE DEF rank, pred
    <3> QED BY <3>2, <3>3
  <2> HIDE DEF rank, pred, step
  <2> QED BY <2>1, <2>2, <2>3 DEF Descends
<1>2. PICK h \in [P -> Nat] : \A T \in P : h[T] = IF T \in {{}} THEN 0 ELSE step[T][h[pred[T]]]
  <2> HIDE DEF P, rank, pred, step
  <2>1. \E h \in [P -> Nat] : \A T \in P : h[T] = IF T \in {{}} THEN 0 ELSE step[T][h[pred[T]]]
    BY <1>1, RecursionExists
  <2> QED BY <2>1
<1>3. ASSUME NEW T \in P PROVE h[T] = IF T = {} THEN 0 ELSE f[Some(T)] + h[T \ {Some(T)}]
  <2>1. T \ {Some(T)} \in P /\ h[T \ {Some(T)}] \in Nat /\ pred[T] = T \ {Some(T)}
    BY <1>2
  <2>2. \A v \in Nat : T # {} => step[T][v] = f[Some(T)] + v
    OBVIOUS
  <2> HIDE DEF pred, step, P
  <2> QED BY <1>2, <2>1, <2>2
<1>4. IsSum(h, f, S)
  BY <1>2, <1>3 DEF IsSum
<1>5. ASSUME NEW T \in SUBSET S PROVE SumOver(f, T) = h[T]
  <2> DEFINE restricted == [X \in SUBSET T |-> h[X]]
  <2>1. IsSum(restricted, f, T)
    <3>1. \A X \in SUBSET T : /\ restricted[X] = h[X] /\ restricted[X \ {Some(X)}] = h[X \ {Some(X)}]
                              /\ h[X] = IF X = {} THEN 0 ELSE f[Some(X)] + h[X \ {Some(X)}]
      BY <1>3
    <3> QED BY <3>1 DEF IsSum
  <2>2. PICK g : IsSum(g, f, T) /\ SumOver(f, T) = g[T]
    <3> HIDE DEF restricted
    <3> QED BY <2>1, SumIs
  <2>3. IsFiniteSet(T)
    BY <1>0
  <2>4. \A X \in SUBSET T : X \in SUBSET S => g[X] = h[X]
    BY <1>4, <2>2, <2>3, SumsAgree
  <2> QED BY <2>2, <2>4
<1> QED BY <1>2, <1>4, <1>5 DEF Sums

\* The sum without one element.
LEMMA SumAdds ==
  ASSUME NEW S, NEW f, Summable(f, S)
  PROVE  /\ SumOver(f, S) \in Nat
         /\ S = {} => SumOver(f, S) = 0
         /\ \A x \in S : /\ SumOver(f, S) = f[x] + SumOver(f, S \ {x})
                         /\ SumOver(f, S \ {x}) \in Nat
<1>1. PICK h : Sums(h, f, S)
  BY SumsExist
<1> USE DEF Summable, Sums
<1>0. \A T \in SUBSET S : IsFiniteSet(T) /\ Cardinality(T) \in Nat
  BY FS_Subset, FS_CardinalityType
<1>2. \A T \in SUBSET S : h[T] \in Nat
  BY <1>1
<1>3. h[{}] = 0 /\ \A T \in SUBSET S : T # {} => Some(T) \in T /\ h[T] = f[Some(T)] + h[T \ {Some(T)}]
  BY <1>1, SomeIs DEF IsSum
<1> DEFINE N == {n \in Nat : \A T \in SUBSET S : Cardinality(T) = n => \A x \in T : h[T] = f[x] + h[T \ {x}]}
<1>4. 0 \in N
  BY <1>0, FS_EmptySet
<1>5. ASSUME NEW n \in N PROVE n + 1 \in N
  <2>1. n \in Nat /\ \A T \in SUBSET S : Cardinality(T) = n => \A x \in T : h[T] = f[x] + h[T \ {x}]
    OBVIOUS
  <2>2. ASSUME NEW T \in SUBSET S, Cardinality(T) = n + 1, NEW x \in T PROVE h[T] = f[x] + h[T \ {x}]
    <3>1. PICK c : c = Some(T)
      OBVIOUS
    <3>2. c \in T /\ h[T] = f[c] + h[T \ {c}]
      BY <1>3, <3>1
    <3>3. CASE c = x
      BY <3>2, <3>3
    <3>4. CASE c # x
      <4>1. Cardinality(T \ {c}) = n /\ Cardinality(T \ {x}) = n
        <5>1. Cardinality(T \ {c}) = Cardinality(T) - 1 /\ Cardinality(T \ {x}) = Cardinality(T) - 1
          BY <1>0, <3>2, FS_RemoveElement
        <5> QED BY <2>1, <2>2, <5>1
      <4>2. h[T \ {c}] = f[x] + h[(T \ {c}) \ {x}] /\ h[T \ {x}] = f[c] + h[(T \ {x}) \ {c}]
        BY <2>1, <3>2, <3>4, <4>1
      <4>3. (T \ {c}) \ {x} = (T \ {x}) \ {c}
        OBVIOUS
      <4>4. h[(T \ {x}) \ {c}] \in Nat /\ f[x] \in Nat /\ f[c] \in Nat
        BY <1>2, <3>2
      <4>5. ASSUME NEW r \in Nat, NEW p \in Nat, NEW q \in Nat PROVE p + (q + r) = q + (p + r)
        OBVIOUS
      <4>6. PICK r \in Nat : h[(T \ {x}) \ {c}] = r
        BY <4>4
      <4>7. h[T] = f[c] + (f[x] + r) /\ f[x] + h[T \ {x}] = f[x] + (f[c] + r)
        BY <3>2, <4>2, <4>3, <4>6
      <4>8. f[c] + (f[x] + r) = f[x] + (f[c] + r)
        BY <4>4, <4>5
      <4> QED BY <4>7, <4>8
    <3> QED BY <3>3, <3>4
  <2> QED BY <2>1, <2>2
<1>6. N \in SUBSET Nat
  OBVIOUS
<1> HIDE DEF N
<1>7. \A n \in Nat : n \in N
  BY <1>4, <1>5, <1>6, NaturalSetInduction
<1>8. \A x \in S : h[S] = f[x] + h[S \ {x}]
  BY <1>0, <1>7 DEF N
<1> QED BY <1>1, <1>2, <1>3, <1>8

\* A part of a sum is a sum.
LEMMA SummableSubset ==
  ASSUME NEW f, NEW S, Summable(f, S), NEW T \in SUBSET S
  PROVE  Summable(f, T)
BY FS_Subset DEF Summable

\* One more element.
LEMMA SumOneMore ==
  ASSUME NEW f, NEW S, Summable(f, S), NEW T \in SUBSET S, NEW x \in S, x \notin T
  PROVE  /\ SumOver(f, T \cup {x}) = f[x] + SumOver(f, T)
         /\ SumOver(f, T) \in Nat /\ SumOver(f, T \cup {x}) \in Nat /\ f[x] \in Nat
<1> DEFINE U == T \cup {x}
<1>1. U \in SUBSET S /\ x \in U /\ U \ {x} = T
  OBVIOUS
<1> HIDE DEF U
<1>2. Summable(f, U)
  BY <1>1, SummableSubset
<1>3. SumOver(f, U) = f[x] + SumOver(f, U \ {x}) /\ SumOver(f, U \ {x}) \in Nat /\ SumOver(f, U) \in Nat
  BY <1>1, <1>2, SumAdds
<1> QED BY <1>1, <1>3 DEF U, Summable

\* A sum of smaller numbers is not larger.
LEMMA SumAtMost ==
  ASSUME NEW f, NEW h, NEW S, Summable(f, S), Summable(h, S), \A x \in S : f[x] <= h[x]
  PROVE  SumOver(f, S) <= SumOver(h, S)
<1> DEFINE G == {T \in SUBSET S : SumOver(f, T) <= SumOver(h, T)}
<1>1. {} \in G
  <2>1. Summable(f, {}) /\ Summable(h, {})
    BY SummableSubset
  <2>2. SumOver(f, {}) = 0 /\ SumOver(h, {}) = 0
    BY <2>1, SumAdds
  <2> QED BY <2>2
<1>2. ASSUME NEW T \in SUBSET S, NEW x \in S, T \in G, x \notin T PROVE T \cup {x} \in G
  <2>1. SumOver(f, T \cup {x}) = f[x] + SumOver(f, T) /\ SumOver(f, T) \in Nat /\ f[x] \in Nat
    BY <1>2, SumOneMore
  <2>2. SumOver(h, T \cup {x}) = h[x] + SumOver(h, T) /\ SumOver(h, T) \in Nat /\ h[x] \in Nat
    BY <1>2, SumOneMore
  <2>3. SumOver(f, T) <= SumOver(h, T) /\ f[x] <= h[x]
    BY <1>2
  <2>4. SumOver(f, T \cup {x}) <= SumOver(h, T \cup {x})
    BY <2>1, <2>2, <2>3
  <2> QED BY <2>4
<1>3. IsFiniteSet(S)
  BY DEF Summable
<1> HIDE DEF G
<1>4. S \in G
  BY <1>1, <1>2, <1>3, SubsetInduction
<1> QED BY <1>4 DEF G

\* A set and the rest of the sum.
LEMMA SumSplits ==
  ASSUME NEW f, NEW S, Summable(f, S), NEW A \in SUBSET S
  PROVE  /\ SumOver(f, S) = SumOver(f, A) + SumOver(f, S \ A)
         /\ SumOver(f, A) \in Nat /\ SumOver(f, S \ A) \in Nat
<1> DEFINE B == S \ A
           G == {T \in SUBSET A : SumOver(f, T \cup B) = SumOver(f, T) + SumOver(f, B)}
<1>0. B \in SUBSET S /\ A \cup B = S /\ A \cap B = {}
  OBVIOUS
<1> HIDE DEF B
<1>1. Summable(f, A) /\ Summable(f, B) /\ Summable(f, {})
  BY <1>0, SummableSubset
<1>2. SumOver(f, A) \in Nat /\ SumOver(f, B) \in Nat /\ SumOver(f, {}) = 0
  BY <1>1, SumAdds
<1>3. {} \in G
  <2>1. {} \cup B = B
    OBVIOUS
  <2> QED BY <1>2, <2>1
<1>4. ASSUME NEW T \in SUBSET A, NEW x \in A, T \in G, x \notin T PROVE T \cup {x} \in G
  <2>1. SumOver(f, T \cup {x}) = f[x] + SumOver(f, T) /\ SumOver(f, T) \in Nat /\ f[x] \in Nat
    <3>1. T \in SUBSET S /\ x \in S
      OBVIOUS
    <3> QED BY <1>4, <3>1, SumOneMore
  <2> DEFINE U == T \cup B
  <2>2. U \in SUBSET S /\ x \in S /\ x \notin U /\ U \cup {x} = (T \cup {x}) \cup B
    BY <1>0, <1>4
  <2>3. SumOver(f, U) = SumOver(f, T) + SumOver(f, B)
    BY <1>4
  <2> HIDE DEF U
  <2>4. SumOver(f, U \cup {x}) = f[x] + SumOver(f, U)
    BY <2>2, SumOneMore
  <2>5. SumOver(f, (T \cup {x}) \cup B) = SumOver(f, T \cup {x}) + SumOver(f, B)
    <3>1. \A p, q, r \in Nat : p + (q + r) = (p + q) + r
      OBVIOUS
    <3>2. SumOver(f, U \cup {x}) = f[x] + (SumOver(f, T) + SumOver(f, B))
      BY <2>3, <2>4
    <3>3. f[x] + (SumOver(f, T) + SumOver(f, B)) = (f[x] + SumOver(f, T)) + SumOver(f, B)
      BY <1>2, <2>1, <3>1
    <3>4. SumOver(f, U \cup {x}) = SumOver(f, T \cup {x}) + SumOver(f, B)
      BY <2>1, <3>2, <3>3
    <3> QED BY <2>2, <3>4
  <2> QED BY <1>4, <2>5
<1>5. IsFiniteSet(A)
  BY <1>1 DEF Summable
<1> HIDE DEF G
<1>6. A \in G
  BY <1>3, <1>4, <1>5, SubsetInduction
<1> QED BY <1>0, <1>2, <1>6 DEF G, B

\* Bounds of the elements bound the sum.
LEMMA SumBounds ==
  ASSUME NEW f, NEW S, Summable(f, S), NEW m \in Nat
  PROVE  /\ (\A x \in S : f[x] >= m) => SumOver(f, S) >= Cardinality(S) * m
         /\ (\A x \in S : f[x] <= m) => SumOver(f, S) <= Cardinality(S) * m
<1> DEFINE h == [x \in S |-> m]
           G == {T \in SUBSET S : SumOver(h, T) = Cardinality(T) * m}
<1>0. IsFiniteSet(S) /\ Summable(h, S) /\ \A x \in S : h[x] = m
  BY DEF Summable
<1> HIDE DEF h
<1>1. {} \in G
  <2>1. Summable(h, {})
    BY <1>0, SummableSubset
  <2>2. SumOver(h, {}) = 0 /\ Cardinality({}) = 0
    BY <2>1, SumAdds, FS_EmptySet
  <2> QED BY <2>2
<1>2. ASSUME NEW T \in SUBSET S, NEW x \in S, T \in G, x \notin T PROVE T \cup {x} \in G
  <2>1. SumOver(h, T \cup {x}) = m + SumOver(h, T)
    BY <1>0, <1>2, SumOneMore
  <2>2. IsFiniteSet(T)
    BY <1>0, FS_Subset
  <2>3. Cardinality(T \cup {x}) = Cardinality(T) + 1 /\ Cardinality(T) \in Nat
    BY <1>2, <2>2, FS_AddElement, FS_CardinalityType
  <2>4. SumOver(h, T) = Cardinality(T) * m
    BY <1>2
  <2>5. \A n \in Nat : m + (n * m) = (n + 1) * m
    OBVIOUS
  <2>6. m + (Cardinality(T) * m) = (Cardinality(T) + 1) * m
    BY <2>3, <2>5
  <2> QED BY <2>1, <2>3, <2>4, <2>6
<1>3. S \in G
  <2> HIDE DEF G
  <2> QED BY <1>0, <1>1, <1>2, SubsetInduction
<1>4. SumOver(h, S) = Cardinality(S) * m
  BY <1>3
<1>5. SumOver(f, S) \in Nat /\ SumOver(h, S) \in Nat
  BY <1>0, SumAdds
<1>6. ASSUME \A x \in S : f[x] >= m PROVE SumOver(h, S) <= SumOver(f, S)
  <2>1. \A x \in S : h[x] <= f[x]
    BY <1>0, <1>6 DEF Summable
  <2> QED BY <1>0, <2>1, SumAtMost
<1>7. ASSUME \A x \in S : f[x] <= m PROVE SumOver(f, S) <= SumOver(h, S)
  <2>1. \A x \in S : f[x] <= h[x]
    BY <1>0, <1>7
  <2> QED BY <1>0, <2>1, SumAtMost
<1>8. ASSUME NEW p, SumOver(h, S) = p
      PROVE  /\ (\A x \in S : f[x] >= m) => SumOver(f, S) >= p
             /\ (\A x \in S : f[x] <= m) => SumOver(f, S) <= p
  BY <1>5, <1>6, <1>7, <1>8
<1> QED BY <1>4, <1>8

\* f[x] counts g[x], and these are apart.
Counts(f, g, S) ==
  /\ IsFiniteSet(S)
  /\ \A x \in S : IsFiniteSet(g[x]) /\ f[x] = Cardinality(g[x])
  /\ \A x, y \in S : x # y => g[x] \cap g[y] = {}

\* All that they hold.
AllOf(g, S) == UNION {g[x] : x \in S}

\* So the sum counts all of them.
LEMMA SumCounts ==
  ASSUME NEW f, NEW g, NEW S, Counts(f, g, S)
  PROVE  /\ Summable(f, S) /\ IsFiniteSet(AllOf(g, S))
         /\ SumOver(f, S) = Cardinality(AllOf(g, S))
<1> DEFINE All(T) == UNION {g[x] : x \in T}
           G == {T \in SUBSET S : IsFiniteSet(All(T)) /\ SumOver(f, T) = Cardinality(All(T))}
<1>0. Summable(f, S)
  BY FS_CardinalityType DEF Counts, Summable
<1>1. {} \in G
  <2>1. Summable(f, {})
    BY <1>0, SummableSubset
  <2>2. All({}) = {}
    OBVIOUS
  <2>3. SumOver(f, {}) = 0
    BY <2>1, SumAdds
  <2> QED BY <2>2, <2>3, FS_EmptySet
<1>2. ASSUME NEW T \in SUBSET S, NEW x \in S, T \in G, x \notin T PROVE T \cup {x} \in G
  <2>1. SumOver(f, T \cup {x}) = f[x] + SumOver(f, T)
    BY <1>0, <1>2, SumOneMore
  <2>2. All(T \cup {x}) = All(T) \cup g[x]
    OBVIOUS
  <2>3. All(T) \cap g[x] = {}
    BY <1>2 DEF Counts
  <2>4. IsFiniteSet(All(T)) /\ SumOver(f, T) = Cardinality(All(T)) /\ IsFiniteSet(g[x]) /\ f[x] = Cardinality(g[x])
    BY <1>2 DEF Counts
  <2> HIDE DEF All
  <2>5. /\ IsFiniteSet(All(T) \cup g[x])
        /\ Cardinality(All(T) \cup g[x]) = Cardinality(All(T)) + Cardinality(g[x]) - Cardinality(All(T) \cap g[x])
    BY <2>4, FS_Union
  <2>6. Cardinality(All(T) \cap g[x]) = 0 /\ Cardinality(All(T)) \in Nat /\ Cardinality(g[x]) \in Nat
    BY <2>3, <2>4, FS_EmptySet, FS_CardinalityType
  <2>7. Cardinality(All(T) \cup g[x]) = f[x] + SumOver(f, T)
    BY <2>4, <2>5, <2>6
  <2> QED BY <2>1, <2>2, <2>5, <2>7
<1>3. IsFiniteSet(S)
  BY DEF Counts
<1>4. S \in G
  <2> HIDE DEF G
  <2> QED BY <1>1, <1>2, <1>3, SubsetInduction
<1> QED BY <1>0, <1>4 DEF AllOf

-----------------------------------------------------------------------------
(* The hottest sets.                                                       *)

\* The sets before s: those with more misses, and the lower ones with as many.
Ahead(v, s) == {t \in DOMAIN v : v[t] > v[s] \/ (v[t] = v[s] /\ t < s)}

\* How many these are.
Place(v, s) == Cardinality(Ahead(v, s))

\* Every place is that of one set, and who is before has no fewer misses.
LEMMA PlacesAre ==
  ASSUME NEW S \in SUBSET Nat, IsFiniteSet(S), NEW v \in [S -> Nat]
  PROVE  /\ \A s \in S : Place(v, s) \in 0 .. Cardinality(S) - 1
         /\ \A s, t \in S : Place(v, s) < Place(v, t) => v[s] >= v[t]
         /\ \A s, t \in S : Place(v, s) = Place(v, t) => s = t
         /\ \A n \in 0 .. Cardinality(S) - 1 : \E s \in S : Place(v, s) = n
<1> DEFINE N == Cardinality(S)
<1>0. DOMAIN v = S /\ N \in Nat
  BY FS_CardinalityType
<1>1. ASSUME NEW s \in S
      PROVE  Ahead(v, s) \in SUBSET S /\ s \notin Ahead(v, s) /\ IsFiniteSet(Ahead(v, s)) /\ Place(v, s) \in Nat
  <2>1. Ahead(v, s) \in SUBSET S /\ s \notin Ahead(v, s)
    BY <1>0 DEF Ahead
  <2>2. IsFiniteSet(Ahead(v, s))
    BY <2>1, FS_Subset
  <2> QED BY <2>1, <2>2, FS_CardinalityType DEF Place
<1>2. ASSUME NEW s \in S PROVE Place(v, s) \in 0 .. N - 1
  <2>1. Ahead(v, s) \in SUBSET (S \ {s})
    BY <1>1
  <2>2. IsFiniteSet(S \ {s}) /\ Cardinality(S \ {s}) = N - 1
    BY FS_RemoveElement
  <2>3. Cardinality(Ahead(v, s)) <= Cardinality(S \ {s})
    BY <2>1, <2>2, FS_Subset
  <2> QED BY <1>0, <1>1, <2>2, <2>3 DEF Place
<1>3. ASSUME NEW s \in S, NEW t \in S, s \in Ahead(v, t) PROVE Place(v, s) < Place(v, t)
  <2>1. Ahead(v, s) \in SUBSET Ahead(v, t) /\ s \notin Ahead(v, s)
    <3>1. ASSUME NEW u \in Ahead(v, s) PROVE u \in Ahead(v, t)
      <4>1. u \in S /\ v[u] \in Nat /\ v[s] \in Nat /\ v[t] \in Nat /\ u \in Nat /\ s \in Nat /\ t \in Nat
        BY <1>0, <3>1 DEF Ahead
      <4>2. (v[u] > v[s] \/ (v[u] = v[s] /\ u < s)) /\ (v[s] > v[t] \/ (v[s] = v[t] /\ s < t))
        BY <1>3, <3>1 DEF Ahead
      <4>3. v[u] > v[t] \/ (v[u] = v[t] /\ u < t)
        BY <4>1, <4>2
      <4> QED BY <1>0, <4>1, <4>3 DEF Ahead
    <3> QED BY <1>1, <3>1
  <2>2. Place(v, s) <= Place(v, t) /\ (Place(v, t) = Place(v, s) => Ahead(v, t) = Ahead(v, s))
    BY <1>1, <2>1, FS_Subset DEF Place
  <2>3. Place(v, t) # Place(v, s)
    BY <1>3, <2>1, <2>2
  <2> QED BY <1>1, <2>2, <2>3
<1>4. ASSUME NEW s \in S, NEW t \in S, s # t PROVE s \in Ahead(v, t) \/ t \in Ahead(v, s)
  <2>1. v[s] \in Nat /\ v[t] \in Nat /\ s \in Nat /\ t \in Nat
    OBVIOUS
  <2>2. v[s] > v[t] \/ (v[s] = v[t] /\ s < t) \/ v[t] > v[s] \/ (v[t] = v[s] /\ t < s)
    BY <1>4, <2>1
  <2> QED BY <1>0, <2>2 DEF Ahead
<1>5. ASSUME NEW s \in S, NEW t \in S, Place(v, s) = Place(v, t) PROVE s = t
  <2>1. Place(v, s) \in Nat /\ Place(v, t) \in Nat
    BY <1>1
  <2>2. ~(Place(v, s) < Place(v, t)) /\ ~(Place(v, t) < Place(v, s))
    BY <1>5, <2>1
  <2> QED BY <1>3, <1>4, <2>2
<1>6. ASSUME NEW s \in S, NEW t \in S, Place(v, s) < Place(v, t) PROVE v[s] >= v[t]
  <2>1. Place(v, s) \in Nat /\ Place(v, t) \in Nat
    BY <1>1
  <2>2. s # t /\ ~(Place(v, t) < Place(v, s))
    BY <1>6, <2>1
  <2>3. s \in Ahead(v, t)
    BY <1>3, <1>4, <2>2
  <2>4. v[s] \in Nat /\ v[t] \in Nat
    OBVIOUS
  <2> QED BY <2>3, <2>4 DEF Ahead
<1>7. ASSUME NEW n \in 0 .. N - 1 PROVE \E s \in S : Place(v, s) = n
  <2> DEFINE T == 0 .. N - 1
             place == [s \in S |-> Place(v, s)]
  <2>1. place \in [S -> T] /\ \A s, t \in S : place[s] = place[t] => s = t
    BY <1>2, <1>5
  <2>2. IsFiniteSet(T) /\ Cardinality(T) = N
    BY <1>0, FS_Interval
  <2>3. n \in T
    OBVIOUS
  <2> HIDE DEF T, place
  <2>4. place \in Injection(S, T)
    BY <2>1 DEF Injection, IsInjective
  <2>5. place \in Surjection(S, T)
    BY <2>2, <2>4, FS_Injection
  <2>6. \E s \in S : place[s] = n
    BY <2>3, <2>5 DEF Surjection
  <2> QED BY <2>6 DEF place
<1> QED BY <1>2, <1>5, <1>6, <1>7

\* The first places of Hottest have no less than an even share.
LEMMA TopHasShare ==
  ASSUME NEW S \in SUBSET Nat, IsFiniteSet(S), NEW v \in [S -> Nat],
         NEW k \in 1 .. 4, NEW N, N = Cardinality(S), N # 0
  PROVE  TopMisses(v, <<k, 4>>) * N >= TopSets(<<k, 4>>, N) * SumOver(v, S)
<1> DEFINE t == TopSets(<<k, 4>>, N)
           At(n) == Hottest(v)[n]
           top == {At(n) : n \in 1 .. t}
<1>0. DOMAIN v = S /\ N \in Nat \ {0}
  BY FS_CardinalityType
<1>0a. \A s, u \in S : Place(v, s) = Place(v, u) => s = u
  BY PlacesAre
<1>1. t \in 1 .. N
  <2> DEFINE u == ((k * N) + 4 - 1) \div 4
  <2>1. u \in Nat /\ u <= N
    <3>1. \A n \in Nat \ {0} : ((((1 * n) + 4) - 1) \div 4) \in Nat /\ ((((1 * n) + 4) - 1) \div 4) <= n
      OBVIOUS
    <3>2. \A n \in Nat \ {0} : ((((2 * n) + 4) - 1) \div 4) \in Nat /\ ((((2 * n) + 4) - 1) \div 4) <= n
      OBVIOUS
    <3>3. \A n \in Nat \ {0} : ((((3 * n) + 4) - 1) \div 4) \in Nat /\ ((((3 * n) + 4) - 1) \div 4) <= n
      OBVIOUS
    <3>4. \A n \in Nat \ {0} : ((((4 * n) + 4) - 1) \div 4) \in Nat /\ ((((4 * n) + 4) - 1) \div 4) <= n
      OBVIOUS
    <3>5. k = 1 \/ k = 2 \/ k = 3 \/ k = 4
      OBVIOUS
    <3> QED BY <1>0, <3>1, <3>2, <3>3, <3>4, <3>5
  <2>2. t = Sets!Max({1, u})
    BY DEF TopSets
  <2> HIDE DEF u
  <2> DEFINE P == {1, u}
  <2>3. \E x \in P : \A y \in P : x >= y
    BY <2>1
  <2>4. t = CHOOSE x \in P : \A y \in P : x >= y
    BY <2>2 DEF Sets!Max
  <2> HIDE DEF t
  <2>5. t \in P
    BY <2>3, <2>4
  <2>6. t >= 1
    BY <2>1, <2>3, <2>4
  <2> QED BY <1>0, <2>1, <2>5, <2>6
<1>2. ASSUME NEW n \in 1 .. N PROVE At(n) \in S /\ Place(v, At(n)) = n - 1
  <2>1. At(n) = CHOOSE s \in S : Place(v, s) = n - 1
    BY <1>0 DEF Hottest, Place, Ahead
  <2>2. n - 1 \in 0 .. Cardinality(S) - 1
    BY <1>0
  <2>3. \E s \in S : Place(v, s) = n - 1
    BY <2>2, PlacesAre
  <2> HIDE DEF At
  <2> QED BY <2>1, <2>3
<1> HIDE DEF At, t
<1>3. top \in SUBSET S /\ \A s \in S : s \in top <=> Place(v, s) < t
  <2>1. \A n \in 1 .. t : n \in 1 .. N
    BY <1>0, <1>1
  <2>2. top \in SUBSET S
    BY <1>2, <2>1
  <2>3. ASSUME NEW n \in 1 .. t PROVE Place(v, At(n)) < t
    <3>1. Place(v, At(n)) = n - 1
      BY <1>2, <2>1
    <3> QED BY <1>1, <3>1
  <2>4. ASSUME NEW s \in S, Place(v, s) < t PROVE s \in top
    <3>1. PICK p : p = Place(v, s)
      OBVIOUS
    <3>2. p \in 0 .. Cardinality(S) - 1
      BY <3>1, PlacesAre
    <3>3. p + 1 \in 1 .. t /\ p + 1 \in 1 .. N /\ (p + 1) - 1 = p
      BY <1>0, <1>1, <2>4, <3>1, <3>2
    <3>4. At(p + 1) \in S /\ Place(v, At(p + 1)) = Place(v, s)
      BY <1>2, <3>1, <3>3
    <3>5. At(p + 1) = s
      BY <1>0a, <3>4
    <3> QED BY <3>3, <3>5
  <2> QED BY <2>2, <2>3, <2>4
<1>4. IsFiniteSet(top) /\ Cardinality(top) = t
  <2> DEFINE f == [n \in 1 .. t |-> At(n)]
  <2>1. f \in [1 .. t -> top] /\ \A z \in top : \E n \in 1 .. t : f[n] = z
    OBVIOUS
  <2>2. ASSUME NEW m \in 1 .. t, NEW n \in 1 .. t, f[m] = f[n] PROVE m = n
    <3>1. m \in 1 .. N /\ n \in 1 .. N /\ At(m) = At(n)
      BY <1>0, <1>1, <2>2
    <3>2. m - 1 = n - 1
      BY <1>2, <3>1
    <3> QED BY <3>1, <3>2
  <2>3. IsFiniteSet(1 .. t) /\ Cardinality(1 .. t) = t
    BY <1>1, <1>0, FS_Interval
  <2> HIDE DEF f, top
  <2> QED BY <2>1, <2>2, <2>3, CountOfDistinct
<1> HIDE DEF top
<1> DEFINE m == v[At(t)]
           T == SumOver(v, top)
           R == SumOver(v, S \ top)
<1>5. At(t) \in S /\ Place(v, At(t)) = t - 1 /\ m \in Nat
  BY <1>1, <1>2
<1>6. ASSUME NEW s \in top PROVE v[s] >= m
  <2>1. s \in S /\ Place(v, s) < t
    BY <1>3
  <2>2. Place(v, s) \in Int
    BY <2>1, PlacesAre
  <2>3. Place(v, s) < Place(v, At(t)) \/ Place(v, s) = Place(v, At(t))
    BY <1>0, <1>1, <1>5, <2>1, <2>2
  <2>4. CASE Place(v, s) < Place(v, At(t))
    BY <1>5, <2>1, <2>4, PlacesAre
  <2>5. CASE Place(v, s) = Place(v, At(t))
    <3>1. s = At(t)
      BY <1>0a, <1>5, <2>1, <2>5
    <3> QED BY <1>5, <3>1
  <2> QED BY <2>3, <2>4, <2>5
<1>7. ASSUME NEW s \in S \ top PROVE v[s] <= m
  <2>1. s \in S /\ ~(Place(v, s) < t)
    BY <1>3
  <2>2. Place(v, s) \in Int
    BY <2>1, PlacesAre
  <2>3. Place(v, At(t)) < Place(v, s)
    BY <1>0, <1>1, <1>5, <2>1, <2>2
  <2>4. v[At(t)] >= v[s]
    BY <1>5, <2>1, <2>3, PlacesAre
  <2> QED BY <1>5, <2>1, <2>4
<1>8. Summable(v, S) /\ Summable(v, top) /\ Summable(v, S \ top)
  <2>1. Summable(v, S)
    BY DEF Summable
  <2> QED BY <1>3, <2>1, SummableSubset
<1>9. SumOver(v, S) = T + R /\ T \in Nat /\ R \in Nat
  <2>1. top \in SUBSET S /\ Summable(v, S)
    BY <1>3, <1>8
  <2>2. /\ SumOver(v, S) = SumOver(v, top) + SumOver(v, S \ top)
        /\ SumOver(v, top) \in Nat /\ SumOver(v, S \ top) \in Nat
    BY <2>1, SumSplits
  <2> QED BY <2>2
<1>10. Cardinality(S \ top) = N - t
  <2>1. top \cap S = top /\ S \cap top = top
    BY <1>3
  <2>2. Cardinality(S \ top) = Cardinality(S) - Cardinality(S \cap top)
    BY FS_Difference
  <2> QED BY <1>4, <2>1, <2>2
<1> HIDE DEF m
<1>11. T >= t * m
  BY <1>4, <1>5, <1>6, <1>8, SumBounds
<1>12. R <= (N - t) * m
  BY <1>5, <1>7, <1>8, <1>10, SumBounds
<1>13. TopMisses(v, <<k, 4>>) = T
  BY <1>0 DEF TopMisses, SumOver, top, At, t
<1> HIDE DEF T, R
<1>14. T * N >= t * (T + R)
  <2>1. PICK r \in Nat : r = N - t
    BY <1>0, <1>1
  <2>2. t \in Nat /\ N = t + r
    BY <1>0, <1>1, <2>1
  <2>3. ASSUME NEW a \in Nat, NEW b \in Nat, NEW c \in Nat, a <= b PROVE c * a <= c * b
    <3>1. PICK d \in Nat : b = a + d
      <4>1. b - a \in Nat /\ b = a + (b - a)
        BY <2>3
      <4> QED BY <4>1
    <3>2. \A x, y, z \in Nat : x * (y + z) = (x * y) + (x * z) /\ x * y \in Nat
      OBVIOUS
    <3>3. c * b = (c * a) + (c * d) /\ c * a \in Nat /\ c * d \in Nat
      BY <3>1, <3>2
    <3> QED BY <3>3
  <2>4. PICK x \in Nat : x = t * m
    BY <1>5, <2>2
  <2>5. PICK y \in Nat : y = r * m
    BY <1>5, <2>1
  <2>6. x <= T /\ R <= y
    BY <1>9, <1>11, <1>12, <2>1, <2>4, <2>5
  <2>7. r * x <= r * T
    BY <1>9, <2>1, <2>3, <2>4, <2>6
  <2>8. t * R <= t * y
    BY <1>9, <2>2, <2>3, <2>5, <2>6
  <2>9. t * y = r * x
    <3>1. \A a, b, c \in Nat : a * (b * c) = b * (a * c)
      OBVIOUS
    <3>2. t * (r * m) = r * (t * m)
      BY <1>5, <2>1, <2>2, <3>1
    <3> QED BY <2>4, <2>5, <3>2
  <2>10. T * N = (t * T) + (r * T) /\ t * (T + R) = (t * T) + (t * R)
    <3>1. \A a, b, c \in Nat : a * (b + c) = (b * a) + (c * a) /\ b * (a + c) = (b * a) + (b * c)
      OBVIOUS
    <3> QED BY <1>9, <2>1, <2>2, <3>1
  <2>11. \A a, b, c \in Nat : c <= b => a + b >= a + c
    OBVIOUS
  <2>12. t * T \in Nat /\ r * T \in Nat /\ t * R \in Nat /\ t * R <= r * T
    <3>1. \A a, b \in Nat : a * b \in Nat
      OBVIOUS
    <3>2. t * T \in Nat /\ r * T \in Nat /\ t * R \in Nat /\ r * x \in Nat /\ t * y \in Nat
      BY <1>9, <2>1, <2>2, <2>4, <2>5, <3>1
    <3> QED BY <2>7, <2>8, <2>9, <3>2
  <2> QED BY <2>10, <2>11, <2>12
<1> QED BY <1>9, <1>13, <1>14 DEF t

-----------------------------------------------------------------------------
(* Set pressure.                                                           *)

\* The blocks set q[2] is asked for in window q[1] by the first k references of s.
AskedIn(s, g, k) ==
  [q \in Nat \X SetsOf(g) |-> {s[m] : m \in {n \in 1 .. k : (n - 1) \div g.window = q[1] /\ s[n] % g.sets = q[2]}}]

\* What the figures are about, in the first c windows: A is such a function.
AskedPairs(A, c, g) == {q \in (0 .. c - 1) \X SetsOf(g) : A[q] # {}}
OverPairs(A, c, g) == {q \in (0 .. c - 1) \X SetsOf(g) : A[q] # {} /\ Cardinality(A[q]) > g.ways}
WindowsOf(pairs) == {q[1] : q \in pairs}
AskedBlocks(A, c, g) == UNION {{q} \X A[q] : q \in AskedPairs(A, c, g)}

\* The figures of p are those of the first c windows.
Figures(p, A, c, g) ==
  /\ p.windows = Cardinality(WindowsOf(AskedPairs(A, c, g)))
  /\ p.touched = Cardinality(AskedPairs(A, c, g))
  /\ p.oversubscribed = Cardinality(OverPairs(A, c, g))
  /\ p.windowsOver = Cardinality(WindowsOf(OverPairs(A, c, g)))
  /\ p.totalDistinct = Cardinality(AskedBlocks(A, c, g))
  /\ p.maxDistinct \in {0} \cup {Cardinality(A[q]) : q \in AskedPairs(A, c, g)}
  /\ \A q \in AskedPairs(A, c, g) : Cardinality(A[q]) <= p.maxDistinct

\* p has the fields of NoPressure.
IsPressure(p) ==
  p = [accesses |-> p.accesses, windows |-> p.windows, touched |-> p.touched, oversubscribed |-> p.oversubscribed,
       windowsOver |-> p.windowsOver, maxDistinct |-> p.maxDistinct, totalDistinct |-> p.totalDistinct,
       current |-> p.current]

\* The current window of p is window c.
OpenWindow(p, A, c, g) ==
  /\ DOMAIN p.current = {x \in SetsOf(g) : A[<<c, x>>] # {}}
  /\ \A x \in DOMAIN p.current : p.current[x] = A[<<c, x>>]

\* The pairs D of the windows before c, and those of c that have X.
WindowAdded(D, D2, X, c, S) ==
  /\ X \in SUBSET S /\ D \in SUBSET ((0 .. c - 1) \X S)
  /\ D2 = D \cup {<<c, x>> : x \in X}

\* The pairs and the windows are so many more.
LEMMA PairsAdd ==
  ASSUME NEW S, IsFiniteSet(S), NEW c \in Nat, NEW D, NEW D2, NEW X, WindowAdded(D, D2, X, c, S)
  PROVE  /\ IsFiniteSet(D) /\ IsFiniteSet(X) /\ IsFiniteSet(D2)
         /\ Cardinality(D) \in Nat /\ Cardinality(WindowsOf(D)) \in Nat
         /\ Cardinality(D2) = Cardinality(D) + Cardinality(X)
         /\ Cardinality(WindowsOf(D2)) = Cardinality(WindowsOf(D)) + IF X = {} THEN 0 ELSE 1
<1> DEFINE P == (0 .. c - 1) \X S
           E == {<<c, x>> : x \in X}
<1> USE DEF WindowAdded
<1>1. IsFiniteSet(D) /\ Cardinality(D) \in Nat
  <2>1. IsFiniteSet(0 .. c - 1)
    BY FS_Interval
  <2>2. IsFiniteSet(P)
    BY <2>1, FS_Product
  <2> QED BY <2>2, FS_Subset, FS_CardinalityType
<1>2. IsFiniteSet(X)
  BY FS_Subset
<1>3. IsFiniteSet(E) /\ Cardinality(E) = Cardinality(X)
  <2> DEFINE f == [x \in X |-> <<c, x>>]
  <2>1. f \in [X -> E] /\ (\A x, y \in X : f[x] = f[y] => x = y) /\ \A z \in E : \E x \in X : f[x] = z
    OBVIOUS
  <2> HIDE DEF f, E
  <2> QED BY <1>2, <2>1, CountOfDistinct
<1>4. D \cap E = {}
  <2>1. \A q \in D : q[1] \in 0 .. c - 1
    OBVIOUS
  <2>2. \A q \in E : q[1] = c
    OBVIOUS
  <2>3. c \notin 0 .. c - 1
    OBVIOUS
  <2> HIDE DEF E
  <2> QED BY <2>1, <2>2, <2>3
<1>5. IsFiniteSet(D2) /\ Cardinality(D2) = Cardinality(D) + Cardinality(X)
  <2> HIDE DEF E
  <2>1. D2 = D \cup E
    BY DEF E
  <2>2. IsFiniteSet(D2) /\ Cardinality(D2) = Cardinality(D) + Cardinality(E) - Cardinality(D \cap E)
    BY <1>1, <1>3, <2>1, FS_Union
  <2>3. Cardinality(D \cap E) = 0 /\ Cardinality(X) \in Nat
    BY <1>2, <1>4, FS_EmptySet, FS_CardinalityType
  <2> QED BY <1>1, <1>3, <2>2, <2>3
<1>6. IsFiniteSet(WindowsOf(D)) /\ c \notin WindowsOf(D)
  <2>1. WindowsOf(D) \in SUBSET (0 .. c - 1)
    BY DEF WindowsOf
  <2>2. IsFiniteSet(0 .. c - 1) /\ c \notin 0 .. c - 1
    BY FS_Interval
  <2> QED BY <2>1, <2>2, FS_Subset
<1>7. Cardinality(WindowsOf(D)) \in Nat
  BY <1>6, FS_CardinalityType
<1>8. CASE X = {}
  <2>1. D2 = D
    BY <1>8
  <2>2. Cardinality(WindowsOf(D2)) = Cardinality(WindowsOf(D)) + 0
    <3>1. PICK n \in Nat : n = Cardinality(WindowsOf(D))
      BY <1>7
    <3>2. Cardinality(WindowsOf(D2)) = n
      BY <2>1, <3>1
    <3> QED BY <3>1, <3>2
  <2> HIDE DEF WindowAdded
  <2> QED BY <1>1, <1>2, <1>5, <1>7, <1>8, <2>2
<1>9. CASE X # {}
  <2>1. WindowsOf(D2) = WindowsOf(D) \cup {c}
    <3>1. \A q \in D2 : q \in D \/ q[1] = c
      OBVIOUS
    <3>2. \A q \in D : q \in D2
      OBVIOUS
    <3>3. PICK x \in X : TRUE
      BY <1>9
    <3>4. <<c, x>> \in D2 /\ <<c, x>>[1] = c
      BY <3>3
    <3> HIDE DEF WindowAdded
    <3> QED BY <3>1, <3>2, <3>4 DEF WindowsOf
  <2> HIDE DEF WindowAdded
  <2>2. Cardinality(WindowsOf(D2)) = Cardinality(WindowsOf(D)) + 1
    BY <1>6, <2>1, FS_AddElement
  <2> QED BY <1>1, <1>2, <1>5, <1>7, <1>9, <2>2
<1> QED BY <1>8, <1>9

\* No set is asked for infinitely many blocks.
AllFinite(A, g) == \A q \in Nat \X SetsOf(g) : IsFiniteSet(A[q])

\* Closing window c adds its figures.
LEMMA CloseAdds ==
  ASSUME NEW g, GeometryOK(g), NEW c \in Nat, NEW A, AllFinite(A, g),
         NEW p, IsPressure(p), Figures(p, A, c, g), OpenWindow(p, A, c, g)
  PROVE  LET closed == CloseWindow(p, g.ways)
         IN /\ IsPressure(closed) /\ closed.accesses = p.accesses /\ Figures(closed, A, c + 1, g)
            /\ DOMAIN closed.current = {}
<1> DEFINE S == SetsOf(g)
           touched == DOMAIN p.current
           Distinct(x) == Cardinality(p.current[x])
           over == {x \in touched : Distinct(x) > g.ways}
           P == AskedPairs(A, c, g)
           O == OverPairs(A, c, g)
           P2 == AskedPairs(A, c + 1, g)
           O2 == OverPairs(A, c + 1, g)
           f == [x \in touched |-> Distinct(x)]
<1>1. touched \in SUBSET S /\ over \in SUBSET S /\ over \in SUBSET touched
  BY DEF OpenWindow
<1>2. IsFiniteSet(S)
  <2>1. g.sets \in Nat
    BY DEF GeometryOK
  <2> QED BY <2>1, FS_Interval DEF SetsOf
<1>3. \A w : w \in 0 .. (c + 1) - 1 <=> w \in 0 .. c - 1 \/ w = c
  OBVIOUS
<1>4. P \in SUBSET ((0 .. c - 1) \X S) /\ P2 = P \cup {<<c, x>> : x \in touched}
  <2>1. \A q : q \in (0 .. (c + 1) - 1) \X S <=> q \in (0 .. c - 1) \X S \/ \E x \in S : q = <<c, x>>
    BY <1>3
  <2>2. \A q : q \in P2 <=> (q \in (0 .. c - 1) \X S \/ \E x \in S : q = <<c, x>>) /\ A[q] # {}
    BY <2>1 DEF AskedPairs
  <2>3. \A x : x \in touched <=> x \in S /\ A[<<c, x>>] # {}
    BY DEF OpenWindow
  <2>4. \A q : q \in P <=> q \in (0 .. c - 1) \X S /\ A[q] # {}
    BY DEF AskedPairs
  <2> HIDE DEF P, P2, touched, S
  <2> QED BY <2>2, <2>3, <2>4
<1>5. O \in SUBSET ((0 .. c - 1) \X S) /\ O2 = O \cup {<<c, x>> : x \in over}
  <2>1. \A q : q \in (0 .. (c + 1) - 1) \X S <=> q \in (0 .. c - 1) \X S \/ \E x \in S : q = <<c, x>>
    BY <1>3
  <2>2. \A q : q \in O2 <=> (q \in (0 .. c - 1) \X S \/ \E x \in S : q = <<c, x>>)
                            /\ A[q] # {} /\ Cardinality(A[q]) > g.ways
    BY <2>1 DEF OverPairs
  <2>3. \A x : x \in over <=> x \in S /\ A[<<c, x>>] # {} /\ Cardinality(A[<<c, x>>]) > g.ways
    BY DEF OpenWindow
  <2>4. \A q : q \in O <=> q \in (0 .. c - 1) \X S /\ A[q] # {} /\ Cardinality(A[q]) > g.ways
    BY DEF OverPairs
  <2> HIDE DEF O, O2, over, S
  <2> QED BY <2>2, <2>3, <2>4
<1> HIDE DEF P, P2, O, O2
<1>6. /\ IsFiniteSet(P) /\ IsFiniteSet(touched) /\ Cardinality(P) \in Nat /\ Cardinality(WindowsOf(P)) \in Nat
      /\ Cardinality(P2) = Cardinality(P) + Cardinality(touched)
      /\ Cardinality(WindowsOf(P2)) = Cardinality(WindowsOf(P)) + IF touched = {} THEN 0 ELSE 1
  <2> HIDE DEF touched, S
  <2>1. WindowAdded(P, P2, touched, c, S)
    BY <1>1, <1>4 DEF WindowAdded
  <2> QED BY <1>2, <2>1, PairsAdd
<1>7. /\ Cardinality(O) \in Nat /\ Cardinality(WindowsOf(O)) \in Nat
      /\ Cardinality(O2) = Cardinality(O) + Cardinality(over)
      /\ Cardinality(WindowsOf(O2)) = Cardinality(WindowsOf(O)) + IF over = {} THEN 0 ELSE 1
  <2> HIDE DEF over, S
  <2>1. WindowAdded(O, O2, over, c, S)
    BY <1>1, <1>5 DEF WindowAdded
  <2> QED BY <1>2, <2>1, PairsAdd
<1>8. \A q \in P \cup P2 : q \in Nat \X S /\ IsFiniteSet(A[q]) /\ Cardinality(A[q]) \in Nat
  <2>1. \A q \in P \cup P2 : q \in Nat \X S
    BY <1>1, <1>4
  <2> QED BY <2>1, FS_CardinalityType DEF AllFinite
<1>9. \A x \in touched : <<c, x>> \in P2 /\ p.current[x] = A[<<c, x>>]
  BY <1>4 DEF OpenWindow
<1>10. /\ IsFiniteSet(AskedBlocks(A, c, g))
       /\ Cardinality(AskedBlocks(A, c + 1, g)) = Cardinality(AskedBlocks(A, c, g)) + SumOver(f, touched)
       /\ SumOver(f, touched) \in Nat /\ Cardinality(AskedBlocks(A, c, g)) \in Nat
       /\ Summable(f, touched)
  <2> DEFINE h == [q \in P |-> Cardinality(A[q])]
             t == [q \in P |-> {q} \X A[q]]
             u == [x \in touched |-> {<<c, x>>} \X A[<<c, x>>]]
             old == AllOf(t, P)
             new == AllOf(u, touched)
  <2>1. \A q \in P \cup P2 : IsFiniteSet({q} \X A[q]) /\ Cardinality({q} \X A[q]) = Cardinality(A[q])
    <3> SUFFICES ASSUME NEW q \in P \cup P2 PROVE IsFiniteSet({q} \X A[q]) /\ Cardinality({q} \X A[q]) = Cardinality(A[q])
      OBVIOUS
    <3>1. IsFiniteSet({q}) /\ Cardinality({q}) = 1
      BY FS_Singleton
    <3>2. IsFiniteSet({q} \X A[q]) /\ Cardinality({q} \X A[q]) = Cardinality({q}) * Cardinality(A[q])
      BY <1>8, <3>1, FS_Product
    <3> QED BY <1>8, <3>1, <3>2
  <2>2. Counts(h, t, P)
    <3>1. \A q, r \in P : q # r => t[q] \cap t[r] = {}
      OBVIOUS
    <3>2. \A q \in P : IsFiniteSet(t[q]) /\ h[q] = Cardinality(t[q])
      BY <2>1
    <3> HIDE DEF t, h
    <3> QED BY <1>6, <3>1, <3>2 DEF Counts
  <2>3. Counts(f, u, touched)
    <3>1. \A x, y \in touched : x # y => u[x] \cap u[y] = {}
      OBVIOUS
    <3>2. \A x \in touched : IsFiniteSet(u[x]) /\ f[x] = Cardinality(u[x])
      BY <1>9, <2>1
    <3> HIDE DEF u, f
    <3> QED BY <1>6, <3>1, <3>2 DEF Counts
  <2>4. IsFiniteSet(old)
    <3> HIDE DEF t, h
    <3> QED BY <2>2, SumCounts
  <2>5. IsFiniteSet(new) /\ SumOver(f, touched) = Cardinality(new)
    <3> HIDE DEF u, f, touched
    <3> QED BY <2>3, SumCounts
  <2>6. old = AskedBlocks(A, c, g)
    BY DEF AskedBlocks, AllOf, P
  <2>7. old \cup new = AskedBlocks(A, c + 1, g)
    <3>1. AskedBlocks(A, c + 1, g) = UNION {{q} \X A[q] : q \in P2}
      BY DEF AskedBlocks, P2
    <3>2. new = UNION {{q} \X A[q] : q \in {<<c, x>> : x \in touched}}
      BY DEF AllOf
    <3>3. old = UNION {{q} \X A[q] : q \in P}
      BY DEF AllOf
    <3> HIDE DEF old, new, touched
    <3> QED BY <1>4, <3>1, <3>2, <3>3
  <2>8. old \cap new = {}
    <3>1. \A z \in old : z[1] \in P
      BY DEF AllOf
    <3>2. \A z \in new : z[1][1] = c
      <4> SUFFICES ASSUME NEW z \in new PROVE z[1][1] = c
        OBVIOUS
      <4>1. PICK x \in touched : z \in {<<c, x>>} \X A[<<c, x>>]
        BY DEF AllOf
      <4> QED BY <4>1
    <3>3. \A q \in P : q[1] \in 0 .. c - 1
      BY <1>4
    <3>4. c \notin 0 .. c - 1
      OBVIOUS
    <3> HIDE DEF old, new
    <3> QED BY <3>1, <3>2, <3>3, <3>4
  <2>0. Summable(f, touched) /\ SumOver(f, touched) \in Nat
    <3> HIDE DEF u, f, touched
    <3> QED BY <2>3, SumCounts, SumAdds
  <2> HIDE DEF old, new, f, touched
  <2>9. Cardinality(old \cup new) = Cardinality(old) + Cardinality(new) - Cardinality(old \cap new)
    BY <2>4, <2>5, FS_Union
  <2>10. Cardinality(old \cap new) = 0 /\ Cardinality(old) \in Nat /\ Cardinality(new) \in Nat
    BY <2>4, <2>5, <2>8, FS_EmptySet, FS_CardinalityType
  <2>11. Cardinality(old \cup new) = Cardinality(old) + Cardinality(new)
    BY <2>9, <2>10
  <2> QED BY <2>0, <2>4, <2>5, <2>6, <2>7, <2>10, <2>11
<1>11. CASE touched = {}
  <2>1. CloseWindow(p, g.ways) = p
    BY <1>11 DEF CloseWindow
  <2>2. P2 = P /\ O2 = O
    BY <1>1, <1>4, <1>5, <1>11
  <2>3. AskedBlocks(A, c + 1, g) = AskedBlocks(A, c, g)
    BY <2>2 DEF AskedBlocks, P, P2
  <2>4. Figures(p, A, c + 1, g)
    BY <2>2, <2>3 DEF Figures, P, P2, O, O2
  <2> QED BY <1>11, <2>1, <2>4
<1>12. CASE touched # {}
  <2> DEFINE closed == CloseWindow(p, g.ways)
             most == Sets!Max({p.maxDistinct} \cup {Distinct(x) : x \in touched})
  <2>1. closed = [accesses |-> p.accesses, windows |-> p.windows + 1,
                  touched |-> p.touched + Cardinality(touched),
                  oversubscribed |-> p.oversubscribed + Cardinality(over),
                  windowsOver |-> IF over = {} THEN p.windowsOver ELSE p.windowsOver + 1,
                  maxDistinct |-> most,
                  totalDistinct |-> p.totalDistinct + SumOver(f, touched), current |-> << >>]
    <3>1. Fns!SumFunction(f) = SumOver(f, touched)
      BY DEF Fns!SumFunction, SumOver
    <3>2. closed = [p EXCEPT !.windows = @ + 1,
                             !.touched = @ + Cardinality(touched),
                             !.totalDistinct = @ + Fns!SumFunction(f),
                             !.maxDistinct = Sets!Max({@} \cup {Distinct(x) : x \in touched}),
                             !.oversubscribed = @ + Cardinality(over),
                             !.windowsOver = IF over = {} THEN @ ELSE @ + 1,
                             !.current = << >>]
      BY <1>12 DEF CloseWindow
    <3>3. closed = [p EXCEPT !.windows = p.windows + 1,
                             !.touched = p.touched + Cardinality(touched),
                             !.totalDistinct = p.totalDistinct + SumOver(f, touched),
                             !.maxDistinct = most,
                             !.oversubscribed = p.oversubscribed + Cardinality(over),
                             !.windowsOver = IF over = {} THEN p.windowsOver ELSE p.windowsOver + 1,
                             !.current = << >>]
      BY <3>1, <3>2 DEF IsPressure
    <3> HIDE DEF closed, most, f, touched, over
    <3> QED BY <3>3 DEF IsPressure
  <2> HIDE DEF closed, f
  <2>2. most \in {p.maxDistinct} \cup {Distinct(x) : x \in touched}
        /\ \A y \in {p.maxDistinct} \cup {Distinct(x) : x \in touched} : most >= y
    <3>1. \A x \in touched : f[x] = Distinct(x) /\ Distinct(x) \in Nat /\ f[x] <= SumOver(f, touched)
      <4>1. \A x \in touched : f[x] = Distinct(x) /\ Distinct(x) \in Nat
        BY <1>8, <1>9 DEF f
      <4> HIDE DEF touched
      <4>2. \A x \in touched : SumOver(f, touched) = f[x] + SumOver(f, touched \ {x}) /\ SumOver(f, touched \ {x}) \in Nat
        BY <1>10, SumAdds
      <4>3. \A x \in touched : f[x] <= SumOver(f, touched)
        <5> HIDE DEF f
        <5> SUFFICES ASSUME NEW x \in touched PROVE f[x] <= SumOver(f, touched)
          OBVIOUS
        <5>1. PICK r \in Nat : r = SumOver(f, touched \ {x})
          BY <4>2
        <5>2. PICK n \in Nat : n = f[x]
          BY <4>1
        <5>3. SumOver(f, touched) = n + r
          BY <4>2, <5>1, <5>2
        <5> QED BY <5>2, <5>3
      <4> HIDE DEF f
      <4> QED BY <4>1, <4>3
    <3>2. p.maxDistinct \in Nat
      BY <1>8 DEF Figures, P
    <3> DEFINE C == {p.maxDistinct} \cup {Distinct(x) : x \in touched}
               limit == p.maxDistinct + SumOver(f, touched)
    <3>3. limit \in Nat /\ C \in SUBSET Nat /\ C # {} /\ \A y \in C : y <= limit
      <4> HIDE DEF touched, Distinct
      <4> QED BY <1>10, <3>1, <3>2
    <3> HIDE DEF C, limit
    <3>4. Sets!Max(C) \in C /\ \A y \in C : Sets!Max(C) >= y
      BY <3>3, MaxIs
    <3> QED BY <3>4 DEF C
  <2> HIDE DEF most
  <2>3. /\ IsPressure(closed) /\ closed.accesses = p.accesses /\ DOMAIN closed.current = {}
        /\ closed.windows = p.windows + 1 /\ closed.touched = p.touched + Cardinality(touched)
        /\ closed.oversubscribed = p.oversubscribed + Cardinality(over)
        /\ closed.windowsOver = (IF over = {} THEN p.windowsOver ELSE p.windowsOver + 1)
        /\ closed.maxDistinct = most
        /\ closed.totalDistinct = p.totalDistinct + SumOver(f, touched)
    <3> HIDE DEF touched, over
    <3>1. DOMAIN << >> = {}
      OBVIOUS
    <3> QED BY <2>1, <3>1 DEF IsPressure
  <2>4. /\ p.windows = Cardinality(WindowsOf(P)) /\ p.touched = Cardinality(P)
        /\ p.oversubscribed = Cardinality(O) /\ p.windowsOver = Cardinality(WindowsOf(O))
        /\ p.totalDistinct = Cardinality(AskedBlocks(A, c, g))
        /\ p.maxDistinct \in {0} \cup {Cardinality(A[q]) : q \in P}
        /\ \A q \in P : Cardinality(A[q]) <= p.maxDistinct
    BY DEF Figures, P, O
  <2>5. /\ closed.maxDistinct \in {0} \cup {Cardinality(A[q]) : q \in P2}
        /\ \A q \in P2 : Cardinality(A[q]) <= closed.maxDistinct
    <3>1. \A x \in touched : Distinct(x) = Cardinality(A[<<c, x>>])
      BY <1>9
    <3>2. closed.maxDistinct = most /\ p.maxDistinct \in Nat
      BY <1>8, <2>3, <2>4
    <3>3. most \in Nat
      BY <1>8, <1>9, <2>2, <3>1, <3>2
    <3>4. most \in {0} \cup {Cardinality(A[q]) : q \in P2}
      <4>1. CASE most = p.maxDistinct
        <5>1. P \subseteq P2
          BY <1>4
        <5> HIDE DEF touched, Distinct
        <5> QED BY <2>4, <4>1, <5>1
      <4>2. CASE \E x \in touched : most = Distinct(x)
        <5>1. PICK x \in touched : most = Distinct(x)
          BY <4>2
        <5>2. most = Cardinality(A[<<c, x>>]) /\ <<c, x>> \in P2
          BY <1>9, <3>1, <5>1
        <5> QED BY <5>2
      <4> QED BY <2>2, <4>1, <4>2
    <3>5. \A q \in P : Cardinality(A[q]) <= most
      <4>1. most >= p.maxDistinct
        BY <2>2
      <4> QED BY <1>8, <2>4, <3>2, <3>3, <4>1
    <3>6. \A x \in touched : Cardinality(A[<<c, x>>]) <= most
      <4>1. \A x \in touched : most >= Distinct(x) /\ Distinct(x) = Cardinality(A[<<c, x>>]) /\ Distinct(x) \in Nat
        BY <1>8, <1>9, <2>2, <3>1
      <4> QED BY <3>3, <4>1
    <3> HIDE DEF touched
    <3> QED BY <1>4, <3>2, <3>4, <3>5, <3>6
  <2>6. Figures(closed, A, c + 1, g)
    <3> HIDE DEF touched, over
    <3>1. closed.windows = Cardinality(WindowsOf(P2)) /\ closed.touched = Cardinality(P2)
      BY <1>6, <1>12, <2>3, <2>4
    <3>2. closed.oversubscribed = Cardinality(O2) /\ closed.windowsOver = Cardinality(WindowsOf(O2))
      BY <1>7, <2>3, <2>4
    <3>3. closed.totalDistinct = Cardinality(AskedBlocks(A, c + 1, g))
      BY <1>10, <2>3, <2>4
    <3> QED BY <2>5, <3>1, <3>2, <3>3 DEF Figures, P2, O2
  <2> QED BY <2>3, <2>6 DEF closed
<1> QED BY <1>11, <1>12

\* The window of the k-th access.
WindowAt(g, k) == IF k = 0 THEN 0 ELSE (k - 1) \div g.window

\* A window ends where the accesses before divide by its length.
LEMMA NextWindow ==
  ASSUME NEW k \in Nat \ {0}, NEW w \in Nat \ {0}
  PROVE  /\ k \div w \in Nat /\ (k - 1) \div w \in Nat
         /\ k % w = 0 => k \div w = ((k - 1) \div w) + 1
         /\ k % w # 0 => k \div w = (k - 1) \div w
<1> DEFINE q == k \div w
           r == k % w
<1>1. q \in Nat /\ r \in 0 .. w - 1 /\ k = (w * q) + r
  BY Division
<1>2. (k - 1) \div w \in Nat
  BY Division
<1>3. CASE r = 0
  <2>1. q # 0
    <3> HIDE DEF q, r
    <3>1. CASE q = 0
      <4>1. w * q = 0
        BY <3>1
      <4> QED BY <1>1, <1>3, <4>1
    <3> QED BY <3>1
  <2>2. PICK p \in Nat : q = p + 1
    <3> HIDE DEF q
    <3>1. q - 1 \in Nat /\ q = (q - 1) + 1
      BY <1>1, <2>1
    <3> QED BY <3>1
  <2>3. k - 1 = (w * p) + (w - 1)
    <3> HIDE DEF q, r
    <3>1. \A a \in Nat : w * (a + 1) = (w * a) + w
      OBVIOUS
    <3>2. w * q = (w * p) + w
      BY <2>2, <3>1
    <3>3. PICK e \in Nat : e = w * p
      OBVIOUS
    <3> QED BY <1>1, <1>3, <3>2, <3>3
  <2>4. ((w * p) + (w - 1)) \div w = p
    BY DivisionUnique
  <2> HIDE DEF q, r
  <2>5. (k - 1) \div w = p
    BY <2>3, <2>4
  <2> QED BY <1>1, <1>2, <1>3, <2>2, <2>5 DEF q, r
<1>4. CASE r # 0
  <2>1. k - 1 = (w * q) + (r - 1) /\ r - 1 \in 0 .. w - 1
    <3> HIDE DEF q, r
    <3>1. PICK e \in Nat : e = w * q
      BY <1>1
    <3> QED BY <1>1, <1>4, <3>1
  <2> HIDE DEF q, r
  <2>2. ((w * q) + (r - 1)) \div w = q
    BY <1>1, <2>1, DivisionUnique
  <2> QED BY <1>1, <1>2, <1>4, <2>1, <2>2 DEF q, r
<1> QED BY <1>3, <1>4

\* Windows are numbered in the order of their accesses.
LEMMA WindowsOrdered ==
  ASSUME NEW w \in Nat \ {0}, NEW m \in Nat, NEW n \in Nat, m <= n
  PROVE  m \div w \in Nat /\ m \div w <= n \div w
<1> DEFINE p == m \div w
           q == n \div w
           r == n % w
<1>1. p \in Nat /\ m % w \in 0 .. w - 1 /\ m = (w * p) + (m % w)
  BY Division
<1>2. q \in Nat /\ r \in 0 .. w - 1 /\ n = (w * q) + r
  BY Division
<1> HIDE DEF p, q, r
<1>3. ASSUME p > q PROVE FALSE
  <2>1. PICK d \in Nat : p = q + (d + 1)
    <3>1. p - (q + 1) \in Nat /\ p = q + ((p - (q + 1)) + 1)
      BY <1>1, <1>2, <1>3
    <3> QED BY <3>1
  <2>2. \A a, e \in Nat : w * (a + (e + 1)) = ((w * a) + (w * e)) + w
    OBVIOUS
  <2>3. w * p = ((w * q) + (w * d)) + w
    BY <1>2, <2>1, <2>2
  <2>4. PICK x \in Nat, y \in Nat : x = w * q /\ y = w * d
    BY <1>2
  <2> QED BY <1>1, <1>2, <2>3, <2>4
<1>4. p <= q
  BY <1>1, <1>2, <1>3
<1> QED BY <1>1, <1>4 DEF p, q

\* The blocks asked for in the windows before c are all that matters.
LEMMA FiguresAgree ==
  ASSUME NEW g, NEW c \in Nat, NEW A, NEW A2, \A q \in (0 .. c - 1) \X SetsOf(g) : A2[q] = A[q],
         NEW p, Figures(p, A, c, g)
  PROVE  Figures(p, A2, c, g)
<1>1. AskedPairs(A2, c, g) = AskedPairs(A, c, g)
  BY DEF AskedPairs
<1>2. OverPairs(A2, c, g) = OverPairs(A, c, g)
  BY DEF OverPairs
<1>3. \A q \in AskedPairs(A, c, g) : A2[q] = A[q]
  BY DEF AskedPairs
<1>4. AskedBlocks(A2, c, g) = AskedBlocks(A, c, g)
  BY <1>1, <1>3 DEF AskedBlocks
<1>5. {Cardinality(A2[q]) : q \in AskedPairs(A2, c, g)} = {Cardinality(A[q]) : q \in AskedPairs(A, c, g)}
  BY <1>1, <1>3
<1>6. \A q \in AskedPairs(A2, c, g) : Cardinality(A2[q]) <= p.maxDistinct
  BY <1>1, <1>3 DEF Figures
<1> QED BY <1>1, <1>2, <1>4, <1>5, <1>6 DEF Figures

\* A geometry with a window size.
GeometryFull(g) == GeometryOK(g) /\ g.window \in Nat \ {0}

\* What window_pressure knows after k references of s.
PressureIs(p, s, g, k) ==
  /\ IsPressure(p) /\ p.accesses = k
  /\ Figures(p, AskedIn(s, g, k), WindowAt(g, k), g)
  /\ OpenWindow(p, AskedIn(s, g, k), WindowAt(g, k), g)

\* One reference more.
LEMMA AskedNext ==
  ASSUME NEW s, NEW g, GeometryFull(g), NEW k \in Nat, s[k + 1] \in Nat
  PROVE  /\ k \div g.window \in Nat /\ s[k + 1] % g.sets \in SetsOf(g)
         /\ \A q \in Nat \X SetsOf(g) :
              AskedIn(s, g, k + 1)[q] = AskedIn(s, g, k)[q] \cup (IF q = <<k \div g.window, s[k + 1] % g.sets>> THEN {s[k + 1]} ELSE {})
<1>1. k \div g.window \in Nat /\ s[k + 1] % g.sets \in 0 .. g.sets - 1
  <2>1. g.window \in Nat \ {0} /\ g.sets \in Nat \ {0}
    BY DEF GeometryFull, GeometryOK
  <2>2. k \div g.window \in Nat
    BY <2>1, Division
  <2> QED BY <2>1, <2>2, Division
<1>2. ASSUME NEW q \in Nat \X SetsOf(g)
      PROVE  AskedIn(s, g, k + 1)[q] = AskedIn(s, g, k)[q] \cup (IF q = <<k \div g.window, s[k + 1] % g.sets>> THEN {s[k + 1]} ELSE {})
  <2> DEFINE Is(n) == (n - 1) \div g.window = q[1] /\ s[n] % g.sets = q[2]
             b == s[k + 1]
  <2>1. /\ AskedIn(s, g, k + 1)[q] = {s[m] : m \in {n \in 1 .. k + 1 : Is(n)}}
        /\ AskedIn(s, g, k)[q] = {s[m] : m \in {n \in 1 .. k : Is(n)}}
    BY DEF AskedIn
  <2>2. Is(k + 1) <=> q = <<k \div g.window, b % g.sets>>
    <3>1. (k + 1) - 1 = k
      OBVIOUS
    <3>2. q = <<q[1], q[2]>>
      OBVIOUS
    <3> QED BY <3>1, <3>2
  <2>3. \A n : n \in 1 .. k + 1 <=> n \in 1 .. k \/ n = k + 1
    OBVIOUS
  <2> HIDE DEF Is
  <2> QED BY <2>1, <2>2, <2>3
<1> QED BY <1>1, <1>2 DEF SetsOf

\* Before the first reference it knows nothing.
LEMMA PressureFresh ==
  ASSUME NEW s, NEW g, GeometryFull(g)
  PROVE  PressureIs(NoPressure, s, g, 0)
<1>1. \A q \in Nat \X SetsOf(g) : AskedIn(s, g, 0)[q] = {}
  BY DEF AskedIn
<1>2. AskedPairs(AskedIn(s, g, 0), 0, g) = {} /\ OverPairs(AskedIn(s, g, 0), 0, g) = {}
      /\ AskedBlocks(AskedIn(s, g, 0), 0, g) = {}
  <2>1. 0 .. 0 - 1 = {}
    OBVIOUS
  <2> QED BY <2>1 DEF AskedPairs, OverPairs, AskedBlocks
<1>3. WindowsOf({}) = {} /\ Cardinality({}) = 0
  BY FS_EmptySet DEF WindowsOf
<1>4. Figures(NoPressure, AskedIn(s, g, 0), 0, g)
  BY <1>2, <1>3 DEF Figures, NoPressure
<1>5. OpenWindow(NoPressure, AskedIn(s, g, 0), 0, g)
  <2>1. DOMAIN NoPressure.current = {}
    BY DEF NoPressure
  <2>2. \A x \in SetsOf(g) : AskedIn(s, g, 0)[<<0, x>>] = {}
    BY <1>1
  <2> QED BY <2>1, <2>2 DEF OpenWindow
<1>6. IsPressure(NoPressure) /\ NoPressure.accesses = 0
  BY DEF IsPressure, NoPressure
<1> QED BY <1>4, <1>5, <1>6 DEF PressureIs, WindowAt

\* The blocks asked for are finitely many.
LEMMA AskedFinite ==
  ASSUME NEW s, NEW g, NEW k \in Nat, NEW q \in Nat \X SetsOf(g)
  PROVE  IsFiniteSet(AskedIn(s, g, k)[q])
<1> DEFINE M == {n \in 1 .. k : (n - 1) \div g.window = q[1] /\ s[n] % g.sets = q[2]}
           f == [m \in M |-> s[m]]
           B == {s[m] : m \in M}
<1>1. IsFiniteSet(M)
  <2>1. IsFiniteSet(1 .. k) /\ M \in SUBSET (1 .. k)
    BY FS_Interval
  <2> HIDE DEF M
  <2> QED BY <2>1, FS_Subset
<1>2. f \in Surjection(M, B)
  BY DEF Surjection
<1>3. AskedIn(s, g, k)[q] = B
  BY DEF AskedIn
<1> HIDE DEF M, f, B
<1>4. IsFiniteSet(B)
  BY <1>1, <1>2, FS_Surjection
<1> QED BY <1>3, <1>4

\* A window that is over is closed before the next access.
LEMMA ReadyForNext ==
  ASSUME NEW s, NEW g, GeometryFull(g), NEW k \in Nat, NEW p, PressureIs(p, s, g, k),
         NEW p1, p1 = IF WindowOver(p, g.window) THEN CloseWindow(p, g.ways) ELSE p
  PROVE  /\ IsPressure(p1) /\ p1.accesses = k
         /\ Figures(p1, AskedIn(s, g, k), k \div g.window, g)
         /\ OpenWindow(p1, AskedIn(s, g, k), k \div g.window, g)
<1> DEFINE A == AskedIn(s, g, k)
           c == WindowAt(g, k)
           c2 == k \div g.window
<1>1. g.window \in Nat \ {0} /\ GeometryOK(g)
  BY DEF GeometryFull
<1>2. IsPressure(p) /\ p.accesses = k /\ Figures(p, A, c, g) /\ OpenWindow(p, A, c, g)
  BY DEF PressureIs
<1>3. CASE k = 0
  <2>1. p1 = p
    BY <1>2, <1>3 DEF WindowOver
  <2>2. c2 = 0 /\ c = 0
    <3>1. 0 \div g.window = 0
      <4>1. ((g.window * 0) + 0) \div g.window = 0
        BY <1>1, DivisionUnique
      <4>2. (g.window * 0) + 0 = 0
        BY <1>1
      <4> QED BY <4>1, <4>2
    <3> QED BY <1>3, <3>1 DEF WindowAt
  <2> QED BY <1>2, <2>1, <2>2
<1>4. CASE k # 0
  <2>1. /\ c2 \in Nat /\ c \in Nat
        /\ k % g.window = 0 => c2 = c + 1
        /\ k % g.window # 0 => c2 = c
    BY <1>1, <1>4, NextWindow DEF WindowAt
  <2>2. CASE k % g.window # 0
    <3>1. p1 = p
      BY <1>2, <2>2 DEF WindowOver
    <3> QED BY <1>2, <2>1, <2>2, <3>1
  <2>3. CASE k % g.window = 0
    <3>1. p1 = CloseWindow(p, g.ways)
      BY <1>2, <1>4, <2>3 DEF WindowOver
    <3>2. AllFinite(A, g)
      BY AskedFinite DEF AllFinite
    <3> HIDE DEF A, c, c2
    <3>3. IsPressure(p1) /\ p1.accesses = k /\ Figures(p1, A, c + 1, g) /\ DOMAIN p1.current = {}
      BY <1>1, <1>2, <2>1, <3>1, <3>2, CloseAdds
    <3>4. \A x \in SetsOf(g) : A[<<c2, x>>] = {}
      <4> SUFFICES ASSUME NEW x \in SetsOf(g) PROVE A[<<c2, x>>] = {}
        OBVIOUS
      <4>1. A[<<c2, x>>] = {s[m] : m \in {n \in 1 .. k : (n - 1) \div g.window = c2 /\ s[n] % g.sets = x}}
        BY <2>1 DEF A, AskedIn
      <4>2. \A n \in 1 .. k : (n - 1) \div g.window # c2
        <5> SUFFICES ASSUME NEW n \in 1 .. k PROVE (n - 1) \div g.window # c2
          OBVIOUS
        <5>1. n - 1 \in Nat /\ k - 1 \in Nat /\ n - 1 <= k - 1
          OBVIOUS
        <5>2. (n - 1) \div g.window \in Nat /\ (n - 1) \div g.window <= (k - 1) \div g.window
          BY <1>1, <5>1, WindowsOrdered
        <5>3. (k - 1) \div g.window = c
          BY <1>4 DEF c, WindowAt
        <5> DEFINE e == (n - 1) \div g.window
        <5>4. e \in Nat /\ e <= c
          BY <5>2, <5>3
        <5> HIDE DEF e
        <5>5. e # c2
          BY <2>1, <2>3, <5>4
        <5> QED BY <5>5 DEF e
      <4> QED BY <4>1, <4>2
    <3>5. OpenWindow(p1, A, c2, g)
      BY <3>3, <3>4 DEF OpenWindow
    <3> QED BY <2>1, <2>3, <3>3, <3>5 DEF A, c2
  <2> QED BY <2>2, <2>3
<1> QED BY <1>3, <1>4

\* One access of the loop.
LEMMA PressureNext ==
  ASSUME NEW s, NEW g, GeometryFull(g), NEW k \in Nat, s[k + 1] \in Nat, NEW p, PressureIs(p, s, g, k)
  PROVE  PressureIs(WindowAccess(p, g.sets, g.ways, g.window, s[k + 1]), s, g, k + 1)
<1> DEFINE A == AskedIn(s, g, k)
           A2 == AskedIn(s, g, k + 1)
           c == k \div g.window
           b == s[k + 1]
           z == b % g.sets
           p1 == IF WindowOver(p, g.window) THEN CloseWindow(p, g.ways) ELSE p
           known == DOMAIN p1.current
           cur == [x \in known \cup {z} |-> (IF x \in known THEN p1.current[x] ELSE {}) \cup (IF x = z THEN {b} ELSE {})]
           p2 == WindowAccess(p, g.sets, g.ways, g.window, b)
<1>1. IsPressure(p1) /\ p1.accesses = k /\ Figures(p1, A, c, g) /\ OpenWindow(p1, A, c, g)
  BY ReadyForNext
<1>2. /\ c \in Nat /\ z \in SetsOf(g)
      /\ \A q \in Nat \X SetsOf(g) : A2[q] = A[q] \cup (IF q = <<c, z>> THEN {b} ELSE {})
  BY AskedNext
<1>3. p2 = [p1 EXCEPT !.accesses = p1.accesses + 1, !.current = cur]
  <2>1. p2 = [p1 EXCEPT !.accesses = @ + 1,
                        !.current = [x \in known \cup {z} |-> (IF x \in known THEN @[x] ELSE {}) \cup (IF x = z THEN {b} ELSE {})]]
    BY DEF WindowAccess
  <2> HIDE DEF p1
  <2> QED BY <2>1, <1>1 DEF IsPressure
<1>4. WindowAt(g, k + 1) = c
  <2>1. k + 1 # 0 /\ (k + 1) - 1 = k
    OBVIOUS
  <2> QED BY <2>1 DEF WindowAt
<1> HIDE DEF p1, p2, c, A, A2, z
<1>5. /\ IsPressure(p2) /\ p2.accesses = k + 1 /\ p2.current = cur
      /\ p2.windows = p1.windows /\ p2.touched = p1.touched /\ p2.oversubscribed = p1.oversubscribed
      /\ p2.windowsOver = p1.windowsOver /\ p2.totalDistinct = p1.totalDistinct /\ p2.maxDistinct = p1.maxDistinct
  BY <1>1, <1>3 DEF IsPressure
<1>6. Figures(p2, A2, c, g)
  <2>1. Figures(p2, A, c, g)
    BY <1>1, <1>5 DEF Figures
  <2>2. \A q \in (0 .. c - 1) \X SetsOf(g) : A2[q] = A[q]
    <3> SUFFICES ASSUME NEW q \in (0 .. c - 1) \X SetsOf(g) PROVE A2[q] = A[q]
      OBVIOUS
    <3>1. q \in Nat \X SetsOf(g) /\ q # <<c, z>>
      BY <1>2
    <3> QED BY <1>2, <3>1
  <2> QED BY <1>2, <2>1, <2>2, FiguresAgree
<1>7. OpenWindow(p2, A2, c, g)
  <2>1. \A x \in SetsOf(g) : <<c, x>> \in Nat \X SetsOf(g) /\ (<<c, x>> = <<c, z>> <=> x = z)
    BY <1>2
  <2>2. \A x \in SetsOf(g) : A2[<<c, x>>] = A[<<c, x>>] \cup (IF x = z THEN {b} ELSE {})
    BY <1>2, <2>1
  <2>3. DOMAIN cur = known \cup {z}
    OBVIOUS
  <2>4. known = {x \in SetsOf(g) : A[<<c, x>>] # {}} /\ \A x \in known : p1.current[x] = A[<<c, x>>]
    BY <1>1 DEF OpenWindow
  <2>5. \A x \in known \cup {z} : cur[x] = (IF x \in known THEN p1.current[x] ELSE {}) \cup (IF x = z THEN {b} ELSE {})
    OBVIOUS
  <2> HIDE DEF cur, known
  <2>6. \A x \in SetsOf(g) : x \in known \cup {z} <=> A2[<<c, x>>] # {}
    BY <2>2, <2>4
  <2>7. DOMAIN cur = {x \in SetsOf(g) : A2[<<c, x>>] # {}}
    BY <1>2, <2>3, <2>4, <2>6
  <2>8. \A x \in known \cup {z} : cur[x] = A2[<<c, x>>]
    <3> SUFFICES ASSUME NEW x \in known \cup {z} PROVE cur[x] = A2[<<c, x>>]
      OBVIOUS
    <3>1. x \in SetsOf(g)
      BY <1>2, <2>4
    <3>2. A2[<<c, x>>] = A[<<c, x>>] \cup (IF x = z THEN {b} ELSE {})
      BY <2>2, <3>1
    <3>3. (IF x \in known THEN p1.current[x] ELSE {}) = A[<<c, x>>]
      BY <2>4, <3>1
    <3> QED BY <2>5, <3>2, <3>3
  <2> QED BY <1>5, <2>3, <2>7, <2>8 DEF OpenWindow
<1> QED BY <1>4, <1>5, <1>6, <1>7 DEF PressureIs, A2, p2

\* What the figures come to when the window under way is closed.
Reported(p, A, pairs, over, k) ==
  /\ p.accesses = k
  /\ p.windows = Cardinality({q[1] : q \in pairs})
  /\ p.touched = Cardinality(pairs)
  /\ p.oversubscribed = Cardinality(over)
  /\ p.windowsOver = Cardinality({q[1] : q \in over})
  /\ p.totalDistinct = Fns!SumFunction([q \in pairs |-> Cardinality(A[q])])
  /\ p.maxDistinct = Sets!Max({0} \cup {Cardinality(A[q]) : q \in pairs})

\* So they are the figures of the windows by definition.
LEMMA PressureReported ==
  ASSUME NEW s, NEW g, GeometryFull(g), NEW k \in Nat, NEW p, PressureIs(p, s, g, k),
         NEW A, A = AskedIn(s, g, k), NEW pairs, pairs = {q \in (0 .. k) \X SetsOf(g) : A[q] # {}},
         NEW over, over = {q \in pairs : Cardinality(A[q]) > g.ways},
         NEW closed, closed = CloseWindow(p, g.ways)
  PROVE  Reported(closed, A, pairs, over, k)
<1> DEFINE c == WindowAt(g, k)
<1>1. g.window \in Nat \ {0} /\ GeometryOK(g)
  BY DEF GeometryFull
<1>2. c \in Nat /\ \A n \in 1 .. k : (n - 1) \div g.window \in 0 .. c /\ (n - 1) \div g.window \in 0 .. k
  <2>1. CASE k = 0
    BY <2>1 DEF WindowAt
  <2>2. CASE k # 0
    <3>1. c = (k - 1) \div g.window /\ k - 1 \in Nat
      BY <2>2 DEF WindowAt
    <3>2. c \in Nat
      BY <1>1, <3>1, Division
    <3> SUFFICES ASSUME NEW n \in 1 .. k PROVE (n - 1) \div g.window \in 0 .. c /\ (n - 1) \div g.window \in 0 .. k
      BY <3>2
    <3>3. n - 1 \in Nat /\ n - 1 <= k - 1
      BY <3>1
    <3>4. (n - 1) \div g.window \in Nat /\ (n - 1) \div g.window <= (k - 1) \div g.window
      BY <1>1, <3>1, <3>3, WindowsOrdered
    <3>5. c <= k - 1
      <4> DEFINE r == (k - 1) % g.window
      <4>1. k - 1 = (g.window * c) + r /\ r \in Nat
        <5>1. k - 1 = (g.window * ((k - 1) \div g.window)) + r /\ r \in 0 .. g.window - 1
          BY <1>1, <3>1, Division
        <5> HIDE DEF r, c
        <5>2. r \in Nat
          BY <1>1, <5>1
        <5> QED BY <3>1, <5>1, <5>2
      <4>2. PICK e \in Nat : g.window = e + 1
        <5>1. g.window - 1 \in Nat /\ g.window = (g.window - 1) + 1
          BY <1>1
        <5> QED BY <5>1
      <4>3. \A d \in Nat : (d + 1) * c = (d * c) + c /\ d * c \in Nat
        <5> HIDE DEF c
        <5> QED BY <3>2
      <4> HIDE DEF c, r
      <4>4. g.window * c = (e * c) + c /\ e * c \in Nat
        BY <4>2, <4>3
      <4>5. PICK y \in Nat : y = e * c
        BY <4>4
      <4> QED BY <3>2, <4>1, <4>4, <4>5
    <3> DEFINE v == (n - 1) \div g.window
    <3>6. v \in Nat /\ v <= c
      BY <3>1, <3>4
    <3> HIDE DEF v, c
    <3>7. v \in 0 .. c /\ v \in 0 .. k
      BY <3>1, <3>2, <3>5, <3>6
    <3> QED BY <3>7 DEF v
  <2> QED BY <2>1, <2>2
<1>3. AllFinite(A, g)
  BY AskedFinite DEF AllFinite
<1>4. IsPressure(p) /\ p.accesses = k /\ Figures(p, A, c, g) /\ OpenWindow(p, A, c, g)
  BY DEF PressureIs
<1> HIDE DEF c
<1>5. closed.accesses = k /\ Figures(closed, A, c + 1, g)
  BY <1>1, <1>2, <1>3, <1>4, CloseAdds
<1>6. \A q \in Nat \X SetsOf(g) : A[q] # {} => q[1] \in 0 .. c /\ q[1] \in 0 .. k
  <2> SUFFICES ASSUME NEW q \in Nat \X SetsOf(g), A[q] # {} PROVE q[1] \in 0 .. c /\ q[1] \in 0 .. k
    OBVIOUS
  <2>1. A[q] = {s[m] : m \in {n \in 1 .. k : (n - 1) \div g.window = q[1] /\ s[n] % g.sets = q[2]}}
    BY DEF AskedIn
  <2>2. PICK n \in 1 .. k : (n - 1) \div g.window = q[1]
    BY <2>1
  <2> QED BY <1>2, <2>2
<1>7. AskedPairs(A, c + 1, g) = pairs
  <2>1. (c + 1) - 1 = c
    BY <1>2
  <2>2. \A q : q \in (0 .. c) \X SetsOf(g) \/ q \in (0 .. k) \X SetsOf(g) => q \in Nat \X SetsOf(g)
    BY <1>2
  <2>3. \A q \in Nat \X SetsOf(g) : /\ q \in (0 .. c) \X SetsOf(g) <=> q[1] \in 0 .. c
                                    /\ q \in (0 .. k) \X SetsOf(g) <=> q[1] \in 0 .. k
    OBVIOUS
  <2> QED BY <1>6, <2>1, <2>2, <2>3 DEF AskedPairs
<1>8. OverPairs(A, c + 1, g) = over
  BY <1>7 DEF AskedPairs, OverPairs
<1>9. closed.totalDistinct = Fns!SumFunction([q \in pairs |-> Cardinality(A[q])])
  <2> DEFINE f == [q \in pairs |-> Cardinality(A[q])]
             t == [q \in pairs |-> {q} \X A[q]]
  <2>1. \A q \in pairs : IsFiniteSet({q} \X A[q]) /\ Cardinality({q} \X A[q]) = Cardinality(A[q])
    <3> SUFFICES ASSUME NEW q \in pairs PROVE IsFiniteSet({q} \X A[q]) /\ Cardinality({q} \X A[q]) = Cardinality(A[q])
      OBVIOUS
    <3>1. IsFiniteSet({q}) /\ Cardinality({q}) = 1
      BY FS_Singleton
    <3>2. IsFiniteSet(A[q]) /\ Cardinality(A[q]) \in Nat
      <4>1. q \in Nat \X SetsOf(g)
        OBVIOUS
      <4> QED BY <1>3, <4>1, FS_CardinalityType DEF AllFinite
    <3>3. IsFiniteSet({q} \X A[q]) /\ Cardinality({q} \X A[q]) = Cardinality({q}) * Cardinality(A[q])
      BY <3>1, <3>2, FS_Product
    <3> QED BY <3>1, <3>2, <3>3
  <2>2. Counts(f, t, pairs)
    <3>1. IsFiniteSet(pairs)
      <4>1. g.sets \in Nat
        BY <1>1 DEF GeometryOK
      <4>2. IsFiniteSet(0 .. k) /\ IsFiniteSet(SetsOf(g))
        BY <4>1, FS_Interval DEF SetsOf
      <4> DEFINE S == (0 .. k) \X SetsOf(g)
      <4>3. IsFiniteSet(S)
        BY <4>2, FS_Product
      <4>4. pairs \in SUBSET S
        OBVIOUS
      <4> HIDE DEF S
      <4> QED BY <4>3, <4>4, FS_Subset
    <3>2. \A q, r \in pairs : q # r => t[q] \cap t[r] = {}
      OBVIOUS
    <3>3. \A q \in pairs : IsFiniteSet(t[q]) /\ f[q] = Cardinality(t[q])
      BY <2>1
    <3> HIDE DEF t, f
    <3> QED BY <3>1, <3>2, <3>3 DEF Counts
  <2>3. AllOf(t, pairs) = AskedBlocks(A, c + 1, g)
    BY <1>7 DEF AskedBlocks, AllOf
  <2>4. Fns!SumFunction(f) = SumOver(f, pairs)
    BY DEF Fns!SumFunction, SumOver
  <2> HIDE DEF t, f
  <2>5. SumOver(f, pairs) = Cardinality(AllOf(t, pairs))
    BY <2>2, SumCounts
  <2>6. closed.totalDistinct = Fns!SumFunction(f)
    BY <1>5, <2>3, <2>4, <2>5 DEF Figures
  <2> QED BY <2>6 DEF f
<1>10. closed.maxDistinct = Sets!Max({0} \cup {Cardinality(A[q]) : q \in pairs})
  <2> DEFINE T == {0} \cup {Cardinality(A[q]) : q \in pairs}
  <2>1. T \in SUBSET Nat
    <3> SUFFICES ASSUME NEW q \in pairs PROVE Cardinality(A[q]) \in Nat
      OBVIOUS
    <3>1. q \in Nat \X SetsOf(g)
      OBVIOUS
    <3> QED BY <1>3, <3>1, FS_CardinalityType DEF AllFinite
  <2>2. closed.maxDistinct \in T /\ \A q \in pairs : Cardinality(A[q]) <= closed.maxDistinct
    BY <1>5, <1>7 DEF Figures
  <2>3. \A y \in T : closed.maxDistinct >= y
    BY <2>1, <2>2
  <2> HIDE DEF T
  <2>4. Sets!Max(T) = closed.maxDistinct
    BY <2>1, <2>2, <2>3, MaxOnly
  <2> QED BY <2>4 DEF T
<1>11. {q[1] : q \in pairs} = WindowsOf(pairs) /\ {q[1] : q \in over} = WindowsOf(over)
  BY DEF WindowsOf
<1> QED BY <1>5, <1>7, <1>8, <1>9, <1>10, <1>11 DEF Figures, Reported

-----------------------------------------------------------------------------
(* The cache of hot_sets: any policy, no victim buffer, no 3-C classes.    *)

\* Its geometry and its lines.
HotCache(c, g) ==
  /\ IsCache(c)
  /\ c.g.sets = g.sets /\ c.g.ways = g.ways /\ c.g.index = "modulo" /\ c.g.entries = 0 /\ c.g.classify = FALSE
  /\ c.ways \in [SetsOf(g) -> [WaysOf(g) -> OptLines]]
  /\ c.buffer = << >>
  /\ c.n \in [Counters -> Nat]

\* d differs from c in what no set holds, and in the number of misses.
Kept(c, d, missed) ==
  /\ IsCache(d) /\ d.g = c.g /\ d.ways = c.ways /\ d.buffer = c.buffer
  /\ d.n \in [Counters -> Nat] /\ d.n["misses"] = c.n["misses"] + One(missed)

\* Two such steps are one.
LEMMA KeptTwice ==
  ASSUME NEW c, NEW d, NEW e, c.n["misses"] \in Nat, NEW p
  PROVE  /\ Kept(c, d, FALSE) /\ Kept(d, e, p) => Kept(c, e, p)
         /\ Kept(c, d, p) /\ Kept(d, e, FALSE) => Kept(c, e, p)
<1> DEFINE m == c.n["misses"]
<1>1. m \in Nat
  OBVIOUS
<1>2. ASSUME Kept(c, d, FALSE), Kept(d, e, p) PROVE Kept(c, e, p)
  <2>1. d.n["misses"] = m + 0 /\ e.n["misses"] = d.n["misses"] + One(p)
    BY <1>2 DEF Kept, One
  <2> HIDE DEF m
  <2>2. e.n["misses"] = m + One(p)
    BY <1>1, <2>1
  <2> QED BY <1>2, <2>2 DEF Kept, m
<1>3. ASSUME Kept(c, d, p), Kept(d, e, FALSE) PROVE Kept(c, e, p)
  <2>1. d.n["misses"] = m + One(p) /\ e.n["misses"] = d.n["misses"] + 0
    BY <1>3 DEF Kept, One
  <2> HIDE DEF m
  <2>2. e.n["misses"] = m + One(p)
    BY <1>1, <2>1 DEF One
  <2> QED BY <1>3, <2>2 DEF Kept, m
<1> QED BY <1>2, <1>3

\* Counting anything but misses keeps all of that.
LEMMA CountKeeps ==
  ASSUME NEW c, IsCache(c), c.n \in [Counters -> Nat], NEW names
  PROVE  Kept(c, Count(c, names), "misses" \in names)
BY CountAlike DEF Alike, Kept

\* The hooks of a policy change its own books only.
LEMMA HooksKeep ==
  ASSUME NEW c, IsCache(c), c.n \in [Counters -> Nat], NEW b, NEW s, NEW w
  PROVE  /\ Kept(c, OnProbe(c, b), FALSE) /\ Kept(c, OnHit(c, s, w), FALSE)
         /\ Kept(c, OnFill(c, s, w), FALSE) /\ Kept(c, Drawn(c), FALSE)
<1>0. c.n["misses"] \in Nat
  BY DEF Counters
<1>1. Kept(c, c, FALSE)
  BY <1>0 DEF Kept, One
<1>2. Kept(c, ToBack(c, s, w), FALSE)
  <2> DEFINE order2 == [c.order EXCEPT ![s] = Append(Ext!Remove(@, w), w)]
  <2>1. ToBack(c, s, w) = [c EXCEPT !.order = order2]
    BY DEF ToBack
  <2> HIDE DEF order2
  <2>2. ToBack(c, s, w) = [g |-> c.g, ways |-> c.ways, order |-> order2, drawn |-> c.drawn, opt |-> c.opt,
                 buffer |-> c.buffer, shadow |-> c.shadow, seen |-> c.seen, n |-> c.n]
    BY <2>1 DEF IsCache
  <2> QED BY <1>0, <2>2 DEF Kept, One, IsCache
<1>3. Kept(c, [c EXCEPT !.drawn = @ + 1], FALSE)
  <2>1. [c EXCEPT !.drawn = @ + 1] = [g |-> c.g, ways |-> c.ways, order |-> c.order, drawn |-> c.drawn + 1, opt |-> c.opt,
                 buffer |-> c.buffer, shadow |-> c.shadow, seen |-> c.seen, n |-> c.n]
    BY DEF IsCache
  <2> QED BY <1>0, <2>1 DEF Kept, One, IsCache
<1>4. ASSUME NEW o PROVE Kept(c, [c EXCEPT !.opt = o], FALSE)
  <2>1. [c EXCEPT !.opt = o] = [g |-> c.g, ways |-> c.ways, order |-> c.order, drawn |-> c.drawn, opt |-> o,
                 buffer |-> c.buffer, shadow |-> c.shadow, seen |-> c.seen, n |-> c.n]
    BY DEF IsCache
  <2> QED BY <1>0, <2>1 DEF Kept, One, IsCache
<1>5. Kept(c, OnProbe(c, b), FALSE)
  <2> DEFINE n == c.opt.cursor + 1
             o == [c.opt EXCEPT !.raised = TRUE]
             o1 == [c.opt EXCEPT !.cursor = n]
             learnt(u) == [x \in DOMAIN u \cup {b} |-> IF x = b THEN NextUse(c.opt.future, n) ELSE u[x]]
             c1 == [c EXCEPT !.opt = o1]
             o2 == [c1.opt EXCEPT !.nextUse = learnt(@)]
             c2 == [c1 EXCEPT !.opt = o2]
  <2>1. OnProbe(c, b) = c \/ OnProbe(c, b) = [c EXCEPT !.opt = o] \/ OnProbe(c, b) = c2
    BY DEF OnProbe
  <2>2. IsCache(c1) /\ c1.n \in [Counters -> Nat] /\ Kept(c, c1, FALSE)
    <3> HIDE DEF o1, c1
    <3>1. Kept(c, c1, FALSE)
      BY <1>4 DEF c1
    <3> QED BY <3>1 DEF Kept
  <2> HIDE DEF o, o1, o2, c1
  <2>3. c2 = [g |-> c1.g, ways |-> c1.ways, order |-> c1.order, drawn |-> c1.drawn, opt |-> o2,
                 buffer |-> c1.buffer, shadow |-> c1.shadow, seen |-> c1.seen, n |-> c1.n]
    BY <2>2 DEF IsCache
  <2>4. c1.n = c.n /\ c1.g = c.g /\ c1.ways = c.ways /\ c1.buffer = c.buffer
    <3>1. c1 = [g |-> c.g, ways |-> c.ways, order |-> c.order, drawn |-> c.drawn, opt |-> o1,
                 buffer |-> c.buffer, shadow |-> c.shadow, seen |-> c.seen, n |-> c.n]
      BY DEF IsCache, c1
    <3> QED BY <3>1
  <2> HIDE DEF c2
  <2>5. Kept(c, c2, FALSE)
    BY <1>0, <2>3, <2>4 DEF Kept, One, IsCache
  <2> QED BY <1>1, <1>4, <2>1, <2>5
<1> QED BY <1>1, <1>2, <1>3, <1>5 DEF OnHit, OnFill, Drawn

\* A hit leaves the ways as they are.
LEMMA HotHit ==
  ASSUME NEW g, NEW c, HotCache(c, g), NEW k \in SetsOf(g), NEW w \in WaysOf(g), NEW b
  PROVE  LET p == HitWay(c, k, w, b, FALSE)
         IN p.hit /\ Kept(c, p.cache, FALSE)
<1> DEFINE marked == [c EXCEPT !.ways[k][w].dirty = @ \/ FALSE]
           sets == SetsOf(g)
           slots == WaysOf(g)
<1>0. IsCache(c) /\ c.n \in [Counters -> Nat] /\ c.n["misses"] \in Nat /\ ~c.g.classify
      /\ c.ways \in [sets -> [slots -> OptLines]]
  BY DEF HotCache, Counters
<1>1. marked = c
  <2>1. c.ways[k] \in [slots -> OptLines] /\ c.ways[k][w] \in OptLines
    BY <1>0
  <2>2. [c.ways[k][w] EXCEPT !.dirty = @ \/ FALSE] = c.ways[k][w]
    BY <2>1 DEF OptLines
  <2>3. [c.ways[k] EXCEPT ![w] = c.ways[k][w]] = c.ways[k]
    BY <2>1
  <2>4. [c.ways EXCEPT ![k] = c.ways[k]] = c.ways
    BY <1>0
  <2>5. marked = [c EXCEPT !.ways = [c.ways EXCEPT ![k] =
                                       [c.ways[k] EXCEPT ![w] = [c.ways[k][w] EXCEPT !.dirty = @ \/ FALSE]]]]
    OBVIOUS
  <2>6. marked = [c EXCEPT !.ways = c.ways]
    BY <2>2, <2>3, <2>4, <2>5
  <2> HIDE DEF marked
  <2> QED BY <1>0, <2>6 DEF IsCache
<1> HIDE DEF marked
<1> DEFINE moved == OnHit(c, k, w)
           counted == Count(moved, HitCounts(FALSE))
<1>2. Kept(c, moved, FALSE)
  BY <1>0, HooksKeep
<1>3. Kept(moved, counted, FALSE)
  <2>1. "misses" \notin HitCounts(FALSE)
    BY DEF HitCounts
  <2> HIDE DEF moved
  <2>2. Kept(moved, counted, "misses" \in HitCounts(FALSE))
    BY <1>2, CountKeeps DEF Kept
  <2> QED BY <2>1, <2>2 DEF Kept, One
<1>4. Kept(c, counted, FALSE)
  <2> HIDE DEF moved, counted
  <2> QED BY <1>0, <1>2, <1>3, KeptTwice
<1>5. HitWay(c, k, w, b, FALSE) = Probes(counted, TRUE, NoLine)
  <2>1. HitWay(c, k, w, b, FALSE) = Probes(ShadowHit(Count(OnHit(marked, k, w), HitCounts(FALSE)), b), TRUE, NoLine)
    BY DEF HitWay, marked
  <2>2. HitWay(c, k, w, b, FALSE) = Probes(ShadowHit(counted, b), TRUE, NoLine)
    BY <1>1, <2>1
  <2>3. ShadowHit(counted, b) = counted
    <3>1. ~counted.g.classify
      BY <1>0, <1>4 DEF Kept
    <3> HIDE DEF counted
    <3> QED BY <3>1 DEF ShadowHit
  <2> QED BY <2>2, <2>3
<1> HIDE DEF counted
<1> DEFINE p == HitWay(c, k, w, b, FALSE)
<1>6. p.hit /\ p.cache = counted
  <2>1. p = Probes(counted, TRUE, NoLine)
    BY <1>5
  <2> HIDE DEF p
  <2>2. Probes(counted, TRUE, NoLine).hit /\ Probes(counted, TRUE, NoLine).cache = counted
    BY ProbesIs
  <2> QED BY <2>1, <2>2
<1> QED BY <1>4, <1>6

\* d is c with `line' in way w of set k, if there is such a way.
Placed(c, d, k, w, line) ==
  /\ IsCache(d) /\ d.g = c.g /\ d.buffer = c.buffer
  /\ d.ways = [c.ways EXCEPT ![k][w] = line]
  /\ d.n \in [Counters -> Nat] /\ d.n["misses"] = c.n["misses"]

\* Placing a line, then what keeps the ways.
LEMMA PlacedAfter ==
  ASSUME NEW c, NEW d, NEW e, NEW k, NEW w, NEW line, c.n["misses"] \in Nat,
         Kept(c, d, FALSE), Placed(d, e, k, w, line)
  PROVE  Placed(c, e, k, w, line)
<1> DEFINE m == c.n["misses"]
<1>1. d.n["misses"] = m + 0 /\ m \in Nat
  BY DEF Kept, One
<1> HIDE DEF m
<1>2. d.n["misses"] = m
  BY <1>1
<1> QED BY <1>2 DEF Kept, Placed, m

\* What keeps the ways, then placing a line.
LEMMA PlacedBefore ==
  ASSUME NEW c, NEW d, NEW e, NEW k, NEW w, NEW line, d.n["misses"] \in Nat,
         Placed(c, d, k, w, line), Kept(d, e, FALSE)
  PROVE  Placed(c, e, k, w, line)
<1> DEFINE m == d.n["misses"]
<1>1. e.n["misses"] = m + 0 /\ m \in Nat
  BY DEF Kept, One
<1> HIDE DEF m
<1>2. e.n["misses"] = m
  BY <1>1
<1> QED BY <1>2 DEF Kept, Placed, m

\* A fill of a free way.
LEMMA FillPlaces ==
  ASSUME NEW c, IsCache(c), c.n \in [Counters -> Nat], NEW k, NEW w, NEW line
  PROVE  Placed(c, FillWay(c, k, w, line), k, w, line)
<1> DEFINE filled == [c EXCEPT !.ways[k][w] = line]
           ways2 == [c.ways EXCEPT ![k][w] = line]
           counted == Count(filled, {"fills"})
           d == OnFill(counted, k, w)
<1>1. filled = [g |-> c.g, ways |-> ways2, order |-> c.order, drawn |-> c.drawn, opt |-> c.opt,
                buffer |-> c.buffer, shadow |-> c.shadow, seen |-> c.seen, n |-> c.n]
  <2>1. filled = [c EXCEPT !.ways = ways2]
    OBVIOUS
  <2> HIDE DEF filled, ways2
  <2> QED BY <2>1 DEF IsCache
<1>2. FillWay(c, k, w, line) = d
  BY DEF FillWay
<1> HIDE DEF filled, ways2
<1>3. c.n["misses"] \in Nat
  BY DEF Counters
<1>4. IsCache(filled) /\ filled.n \in [Counters -> Nat] /\ filled.n["misses"] \in Nat /\ Placed(c, filled, k, w, line)
  BY <1>1, <1>3 DEF IsCache, Placed, ways2
<1>5. Kept(filled, counted, FALSE)
  <2>1. Kept(filled, counted, "misses" \in {"fills"})
    BY <1>4, CountKeeps
  <2> QED BY <2>1 DEF Kept, One
<1> HIDE DEF counted
<1>6. IsCache(counted) /\ counted.n \in [Counters -> Nat]
  BY <1>5 DEF Kept
<1>7. Kept(counted, d, FALSE)
  BY <1>6, HooksKeep
<1>8. Kept(filled, d, FALSE)
  <2> HIDE DEF d
  <2> QED BY <1>4, <1>5, <1>7, KeptTwice
<1> HIDE DEF d
<1> QED BY <1>2, <1>4, <1>8, PlacedBefore

\* A fill of the way of a victim.
LEMMA EvictPlaces ==
  ASSUME NEW c, IsCache(c), c.n \in [Counters -> Nat], c.g.entries = 0, NEW k, NEW w, NEW line
  PROVE  Placed(c, Evict(c, k, w, line).cache, k, w, line)
<1> DEFINE drawn == Drawn(c)
           counted == Count(drawn, {"evictions"})
           out == c.ways[k][w]
           left == WritesOut(Leaves(counted, out))
<1>0. c.n["misses"] \in Nat
  BY DEF Counters
<1>1. Kept(c, drawn, FALSE) /\ IsCache(drawn) /\ drawn.n \in [Counters -> Nat]
  BY HooksKeep DEF Kept
<1>2. Kept(c, counted, FALSE)
  <2> HIDE DEF drawn
  <2>1. Kept(drawn, counted, "misses" \in {"evictions"})
    BY <1>1, CountKeeps
  <2>2. Kept(drawn, counted, FALSE)
    BY <2>1 DEF Kept, One
  <2> HIDE DEF counted
  <2> QED BY <1>0, <1>1, <2>2, KeptTwice
<1>3. Displaced(counted, out) = Leaves(counted, out)
  <2>1. counted.g = c.g
    BY <1>2 DEF Kept
  <2> HIDE DEF counted
  <2> QED BY <2>1 DEF Displaced
<1>4. Evict(c, k, w, line) = Refilled(left, k, w, line)
  BY <1>3 DEF Evict
<1> HIDE DEF counted, out
<1>5. left = Leaves(left.cache, out) /\ Kept(c, left.cache, FALSE)
  <2>1. left = (IF out.dirty THEN Leaves(Count(counted, {"writebacks"}), out) ELSE Leaves(counted, out))
    BY DEF Leaves, WritesOut
  <2>2. Kept(c, Count(counted, {"writebacks"}), FALSE)
    <3>1. Kept(counted, Count(counted, {"writebacks"}), "misses" \in {"writebacks"})
      BY <1>2, CountKeeps DEF Kept
    <3>2. Kept(counted, Count(counted, {"writebacks"}), FALSE)
      BY <3>1 DEF Kept, One
    <3> QED BY <1>0, <1>2, <3>2, KeptTwice
  <2> HIDE DEF left
  <2> QED BY <1>2, <2>1, <2>2 DEF Leaves
<1> HIDE DEF left
<1> DEFINE e == left.cache
<1>6. Refilled(left, k, w, line).cache = FillWay(e, k, w, line)
  BY <1>5 DEF Refilled, Leaves
<1>7. IsCache(e) /\ e.n \in [Counters -> Nat] /\ Kept(c, e, FALSE)
  BY <1>5 DEF Kept
<1> HIDE DEF e
<1>8. Placed(e, FillWay(e, k, w, line), k, w, line)
  BY <1>7, FillPlaces
<1>9. Placed(c, FillWay(e, k, w, line), k, w, line)
  BY <1>0, <1>7, <1>8, PlacedAfter
<1> QED BY <1>4, <1>6, <1>9

\* A block that the set does not hold takes a way of it, or none if the policy names none.
LEMMA AllocatePlaces ==
  ASSUME NEW c, IsCache(c), c.n \in [Counters -> Nat], c.g.entries = 0, NEW k, NEW line, SetOf(c, line.block) = k,
         WayIn(c.ways[k], line.block) = EMPTY
  PROVE  \E w : Placed(c, Allocate(c, line).cache, k, w, line)
<1> DEFINE free == WayIn(c.ways[k], EMPTY)
<1>1. CASE free # EMPTY
  <2>1. Allocate(c, line) = Leaves(FillWay(c, k, free, line), NoLine)
    BY <1>1 DEF Allocate, AllocateIn
  <2>2. Allocate(c, line).cache = FillWay(c, k, free, line)
    BY <2>1 DEF Leaves
  <2>3. Placed(c, FillWay(c, k, free, line), k, free, line)
    BY FillPlaces
  <2> HIDE DEF free
  <2> QED BY <2>2, <2>3
<1>2. CASE free = EMPTY
  <2>1. Allocate(c, line) = Evict(c, k, VictimWay(c, k), line)
    BY <1>2 DEF Allocate, AllocateIn
  <2>2. Placed(c, Evict(c, k, VictimWay(c, k), line).cache, k, VictimWay(c, k), line)
    BY EvictPlaces
  <2> QED BY <2>1, <2>2
<1> QED BY <1>1, <1>2

\* The blocks a set holds, EMPTY among them if a way is free.
HeldIn(c, g, k) == {c.ways[k][w].block : w \in WaysOf(g)}

\* h has the fields of HotSets.
IsHot(h) == h = [cache |-> h.cache, perSet |-> h.perSet]

\* The parts of a changed h.
LEMMA HotParts ==
  ASSUME NEW x, NEW y, NEW h, h = [cache |-> x, perSet |-> y]
  PROVE  h.cache = x /\ h.perSet = y /\ IsHot(h)
BY DEF IsHot

\* After a miss the set holds one block more, and perhaps one less.
HotEffect(h, h2, g, b, k) ==
  /\ HotCache(h2.cache, g) /\ IsHot(h2)
  /\ h2.cache.n["misses"] = h.cache.n["misses"] + One(b \notin HeldIn(h.cache, g, k))
  /\ h2.perSet = (IF b \in HeldIn(h.cache, g, k) THEN h.perSet ELSE [h.perSet EXCEPT ![k] = @ + 1])
  /\ b \in HeldIn(h.cache, g, k) => h2.cache.ways = h.cache.ways
  /\ b \notin HeldIn(h.cache, g, k) =>
       \E w : h2.cache.ways = [h.cache.ways EXCEPT ![k][w] = Line(b, FALSE, FALSE)]

\* One access of the loop of hot_sets.
LEMMA HotAccessEffect ==
  ASSUME NEW g, GeometryOK(g), NEW h, HotCache(h.cache, g), IsHot(h),
         NEW b \in Blocks, NEW k \in SetsOf(g), b % g.sets = k,
         NEW h2, h2 = HotAccess(h, b, FALSE)
  PROVE  HotEffect(h, h2, g, b, k)
<1> DEFINE c == h.cache
           slots == WaysOf(g)
           own == {w \in slots : c.ways[k][w].block = b}
           c1 == OnProbe(c, b)
<1>1. /\ IsCache(c) /\ c.g.sets = g.sets /\ c.g.ways = g.ways /\ c.g.index = "modulo"
      /\ c.g.entries = 0 /\ ~c.g.classify /\ c.ways \in [SetsOf(g) -> [slots -> OptLines]] /\ c.buffer = << >>
      /\ c.n \in [Counters -> Nat] /\ c.n["misses"] \in Nat
  BY DEF HotCache, Counters
<1>2. Kept(c, c1, FALSE)
  BY <1>1, HooksKeep
<1>3. own = {} <=> b \notin HeldIn(c, g, k)
  BY DEF HeldIn
<1>4. slots \in SUBSET Nat
  BY DEF WaysOf, GeometryOK
<1>5. SetOf(c, b) = k /\ SetOf(c1, b) = k
  BY <1>1, <1>2 DEF SetOf, IndexOf, Kept
<1>6. WayOf(c, b) = FirstOf(own)
  BY <1>1, <1>5 DEF WayOf, WayIn
<1> HIDE DEF c1, slots
<1>7. Probe(c, b, FALSE) = ProbeIn(c1, FirstOf(own), b, FALSE)
  BY <1>6 DEF Probe, c1
<1>8. HotCache(c1, g) /\ IsCache(c1) /\ c1.n \in [Counters -> Nat]
  BY <1>1, <1>2 DEF HotCache, Kept, slots
<1>9. ASSUME NEW d, d.g = c.g, IsCache(d), d.buffer = c.buffer, d.n \in [Counters -> Nat],
             d.ways \in [SetsOf(g) -> [slots -> OptLines]]
      PROVE  HotCache(d, g)
  BY <1>1, <1>9 DEF HotCache, slots
<1>10. CASE own # {}
  <2> DEFINE w == FirstOf(own)
             p == HitWay(c1, k, w, b, FALSE)
             d == p.cache
  <2>1. w \in own /\ w # EMPTY
    BY <1>4, <1>10, FirstOfIs
  <2> HIDE DEF w
  <2>2. w \in slots
    BY <2>1
  <2> HIDE DEF own
  <2>3. Probe(c, b, FALSE) = p
    BY <1>5, <1>7, <2>1 DEF ProbeIn, w
  <2>4. p.hit /\ Kept(c1, d, FALSE)
    BY <1>8, <2>2, HotHit DEF slots
  <2> HIDE DEF p
  <2>5. h2 = [h EXCEPT !.cache = d]
    BY <2>3, <2>4 DEF HotAccess
  <2>6. h2 = [cache |-> d, perSet |-> h.perSet]
    <3> HIDE DEF d
    <3> QED BY <2>5 DEF IsHot
  <2>7. Kept(c, d, FALSE)
    <3> HIDE DEF d, c
    <3> QED BY <1>1, <1>2, <2>4, KeptTwice
  <2>8. HotCache(d, g) /\ d.ways = c.ways /\ d.n["misses"] = c.n["misses"] + One(b \notin HeldIn(c, g, k))
    <3> HIDE DEF d, c
    <3> QED BY <1>1, <1>3, <1>9, <1>10, <2>7 DEF Kept, One
  <2> HIDE DEF d
  <2>9. h2.cache = d /\ h2.perSet = h.perSet /\ IsHot(h2)
    BY <2>6, HotParts
  <2>10. b \in HeldIn(c, g, k)
    BY <1>3, <1>10
  <2> QED BY <2>8, <2>9, <2>10 DEF HotEffect, c
<1>11. CASE own = {}
  <2> DEFINE d == Count(c1, MissCounts(FALSE))
             line == Line(b, FALSE, FALSE)
             e == Allocate(d, line).cache
  <2>1. Kept(c1, d, TRUE)
    <3>1. "misses" \in MissCounts(FALSE)
      BY DEF MissCounts
    <3>2. Kept(c1, d, "misses" \in MissCounts(FALSE))
      BY <1>8, CountKeeps
    <3> QED BY <3>1, <3>2 DEF Kept, One
  <2>2. Kept(c, d, TRUE)
    <3> HIDE DEF d, c
    <3> QED BY <1>1, <1>2, <2>1, KeptTwice
  <2> HIDE DEF d
  <2>3. FirstOf(own) = EMPTY
    BY <1>4, <1>11, FirstOfIs
  <2>4. ~Probe(c, b, FALSE).hit /\ Probe(c, b, FALSE).cache = d
    <3>1. ~Buffered(c1, b)
      BY <1>1, <1>2 DEF Buffered, Kept
    <3>2. ShadowMiss(d, b) = d
      BY <1>1, <2>2 DEF ShadowMiss, Kept
    <3>3. Probe(c, b, FALSE) = Probes(d, FALSE, NoLine)
      BY <1>7, <2>3, <3>1, <3>2 DEF ProbeIn, d
    <3> QED BY <3>3, ProbesIs
  <2>5. h2 = [cache |-> e, perSet |-> [h.perSet EXCEPT ![k] = @ + 1]]
    <3>1. h2 = [h EXCEPT !.cache = e, !.perSet[b % c.g.sets] = @ + 1]
      BY <2>4 DEF HotAccess
    <3>2. b % c.g.sets = k
      BY <1>1
    <3> DEFINE perSet2 == [h.perSet EXCEPT ![k] = @ + 1]
    <3> HIDE DEF e, c
    <3>3. h2 = [h EXCEPT !.cache = e, !.perSet = perSet2]
      BY <3>1, <3>2
    <3> HIDE DEF perSet2
    <3>4. h2 = [cache |-> e, perSet |-> perSet2]
      BY <3>3 DEF IsHot
    <3> QED BY <3>4 DEF perSet2
  <2>6. /\ IsCache(d) /\ d.n \in [Counters -> Nat] /\ d.g = c.g /\ d.ways = c.ways /\ d.buffer = c.buffer
        /\ d.n["misses"] = c.n["misses"] + One(TRUE) /\ d.g.entries = 0
    BY <1>1, <2>2 DEF Kept
  <2>7. line.block = b /\ SetOf(d, line.block) = k /\ WayIn(d.ways[k], line.block) = EMPTY
    <3>1. line.block = b /\ SetOf(d, b) = k
      BY <1>5, <2>6 DEF Line, SetOf
    <3>2. WayIn(c.ways[k], b) = EMPTY
      BY <1>5, <1>6, <2>3 DEF WayOf
    <3> QED BY <2>6, <3>1, <3>2
  <2> HIDE DEF line
  <2>8. PICK w : Placed(d, e, k, w, line)
    BY <2>6, <2>7, AllocatePlaces
  <2> HIDE DEF e, c
  <2>9. /\ IsCache(e) /\ e.g = c.g /\ e.buffer = c.buffer /\ e.n \in [Counters -> Nat]
        /\ e.n["misses"] = c.n["misses"] + One(TRUE) /\ e.ways = [c.ways EXCEPT ![k][w] = line]
    BY <2>6, <2>8 DEF Placed
  <2>10. HotCache(e, g)
    <3>1. line \in OptLines
      BY DEF line, Line, OptLines
    <3>2. [c.ways EXCEPT ![k][w] = line] \in [SetsOf(g) -> [slots -> OptLines]]
      <4>1. c.ways[k] \in [slots -> OptLines]
        BY <1>1
      <4>2. [c.ways[k] EXCEPT ![w] = line] \in [slots -> OptLines]
        BY <3>1, <4>1
      <4>3. [c.ways EXCEPT ![k][w] = line] = [c.ways EXCEPT ![k] = [c.ways[k] EXCEPT ![w] = line]]
        OBVIOUS
      <4> QED BY <1>1, <4>2, <4>3
    <3> QED BY <1>9, <2>9, <3>2
  <2>11. h2.cache = e /\ h2.perSet = [h.perSet EXCEPT ![k] = @ + 1] /\ IsHot(h2)
    <3>1. PICK v : v = [h.perSet EXCEPT ![k] = @ + 1]
      OBVIOUS
    <3>2. PICK x : x = e
      OBVIOUS
    <3>3. h2 = [cache |-> x, perSet |-> v]
      BY <2>5, <3>1, <3>2
    <3>4. h2.cache = x /\ h2.perSet = v /\ IsHot(h2)
      BY <3>3, HotParts
    <3> QED BY <3>1, <3>2, <3>4
  <2>12. b \notin HeldIn(c, g, k) /\ One(b \notin HeldIn(c, g, k)) = One(TRUE)
    BY <1>3, <1>11 DEF One
  <2> QED BY <2>9, <2>10, <2>11, <2>12 DEF HotEffect, c, line
<1> QED BY <1>10, <1>11

\* The references of M that are to a set, and those in one window.
MissedIn(M, s, g, z) == {n \in M : s[n] % g.sets = z}
Missed(M, s, g, q) == {n \in M : (n - 1) \div g.window = q[1] /\ s[n] % g.sets = q[2]}

\* M are the references that missed.
HotIs(h, s, g, k, M) ==
  /\ HotCache(h.cache, g) /\ IsHot(h) /\ h.perSet \in [SetsOf(g) -> Nat]
  /\ M \in SUBSET (1 .. k)
  /\ h.cache.n["misses"] = Cardinality(M)
  /\ \A z \in SetsOf(g) : h.perSet[z] = Cardinality(MissedIn(M, s, g, z))
  /\ \A q \in Nat \X SetsOf(g) :
       LET A == AskedIn(s, g, k)[q]
           m == Cardinality(Missed(M, s, g, q))
       IN /\ Cardinality(A) <= g.ways + m
          /\ q[1] >= k \div g.window => Cardinality(A \cup HeldIn(h.cache, g, q[2])) <= g.ways + m

\* Finite sets and one element more.
LEMMA OneLarger ==
  ASSUME NEW X, NEW Y, IsFiniteSet(Y), NEW b
  PROVE  /\ IsFiniteSet(Y \cup {b}) /\ Cardinality(Y) \in Nat
         /\ b \notin Y => Cardinality(Y \cup {b}) = Cardinality(Y) + 1
         /\ X \subseteq Y => IsFiniteSet(X) /\ Cardinality(X) \in Nat /\ Cardinality(X) <= Cardinality(Y)
         /\ X \subseteq Y \cup {b} => IsFiniteSet(X) /\ Cardinality(X) \in Nat /\ Cardinality(X) <= Cardinality(Y) + 1
<1>1. Cardinality(Y) \in Nat
  BY FS_CardinalityType
<1>2. IsFiniteSet(Y \cup {b}) /\ Cardinality(Y \cup {b}) \in Nat /\ Cardinality(Y \cup {b}) <= Cardinality(Y) + 1
      /\ (b \notin Y => Cardinality(Y \cup {b}) = Cardinality(Y) + 1)
  <2>1. IsFiniteSet(Y \cup {b}) /\ Cardinality(Y \cup {b}) = IF b \in Y THEN Cardinality(Y) ELSE Cardinality(Y) + 1
    BY FS_AddElement
  <2> QED BY <1>1, <2>1
<1>3. ASSUME X \subseteq Y PROVE IsFiniteSet(X) /\ Cardinality(X) \in Nat /\ Cardinality(X) <= Cardinality(Y)
  BY <1>3, FS_Subset, FS_CardinalityType
<1>4. ASSUME X \subseteq Y \cup {b}
      PROVE  IsFiniteSet(X) /\ Cardinality(X) \in Nat /\ Cardinality(X) <= Cardinality(Y) + 1
  <2> DEFINE Z == Y \cup {b}
  <2>1. IsFiniteSet(Z) /\ Cardinality(Z) \in Nat /\ Cardinality(Z) <= Cardinality(Y) + 1 /\ X \subseteq Z
    BY <1>2, <1>4
  <2> HIDE DEF Z
  <2>2. IsFiniteSet(X) /\ Cardinality(X) <= Cardinality(Z)
    BY <2>1, FS_Subset
  <2>3. Cardinality(X) \in Nat
    BY <2>2, FS_CardinalityType
  <2> QED BY <1>1, <2>1, <2>2, <2>3
<1> QED BY <1>1, <1>2, <1>3, <1>4

\* A set holds no more blocks than it has ways.
LEMMA HeldInIsSmall ==
  ASSUME NEW g, GeometryOK(g), NEW c, NEW k
  PROVE  IsFiniteSet(HeldIn(c, g, k)) /\ Cardinality(HeldIn(c, g, k)) \in Nat /\ Cardinality(HeldIn(c, g, k)) <= g.ways
<1> DEFINE slots == WaysOf(g)
           T == HeldIn(c, g, k)
           f == [w \in slots |-> c.ways[k][w].block]
<1>1. IsFiniteSet(slots) /\ Cardinality(slots) = g.ways
  <2>1. \A m \in Nat \ {0} : IsFiniteSet(0 .. m - 1) /\ Cardinality(0 .. m - 1) = m
    BY FS_Interval
  <2> QED BY <2>1 DEF WaysOf, GeometryOK
<1>2. f \in Surjection(slots, T)
  BY DEF Surjection, HeldIn
<1> HIDE DEF slots, f, T
<1>3. IsFiniteSet(T) /\ Cardinality(T) <= Cardinality(slots)
  BY <1>1, <1>2, FS_Surjection
<1> QED BY <1>1, <1>3, FS_CardinalityType DEF T

\* No set has been asked for anything in a later window.
LEMMA AskedLater ==
  ASSUME NEW s, NEW g, GeometryFull(g), NEW k \in Nat, NEW q \in Nat \X SetsOf(g), q[1] > k \div g.window
  PROVE  AskedIn(s, g, k + 1)[q] = {}
<1>1. ASSUME NEW n \in 1 .. k + 1 PROVE (n - 1) \div g.window # q[1]
  <2>1. n - 1 \in Nat /\ n - 1 <= k /\ g.window \in Nat \ {0}
    BY DEF GeometryFull
  <2> DEFINE e == (n - 1) \div g.window
             w == k \div g.window
  <2>2. e \in Nat /\ e <= w
    BY <2>1, WindowsOrdered
  <2>3. w \in Nat /\ q[1] > w /\ q[1] \in Nat
    BY <2>1, Division
  <2> HIDE DEF e, w
  <2>4. e # q[1]
    BY <2>2, <2>3
  <2> QED BY <2>4 DEF e
<1> QED BY <1>1 DEF AskedIn

\* Block b is put in way w of set k, and then that set may hold b too.
WayFilled(c, d, k, w, b) == d.ways = [c.ways EXCEPT ![k][w] = Line(b, FALSE, FALSE)]

HeldGrows(c, d, g, k, b) ==
  /\ HeldIn(d, g, k) \subseteq HeldIn(c, g, k) \cup {b}
  /\ \A j \in SetsOf(g) : j # k => HeldIn(d, g, j) = HeldIn(c, g, j)

\* That is what filling a way does to the blocks held.
LEMMA HeldInFilled ==
  ASSUME NEW g, NEW c, HotCache(c, g), NEW d, NEW k \in SetsOf(g), NEW w, NEW b, WayFilled(c, d, k, w, b)
  PROVE  HeldGrows(c, d, g, k, b)
<1>1. c.ways \in [SetsOf(g) -> [WaysOf(g) -> OptLines]]
  BY DEF HotCache
<1>2. \A j \in SetsOf(g) : j # k => d.ways[j] = c.ways[j]
  BY <1>1 DEF WayFilled
<1>3. \A v \in WaysOf(g) : d.ways[k][v] = IF v = w THEN Line(b, FALSE, FALSE) ELSE c.ways[k][v]
  <2>1. d.ways[k] = [c.ways[k] EXCEPT ![w] = Line(b, FALSE, FALSE)]
    BY <1>1 DEF WayFilled
  <2>2. c.ways[k] \in [WaysOf(g) -> OptLines]
    BY <1>1
  <2> QED BY <2>1, <2>2
<1>4. Line(b, FALSE, FALSE).block = b
  BY DEF Line
<1>5. HeldIn(d, g, k) \subseteq HeldIn(c, g, k) \cup {b}
  <2> SUFFICES ASSUME NEW v \in WaysOf(g) PROVE d.ways[k][v].block \in HeldIn(c, g, k) \cup {b}
    BY DEF HeldIn
  <2>1. CASE v = w
    BY <1>3, <1>4, <2>1
  <2>2. CASE v # w
    BY <1>3, <2>2 DEF HeldIn
  <2> QED BY <2>1, <2>2
<1>6. \A j \in SetsOf(g) : j # k => HeldIn(d, g, j) = HeldIn(c, g, j)
  BY <1>2 DEF HeldIn
<1> QED BY <1>5, <1>6 DEF HeldGrows

\* Before the first reference nothing is held and nothing has missed.
LEMMA HotFresh ==
  ASSUME NEW s, NEW g, GeometryFull(g), g \in Geometries, NEW h, h = HotSets(g)
  PROVE  HotIs(h, s, g, 0, {})
<1> DEFINE g2 == [g EXCEPT !.index = "modulo", !.entries = 0, !.classify = FALSE]
           c == Cache(g2)
           zero == [z \in SetsOf(g) |-> 0]
<1>1. g2.sets = g.sets /\ g2.ways = g.ways /\ g2.index = "modulo" /\ g2.entries = 0 /\ g2.classify = FALSE
  <2>1. g \in [sets : Nat \ {0}, ways : Nat \ {0}, index : IndexNames, policy : STRING,
               draws : Seq(Nat), entries : Nat, classify : BOOLEAN, window : Nat \ {0}, warmup : Nat]
    BY GeometriesAssumption
  <2> QED BY <2>1
<1>2. h = [cache |-> c, perSet |-> zero]
  BY DEF HotSets
<1> HIDE DEF g2
<1>3. NoLine \in OptLines
  BY DEF NoLine, Line, OptLines
<1>4. HotCache(c, g) /\ c.n["misses"] = 0
  <2>1. SetsOf(g2) = SetsOf(g) /\ WaysOf(g2) = WaysOf(g)
    BY <1>1 DEF SetsOf, WaysOf
  <2>2. IsCache(c) /\ c.g = g2 /\ c.buffer = << >> /\ c.n = Zero
        /\ c.ways = [z \in SetsOf(g2) |-> [w \in WaysOf(g2) |-> NoLine]]
    BY DEF Cache, IsCache
  <2>3. Zero \in [Counters -> Nat] /\ Zero["misses"] = 0
    BY DEF Zero, Counters
  <2> HIDE DEF c
  <2>4. c.ways \in [SetsOf(g) -> [WaysOf(g) -> OptLines]]
    BY <1>3, <2>1, <2>2
  <2> QED BY <1>1, <2>2, <2>3, <2>4 DEF HotCache
<1> HIDE DEF c, zero
<1>5. h.cache = c /\ h.perSet = zero /\ IsHot(h)
  BY <1>2, HotParts
<1>6. \A z, q : Cardinality(MissedIn({}, s, g, z)) = 0 /\ Cardinality(Missed({}, s, g, q)) = 0
  BY FS_EmptySet DEF MissedIn, Missed
<1>7. zero \in [SetsOf(g) -> Nat] /\ \A z \in SetsOf(g) : zero[z] = 0
  BY DEF zero
<1>8. ASSUME NEW q \in Nat \X SetsOf(g)
      PROVE  /\ Cardinality(AskedIn(s, g, 0)[q]) <= g.ways + 0
             /\ Cardinality(AskedIn(s, g, 0)[q] \cup HeldIn(c, g, q[2])) <= g.ways + 0
  <2>1. AskedIn(s, g, 0)[q] = {}
    BY DEF AskedIn
  <2>2. Cardinality({}) = 0 /\ g.ways \in Nat /\ GeometryOK(g)
    BY FS_EmptySet DEF GeometryFull, GeometryOK
  <2>3. Cardinality(HeldIn(c, g, q[2])) \in Nat /\ Cardinality(HeldIn(c, g, q[2])) <= g.ways
    BY <2>2, HeldInIsSmall
  <2>4. {} \cup HeldIn(c, g, q[2]) = HeldIn(c, g, q[2])
    OBVIOUS
  <2>5. PICK e \in Nat : e = Cardinality(HeldIn(c, g, q[2]))
    BY <2>3
  <2>6. e <= g.ways
    BY <2>3, <2>5
  <2>7. Cardinality(AskedIn(s, g, 0)[q]) = 0 /\ Cardinality(AskedIn(s, g, 0)[q] \cup HeldIn(c, g, q[2])) = e
    BY <2>1, <2>2, <2>4, <2>5
  <2> QED BY <2>2, <2>6, <2>7
<1>9. \A q \in Nat \X SetsOf(g) :
       LET A == AskedIn(s, g, 0)[q]
           m == Cardinality(Missed({}, s, g, q))
       IN /\ Cardinality(A) <= g.ways + m
          /\ q[1] >= 0 \div g.window => Cardinality(A \cup HeldIn(c, g, q[2])) <= g.ways + m
  BY <1>6, <1>8
<1>10. Cardinality({}) = 0
  BY FS_EmptySet
<1> QED BY <1>4, <1>5, <1>6, <1>7, <1>9, <1>10 DEF HotIs

\* One miss more.
MissGrows(M, s, g, k) ==
  /\ \A z : /\ Cardinality(MissedIn(M, s, g, z)) \in Nat
            /\ Cardinality(MissedIn(M \cup {k + 1}, s, g, z))
                 = Cardinality(MissedIn(M, s, g, z)) + (IF s[k + 1] % g.sets = z THEN 1 ELSE 0)
  /\ \A q : /\ Cardinality(Missed(M, s, g, q)) \in Nat
            /\ Cardinality(Missed(M \cup {k + 1}, s, g, q))
                 = Cardinality(Missed(M, s, g, q)) + (IF k \div g.window = q[1] /\ s[k + 1] % g.sets = q[2] THEN 1 ELSE 0)

\* And reference k + 1 is added to the misses before it.
LEMMA MissedNext ==
  ASSUME NEW s, NEW g, NEW k \in Nat, NEW M \in SUBSET (1 .. k)
  PROVE  /\ IsFiniteSet(M) /\ k + 1 \notin M /\ Cardinality(M) \in Nat
         /\ M \cup {k + 1} \in SUBSET (1 .. k + 1) /\ Cardinality(M \cup {k + 1}) = Cardinality(M) + 1
         /\ MissGrows(M, s, g, k)
<1>1. IsFiniteSet(M) /\ k + 1 \notin M
  <2>1. IsFiniteSet(1 .. k) /\ k + 1 \notin 1 .. k
    BY FS_Interval
  <2> QED BY <2>1, FS_Subset
<1>2. Cardinality(M) \in Nat /\ Cardinality(M \cup {k + 1}) = Cardinality(M) + 1
  BY <1>1, OneLarger
<1>3. M \cup {k + 1} \in SUBSET (1 .. k + 1)
  OBVIOUS
<1>4. ASSUME NEW X, X \subseteq M, NEW X2, NEW p \in BOOLEAN, X2 = IF p THEN X \cup {k + 1} ELSE X
      PROVE  Cardinality(X) \in Nat /\ Cardinality(X2) = Cardinality(X) + (IF p THEN 1 ELSE 0)
  <2>1. IsFiniteSet(X) /\ Cardinality(X) \in Nat
    BY <1>1, <1>4, OneLarger
  <2>2. k + 1 \notin X
    BY <1>1, <1>4
  <2>3. Cardinality(X \cup {k + 1}) = Cardinality(X) + 1
    BY <2>1, <2>2, OneLarger
  <2> QED BY <1>4, <2>1, <2>3 DEF One
<1>5. ASSUME NEW z
      PROVE  /\ Cardinality(MissedIn(M, s, g, z)) \in Nat
             /\ Cardinality(MissedIn(M \cup {k + 1}, s, g, z))
                  = Cardinality(MissedIn(M, s, g, z)) + (IF s[k + 1] % g.sets = z THEN 1 ELSE 0)
  <2> DEFINE X == MissedIn(M, s, g, z)
             X2 == MissedIn(M \cup {k + 1}, s, g, z)
             p == s[k + 1] % g.sets = z
  <2>1. X \subseteq M /\ p \in BOOLEAN /\ X2 = IF p THEN X \cup {k + 1} ELSE X
    BY DEF MissedIn
  <2> HIDE DEF X, X2, p
  <2>2. Cardinality(X) \in Nat /\ Cardinality(X2) = Cardinality(X) + (IF p THEN 1 ELSE 0)
    BY <1>4, <2>1
  <2> QED BY <2>2 DEF X, X2, p
<1>6. ASSUME NEW q
      PROVE  /\ Cardinality(Missed(M, s, g, q)) \in Nat
             /\ Cardinality(Missed(M \cup {k + 1}, s, g, q))
                  = Cardinality(Missed(M, s, g, q)) + (IF k \div g.window = q[1] /\ s[k + 1] % g.sets = q[2] THEN 1 ELSE 0)
  <2> DEFINE X == Missed(M, s, g, q)
             X2 == Missed(M \cup {k + 1}, s, g, q)
             p == k \div g.window = q[1] /\ s[k + 1] % g.sets = q[2]
  <2>0. (k + 1) - 1 = k
    OBVIOUS
  <2>1. X \subseteq M /\ p \in BOOLEAN /\ X2 = IF p THEN X \cup {k + 1} ELSE X
    BY <2>0 DEF Missed
  <2> HIDE DEF X, X2, p
  <2>2. Cardinality(X) \in Nat /\ Cardinality(X2) = Cardinality(X) + (IF p THEN 1 ELSE 0)
    BY <1>4, <2>1
  <2> QED BY <2>2 DEF X, X2, p
<1> QED BY <1>1, <1>2, <1>3, <1>5, <1>6 DEF MissGrows

\* What a reference adds to the sets of blocks a set is asked for, and the bounds on them.
LEMMA HotNext ==
  ASSUME NEW s, NEW g, GeometryFull(g), NEW k \in Nat, s[k + 1] \in Blocks, NEW h, NEW M, HotIs(h, s, g, k, M),
         NEW h2, h2 = HotAccess(h, s[k + 1], FALSE)
  PROVE  \E M2 : HotIs(h2, s, g, k + 1, M2)
<1> DEFINE n == k + 1
           b == s[n]
           z == b % g.sets
           w == k \div g.window
           c == h.cache
           d == h2.cache
           A == AskedIn(s, g, k)
           A2 == AskedIn(s, g, n)
           own == b \in HeldIn(c, g, z)
           M2 == IF own THEN M ELSE M \cup {n}
           pairs == Nat \X SetsOf(g)
<1>0. GeometryOK(g) /\ g.ways \in Nat \ {0} /\ g.sets \in Nat \ {0} /\ g.window \in Nat \ {0} /\ b \in Nat /\ n \in Nat
  <2>1. b \in Nat
    BY BlocksAssumption
  <2> HIDE DEF b
  <2> QED BY <2>1 DEF GeometryFull, GeometryOK
<1>1. /\ w \in Nat /\ z \in SetsOf(g)
      /\ \A q \in pairs : A2[q] = A[q] \cup (IF q = <<w, z>> THEN {b} ELSE {})
  BY <1>0, AskedNext
<1>2. /\ HotCache(c, g) /\ IsHot(h) /\ h.perSet \in [SetsOf(g) -> Nat]
      /\ M \in SUBSET (1 .. k)
      /\ c.n["misses"] = Cardinality(M)
      /\ \A x \in SetsOf(g) : h.perSet[x] = Cardinality(MissedIn(M, s, g, x))
      /\ \A q \in pairs :
           /\ Cardinality(A[q]) <= g.ways + Cardinality(Missed(M, s, g, q))
           /\ q[1] >= w => Cardinality(A[q] \cup HeldIn(c, g, q[2])) <= g.ways + Cardinality(Missed(M, s, g, q))
  BY DEF HotIs
<1>3. /\ HotCache(d, g) /\ IsHot(h2)
      /\ d.n["misses"] = c.n["misses"] + One(~own)
      /\ h2.perSet = (IF own THEN h.perSet ELSE [h.perSet EXCEPT ![z] = @ + 1])
      /\ own => d.ways = c.ways
      /\ ~own => \E v : d.ways = [c.ways EXCEPT ![z][v] = Line(b, FALSE, FALSE)]
  <2>1. b \in Blocks /\ z \in SetsOf(g) /\ b % g.sets = z /\ HotCache(h.cache, g) /\ IsHot(h) /\ h2 = HotAccess(h, b, FALSE)
    BY <1>1, <1>2
  <2> HIDE DEF b, z
  <2>2. HotEffect(h, h2, g, b, z)
    BY <1>0, <2>1, HotAccessEffect
  <2> QED BY <2>2 DEF HotEffect
<1>4. /\ IsFiniteSet(M) /\ n \notin M /\ Cardinality(M) \in Nat
      /\ M \cup {n} \in SUBSET (1 .. n) /\ Cardinality(M \cup {n}) = Cardinality(M) + 1
  <2>1. M \in SUBSET (1 .. k)
    BY <1>2
  <2> QED BY <2>1, MissedNext
<1>5. \A x : /\ Cardinality(MissedIn(M, s, g, x)) \in Nat
             /\ Cardinality(MissedIn(M \cup {n}, s, g, x)) = Cardinality(MissedIn(M, s, g, x)) + (IF z = x THEN 1 ELSE 0)
  <2>1. M \in SUBSET (1 .. k)
    BY <1>2
  <2>2. MissGrows(M, s, g, k)
    BY <2>1, MissedNext
  <2> QED BY <2>2 DEF MissGrows
<1>6. \A q \in pairs :
        /\ Cardinality(Missed(M, s, g, q)) \in Nat
        /\ Cardinality(Missed(M \cup {n}, s, g, q)) = Cardinality(Missed(M, s, g, q)) + (IF q = <<w, z>> THEN 1 ELSE 0)
  <2>1. \A q : /\ Cardinality(Missed(M, s, g, q)) \in Nat
               /\ Cardinality(Missed(M \cup {n}, s, g, q)) = Cardinality(Missed(M, s, g, q)) + (IF w = q[1] /\ z = q[2] THEN 1 ELSE 0)
    <3>1. M \in SUBSET (1 .. k)
      BY <1>2
    <3>2. MissGrows(M, s, g, k)
      BY <3>1, MissedNext
    <3> QED BY <3>2 DEF MissGrows
  <2>2. \A q \in pairs : (w = q[1] /\ z = q[2]) <=> q = <<w, z>>
    OBVIOUS
  <2>3. \A q \in pairs : (IF w = q[1] /\ z = q[2] THEN 1 ELSE 0) = (IF q = <<w, z>> THEN 1 ELSE 0)
    BY <2>2 DEF One
  <2> HIDE DEF w, z, n, pairs
  <2> QED BY <2>1, <2>3
<1>7. /\ \A x \in SetsOf(g) : x # z => HeldIn(d, g, x) = HeldIn(c, g, x)
      /\ own => HeldIn(d, g, z) = HeldIn(c, g, z)
      /\ HeldIn(d, g, z) \subseteq HeldIn(c, g, z) \cup {b}
  <2>1. CASE own
    BY <1>3, <2>1 DEF HeldIn
  <2>2. CASE ~own
    <3>1. PICK v : WayFilled(c, d, z, v, b)
      BY <1>3, <2>2 DEF WayFilled
    <3> HIDE DEF b, z, c, d
    <3>0. z \in SetsOf(g) /\ HotCache(c, g)
      BY <1>1, <1>2
    <3>2. HeldGrows(c, d, g, z, b)
      BY <3>0, <3>1, HeldInFilled
    <3> QED BY <2>2, <3>2 DEF HeldGrows
  <2> QED BY <2>1, <2>2
<1>8. \A q \in pairs : IsFiniteSet(A[q]) /\ q[2] \in SetsOf(g) /\ q[1] \in Nat
  BY AskedFinite
<1>9. \A x : IsFiniteSet(HeldIn(c, g, x)) /\ Cardinality(HeldIn(d, g, x)) <= g.ways /\ Cardinality(HeldIn(d, g, x)) \in Nat
  BY <1>0, HeldInIsSmall
<1>10. (n \div g.window) \in Nat /\ n \div g.window >= w
  <2>1. k <= n
    OBVIOUS
  <2>2. w <= n \div g.window /\ n \div g.window \in Nat
    BY <1>0, <2>1, WindowsOrdered, Division
  <2> QED BY <1>1, <2>2
<1>11. \A q \in pairs : q[1] > w => A2[q] = {} /\ A[q] = {}
  <2>1. \A q \in pairs : q[1] > w => A2[q] = {}
    BY AskedLater
  <2> QED BY <1>1, <2>1
<1> HIDE DEF A, A2, w, z, c, d, M2, n, b, pairs
<1>12. M2 \in SUBSET (1 .. n) /\ d.n["misses"] = Cardinality(M2)
  <2>1. M \in SUBSET (1 .. n)
    BY <1>4
  <2>2. CASE own
    BY <1>2, <1>3, <1>4, <2>1, <2>2 DEF M2, One
  <2>3. CASE ~own
    BY <1>2, <1>3, <1>4, <2>3 DEF M2, One
  <2> QED BY <2>2, <2>3
<1>13. h2.perSet \in [SetsOf(g) -> Nat] /\ \A x \in SetsOf(g) : h2.perSet[x] = Cardinality(MissedIn(M2, s, g, x))
  <2>1. CASE own
    BY <1>2, <1>3, <2>1 DEF M2
  <2>2. CASE ~own
    <3>1. h2.perSet = [h.perSet EXCEPT ![z] = h.perSet[z] + 1] /\ M2 = M \cup {n}
      BY <1>3, <2>2 DEF M2
    <3> DEFINE f == h.perSet
               f2 == h2.perSet
    <3>2. f \in [SetsOf(g) -> Nat] /\ f2 = [f EXCEPT ![z] = f[z] + 1] /\ z \in SetsOf(g)
      BY <1>1, <1>2, <3>1
    <3>3. \A x \in SetsOf(g) : f[x] = Cardinality(MissedIn(M, s, g, x))
      BY <1>2
    <3> HIDE DEF f, f2
    <3>4. f2 \in [SetsOf(g) -> Nat]
      BY <3>2
    <3>5. ASSUME NEW x \in SetsOf(g) PROVE f2[x] = Cardinality(MissedIn(M2, s, g, x))
      <4>1. Cardinality(MissedIn(M2, s, g, x)) = Cardinality(MissedIn(M, s, g, x)) + (IF z = x THEN 1 ELSE 0)
        BY <1>5, <3>1
      <4>2. f[x] = Cardinality(MissedIn(M, s, g, x)) /\ f[x] \in Nat
        BY <3>2, <3>3
      <4>3. f2[x] = f[x] + (IF z = x THEN 1 ELSE 0)
        BY <3>2, <4>2 DEF One
      <4> QED BY <4>1, <4>2, <4>3
    <3> QED BY <3>4, <3>5 DEF f2
  <2> QED BY <2>1, <2>2
<1>14. ASSUME NEW q \in pairs
       PROVE  /\ Cardinality(A2[q]) <= g.ways + Cardinality(Missed(M2, s, g, q))
              /\ q[1] >= w => Cardinality(A2[q] \cup HeldIn(d, g, q[2])) <= g.ways + Cardinality(Missed(M2, s, g, q))
  <2> DEFINE m == Cardinality(Missed(M, s, g, q))
             m2 == Cardinality(Missed(M2, s, g, q))
             U == A[q] \cup HeldIn(c, g, q[2])
             U2 == A2[q] \cup HeldIn(d, g, q[2])
             ways == g.ways
  <2>0. m \in Nat /\ m2 = m + (IF ~own /\ q = <<w, z>> THEN 1 ELSE 0) /\ ways \in Nat
    <3>1. own => m2 = m
      BY DEF M2
    <3>2. ~own => m2 = m + (IF q = <<w, z>> THEN 1 ELSE 0)
      BY <1>6 DEF M2
    <3> HIDE DEF m2, m
    <3>3. m \in Nat
      BY <1>6 DEF m
    <3> QED BY <1>0, <3>1, <3>2, <3>3 DEF One
  <2>1. IsFiniteSet(A[q]) /\ Cardinality(A[q]) \in Nat /\ Cardinality(A[q]) <= ways + m
    BY <1>2, <1>8, OneLarger
  <2>2. IsFiniteSet(U) /\ Cardinality(U) \in Nat
    <3>1. IsFiniteSet(U)
      BY <1>8, <1>9, FS_Union
    <3> HIDE DEF U
    <3> QED BY <3>1, FS_CardinalityType
  <2>3. q[1] >= w => Cardinality(U) <= ways + m
    BY <1>2
  <2>4. A2[q] = A[q] \cup (IF q = <<w, z>> THEN {b} ELSE {})
    BY <1>1
  <2>5. /\ q = <<w, z>> => q[1] = w /\ q[2] = z
        /\ q # <<w, z>> /\ q[1] >= w => q[1] > w \/ q[2] # z
    BY <1>1, <1>8 DEF pairs
  <2> HIDE DEF m, m2, ways
  <2>6. CASE q = <<w, z>> /\ own
    <3>1. A2[q] \subseteq U /\ U2 \subseteq U
      BY <1>7, <2>4, <2>5, <2>6 DEF own
    <3> HIDE DEF U, U2
    <3>2. Cardinality(A2[q]) <= Cardinality(U) /\ Cardinality(U2) <= Cardinality(U)
          /\ Cardinality(A2[q]) \in Nat /\ Cardinality(U2) \in Nat
      BY <2>2, <3>1, OneLarger
    <3>3. Cardinality(U) <= ways + m /\ m2 = m
      <4>1. q[1] >= w
        BY <1>1, <2>5, <2>6
      <4> QED BY <2>0, <2>3, <2>6, <4>1 DEF One
    <3>4. Cardinality(A2[q]) <= ways + m2 /\ Cardinality(U2) <= ways + m2
      BY <2>0, <2>2, <3>2, <3>3
    <3> QED BY <3>4 DEF m2, U2, ways
  <2>7. CASE q = <<w, z>> /\ ~own
    <3>1. A2[q] \subseteq A[q] \cup {b} /\ U2 \subseteq U \cup {b}
      BY <1>7, <2>4, <2>5, <2>7
    <3> HIDE DEF U, U2
    <3>2. Cardinality(A2[q]) <= Cardinality(A[q]) + 1 /\ Cardinality(A2[q]) \in Nat
      BY <2>1, <3>1, OneLarger
    <3>3. Cardinality(U2) <= Cardinality(U) + 1 /\ Cardinality(U2) \in Nat
      BY <2>2, <3>1, OneLarger
    <3>4. Cardinality(U) <= ways + m /\ m2 = m + 1
      <4>1. q[1] >= w
        BY <1>1, <2>5, <2>7
      <4> QED BY <2>0, <2>3, <2>7, <4>1 DEF One
    <3>5. Cardinality(A2[q]) <= ways + m2 /\ Cardinality(U2) <= ways + m2
      BY <2>0, <2>1, <2>2, <3>2, <3>3, <3>4
    <3> QED BY <3>5 DEF m2, U2, ways
  <2>8. CASE q # <<w, z>>
    <3>1. A2[q] = A[q] /\ m2 = m
      BY <2>0, <2>4, <2>8 DEF One
    <3>2. q[1] >= w => Cardinality(U2) <= ways + m
      <4>1. CASE q[2] # z
        <5>1. U2 = U
          BY <1>7, <1>8, <3>1, <4>1
        <5> HIDE DEF U, U2
        <5> QED BY <2>3, <5>1
      <4>2. CASE q[1] > w
        <5>1. U2 = HeldIn(d, g, q[2])
          BY <1>11, <4>2
        <5>2. Cardinality(U2) \in Nat /\ Cardinality(U2) <= ways
          BY <1>9, <5>1 DEF ways
        <5> HIDE DEF U2
        <5> QED BY <2>0, <5>2
      <4> HIDE DEF U, U2
      <4> QED BY <2>5, <2>8, <4>1, <4>2
    <3> HIDE DEF U, U2
    <3>3. Cardinality(A2[q]) <= ways + m2 /\ (q[1] >= w => Cardinality(U2) <= ways + m2)
      BY <2>1, <3>1, <3>2
    <3> QED BY <3>3 DEF m2, U2, ways
  <2> QED BY <2>6, <2>7, <2>8
<1>15. \A q \in pairs : q[1] >= n \div g.window => q[1] >= w
  <2>1. \A x, y, u \in Nat : x >= y /\ y >= u => x >= u
    OBVIOUS
  <2> QED BY <1>1, <1>8, <1>10, <2>1
<1>16. \A q \in pairs :
         /\ Cardinality(A2[q]) <= g.ways + Cardinality(Missed(M2, s, g, q))
         /\ q[1] >= n \div g.window =>
              Cardinality(A2[q] \cup HeldIn(d, g, q[2])) <= g.ways + Cardinality(Missed(M2, s, g, q))
  BY <1>14, <1>15
<1>17. HotIs(h2, s, g, n, M2)
  BY <1>3, <1>12, <1>13, <1>16 DEF HotIs, d, A2, pairs
<1> QED BY <1>17 DEF n

\* The first k references are to blocks, which are numbers.
Numbers(s, k) == \A n \in 1 .. k : s[n] \in Nat

\* Among the first k + 1 windows, pairs whose set is asked for more than fits.
OverAsked(over, A, g, k) ==
  over \in SUBSET ((0 .. k) \X SetsOf(g)) /\ \A q \in over : Cardinality(A[q]) > g.ways

\* What the tallies say of the figures.
TalliesBear(h, A, over, g) ==
  /\ h.cache.n["misses"] >= Fns!SumFunction([q \in over |-> Cardinality(A[q]) - g.ways])
  /\ h.cache.n["misses"] = Fns!SumFunction(h.perSet)
  /\ \A n \in 1 .. 4 :
       TopMisses(h.perSet, <<n, 4>>) * g.sets >= TopSets(<<n, 4>>, g.sets) * h.cache.n["misses"]

\* The tallies of hot_sets, as they are reported.
LEMMA HotReported ==
  ASSUME NEW s, NEW g, GeometryFull(g), NEW k \in Nat, Numbers(s, k), NEW h, NEW M, HotIs(h, s, g, k, M),
         NEW A, A = AskedIn(s, g, k), NEW over, OverAsked(over, A, g, k)
  PROVE  TalliesBear(h, A, over, g)
<1> DEFINE S == SetsOf(g)
           v == h.perSet
           paid == h.cache.n["misses"]
<1>1. /\ v \in [S -> Nat] /\ M \in SUBSET (1 .. k) /\ paid = Cardinality(M)
      /\ \A x \in S : v[x] = Cardinality(MissedIn(M, s, g, x))
      /\ \A q \in Nat \X S : Cardinality(A[q]) <= g.ways + Cardinality(Missed(M, s, g, q))
  BY DEF HotIs
<1>2. /\ g.sets \in Nat \ {0} /\ g.ways \in Nat \ {0} /\ S \in SUBSET Nat
      /\ IsFiniteSet(S) /\ Cardinality(S) = g.sets
  <2>1. g.sets \in Nat \ {0} /\ g.ways \in Nat \ {0}
    BY DEF GeometryFull, GeometryOK
  <2>2. IsFiniteSet(0 .. g.sets - 1) /\ Cardinality(0 .. g.sets - 1) = g.sets
    <3>1. PICK n \in Nat \ {0} : n = g.sets
      BY <2>1
    <3>2. IsFiniteSet(0 .. n - 1) /\ Cardinality(0 .. n - 1) = n
      <4>1. 0 \in Int /\ n - 1 \in Int /\ 0 <= n - 1 /\ (n - 1) - 0 + 1 = n
        BY <3>1
      <4> QED BY <4>1, FS_Interval
    <3> QED BY <3>1, <3>2
  <2> QED BY <2>1, <2>2 DEF SetsOf
<1>3. IsFiniteSet(M) /\ paid \in Nat
  <2>1. IsFiniteSet(1 .. k)
    BY FS_Interval
  <2> QED BY <1>1, <2>1, FS_Subset, FS_CardinalityType
<1>4. \A n \in M : s[n] % g.sets \in S
  <2>1. \A n \in M : s[n] \in Nat
    BY <1>1 DEF Numbers
  <2>2. \A x \in Nat : x % g.sets \in 0 .. g.sets - 1
    BY <1>2
  <2> QED BY <2>1, <2>2 DEF SetsOf
<1>5. paid = SumOver(v, S)
  <2> DEFINE of == [x \in S |-> MissedIn(M, s, g, x)]
  <2>1. \A x \in S : IsFiniteSet(of[x]) /\ v[x] = Cardinality(of[x])
    <3> SUFFICES ASSUME NEW x \in S PROVE IsFiniteSet(of[x]) /\ v[x] = Cardinality(of[x])
      OBVIOUS
    <3>1. MissedIn(M, s, g, x) \in SUBSET M
      BY DEF MissedIn
    <3>2. IsFiniteSet(MissedIn(M, s, g, x))
      BY <1>3, <3>1, FS_Subset
    <3> QED BY <1>1, <3>2
  <2>2. \A x, y \in S : x # y => of[x] \cap of[y] = {}
    BY DEF MissedIn
  <2>3. AllOf(of, S) = M
    BY <1>4 DEF AllOf, MissedIn
  <2> HIDE DEF of, v, S, paid
  <2>4. Counts(v, of, S)
    BY <1>2, <2>1, <2>2 DEF Counts
  <2>5. SumOver(v, S) = Cardinality(AllOf(of, S))
    BY <2>4, SumCounts
  <2> QED BY <1>1, <2>3, <2>5
<1>6. Fns!SumFunction(v) = SumOver(v, S)
  BY <1>1 DEF Fns!SumFunction, SumOver
<1>7. \A n \in 1 .. 4 : TopMisses(v, <<n, 4>>) * g.sets >= TopSets(<<n, 4>>, g.sets) * paid
  <2> HIDE DEF v, S, paid
  <2> SUFFICES ASSUME NEW n \in 1 .. 4
               PROVE  TopMisses(v, <<n, 4>>) * g.sets >= TopSets(<<n, 4>>, g.sets) * paid
    OBVIOUS
  <2>1. g.sets # 0 /\ g.sets = Cardinality(S)
    BY <1>2
  <2>2. TopMisses(v, <<n, 4>>) * g.sets >= TopSets(<<n, 4>>, g.sets) * SumOver(v, S)
    BY <1>1, <1>2, <2>1, TopHasShare
  <2> QED BY <1>5, <2>2
<1>8. paid >= Fns!SumFunction([q \in over |-> Cardinality(A[q]) - g.ways])
  <2> DEFINE f == [q \in over |-> Cardinality(A[q]) - g.ways]
             of == [q \in over |-> Missed(M, s, g, q)]
             cost == [q \in over |-> Cardinality(Missed(M, s, g, q))]
  <2>1. IsFiniteSet(over)
    <3>1. IsFiniteSet(0 .. k)
      BY FS_Interval
    <3> DEFINE P == (0 .. k) \X S
    <3>2. IsFiniteSet(P)
      BY <1>2, <3>1, FS_Product
    <3>3. over \in SUBSET P
      BY DEF OverAsked
    <3> HIDE DEF P
    <3> QED BY <3>2, <3>3, FS_Subset
  <2>2. \A q \in over : IsFiniteSet(of[q]) /\ cost[q] = Cardinality(of[q]) /\ cost[q] \in Nat
    <3> SUFFICES ASSUME NEW q \in over PROVE IsFiniteSet(of[q]) /\ cost[q] = Cardinality(of[q]) /\ cost[q] \in Nat
      OBVIOUS
    <3>1. Missed(M, s, g, q) \in SUBSET M
      BY DEF Missed
    <3>2. IsFiniteSet(Missed(M, s, g, q)) /\ Cardinality(Missed(M, s, g, q)) \in Nat
      BY <1>3, <3>1, FS_Subset, FS_CardinalityType
    <3> QED BY <3>2
  <2>3. \A q \in over : f[q] \in Nat /\ f[q] <= cost[q]
    <3> SUFFICES ASSUME NEW q \in over PROVE f[q] \in Nat /\ f[q] <= cost[q]
      OBVIOUS
    <3>1. q \in Nat \X SetsOf(g)
      BY DEF OverAsked
    <3>2. IsFiniteSet(A[q])
      BY <3>1, AskedFinite
    <3>3. Cardinality(A[q]) \in Nat /\ Cardinality(A[q]) > g.ways
      BY <3>2, FS_CardinalityType DEF OverAsked
    <3>4. Cardinality(A[q]) <= g.ways + cost[q] /\ cost[q] \in Nat
      BY <1>1, <2>2, <3>1
    <3>5. f[q] = Cardinality(A[q]) - g.ways
      OBVIOUS
    <3> HIDE DEF f, cost
    <3> QED BY <1>2, <3>3, <3>4, <3>5
  <2>4. \A q, r \in over : q # r => of[q] \cap of[r] = {}
    <3> SUFFICES ASSUME NEW q \in over, NEW r \in over, q # r PROVE of[q] \cap of[r] = {}
      OBVIOUS
    <3>1. q[1] # r[1] \/ q[2] # r[2]
      BY DEF OverAsked
    <3> QED BY <3>1 DEF Missed
  <2>5. AllOf(of, over) \subseteq M
    BY DEF AllOf, Missed
  <2>6. Fns!SumFunction(f) = SumOver(f, over)
    BY DEF Fns!SumFunction, SumOver
  <2> HIDE DEF f, of, cost, paid
  <2>7. Counts(cost, of, over) /\ Summable(f, over) /\ Summable(cost, over)
    BY <2>1, <2>2, <2>3, <2>4 DEF Counts, Summable
  <2>8. SumOver(f, over) <= SumOver(cost, over)
    BY <2>3, <2>7, SumAtMost
  <2>9. SumOver(cost, over) = Cardinality(AllOf(of, over)) /\ IsFiniteSet(AllOf(of, over))
    BY <2>7, SumCounts
  <2>10. Cardinality(AllOf(of, over)) <= paid /\ Cardinality(AllOf(of, over)) \in Nat
    BY <1>1, <1>3, <2>5, FS_Subset, FS_CardinalityType
  <2>11. SumOver(f, over) \in Nat
    BY <2>7, SumAdds
  <2>12. paid >= Fns!SumFunction(f)
    BY <1>3, <2>6, <2>8, <2>9, <2>10, <2>11
  <2> QED BY <2>12 DEF f
<1> HIDE DEF v, paid
<1>9. paid >= Fns!SumFunction([q \in over |-> Cardinality(A[q]) - g.ways]) /\ paid = Fns!SumFunction(v)
  BY <1>5, <1>6, <1>8
<1> QED BY <1>7, <1>9 DEF v, paid, TalliesBear

-----------------------------------------------------------------------------

\* The tallies are about the references handled.
WindowInv ==
  /\ geometry \in Geometries
  /\ PressureIs(pressure, blocks, geometry, i - 1)
  /\ \E M : HotIs(hot, blocks, geometry, i - 1, M)

\* The geometries of the runs are such.
LEMMA GeometriesFull == \A g \in Geometries : GeometryFull(g)
BY GeometriesAssumption DEF GeometryFull, GeometryOK

\* It holds at the start, when no reference has been handled.
LEMMA WindowInit == Init => WindowInv
<1> SUFFICES ASSUME Init PROVE WindowInv
  OBVIOUS
<1>1. geometry \in Geometries /\ i = 1 /\ hot = HotSets(geometry) /\ pressure = NoPressure
  BY DEF Init, InitOpt
<1>2. GeometryFull(geometry) /\ i - 1 = 0
  BY <1>1, GeometriesFull
<1>3. PressureIs(pressure, blocks, geometry, 0)
  BY <1>1, <1>2, PressureFresh
<1>4. HotIs(hot, blocks, geometry, 0, {})
  BY <1>1, <1>2, HotFresh
<1> QED BY <1>1, <1>2, <1>3, <1>4 DEF WindowInv

\* Every step keeps it: those that end a reference add it to both tallies.
LEMMA WindowStep == Inv /\ WindowInv /\ [Next]_vars => WindowInv'
<1> SUFFICES ASSUME Inv, WindowInv, [Next]_vars PROVE WindowInv'
  OBVIOUS
<1>1. ASSUME Hit \/ FillFree \/ Install, Measure PROVE WindowInv'
  <2>1. i' = i + 1 /\ blocks' = blocks
    BY <1>1 DEF Hit, FillFree, Install, Record
  <2>2. /\ geometry' = geometry /\ hot' = HotAccess(hot, blocks[i], FALSE)
        /\ pressure' = WindowAccess(pressure, geometry.sets, geometry.ways, geometry.window, blocks[i])
    BY <1>1 DEF Measure
  <2>3. blocks \in Seq(Blocks) /\ i \in 1 .. Len(blocks)
    BY <1>1 DEF Inv, TypeOK, Hit, FillFree, Install, Begin
  <2>4. GeometryFull(geometry) /\ geometry \in Geometries
    BY GeometriesFull DEF WindowInv
  <2>5. PICK k \in Nat : k = i - 1 /\ k + 1 = i
    BY <2>3
  <2>6. blocks[k + 1] \in Blocks /\ blocks[k + 1] \in Nat
    <3>1. blocks[i] \in Blocks
      BY <2>3
    <3> QED BY <2>5, <3>1, BlocksAssumption
  <2>7. PressureIs(pressure, blocks, geometry, k)
    BY <2>5 DEF WindowInv
  <2>8. PICK M : HotIs(hot, blocks, geometry, k, M)
    BY <2>5 DEF WindowInv
  <2>9. PressureIs(WindowAccess(pressure, geometry.sets, geometry.ways, geometry.window, blocks[k + 1]), blocks, geometry, k + 1)
    BY <2>4, <2>6, <2>7, PressureNext
  <2>10. PICK h2 : h2 = HotAccess(hot, blocks[k + 1], FALSE)
    OBVIOUS
  <2>11. \E M2 : HotIs(h2, blocks, geometry, k + 1, M2)
    BY <2>4, <2>6, <2>8, <2>10, HotNext
  <2>12. i' - 1 = k + 1 /\ hot' = h2
    <3>1. i' - 1 = k + 1
      BY <2>1, <2>3, <2>5
    <3>2. hot' = h2
      BY <2>2, <2>5, <2>10
    <3> QED BY <3>1, <3>2
  <2>13. PressureIs(pressure', blocks', geometry', i' - 1)
    BY <2>1, <2>2, <2>5, <2>9, <2>12
  <2>14. \E M2 : HotIs(hot', blocks', geometry', i' - 1, M2)
    BY <2>1, <2>2, <2>11, <2>12
  <2> QED BY <2>2, <2>4, <2>13, <2>14 DEF WindowInv
<1>2. CASE UNCHANGED <<blocks, i, geometry, hot, pressure>>
  BY <1>2 DEF WindowInv
<1>3. CASE (MissFull \/ PopStale \/ PopVictim) /\ UNCHANGED measureVars
  BY <1>2, <1>3 DEF MissFull, PopStale, PopVictim, Popping, measureVars
<1>4. CASE UNCHANGED vars
  BY <1>2, <1>4 DEF vars, optVars, measureVars
<1> QED BY <1>1, <1>3, <1>4 DEF Next

\* setpressure.py:292: the figures reported after any number of accesses are those of
\* the windows by definition, and the tallies of hot_sets bear them out.
THEOREM WindowsAreByDefinition == Spec => []WindowsByDefinition
<1>1. ASSUME Inv, WindowInv PROVE WindowsByDefinition
  <2> DEFINE k == i - 1
             g == geometry
             A == AskedIn(blocks, g, k)
             pairs == {q \in (0 .. k) \X SetsOf(g) : A[q] # {}}
             over == {q \in pairs : Cardinality(A[q]) > g.ways}
             p == CloseWindow(pressure, g.ways)
  <2>1. k \in Nat /\ GeometryFull(g) /\ Numbers(blocks, k)
    <3>1. blocks \in Seq(Blocks) /\ i \in Nat \ {0} /\ i - 1 <= Len(blocks)
      BY <1>1 DEF Inv, TypeOK
    <3>2. \A n \in 1 .. i - 1 : blocks[n] \in Blocks
      BY <3>1
    <3>3. Numbers(blocks, i - 1)
      BY <3>2, BlocksAssumption DEF Numbers
    <3>4. i - 1 \in Nat
      BY <3>1
    <3>5. GeometryFull(geometry)
      BY <1>1, GeometriesFull DEF WindowInv
    <3> QED BY <3>3, <3>4, <3>5
  <2>2. \A w \in 0 .. k, x \in SetsOf(g) : Asked(w, x) = A[<<w, x>>]
    BY DEF Asked, AskedIn, Handled
  <2>3. \A q \in (0 .. k) \X SetsOf(g) : Asked(q[1], q[2]) = A[q]
    BY <2>2
  <2>4. /\ pairs = {q \in (0 .. i - 1) \X SetsOf(geometry) : Asked(q[1], q[2]) # {}}
        /\ over = {q \in pairs : Cardinality(Asked(q[1], q[2])) > geometry.ways}
        /\ [q \in pairs |-> Cardinality(A[q])] = [q \in pairs |-> Cardinality(Asked(q[1], q[2]))]
        /\ [q \in over |-> Cardinality(A[q]) - g.ways]
             = [q \in over |-> Cardinality(Asked(q[1], q[2])) - geometry.ways]
        /\ {Cardinality(A[q]) : q \in pairs} = {Cardinality(Asked(q[1], q[2])) : q \in pairs}
    <3> HIDE DEF A
    <3> QED BY <2>3
  <2>5. OverAsked(over, A, g, k)
    BY DEF OverAsked
  <2>6. PressureIs(pressure, blocks, g, k)
    BY <1>1 DEF WindowInv
  <2>7. PICK M : HotIs(hot, blocks, g, k, M)
    BY <1>1 DEF WindowInv
  <2>8. pairs = {q \in (0 .. k) \X SetsOf(g) : A[q] # {}} /\ over = {q \in pairs : Cardinality(A[q]) > g.ways}
        /\ A = AskedIn(blocks, g, k) /\ p = CloseWindow(pressure, g.ways)
    OBVIOUS
  <2> HIDE DEF k, g, A, pairs, over, p
  <2>9. Reported(p, A, pairs, over, k)
    BY <2>1, <2>6, <2>8, PressureReported
  <2>10. TalliesBear(hot, A, over, g)
    BY <2>1, <2>5, <2>7, <2>8, HotReported
  <2>11. p = CloseWindow(pressure, geometry.ways) /\ k = i - 1 /\ g = geometry
    BY <2>8 DEF k, g
  <2> QED BY <2>4, <2>9, <2>10, <2>11 DEF WindowsByDefinition, Reported, TalliesBear
<1>2. Init => Inv /\ WindowInv
  BY BestInit, WindowInit
<1>3. Inv /\ WindowInv /\ [Next]_vars => Inv' /\ WindowInv'
  BY StepOpt, StepInv, WindowStep
<1> QED BY <1>1, <1>2, <1>3, PTL DEF Spec
===============================================================================
