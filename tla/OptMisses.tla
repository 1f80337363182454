------------------------------- MODULE OptMisses -------------------------------
(***************************************************************************)
(* opt_misses of cachesim/opt.py: the misses of Belady's policy in a       *)
(* fully-associative cache, with a heap of next uses whose entries go      *)
(* stale and are thrown away when they surface.                            *)
(***************************************************************************)
EXTENDS Belady, FiniteSets

CONSTANTS
  Blocks,    \* the block numbers referenced
  Streams    \* the streams of block numbers a caller passes

ASSUME BlocksAssumption == Blocks \subseteq Nat
ASSUME StreamsAssumption == Streams \subseteq Seq(Blocks)

VARIABLES
  blocks,    \* the stream
  capacity,  \* blocks the cache holds
  i,         \* the reference being handled
  pc,        \* "next", "pop" (the loop over the heap) or "install"
  resident,  \* resident: block -> its next use
  heap,      \* heap: pairs [use, block]
  misses     \* misses

optVars == <<blocks, capacity, i, pc, resident, heap, misses>>

\* Mutant of Top: the heap is keyed by the use itself, not by its negative.
Nearest == CHOOSE e \in heap : \A f \in heap : e.use < f.use \/ (e.use = f.use /\ e.block <= f.block)

\* heappop: the farthest use first, and the smaller block number among equals.
Top == CHOOSE e \in heap : \A f \in heap : e.use > f.use \/ (e.use = f.use /\ e.block <= f.block)

\* The entry gives the next use its block has now.
Live(e) == e.block \in DOMAIN resident /\ resident[e.block] = e.use

InitOpt(stream, size) ==
  /\ blocks = stream /\ capacity = size
  /\ i = 1 /\ pc = "next"
  /\ resident = << >> /\ heap = {} /\ misses = 0

Full == Cardinality(DOMAIN resident) = capacity

Begin == pc = "next" /\ i <= Len(blocks)

\* Mutant of Record: a hit stores the new next use and pushes nothing.
RecordUnpushed ==
  /\ resident' = [b \in DOMAIN resident \cup {blocks[i]} |->
                    IF b = blocks[i] THEN NextUse(blocks, i) ELSE resident[b]]
  /\ heap' = heap \cup (IF blocks[i] \in DOMAIN resident THEN {}
                        ELSE {[use |-> NextUse(blocks, i), block |-> blocks[i]]})
  /\ i' = i + 1 /\ pc' = "next"
  /\ UNCHANGED <<blocks, capacity>>

\* resident[block] = next_use; heappush(...).
Record ==
  /\ resident' = [b \in DOMAIN resident \cup {blocks[i]} |->
                    IF b = blocks[i] THEN NextUse(blocks, i) ELSE resident[b]]
  /\ heap' = heap \cup {[use |-> NextUse(blocks, i), block |-> blocks[i]]}
  /\ i' = i + 1 /\ pc' = "next"
  /\ UNCHANGED <<blocks, capacity>>

Hit == Begin /\ blocks[i] \in DOMAIN resident /\ Record /\ UNCHANGED misses

FillFree == Begin /\ blocks[i] \notin DOMAIN resident /\ ~Full /\ Record /\ misses' = misses + 1

MissFull ==
  /\ Begin /\ blocks[i] \notin DOMAIN resident /\ Full
  /\ misses' = misses + 1 /\ pc' = "pop"
  /\ UNCHANGED <<blocks, capacity, i, resident, heap>>

\* heappop of an empty heap would raise.
Popping == pc = "pop" /\ heap # {} /\ heap' = heap \ {Top} /\ UNCHANGED <<blocks, capacity, i, misses>>

PopStale == Popping /\ ~Live(Top) /\ UNCHANGED <<pc, resident>>

PopVictim ==
  /\ Popping /\ Live(Top)
  /\ resident' = [b \in DOMAIN resident \ {Top.block} |-> resident[b]]
  /\ pc' = "install"

Install == pc = "install" /\ Record /\ UNCHANGED misses

NextOpt == Hit \/ FillFree \/ MissFull \/ PopStale \/ PopVictim \/ Install

InitOptMisses == \E stream \in Streams, size \in Nat \ {0} : InitOpt(stream, size)

SpecOpt == InitOptMisses /\ [][NextOpt]_optVars

-----------------------------------------------------------------------------

Entries == [use : Nat \ {0}, block : Blocks]

TypeOK ==
  /\ blocks \in Seq(Blocks) /\ capacity \in Nat \ {0}
  /\ i \in 1 .. Len(blocks) + 1
  /\ pc \in {"next", "pop", "install"} /\ (pc # "next" => i <= Len(blocks))
  /\ DOMAIN resident \subseteq Blocks /\ resident \in [DOMAIN resident -> Nat \ {0}]
  /\ heap \subseteq Entries /\ misses \in Nat

\* opt.py:99 "pop until a live entry surfaces": one always does, so heappop never
\* meets an empty heap. The live entry of every resident block is in the heap, stale
\* entries only come on top of them.
HeapHoldsResidents ==
  /\ \A b \in DOMAIN resident : [use |-> resident[b], block |-> b] \in heap
  /\ pc = "pop" => heap # {}

\* opt.py:101: however many stale entries surface first, the block evicted is a
\* resident block whose next use is the farthest of all resident blocks.
EvictsFarthest ==
  [][\A v \in DOMAIN resident \ DOMAIN resident' :
       /\ \A b \in DOMAIN resident : resident[b] <= resident[v]
       /\ \A n \in i .. resident[v] - 1 : blocks[n] # v]_optVars
===============================================================================
