-------------------------- MODULE HierarchyPolicies --------------------------
(***************************************************************************)
(* What the level policies guarantee, for every number of levels and       *)
(* geometry.                                                               *)
(*                                                                         *)
(*   ExclusionIsKept   an exclusive level shares no block with the level   *)
(*                     above it;                                           *)
(*   ConservedBesideExclusion   where it does not, the results of the      *)
(*                     modules extended hold with victim buffers at the    *)
(*                     exclusive levels too;                               *)
(*   WriteThroughStaysClean   a write-through level has no dirty line.     *)
(*                                                                         *)
(* The exclusive levels below a level form a chain with it.  A block a     *)
(* level of a chain evicts goes to the next one, so no two levels of a     *)
(* chain may share a block, adjacent or not (ChainsDisjoint).  Only a fill *)
(* brings a block into a chain, at its top, and the block is nowhere in    *)
(* the chain then (FetchClear): the levels above the one that hit missed   *)
(* it (Missed), and an exclusive level that hit hands it up.  What the     *)
(* fill evicts falls down the chain, one line at a time (EvictsInChain).   *)
(*                                                                         *)
(* A write-through level is clean by an invariant of its own, CleanInv: it *)
(* needs no other result than the type invariant.                          *)
(***************************************************************************)
EXTENDS HierarchyInclusion

-----------------------------------------------------------------------------
(* The inductive invariant of exclusion.                                   *)

\* The levels below level a, down to level e, are exclusive.
Chained(a, e) == a < e /\ \A j \in Levels : a < j /\ j <= e => Exclusive(j)

\* Block b is in no exclusive level chained to level a.
ClearBelow(a, b) == \A e \in Levels : Chained(a, e) => b \notin Held(e)

ChainsDisjoint == \A a \in Levels : \A b \in Held(a) : ClearBelow(a, b)

NoEvicts(stack) == \A t \in Calls(stack) : t.op # "evict"

\* A line on its way into an exclusive level fell out of the chain of the level
\* just filled, and left no copy there.
FellFrom(top, t) ==
  /\ top \in Levels /\ ~Exclusive(top)
  /\ t.level = top \/ Chained(top, t.level)
  /\ t.line.block \notin Held(top) /\ ClearBelow(top, t.line.block)
  /\ t.line.block # fetch.block /\ ClearBelow(top, fetch.block)

EvictsInChain ==
  /\ work # << >> => NoEvicts(Tail(work))
  /\ \A t \in Calls(work) : t.op = "evict" /\ Exclusive(t.level + 1) =>
       pc \in {"fill", "prefetch"} /\ FellFrom(fetch.at + 1, t)

\* The levels above the one that hits do not have the block.
Missed ==
  /\ pc = "probe" => \A k \in Levels : k < req.level => req.block \notin Held(k)
  /\ pc = "settle" => \A k \in Levels : k < req.hit => req.block \notin Held(k)
  /\ pc = "issue" => fetch.block \notin Held(fetch.to)

\* No exclusive level is filled.
PlainFills ==
  /\ pc = "probe" /\ req.taken >= 0 => ~Exclusive(req.taken)
  /\ pc = "settle" /\ req.taken >= 0 => req.taken = req.hit \/ ~Exclusive(req.taken)
  /\ pc \in {"move", "fill"} /\ fetch.keep >= 0 => fetch.at < fetch.keep \/ ~Exclusive(fetch.keep)
  /\ pc \in {"issue", "prefetch"} => ~Exclusive(fetch.keep)

ToFill(i) == fetch.to <= i /\ i <= fetch.at /\ ~Exclusive(i)

\* The chains of the levels to fill do not have the block, but for the level it
\* is about to move up from.
FetchClear ==
  /\ pc \in {"fill", "prefetch"} => \A i \in Levels : ToFill(i) => ClearBelow(i, fetch.block)
  /\ pc = "move" => \A i, e \in Levels : ToFill(i) /\ Chained(i, e) /\ e # req.hit
                                           => fetch.block \notin Held(e)

ChainInv == ChainsDisjoint /\ EvictsInChain /\ Missed /\ PlainFills /\ FetchClear

ExclusionInv == InclusionInv /\ ChainInv

-----------------------------------------------------------------------------
(* Lemmas about chains.                                                    *)

\* A chain starts above an exclusive level and ends at one.
LEMMA ChainEnds ==
  ASSUME NEW a \in Levels, NEW e \in Levels, Chained(a, e)
  PROVE  Exclusive(e) /\ Exclusive(a + 1) /\ a # e
<1>1. /\ a < e /\ e <= e /\ a # e
      /\ a + 1 \in Levels /\ a < a + 1 /\ a + 1 <= e
  BY NAssumption DEF Chained, Levels
<1>2. \A j \in Levels : a < j /\ j <= e => Exclusive(j)
  BY DEF Chained
<1> QED
  BY <1>1, <1>2

\* Chains join, and part.
LEMMA ChainJoins ==
  ASSUME NEW a \in Levels, NEW i \in Levels, NEW e \in Levels
  PROVE  /\ Chained(a, i) /\ Chained(i, e) => Chained(a, e)
         /\ Chained(a, e) /\ a < i /\ i < e => Chained(a, i) /\ Chained(i, e)
         /\ Chained(a, i) /\ e = i + 1 /\ Exclusive(e) => Chained(a, e)
         /\ e = i + 1 /\ Exclusive(e) => Chained(i, e)
  BY DEF Chained, Levels

\* Chains lose blocks: what was disjoint stays so.
LEMMA ChainsShrink ==
  ASSUME \A e \in Levels : Exclusive(e) \/ Exclusive(e + 1) => Held(e)' \subseteq Held(e)
  PROVE  /\ ChainsDisjoint => ChainsDisjoint'
         /\ \A i \in Levels : \A b : ClearBelow(i, b) => ClearBelow(i, b)'
<1>1. ASSUME NEW i \in Levels, NEW b, ClearBelow(i, b)
      PROVE  ClearBelow(i, b)'
  <2> SUFFICES ASSUME NEW e \in Levels, Chained(i, e) PROVE b \notin Held(e)'
    BY DEF ClearBelow, Chained
  <2>1. Exclusive(e)
    BY ChainEnds
  <2> QED
    BY <1>1, <2>1 DEF ClearBelow
<1>2. ASSUME ChainsDisjoint
      PROVE  ChainsDisjoint'
  <2> SUFFICES ASSUME NEW a \in Levels, NEW b \in Held(a)', NEW e \in Levels, Chained(a, e)
               PROVE  b \notin Held(e)'
    BY DEF ChainsDisjoint, ClearBelow, Chained
  <2>1. Exclusive(e) /\ Exclusive(a + 1)
    BY ChainEnds
  <2>2. b \in Held(a)
    BY <2>1
  <2> QED
    BY <1>2, <2>1, <2>2 DEF ChainsDisjoint, ClearBelow
<1> QED
  BY <1>1, <1>2

LEMMA SameChains ==
  ASSUME \A e \in Levels : Held(e)' = Held(e)
  PROVE  /\ ChainsDisjoint => ChainsDisjoint'
         /\ \A i \in Levels : \A b : ClearBelow(i, b) => ClearBelow(i, b)'
  BY ChainsShrink

\* With no call on the stack there is nothing to say about evictions.
LEMMA NoCalls ==
  ASSUME work' = << >>
  PROVE  EvictsInChain'
  BY CallsOfNone DEF EvictsInChain

\* One write-back on the stack.
LEMMA OneWriteBack ==
  ASSUME NEW i \in 0 .. N, NEW line \in Line, work' = <<WriteBack(i, line)>>
  PROVE  EvictsInChain'
<1> PICK t \in Task : t = WriteBack(i, line)
  BY CallType
<1>1. Calls(work') = {t} /\ Tail(work') = << >>
  <2>1. Calls(<<t>>) = {<<t>>[n] : n \in {1}} /\ Tail(<<t>>) = << >>
    BY DEF Calls
  <2> QED
    BY <2>1
<1>2. t.op = "writeBack"
  BY CallFields
<1> QED
  BY <1>1, <1>2, CallsOfNone DEF EvictsInChain, NoEvicts

\* A call, once pushed, leaves those below it as they were.
LEMMA NoEvictsPush ==
  ASSUME NEW rest \in Seq(Task), NoEvicts(rest), NEW t \in Task
  PROVE  /\ NoEvicts(Tail(<<t>> \o rest))
         /\ rest # << >> => NoEvicts(Tail(rest))
<1>1. Tail(<<t>> \o rest) = rest
  OBVIOUS
<1>2. rest # << >> => Calls(Tail(rest)) \subseteq Calls(rest)
  BY CallsPop
<1> QED
  BY <1>1, <1>2 DEF NoEvicts

-----------------------------------------------------------------------------
(* The steps of access() that look for the block.                          *)

LEMMA BeginAccessChains ==
  ASSUME ExclusionInv, NEW b \in Blocks, NEW store \in BOOLEAN, BeginAccess(b, store)
  PROVE  ChainInv'
<1> USE DEF ExclusionInv, InclusionInv, ConservationInv
<1>1. /\ work' = << >> /\ UNCHANGED <<resident, buffer>> /\ pc' = "probe"
      /\ req'.level = 0 /\ req'.taken = -1
  BY DEF BeginAccess, contents, NoRequest, TypeInv, StackOK
<1>2. ChainsDisjoint'
  BY <1>1, HeldUnchanged, SameChains DEF ChainInv
<1>3. Missed' /\ PlainFills' /\ FetchClear'
  BY <1>1 DEF Missed, PlainFills, FetchClear, Levels
<1> QED
  BY <1>1, <1>2, <1>3, NoCalls DEF ChainInv

\* The level that hits is the first that has the block.
LEMMA HitAtChains ==
  ASSUME ExclusionInv, pc = "probe", NEW i \in Levels, i = req.level, req' = HitAt(i), pc' = "settle",
         work' = << >>, \A k \in Levels : Held(k)' = Held(k)
  PROVE  ChainInv'
<1> USE DEF ExclusionInv, InclusionInv, ConservationInv
<1>1. req \in Request
  BY DEF TypeInv, LocalsOK
<1>2. req'.block = req.block /\ req'.hit = i /\ (req'.taken = i \/ req'.taken = req.taken)
  BY <1>1 DEF HitAt, Request
<1>3. Missed'
  BY <1>2 DEF Missed, ChainInv
<1>4. PlainFills' /\ FetchClear'
  BY <1>2 DEF PlainFills, FetchClear, ChainInv
<1>5. ChainsDisjoint'
  BY SameChains DEF ChainInv
<1> QED
  BY <1>3, <1>4, <1>5, NoCalls DEF ChainInv

LEMMA ProbeHitChains ==
  ASSUME ExclusionInv, ProbeHit \/ ProbeVictimHit
  PROVE  ChainInv'
<1> USE DEF ExclusionInv, InclusionInv, ConservationInv
<1> PICK i \in Levels : i = req.level
  BY NAssumption DEF ProbeHit, ProbeVictimHit, TypeInv, LocalsOK, Request, Levels
<1>1. pc = "probe" /\ pc' = "settle" /\ req' = HitAt(i)
  BY DEF ProbeHit, ProbeVictimHit
<1>2. ProbeHit => work' = << >> /\ UNCHANGED <<resident, buffer>>
  BY DEF ProbeHit, TypeInv, StackOK
<1>3. work' = << >> /\ \A k \in Levels : Held(k)' = Held(k)
  BY <1>2, HeldUnchanged, VictimHitHeld
<1> QED
  BY <1>1, <1>3, HitAtChains

\* A level that takes a store it misses is not exclusive.
LEMMA ProbeMissChains ==
  ASSUME ExclusionInv, NeverAllocatesShared, ProbeMiss
  PROVE  ChainInv'
<1> USE DEF ExclusionInv, InclusionInv, ConservationInv
<1> PICK i \in Levels : i = req.level
  BY NAssumption DEF ProbeMiss, TypeInv, LocalsOK, Request, Levels
<1> DEFINE takes == req.write /\ WriteAllocate[i]
<1>1. /\ work' = << >> /\ UNCHANGED <<resident, buffer>> /\ ~Contains(i, req.block)
      /\ pc = "probe" /\ pc' = "probe" /\ req \in Request
      /\ req' = [req EXCEPT !.level = i + 1,
                            !.write = @ /\ ~takes,
                            !.taken = IF takes THEN i ELSE @,
                            !.fillFrom = IF takes THEN i ELSE @,
                            !.forward = IF takes /\ WriteThrough[i] THEN i + 1 ELSE @]
  BY DEF ProbeMiss, contents, TypeInv, StackOK, LocalsOK
<1>2. takes => ~Exclusive(i)
  BY DEF NeverAllocatesShared
<1> HIDE DEF takes
<1>3. /\ req'.block = req.block /\ req'.level = i + 1
      /\ req'.taken = IF takes THEN i ELSE req.taken
  BY <1>1 DEF Request
<1>4. Missed'
  <2> SUFFICES ASSUME NEW k \in Levels, k < i + 1 PROVE req.block \notin Held(k)'
    BY <1>1, <1>3 DEF Missed
  <2>1. k = i \/ k < i
    BY DEF Levels
  <2>2. req.block \notin Held(i)
    BY <1>1 DEF Contains, Held
  <2>3. Held(k)' = Held(k)
    BY <1>1, HeldUnchanged
  <2> QED
    BY <1>1, <2>1, <2>2, <2>3 DEF ChainInv, Missed
<1>5. PlainFills' /\ FetchClear'
  BY <1>1, <1>2, <1>3 DEF PlainFills, FetchClear, ChainInv
<1>6. ChainsDisjoint'
  BY <1>1, HeldUnchanged, SameChains DEF ChainInv
<1> QED
  BY <1>1, <1>4, <1>5, <1>6, NoCalls DEF ChainInv

LEMMA ReachMemoryChains ==
  ASSUME ExclusionInv, ReachMemory
  PROVE  ChainInv'
<1> USE DEF ExclusionInv, InclusionInv, ConservationInv
<1>1. /\ work' = << >> /\ UNCHANGED <<resident, buffer>> /\ pc = "probe" /\ pc' = "settle"
      /\ req.level = N /\ req.hit = N /\ req \in Request
      /\ req' = [req EXCEPT !.fillFrom = IF req.write THEN N ELSE @]
  BY DEF ReachMemory, contents, TypeInv, StackOK, LocalsOK
<1>2. req'.block = req.block /\ req'.hit = N /\ req'.taken = req.taken
  BY <1>1 DEF Request
<1>3. Missed'
  BY <1>1, <1>2, HeldUnchanged DEF Missed, ChainInv
<1>4. PlainFills' /\ FetchClear'
  BY <1>1, <1>2 DEF PlainFills, FetchClear, ChainInv
<1>5. ChainsDisjoint'
  BY <1>1, HeldUnchanged, SameChains DEF ChainInv
<1> QED
  BY <1>1, <1>3, <1>4, <1>5, NoCalls DEF ChainInv

-----------------------------------------------------------------------------
(* The steps of access() that move and fill.                               *)

\* What is to be filled: the levels above the one that hit, whose chains end there
\* unless the block moves up from it.
LEMMA SettleChains ==
  ASSUME ExclusionInv, Settle
  PROVE  ChainInv'
<1> USE DEF ExclusionInv, InclusionInv, ConservationInv
<1> PICK b \in Blocks, hit \in Nat, to \in Nat : b = req.block /\ hit = req.hit /\ to = req.fillFrom
  BY NAssumption DEF Settle, TypeInv, LocalsOK, Request
<1>1. /\ work' = << >> /\ req' = req /\ pc = "settle" /\ pc' \in {"move", "fill"}
      /\ pc' = "move" <=> (to < hit /\ Exclusive(hit))
      /\ fetch'.block = b /\ fetch'.at = hit - 1 /\ fetch'.to = to /\ fetch'.keep = req.taken
  BY DEF Settle, MovesUp
<1>2. \A k \in Levels : Held(k)' = Held(k)
  BY SettleHeld
<1>3. hit \in Levels => b \in Held(hit)
  <2>1. hit \in Levels => hit < N
    BY NAssumption DEF Levels
  <2> QED
    BY <1>1, <2>1 DEF TypeInv, HitHolds, Contains, Held
<1>4. \A k \in Levels : k < hit => b \notin Held(k)
  BY <1>1 DEF ChainInv, Missed
<1>5. ASSUME NEW i \in Levels, NEW e \in Levels, Chained(i, e), to <= i, i <= hit - 1
      PROVE  b \notin Held(e) \/ (pc' = "move" /\ e = hit)
  <2>1. CASE e < hit
    BY <1>4, <2>1
  <2>2. CASE hit <= e
    <3>1. hit \in Levels /\ i < hit /\ to < hit
      BY <1>5, <2>2, NAssumption DEF Levels
    <3>2. Exclusive(hit)
      BY <1>5, <2>2, <3>1 DEF Chained
    <3>3. hit < e => Chained(hit, e)
      BY <1>5, <3>1, ChainJoins
    <3>4. hit < e => b \notin Held(e)
      BY <1>3, <3>1, <3>3 DEF ChainInv, ChainsDisjoint, ClearBelow
    <3>5. hit = e \/ hit < e
      BY <2>2 DEF Levels
    <3> QED
      BY <1>1, <3>1, <3>2, <3>4, <3>5
  <2> QED
    BY <2>1, <2>2 DEF Levels
<1>6. FetchClear'
  <2>1. ASSUME pc' = "fill", NEW i \in Levels, NEW e \in Levels, Chained(i, e), to <= i, i <= hit - 1
        PROVE  b \notin Held(e)'
    BY <1>2, <1>5, <2>1
  <2>2. ASSUME pc' = "move", NEW i \in Levels, NEW e \in Levels, Chained(i, e), to <= i, i <= hit - 1,
               e # hit
        PROVE  b \notin Held(e)'
    BY <1>2, <1>5, <2>2
  <2> QED
    BY <1>1, <2>1, <2>2 DEF FetchClear, ToFill, ClearBelow
<1>7. Missed' /\ PlainFills'
  <2>1. hit - 1 < hit
    OBVIOUS
  <2> QED
    BY <1>1, <2>1 DEF Missed, PlainFills, ChainInv
<1>8. ChainsDisjoint'
  BY <1>2, SameChains DEF ChainInv
<1> QED
  BY <1>1, <1>6, <1>7, <1>8, NoCalls DEF ChainInv

\* The block leaves the exclusive level that hit, the only one of the chain to have
\* it.
LEMMA MoveUpChains ==
  ASSUME ExclusionInv, MoveUp
  PROVE  ChainInv'
<1> USE DEF ExclusionInv, InclusionInv, ConservationInv
<1> PICK hit \in Levels, b \in Blocks : hit = req.hit /\ b = fetch.block
  BY NAssumption DEF MoveUp, TypeInv, LocalsOK, HitHolds, Request, Levels
<1>0. /\ pc = "move" /\ pc' = "fill" /\ Contains(hit, b) /\ Invalidate(hit, b) /\ LevelsOK /\ SingleCopy
      /\ fetch \in Fetch /\ fetch' = [fetch EXCEPT !.dirty = fetch.dirty \/ LineOf(hit, b).dirty]
      /\ work' = << >>
  BY DEF MoveUp, TypeInv, LocalsOK, HitHolds, StackOK, LinesInv
<1>1. fetch'.block = b /\ fetch'.at = fetch.at /\ fetch'.to = fetch.to /\ fetch'.keep = fetch.keep
  BY <1>0 DEF Fetch
<1>2. Held(hit)' = Held(hit) \ {b} /\ \A k \in Levels : k # hit => Held(k)' = Held(k)
  BY <1>0, InvalidateHolds
<1>3. ChainsDisjoint'
  BY <1>2, ChainsShrink DEF ChainInv
<1>4. FetchClear'
  <2> SUFFICES ASSUME NEW i \in Levels, ToFill(i), NEW e \in Levels, Chained(i, e)
               PROVE  b \notin Held(e)'
    BY <1>0, <1>1 DEF FetchClear, ToFill, ClearBelow, Chained
  <2> QED
    BY <1>0, <1>2 DEF ChainInv, FetchClear
<1>5. Missed' /\ PlainFills'
  BY <1>0, <1>1 DEF Missed, PlainFills, ChainInv
<1> QED
  BY <1>0, <1>3, <1>4, <1>5, NoCalls DEF ChainInv

\* A level that is filled is the top of its chain; what it evicts falls into the
\* chain, where neither block is.
LEMMA FillChains ==
  ASSUME ExclusionInv, Fill \/ PrefetchFill
  PROVE  ChainInv'
<1> USE DEF ExclusionInv, InclusionInv, ConservationInv
<1> PICK i \in Levels, b \in Blocks : i = fetch.at /\ b = fetch.block
  BY NAssumption DEF Fill, PrefetchFill, FillStep, TypeInv, LocalsOK, Fetch, Levels
<1>0. /\ pc \in {"fill", "prefetch"} /\ fetch \in Fetch /\ work = << >> /\ UNCHANGED <<pc, req>>
      /\ fetch' = [fetch EXCEPT !.at = i - 1] /\ i >= fetch.to
  BY DEF Fill, PrefetchFill, FillStep, TypeInv, LocalsOK, LinesInv
<1>1. /\ fetch'.block = b /\ fetch'.at = i - 1 /\ fetch'.to = fetch.to /\ fetch'.keep = fetch.keep
      /\ fetch.to \in Int /\ i \in Int /\ (i - 1) + 1 = i
      /\ fetch.keep = -1 \/ fetch.keep \in Levels
  BY <1>0, NAssumption DEF Fetch, Levels
<1>2. Missed' /\ PlainFills'
  <2>1. \A k \in Int : i < k => i - 1 < k
    BY <1>1
  <2>2. fetch.keep \in Int
    BY <1>1 DEF Levels
  <2> QED
    BY <1>0, <1>1, <2>1, <2>2 DEF Missed, PlainFills, ChainInv
<1>3. \A k \in Levels : ToFill(k)' => ToFill(k) /\ k # i
  BY <1>1 DEF ToFill, Levels, Exclusive
<1>4. CASE Passes(i)
  <2>1. work' = << >> /\ \A k \in Levels : Held(k)' = Held(k)
    BY <1>4, FillHeld
  <2>2. ChainsDisjoint' /\ \A k \in Levels : \A c : ClearBelow(k, c) => ClearBelow(k, c)'
    BY <2>1, SameChains DEF ChainInv
  <2>3. FetchClear'
    <3>1. \A k \in Levels : ToFill(k)' => ClearBelow(k, b)'
      BY <1>0, <1>3, <2>2 DEF ChainInv, FetchClear
    <3> QED
      BY <1>0, <1>1, <3>1 DEF FetchClear, ClearBelow, Chained
  <2> QED
    BY <1>2, <2>1, <2>2, <2>3, NoCalls DEF ChainInv
<1>5. CASE ~Passes(i)
  <2>1. ~Exclusive(i)
    <3>1. Exclusive(i) => i = fetch.keep
      BY <1>5 DEF Passes
    <3>2. i = fetch.keep => i >= 0 /\ ~(i < i)
      BY DEF Levels
    <3> QED
      BY <1>0, <3>1, <3>2 DEF ChainInv, PlainFills
  <2>2. (\A k \in Levels : k # i => Held(k)' = Held(k)) /\ Installs(i, b, Held(i), << >>)
    BY <1>5, FillHeld
  <2>3. ClearBelow(i, b)
    <3>1. ToFill(i)
      BY <1>0, <1>1, <2>1 DEF ToFill
    <3> QED
      BY <1>0, <3>1 DEF ChainInv, FetchClear
  <2>4. \A e \in Levels : Exclusive(e) => Held(e)' = Held(e)
    BY <2>1, <2>2
  <2>5. \A k \in Levels : \A c : ClearBelow(k, c) => ClearBelow(k, c)'
    <3> SUFFICES ASSUME NEW k \in Levels, NEW c, ClearBelow(k, c), NEW e \in Levels, Chained(k, e)
                 PROVE  c \notin Held(e)'
      BY DEF ClearBelow, Chained
    <3>1. Exclusive(e)
      BY ChainEnds
    <3> QED
      BY <2>4, <3>1 DEF ClearBelow
  <2>6. ChainsDisjoint'
    <3> SUFFICES ASSUME NEW k \in Levels, NEW c \in Held(k)' PROVE ClearBelow(k, c)'
      BY DEF ChainsDisjoint
    <3>1. c \in Held(k) \/ (k = i /\ c = b)
      BY <2>2 DEF Installs
    <3>2. ClearBelow(k, c)
      BY <2>3, <3>1 DEF ChainInv, ChainsDisjoint
    <3> QED
      BY <2>5, <3>2
  <2>7. FetchClear'
    <3>1. \A k \in Levels : ToFill(k)' => ClearBelow(k, b)'
      BY <1>0, <1>3, <2>5 DEF ChainInv, FetchClear
    <3> QED
      BY <1>0, <1>1, <3>1 DEF FetchClear, ClearBelow, Chained
  <2>8. EvictsInChain'
    <3>1. CASE work' = << >>
      BY <3>1, NoCalls
    <3>2. ASSUME NEW out \in Line, work' = <<Evict(i, out)>> \o << >>,
                 out.block \in Held(i) \ ({b} \cup Held(i)')
          PROVE  EvictsInChain'
      <4> PICK t \in Task : t = Evict(i, out)
        BY CallType
      <4>1. Calls(work') = {t} /\ NoEvicts(Tail(work'))
        <5>1. << >> \in Seq(Task) /\ NoEvicts(<< >>)
          BY CallsOfNone DEF NoEvicts
        <5>2. work' = <<t>> \o << >>
          BY <3>2
        <5>3. Calls(<<t>> \o << >>) = {t} \cup Calls(<< >>)
          BY <5>1, CallsPush
        <5>4. NoEvicts(Tail(<<t>> \o << >>))
          BY <5>1, NoEvictsPush
        <5> QED
          BY <5>2, <5>3, <5>4, CallsOfNone
      <4>2. t.level = i /\ t.line = out
        BY CallFields
      <4>3. ClearBelow(i, out.block)
        BY <3>2 DEF ChainInv, ChainsDisjoint
      <4>4. FellFrom(i, t)'
        <5>1. ClearBelow(i, t.line.block)' /\ ClearBelow(i, b)'
          BY <2>3, <2>5, <4>2, <4>3
        <5>2. t.line.block \notin Held(i)' /\ t.line.block # fetch'.block
          BY <1>1, <3>2, <4>2
        <5> QED
          BY <1>1, <2>1, <4>2, <5>1, <5>2 DEF FellFrom, ClearBelow, Chained
      <4> QED
        BY <1>0, <1>1, <4>1, <4>4 DEF EvictsInChain
    <3> QED
      BY <2>2, <3>1, <3>2 DEF Installs
  <2> QED
    BY <1>2, <2>6, <2>7, <2>8 DEF ChainInv
<1> QED
  BY <1>4, <1>5

\* The duplicate of a store is a write-back.
LEMMA ForwardChains ==
  ASSUME ExclusionInv, Forward
  PROVE  ChainInv'
<1> USE DEF ExclusionInv, InclusionInv, ConservationInv
<1>0. /\ pc' = "observe" /\ req \in Request /\ fetch \in Fetch /\ req.block \in Blocks
      /\ UNCHANGED <<resident, buffer>>
  BY DEF Forward, contents, TypeInv, LocalsOK
<1>1. EvictsInChain'
  <2>1. CASE req.forward < 0
    <3>1. work' = << >>
      BY <2>1 DEF Forward
    <3> QED
      BY <3>1, NoCalls
  <2>2. CASE ~(req.forward < 0)
    <3> PICK i \in 0 .. N : i = req.forward
      BY <1>0, <2>2, NAssumption DEF Request
    <3> DEFINE duplicate == [block |-> req.block, dirty |-> TRUE, prefetched |-> FALSE, fresh |-> fetch.fresh]
    <3>1. duplicate \in Line
      BY <1>0 DEF Fetch, Line
    <3>2. work' = <<WriteBack(i, duplicate)>>
      BY <2>2 DEF Forward
    <3> HIDE DEF duplicate
    <3> QED
      BY <3>1, <3>2, OneWriteBack
  <2> QED
    BY <2>1, <2>2
<1>2. Missed' /\ PlainFills' /\ FetchClear'
  BY <1>0 DEF Missed, PlainFills, FetchClear
<1>3. ChainsDisjoint'
  BY <1>0, HeldUnchanged, SameChains DEF ChainInv
<1> QED
  BY <1>1, <1>2, <1>3 DEF ChainInv

-----------------------------------------------------------------------------
(* The steps of the prefetchers, and those between two loops.              *)

\* A level with a prefetcher is not exclusive.
LEMMA ObserveChains ==
  ASSUME ExclusionInv, NeverAllocatesShared, Observe
  PROVE  ChainInv'
<1> USE DEF ExclusionInv, InclusionInv, ConservationInv
<1> PICK i \in Levels : i = req.level
  BY NAssumption DEF Observe, TypeInv, LocalsOK, Request, Levels, Deepest
<1>0. work' = << >> /\ pc = "observe"
  BY DEF Observe, history
<1>1. \A k \in Levels : Held(k)' = Held(k)
  BY ObserveHeld
<1>2. \/ pc' = "observe"
      \/ /\ pc' = "issue" /\ ~Contains(i, fetch'.block) /\ fetch'.to = i /\ fetch'.keep = i
         /\ Prefetcher[i] # "none"
  <2>a. PICK hit \in BOOLEAN, was \in BOOLEAN : \E target \in Predictions(i, hit, was) :
          IF target = None \/ Contains(i, target)
          THEN UNCHANGED <<pc, fetch>>
          ELSE /\ fetch' = [NoFetch EXCEPT !.block = target, !.to = i, !.keep = i]
               /\ pc' = "issue"
    <3> DEFINE found == i = req.hit
               marked == found /\ Contains(i, req.block) /\ LineOf(i, req.block).prefetched
    <3>1. \E target \in Predictions(i, found, marked) :
            IF target = None \/ Contains(i, target)
            THEN UNCHANGED <<pc, fetch>>
            ELSE /\ fetch' = [NoFetch EXCEPT !.block = target, !.to = i, !.keep = i]
                 /\ pc' = "issue"
      BY DEF Observe
    <3>2. found \in BOOLEAN /\ marked \in BOOLEAN
      OBVIOUS
    <3> HIDE DEF found, marked
    <3> QED
      BY <3>1, <3>2
  <2>1. PICK target \in Predictions(i, hit, was) :
          IF target = None \/ Contains(i, target)
          THEN UNCHANGED <<pc, fetch>>
          ELSE /\ fetch' = [NoFetch EXCEPT !.block = target, !.to = i, !.keep = i]
               /\ pc' = "issue"
    BY <2>a
  <2>2. CASE target = None \/ Contains(i, target)
    BY <1>0, <2>1, <2>2
  <2>3. CASE ~(target = None \/ Contains(i, target))
    <3>1. fetch'.block = target /\ fetch'.to = i /\ fetch'.keep = i
      BY <2>1, <2>3 DEF NoFetch
    <3>2. Prefetcher[i] # "none"
      BY <2>1, <2>3 DEF Predictions
    <3> QED
      BY <2>1, <2>3, <3>1, <3>2
  <2> QED
    BY <2>2, <2>3
<1>3. Missed' /\ PlainFills' /\ FetchClear'
  <2>1. CASE pc' = "observe"
    BY <2>1 DEF Missed, PlainFills, FetchClear
  <2>2. CASE pc' = "issue"
    <3>1. fetch'.block \notin Held(i)' /\ fetch'.to = i /\ fetch'.keep = i /\ ~Exclusive(i)
      BY <1>1, <1>2, <2>2 DEF Contains, Held, NeverAllocatesShared
    <3> QED
      BY <2>2, <3>1 DEF Missed, PlainFills, FetchClear
  <2> QED
    BY <1>2, <2>1, <2>2
<1>4. ChainsDisjoint'
  BY <1>1, SameChains DEF ChainInv
<1> QED
  BY <1>0, <1>3, <1>4, NoCalls DEF ChainInv

\* The levels between the prefetching one and the source do not have the block; an
\* exclusive source hands it up, any other ends the chains.
LEMMA IssueChains ==
  ASSUME ExclusionInv, Issue
  PROVE  ChainInv'
<1> USE DEF ExclusionInv, InclusionInv, ConservationInv
<1> PICK b \in Blocks, to \in Levels : b = fetch.block /\ to = fetch.to
  BY DEF Issue, TypeInv, LocalsOK, LinesInv, FetchFacts
<1>0. /\ pc = "issue" /\ pc' = "prefetch" /\ work' = << >> /\ fetch \in Fetch
      /\ LevelsOK /\ SingleCopy
  BY DEF Issue, TypeInv, LocalsOK, StackOK, LinesInv
<1> DEFINE holders == {k \in Levels : k > to /\ Contains(k, b)}
<1>1. ASSUME fetch'.block = b, fetch'.to = to, fetch'.keep = fetch.keep,
             \A k \in Levels : Held(k)' \subseteq Held(k),
             NEW at \in Int, fetch'.at = at,
             \A k, e \in Levels : to <= k /\ k <= at /\ Chained(k, e) => b \notin Held(e)'
      PROVE  ChainInv'
  <2>1. FetchClear'
    BY <1>0, <1>1 DEF FetchClear, ToFill, ClearBelow
  <2>2. Missed' /\ PlainFills'
    BY <1>0, <1>1 DEF Missed, PlainFills, ChainInv
  <2>3. ChainsDisjoint'
    BY <1>1, ChainsShrink DEF ChainInv
  <2> QED
    BY <1>0, <2>1, <2>2, <2>3, NoCalls DEF ChainInv
<1>2. CASE /\ holders = {}
           /\ fetch' = [fetch EXCEPT !.at = N - 1, !.fresh = b \in memory]
           /\ UNCHANGED <<contents, fresh>>
  <2>1. fetch'.block = b /\ fetch'.to = to /\ fetch'.keep = fetch.keep /\ fetch'.at = N - 1 /\ N - 1 \in Int
    BY <1>0, <1>2, NAssumption DEF Fetch
  <2>2. \A k \in Levels : Held(k)' = Held(k)
    BY <1>2, HeldUnchanged DEF contents
  <2>3. ASSUME NEW k \in Levels, NEW e \in Levels, to <= k, Chained(k, e)
        PROVE  b \notin Held(e)'
    <3>1. e > to
      BY <2>3 DEF Chained, Levels
    <3> QED
      BY <1>2, <2>2, <3>1 DEF Contains, Held
  <2> QED
    BY <1>1, <2>1, <2>2, <2>3
<1>3. ASSUME NEW source \in holders, \A k \in holders : source <= k,
             fetch' = [fetch EXCEPT !.at = source - 1,
                                    !.dirty = HandedDirty(source, b),
                                    !.fresh = LineOf(source, b).fresh],
             IF Exclusive(source) THEN Invalidate(source, b) ELSE UNCHANGED <<contents, fresh>>
      PROVE  ChainInv'
  <2>0. source \in Levels /\ source > to /\ Contains(source, b) /\ b \in Held(source)
    BY DEF Contains, Held
  <2>1. /\ fetch'.block = b /\ fetch'.to = to /\ fetch'.keep = fetch.keep
        /\ fetch'.at = source - 1 /\ source - 1 \in Int
    BY <1>0, <1>3, <2>0 DEF Fetch, Levels
  <2>2. /\ \A k \in Levels : Held(k)' \subseteq Held(k)
        /\ Exclusive(source) => b \notin Held(source)'
    <3>1. CASE Exclusive(source)
      <4>1. /\ Held(source)' = Held(source) \ {b}
            /\ \A k \in Levels : k # source => Held(k)' = Held(k)
        BY <1>0, <1>3, <2>0, <3>1, InvalidateHolds
      <4> QED
        BY <4>1
    <3>2. CASE ~Exclusive(source)
      BY <1>3, <3>2, HeldUnchanged DEF contents
    <3> QED
      BY <3>1, <3>2
  <2>3. ASSUME NEW k \in Levels, NEW e \in Levels, to <= k, k <= source - 1, Chained(k, e)
        PROVE  b \notin Held(e)'
    <3>1. k < e /\ k < source /\ e > to
      BY <2>0, <2>3 DEF Chained, Levels
    <3>2. CASE e < source
      <4>1. e \notin holders
        BY <1>3, <2>0, <3>2 DEF Levels
      <4>2. b \notin Held(e)
        BY <3>1, <4>1 DEF Contains, Held
      <4> QED
        BY <2>2, <4>2
    <3>3. CASE e = source
      <4>1. Exclusive(source)
        BY <2>3, <3>3, ChainEnds
      <4> QED
        BY <2>2, <3>3, <4>1
    <3>4. CASE source < e
      <4>1. Chained(source, e)
        BY <2>0, <2>3, <3>1, <3>4, ChainJoins
      <4>2. b \notin Held(e)
        BY <2>0, <4>1 DEF ChainInv, ChainsDisjoint, ClearBelow
      <4> QED
        BY <2>2, <4>2
    <3> QED
      BY <2>0, <3>2, <3>3, <3>4 DEF Levels
  <2> HIDE DEF holders
  <2> QED
    BY <1>1, <2>1, <2>2, <2>3
<1>4. \/ /\ holders = {}
         /\ fetch' = [fetch EXCEPT !.at = N - 1, !.fresh = b \in memory]
         /\ UNCHANGED <<contents, fresh>>
      \/ \E source \in holders :
           /\ \A k \in holders : source <= k
           /\ fetch' = [fetch EXCEPT !.at = source - 1,
                                     !.dirty = HandedDirty(source, b),
                                     !.fresh = LineOf(source, b).fresh]
           /\ IF Exclusive(source) THEN Invalidate(source, b) ELSE UNCHANGED <<contents, fresh>>
  BY DEF Issue
<1> HIDE DEF holders
<1> QED
  BY <1>2, <1>3, <1>4

LEMMA QuietChains ==
  ASSUME ExclusionInv,
         PrefetchDone \/ FinishAccess \/ BeginFlush \/ FlushNextLevel \/ FinishFlush
  PROVE  ChainInv'
<1> USE DEF ExclusionInv, InclusionInv, ConservationInv
<1>1. work' = << >> /\ UNCHANGED <<resident, buffer>> /\ pc' \in {"observe", "idle", "flush"}
  BY DEF PrefetchDone, FinishAccess, BeginFlush, FlushNextLevel, FinishFlush, Returned, contents,
         TypeInv, StackOK
<1>2. Missed' /\ PlainFills' /\ FetchClear'
  BY <1>1 DEF Missed, PlainFills, FetchClear
<1>3. ChainsDisjoint'
  BY <1>1, HeldUnchanged, SameChains DEF ChainInv
<1> QED
  BY <1>1, <1>2, <1>3, NoCalls DEF ChainInv

LEMMA FlushLineChains ==
  ASSUME ExclusionInv, FlushLine
  PROVE  ChainInv'
<1> USE DEF ExclusionInv, InclusionInv, ConservationInv
<1> PICK i \in Levels : i = req.level
  BY DEF FlushLine, TypeInv, LocalsOK
<1>0. /\ pc' = "flush" /\ LevelsOK /\ SingleCopy /\ FlushLevel(req.level) = i /\ i + 1 \in 0 .. N
  BY NAssumption DEF FlushLine, TypeInv, LinesInv, FlushLevel, Levels
<1> PICK entry \in snapshot :
       /\ IF Contains(i, entry.block)
          THEN SetDirty(i, entry.block, FALSE, LineOf(i, entry.block).fresh)
          ELSE UNCHANGED <<contents, fresh>>
       /\ work' = <<WriteBack(i + 1, [block |-> entry.block, dirty |-> TRUE, prefetched |-> FALSE,
                                      fresh |-> Contains(i, entry.block) /\ LineOf(i, entry.block).fresh])>>
  BY <1>0 DEF FlushLine
<1> PICK b \in Blocks : b = entry.block
  BY DEF TypeInv, LocalsOK
<1>1. \A k \in Levels : Held(k)' = Held(k)
  <2>1. CASE Contains(i, b)
    BY <1>0, <2>1, SetDirtyHolds
  <2>2. CASE ~Contains(i, b)
    BY <2>2, HeldUnchanged DEF contents
  <2> QED
    BY <2>1, <2>2
<1>2. EvictsInChain'
  <2> DEFINE cleaned == [block |-> b, dirty |-> TRUE, prefetched |-> FALSE,
                         fresh |-> Contains(i, b) /\ LineOf(i, b).fresh]
  <2>1. cleaned \in Line
    <3>1. (Contains(i, b) /\ LineOf(i, b).fresh) \in BOOLEAN
      OBVIOUS
    <3> QED
      BY <3>1 DEF Line
  <2>2. work' = <<WriteBack(i + 1, cleaned)>>
    OBVIOUS
  <2> HIDE DEF cleaned
  <2> QED
    BY <1>0, <2>1, <2>2, OneWriteBack
<1>3. Missed' /\ PlainFills' /\ FetchClear'
  BY <1>0 DEF Missed, PlainFills, FetchClear
<1> QED
  BY <1>1, <1>2, <1>3, SameChains DEF ChainInv

-----------------------------------------------------------------------------
(* The steps of the stack.                                                 *)

\* A call that brings no block into a chain, and evicts none into one.
LEMMA StackShrinks ==
  ASSUME ExclusionInv, work # << >>, UNCHANGED <<pc, req, fetch>>,
         \A e \in Levels : Exclusive(e) \/ Exclusive(e + 1) => Held(e)' \subseteq Held(e),
         NEW rest \in Seq(Task), NoEvicts(rest),
         \/ work' = rest
         \/ \E i \in Levels, out \in Line : ~Exclusive(i + 1) /\ work' = <<Evict(i, out)>> \o rest
  PROVE  ChainInv'
<1> USE DEF ExclusionInv, InclusionInv, ConservationInv
<1>0. pc \notin {"probe", "settle", "move", "issue"} /\ work \in Seq(Task)
  BY DEF TypeInv, StackOK
<1>1. ChainsDisjoint' /\ \A k \in Levels : \A b : ClearBelow(k, b) => ClearBelow(k, b)'
  BY ChainsShrink DEF ChainInv
<1>2. Missed' /\ PlainFills'
  BY <1>0 DEF Missed, PlainFills, ChainInv
<1>3. FetchClear'
  <2> PICK b : b = fetch.block
    OBVIOUS
  <2>1. pc \in {"fill", "prefetch"} => \A k \in Levels : ToFill(k) => ClearBelow(k, b)'
    BY <1>1 DEF ChainInv, FetchClear
  <2> QED
    BY <1>0, <2>1 DEF FetchClear, ToFill, ClearBelow, Chained
<1>4. EvictsInChain'
  <2>1. CASE work' = rest
    <3>1. rest # << >> => NoEvicts(Tail(rest))
      <4>1. rest # << >> => Calls(Tail(rest)) \subseteq Calls(rest)
        BY CallsPop
      <4> QED
        BY <4>1 DEF NoEvicts
    <3> QED
      BY <2>1, <3>1 DEF EvictsInChain, NoEvicts
  <2>2. ASSUME NEW i \in Levels, NEW out \in Line, ~Exclusive(i + 1), work' = <<Evict(i, out)>> \o rest
        PROVE  EvictsInChain'
    <3> PICK t \in Task : t = Evict(i, out)
      BY CallType
    <3>1. Calls(<<t>> \o rest) = {t} \cup Calls(rest) /\ NoEvicts(Tail(<<t>> \o rest))
      BY CallsPush, NoEvictsPush
    <3>2. t.level = i
      BY CallFields
    <3> QED
      BY <2>2, <3>1, <3>2 DEF EvictsInChain, NoEvicts
  <2> QED
    BY <2>1, <2>2
<1> QED
  BY <1>1, <1>2, <1>3, <1>4 DEF ChainInv

\* The level a line falls into is chained to the one just filled.
LEMMA FellInto ==
  ASSUME NEW t \in Task, NEW top \in Levels, FellFrom(top, t),
         NEW j \in Levels, j = t.level + 1, Exclusive(j)
  PROVE  Chained(top, j) /\ top < j /\ t.line.block \notin Held(j)
<1> PICK from \in Levels : from = t.level
  <2>1. t.level \in Int
    BY TaskFields, NAssumption
  <2>2. top <= t.level /\ t.level < j
    BY <2>1 DEF FellFrom, Chained, Levels
  <2> QED
    BY <2>1, <2>2, NAssumption DEF Levels
<1>1. from = top \/ Chained(top, from)
  BY DEF FellFrom
<1>2. Chained(top, j)
  BY <1>1, ChainJoins
<1> QED
  BY <1>2 DEF Chained, FellFrom, ClearBelow

\* A line that falls into the next level of its chain, and the one that level
\* evicts in its turn.
LEMMA FallsDown ==
  ASSUME ExclusionInv, work # << >>, UNCHANGED <<pc, req, fetch>>, pc \in {"fill", "prefetch"},
         NEW t \in Task, t = Head(work), NEW top \in Levels, top = fetch.at + 1, FellFrom(top, t),
         NEW j \in Levels, j = t.level + 1, Exclusive(j), NEW b \in Blocks, b = t.line.block,
         \A k \in Levels : k # j => Held(k)' = Held(k),
         NEW rest \in Seq(Task), NoEvicts(rest), Installs(j, b, Held(j), rest)
  PROVE  ChainInv'
<1> USE DEF ExclusionInv, InclusionInv, ConservationInv
<1> PICK fetched \in Blocks : fetched = fetch.block
  BY DEF TypeInv, LocalsOK
<1>0. /\ ~Exclusive(top) /\ b \notin Held(top) /\ ClearBelow(top, b) /\ ClearBelow(top, fetched)
      /\ b # fetched
  BY DEF FellFrom
<1>1. Chained(top, j) /\ top < j
  BY FellInto
<1>2. /\ Held(j)' \subseteq Held(j) \cup {b}
      /\ b \notin Held(j) /\ fetched \notin Held(j) /\ fetched \notin Held(j)'
  <2>1. Held(j)' \subseteq Held(j) \cup {b}
    BY DEF Installs
  <2> QED
    BY <1>0, <1>1, <2>1 DEF ClearBelow
<1>3. \A k \in Levels : ClearBelow(k, fetched) => ClearBelow(k, fetched)'
  BY <1>2 DEF ClearBelow, Chained
<1>4. ChainsDisjoint'
  <2> SUFFICES ASSUME NEW k \in Levels, NEW c \in Held(k)', NEW e \in Levels, Chained(k, e), c \in Held(e)'
               PROVE  FALSE
    BY DEF ChainsDisjoint, ClearBelow, Chained
  <2>0. k # e /\ k < e
    BY DEF Chained, Levels
  <2>1. CASE c # b
    <3>1. c \in Held(k) /\ c \in Held(e)
      BY <1>2, <2>1
    <3> QED
      BY <3>1 DEF ChainInv, ChainsDisjoint, ClearBelow
  <2>2. CASE c = b /\ k = j
    <3>1. Chained(top, e)
      BY <1>1, <2>2, ChainJoins
    <3>2. b \in Held(e)
      BY <2>0, <2>2
    <3> QED
      BY <1>0, <3>1, <3>2 DEF ClearBelow
  <2>3. CASE c = b /\ k # j /\ e # j
    BY <2>3 DEF ChainInv, ChainsDisjoint, ClearBelow
  <2>4. CASE c = b /\ k # j /\ e = j
    <3>1. b \in Held(k)
      BY <2>4
    <3>2. k # top
      BY <1>0, <3>1
    <3>3. ~(k < top)
      BY <1>0, <1>1, <2>4 DEF Chained, Levels
    <3>4. ~(top < k)
      <4>1. top < k => Chained(top, k)
        BY <1>1, <2>0, <2>4, ChainJoins
      <4> QED
        BY <1>0, <3>1, <4>1 DEF ClearBelow
    <3> QED
      BY <3>2, <3>3, <3>4 DEF Levels
  <2> QED
    BY <2>1, <2>2, <2>3, <2>4
<1>5. FetchClear'
  <2>1. \A k \in Levels : ToFill(k) => ClearBelow(k, fetched)'
    BY <1>3 DEF ChainInv, FetchClear
  <2> QED
    BY <2>1 DEF FetchClear, ToFill, ClearBelow, Chained
<1>6. Missed' /\ PlainFills'
  BY DEF Missed, PlainFills, ChainInv
<1>7. EvictsInChain'
  <2>1. CASE work' = rest
    <3>1. rest # << >> => Calls(Tail(rest)) \subseteq Calls(rest)
      BY CallsPop
    <3> QED
      BY <2>1, <3>1 DEF EvictsInChain, NoEvicts
  <2>2. ASSUME NEW out \in Line, work' = <<Evict(j, out)>> \o rest, out.block \in Held(j) \ ({b} \cup Held(j)')
        PROVE  EvictsInChain'
    <3> PICK u \in Task : u = Evict(j, out)
      BY CallType
    <3>1. Calls(<<u>> \o rest) = {u} \cup Calls(rest) /\ NoEvicts(Tail(<<u>> \o rest))
      BY CallsPush, NoEvictsPush
    <3>2. u.level = j /\ u.line = out
      BY CallFields
    <3> PICK c : c = out.block
      OBVIOUS
    <3>3. c \in Held(j) /\ c \notin Held(j)' /\ c # b /\ c # fetched
      BY <1>2, <2>2
    <3>4. c \notin Held(top)'
      BY <1>1, <3>3 DEF ChainInv, ChainsDisjoint, ClearBelow
    <3>5. ASSUME NEW e \in Levels, Chained(top, e) PROVE c \notin Held(e)'
      <4>1. CASE e = j
        BY <3>3, <4>1
      <4>2. CASE e < j
        <5>1. top < e /\ Chained(e, j)
          <6>1. top < e
            BY <3>5 DEF Chained
          <6> QED
            BY <1>1, <4>2, <6>1, ChainJoins
        <5> QED
          BY <3>3, <4>2, <5>1 DEF ChainInv, ChainsDisjoint, ClearBelow, Levels
      <4>3. CASE j < e
        <5>1. Chained(j, e)
          BY <1>1, <3>5, <4>3, ChainJoins
        <5> QED
          BY <3>3, <4>3, <5>1 DEF ChainInv, ChainsDisjoint, ClearBelow, Levels
      <4> QED
        BY <4>1, <4>2, <4>3 DEF Levels
    <3>6. FellFrom(top, u)'
      <4>1. ClearBelow(top, c)' /\ ClearBelow(top, fetched)'
        BY <1>0, <1>3, <3>5 DEF ClearBelow, Chained
      <4> QED
        BY <1>0, <1>1, <3>2, <3>3, <3>4, <4>1 DEF FellFrom, ClearBelow, Chained
    <3> QED
      BY <2>2, <3>1, <3>6 DEF EvictsInChain, NoEvicts
  <2> QED
    BY <2>1, <2>2 DEF Installs
<1> QED
  BY <1>4, <1>5, <1>6, <1>7 DEF ChainInv

\* The calls a step of the stack makes are write-backs and back-invalidations.
LEMMA CallsMade ==
  ASSUME NEW line \in Line, NEW i, NEW nth, NEW b
  PROVE  WriteBack(i, line).op # "evict" /\ BackInvalidate(i, nth, b).op # "evict"
  BY CallFields, BackInvalidateFields

\* What a level evicts goes to the next one of its chain.
LEMMA HandleEvictionChains ==
  ASSUME ExclusionInv, EvictsAbsent, HandleEviction
  PROVE  ChainInv'
<1>c. ConservationInv /\ (Exclusive(Head(work).level + 1) => EvictedPlaced(Head(work).level, Head(work).line))
  BY EvictionInstalls DEF ExclusionInv, InclusionInv
<1>a. work # << >> /\ Head(work).op = "evict" /\ UNCHANGED <<pc, req, fetch>>
  BY DEF HandleEviction
<1> PICK t \in Task : t = Head(work)
  BY <1>a, <1>c, HeadType DEF ConservationInv
<1> PICK i \in Levels, line \in Line, b \in Blocks : i = t.level /\ line = t.line /\ b = line.block
  BY <1>a, <1>c, HeadType DEF ConservationInv
<1> PICK j \in 0 .. N : j = i + 1
  BY NAssumption DEF Levels
<1> PICK rest \in Seq(Task) :
      rest = AfterEvict(i, b)
      /\ Calls(rest) = (IF Inclusive(i) THEN {BackInvalidate(i, 0, b)} ELSE {}) \cup Calls(Tail(work))
  <2> PICK others \in Seq(Task) : others = Tail(work)
    BY <1>a, <1>c, HeadType DEF ConservationInv
  <2> DEFINE new == (IF Inclusive(i) THEN <<BackInvalidate(i, 0, b)>> ELSE << >>) \o others
  <2>1. new \in Seq(Task) /\ Calls(new) = (IF Inclusive(i) THEN {BackInvalidate(i, 0, b)} ELSE {}) \cup Calls(others)
    BY CallsBackInvalidate
  <2>2. new = AfterEvict(i, b)
    BY DEF AfterEvict
  <2> HIDE DEF new
  <2> QED
    BY <2>1, <2>2
<1>0. work' \in Seq(Task) /\ work \in Seq(Task) /\ t \in Calls(work)
  <2>1. work' \in Seq(Task) /\ work \in Seq(Task)
    BY <1>c, HandleEvictionType DEF ConservationInv, TypeInv, StackOK
  <2> QED
    BY <1>a, <2>1, CallsPop
<1>1. NoEvicts(rest)
  <2>1. NoEvicts(Tail(work))
    BY <1>a DEF ExclusionInv, ChainInv, EvictsInChain
  <2>2. BackInvalidate(i, 0, b).op # "evict"
    BY CallsMade
  <2>3. \A e \in Calls(rest) : e = BackInvalidate(i, 0, b) \/ e \in Calls(Tail(work))
    OBVIOUS
  <2> QED
    BY <2>1, <2>2, <2>3 DEF NoEvicts
<1>2. CASE ~Exclusive(j)
  <2>1. work' = WriteDown(j, line) \o rest /\ UNCHANGED <<resident, buffer>>
    BY <1>2 DEF HandleEviction, Below, contents, AfterEvict
  <2>2. Calls(work') = (IF line.dirty THEN {WriteBack(j, line)} ELSE {}) \cup Calls(rest)
    BY <2>1, CallsWriteDown
  <2>3. NoEvicts(work')
    <3>1. WriteBack(j, line).op # "evict"
      BY CallsMade
    <3>2. \A e \in Calls(work') : e = WriteBack(j, line) \/ e \in Calls(rest)
      BY <2>2
    <3> QED
      BY <1>1, <3>1, <3>2 DEF NoEvicts
  <2>4. \A e \in Levels : Held(e)' = Held(e)
    BY <2>1, HeldUnchanged
  <2> QED
    BY <1>a, <1>0, <2>3, <2>4, StackShrinks
<1>3. CASE Exclusive(j)
  <2>1. pc \in {"fill", "prefetch"} /\ FellFrom(fetch.at + 1, t)
    BY <1>a, <1>0, <1>3 DEF ExclusionInv, ChainInv, EvictsInChain
  <2> PICK top \in Levels : top = fetch.at + 1
    BY <2>1 DEF FellFrom
  <2>2. j \in Levels /\ j + 1 = i + 2
    BY <1>3 DEF Exclusive, Levels
  <2> PICK onward \in Seq(Task) :
        /\ Calls(onward) = (IF line.dirty /\ WriteThrough[j] THEN {WriteBack(j + 1, line)} ELSE {})
                            \cup Calls(rest)
        /\ OnlyLevel(j) /\ Installs(j, b, Held(j), onward)
    BY <1>c, <1>3, <2>2 DEF EvictedPlaced
  <2>3. NoEvicts(onward)
    <3>1. WriteBack(j + 1, line).op # "evict"
      BY CallsMade
    <3>2. \A e \in Calls(onward) : e = WriteBack(j + 1, line) \/ e \in Calls(rest)
      OBVIOUS
    <3> QED
      BY <1>1, <3>1, <3>2 DEF NoEvicts
  <2>4. \A k \in Levels : k # j => Held(k)' = Held(k)
    BY HeldIs DEF OnlyLevel
  <2> QED
    BY <1>a, <1>3, <2>1, <2>2, <2>3, <2>4, FallsDown
<1> QED
  BY <1>2, <1>3

\* The rest of a back-invalidation is one call more, or none.
LEMMA PurgeGoesOn ==
  ASSUME NEW i \in Levels, NEW nth \in 0 .. N, NEW b \in Blocks,
         NEW others \in Seq(Task), NoEvicts(others)
  PROVE  NextAbove(i, nth, b) \o others \in Seq(Task) /\ NoEvicts(NextAbove(i, nth, b) \o others)
<1>0. i \in Int /\ nth \in Int /\ 0 <= nth /\ i <= N - 1
  BY NAssumption DEF Levels
<1>1. CASE nth + 1 < i
  <2>1. nth + 1 \in 0 .. N
    BY <1>0, <1>1, NAssumption
  <2> PICK call \in Task : call = BackInvalidate(i, nth + 1, b)
    BY <2>1 DEF BackInvalidate, Call, Task, Line
  <2>2. <<call>> \o others \in Seq(Task) /\ Calls(<<call>> \o others) = {call} \cup Calls(others)
    BY StackType, CallsPush
  <2>3. call.op # "evict"
    BY BackInvalidateFields
  <2>4. NextAbove(i, nth, b) = <<call>>
    BY <1>1 DEF NextAbove
  <2> QED
    BY <2>2, <2>3, <2>4 DEF NoEvicts
<1>2. CASE ~(nth + 1 < i)
  <2>1. NextAbove(i, nth, b) \o others = others
    BY <1>2, ConcatEmptySeq DEF NextAbove
  <2> QED
    BY <2>1
<1> QED
  BY <1>1, <1>2

\* A back-invalidation takes blocks away, and calls write-backs only.
LEMMA BackInvalidateStepChains ==
  ASSUME ExclusionInv, BackInvalidateStep
  PROVE  ChainInv'
<1> USE DEF ExclusionInv, InclusionInv, ConservationInv
<1>a. work # << >> /\ Head(work).op = "backInvalidate" /\ UNCHANGED <<pc, req, fetch>>
  BY DEF BackInvalidateStep
<1> PICK i \in Levels, nth \in 0 .. N, b \in Blocks :
      i = Head(work).level /\ nth = Head(work).nth /\ b = Head(work).line.block
  BY <1>a, HeadType
<1> PICK k \in Int : k = NthAbove(i, nth)
  BY NAssumption DEF NthAbove, Levels
<1> PICK below \in 0 .. N : below = i + 1
  BY NAssumption DEF Levels
<1>b. k = i - 1 - nth
  BY DEF NthAbove
<1>0. /\ work' \in Seq(Task) /\ Tail(work) \in Seq(Task) /\ LevelsOK /\ SingleCopy
      /\ i \in Nat /\ nth \in Nat /\ i < N
  BY <1>a, HeadType, BackInvalidateType, NAssumption DEF TypeInv, StackOK, LinesInv, Levels
<1>1. NoEvicts(Tail(work))
  BY <1>a DEF ChainInv, EvictsInChain
<1> DEFINE rest == NextAbove(i, nth, b) \o Tail(work)
<1>r. rest \in Seq(Task) /\ NoEvicts(rest)
  BY <1>0, <1>1, PurgeGoesOn
<1> HIDE DEF rest
<1>2. CASE nth < i /\ LosesCopy(k, b)
  <2>1. k \in Levels
    <3>1. nth + 1 <= i /\ k = i - 1 - nth /\ i \in Nat /\ nth \in Nat /\ i + 1 <= N /\ N \in Nat
      BY <1>0, <1>b, <1>2, NAssumption
    <3>2. 0 <= k /\ k <= N - 1
      BY <3>1
    <3> QED
      BY <3>2 DEF Levels
  <2>2. Contains(k, b) /\ Invalidate(k, b) /\ work' = WriteDown(below, LineOf(k, b)) \o rest
    BY <1>2 DEF BackInvalidateStep, LosesCopy, rest
  <2> PICK line \in Line : line = LineOf(k, b)
    BY <1>0, <2>1, <2>2, LineOfType
  <2>3. Calls(work') = (IF line.dirty THEN {WriteBack(below, line)} ELSE {}) \cup Calls(rest)
    BY <1>r, <2>2, CallsWriteDown
  <2>4. NoEvicts(work')
    <3>1. WriteBack(below, line).op # "evict"
      BY CallsMade
    <3>2. \A e \in Calls(work') : e = WriteBack(below, line) \/ e \in Calls(rest)
      BY <2>3
    <3> QED
      BY <1>r, <3>1, <3>2 DEF NoEvicts
  <2>5. \A l \in Levels : Held(l)' \subseteq Held(l)
    <3>1. Held(k)' = Held(k) \ {b} /\ \A l \in Levels : l # k => Held(l)' = Held(l)
      BY <1>0, <2>1, <2>2, InvalidateHolds
    <3> QED
      BY <3>1
  <2> QED
    BY <1>a, <1>0, <2>4, <2>5, StackShrinks
<1>3. CASE ~(nth < i /\ LosesCopy(k, b))
  <2>1. work' = rest /\ UNCHANGED <<resident, buffer>>
    BY <1>3 DEF BackInvalidateStep, contents, rest
  <2>2. \A l \in Levels : Held(l)' = Held(l)
    BY <2>1, HeldUnchanged
  <2> QED
    BY <1>a, <1>r, <2>1, <2>2, StackShrinks
<1> QED
  BY <1>2, <1>3

\* A write-back allocates in no level that shares a chain: not in an exclusive one,
\* nor above one.
LEMMA WriteBackStepChains ==
  ASSUME ExclusionInv, NeverAllocatesShared, WriteBackStep
  PROVE  ChainInv'
<1> USE DEF ExclusionInv, InclusionInv, ConservationInv
<1>a. work # << >> /\ Head(work).op = "writeBack" /\ UNCHANGED <<pc, req, fetch>>
  BY DEF WriteBackStep
<1> PICK t \in Task, i \in 0 .. N, line \in Line, b \in Blocks :
      t = Head(work) /\ i = t.level /\ line = t.line /\ b = line.block
  BY <1>a, HeadType
<1> PICK below \in Seq(Task) : below = Tail(work)
  BY <1>a, HeadType
<1> DEFINE onward == <<WriteBack(i + 1, line)>> \o below
           clean == [line EXCEPT !.dirty = FALSE]
<1>0. /\ LevelsOK /\ SingleCopy /\ i \in Nat /\ t \in Calls(work)
      /\ pc \notin {"idle", "probe", "settle", "move", "issue"}
  BY <1>a, HeadType, CallsPop, NAssumption DEF TypeInv, StackOK, LinesInv
<1>1. i >= 1
  <2>1. i = Reaches(t)
    BY <1>a DEF Reaches
  <2>2. fetch.at + 1 >= 0 /\ fetch.at \in Int /\ req.fillFrom \in Nat /\ req.level \in Nat
    BY NAssumption DEF TypeInv, LocalsOK, Fetch, Request, Levels
  <2>3. pc \in {"fill", "prefetch", "observe", "flush"}
    BY <1>0 DEF TypeInv, LocalsOK
  <2>4. i > fetch.at + 1 \/ i > req.fillFrom \/ i > req.level
    BY <1>0, <2>1, <2>3 DEF StackInv, CallsBelow
  <2> QED
    BY <1>0, <2>2, <2>4
<1>2. i < N => i \in Levels
  BY <1>0, NAssumption DEF Levels
<1>3. NoEvicts(below) /\ (i < N => onward \in Seq(Task) /\ NoEvicts(onward))
  <2>1. NoEvicts(below)
    BY <1>a DEF ChainInv, EvictsInChain
  <2>2. ASSUME i \in Levels
        PROVE  onward \in Seq(Task) /\ Calls(onward) = {WriteBack(i + 1, line)} \cup Calls(below)
    BY <2>2, OnwardCalls
  <2>3. WriteBack(i + 1, line).op # "evict"
    BY CallsMade
  <2> HIDE DEF onward
  <2> QED
    BY <1>2, <2>1, <2>2, <2>3 DEF NoEvicts
<1>4. \/ work' = below /\ UNCHANGED <<resident, buffer>>
      \/ i < N /\ work' = onward /\ UNCHANGED <<resident, buffer>>
      \/ i < N /\ Contains(i, b) /\ SetDirty(i, b, LineOf(i, b).dirty, line.fresh) /\ work' = onward
      \/ i < N /\ Contains(i, b) /\ SetDirty(i, b, TRUE, line.fresh) /\ work' = below
      \/ i < N /\ ~Contains(i, b) /\ WriteAllocate[i] /\ Allocate(i, clean, buffer[i], onward)
      \/ i < N /\ ~Contains(i, b) /\ WriteAllocate[i] /\ Allocate(i, line, buffer[i], below)
  BY DEF WriteBackStep, contents
<1>5. clean \in Line /\ clean.block = b /\ line.fresh \in BOOLEAN
  BY DEF Line
<1> HIDE DEF onward, clean
<1>6. ASSUME \A k \in Levels : Held(k)' = Held(k), work' = below \/ (i < N /\ work' = onward)
      PROVE  ChainInv'
  BY <1>a, <1>3, <1>6, StackShrinks
<1>7. UNCHANGED <<resident, buffer>> => \A k \in Levels : Held(k)' = Held(k)
  BY HeldUnchanged
<1>8. ASSUME i < N, Contains(i, b), NEW mark \in BOOLEAN, SetDirty(i, b, mark, line.fresh)
      PROVE  \A k \in Levels : Held(k)' = Held(k)
  BY <1>0, <1>2, <1>5, <1>8, SetDirtyHolds
<1>9. ASSUME NEW put \in Line, put.block = b, NEW rest \in Seq(Task), NoEvicts(rest), i < N,
             ~Contains(i, b), WriteAllocate[i], Allocate(i, put, buffer[i], rest)
      PROVE  ChainInv'
  <2>1. i \in Levels /\ ~Exclusive(i) /\ ~Exclusive(i + 1)
    <3>1. i \in Levels /\ ~Exclusive(i)
      BY <1>2, <1>9 DEF NeverAllocatesShared, Exclusive
    <3>2. Exclusive(i + 1) => i + 1 \in Levels /\ i + 1 # 1 /\ (i + 1) - 1 = i
      BY <1>0, <1>1 DEF Exclusive
    <3> QED
      BY <1>9, <3>1, <3>2 DEF NeverAllocatesShared
  <2>2. /\ buffer[i] \in Seq(Line) /\ Distinct(buffer[i])
        /\ resident[i] \cap BlocksOf(buffer[i]) = {} /\ put.block \notin BlocksOf(buffer[i])
    BY <1>0, <1>9, <2>1 DEF LevelsOK, SingleCopy, Contains, Buffered, BlocksOf
  <2>3. OnlyLevel(i)
    BY <1>0, <1>9, <2>1, <2>2, AllocateKeeps
  <2>4. Installs(i, put.block, resident[i] \cup BlocksOf(buffer[i]), rest)
    BY <1>0, <1>9, <2>1, <2>2, AllocateHolds
  <2>5. \A e \in Levels : Exclusive(e) \/ Exclusive(e + 1) => Held(e)' \subseteq Held(e)
    <3>1. \A e \in Levels : e # i => Held(e)' = Held(e)
      BY <2>3, HeldIs DEF OnlyLevel
    <3> QED
      BY <2>1, <3>1
  <2>6. \/ work' = rest
        \/ \E out \in Line : work' = <<Evict(i, out)>> \o rest
    BY <2>4 DEF Installs
  <2> QED
    BY <1>a, <1>9, <2>1, <2>5, <2>6, StackShrinks
<1>10. Contains(i, b) /\ i < N => LineOf(i, b).dirty \in BOOLEAN
  BY <1>0, <1>2, LineOfType DEF Line
<1> QED
  BY <1>3, <1>4, <1>5, <1>6, <1>7, <1>8, <1>9, <1>10

-----------------------------------------------------------------------------
(* The inductive invariant, and the theorems.                              *)

\* A line that falls into an exclusive level is not there: not in its array, and
\* not in its victim buffer.
LEMMA ChainsAbsent == ExclusionInv => EvictsAbsent
<1> SUFFICES ASSUME ExclusionInv, work # << >>, Head(work).op = "evict", Exclusive(Head(work).level + 1)
             PROVE  Head(work).line.block \notin BlocksOf(buffer[Head(work).level + 1])
  BY DEF EvictsAbsent
<1> USE DEF ExclusionInv, InclusionInv, ConservationInv
<1> PICK t \in Task : t = Head(work)
  BY HeadType
<1>1. t \in Calls(work)
  BY CallsPop DEF TypeInv, StackOK
<1>2. FellFrom(fetch.at + 1, t)
  BY <1>1 DEF ChainInv, EvictsInChain
<1> PICK top \in Levels : top = fetch.at + 1
  BY <1>2 DEF FellFrom
<1> PICK j \in Levels : j = t.level + 1
  BY DEF Exclusive
<1>3. t.line.block \notin Held(j)
  BY <1>2, FellInto
<1> QED
  BY <1>3, HeldIs

LEMMA ExclusionInit == Init => ExclusionInv
<1> SUFFICES ASSUME Init PROVE ExclusionInv
  OBVIOUS
<1>1. work = << >> /\ pc = "idle" /\ \A k \in Levels : Held(k) = {}
  BY DEF Init, Held, Buffered
<1>2. EvictsInChain
  BY <1>1, CallsOfNone DEF EvictsInChain
<1>3. ChainInv
  BY <1>1, <1>2 DEF ChainInv, ChainsDisjoint, Missed, PlainFills, FetchClear
<1> QED
  BY <1>3, InclusionInit DEF ExclusionInv

LEMMA ExclusionStep == NeverAllocatesShared /\ ExclusionInv /\ [Next]_vars => ExclusionInv'
<1> SUFFICES ASSUME NeverAllocatesShared, ExclusionInv, [Next]_vars PROVE ExclusionInv'
  OBVIOUS
<1>1. EvictsAbsent /\ InclusionInv'
  BY ChainsAbsent, InclusionStep DEF ExclusionInv
<1>2. CASE \E b \in Blocks, store \in BOOLEAN : BeginAccess(b, store)
  BY <1>1, <1>2, BeginAccessChains DEF ExclusionInv
<1>3. CASE ProbeHit \/ ProbeVictimHit \/ ProbeMiss \/ ReachMemory
  BY <1>1, <1>3, ProbeHitChains, ProbeMissChains, ReachMemoryChains DEF ExclusionInv
<1>4. CASE Settle \/ MoveUp \/ Fill \/ Forward
  BY <1>1, <1>4, SettleChains, MoveUpChains, FillChains, ForwardChains DEF ExclusionInv
<1>5. CASE Observe \/ Issue \/ PrefetchFill \/ PrefetchDone \/ FinishAccess
  BY <1>1, <1>5, ObserveChains, IssueChains, FillChains, QuietChains DEF ExclusionInv
<1>6. CASE HandleEviction \/ BackInvalidateStep \/ WriteBackStep
  BY <1>1, <1>6, HandleEvictionChains, BackInvalidateStepChains, WriteBackStepChains DEF ExclusionInv
<1>7. CASE BeginFlush \/ FlushLine \/ FlushNextLevel \/ FinishFlush
  BY <1>1, <1>7, QuietChains, FlushLineChains DEF ExclusionInv
<1>8. CASE UNCHANGED vars
  <2>1. UNCHANGED <<resident, buffer, pc, req, fetch, work>>
    BY <1>8 DEF vars
  <2>2. \A k \in Levels : Held(k)' = Held(k)
    BY <2>1, HeldUnchanged
  <2>3. ChainsDisjoint'
    BY <2>2, SameChains DEF ExclusionInv, ChainInv
  <2>4. EvictsInChain' /\ Missed' /\ PlainFills' /\ FetchClear'
    BY <2>1 DEF ExclusionInv, ChainInv, EvictsInChain, NoEvicts, Calls, FellFrom, Missed, PlainFills,
                FetchClear, ToFill, ClearBelow, Chained, Held, Buffered
  <2> QED
    BY <1>1, <2>3, <2>4 DEF ExclusionInv, ChainInv
<1> QED
  BY <1>2, <1>3, <1>4, <1>5, <1>6, <1>7, <1>8 DEF Next, Step

\* Between two calls an exclusive level and the level above it share no block,
\* neither in their arrays nor in their victim buffers: what is fetched passes the
\* exclusive levels, what hits there moves up, and what is evicted goes to one of
\* them only.  It takes that no exclusive level allocates on its own (a store, a
\* write-back, a prefetch) and that the level above an exclusive one takes no
\* write-back.
THEOREM ExclusionIsKept == NeverAllocatesShared => (Spec => []ExclusionHolds)
<1> SUFFICES ASSUME NeverAllocatesShared PROVE Spec => []ExclusionHolds
  OBVIOUS
<1>1. ExclusionInv => ExclusionHolds
  <2> SUFFICES ASSUME ExclusionInv, NEW i \in Levels, Exclusive(i)
               PROVE  Held(i - 1) \cap Held(i) = {}
    BY DEF ExclusionHolds
  <2>1. i - 1 \in Levels /\ Chained(i - 1, i)
    <3>1. i # 0
      BY PolicyAssumption DEF Exclusive
    <3>2. i - 1 \in Levels /\ i - 1 < i /\ \A j \in Levels : i - 1 < j /\ j <= i => j = i
      BY <3>1, NAssumption DEF Levels
    <3> QED
      BY <3>2 DEF Chained
  <2> QED
    BY <2>1 DEF ExclusionInv, ChainInv, ChainsDisjoint, ClearBelow
<1>2. Init => ExclusionInv
  BY ExclusionInit
<1>3. ExclusionInv /\ [Next]_vars => ExclusionInv'
  BY ExclusionStep
<1> QED
  BY <1>1, <1>2, <1>3, PTL DEF Spec

\* Where exclusion is kept, an eviction never finds its block in the victim buffer of
\* the exclusive level below, so a victim buffer there costs neither a store nor the
\* inclusion of the other levels.
THEOREM ConservedBesideExclusion ==
  NeverAllocatesShared => (Spec => [](StoresConserved /\ InclusionHolds /\ ReferencedBlockStays
                                       /\ SnapshotCurrent))
<1> SUFFICES ASSUME NeverAllocatesShared
             PROVE  Spec => [](StoresConserved /\ InclusionHolds /\ ReferencedBlockStays /\ SnapshotCurrent)
  OBVIOUS
<1>1. ExclusionInv => StoresConserved /\ InclusionHolds /\ ReferencedBlockStays /\ SnapshotCurrent
  <2>1. ConservationInv => StoresConserved
    BY DEF ConservationInv, LinesInv, Somewhere, StoresConserved, AtLevel, DirtyBlocks, DirtyIn, Carried, InFlight
  <2> QED
    BY <2>1, InclusionImplies DEF ExclusionInv, InclusionInv
<1>2. Init => ExclusionInv
  BY ExclusionInit
<1>3. ExclusionInv /\ [Next]_vars => ExclusionInv'
  BY ExclusionStep
<1> QED
  BY <1>1, <1>2, <1>3, PTL DEF Spec

-----------------------------------------------------------------------------
(* The inductive invariant of the write-through policy.                    *)

CleanLines(lines) == \A n \in DOMAIN lines : ~lines[n].dirty

CleanLevels == \A i \in Levels : WriteThrough[i] => dirty[i] = {} /\ CleanLines(buffer[i])

\* Dirty data is filled into no write-through level: a level that took a store is the
\* last one to fill, and what moves up starts clean or leaves a write-back level.
CleanFills ==
  /\ pc \in {"probe", "settle"} /\ req.taken >= 0 => req.fillFrom = req.taken
  /\ pc = "probe" /\ req.taken >= 0 => ~req.write
  /\ pc = "move" => Exclusive(req.hit) /\ fetch.to < req.hit
  /\ pc = "issue" => ~fetch.dirty /\ fetch.to \in Levels
  /\ pc \in {"move", "fill", "prefetch"} /\ fetch.dirty /\ fetch.to \in Levels => ~WriteThrough[fetch.to]

CleanInv == TypeInv /\ CleanLevels /\ CleanFills

-----------------------------------------------------------------------------
(* What the primitives of Cache do to a level without dirty lines.         *)

LEMMA WithoutClean ==
  ASSUME NEW lines \in Seq(Line), CleanLines(lines), NEW b
  PROVE  CleanLines(Without(lines, b))
<1>1. CASE \E n \in DOMAIN lines : lines[n].block = b
  <2> DEFINE m == CHOOSE n \in DOMAIN lines : lines[n].block = b
  <2>1. m \in 1 .. Len(lines) /\ DOMAIN lines = 1 .. Len(lines) /\ Len(lines) \in Nat
    BY <1>1
  <2>2. Without(lines, b) = Ext!RemoveAt(lines, m)
    BY <1>1 DEF Without
  <2> HIDE DEF m
  <2>3. /\ DOMAIN Ext!RemoveAt(lines, m) = 1 .. Len(lines) - 1
        /\ \A k \in 1 .. Len(lines) - 1 : Ext!RemoveAt(lines, m)[k] = IF k < m THEN lines[k] ELSE lines[k + 1]
    BY <2>1, RemoveAtElements
  <2>4. \A k \in 1 .. Len(lines) - 1 : k \in DOMAIN lines /\ k + 1 \in DOMAIN lines
    BY <2>1
  <2> QED
    BY <2>2, <2>3, <2>4 DEF CleanLines
<1>2. CASE ~ \E n \in DOMAIN lines : lines[n].block = b
  BY <1>2 DEF Without
<1> QED
  BY <1>1, <1>2

LEMMA PushedClean ==
  ASSUME NEW lines \in Seq(Line), CleanLines(lines), NEW line \in Line, ~line.dirty
  PROVE  CleanLines(Pushed(lines, line)) /\ CleanLines(Tail(Pushed(lines, line)))
<1> PICK kept \in Seq(Line) : kept = Without(lines, line.block) /\ CleanLines(kept)
  BY WithoutType, WithoutClean
<1> DEFINE new == Append(kept, line)
<1>1. /\ DOMAIN new = 1 .. Len(kept) + 1 /\ DOMAIN kept = 1 .. Len(kept) /\ Len(kept) \in Nat
      /\ \A n \in DOMAIN kept : new[n] = kept[n]
      /\ new[Len(kept) + 1] = line /\ new \in Seq(Line) /\ new # << >>
  BY AppendProperties
<1>2. /\ \A n \in DOMAIN Tail(new) : Tail(new)[n] = new[n + 1] /\ n + 1 \in DOMAIN new
  BY <1>1, HeadTailProperties
<1>3. Pushed(lines, line) = new
  BY DEF Pushed
<1> HIDE DEF new
<1>4. \A n \in DOMAIN new : n \in DOMAIN kept \/ n = Len(kept) + 1
  BY <1>1
<1>5. CleanLines(new)
  BY <1>1, <1>4 DEF CleanLines
<1> QED
  BY <1>2, <1>3, <1>5 DEF CleanLines

\* The entry of a block becomes a clean one.
LEMMA ReplacedClean ==
  ASSUME NEW lines, CleanLines(lines), NEW b, NEW line,
         (\E n \in DOMAIN lines : lines[n].block = b) => ~line.dirty
  PROVE  CleanLines(Replaced(lines, b, line))
<1> DEFINE new == Replaced(lines, b, line)
<1>1. /\ DOMAIN new = DOMAIN lines
      /\ \A n \in DOMAIN lines : new[n] = IF lines[n].block = b THEN line ELSE lines[n]
  BY DEF Replaced
<1> HIDE DEF new
<1>2. CleanLines(new)
  BY <1>1 DEF CleanLines
<1> QED
  BY <1>2 DEF new

\* A write-through level finds its lines clean.
LEMMA LineClean ==
  ASSUME LevelsOK, CleanLevels, NEW i \in Levels, WriteThrough[i], NEW b
  PROVE  /\ b \in Buffered(i) => ~BufferedLine(i, b).dirty
         /\ Contains(i, b) => ~LineOf(i, b).dirty
<1>1. ASSUME b \in Buffered(i)
      PROVE  ~BufferedLine(i, b).dirty
  <2> DEFINE m == CHOOSE n \in DOMAIN buffer[i] : buffer[i][n].block = b
  <2>1. m \in DOMAIN buffer[i] /\ BufferedLine(i, b) = buffer[i][m]
    BY <1>1 DEF Buffered, BufferedLine
  <2> HIDE DEF m
  <2> QED
    BY <2>1 DEF CleanLevels, CleanLines
<1>2. b \in resident[i] => ~ArrayLine(i, b).dirty
  BY DEF CleanLevels, ArrayLine
<1> QED
  BY <1>1, <1>2 DEF Contains, LineOf

\* A step that changes one level, and leaves it clean.
LEMMA CleanStep ==
  ASSUME CleanLevels, NEW i \in Levels,
         \A k \in Levels : k # i => dirty'[k] = dirty[k] /\ buffer'[k] = buffer[k],
         WriteThrough[i] => dirty'[i] = {} /\ CleanLines(buffer'[i])
  PROVE  CleanLevels'
  BY DEF CleanLevels

\* Cache.allocate of a clean line, or in a write-back level.
LEMMA AllocateClean ==
  ASSUME LevelsOK, CleanLevels, NEW i \in Levels, NEW line \in Line, NEW lines \in Seq(Line), NEW rest,
         WriteThrough[i] => ~line.dirty /\ CleanLines(lines), Allocate(i, line, lines, rest)
  PROVE  CleanLevels'
<1> USE DEF LevelsOK
<1>1. CASE /\ dirty' = [dirty EXCEPT ![i] = IF line.dirty THEN dirty[i] \cup {line.block} ELSE dirty[i]]
           /\ buffer' = [buffer EXCEPT ![i] = lines]
  BY <1>1 DEF CleanLevels
<1>2. ASSUME NEW out, Place(i, line, out), NEW new, buffer' = [buffer EXCEPT ![i] = new],
             WriteThrough[i] => CleanLines(new)
      PROVE  CleanLevels'
  <2>1. dirty' = [dirty EXCEPT ![i] = With(dirty[i] \ out, line.block, line.dirty)]
    BY <1>2 DEF Place
  <2>2. WriteThrough[i] => dirty'[i] = {} /\ CleanLines(buffer'[i])
    BY <1>2, <2>1 DEF CleanLevels, With
  <2> QED
    BY <1>2, <2>1, <2>2 DEF CleanLevels
<1>3. ASSUME NEW victim \in SetMates(i, line.block)
      PROVE  /\ ArrayLine(i, victim) \in Line
             /\ WriteThrough[i] => /\ CleanLines(Pushed(lines, ArrayLine(i, victim)))
                                   /\ CleanLines(Tail(Pushed(lines, ArrayLine(i, victim))))
  <2> DEFINE out == ArrayLine(i, victim)
  <2>1. out \in Line /\ (out.dirty <=> victim \in dirty[i])
    <3>1. victim \in Blocks
      BY DEF SetMates
    <3>2. out.dirty = (victim \in dirty[i])
      BY DEF ArrayLine
    <3>3. out \in Line
      BY <3>1 DEF ArrayLine, Line
    <3> HIDE DEF out
    <3> QED
      BY <3>2, <3>3
  <2> HIDE DEF out
  <2>2. WriteThrough[i] => CleanLines(Pushed(lines, out)) /\ CleanLines(Tail(Pushed(lines, out)))
    BY <2>1, PushedClean DEF CleanLevels
  <2> QED
    BY <2>1, <2>2 DEF out
<1> QED
  BY <1>1, <1>2, <1>3 DEF Allocate

LEMMA InvalidateClean ==
  ASSUME LevelsOK, CleanLevels, NEW k \in Levels, NEW b, Invalidate(k, b)
  PROVE  CleanLevels'
<1> USE DEF LevelsOK
<1>1. CASE b \in resident[k]
  <2>1. dirty' = [dirty EXCEPT ![k] = dirty[k] \ {b}] /\ buffer' = buffer
    BY <1>1 DEF Invalidate
  <2> QED
    BY <2>1 DEF CleanLevels
<1>2. CASE b \notin resident[k]
  <2>1. buffer' = [buffer EXCEPT ![k] = Without(buffer[k], b)] /\ dirty' = dirty
    BY <1>2 DEF Invalidate
  <2>2. WriteThrough[k] => CleanLines(Without(buffer[k], b))
    BY WithoutClean DEF CleanLevels
  <2> QED
    BY <2>1, <2>2 DEF CleanLevels
<1> QED
  BY <1>1, <1>2

\* A buffered line is given other flags.
LEMMA RelabelClean ==
  ASSUME LevelsOK, CleanLevels, NEW i \in Levels, NEW b, NEW line,
         buffer' = [buffer EXCEPT ![i] = Replaced(buffer[i], b, line)], dirty' = dirty,
         WriteThrough[i] /\ b \in Buffered(i) => ~line.dirty
  PROVE  CleanLevels'
<1>1. WriteThrough[i] => CleanLines(Replaced(buffer[i], b, line))
  BY ReplacedClean DEF CleanLevels, Buffered
<1> QED
  BY <1>1 DEF CleanLevels, LevelsOK

LEMMA SetDirtyClean ==
  ASSUME LevelsOK, CleanLevels, NEW i \in Levels, NEW b, NEW mark \in BOOLEAN, NEW current,
         WriteThrough[i] => ~mark, SetDirty(i, b, mark, current)
  PROVE  CleanLevels'
<1>1. CASE b \in resident[i]
  BY <1>1 DEF SetDirty, CleanLevels, LevelsOK, With
<1>2. CASE b \notin resident[i]
  <2> DEFINE line == [BufferedLine(i, b) EXCEPT !.dirty = mark, !.fresh = current]
  <2>1. buffer' = [buffer EXCEPT ![i] = Replaced(buffer[i], b, line)] /\ dirty' = dirty
    BY <1>2 DEF SetDirty
  <2>2. b \in Buffered(i) => line.dirty = mark
    BY BufferedLineType DEF Line
  <2> HIDE DEF line
  <2> QED
    BY <2>1, <2>2, RelabelClean
<1> QED
  BY <1>1, <1>2

-----------------------------------------------------------------------------
(* The steps keep the write-through levels clean.                          *)

\* A store that hits leaves the line of a write-through level clean.
LEMMA HitAtClean ==
  ASSUME CleanInv, pc = "probe", NEW i \in Levels, req' = HitAt(i), pc' = "settle"
  PROVE  CleanFills'
<1>1. req \in Request
  BY DEF CleanInv, TypeInv, LocalsOK
<1>2. req'.taken = (IF req.write THEN i ELSE req.taken) /\ req'.fillFrom = (IF req.write THEN i ELSE req.fillFrom)
  BY <1>1 DEF HitAt, Request
<1> QED
  BY <1>2 DEF CleanInv, CleanFills

LEMMA ProbeHitClean ==
  ASSUME CleanInv, ProbeHit
  PROVE  CleanLevels' /\ CleanFills'
<1> PICK b : b = req.block
  OBVIOUS
<1> PICK i \in Levels : i = req.level
  BY NAssumption DEF ProbeHit, CleanInv, TypeInv, LocalsOK, Request, Levels
<1>1. /\ dirty' = [dirty EXCEPT ![i] = With(dirty[i], b, DirtyAfterHit(i, b \in dirty[i]))] /\ buffer' = buffer
      /\ pc = "probe" /\ pc' = "settle" /\ req' = HitAt(i) /\ LevelsOK
  BY DEF ProbeHit, CleanInv, TypeInv
<1>2. CleanLevels'
  BY <1>1 DEF CleanInv, CleanLevels, LevelsOK, With, DirtyAfterHit
<1> QED
  BY <1>1, <1>2, HitAtClean

LEMMA ProbeVictimHitClean ==
  ASSUME CleanInv, ProbeVictimHit
  PROVE  CleanLevels' /\ CleanFills'
<1> PICK i \in Levels, b \in Blocks : i = req.level /\ b = req.block
  BY NAssumption DEF ProbeVictimHit, CleanInv, TypeInv, LocalsOK, Request, Levels
<1> DEFINE put == [LineOf(i, b) EXCEPT !.dirty = DirtyAfterHit(i, LineOf(i, b).dirty)]
<1>1. /\ Allocate(i, put, Without(buffer[i], b), << >>) /\ Contains(i, b)
      /\ pc = "probe" /\ pc' = "settle" /\ req' = HitAt(i) /\ LevelsOK /\ req \in Request
  BY DEF ProbeVictimHit, Contains, CleanInv, TypeInv, LocalsOK
<1>2. put \in Line /\ put.dirty = DirtyAfterHit(i, LineOf(i, b).dirty)
  <2> PICK line \in Line : line = LineOf(i, b)
    BY <1>1, LineOfType
  <2>1. DirtyAfterHit(i, line.dirty) \in BOOLEAN
    BY DEF DirtyAfterHit
  <2> QED
    BY <2>1 DEF Line
<1> HIDE DEF put
<1>3. WriteThrough[i] => ~put.dirty
  BY <1>1, <1>2, LineClean DEF CleanInv, DirtyAfterHit
<1>4. /\ Without(buffer[i], b) \in Seq(Line)
      /\ WriteThrough[i] => CleanLines(Without(buffer[i], b))
  BY <1>1, WithoutType, WithoutClean DEF CleanInv, CleanLevels, LevelsOK
<1>5. CleanLevels'
  BY <1>1, <1>2, <1>3, <1>4, AllocateClean DEF CleanInv
<1> QED
  BY <1>1, <1>5, HitAtClean

\* A step that changes no level.
LEMMA SameClean ==
  ASSUME CleanLevels, UNCHANGED <<dirty, buffer>>
  PROVE  CleanLevels'
  BY DEF CleanLevels

LEMMA MissClean ==
  ASSUME CleanInv, (\E b \in Blocks, store \in BOOLEAN : BeginAccess(b, store)) \/ ProbeMiss \/ ReachMemory
  PROVE  CleanLevels' /\ CleanFills'
<1>1. CleanLevels'
  BY SameClean DEF BeginAccess, ProbeMiss, ReachMemory, contents, CleanInv
<1>0. req \in Request
  BY DEF CleanInv, TypeInv, LocalsOK
<1>2. CASE \E b \in Blocks, store \in BOOLEAN : BeginAccess(b, store)
  <2>1. pc' = "probe" /\ req'.taken = -1
    BY <1>2 DEF BeginAccess, NoRequest
  <2> QED
    BY <1>1, <2>1 DEF CleanFills
<1>3. CASE ProbeMiss
  <2> DEFINE takes == req.write /\ WriteAllocate[req.level]
  <2>1. /\ pc = "probe" /\ pc' = "probe"
        /\ req' = [req EXCEPT !.level = req.level + 1,
                              !.write = req.write /\ ~takes,
                              !.taken = IF takes THEN req.level ELSE req.taken,
                              !.fillFrom = IF takes THEN req.level ELSE req.fillFrom,
                              !.forward = IF takes /\ WriteThrough[req.level] THEN req.level + 1 ELSE req.forward]
    BY <1>3 DEF ProbeMiss
  <2>2. /\ req'.taken = (IF takes THEN req.level ELSE req.taken)
        /\ req'.fillFrom = (IF takes THEN req.level ELSE req.fillFrom)
        /\ req'.write = (req.write /\ ~takes)
    BY <1>0, <2>1 DEF Request
  <2> HIDE DEF takes
  <2>3. takes => req.write
    BY DEF takes
  <2> QED
    BY <1>1, <2>1, <2>2, <2>3 DEF CleanInv, CleanFills
<1>4. CASE ReachMemory
  <2>1. /\ pc = "probe" /\ pc' = "settle" /\ req'.taken = req.taken
        /\ req'.fillFrom = (IF req.write THEN N ELSE req.fillFrom)
    BY <1>0, <1>4 DEF ReachMemory, Request
  <2> QED
    BY <1>1, <2>1 DEF CleanInv, CleanFills
<1> QED
  BY <1>2, <1>3, <1>4

LEMMA SettleClean ==
  ASSUME CleanInv, Settle
  PROVE  CleanLevels' /\ CleanFills'
<1> PICK b : b = req.block
  OBVIOUS
<1>0. /\ pc = "settle" /\ req' = req /\ req \in Request /\ LevelsOK /\ dirty' = dirty
      /\ fetch'.to = req.fillFrom /\ fetch'.dirty = (req.taken >= 0 /\ ~WriteThrough[req.taken])
      /\ pc' \in {"move", "fill"} /\ (pc' = "move" => MovesUp(req))
      /\ buffer' = [i \in Levels |-> IF req.taken >= 0 THEN Superseded(i, b) ELSE buffer[i]]
  BY DEF Settle, CleanInv, TypeInv, LocalsOK
<1>1. \A i \in Levels : WriteThrough[i] => CleanLines(Superseded(i, b))
  <2> SUFFICES ASSUME NEW i \in Levels, WriteThrough[i] PROVE CleanLines(Superseded(i, b))
    OBVIOUS
  <2> DEFINE line == [BufferedLine(i, b) EXCEPT !.fresh = FALSE]
  <2>1. b \in Buffered(i) => ~line.dirty
    BY <1>0, BufferedLineType, LineClean DEF Line, CleanInv
  <2>2. CleanLines(buffer[i])
    BY DEF CleanInv, CleanLevels
  <2> HIDE DEF line
  <2>3. CleanLines(Replaced(buffer[i], b, line))
    BY <2>1, <2>2, ReplacedClean DEF Buffered
  <2> QED
    BY <2>3 DEF Superseded, line
<1>2. CleanLevels'
  BY <1>0, <1>1 DEF CleanInv, CleanLevels
<1>3. CleanFills'
  BY <1>0 DEF CleanInv, CleanFills, MovesUp
<1> QED
  BY <1>2, <1>3

\* A dirty line moves up out of an exclusive level into a write-back one.
LEMMA MovesClean ==
  ASSUME CleanInv, NoDirtyMovesIntoWriteThrough, NEW k \in Levels, NEW b, Exclusive(k), Contains(k, b),
         LineOf(k, b).dirty, NEW i \in Levels, i < k
  PROVE  ~WriteThrough[i]
<1>1. ~WriteThrough[k]
  BY LineClean DEF CleanInv, TypeInv
<1> QED
  BY <1>1 DEF NoDirtyMovesIntoWriteThrough

LEMMA MoveUpClean ==
  ASSUME CleanInv, NoDirtyMovesIntoWriteThrough, MoveUp
  PROVE  CleanLevels' /\ CleanFills'
<1> PICK hit \in Levels, b \in Blocks : hit = req.hit /\ b = fetch.block
  BY NAssumption DEF MoveUp, CleanInv, TypeInv, LocalsOK, HitHolds, Request, Levels
<1>0. /\ pc = "move" /\ pc' = "fill" /\ Contains(hit, b) /\ Invalidate(hit, b) /\ LevelsOK
      /\ fetch \in Fetch /\ fetch' = [fetch EXCEPT !.dirty = fetch.dirty \/ LineOf(hit, b).dirty]
      /\ Exclusive(hit) /\ fetch.to < hit
  BY DEF MoveUp, CleanInv, CleanFills, TypeInv, LocalsOK, HitHolds
<1>1. fetch'.to = fetch.to /\ fetch'.dirty = (fetch.dirty \/ LineOf(hit, b).dirty)
  BY <1>0 DEF Fetch
<1>2. CleanLevels'
  BY <1>0, InvalidateClean DEF CleanInv
<1>3. fetch'.dirty /\ fetch.to \in Levels => ~WriteThrough[fetch.to]
  BY <1>0, <1>1, MovesClean DEF CleanInv, CleanFills
<1> QED
  BY <1>0, <1>1, <1>2, <1>3 DEF CleanFills

LEMMA FillClean ==
  ASSUME CleanInv, Fill \/ PrefetchFill
  PROVE  CleanLevels' /\ CleanFills'
<1> PICK i \in Levels, b \in Blocks : i = fetch.at /\ b = fetch.block
  BY NAssumption DEF Fill, PrefetchFill, FillStep, CleanInv, TypeInv, LocalsOK, Fetch, Levels
<1> PICK speculative \in BOOLEAN : FillStep(speculative)
  BY DEF Fill, PrefetchFill
<1>0. /\ pc \in {"fill", "prefetch"} /\ fetch \in Fetch /\ UNCHANGED pc /\ LevelsOK
      /\ fetch' = [fetch EXCEPT !.at = i - 1]
  BY DEF Fill, PrefetchFill, FillStep, CleanInv, TypeInv, LocalsOK
<1>1. fetch'.dirty = fetch.dirty /\ fetch'.to = fetch.to
  BY <1>0 DEF Fetch
<1>2. CleanFills'
  BY <1>0, <1>1 DEF CleanInv, CleanFills
<1>3. CASE Passes(i)
  BY <1>2, <1>3, SameClean DEF FillStep, contents, CleanInv
<1>4. CASE ~Passes(i)
  <2> DEFINE last == i = fetch.to
             put == [block |-> b, dirty |-> fetch.dirty /\ last, prefetched |-> speculative /\ last,
                     fresh |-> FilledCurrent(speculative, i)]
  <2>1. Allocate(i, put, buffer[i], << >>)
    BY <1>4 DEF FillStep
  <2>2. put \in Line /\ put.dirty = (fetch.dirty /\ last)
    <3>1. /\ (fetch.dirty /\ last) \in BOOLEAN /\ (speculative /\ last) \in BOOLEAN
          /\ FilledCurrent(speculative, i) \in BOOLEAN
      BY <1>0 DEF Fetch, FilledCurrent
    <3> HIDE DEF last
    <3> QED
      BY <3>1 DEF Line
  <2>3. WriteThrough[i] => ~(fetch.dirty /\ last)
    BY <1>0 DEF CleanInv, CleanFills
  <2>4. buffer[i] \in Seq(Line) /\ (WriteThrough[i] => CleanLines(buffer[i]))
    BY <1>0 DEF CleanInv, CleanLevels, LevelsOK
  <2> HIDE DEF put, last
  <2>5. CleanLevels'
    BY <1>0, <2>1, <2>2, <2>3, <2>4, AllocateClean DEF CleanInv
  <2> QED
    BY <1>2, <2>5
<1> QED
  BY <1>3, <1>4

\* A prefetch starts clean, at a level that is then the last one to fill.
LEMMA ObserveClean ==
  ASSUME CleanInv, Observe
  PROVE  CleanLevels' /\ CleanFills'
<1> PICK b : b = req.block
  OBVIOUS
<1> PICK i \in Levels : i = req.level
  BY NAssumption DEF Observe, CleanInv, TypeInv, LocalsOK, Request, Levels, Deepest
<1>0. pc = "observe" /\ LevelsOK /\ dirty' = dirty /\ (buffer' = buffer \/ ClearPrefetched(i, b))
  BY DEF Observe, CleanInv, TypeInv
<1>1. CleanLevels'
  <2>1. CASE buffer' = buffer
    BY <1>0, <2>1, SameClean DEF CleanInv
  <2>2. CASE buffer' # buffer
    <3> DEFINE line == [BufferedLine(i, b) EXCEPT !.prefetched = FALSE]
    <3>1. buffer' = [buffer EXCEPT ![i] = Replaced(buffer[i], b, line)]
      BY <1>0, <2>2 DEF ClearPrefetched
    <3>2. WriteThrough[i] /\ b \in Buffered(i) => ~line.dirty
      BY <1>0, BufferedLineType, LineClean DEF Line, CleanInv
    <3> HIDE DEF line
    <3> QED
      BY <1>0, <3>1, <3>2, RelabelClean DEF CleanInv
  <2> QED
    BY <2>1, <2>2
<1>2. CleanFills'
  <2>1. \/ pc' = "observe"
        \/ pc' = "issue" /\ \E target : fetch' = [NoFetch EXCEPT !.block = target, !.to = i, !.keep = i]
    BY <1>0 DEF Observe
  <2>2. pc' = "issue" => ~fetch'.dirty /\ fetch'.to = i
    BY <2>1 DEF NoFetch
  <2> QED
    BY <2>1, <2>2 DEF CleanFills
<1> QED
  BY <1>1, <1>2

LEMMA IssueClean ==
  ASSUME CleanInv, NoDirtyMovesIntoWriteThrough, Issue
  PROVE  CleanLevels' /\ CleanFills'
<1> PICK b : b = fetch.block
  OBVIOUS
<1> PICK to \in Levels : to = fetch.to
  BY DEF Issue, CleanInv, CleanFills
<1>0. pc = "issue" /\ pc' = "prefetch" /\ fetch \in Fetch /\ ~fetch.dirty /\ LevelsOK
  BY DEF Issue, CleanInv, CleanFills, TypeInv, LocalsOK
<1>1. CASE fetch' = [fetch EXCEPT !.at = N - 1, !.fresh = b \in memory] /\ UNCHANGED contents
  <2>1. ~fetch'.dirty
    BY <1>0, <1>1 DEF Fetch
  <2> QED
    BY <1>0, <1>1, <2>1, SameClean DEF contents, CleanInv, CleanFills
<1>2. ASSUME NEW source \in Levels, source > to, Contains(source, b),
             fetch' = [fetch EXCEPT !.at = source - 1,
                                    !.dirty = HandedDirty(source, b),
                                    !.fresh = LineOf(source, b).fresh],
             Invalidate(source, b) \/ UNCHANGED contents
      PROVE  CleanLevels' /\ CleanFills'
  <2>1. CleanLevels'
    BY <1>0, <1>2, InvalidateClean, SameClean DEF contents, CleanInv
  <2>2. fetch'.dirty = HandedDirty(source, b) /\ fetch'.to = to
    BY <1>0, <1>2 DEF Fetch
  <2>3. HandedDirty(source, b) => ~WriteThrough[to]
    <3>1. to < source
      BY <1>2 DEF Levels
    <3> QED
      BY <1>2, <3>1, MovesClean DEF HandedDirty
  <2> QED
    BY <1>0, <2>1, <2>2, <2>3 DEF CleanFills
<1>3. \/ fetch' = [fetch EXCEPT !.at = N - 1, !.fresh = b \in memory] /\ UNCHANGED contents
      \/ \E source \in Levels :
           /\ source > to /\ Contains(source, b)
           /\ fetch' = [fetch EXCEPT !.at = source - 1,
                                     !.dirty = HandedDirty(source, b),
                                     !.fresh = LineOf(source, b).fresh]
           /\ Invalidate(source, b) \/ UNCHANGED contents
  BY DEF Issue
<1> QED
  BY <1>1, <1>2, <1>3

\* The steps that change no level, and start no fill.
LEMMA QuietClean ==
  ASSUME CleanInv,
         Forward \/ PrefetchDone \/ FinishAccess \/ BeginFlush \/ FlushNextLevel \/ FinishFlush
  PROVE  CleanLevels' /\ CleanFills'
<1>1. UNCHANGED <<dirty, buffer>> /\ pc' \in {"observe", "idle", "flush"}
  BY DEF Forward, PrefetchDone, FinishAccess, BeginFlush, FlushNextLevel, FinishFlush, Returned, contents
<1> QED
  BY <1>1, SameClean DEF CleanInv, CleanFills

\* A call leaves the locals of the entry point alone.
LEMMA StackClean ==
  ASSUME CleanInv, UNCHANGED <<pc, req, fetch>>
  PROVE  CleanFills'
  BY DEF CleanInv, CleanFills

\* A write-through exclusive level takes evicted lines clean.
LEMMA HandleEvictionClean ==
  ASSUME CleanInv, HandleEviction
  PROVE  CleanLevels' /\ CleanFills'
<1>a. work # << >> /\ Head(work).op = "evict" /\ UNCHANGED <<pc, req, fetch>>
  BY DEF HandleEviction
<1> PICK i \in Levels, line \in Line : i = Head(work).level /\ line = Head(work).line
  BY <1>a, HeadType DEF CleanInv
<1>1. CASE ~Exclusive(i + 1)
  BY <1>a, <1>1, SameClean, StackClean DEF HandleEviction, Below, contents, CleanInv
<1>2. CASE Exclusive(i + 1)
  <2> PICK j \in Levels : j = i + 1
    BY <1>2 DEF Exclusive
  <2> DEFINE put == [line EXCEPT !.dirty = line.dirty /\ ~WriteThrough[j], !.prefetched = FALSE]
  <2>1. \E rest : Allocate(j, put, buffer[j], rest)
    BY <1>2 DEF HandleEviction, Below
  <2>2. put \in Line /\ put.dirty = (line.dirty /\ ~WriteThrough[j])
    <3>1. (line.dirty /\ ~WriteThrough[j]) \in BOOLEAN
      OBVIOUS
    <3> QED
      BY <3>1 DEF Line
  <2>3. LevelsOK /\ buffer[j] \in Seq(Line) /\ (WriteThrough[j] => CleanLines(buffer[j]))
    BY DEF CleanInv, TypeInv, CleanLevels, LevelsOK
  <2> HIDE DEF put
  <2>4. CleanLevels'
    BY <2>1, <2>2, <2>3, AllocateClean DEF CleanInv
  <2> QED
    BY <1>a, <2>4, StackClean
<1> QED
  BY <1>1, <1>2

LEMMA BackInvalidateStepClean ==
  ASSUME CleanInv, BackInvalidateStep
  PROVE  CleanLevels' /\ CleanFills'
<1>a. work # << >> /\ Head(work).op = "backInvalidate" /\ UNCHANGED <<pc, req, fetch>>
  BY DEF BackInvalidateStep
<1> PICK i \in Levels, nth \in 0 .. N, b \in Blocks :
      i = Head(work).level /\ nth = Head(work).nth /\ b = Head(work).line.block
  BY <1>a, HeadType DEF CleanInv
<1> PICK k \in Int : k = NthAbove(i, nth) /\ k = i - 1 - nth
  BY NAssumption DEF NthAbove, Levels
<1>1. nth < i => k \in Levels
  BY NAssumption DEF Levels
<1>2. (nth < i /\ Invalidate(k, b)) \/ UNCHANGED contents
  BY DEF BackInvalidateStep
<1>3. CleanLevels'
  BY <1>1, <1>2, InvalidateClean, SameClean DEF contents, CleanInv, TypeInv
<1> QED
  BY <1>a, <1>3, StackClean

\* A write-back leaves a write-through level's copy as clean as it was.
LEMMA WriteBackStepClean ==
  ASSUME CleanInv, WriteBackStep
  PROVE  CleanLevels' /\ CleanFills'
<1>a. work # << >> /\ Head(work).op = "writeBack" /\ UNCHANGED <<pc, req, fetch>>
  BY DEF WriteBackStep
<1> PICK i \in 0 .. N, line \in Line, b \in Blocks :
      i = Head(work).level /\ line = Head(work).line /\ b = line.block
  BY <1>a, HeadType DEF CleanInv
<1> DEFINE clean == [line EXCEPT !.dirty = FALSE]
<1>0. LevelsOK /\ (i < N => i \in Levels) /\ clean \in Line /\ ~clean.dirty
  <2>1. LevelsOK /\ (i < N => i \in Levels)
    BY NAssumption DEF CleanInv, TypeInv, Levels
  <2> QED
    BY <2>1 DEF Line
<1>1. \/ UNCHANGED <<dirty, buffer>>
      \/ i < N /\ WriteThrough[i] /\ Contains(i, b) /\ SetDirty(i, b, LineOf(i, b).dirty, line.fresh)
      \/ i < N /\ ~WriteThrough[i] /\ SetDirty(i, b, TRUE, line.fresh)
      \/ i < N /\ \E rest : Allocate(i, clean, buffer[i], rest)
      \/ i < N /\ ~WriteThrough[i] /\ \E rest : Allocate(i, line, buffer[i], rest)
  BY DEF WriteBackStep, contents
<1> HIDE DEF clean
<1>2. CASE i < N /\ WriteThrough[i] /\ Contains(i, b) /\ SetDirty(i, b, LineOf(i, b).dirty, line.fresh)
  <2>1. LineOf(i, b).dirty \in BOOLEAN /\ ~LineOf(i, b).dirty
    BY <1>0, <1>2, LineOfType, LineClean DEF CleanInv, Line
  <2> QED
    BY <1>a, <1>0, <1>2, <2>1, SetDirtyClean, StackClean DEF CleanInv
<1>3. CASE i < N /\ ~WriteThrough[i] /\ SetDirty(i, b, TRUE, line.fresh)
  BY <1>a, <1>0, <1>3, SetDirtyClean, StackClean DEF CleanInv
<1>4. ASSUME i < N, NEW put \in Line, WriteThrough[i] => ~put.dirty,
             \E rest : Allocate(i, put, buffer[i], rest)
      PROVE  CleanLevels' /\ CleanFills'
  <2>1. buffer[i] \in Seq(Line) /\ (WriteThrough[i] => CleanLines(buffer[i]))
    BY <1>0, <1>4 DEF CleanInv, CleanLevels, LevelsOK
  <2> QED
    BY <1>a, <1>0, <1>4, <2>1, AllocateClean, StackClean DEF CleanInv
<1> QED
  BY <1>a, <1>0, <1>1, <1>2, <1>3, <1>4, SameClean, StackClean DEF CleanInv

LEMMA FlushLineClean ==
  ASSUME CleanInv, FlushLine
  PROVE  CleanLevels' /\ CleanFills'
<1> PICK i \in Levels : i = FlushLevel(req.level)
  BY DEF FlushLine, CleanInv, TypeInv, LocalsOK, FlushLevel
<1>1. UNCHANGED <<pc, req, fetch>>
  BY DEF FlushLine
<1>2. UNCHANGED contents \/ \E b, current : SetDirty(i, b, FALSE, current)
  BY DEF FlushLine
<1> QED
  BY <1>1, <1>2, SetDirtyClean, SameClean, StackClean DEF contents, CleanInv, TypeInv

LEMMA CleanInvStep == NoDirtyMovesIntoWriteThrough /\ CleanInv /\ [Next]_vars => CleanInv'
<1> SUFFICES ASSUME NoDirtyMovesIntoWriteThrough, CleanInv, [Next]_vars PROVE CleanInv'
  OBVIOUS
<1>1. TypeInv'
  BY TypeInvStep DEF CleanInv
<1>2. CASE (\E b \in Blocks, store \in BOOLEAN : BeginAccess(b, store)) \/ ProbeMiss \/ ReachMemory
  BY <1>1, <1>2, MissClean DEF CleanInv
<1>3. CASE ProbeHit \/ ProbeVictimHit
  BY <1>1, <1>3, ProbeHitClean, ProbeVictimHitClean DEF CleanInv
<1>4. CASE Settle \/ MoveUp \/ Fill \/ PrefetchFill
  BY <1>1, <1>4, SettleClean, MoveUpClean, FillClean DEF CleanInv
<1>5. CASE Observe \/ Issue
  BY <1>1, <1>5, ObserveClean, IssueClean DEF CleanInv
<1>6. CASE HandleEviction \/ BackInvalidateStep \/ WriteBackStep
  BY <1>1, <1>6, HandleEvictionClean, BackInvalidateStepClean, WriteBackStepClean DEF CleanInv
<1>7. CASE FlushLine
  BY <1>1, <1>7, FlushLineClean DEF CleanInv
<1>8. CASE Forward \/ PrefetchDone \/ FinishAccess \/ BeginFlush \/ FlushNextLevel \/ FinishFlush
  BY <1>1, <1>8, QuietClean DEF CleanInv
<1>9. CASE UNCHANGED vars
  BY <1>1, <1>9, SameClean, StackClean DEF vars, CleanInv
<1> QED
  BY <1>2, <1>3, <1>4, <1>5, <1>6, <1>7, <1>8, <1>9 DEF Next, Step

\* Between two calls a write-through level has no dirty line, in its array or in its
\* victim buffer, as long as no exclusive write-back level is below it: a store that hits is cleaned
\* again, a fill is clean, and write-backs and evicted lines are installed clean and
\* carried on.
THEOREM WriteThroughStaysClean == NoDirtyMovesIntoWriteThrough => (Spec => []WriteThroughClean)
<1> SUFFICES ASSUME NoDirtyMovesIntoWriteThrough PROVE Spec => []WriteThroughClean
  OBVIOUS
<1>1. CleanInv => WriteThroughClean
  BY DEF CleanInv, CleanLevels, CleanLines, WriteThroughClean, DirtyIn
<1>2. Init => CleanInv
  <2> SUFFICES ASSUME Init PROVE CleanLevels /\ CleanFills
    BY TypeInvInit DEF CleanInv
  <2> QED
    BY DEF Init, CleanLevels, CleanLines, CleanFills
<1>3. CleanInv /\ [Next]_vars => CleanInv'
  BY CleanInvStep
<1> QED
  BY <1>1, <1>2, <1>3, PTL DEF Spec
=============================================================================
