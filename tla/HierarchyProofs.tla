--------------------------- MODULE HierarchyProofs ---------------------------
(***************************************************************************)
(* Theorems about module Hierarchy, for every number of levels, geometry,  *)
(* and choice of policies.                                                 *)
(*                                                                         *)
(*   TypeCorrect      the type invariant;                                  *)
(*   VictimHitIsQuiet a victim-buffer hit pushes no line out of its level; *)
(*   NoStoreIsLost    modified data is in a level, in a call or in the     *)
(*                    access in progress until memory is written, as long  *)
(*                    as no exclusive level has a victim buffer.           *)
(*                                                                         *)
(* The first two come from the inductive invariant TypeInv, which adds to  *)
(* the types what the locals of the running call mean.                     *)
(*                                                                         *)
(* StoresConserved says where modified data is; it is not inductive.  An   *)
(* eviction may drop data if the line pushed into a victim buffer replaces *)
(* an older line of its block there, so a level must have one copy of a    *)
(* block (SingleCopy).  That takes every fill to find the block absent     *)
(* from the victim buffer it fills beside (FillsAbsent), although          *)
(* evictions run between two fills: they stay below the level filled next  *)
(* (WorkBelow).  And the data in the locals of access() ends up in the     *)
(* last level filled only if that level is not passed (ReqFacts,           *)
(* FetchFacts).                                                            *)
(***************************************************************************)
EXTENDS Hierarchy, SequenceTheorems, TLAPS

-----------------------------------------------------------------------------
(* The parts of the inductive invariant of TypeCorrect.                    *)

\* The lines of every level.
LevelsOK ==
  /\ resident \in [Levels -> SUBSET Blocks]
  /\ dirty \in [Levels -> SUBSET Blocks]
  /\ prefetched \in [Levels -> SUBSET Blocks]
  /\ fresh \in [Levels -> SUBSET Blocks]
  /\ buffer \in [Levels -> Seq(Line)]
  /\ \A i \in Levels : dirty[i] \cup prefetched[i] \cup fresh[i] \subseteq resident[i]

\* No victim buffer overflows.
BuffersBounded == \A i \in Levels : Len(buffer[i]) <= Entries[i]

\* The call stack is empty while the entry point probes or moves a line.
StackOK ==
  /\ work \in Seq(Task)
  /\ pc \in {"idle", "probe", "settle", "move", "issue"} => work = << >>

\* The locals of the entry point that is running.
LocalsOK ==
  /\ pc \in {"idle", "probe", "settle", "move", "fill", "observe", "issue", "prefetch", "flush"}
  /\ req \in Request
  /\ fetch \in Fetch
  /\ snapshot \subseteq [place : {"array", "buffer"}, block : Blocks]
  /\ pc = "idle" => req = NoRequest
  /\ pc = "probe" => req.hit = N
  /\ pc \in {"probe", "settle", "move", "fill", "observe", "issue", "prefetch"}
       => req.block \in Blocks
  /\ pc \in {"move", "fill", "issue", "prefetch"} => fetch.block \in Blocks
  /\ pc \in {"issue", "prefetch", "flush"} => req.level \in Levels

\* The level that hit still has the block when the hit is settled and when the
\* block is moved up.
HitHolds ==
  /\ pc = "settle" /\ req.hit < N => Contains(req.hit, req.block)
  /\ pc = "move" => req.hit < N /\ Contains(req.hit, fetch.block)

HistoryOK == memory \subseteq Blocks /\ owed \subseteq Blocks

TypeInv == LevelsOK /\ BuffersBounded /\ StackOK /\ LocalsOK /\ HitHolds /\ HistoryOK

-----------------------------------------------------------------------------
(* Lemmas about sequences.                                                 *)

\* Removing one element of a sequence, as VictimBuffer.take does.
LEMMA RemoveAtType ==
  ASSUME NEW S, NEW s \in Seq(S), NEW n \in 1 .. Len(s)
  PROVE  Ext!RemoveAt(s, n) \in Seq(S) /\ Len(Ext!RemoveAt(s, n)) = Len(s) - 1
<1> DEFINE before == SubSeq(s, 1, n - 1)
           after == SubSeq(s, n + 1, Len(s))
<1>1. before \in Seq(S) /\ Len(before) = n - 1
  OBVIOUS
<1>2. after \in Seq(S) /\ Len(after) = Len(s) - n
  OBVIOUS
<1>3. Ext!RemoveAt(s, n) = before \o after
  BY DEF Ext!RemoveAt
<1> HIDE DEF before, after
<1>4. before \o after \in Seq(S) /\ Len(before \o after) = Len(before) + Len(after)
  BY <1>1, <1>2, ConcatProperties
<1> QED
  BY <1>1, <1>2, <1>3, <1>4

\* VictimBuffer.take returns a buffer of lines, shorter by one if the block was
\* there.
LEMMA WithoutType ==
  ASSUME NEW lines \in Seq(Line), NEW b
  PROVE  /\ Without(lines, b) \in Seq(Line)
         /\ Len(Without(lines, b)) <= Len(lines)
         /\ (\E n \in DOMAIN lines : lines[n].block = b)
              => Len(Without(lines, b)) = Len(lines) - 1
<1>1. CASE \E n \in DOMAIN lines : lines[n].block = b
  <2> DEFINE m == CHOOSE n \in DOMAIN lines : lines[n].block = b
  <2>1. m \in 1 .. Len(lines)
    BY <1>1
  <2>2. Without(lines, b) = Ext!RemoveAt(lines, m)
    BY <1>1 DEF Without
  <2> QED
    BY <2>1, <2>2, RemoveAtType
<1>2. CASE ~ \E n \in DOMAIN lines : lines[n].block = b
  BY <1>2 DEF Without
<1> QED
  BY <1>1, <1>2

\* VictimBuffer.push: at most one line more.
LEMMA PushedType ==
  ASSUME NEW lines \in Seq(Line), NEW line \in Line
  PROVE  /\ Pushed(lines, line) \in Seq(Line)
         /\ Len(Pushed(lines, line)) <= Len(lines) + 1
         /\ Pushed(lines, line) # << >>
<1>1. Without(lines, line.block) \in Seq(Line) /\ Len(Without(lines, line.block)) <= Len(lines)
  BY WithoutType
<1> QED
  BY <1>1 DEF Pushed

\* The entry of a buffered block is a line of that block.
LEMMA BufferedLineType ==
  ASSUME LevelsOK, NEW i \in Levels, NEW b, b \in Buffered(i)
  PROVE  BufferedLine(i, b) \in Line /\ BufferedLine(i, b).block = b
<1> DEFINE m == CHOOSE n \in DOMAIN buffer[i] : buffer[i][n].block = b
<1>1. \E n \in DOMAIN buffer[i] : buffer[i][n].block = b
  BY DEF Buffered
<1>2. m \in DOMAIN buffer[i] /\ buffer[i][m].block = b
  BY <1>1
<1>3. buffer[i] \in Seq(Line)
  BY DEF LevelsOK
<1>4. BufferedLine(i, b) = buffer[i][m]
  BY DEF BufferedLine
<1> HIDE DEF m
<1> QED
  BY <1>2, <1>3, <1>4

\* A level finds a line for a block it contains.
LEMMA LineOfType ==
  ASSUME LevelsOK, NEW i \in Levels, NEW b \in Blocks, Contains(i, b)
  PROVE  LineOf(i, b) \in Line /\ LineOf(i, b).block = b
<1>1. CASE b \in resident[i]
  BY <1>1 DEF LineOf, ArrayLine, Line
<1>2. CASE b \notin resident[i]
  BY <1>2, BufferedLineType DEF LineOf, Contains
<1> QED
  BY <1>1, <1>2

\* The calls the model makes are well formed.
LEMMA CallType ==
  ASSUME NEW line \in Line
  PROVE  /\ \A i \in Levels : Evict(i, line) \in Task
         /\ \A i \in 0 .. N : WriteBack(i, line) \in Task
         /\ \A i \in Levels, nth \in 0 .. N, b \in Blocks : BackInvalidate(i, nth, b) \in Task
  BY DEF Evict, WriteBack, BackInvalidate, Call, Task, Line

\* A call put before the calls still to be made.
LEMMA StackType ==
  ASSUME NEW t \in Task, NEW rest \in Seq(Task)
  PROVE  <<t>> \o rest \in Seq(Task)
<1>1. <<t>> \in Seq(Task)
  OBVIOUS
<1> QED
  BY <1>1, ConcatProperties

-----------------------------------------------------------------------------
(* What the primitives of Cache preserve.                                  *)

LEMMA AllocateType ==
  ASSUME LevelsOK, BuffersBounded, NEW i \in Levels, NEW line \in Line,
         NEW lines \in Seq(Line), Len(lines) <= Entries[i],
         NEW rest \in Seq(Task), Allocate(i, line, lines, rest)
  PROVE  LevelsOK' /\ BuffersBounded' /\ work' \in Seq(Task)
<1> USE GeometryAssumption
<1>0. line.block \in Blocks /\ line.dirty \in BOOLEAN
  BY DEF Line
<1>1. CASE /\ line.block \in resident[i]
           /\ dirty' = [dirty EXCEPT ![i] = IF line.dirty THEN @ \cup {line.block} ELSE @]
           /\ fresh' = [fresh EXCEPT ![i] = With(@, line.block, line.fresh)]
           /\ buffer' = [buffer EXCEPT ![i] = lines]
           /\ work' = rest
           /\ UNCHANGED <<resident, prefetched>>
  BY <1>0, <1>1 DEF LevelsOK, BuffersBounded, With
<1>2. CASE /\ line.block \notin resident[i]
           /\ Place(i, line, {})
           /\ buffer' = [buffer EXCEPT ![i] = lines]
           /\ work' = rest
  BY <1>0, <1>2 DEF LevelsOK, BuffersBounded, With, Place
<1>3. ASSUME NEW victim \in SetMates(i, line.block),
             line.block \notin resident[i],
             Place(i, line, {victim}),
             IF Entries[i] = 0
             THEN buffer' = [buffer EXCEPT ![i] = lines] /\ work' = <<Evict(i, ArrayLine(i, victim))>> \o rest
             ELSE IF Len(Pushed(lines, ArrayLine(i, victim))) <= Entries[i]
             THEN buffer' = [buffer EXCEPT ![i] = Pushed(lines, ArrayLine(i, victim))] /\ work' = rest
             ELSE /\ buffer' = [buffer EXCEPT ![i] = Tail(Pushed(lines, ArrayLine(i, victim)))]
                  /\ work' = <<Evict(i, Head(Pushed(lines, ArrayLine(i, victim))))>> \o rest
      PROVE  LevelsOK' /\ BuffersBounded' /\ work' \in Seq(Task)
  <2> DEFINE out == ArrayLine(i, victim)
             pushed == Pushed(lines, out)
  <2>1. out \in Line
    BY DEF ArrayLine, Line, SetMates, LevelsOK
  <2>2. pushed \in Seq(Line) /\ Len(pushed) <= Len(lines) + 1 /\ pushed # << >>
    BY <2>1, PushedType
  <2> HIDE DEF out, pushed
  <2>3. Head(pushed) \in Line /\ Tail(pushed) \in Seq(Line) /\ Len(Tail(pushed)) = Len(pushed) - 1
    BY <2>2, HeadTailProperties
  <2>4. <<Evict(i, out)>> \o rest \in Seq(Task) /\ <<Evict(i, Head(pushed))>> \o rest \in Seq(Task)
    BY <2>1, <2>3, CallType, StackType
  <2>5. /\ work' \in Seq(Task)
        /\ \E new \in Seq(Line) : Len(new) <= Entries[i] /\ buffer' = [buffer EXCEPT ![i] = new]
    <3>1. CASE Entries[i] = 0
      BY <1>3, <2>4, <3>1 DEF out
    <3>2. CASE Entries[i] # 0 /\ Len(pushed) <= Entries[i]
      BY <1>3, <2>2, <3>2 DEF out, pushed
    <3>3. CASE Entries[i] # 0 /\ ~(Len(pushed) <= Entries[i])
      <4>1. /\ buffer' = [buffer EXCEPT ![i] = Tail(pushed)]
            /\ work' = <<Evict(i, Head(pushed))>> \o rest
        BY <1>3, <3>3 DEF out, pushed
      <4>2. Len(Tail(pushed)) <= Entries[i]
        BY <2>2, <2>3
      <4> QED
        BY <2>3, <2>4, <4>1, <4>2
    <3> QED
      BY <3>1, <3>2, <3>3
  <2>6. /\ resident' \in [Levels -> SUBSET Blocks]
        /\ dirty' \in [Levels -> SUBSET Blocks]
        /\ prefetched' \in [Levels -> SUBSET Blocks]
        /\ fresh' \in [Levels -> SUBSET Blocks]
        /\ \A j \in Levels : dirty'[j] \cup prefetched'[j] \cup fresh'[j] \subseteq resident'[j]
    BY <1>0, <1>3 DEF LevelsOK, With, Place
  <2>7. buffer' \in [Levels -> Seq(Line)] /\ \A j \in Levels : Len(buffer'[j]) <= Entries[j]
    BY <2>5 DEF LevelsOK, BuffersBounded
  <2> QED
    BY <2>5, <2>6, <2>7 DEF LevelsOK, BuffersBounded
<1> QED
  BY <1>1, <1>2, <1>3 DEF Allocate

LEMMA InvalidateType ==
  ASSUME LevelsOK, BuffersBounded, NEW i \in Levels, NEW b \in Blocks, Invalidate(i, b)
  PROVE  LevelsOK' /\ BuffersBounded'
<1> USE GeometryAssumption
<1>1. CASE b \in resident[i]
  <2>1. /\ resident' = [resident EXCEPT ![i] = resident[i] \ {b}]
        /\ dirty' = [dirty EXCEPT ![i] = dirty[i] \ {b}]
        /\ prefetched' = [prefetched EXCEPT ![i] = prefetched[i] \ {b}]
        /\ fresh' = [fresh EXCEPT ![i] = fresh[i] \ {b}]
        /\ buffer' = buffer
    BY <1>1 DEF Invalidate
  <2>2. LevelsOK'
    BY <2>1 DEF LevelsOK
  <2>3. BuffersBounded'
    BY <2>1 DEF BuffersBounded
  <2> QED
    BY <2>2, <2>3
<1>2. CASE b \notin resident[i]
  <2>1. /\ buffer' = [buffer EXCEPT ![i] = Without(buffer[i], b)]
        /\ UNCHANGED <<resident, dirty, prefetched, fresh>>
    BY <1>2 DEF Invalidate
  <2>2. buffer[i] \in Seq(Line)
    BY DEF LevelsOK
  <2>3. Without(buffer[i], b) \in Seq(Line) /\ Len(Without(buffer[i], b)) <= Len(buffer[i])
    BY <2>2, WithoutType
  <2>4. Len(Without(buffer[i], b)) <= Entries[i]
    BY <2>2, <2>3 DEF BuffersBounded
  <2> QED
    BY <2>1, <2>3, <2>4 DEF LevelsOK, BuffersBounded
<1> QED
  BY <1>1, <1>2

\* VictimBuffer.replace leaves a buffer of as many lines.
LEMMA ReplacedType ==
  ASSUME NEW lines \in Seq(Line), NEW b, NEW line,
         (\E n \in DOMAIN lines : lines[n].block = b) => line \in Line
  PROVE  Replaced(lines, b, line) \in Seq(Line) /\ Len(Replaced(lines, b, line)) = Len(lines)
<1> DEFINE new == Replaced(lines, b, line)
<1>1. \A n \in 1 .. Len(lines) : new[n] \in Line
  BY DEF Replaced
<1>2. new = [n \in 1 .. Len(lines) |-> new[n]]
  BY DEF Replaced
<1> HIDE DEF new
<1>3. new \in [1 .. Len(lines) -> Line]
  BY <1>1, <1>2
<1>4. new \in Seq(Line) /\ Len(new) = Len(lines)
  BY <1>3, IsASeq, LenProperties
<1> QED
  BY <1>4 DEF new

\* Changing the flags of a buffered line keeps the levels well formed.
LEMMA RelabelType ==
  ASSUME LevelsOK, BuffersBounded, NEW i \in Levels, NEW b, NEW line,
         b \in Buffered(i) => line \in Line,
         buffer' = [buffer EXCEPT ![i] = Replaced(buffer[i], b, line)],
         UNCHANGED <<resident, dirty, prefetched, fresh>>
  PROVE  LevelsOK' /\ BuffersBounded'
<1> DEFINE new == Replaced(buffer[i], b, line)
<1>1. buffer[i] \in Seq(Line)
  BY DEF LevelsOK
<1>2. new \in Seq(Line) /\ Len(new) = Len(buffer[i])
  BY <1>1, ReplacedType DEF Buffered
<1> HIDE DEF new
<1>3. Len(new) <= Entries[i]
  BY <1>2 DEF BuffersBounded
<1>4. buffer' = [buffer EXCEPT ![i] = new]
  BY DEF new
<1>5. LevelsOK'
  BY <1>2, <1>4 DEF LevelsOK
<1>6. BuffersBounded'
  BY <1>3, <1>4 DEF BuffersBounded, LevelsOK
<1> QED
  BY <1>5, <1>6

\* A line with new flags is a line.
LEMMA MarkedType ==
  ASSUME NEW line \in Line, NEW mark \in BOOLEAN, NEW current \in BOOLEAN
  PROVE  [line EXCEPT !.dirty = mark, !.fresh = current] \in Line
  BY DEF Line

LEMMA SetDirtyType ==
  ASSUME LevelsOK, BuffersBounded, NEW i \in Levels, NEW b \in Blocks,
         NEW mark \in BOOLEAN, NEW current \in BOOLEAN, SetDirty(i, b, mark, current)
  PROVE  LevelsOK' /\ BuffersBounded'
<1>0. UNCHANGED <<resident, prefetched>>
  BY DEF SetDirty
<1>1. CASE b \in resident[i]
  <2>1. /\ dirty' = [dirty EXCEPT ![i] = With(dirty[i], b, mark)]
        /\ fresh' = [fresh EXCEPT ![i] = With(fresh[i], b, current)]
        /\ buffer' = buffer
    BY <1>1 DEF SetDirty
  <2>2. LevelsOK'
    BY <1>0, <1>1, <2>1 DEF LevelsOK, With
  <2>3. BuffersBounded'
    BY <2>1 DEF BuffersBounded
  <2> QED
    BY <2>2, <2>3
<1>2. CASE b \notin resident[i]
  <2> DEFINE line == [BufferedLine(i, b) EXCEPT !.dirty = mark, !.fresh = current]
  <2>1. b \in Buffered(i) => line \in Line
    BY BufferedLineType, MarkedType
  <2>2. /\ buffer' = [buffer EXCEPT ![i] = Replaced(buffer[i], b, line)]
        /\ UNCHANGED <<resident, dirty, prefetched, fresh>>
    BY <1>0, <1>2 DEF SetDirty
  <2> HIDE DEF line
  <2> QED
    BY <2>1, <2>2, RelabelType
<1> QED
  BY <1>1, <1>2

LEMMA ClearPrefetchedType ==
  ASSUME LevelsOK, BuffersBounded, NEW i \in Levels, NEW b \in Blocks,
         ClearPrefetched(i, b), UNCHANGED <<resident, dirty, fresh>>
  PROVE  LevelsOK' /\ BuffersBounded'
<1>1. CASE b \in resident[i]
  <2>1. prefetched' = [prefetched EXCEPT ![i] = prefetched[i] \ {b}] /\ buffer' = buffer
    BY <1>1 DEF ClearPrefetched
  <2>2. LevelsOK'
    BY <2>1 DEF LevelsOK
  <2>3. BuffersBounded'
    BY <2>1 DEF BuffersBounded
  <2> QED
    BY <2>2, <2>3
<1>2. CASE b \notin resident[i]
  <2> DEFINE line == [BufferedLine(i, b) EXCEPT !.prefetched = FALSE]
  <2>1. b \in Buffered(i) => line \in Line
    BY BufferedLineType DEF Line
  <2>2. /\ buffer' = [buffer EXCEPT ![i] = Replaced(buffer[i], b, line)]
        /\ UNCHANGED <<resident, dirty, prefetched, fresh>>
    BY <1>2 DEF ClearPrefetched
  <2> HIDE DEF line
  <2> QED
    BY <2>1, <2>2, RelabelType
<1> QED
  BY <1>1, <1>2

-----------------------------------------------------------------------------
(* The locals of access().                                                 *)

LEMMA HitAtType ==
  ASSUME req \in Request, NEW i \in Levels
  PROVE  HitAt(i) \in Request /\ HitAt(i).hit = i /\ HitAt(i).block = req.block
<1>1. i \in 0 .. N /\ i + 1 \in 0 .. N
  BY NAssumption DEF Levels
<1> QED
  BY <1>1 DEF HitAt, Request

LEMMA FillStepType ==
  ASSUME LevelsOK, BuffersBounded, fetch \in Fetch, fetch.block \in Blocks,
         NEW speculative \in BOOLEAN, FillStep(speculative)
  PROVE  /\ LevelsOK' /\ BuffersBounded' /\ work' \in Seq(Task)
         /\ fetch' \in Fetch /\ fetch'.block = fetch.block
<1> DEFINE i == fetch.at
           last == i = fetch.to
           line == [block |-> fetch.block, dirty |-> fetch.dirty /\ last,
                    prefetched |-> speculative /\ last, fresh |-> FilledCurrent(speculative, i)]
<1>1. i \in Levels
  BY NAssumption DEF FillStep, Fetch, Levels
<1>2. fetch' \in Fetch /\ fetch'.block = fetch.block
  BY <1>1, NAssumption DEF FillStep, Fetch, Levels
<1>3. CASE Passes(i)
  <2>1. UNCHANGED <<resident, dirty, prefetched, buffer, fresh, work>> /\ work = << >>
    BY <1>3 DEF FillStep, contents
  <2> QED
    BY <1>2, <2>1 DEF LevelsOK, BuffersBounded
<1>4. CASE ~Passes(i)
  <2>1. Allocate(i, line, buffer[i], << >>)
    BY <1>4 DEF FillStep
  <2>2. line \in Line
    BY DEF Line, Fetch, FilledCurrent
  <2>3. buffer[i] \in Seq(Line) /\ Len(buffer[i]) <= Entries[i] /\ << >> \in Seq(Task)
    BY <1>1 DEF LevelsOK, BuffersBounded
  <2> HIDE DEF i, line
  <2> QED
    BY <1>1, <1>2, <2>1, <2>2, <2>3, AllocateType
<1> QED
  BY <1>3, <1>4

-----------------------------------------------------------------------------
(* The type invariant holds initially and every action preserves it.       *)

LEMMA TypeInvInit == Init => TypeInv
<1> SUFFICES ASSUME Init PROVE TypeInv
  OBVIOUS
<1> USE NAssumption, GeometryAssumption DEF Init
<1>1. LevelsOK
  BY DEF LevelsOK
<1>2. BuffersBounded
  BY DEF BuffersBounded
<1>3. StackOK
  BY DEF StackOK
<1>4. LocalsOK
  BY DEF LocalsOK, NoRequest, NoFetch, Request, Fetch, Levels
<1>5. HitHolds /\ HistoryOK
  BY DEF HitHolds, HistoryOK
<1> QED
  BY <1>1, <1>2, <1>3, <1>4, <1>5 DEF TypeInv

\* A step that leaves the levels alone leaves them well formed.
LEMMA LevelsUnchanged ==
  ASSUME LevelsOK, BuffersBounded, UNCHANGED <<resident, dirty, prefetched, buffer, fresh>>
  PROVE  LevelsOK' /\ BuffersBounded'
  BY DEF LevelsOK, BuffersBounded

\* The entry point: the call and the probes.
LEMMA BeginAccessType ==
  ASSUME TypeInv, NEW b \in Blocks, NEW store \in BOOLEAN, BeginAccess(b, store)
  PROVE  TypeInv'
<1> USE DEF TypeInv, BeginAccess, contents, history
<1>1. LevelsOK' /\ BuffersBounded'
  BY LevelsUnchanged
<1>2. StackOK'
  BY DEF StackOK
<1>3. LocalsOK'
  <2>1. 0 \in 0 .. N /\ N \in 0 .. N
    BY NAssumption
  <2>2. req' \in Request /\ req'.block = b /\ req'.hit = N /\ pc' = "probe"
    BY <2>1 DEF NoRequest, Request
  <2> QED
    BY <2>2 DEF LocalsOK
<1>4. HitHolds' /\ HistoryOK'
  BY DEF HitHolds, HistoryOK
<1> QED
  BY <1>1, <1>2, <1>3, <1>4

LEMMA ProbeHitType ==
  ASSUME TypeInv, ProbeHit
  PROVE  TypeInv'
<1> DEFINE i == req.level
           b == req.block
<1> USE DEF TypeInv
<1>0. i \in Levels /\ b \in Blocks /\ req \in Request /\ b \in resident[i]
  BY NAssumption DEF ProbeHit, LocalsOK, Request, Levels
<1>1. LevelsOK' /\ BuffersBounded'
  <2>1. /\ dirty' = [dirty EXCEPT ![i] = With(dirty[i], b, DirtyAfterHit(i, b \in dirty[i]))]
        /\ UNCHANGED <<resident, prefetched, buffer, fresh>>
    BY DEF ProbeHit
  <2>2. LevelsOK'
    BY <1>0, <2>1 DEF LevelsOK, With
  <2> QED
    BY <2>1, <2>2 DEF BuffersBounded
<1>2. StackOK'
  BY DEF ProbeHit, StackOK
<1>3. req' \in Request /\ req'.hit = i /\ req'.block = b /\ pc' = "settle"
  BY <1>0, HitAtType DEF ProbeHit
<1>4. LocalsOK'
  BY <1>0, <1>3 DEF ProbeHit, LocalsOK
<1>5. HitHolds'
  BY <1>0, <1>3 DEF HitHolds, Contains, ProbeHit
<1>6. HistoryOK'
  BY <1>0 DEF HistoryOK, ProbeHit, OwedAfterHit
<1> QED
  BY <1>1, <1>2, <1>4, <1>5, <1>6

\* A victim-buffer hit makes room before it needs some: nothing leaves the level.
LEMMA VictimHitQuiet ==
  ASSUME TypeInv, ProbeVictimHit
  PROVE  LevelsOK' /\ BuffersBounded' /\ work' = << >>
         /\ req.level \in Levels /\ req.block \in resident'[req.level]
<1> DEFINE i == req.level
           b == req.block
           line == [LineOf(i, b) EXCEPT !.dirty = DirtyAfterHit(i, @)]
           lines == Without(buffer[i], b)
<1> USE DEF TypeInv
<1>0. /\ i \in Levels /\ b \in Blocks /\ req \in Request
      /\ b \notin resident[i] /\ b \in Buffered(i)
      /\ Allocate(i, line, lines, << >>)
  BY NAssumption DEF ProbeVictimHit, LocalsOK, Request, Levels
<1>1. buffer[i] \in Seq(Line) /\ Len(buffer[i]) <= Entries[i] /\ Entries[i] \in Nat
  BY <1>0, GeometryAssumption DEF LevelsOK, BuffersBounded
<1>2. LineOf(i, b) \in Line /\ LineOf(i, b).block = b
  BY <1>0, LineOfType DEF Contains
<1>3. line \in Line /\ line.block = b
  <2>1. DirtyAfterHit(i, LineOf(i, b).dirty) \in BOOLEAN
    BY DEF DirtyAfterHit
  <2> QED
    BY <1>2, <2>1 DEF Line
<1>4. lines \in Seq(Line) /\ Len(lines) = Len(buffer[i]) - 1
  BY <1>0, <1>1, WithoutType DEF Buffered
<1>5. Len(lines) <= Entries[i]
  BY <1>1, <1>4
<1> HIDE DEF i, b, line, lines
<1>6. LevelsOK' /\ BuffersBounded'
  <2>1. << >> \in Seq(Task)
    OBVIOUS
  <2> QED
    BY <1>0, <1>3, <1>4, <1>5, <2>1, AllocateType
<1>7. work' = << >>
  <2>1. ASSUME NEW victim \in SetMates(i, line.block) PROVE Len(Pushed(lines, ArrayLine(i, victim))) <= Entries[i]
    <3>1. ArrayLine(i, victim) \in Line
      BY <1>0 DEF ArrayLine, Line, SetMates, LevelsOK
    <3> DEFINE pushed == Pushed(lines, ArrayLine(i, victim))
    <3>2. pushed \in Seq(Line) /\ Len(pushed) <= Len(lines) + 1
      BY <1>4, <3>1, PushedType
    <3>3. Len(pushed) \in Nat /\ Len(lines) \in Nat /\ Len(buffer[i]) \in Nat
      BY <1>1, <1>4, <3>2
    <3> HIDE DEF pushed
    <3>4. Len(pushed) <= Entries[i]
      BY <1>1, <1>4, <3>2, <3>3
    <3> QED
      BY <3>4 DEF pushed
  <2>2. Entries[i] # 0
    BY <1>1, <1>4
  <2> QED
    BY <1>0, <2>1, <2>2 DEF Allocate
<1>8. b \in resident'[i]
  <2>1. \E out \in SUBSET Blocks : resident' = [resident EXCEPT ![i] = (resident[i] \ out) \cup {b}]
    <3>1. CASE Place(i, line, {})
      BY <1>3, <3>1 DEF Place
    <3>2. ASSUME NEW victim \in SetMates(i, line.block), Place(i, line, {victim})
          PROVE  \E out \in SUBSET Blocks : resident' = [resident EXCEPT ![i] = (resident[i] \ out) \cup {b}]
      <4>1. {victim} \in SUBSET Blocks
        BY <1>0 DEF SetMates, LevelsOK
      <4> QED
        BY <1>3, <3>2, <4>1 DEF Place
    <3> QED
      BY <1>0, <1>3, <3>1, <3>2 DEF Allocate
  <2> QED
    BY <1>0, <2>1 DEF LevelsOK
<1> QED
  BY <1>0, <1>6, <1>7, <1>8 DEF i, b

LEMMA ProbeVictimHitType ==
  ASSUME TypeInv, ProbeVictimHit
  PROVE  TypeInv'
<1> DEFINE i == req.level
           b == req.block
<1> USE DEF TypeInv
<1>0. /\ LevelsOK' /\ BuffersBounded' /\ work' = << >>
      /\ i \in Levels /\ b \in resident'[i] /\ b \in Blocks /\ req \in Request
  BY VictimHitQuiet DEF LocalsOK, ProbeVictimHit
<1>1. StackOK'
  BY <1>0 DEF StackOK
<1>2. req' \in Request /\ req'.hit = i /\ req'.block = b /\ pc' = "settle"
  BY <1>0, HitAtType DEF ProbeVictimHit
<1>3. LocalsOK'
  BY <1>0, <1>2 DEF ProbeVictimHit, LocalsOK
<1>4. HitHolds'
  BY <1>0, <1>2 DEF HitHolds, Contains
<1>5. HistoryOK'
  BY <1>0 DEF HistoryOK, ProbeVictimHit, OwedAfterHit
<1> QED
  BY <1>0, <1>1, <1>3, <1>4, <1>5

LEMMA ProbeMissType ==
  ASSUME TypeInv, ProbeMiss
  PROVE  TypeInv'
<1> DEFINE i == req.level
           takes == req.write /\ WriteAllocate[i]
<1> USE DEF TypeInv
<1>0. /\ i \in Levels /\ i \in 0 .. N /\ i + 1 \in 0 .. N
      /\ req \in Request /\ req.block \in Blocks /\ pc = "probe"
  BY NAssumption DEF ProbeMiss, LocalsOK, Request, Levels
<1>1. LevelsOK' /\ BuffersBounded'
  BY LevelsUnchanged DEF ProbeMiss, contents
<1>2. StackOK'
  BY DEF ProbeMiss, StackOK
<1>3. req' = [req EXCEPT !.level = i + 1,
                         !.write = @ /\ ~takes,
                         !.taken = IF takes THEN i ELSE @,
                         !.fillFrom = IF takes THEN i ELSE @,
                         !.forward = IF takes /\ WriteThrough[i] THEN i + 1 ELSE @]
  BY DEF ProbeMiss
<1>4. takes \in BOOLEAN
  BY PolicyAssumption, <1>0 DEF Request
<1> HIDE DEF i, takes
<1>5. req' \in Request /\ req'.block = req.block /\ req'.hit = req.hit
  BY <1>0, <1>3, <1>4 DEF Request
<1>6. LocalsOK'
  BY <1>0, <1>5 DEF LocalsOK, ProbeMiss
<1>7. HitHolds' /\ HistoryOK'
  BY <1>0 DEF HitHolds, HistoryOK, ProbeMiss
<1> QED
  BY <1>1, <1>2, <1>6, <1>7

LEMMA ReachMemoryType ==
  ASSUME TypeInv, ReachMemory
  PROVE  TypeInv'
<1> USE DEF TypeInv
<1>0. req \in Request /\ req.block \in Blocks /\ pc = "probe" /\ pc' = "settle"
  BY DEF ReachMemory, LocalsOK
<1>1. LevelsOK' /\ BuffersBounded'
  BY LevelsUnchanged DEF ReachMemory, contents
<1>2. StackOK'
  BY DEF ReachMemory, StackOK
<1>3. req' \in Request /\ req'.block = req.block /\ req'.hit = req.hit
  BY <1>0, NAssumption DEF Request, ReachMemory
<1>4. LocalsOK'
  BY <1>0, <1>3 DEF LocalsOK, ReachMemory
<1>5. req.hit = N
  BY <1>0 DEF LocalsOK
<1>6. HitHolds' /\ HistoryOK'
  BY <1>0, <1>3, <1>5, NAssumption DEF HitHolds, HistoryOK, ReachMemory
<1> QED
  BY <1>1, <1>2, <1>4, <1>6

LEMMA MoveUpType ==
  ASSUME TypeInv, MoveUp
  PROVE  TypeInv'
<1> DEFINE i == req.hit
           b == fetch.block
<1> USE DEF TypeInv
<1>0. /\ i \in Levels /\ b \in Blocks /\ fetch \in Fetch /\ Contains(i, b)
      /\ Invalidate(i, b) /\ pc = "move" /\ pc' = "fill"
  BY NAssumption DEF MoveUp, LocalsOK, HitHolds, Request, Levels
<1>1. LevelsOK' /\ BuffersBounded'
  BY <1>0, InvalidateType
<1>2. LineOf(i, b) \in Line
  BY <1>0, LineOfType
<1>3. fetch' \in Fetch /\ fetch'.block = b
  BY <1>0, <1>2 DEF MoveUp, Fetch, Line
<1>4. StackOK'
  BY DEF StackOK, MoveUp
<1>5. LocalsOK'
  BY <1>0, <1>3 DEF LocalsOK, MoveUp
<1>6. HitHolds' /\ HistoryOK'
  BY <1>0 DEF HitHolds, HistoryOK, MoveUp
<1> QED
  BY <1>1, <1>4, <1>5, <1>6

LEMMA FillType ==
  ASSUME TypeInv, Fill \/ PrefetchFill
  PROVE  TypeInv'
<1> USE DEF TypeInv
<1>0. /\ pc \in {"fill", "prefetch"} /\ UNCHANGED <<memory, owed, pc, req, snapshot>>
      /\ \E speculative \in BOOLEAN : FillStep(speculative)
      /\ fetch \in Fetch /\ fetch.block \in Blocks
  BY DEF Fill, PrefetchFill, LocalsOK
<1>1. /\ LevelsOK' /\ BuffersBounded' /\ work' \in Seq(Task)
      /\ fetch' \in Fetch /\ fetch'.block = fetch.block
  BY <1>0, FillStepType
<1>2. StackOK'
  BY <1>0, <1>1 DEF StackOK
<1>3. LocalsOK'
  BY <1>0, <1>1 DEF LocalsOK
<1>4. HitHolds' /\ HistoryOK'
  BY <1>0 DEF HitHolds, HistoryOK
<1> QED
  BY <1>1, <1>2, <1>3, <1>4

LEMMA SettleType ==
  ASSUME TypeInv, Settle
  PROVE  TypeInv'
<1> DEFINE b == req.block
           stored == req.taken >= 0
           current == IF req.hit < N THEN LineOf(req.hit, b).fresh ELSE b \in memory
<1> USE DEF TypeInv
<1>0. /\ b \in Blocks /\ req \in Request /\ pc = "settle" /\ work = << >>
      /\ req.hit \in 0 .. N /\ (req.hit < N => req.hit \in Levels /\ Contains(req.hit, b))
  BY NAssumption DEF Settle, LocalsOK, HitHolds, Request, Levels
<1>1. current \in BOOLEAN
  <2>1. CASE req.hit < N
    <3>1. LineOf(req.hit, b) \in Line
      BY <1>0, <2>1, LineOfType
    <3> QED
      BY <2>1, <3>1 DEF Line
  <2>2. CASE ~(req.hit < N)
    BY <2>2
  <2> QED
    BY <2>1, <2>2
<1>2. LevelsOK' /\ BuffersBounded'
  <2>1. UNCHANGED <<resident, dirty, prefetched>>
    BY DEF Settle
  <2>2. fresh' \in [Levels -> SUBSET Blocks] /\ \A i \in Levels : fresh'[i] \subseteq fresh[i]
    BY DEF Settle, LevelsOK
  <2>3. buffer' = [i \in Levels |-> IF stored THEN Superseded(i, b) ELSE buffer[i]]
    BY DEF Settle
  <2>4. ASSUME NEW i \in Levels
        PROVE  Superseded(i, b) \in Seq(Line) /\ Len(Superseded(i, b)) = Len(buffer[i])
    <3> DEFINE line == [BufferedLine(i, b) EXCEPT !.fresh = FALSE]
    <3>1. b \in Buffered(i) => line \in Line
      BY BufferedLineType DEF Line
    <3>2. buffer[i] \in Seq(Line)
      BY DEF LevelsOK
    <3>3. Superseded(i, b) = Replaced(buffer[i], b, line)
      BY DEF Superseded
    <3> HIDE DEF line
    <3> QED
      BY <3>1, <3>2, <3>3, ReplacedType DEF Buffered
  <2> HIDE DEF stored, b
  <2>5. \A i \in Levels : buffer'[i] \in Seq(Line) /\ Len(buffer'[i]) = Len(buffer[i])
    BY <2>3, <2>4 DEF LevelsOK
  <2>6. buffer' \in [Levels -> Seq(Line)]
    BY <2>3, <2>5
  <2>7. LevelsOK'
    BY <2>1, <2>2, <2>6 DEF LevelsOK
  <2> QED
    BY <2>5, <2>7 DEF BuffersBounded
<1>3. StackOK'
  BY <1>0 DEF StackOK, Settle
<1>4. fetch' \in Fetch /\ fetch'.block = b
  <2>1. req.hit - 1 \in Levels \cup {-1}
    BY <1>0, NAssumption DEF Levels
  <2>2. (stored /\ ~WriteThrough[req.taken]) \in BOOLEAN
    OBVIOUS
  <2> QED
    BY <1>0, <1>1, <2>1, <2>2 DEF Settle, Request, Fetch
<1>5. LocalsOK'
  BY <1>0, <1>4 DEF LocalsOK, Settle
<1>6. HitHolds'
  <2> SUFFICES ASSUME pc' = "move" PROVE req'.hit < N /\ Contains(req.hit, b)'
    BY <1>4 DEF HitHolds, Settle
  <2>1. req' = req /\ req.hit \in Levels
    BY <1>0, PolicyAssumption DEF Settle, MovesUp, Exclusive
  <2>2. req.hit < N
    BY <2>1, NAssumption DEF Levels
  <2>3. resident' = resident /\ buffer' = [i \in Levels |-> IF stored THEN Superseded(i, b) ELSE buffer[i]]
    BY DEF Settle
  <2>4. b \in Buffered(req.hit) => b \in Buffered(req.hit)'
    <3> SUFFICES ASSUME b \in Buffered(req.hit) PROVE b \in Buffered(req.hit)'
      OBVIOUS
    <3>1. PICK n \in DOMAIN buffer[req.hit] : buffer[req.hit][n].block = b
      BY DEF Buffered
    <3>2. CASE stored
      <4>1. [BufferedLine(req.hit, b) EXCEPT !.fresh = FALSE].block = b
        BY <2>1, BufferedLineType DEF Line
      <4>2. n \in DOMAIN Superseded(req.hit, b) /\ Superseded(req.hit, b)[n].block = b
        BY <3>1, <4>1 DEF Superseded, Replaced
      <4>3. buffer'[req.hit] = Superseded(req.hit, b)
        BY <2>1, <2>3, <3>2
      <4> QED
        BY <2>1, <4>2, <4>3 DEF Buffered
    <3>3. CASE ~stored
      BY <2>1, <2>3, <3>1, <3>3 DEF Buffered
    <3> QED
      BY <3>2, <3>3
  <2>5. Contains(req.hit, b)
    BY <1>0, <2>2
  <2> QED
    BY <2>1, <2>2, <2>3, <2>4, <2>5 DEF Contains
<1>7. HistoryOK'
  BY DEF HistoryOK, Settle
<1> QED
  BY <1>2, <1>3, <1>5, <1>6, <1>7

LEMMA ForwardType ==
  ASSUME TypeInv, Forward
  PROVE  TypeInv'
<1> USE DEF TypeInv
<1>0. /\ req \in Request /\ req.block \in Blocks /\ fetch \in Fetch
      /\ pc = "fill" /\ pc' = "observe"
  BY DEF Forward, LocalsOK
<1>1. LevelsOK' /\ BuffersBounded'
  BY LevelsUnchanged DEF Forward, contents, history
<1>2. StackOK'
  <2> DEFINE line == [block |-> req.block, dirty |-> TRUE, prefetched |-> FALSE, fresh |-> fetch.fresh]
  <2>1. line \in Line
    BY <1>0 DEF Line, Fetch
  <2>2. CASE req.forward < 0
    BY <1>0, <2>2 DEF Forward, StackOK
  <2>3. CASE ~(req.forward < 0)
    <3>1. req.forward \in 0 .. N
      BY <1>0, <2>3 DEF Request
    <3>2. work' = <<WriteBack(req.forward, line)>>
      BY <2>3 DEF Forward
    <3> HIDE DEF line
    <3>3. WriteBack(req.forward, line) \in Task
      BY <2>1, <3>1, CallType
    <3> QED
      BY <1>0, <3>2, <3>3 DEF StackOK
  <2> QED
    BY <2>2, <2>3
<1>3. req' \in Request /\ req'.block = req.block /\ fetch' \in Fetch
  BY <1>0, NAssumption DEF Forward, Request, Fetch, NoFetch
<1>4. LocalsOK'
  BY <1>0, <1>3 DEF LocalsOK, Forward
<1>5. HitHolds' /\ HistoryOK'
  BY <1>0 DEF HitHolds, HistoryOK, Forward, history
<1> QED
  BY <1>1, <1>2, <1>4, <1>5

LEMMA ObserveType ==
  ASSUME TypeInv, Observe
  PROVE  TypeInv'
<1> DEFINE i == req.level
           b == req.block
<1> USE DEF TypeInv
<1>0. /\ req \in Request /\ b \in Blocks /\ i \in Levels /\ i \in 0 .. N /\ i + 1 \in 0 .. N
      /\ pc = "observe" /\ work = << >> /\ work' = work
  BY NAssumption DEF Observe, LocalsOK, Request, Levels, Deepest
<1>1. LevelsOK' /\ BuffersBounded'
  <2>1. CASE ClearPrefetched(i, b)
    <3>1. UNCHANGED <<resident, dirty, fresh>>
      BY DEF Observe, history
    <3> QED
      BY <1>0, <2>1, <3>1, ClearPrefetchedType
  <2>2. CASE UNCHANGED <<prefetched, buffer>>
    BY <2>2, LevelsUnchanged DEF Observe, history
  <2> QED
    BY <2>1, <2>2 DEF Observe
<1>2. StackOK'
  BY <1>0 DEF StackOK
<1>3. PICK target \in Blocks \cup {None} :
        IF target = None \/ Contains(i, target)
        THEN /\ req' = [req EXCEPT !.level = i + 1]
             /\ UNCHANGED <<pc, fetch>>
        ELSE /\ fetch' = [NoFetch EXCEPT !.block = target, !.to = i, !.keep = i]
             /\ pc' = "issue"
             /\ UNCHANGED req
  <2> DEFINE hit == i = req.hit
             was == hit /\ Contains(i, b) /\ LineOf(i, b).prefetched
  <2>1. PICK target \in Predictions(i, hit, was) :
          IF target = None \/ Contains(i, target)
          THEN /\ req' = [req EXCEPT !.level = i + 1]
               /\ UNCHANGED <<pc, fetch>>
          ELSE /\ fetch' = [NoFetch EXCEPT !.block = target, !.to = i, !.keep = i]
               /\ pc' = "issue"
               /\ UNCHANGED req
    BY DEF Observe
  <2> HIDE DEF hit, was
  <2>2. NextBlock[b] \in Blocks \cup {None} /\ Prefetcher[i] \in {"none", "next-line", "stride"}
    BY <1>0, PrefetchAssumption
  <2>3. Predictions(i, hit, was) \subseteq Blocks \cup {None}
    BY <2>2 DEF Predictions
  <2> QED
    BY <2>1, <2>3
<1>4. LocalsOK'
  <2>1. CASE target = None \/ Contains(i, target)
    <3>1. req' \in Request /\ req'.block = b /\ pc' = pc /\ fetch' = fetch
      BY <1>0, <1>3, <2>1 DEF Request
    <3> QED
      BY <1>0, <3>1 DEF LocalsOK, Observe
  <2>2. CASE ~(target = None \/ Contains(i, target))
    <3>1. pc' = "issue" /\ req' = req /\ target \in Blocks
          /\ fetch' = [NoFetch EXCEPT !.block = target, !.to = i, !.keep = i]
      BY <1>3, <2>2
    <3>2. fetch' \in Fetch /\ fetch'.block = target
      BY <1>0, <3>1 DEF Fetch, NoFetch
    <3> QED
      BY <1>0, <3>1, <3>2 DEF LocalsOK, Observe
  <2> QED
    BY <2>1, <2>2
<1>5. HitHolds' /\ HistoryOK'
  BY <1>0, <1>3 DEF HitHolds, HistoryOK, Observe, history
<1> QED
  BY <1>1, <1>2, <1>4, <1>5

LEMMA IssueType ==
  ASSUME TypeInv, Issue
  PROVE  TypeInv'
<1> DEFINE b == fetch.block
<1> USE DEF TypeInv
<1>0. /\ req \in Request /\ req.block \in Blocks /\ fetch \in Fetch /\ b \in Blocks
      /\ req.level \in Levels /\ pc = "issue" /\ pc' = "prefetch"
      /\ UNCHANGED <<memory, owed, req, work, snapshot>>
  BY DEF Issue, LocalsOK
<1>1. LevelsOK' /\ BuffersBounded' /\ fetch' \in Fetch /\ fetch'.block = b
  <2>1. CASE /\ fetch' = [fetch EXCEPT !.at = N - 1, !.fresh = b \in memory]
             /\ UNCHANGED <<contents, fresh>>
    <3>1. N - 1 \in Levels /\ (b \in memory) \in BOOLEAN
      BY NAssumption DEF Levels
    <3>2. fetch' \in Fetch /\ fetch'.block = b
      BY <1>0, <2>1, <3>1 DEF Fetch
    <3> QED
      BY <2>1, <3>2, LevelsUnchanged DEF contents
  <2>2. ASSUME NEW source \in Levels, source > fetch.to, Contains(source, b),
               fetch' = [fetch EXCEPT !.at = source - 1,
                                      !.dirty = HandedDirty(source, b),
                                      !.fresh = LineOf(source, b).fresh],
               IF Exclusive(source) THEN Invalidate(source, b) ELSE UNCHANGED <<contents, fresh>>
        PROVE  LevelsOK' /\ BuffersBounded' /\ fetch' \in Fetch /\ fetch'.block = b
    <3>1. source - 1 \in Levels
      BY <1>0, <2>2, NAssumption DEF Levels, Fetch
    <3>2. LineOf(source, b) \in Line
      BY <1>0, <2>2, LineOfType
    <3>3. HandedDirty(source, b) \in BOOLEAN /\ LineOf(source, b).fresh \in BOOLEAN
      BY <3>2 DEF HandedDirty, Line
    <3>4. fetch' \in Fetch /\ fetch'.block = b
      BY <1>0, <2>2, <3>1, <3>3 DEF Fetch
    <3>5. LevelsOK' /\ BuffersBounded'
      BY <1>0, <2>2, InvalidateType, LevelsUnchanged DEF contents
    <3> QED
      BY <3>4, <3>5
  <2> QED
    BY <2>1, <2>2 DEF Issue
<1>2. StackOK'
  BY <1>0 DEF StackOK
<1>3. LocalsOK'
  BY <1>0, <1>1 DEF LocalsOK
<1>4. HitHolds' /\ HistoryOK'
  BY <1>0 DEF HitHolds, HistoryOK
<1> QED
  BY <1>1, <1>2, <1>3, <1>4

\* The prefetch is done, the access or the flush returns.
LEMMA ReturnType ==
  ASSUME TypeInv, PrefetchDone \/ FinishAccess \/ FinishFlush
  PROVE  TypeInv'
<1> USE DEF TypeInv
<1>0. /\ req \in Request /\ fetch \in Fetch
      /\ UNCHANGED <<contents, history, work, snapshot>> /\ work = << >>
  BY DEF PrefetchDone, FinishAccess, FinishFlush, LocalsOK
<1>1. LevelsOK' /\ BuffersBounded'
  BY <1>0, LevelsUnchanged DEF contents, history
<1>2. StackOK'
  BY <1>0 DEF StackOK
<1>3. LocalsOK'
  <2>0. NoFetch \in Fetch /\ NoRequest \in Request
    BY NAssumption DEF NoFetch, Fetch, NoRequest, Request
  <2>1. CASE PrefetchDone
    <3>1. req.level \in Levels /\ req.level + 1 \in 0 .. N /\ req.block \in Blocks
      BY <2>1, NAssumption DEF PrefetchDone, LocalsOK, Levels
    <3>2. req' \in Request /\ req'.block = req.block /\ fetch' = NoFetch /\ pc' = "observe"
      BY <1>0, <2>1, <3>1 DEF PrefetchDone, Request
    <3> QED
      BY <1>0, <2>0, <3>1, <3>2 DEF LocalsOK
  <2>2. CASE Returned
    BY <1>0, <2>0, <2>2 DEF LocalsOK, Returned
  <2> QED
    BY <2>1, <2>2 DEF FinishAccess, FinishFlush
<1>4. HitHolds' /\ HistoryOK'
  BY <1>0 DEF HitHolds, HistoryOK, PrefetchDone, FinishAccess, FinishFlush, Returned, history
<1> QED
  BY <1>1, <1>2, <1>3, <1>4

\* The call at the head of the stack: it is about a line, or a block.
LEMMA HeadType ==
  ASSUME TypeInv, work # << >>
  PROVE  /\ Head(work) \in Task /\ Tail(work) \in Seq(Task)
         /\ Head(work).line \in Line /\ Head(work).line.block \in Blocks
         /\ Head(work).op = "evict" => Head(work).level \in Levels
         /\ Head(work).op = "writeBack" => Head(work).level \in 0 .. N
         /\ Head(work).op = "backInvalidate" => Head(work).level \in Levels /\ Head(work).nth \in 0 .. N
         /\ pc \notin {"idle", "probe", "settle", "move", "issue"}
<1>1. work \in Seq(Task)
  BY DEF TypeInv, StackOK
<1>2. Head(work) \in Task /\ Tail(work) \in Seq(Task)
  BY <1>1, HeadTailProperties
<1>3. Head(work).line \in Line
  BY <1>2 DEF Task
<1>4. Head(work).line.block \in Blocks
  BY <1>3 DEF Line
<1> QED
  BY <1>2, <1>3, <1>4 DEF Task, TypeInv, StackOK

\* A step of a call on the stack leaves the locals of the entry point alone.
LEMMA StackStep ==
  ASSUME TypeInv, work # << >>, UNCHANGED <<pc, req, fetch, snapshot>>,
         LevelsOK', BuffersBounded', work' \in Seq(Task), HistoryOK'
  PROVE  TypeInv'
<1>1. pc \notin {"idle", "probe", "settle", "move", "issue"}
  BY HeadType
<1>2. StackOK' /\ HitHolds'
  BY <1>1 DEF StackOK, HitHolds
<1>3. LocalsOK'
  BY DEF TypeInv, LocalsOK
<1> QED
  BY <1>2, <1>3 DEF TypeInv

LEMMA WriteDownType ==
  ASSUME NEW i \in 0 .. N, NEW line \in Line, NEW rest \in Seq(Task)
  PROVE  WriteDown(i, line) \o rest \in Seq(Task)
<1>1. CASE line.dirty
  <2>1. WriteBack(i, line) \in Task
    BY CallType
  <2> QED
    BY <1>1, <2>1, StackType DEF WriteDown
<1>2. CASE ~line.dirty
  BY <1>2, ConcatEmptySeq DEF WriteDown
<1> QED
  BY <1>1, <1>2

LEMMA HandleEvictionType ==
  ASSUME TypeInv, HandleEviction
  PROVE  TypeInv'
<1> DEFINE i == Head(work).level
           line == Head(work).line
           below == Below(i)
           rest == (IF Inclusive(i) THEN <<BackInvalidate(i, 0, line.block)>> ELSE << >>)
                   \o Tail(work)
           kept == [line EXCEPT !.dirty = @ /\ ~WriteThrough[below], !.prefetched = FALSE]
<1>0. /\ work # << >> /\ i \in Levels /\ line \in Line /\ line.block \in Blocks
      /\ Tail(work) \in Seq(Task) /\ LevelsOK /\ BuffersBounded
  BY HeadType DEF HandleEviction, TypeInv
<1>1. rest \in Seq(Task)
  <2>1. CASE Inclusive(i)
    <3>1. BackInvalidate(i, 0, line.block) \in Task
      <4>1. 0 \in 0 .. N
        BY NAssumption
      <4> QED
        BY <1>0, <4>1, CallType
    <3> QED
      BY <1>0, <2>1, <3>1, StackType
  <2>2. CASE ~Inclusive(i)
    BY <1>0, <2>2, ConcatEmptySeq
  <2> QED
    BY <2>1, <2>2
<1>2. below = i + 1 /\ below \in 0 .. N
  BY <1>0, NAssumption DEF Below, Levels
<1>3. LevelsOK' /\ BuffersBounded' /\ work' \in Seq(Task)
  <2>1. CASE Exclusive(below)
    <3>1. below \in Levels /\ below + 1 \in 0 .. N
      BY <2>1, NAssumption DEF Exclusive, Levels
    <3>2. Allocate(below, kept, buffer[below], WriteOn(below, line) \o rest)
      BY <2>1 DEF HandleEviction
    <3>3. kept \in Line
      <4>1. (line.dirty /\ ~WriteThrough[below]) \in BOOLEAN
        OBVIOUS
      <4> QED
        BY <1>0, <4>1 DEF Line
    <3>4. buffer[below] \in Seq(Line) /\ Len(buffer[below]) <= Entries[below]
      BY <1>0, <3>1 DEF LevelsOK, BuffersBounded
    <3> HIDE DEF i, line, below, rest, kept
    <3>5. WriteOn(below, line) \o rest \in Seq(Task)
      <4>1. CASE line.dirty /\ WriteThrough[below]
        <5>1. WriteBack(below + 1, line) \in Task
          BY <1>0, <3>1, CallType
        <5> QED
          BY <1>1, <4>1, <5>1, StackType DEF WriteOn
      <4>2. CASE ~(line.dirty /\ WriteThrough[below])
        BY <1>1, <4>2, ConcatEmptySeq DEF WriteOn
      <4> QED
        BY <4>1, <4>2
    <3> QED
      BY <1>0, <3>1, <3>2, <3>3, <3>4, <3>5, AllocateType
  <2>2. CASE ~Exclusive(below)
    <3>1. work' = WriteDown(below, line) \o rest /\ UNCHANGED <<contents, fresh>>
      BY <2>2 DEF HandleEviction
    <3> HIDE DEF i, line, below, rest, kept
    <3>2. WriteDown(below, line) \o rest \in Seq(Task)
      BY <1>0, <1>1, <1>2, WriteDownType
    <3> QED
      BY <1>0, <3>1, <3>2, LevelsUnchanged DEF contents
  <2> QED
    BY <2>1, <2>2
<1>4. UNCHANGED <<pc, req, fetch, snapshot>> /\ HistoryOK'
  BY DEF HandleEviction, TypeInv, HistoryOK
<1> QED
  BY <1>0, <1>3, <1>4, StackStep

LEMMA BackInvalidateType ==
  ASSUME TypeInv, BackInvalidateStep
  PROVE  TypeInv'
<1> DEFINE i == Head(work).level
           nth == Head(work).nth
           b == Head(work).line.block
           k == NthAbove(i, nth)
           rest == NextAbove(i, nth, b) \o Tail(work)
<1>0. /\ work # << >> /\ i \in Levels /\ nth \in 0 .. N /\ b \in Blocks
      /\ Head(work).line \in Line /\ Tail(work) \in Seq(Task) /\ LevelsOK /\ BuffersBounded
  BY HeadType DEF BackInvalidateStep, TypeInv
<1>1. rest \in Seq(Task)
  <2>1. CASE nth + 1 < i
    <3>1. BackInvalidate(i, nth + 1, b) \in Task
      <4>1. nth + 1 \in 0 .. N
        BY <1>0, <2>1, NAssumption DEF Levels
      <4> HIDE DEF i, nth, b
      <4> QED
        BY <1>0, <4>1, CallType
    <3> QED
      BY <1>0, <2>1, <3>1, StackType DEF NextAbove
  <2>2. CASE ~(nth + 1 < i)
    BY <1>0, <2>2, ConcatEmptySeq DEF NextAbove
  <2> QED
    BY <2>1, <2>2
<1>2. CASE nth < i /\ LosesCopy(k, b)
  <2>1. k \in Levels /\ Contains(k, b) /\ i + 1 \in 0 .. N
    BY <1>0, <1>2, NAssumption DEF NthAbove, LosesCopy, Levels
  <2>2. Invalidate(k, b) /\ work' = WriteDown(i + 1, LineOf(k, b)) \o rest
    BY <1>2 DEF BackInvalidateStep
  <2>3. LineOf(k, b) \in Line
    BY <1>0, <2>1, LineOfType
  <2> HIDE DEF i, nth, b, k, rest
  <2>4. LevelsOK' /\ BuffersBounded'
    BY <1>0, <2>1, <2>2, InvalidateType
  <2>5. work' \in Seq(Task)
    BY <1>1, <2>1, <2>2, <2>3, WriteDownType
  <2> QED
    BY <1>0, <2>4, <2>5, StackStep DEF BackInvalidateStep, TypeInv, HistoryOK
<1>3. CASE ~(nth < i /\ LosesCopy(k, b))
  <2>1. work' = rest /\ UNCHANGED <<contents, fresh>>
    BY <1>3 DEF BackInvalidateStep
  <2>2. LevelsOK' /\ BuffersBounded'
    BY <1>0, <2>1, LevelsUnchanged DEF contents
  <2> HIDE DEF rest
  <2> QED
    BY <1>0, <1>1, <2>1, <2>2, StackStep DEF BackInvalidateStep, TypeInv, HistoryOK
<1> QED
  BY <1>2, <1>3

LEMMA WriteBackStepType ==
  ASSUME TypeInv, WriteBackStep
  PROVE  TypeInv'
<1> DEFINE i == Head(work).level
           line == Head(work).line
           b == line.block
           onward == <<WriteBack(i + 1, line)>> \o Tail(work)
<1>0. /\ work # << >> /\ i \in 0 .. N /\ line \in Line /\ b \in Blocks /\ line.fresh \in BOOLEAN
      /\ Tail(work) \in Seq(Task) /\ LevelsOK /\ BuffersBounded
      /\ UNCHANGED <<pc, req, fetch, snapshot>>
  BY HeadType DEF WriteBackStep, TypeInv, Line
<1>1. i < N => i \in Levels /\ i + 1 \in 0 .. N
  BY <1>0, NAssumption DEF Levels
<1>2. i < N => onward \in Seq(Task)
  <2> SUFFICES ASSUME i < N PROVE onward \in Seq(Task)
    OBVIOUS
  <2>1. WriteBack(i + 1, line) \in Task
    BY <1>0, <1>1, CallType
  <2> QED
    BY <1>0, <2>1, StackType
<1>3. HistoryOK'
  BY <1>0 DEF TypeInv, HistoryOK, WriteBackStep, With, history
<1> SUFFICES LevelsOK' /\ BuffersBounded' /\ work' \in Seq(Task)
  BY <1>0, <1>3, StackStep
<1>4. \/ i = N /\ work' = Tail(work) /\ UNCHANGED <<contents, fresh>>
      \/ i < N /\ Contains(i, b) /\ SetDirty(i, b, LineOf(i, b).dirty, line.fresh) /\ work' = onward
      \/ i < N /\ Allocate(i, [line EXCEPT !.dirty = FALSE], buffer[i], onward)
      \/ i < N /\ work' = onward /\ UNCHANGED <<contents, fresh>>
      \/ i < N /\ SetDirty(i, b, TRUE, line.fresh) /\ work' = Tail(work)
      \/ i < N /\ Allocate(i, line, buffer[i], Tail(work))
  BY DEF WriteBackStep, history
<1>5. i < N => buffer[i] \in Seq(Line) /\ Len(buffer[i]) <= Entries[i]
  BY <1>0, <1>1 DEF LevelsOK, BuffersBounded
<1>6. [line EXCEPT !.dirty = FALSE] \in Line
  BY <1>0 DEF Line
<1> HIDE DEF i, line, b, onward
<1>7. CASE i = N /\ work' = Tail(work) /\ UNCHANGED <<contents, fresh>>
  BY <1>0, <1>7, LevelsUnchanged DEF contents
<1>12. CASE i < N /\ work' = onward /\ UNCHANGED <<contents, fresh>>
  BY <1>0, <1>2, <1>12, LevelsUnchanged DEF contents
<1>8. CASE i < N /\ Contains(i, b) /\ SetDirty(i, b, LineOf(i, b).dirty, line.fresh) /\ work' = onward
  <2>1. LineOf(i, b).dirty \in BOOLEAN
    BY <1>0, <1>1, <1>8, LineOfType DEF Line
  <2> QED
    BY <1>0, <1>1, <1>2, <1>8, <2>1, SetDirtyType
<1>9. CASE i < N /\ SetDirty(i, b, TRUE, line.fresh) /\ work' = Tail(work)
  BY <1>0, <1>1, <1>9, SetDirtyType
<1>10. CASE i < N /\ Allocate(i, [line EXCEPT !.dirty = FALSE], buffer[i], onward)
  BY <1>0, <1>1, <1>2, <1>5, <1>6, <1>10, AllocateType
<1>11. CASE i < N /\ Allocate(i, line, buffer[i], Tail(work))
  BY <1>0, <1>1, <1>5, <1>11, AllocateType
<1> QED
  BY <1>4, <1>7, <1>8, <1>9, <1>10, <1>11, <1>12

\* flush().
LEMMA DirtyLinesType ==
  ASSUME LevelsOK, NEW i \in Levels
  PROVE  DirtyLines(i) \subseteq [place : {"array", "buffer"}, block : Blocks]
<1>1. dirty[i] \subseteq Blocks /\ buffer[i] \in Seq(Line)
  BY DEF LevelsOK
<1>2. \A n \in DOMAIN buffer[i] : buffer[i][n].block \in Blocks
  <2> SUFFICES ASSUME NEW n \in DOMAIN buffer[i] PROVE buffer[i][n].block \in Blocks
    OBVIOUS
  <2>1. buffer[i][n] \in Line
    BY <1>1
  <2> QED
    BY <2>1 DEF Line
<1> QED
  BY <1>1, <1>2 DEF DirtyLines

LEMMA FlushLevelsType ==
  ASSUME TypeInv, BeginFlush \/ FlushNextLevel
  PROVE  TypeInv'
<1> USE DEF TypeInv
<1>0. /\ req \in Request /\ work' = work /\ work = << >> /\ pc' = "flush"
      /\ UNCHANGED <<contents, history, fetch>>
  BY DEF BeginFlush, FlushNextLevel, LocalsOK, StackOK
<1>1. LevelsOK' /\ BuffersBounded'
  BY <1>0, LevelsUnchanged DEF contents, history
<1>2. /\ req' \in Request /\ req'.level \in Levels
      /\ \E i \in Levels : snapshot' = DirtyLines(i)
  <2>1. CASE BeginFlush
    <3>1. req.level = 0 /\ 0 \in Levels
      BY <2>1, NAssumption DEF BeginFlush, LocalsOK, NoRequest, Levels
    <3> QED
      BY <1>0, <2>1, <3>1 DEF BeginFlush, FlushLevel
  <2>2. CASE FlushNextLevel
    <3>1. req.level + 1 \in Levels /\ req.level + 1 \in 0 .. N
      BY <1>0, <2>2, NAssumption DEF FlushNextLevel, Request, Levels
    <3> QED
      BY <1>0, <2>2, <3>1 DEF FlushNextLevel, FlushLevel, Request
  <2> QED
    BY <2>1, <2>2
<1>3. LocalsOK'
  BY <1>0, <1>2, DirtyLinesType DEF LocalsOK
<1>4. StackOK' /\ HitHolds' /\ HistoryOK'
  BY <1>0 DEF StackOK, HitHolds, HistoryOK, history
<1> QED
  BY <1>1, <1>3, <1>4

LEMMA FlushLineType ==
  ASSUME TypeInv, FlushLine
  PROVE  TypeInv'
<1> USE DEF TypeInv
<1>0. /\ pc = "flush" /\ UNCHANGED <<pc, req, fetch, memory, owed>> /\ req.level \in Levels
  BY DEF FlushLine, LocalsOK
<1> DEFINE i == FlushLevel(req.level)
<1>1. i \in Levels /\ i + 1 \in 0 .. N
  BY <1>0, NAssumption DEF FlushLevel, Levels
<1>2. PICK entry \in snapshot :
        /\ snapshot' = snapshot \ {entry}
        /\ IF Contains(i, entry.block)
           THEN SetDirty(i, entry.block, FALSE, LineOf(i, entry.block).fresh)
           ELSE UNCHANGED <<contents, fresh>>
        /\ work' = <<WriteBack(i + 1, [block |-> entry.block, dirty |-> TRUE, prefetched |-> FALSE,
                                       fresh |-> Contains(i, entry.block) /\ LineOf(i, entry.block).fresh])>>
  BY DEF FlushLine
<1> DEFINE b == entry.block
           line == [block |-> b, dirty |-> TRUE, prefetched |-> FALSE,
                    fresh |-> Contains(i, b) /\ LineOf(i, b).fresh]
<1>3. b \in Blocks /\ snapshot' \subseteq [place : {"array", "buffer"}, block : Blocks]
  BY <1>2 DEF LocalsOK
<1>4. LevelsOK' /\ BuffersBounded'
  <2>1. CASE Contains(i, b)
    <3>1. LineOf(i, b).fresh \in BOOLEAN
      BY <1>1, <1>3, <2>1, LineOfType DEF Line
    <3>2. SetDirty(i, b, FALSE, LineOf(i, b).fresh)
      BY <1>2, <2>1
    <3> HIDE DEF i, b
    <3> QED
      BY <1>1, <1>3, <3>1, <3>2, SetDirtyType
  <2>2. CASE ~Contains(i, b)
    BY <1>2, <2>2, LevelsUnchanged DEF contents
  <2> QED
    BY <2>1, <2>2
<1>5. StackOK'
  <2>1. line \in Line
    BY <1>3 DEF Line
  <2>2. work' = <<WriteBack(i + 1, line)>>
    BY <1>2
  <2> HIDE DEF i, line
  <2>3. WriteBack(i + 1, line) \in Task
    BY <1>1, <2>1, CallType
  <2> QED
    BY <1>0, <2>2, <2>3 DEF StackOK
<1>6. LocalsOK'
  BY <1>0, <1>3 DEF LocalsOK
<1>7. HitHolds' /\ HistoryOK'
  BY <1>0 DEF HitHolds, HistoryOK
<1> QED
  BY <1>4, <1>5, <1>6, <1>7

LEMMA TypeInvStep == TypeInv /\ [Next]_vars => TypeInv'
<1> SUFFICES ASSUME TypeInv, [Next]_vars PROVE TypeInv'
  OBVIOUS
<1>1. CASE \E b \in Blocks, store \in BOOLEAN : BeginAccess(b, store)
  BY <1>1, BeginAccessType
<1>2. CASE ProbeHit \/ ProbeVictimHit \/ ProbeMiss \/ ReachMemory
  BY <1>2, ProbeHitType, ProbeVictimHitType, ProbeMissType, ReachMemoryType
<1>3. CASE Settle \/ MoveUp \/ Fill \/ Forward
  BY <1>3, SettleType, MoveUpType, FillType, ForwardType
<1>4. CASE Observe \/ Issue \/ PrefetchFill \/ PrefetchDone \/ FinishAccess
  BY <1>4, ObserveType, IssueType, FillType, ReturnType
<1>5. CASE HandleEviction \/ BackInvalidateStep \/ WriteBackStep
  BY <1>5, HandleEvictionType, BackInvalidateType, WriteBackStepType
<1>6. CASE BeginFlush \/ FlushLine \/ FlushNextLevel \/ FinishFlush
  BY <1>6, FlushLevelsType, FlushLineType, ReturnType
<1>7. CASE UNCHANGED vars
  BY <1>7 DEF vars, TypeInv, LevelsOK, BuffersBounded, StackOK, LocalsOK, HitHolds, HistoryOK,
              Contains, Buffered
<1> QED
  BY <1>1, <1>2, <1>3, <1>4, <1>5, <1>6, <1>7 DEF Next, Step

LEMMA TypeInvAlways == Spec => []TypeInv
  BY TypeInvInit, TypeInvStep, PTL DEF Spec

\* Type correctness: in every state of every hierarchy the lists, dictionaries
\* and locals of the simulator hold values of their types, no call is made with a
\* level or a block that does not exist, and a flag is set only for a block that
\* is in the array.
THEOREM TypeCorrect == Spec => []TypeOK
<1>1. TypeInv => TypeOK
  BY DEF TypeInv, LevelsOK, StackOK, LocalsOK, HistoryOK, TypeOK
<1> QED
  BY <1>1, TypeInvAlways, PTL

\* A victim-buffer hit frees the entry it needs before it needs one: nothing is
\* ever handed to take_pending_eviction().
THEOREM VictimHitIsQuiet == Spec => VictimHitDisplacesNothing
<1>1. TypeInv /\ [Next]_vars => [pc = "probe" => work' = << >>]_vars
  <2> SUFFICES ASSUME TypeInv, Next, pc = "probe" PROVE work' = << >>
    OBVIOUS
  <2>1. work = << >>
    BY DEF TypeInv, StackOK
  <2>2. CASE ProbeVictimHit
    BY <2>2, VictimHitQuiet
  <2>3. CASE ProbeHit \/ ProbeMiss \/ ReachMemory
    BY <2>1, <2>3 DEF ProbeHit, ProbeMiss, ReachMemory
  <2> QED
    BY <2>1, <2>2, <2>3 DEF Next, Step, BeginAccess, BeginFlush, Settle, MoveUp, Fill, Forward,
       Observe, Issue, PrefetchFill, PrefetchDone, FinishAccess, HandleEviction,
       BackInvalidateStep, WriteBackStep, FlushLine, FlushNextLevel, FinishFlush
<1> QED
  BY <1>1, TypeInvAlways, PTL DEF Spec, VictimHitDisplacesNothing

-----------------------------------------------------------------------------
(* The parts of the inductive invariant of NoStoreIsLost.                  *)

BlocksOf(lines) == {lines[n].block : n \in DOMAIN lines}

Distinct(lines) == \A m, n \in DOMAIN lines : lines[m].block = lines[n].block => m = n

DirtyBlocks(lines) == {lines[n].block : n \in {m \in DOMAIN lines : lines[m].dirty}}

\* The blocks whose modified data is in level i.
AtLevel(i) == dirty[i] \cup DirtyBlocks(buffer[i])

\* The blocks whose modified data the calls of the stack carry.
Carried(stack) == {stack[n].line.block : n \in {m \in DOMAIN stack : stack[m].line.dirty}}

\* All calls of the stack are about levels below level k.
StackBelow(stack, k) == \A n \in DOMAIN stack : stack[n].level > k

\* A level has one copy of a block.
SingleCopy ==
  \A i \in Levels : resident[i] \cap BlocksOf(buffer[i]) = {} /\ Distinct(buffer[i])

\* The block to be filled is in no victim buffer of the levels to fill.
FillsAbsent ==
  /\ pc = "probe" => \A k \in Levels : k < req.level => req.block \notin BlocksOf(buffer[k])
  /\ pc = "settle" => \A k \in Levels : k < req.hit => req.block \notin BlocksOf(buffer[k])
  /\ pc = "issue" => fetch.block \notin BlocksOf(buffer[fetch.to])
  /\ pc \in {"move", "fill", "prefetch"} =>
       \A k \in Levels : fetch.to <= k /\ k <= fetch.at => fetch.block \notin BlocksOf(buffer[k])

\* The evictions of a fill stay below the level that is filled next.
WorkBelow == pc \in {"fill", "prefetch"} => StackBelow(work, fetch.at)

\* The level that took a store is the last one to fill, and no exclusive level
\* is unless it took the store.
ReqFacts ==
  /\ pc = "probe" => /\ req.taken = -1 => req.fillFrom = 0
                     /\ req.taken >= 0 => req.fillFrom = req.taken /\ req.taken < req.level /\ ~req.write
  /\ pc = "settle" => /\ req.taken = -1 => req.fillFrom \in {0, N}
                      /\ req.taken >= 0 => /\ req.fillFrom = req.taken /\ req.taken <= req.hit
                                           /\ ~WriteThrough[req.taken] /\ req.taken = req.hit
                                                => req.block \in dirty[req.hit]

\* The last level of a fill is filled.
FetchFacts ==
  /\ pc \in {"move", "fill", "prefetch"} => fetch.to = fetch.keep \/ ~Exclusive(fetch.to)
  /\ pc = "move" => fetch.at = req.hit - 1 /\ fetch.to <= fetch.at /\ fetch.block = req.block
  /\ pc = "issue" => fetch.to \in Levels /\ fetch.keep = fetch.to /\ ~fetch.dirty

\* Where the modified data of block b may be.
Somewhere(b) == (\E i \in Levels : b \in AtLevel(i)) \/ b \in Carried(work) \/ InRequest(b)

LinesInv ==
  /\ SingleCopy /\ FillsAbsent /\ WorkBelow /\ ReqFacts /\ FetchFacts
  /\ \A b \in owed : Somewhere(b)

ConservationInv == TypeInv /\ LinesInv

\* An exclusive level that is about to take an evicted line has no copy of its
\* block in the victim buffer.
EvictsAbsent ==
  LET t == Head(work)
  IN  work # << >> /\ t.op = "evict" /\ Exclusive(t.level + 1)
        => t.line.block \notin BlocksOf(buffer[t.level + 1])

-----------------------------------------------------------------------------
(* Lemmas about buffers and stacks.                                        *)

\* The elements of a sequence without its n-th one.
LEMMA RemoveAtElements ==
  ASSUME NEW S, NEW s \in Seq(S), NEW n \in 1 .. Len(s)
  PROVE  /\ DOMAIN Ext!RemoveAt(s, n) = 1 .. Len(s) - 1
         /\ \A k \in 1 .. Len(s) - 1 : Ext!RemoveAt(s, n)[k] = IF k < n THEN s[k] ELSE s[k + 1]
<1> DEFINE before == SubSeq(s, 1, n - 1)
           after == SubSeq(s, n + 1, Len(s))
<1>1. before \in Seq(S) /\ Len(before) = n - 1 /\ \A k \in 1 .. n - 1 : before[k] = s[k]
  OBVIOUS
<1>2. after \in Seq(S) /\ Len(after) = Len(s) - n /\ \A k \in 1 .. Len(s) - n : after[k] = s[n + k]
  OBVIOUS
<1>3. Ext!RemoveAt(s, n) = before \o after
  BY DEF Ext!RemoveAt
<1> HIDE DEF before, after
<1>4. /\ before \o after \in Seq(S) /\ Len(before \o after) = Len(s) - 1
      /\ \A k \in 1 .. Len(s) - 1 :
           (before \o after)[k] = IF k <= n - 1 THEN before[k] ELSE after[k - (n - 1)]
  <2>1. /\ before \o after \in Seq(S) /\ Len(before \o after) = Len(before) + Len(after)
        /\ \A k \in 1 .. Len(before) + Len(after) :
             (before \o after)[k] = IF k <= Len(before) THEN before[k] ELSE after[k - Len(before)]
    BY <1>1, <1>2, ConcatProperties
  <2>2. Len(before) + Len(after) = Len(s) - 1
    BY <1>1, <1>2
  <2> QED
    BY <1>1, <2>1, <2>2
<1>5. ASSUME NEW k \in 1 .. Len(s) - 1
      PROVE  (before \o after)[k] = IF k < n THEN s[k] ELSE s[k + 1]
  <2>1. CASE k < n
    BY <1>1, <1>4, <2>1
  <2>2. CASE ~(k < n)
    <3>1. k - (n - 1) \in 1 .. Len(s) - n /\ n + (k - (n - 1)) = k + 1
      BY <2>2
    <3> QED
      BY <1>2, <1>4, <2>2, <3>1
  <2> QED
    BY <2>1, <2>2
<1> QED
  BY <1>3, <1>4, <1>5

\* VictimBuffer.take: the one entry of the block is gone, the others stay.
LEMMA WithoutBlocks ==
  ASSUME NEW lines \in Seq(Line), Distinct(lines), NEW b
  PROVE  /\ Distinct(Without(lines, b))
         /\ BlocksOf(Without(lines, b)) = BlocksOf(lines) \ {b}
         /\ DirtyBlocks(Without(lines, b)) = DirtyBlocks(lines) \ {b}
<1>1. CASE \E n \in DOMAIN lines : lines[n].block = b
  <2> DEFINE m == CHOOSE n \in DOMAIN lines : lines[n].block = b
             new == Without(lines, b)
             old(k) == IF k < m THEN k ELSE k + 1
  <2>1. m \in 1 .. Len(lines) /\ lines[m].block = b
    BY <1>1
  <2>2. new = Ext!RemoveAt(lines, m)
    BY <1>1 DEF Without
  <2> HIDE DEF m, new
  <2>3. /\ DOMAIN new = 1 .. Len(lines) - 1
        /\ \A k \in DOMAIN new : new[k] = lines[old(k)] /\ old(k) \in DOMAIN lines /\ old(k) # m
    BY <2>1, <2>2, RemoveAtElements
  <2>4. \A n \in DOMAIN lines : n # m => \E k \in DOMAIN new : old(k) = n
    <3> SUFFICES ASSUME NEW n \in DOMAIN lines, n # m PROVE \E k \in DOMAIN new : old(k) = n
      OBVIOUS
    <3>1. CASE n < m
      <4>1. n \in DOMAIN new /\ old(n) = n
        BY <2>1, <2>3, <3>1
      <4> QED
        BY <4>1
    <3>2. CASE n > m
      <4>1. n - 1 \in DOMAIN new /\ old(n - 1) = n
        BY <2>1, <2>3, <3>2
      <4> QED
        BY <4>1
    <3> QED
      BY <2>1, <3>1, <3>2
  <2>5. \A j, k \in DOMAIN new : old(j) = old(k) => j = k
    BY <2>1, <2>3
  <2>6. \A n \in DOMAIN lines : lines[n].block = b => n = m
    BY <2>1 DEF Distinct
  <2> HIDE DEF old
  <2>7. Distinct(new)
    BY <2>3, <2>5 DEF Distinct
  <2>8. BlocksOf(new) = BlocksOf(lines) \ {b}
    BY <2>3, <2>4, <2>6, <2>1 DEF BlocksOf
  <2>9. DirtyBlocks(new) = DirtyBlocks(lines) \ {b}
    BY <2>3, <2>4, <2>6, <2>1 DEF DirtyBlocks
  <2> QED
    BY <2>7, <2>8, <2>9 DEF new
<1>2. CASE ~ \E n \in DOMAIN lines : lines[n].block = b
  BY <1>2 DEF Without, BlocksOf, DirtyBlocks
<1> QED
  BY <1>1, <1>2

\* VictimBuffer.push of a block that is not in the buffer.
LEMMA PushedBlocks ==
  ASSUME NEW lines \in Seq(Line), NEW line \in Line, line.block \notin BlocksOf(lines)
  PROVE  /\ Distinct(lines) => Distinct(Pushed(lines, line))
         /\ BlocksOf(Pushed(lines, line)) = BlocksOf(lines) \cup {line.block}
         /\ DirtyBlocks(lines) \subseteq DirtyBlocks(Pushed(lines, line))
         /\ line.dirty => line.block \in DirtyBlocks(Pushed(lines, line))
<1> DEFINE new == Append(lines, line)
<1>1. Pushed(lines, line) = new
  BY DEF Pushed, Without, BlocksOf
<1>2. /\ DOMAIN new = 1 .. Len(lines) + 1 /\ DOMAIN lines = 1 .. Len(lines)
      /\ \A n \in DOMAIN lines : new[n] = lines[n]
      /\ new[Len(lines) + 1] = line
  BY AppendProperties
<1> HIDE DEF new
<1>3. \A n \in DOMAIN new : n \in DOMAIN lines \/ n = Len(lines) + 1
  BY <1>2
<1>4. DOMAIN lines \subseteq DOMAIN new /\ Len(lines) + 1 \in DOMAIN new
  BY <1>2
<1>5. Distinct(lines) => Distinct(new)
  BY <1>2, <1>3 DEF Distinct, BlocksOf
<1>6. BlocksOf(new) = BlocksOf(lines) \cup {line.block}
  BY <1>2, <1>3, <1>4 DEF BlocksOf
<1>7. DirtyBlocks(lines) \subseteq DirtyBlocks(new) /\ (line.dirty => line.block \in DirtyBlocks(new))
  BY <1>2, <1>4 DEF DirtyBlocks
<1> QED
  BY <1>1, <1>5, <1>6, <1>7

\* The least recently used entry leaves the buffer.
LEMMA TailBlocks ==
  ASSUME NEW lines \in Seq(Line), lines # << >>
  PROVE  /\ Distinct(lines) => Distinct(Tail(lines))
         /\ BlocksOf(Tail(lines)) \subseteq BlocksOf(lines)
         /\ \A b \in DirtyBlocks(lines) :
              b \in DirtyBlocks(Tail(lines)) \/ (Head(lines).dirty /\ Head(lines).block = b)
<1>1. /\ DOMAIN lines = 1 .. Len(lines) /\ DOMAIN Tail(lines) = 1 .. Len(lines) - 1
      /\ \A n \in DOMAIN Tail(lines) : Tail(lines)[n] = lines[n + 1] /\ n + 1 \in DOMAIN lines
      /\ \A n \in DOMAIN lines : n = 1 \/ n - 1 \in DOMAIN Tail(lines)
      /\ \A n \in DOMAIN lines : n \in Int
      /\ Head(lines) = lines[1] /\ Len(lines) \in Nat
  BY HeadTailProperties
<1>2. Distinct(lines) => Distinct(Tail(lines))
  <2> SUFFICES ASSUME Distinct(lines), NEW m \in DOMAIN Tail(lines), NEW n \in DOMAIN Tail(lines),
                      Tail(lines)[m].block = Tail(lines)[n].block
               PROVE  m = n
    BY DEF Distinct
  <2>1. m + 1 = n + 1
    BY <1>1 DEF Distinct
  <2> QED
    BY <1>1, <2>1
<1>3. BlocksOf(Tail(lines)) \subseteq BlocksOf(lines)
  BY <1>1 DEF BlocksOf
<1>4. ASSUME NEW b \in DirtyBlocks(lines)
      PROVE  b \in DirtyBlocks(Tail(lines)) \/ (Head(lines).dirty /\ Head(lines).block = b)
  <2>1. PICK n \in DOMAIN lines : lines[n].dirty /\ lines[n].block = b
    BY DEF DirtyBlocks
  <2>2. CASE n = 1
    BY <1>1, <2>1, <2>2
  <2>3. CASE n # 1
    <3>1. n - 1 \in DOMAIN Tail(lines) /\ Tail(lines)[n - 1] = lines[n]
      <4>1. (n - 1) + 1 = n
        BY <1>1
      <4> QED
        BY <1>1, <2>3, <4>1
    <3> QED
      BY <2>1, <3>1 DEF DirtyBlocks
  <2> QED
    BY <2>2, <2>3
<1> QED
  BY <1>2, <1>3, <1>4

\* VictimBuffer.replace changes the entry of one block.
LEMMA ReplacedBlocks ==
  ASSUME NEW lines \in Seq(Line), NEW b, NEW line, b \in BlocksOf(lines) => line.block = b
  PROVE  /\ Distinct(lines) => Distinct(Replaced(lines, b, line))
         /\ BlocksOf(Replaced(lines, b, line)) = BlocksOf(lines)
         /\ \A c \in DirtyBlocks(lines) : c = b \/ c \in DirtyBlocks(Replaced(lines, b, line))
         /\ b \in BlocksOf(lines) /\ line.dirty => b \in DirtyBlocks(Replaced(lines, b, line))
<1> DEFINE new == Replaced(lines, b, line)
<1>1. /\ DOMAIN new = DOMAIN lines
      /\ \A n \in DOMAIN lines : new[n] = IF lines[n].block = b THEN line ELSE lines[n]
  BY DEF Replaced
<1>2. \A n \in DOMAIN lines : lines[n].block = b => line.block = b
  BY DEF BlocksOf
<1> HIDE DEF new
<1>3. \A n \in DOMAIN lines : new[n].block = lines[n].block
  BY <1>1, <1>2
<1>4. Distinct(lines) => Distinct(new)
  BY <1>1, <1>3 DEF Distinct
<1>5. BlocksOf(new) = BlocksOf(lines)
  BY <1>1, <1>3 DEF BlocksOf
<1>6. \A c \in DirtyBlocks(lines) : c = b \/ c \in DirtyBlocks(new)
  BY <1>1 DEF DirtyBlocks
<1>7. b \in BlocksOf(lines) /\ line.dirty => b \in DirtyBlocks(new)
  BY <1>1, <1>2 DEF DirtyBlocks, BlocksOf
<1> QED
  BY <1>4, <1>5, <1>6, <1>7 DEF new

\* With one entry per block, the entry found is the one that is dirty.
LEMMA DirtyEntry ==
  ASSUME NEW i \in Levels, Distinct(buffer[i]), NEW b \in BlocksOf(buffer[i])
  PROVE  BufferedLine(i, b).dirty <=> b \in DirtyBlocks(buffer[i])
<1> DEFINE m == CHOOSE n \in DOMAIN buffer[i] : buffer[i][n].block = b
<1>1. m \in DOMAIN buffer[i] /\ buffer[i][m].block = b
  BY DEF BlocksOf
<1>2. BufferedLine(i, b) = buffer[i][m]
  BY DEF BufferedLine
<1> HIDE DEF m
<1>3. \A n \in DOMAIN buffer[i] : buffer[i][n].block = b => n = m
  BY <1>1 DEF Distinct
<1> QED
  BY <1>1, <1>2, <1>3 DEF DirtyBlocks

\* A call that is pushed or popped.
LEMMA CarriedPush ==
  ASSUME NEW t \in Task, NEW rest \in Seq(Task)
  PROVE  /\ Carried(rest) \subseteq Carried(<<t>> \o rest)
         /\ t.line.dirty => t.line.block \in Carried(<<t>> \o rest)
         /\ \A k \in Int : t.level > k /\ StackBelow(rest, k) => StackBelow(<<t>> \o rest, k)
<1> DEFINE new == <<t>> \o rest
<1>1. /\ DOMAIN new = 1 .. Len(rest) + 1 /\ DOMAIN rest = 1 .. Len(rest) /\ Len(rest) \in Nat
      /\ new[1] = t
      /\ \A n \in DOMAIN rest : new[n + 1] = rest[n] /\ n + 1 \in DOMAIN new
  OBVIOUS
<1> HIDE DEF new
<1>2. 1 \in DOMAIN new
  BY <1>1
<1>3. Carried(rest) \subseteq Carried(new) /\ (t.line.dirty => t.line.block \in Carried(new))
  BY <1>1, <1>2 DEF Carried
<1>4. ASSUME NEW k \in Int, t.level > k, StackBelow(rest, k)
      PROVE  StackBelow(new, k)
  <2> SUFFICES ASSUME NEW n \in DOMAIN new PROVE new[n].level > k
    BY DEF StackBelow
  <2>1. CASE n = 1
    BY <1>1, <1>4, <2>1
  <2>2. CASE n # 1
    <3>1. n - 1 \in DOMAIN rest /\ (n - 1) + 1 = n
      BY <1>1, <2>2
    <3> QED
      BY <1>1, <1>4, <3>1 DEF StackBelow
  <2> QED
    BY <2>1, <2>2
<1> QED
  BY <1>3, <1>4 DEF new

LEMMA CarriedPop ==
  ASSUME NEW stack \in Seq(Task), stack # << >>
  PROVE  /\ \A b \in Carried(stack) :
              b \in Carried(Tail(stack)) \/ (Head(stack).line.dirty /\ Head(stack).line.block = b)
         /\ \A k \in Int : StackBelow(stack, k) => Head(stack).level > k /\ StackBelow(Tail(stack), k)
<1>1. /\ DOMAIN stack = 1 .. Len(stack) /\ DOMAIN Tail(stack) = 1 .. Len(stack) - 1
      /\ 1 \in DOMAIN stack
      /\ \A n \in DOMAIN Tail(stack) : Tail(stack)[n] = stack[n + 1] /\ n + 1 \in DOMAIN stack
      /\ \A n \in DOMAIN stack : n = 1 \/ (n - 1 \in DOMAIN Tail(stack) /\ (n - 1) + 1 = n)
      /\ Head(stack) = stack[1]
  BY HeadTailProperties
<1>2. ASSUME NEW b \in Carried(stack)
      PROVE  b \in Carried(Tail(stack)) \/ (Head(stack).line.dirty /\ Head(stack).line.block = b)
  <2>1. PICK n \in DOMAIN stack : stack[n].line.dirty /\ stack[n].line.block = b
    BY DEF Carried
  <2>2. CASE n = 1
    BY <1>1, <2>1, <2>2
  <2>3. CASE n # 1
    BY <1>1, <2>1, <2>3 DEF Carried
  <2> QED
    BY <2>2, <2>3
<1>3. \A k \in Int : StackBelow(stack, k) => Head(stack).level > k /\ StackBelow(Tail(stack), k)
  BY <1>1 DEF StackBelow
<1> QED
  BY <1>2, <1>3

-----------------------------------------------------------------------------
(* What the primitives of Cache do to modified data.                       *)

\* A step that changes one level only.
OnlyLevel(i) ==
  \A k \in Levels \ {i} :
    resident'[k] = resident[k] /\ dirty'[k] = dirty[k] /\ buffer'[k] = buffer[k]

OneCopyAt(i) == resident[i] \cap BlocksOf(buffer[i]) = {} /\ Distinct(buffer[i])

\* Cache.allocate: the level keeps one copy of a block, and its modified data
\* stays, or leaves with the line that is handed down.
LEMMA AllocateKeeps ==
  ASSUME LevelsOK, NEW i \in Levels, NEW line \in Line, NEW lines \in Seq(Line),
         NEW rest \in Seq(Task), Distinct(lines), resident[i] \cap BlocksOf(lines) = {},
         line.block \notin BlocksOf(lines), Allocate(i, line, lines, rest)
  PROVE  /\ OnlyLevel(i) /\ OneCopyAt(i)'
         /\ \A c \in dirty[i] \cup DirtyBlocks(lines) : c \in AtLevel(i)' \/ c \in Carried(work')
         /\ line.dirty => line.block \in AtLevel(i)'
         /\ Carried(rest) \subseteq Carried(work')
         /\ \A k \in Int : i > k /\ StackBelow(rest, k) => StackBelow(work', k)
<1> DEFINE goal == /\ OnlyLevel(i) /\ OneCopyAt(i)'
                   /\ \A c \in dirty[i] \cup DirtyBlocks(lines) : c \in AtLevel(i)' \/ c \in Carried(work')
                   /\ line.dirty => line.block \in AtLevel(i)'
                   /\ Carried(rest) \subseteq Carried(work')
                   /\ \A k \in Int : i > k /\ StackBelow(rest, k) => StackBelow(work', k)
<1>1. CASE /\ line.block \in resident[i]
           /\ dirty' = [dirty EXCEPT ![i] = IF line.dirty THEN @ \cup {line.block} ELSE @]
           /\ buffer' = [buffer EXCEPT ![i] = lines]
           /\ work' = rest
           /\ UNCHANGED resident
  <2>1. OnlyLevel(i)
    BY <1>1 DEF OnlyLevel, LevelsOK
  <2>2. /\ resident'[i] = resident[i] /\ buffer'[i] = lines
        /\ dirty[i] \subseteq dirty'[i] /\ (line.dirty => line.block \in dirty'[i])
    BY <1>1 DEF LevelsOK
  <2>3. OneCopyAt(i)'
    BY <2>2 DEF OneCopyAt
  <2> QED
    BY <1>1, <2>1, <2>2, <2>3 DEF AtLevel
<1>2. CASE /\ line.block \notin resident[i]
           /\ Place(i, line, {})
           /\ buffer' = [buffer EXCEPT ![i] = lines]
           /\ work' = rest
  <2>1. OnlyLevel(i)
    BY <1>2 DEF OnlyLevel, LevelsOK, Place
  <2>2. /\ resident'[i] = resident[i] \cup {line.block} /\ buffer'[i] = lines
        /\ dirty'[i] = With(dirty[i], line.block, line.dirty)
    BY <1>2 DEF LevelsOK, Place
  <2>3. OneCopyAt(i)'
    BY <2>2 DEF OneCopyAt
  <2>4. dirty[i] \subseteq dirty'[i] /\ (line.dirty => line.block \in dirty'[i])
    BY <1>2, <2>2 DEF With, LevelsOK
  <2> QED
    BY <1>2, <2>1, <2>2, <2>3, <2>4 DEF AtLevel
<1>3. ASSUME NEW victim \in SetMates(i, line.block),
             line.block \notin resident[i],
             Place(i, line, {victim}),
             IF Entries[i] = 0
             THEN buffer' = [buffer EXCEPT ![i] = lines] /\ work' = <<Evict(i, ArrayLine(i, victim))>> \o rest
             ELSE IF Len(Pushed(lines, ArrayLine(i, victim))) <= Entries[i]
             THEN buffer' = [buffer EXCEPT ![i] = Pushed(lines, ArrayLine(i, victim))] /\ work' = rest
             ELSE /\ buffer' = [buffer EXCEPT ![i] = Tail(Pushed(lines, ArrayLine(i, victim)))]
                  /\ work' = <<Evict(i, Head(Pushed(lines, ArrayLine(i, victim))))>> \o rest
      PROVE  goal
  <2> DEFINE out == ArrayLine(i, victim)
             pushed == Pushed(lines, out)
  <2>1. /\ out \in Line /\ out.block = victim /\ (victim \in dirty[i] => out.dirty)
        /\ victim \in resident[i] /\ victim # line.block
    <3>1. victim \in resident[i] /\ victim \in Blocks /\ victim # line.block
      BY <1>3 DEF SetMates, LevelsOK
    <3>2. out.block = victim /\ out.dirty = (victim \in dirty[i])
      BY DEF ArrayLine
    <3>3. out \in Line
      BY <3>1 DEF ArrayLine, Line
    <3> HIDE DEF out
    <3> QED
      BY <3>1, <3>2, <3>3
  <2>2. /\ Distinct(pushed) /\ BlocksOf(pushed) = BlocksOf(lines) \cup {victim}
        /\ DirtyBlocks(lines) \subseteq DirtyBlocks(pushed)
        /\ victim \in dirty[i] => victim \in DirtyBlocks(pushed)
    BY <2>1, PushedBlocks
  <2>3. pushed \in Seq(Line) /\ pushed # << >>
    BY <2>1, PushedType
  <2> HIDE DEF out, pushed
  <2>4. \E new \in Seq(Line) :
           /\ buffer' = [buffer EXCEPT ![i] = new]
           /\ Distinct(new) /\ BlocksOf(new) \subseteq BlocksOf(lines) \cup {victim}
           /\ \A c \in DirtyBlocks(lines) : c \in DirtyBlocks(new) \/ c \in Carried(work')
           /\ victim \in dirty[i] => victim \in DirtyBlocks(new) \/ victim \in Carried(work')
           /\ Carried(rest) \subseteq Carried(work')
           /\ \A k \in Int : i > k /\ StackBelow(rest, k) => StackBelow(work', k)
    <3>1. ASSUME NEW gone \in Line
          PROVE  /\ Carried(rest) \subseteq Carried(<<Evict(i, gone)>> \o rest)
                 /\ gone.dirty => gone.block \in Carried(<<Evict(i, gone)>> \o rest)
                 /\ \A k \in Int : i > k /\ StackBelow(rest, k)
                                    => StackBelow(<<Evict(i, gone)>> \o rest, k)
      <4>1. Evict(i, gone) \in Task
        BY CallType
      <4>2. Evict(i, gone).line = gone /\ Evict(i, gone).level = i
        BY DEF Evict, Call
      <4> QED
        BY <4>1, <4>2, CarriedPush
    <3>2. CASE Entries[i] = 0
      <4>1. buffer' = [buffer EXCEPT ![i] = lines] /\ work' = <<Evict(i, out)>> \o rest
        BY <1>3, <3>2 DEF out
      <4> QED
        BY <2>1, <3>1, <4>1
    <3>3. CASE Entries[i] # 0 /\ Len(pushed) <= Entries[i]
      <4>1. buffer' = [buffer EXCEPT ![i] = pushed] /\ work' = rest
        BY <1>3, <3>3 DEF out, pushed
      <4> QED
        BY <2>2, <2>3, <4>1
    <3>4. CASE Entries[i] # 0 /\ ~(Len(pushed) <= Entries[i])
      <4>1. /\ buffer' = [buffer EXCEPT ![i] = Tail(pushed)]
            /\ work' = <<Evict(i, Head(pushed))>> \o rest
        BY <1>3, <3>4 DEF out, pushed
      <4>2. /\ Head(pushed) \in Line /\ Tail(pushed) \in Seq(Line)
            /\ Distinct(Tail(pushed)) /\ BlocksOf(Tail(pushed)) \subseteq BlocksOf(pushed)
            /\ \A c \in DirtyBlocks(pushed) :
                 c \in DirtyBlocks(Tail(pushed)) \/ (Head(pushed).dirty /\ Head(pushed).block = c)
        BY <2>2, <2>3, HeadTailProperties, TailBlocks
      <4>3. \A c \in DirtyBlocks(pushed) : c \in DirtyBlocks(Tail(pushed)) \/ c \in Carried(work')
        BY <3>1, <4>1, <4>2
      <4>4. /\ Carried(rest) \subseteq Carried(work')
            /\ \A k \in Int : i > k /\ StackBelow(rest, k) => StackBelow(work', k)
        BY <3>1, <4>1, <4>2
      <4> QED
        BY <2>2, <4>1, <4>2, <4>3, <4>4
    <3> QED
      BY <3>2, <3>3, <3>4
  <2>5. /\ resident'[i] = (resident[i] \ {victim}) \cup {line.block}
        /\ dirty'[i] = With(dirty[i] \ {victim}, line.block, line.dirty)
    BY <1>3 DEF Place, LevelsOK
  <2>6. OnlyLevel(i)
    BY <1>3, <2>4 DEF OnlyLevel, Place, LevelsOK
  <2>7. PICK new \in Seq(Line) :
           /\ buffer'[i] = new
           /\ Distinct(new) /\ BlocksOf(new) \subseteq BlocksOf(lines) \cup {victim}
           /\ \A c \in DirtyBlocks(lines) : c \in DirtyBlocks(new) \/ c \in Carried(work')
           /\ victim \in dirty[i] => victim \in DirtyBlocks(new) \/ victim \in Carried(work')
    BY <2>4 DEF LevelsOK
  <2>8. OneCopyAt(i)'
    BY <2>1, <2>5, <2>7 DEF OneCopyAt
  <2>9. /\ \A c \in dirty[i] : c = victim \/ c \in dirty'[i]
        /\ line.dirty => line.block \in dirty'[i]
    BY <1>3, <2>5 DEF With, LevelsOK
  <2>10. \A c \in dirty[i] \cup DirtyBlocks(lines) : c \in AtLevel(i)' \/ c \in Carried(work')
    BY <2>7, <2>9 DEF AtLevel
  <2> QED
    BY <2>4, <2>6, <2>8, <2>9, <2>10 DEF AtLevel
<1> QED
  BY <1>1, <1>2, <1>3 DEF Allocate

\* Cache.invalidate: the modified data that leaves is in the line returned.
LEMMA InvalidateKeeps ==
  ASSUME LevelsOK, NEW i \in Levels, OneCopyAt(i), NEW b \in Blocks, Contains(i, b), Invalidate(i, b)
  PROVE  /\ OnlyLevel(i) /\ OneCopyAt(i)' /\ BlocksOf(buffer'[i]) \subseteq BlocksOf(buffer[i])
         /\ \A c \in AtLevel(i) : c \in AtLevel(i)' \/ (c = b /\ LineOf(i, b).dirty)
<1>1. CASE b \in resident[i]
  <2>1. /\ resident' = [resident EXCEPT ![i] = resident[i] \ {b}]
        /\ dirty' = [dirty EXCEPT ![i] = dirty[i] \ {b}]
        /\ buffer' = buffer
    BY <1>1 DEF Invalidate
  <2>2. OnlyLevel(i) /\ resident'[i] = resident[i] \ {b} /\ dirty'[i] = dirty[i] \ {b}
    BY <2>1 DEF OnlyLevel, LevelsOK
  <2>3. LineOf(i, b).dirty <=> b \in dirty[i]
    BY <1>1 DEF LineOf, ArrayLine
  <2> QED
    BY <2>1, <2>2, <2>3 DEF OneCopyAt, AtLevel
<1>2. CASE b \notin resident[i]
  <2>1. /\ buffer' = [buffer EXCEPT ![i] = Without(buffer[i], b)]
        /\ UNCHANGED <<resident, dirty>>
    BY <1>2 DEF Invalidate
  <2>2. OnlyLevel(i) /\ buffer'[i] = Without(buffer[i], b) /\ buffer[i] \in Seq(Line)
    BY <2>1 DEF OnlyLevel, LevelsOK
  <2>3. /\ Distinct(buffer'[i]) /\ BlocksOf(buffer'[i]) = BlocksOf(buffer[i]) \ {b}
        /\ DirtyBlocks(buffer'[i]) = DirtyBlocks(buffer[i]) \ {b}
    BY <2>2, WithoutBlocks DEF OneCopyAt
  <2>4. b \in DirtyBlocks(buffer[i]) => LineOf(i, b).dirty
    BY <1>2, DirtyEntry DEF LineOf, OneCopyAt, Contains, Buffered, BlocksOf
  <2> QED
    BY <2>1, <2>2, <2>3, <2>4 DEF OneCopyAt, AtLevel
<1> QED
  BY <1>1, <1>2

\* Cache.mark_dirty and Cache.clean touch one block.
LEMMA SetDirtyKeeps ==
  ASSUME LevelsOK, NEW i \in Levels, OneCopyAt(i), NEW b \in Blocks, Contains(i, b),
         NEW mark \in BOOLEAN, NEW current, SetDirty(i, b, mark, current)
  PROVE  /\ OnlyLevel(i) /\ OneCopyAt(i)' /\ BlocksOf(buffer'[i]) = BlocksOf(buffer[i])
         /\ \A c \in AtLevel(i) : c = b \/ c \in AtLevel(i)'
         /\ mark => b \in AtLevel(i)'
<1>0. UNCHANGED resident
  BY DEF SetDirty
<1>1. CASE b \in resident[i]
  <2>1. dirty' = [dirty EXCEPT ![i] = With(dirty[i], b, mark)] /\ buffer' = buffer
    BY <1>1 DEF SetDirty
  <2>2. OnlyLevel(i) /\ dirty'[i] = With(dirty[i], b, mark)
    BY <1>0, <2>1 DEF OnlyLevel, LevelsOK
  <2> QED
    BY <1>0, <2>1, <2>2 DEF OneCopyAt, AtLevel, With
<1>2. CASE b \notin resident[i]
  <2> DEFINE line == [BufferedLine(i, b) EXCEPT !.dirty = mark, !.fresh = current]
  <2>1. buffer' = [buffer EXCEPT ![i] = Replaced(buffer[i], b, line)] /\ UNCHANGED dirty
    BY <1>2 DEF SetDirty
  <2>2. b \in Buffered(i) /\ b \in BlocksOf(buffer[i])
    BY <1>2 DEF Contains, Buffered, BlocksOf
  <2>3. line.block = b /\ line.dirty = mark
    BY <2>2, BufferedLineType DEF Line
  <2> HIDE DEF line
  <2>4. OnlyLevel(i) /\ buffer'[i] = Replaced(buffer[i], b, line) /\ buffer[i] \in Seq(Line)
    BY <1>0, <2>1 DEF OnlyLevel, LevelsOK
  <2>5. /\ Distinct(buffer[i]) => Distinct(buffer'[i])
        /\ BlocksOf(buffer'[i]) = BlocksOf(buffer[i])
        /\ \A c \in DirtyBlocks(buffer[i]) : c = b \/ c \in DirtyBlocks(buffer'[i])
        /\ mark => b \in DirtyBlocks(buffer'[i])
    BY <2>2, <2>3, <2>4, ReplacedBlocks
  <2> QED
    BY <1>0, <2>1, <2>4, <2>5 DEF OneCopyAt, AtLevel
<1> QED
  BY <1>1, <1>2

\* A step that changes one level only.
LEMMA LevelStep ==
  ASSUME SingleCopy, NEW i \in Levels, OnlyLevel(i), OneCopyAt(i)'
  PROVE  /\ SingleCopy'
         /\ \A c : (\E k \in Levels : c \in AtLevel(k))
                  => c \in AtLevel(i) \/ (\E k \in Levels : c \in AtLevel(k)')
<1>1. SingleCopy'
  BY DEF SingleCopy, OnlyLevel, OneCopyAt
<1>2. \A k \in Levels : k # i => AtLevel(k)' = AtLevel(k)
  BY DEF AtLevel, OnlyLevel
<1> QED
  BY <1>1, <1>2

\* A step that changes no level.
LEMMA ContentsKept ==
  ASSUME SingleCopy, UNCHANGED <<resident, dirty, buffer>>
  PROVE  SingleCopy' /\ \A k : AtLevel(k)' = AtLevel(k)
  BY DEF SingleCopy, AtLevel

-----------------------------------------------------------------------------
(* The steps of access().                                                  *)

LEMMA InvInit == Init => LinesInv
<1> SUFFICES ASSUME Init PROVE LinesInv
  OBVIOUS
<1>1. SingleCopy
  BY DEF Init, SingleCopy, BlocksOf, Distinct
<1> QED
  BY <1>1 DEF Init, LinesInv, FillsAbsent, WorkBelow, ReqFacts, FetchFacts

LEMMA BeginAccessKeeps ==
  ASSUME ConservationInv, NEW b \in Blocks, NEW store \in BOOLEAN, BeginAccess(b, store)
  PROVE  LinesInv'
<1> USE DEF ConservationInv, LinesInv
<1>0. /\ pc = "idle" /\ pc' = "probe" /\ UNCHANGED <<resident, dirty, buffer, work, owed>>
      /\ req'.level = 0 /\ req'.taken = -1 /\ req'.fillFrom = 0
  BY DEF BeginAccess, contents, history, NoRequest
<1>1. SingleCopy' /\ \A k : AtLevel(k)' = AtLevel(k)
  BY <1>0, ContentsKept
<1>2. FillsAbsent' /\ WorkBelow' /\ FetchFacts'
  BY <1>0 DEF FillsAbsent, WorkBelow, FetchFacts, Levels
<1>3. ReqFacts'
  BY <1>0 DEF ReqFacts
<1>4. \A c \in owed' : Somewhere(c)'
  BY <1>0, <1>1 DEF Somewhere, InRequest
<1> QED
  BY <1>1, <1>2, <1>3, <1>4

\* A store that hits: the locals afterwards.
LEMMA HitAtFacts ==
  ASSUME ConservationInv, pc = "probe", NEW i \in Levels, i = req.level,
         NEW b \in Blocks, b = req.block, req' = HitAt(i), pc' = "settle",
         req.write /\ ~WriteThrough[i] => b \in dirty'[i],
         \A k \in Levels : k < i => buffer'[k] = buffer[k]
  PROVE  /\ ReqFacts' /\ FillsAbsent' /\ FetchFacts'
         /\ \A c : InRequest(c) => InRequest(c)'
         /\ req.write /\ WriteThrough[i] => InRequest(b)'
<1> USE DEF ConservationInv, LinesInv
<1>0. req \in Request /\ i \in Nat
  BY NAssumption DEF TypeInv, LocalsOK, Levels
<1>1. /\ req'.hit = i /\ req'.block = b
      /\ req.write => req'.taken = i /\ req'.fillFrom = i
      /\ ~req.write => req'.taken = req.taken /\ req'.fillFrom = req.fillFrom
      /\ req.write /\ WriteThrough[i] => req'.forward = i + 1
      /\ ~(req.write /\ WriteThrough[i]) => req'.forward = req.forward
  BY <1>0 DEF HitAt, Request
<1>2. ReqFacts'
  <2>1. CASE req.write
    BY <1>0, <1>1, <2>1 DEF ReqFacts
  <2>2. CASE ~req.write
    <3>1. req.taken \in Levels \cup {-1}
      BY <1>0 DEF Request
    <3> QED
      BY <1>0, <1>1, <2>2, <3>1 DEF ReqFacts, Levels
  <2> QED
    BY <2>1, <2>2
<1>3. FillsAbsent'
  BY <1>1 DEF FillsAbsent
<1>4. FetchFacts'
  BY DEF FetchFacts
<1>5. \A c : InRequest(c) => InRequest(c)'
  <2> SUFFICES ASSUME NEW c, InRequest(c) PROVE InRequest(c)'
    OBVIOUS
  <2>1. c = req.block /\ (req.forward >= 0 \/ (req.taken >= 0 /\ ~WriteThrough[req.taken]))
    BY DEF InRequest
  <2>2. req.taken >= 0 => ~req.write
    BY DEF ReqFacts
  <2>3. CASE req.write
    <3>1. req'.forward >= 0
      BY <1>0, <1>1, <2>1, <2>2, <2>3
    <3> QED
      BY <1>1, <2>1, <3>1 DEF InRequest
  <2>4. CASE ~req.write
    BY <1>1, <2>1, <2>4 DEF InRequest
  <2> QED
    BY <2>3, <2>4
<1>6. req.write /\ WriteThrough[i] => InRequest(b)'
  BY <1>0, <1>1 DEF InRequest
<1> QED
  BY <1>2, <1>3, <1>4, <1>5, <1>6

LEMMA ProbeHitKeeps ==
  ASSUME ConservationInv, ProbeHit
  PROVE  LinesInv'
<1> USE DEF ConservationInv, LinesInv
<1> PICK i \in Levels, b \in Blocks : i = req.level /\ b = req.block
  BY NAssumption DEF ProbeHit, TypeInv, LocalsOK, Request, Levels
<1>0. /\ b \in resident[i] /\ pc = "probe" /\ pc' = "settle"
      /\ dirty' = [dirty EXCEPT ![i] = With(dirty[i], b, DirtyAfterHit(i, b \in dirty[i]))]
      /\ UNCHANGED <<resident, buffer, work>> /\ req' = HitAt(i) /\ owed' = OwedAfterHit
      /\ LevelsOK
  BY DEF ProbeHit, TypeInv
<1>1. /\ \A k \in Levels : k # i => dirty'[k] = dirty[k]
      /\ \A c \in dirty[i] : c = b \/ c \in dirty'[i]
      /\ b \in dirty'[i] <=> DirtyAfterHit(i, b \in dirty[i])
  BY <1>0 DEF LevelsOK, With
<1>2. SingleCopy' /\ WorkBelow'
  BY <1>0 DEF SingleCopy, WorkBelow
<1>3. req.write /\ ~WriteThrough[i] => b \in dirty'[i]
  BY <1>1 DEF DirtyAfterHit
<1>4. /\ ReqFacts' /\ FillsAbsent' /\ FetchFacts'
      /\ \A c : InRequest(c) => InRequest(c)'
      /\ req.write /\ WriteThrough[i] => InRequest(b)'
  BY <1>0, <1>3, HitAtFacts
<1>5. ASSUME NEW c \in owed' PROVE Somewhere(c)'
  <2>1. CASE c = b /\ req.write
    BY <1>0, <1>3, <1>4, <2>1 DEF Somewhere, AtLevel
  <2>2. CASE ~(c = b /\ req.write)
    <3>1. Somewhere(c)
      BY <1>0, <2>2 DEF OwedAfterHit
    <3>2. b \in dirty[i] /\ ~req.write => b \in dirty'[i]
      BY <1>1 DEF DirtyAfterHit
    <3>3. \A k \in Levels : c \in AtLevel(k) => c \in AtLevel(k)'
      BY <1>0, <1>1, <2>2, <3>2 DEF AtLevel
    <3> QED
      BY <1>0, <1>4, <3>1, <3>3 DEF Somewhere
  <2> QED
    BY <2>1, <2>2
<1> QED
  BY <1>2, <1>4, <1>5

LEMMA ProbeVictimHitKeeps ==
  ASSUME ConservationInv, ProbeVictimHit
  PROVE  LinesInv'
<1> PICK i \in Levels, b \in Blocks : i = req.level /\ b = req.block
  BY NAssumption DEF ProbeVictimHit, ConservationInv, TypeInv, LocalsOK, Request, Levels
<1> DEFINE line == [LineOf(i, b) EXCEPT !.dirty = DirtyAfterHit(i, @)]
           lines == Without(buffer[i], b)
<1> USE DEF ConservationInv, LinesInv
<1>0. /\ b \notin resident[i] /\ b \in Buffered(i) /\ pc = "probe"
      /\ pc' = "settle" /\ req' = HitAt(i) /\ owed' = OwedAfterHit
      /\ Allocate(i, line, lines, << >>) /\ LevelsOK
  BY DEF ProbeVictimHit, TypeInv
<1>1. work' = << >> /\ b \in resident'[i] /\ work = << >>
  BY <1>0, VictimHitQuiet DEF TypeInv, StackOK
<1>2. /\ buffer[i] \in Seq(Line) /\ Distinct(buffer[i]) /\ resident[i] \cap BlocksOf(buffer[i]) = {}
  BY <1>0 DEF LevelsOK, SingleCopy
<1>3. /\ lines \in Seq(Line) /\ Distinct(lines) /\ BlocksOf(lines) = BlocksOf(buffer[i]) \ {b}
      /\ DirtyBlocks(lines) = DirtyBlocks(buffer[i]) \ {b}
  BY <1>2, WithoutType, WithoutBlocks
<1>4. LineOf(i, b) \in Line /\ LineOf(i, b).block = b
  BY <1>0, LineOfType DEF Contains
<1>5. line \in Line /\ line.block = b /\ line.dirty = DirtyAfterHit(i, LineOf(i, b).dirty)
  <2>1. DirtyAfterHit(i, LineOf(i, b).dirty) \in BOOLEAN
    BY DEF DirtyAfterHit
  <2> QED
    BY <1>4, <2>1 DEF Line
<1>6. b \in DirtyBlocks(buffer[i]) => LineOf(i, b).dirty
  BY <1>0, <1>2, DirtyEntry DEF LineOf, Buffered, BlocksOf
<1> HIDE DEF line, lines
<1>7. /\ OnlyLevel(i) /\ OneCopyAt(i)'
      /\ \A c \in dirty[i] \cup DirtyBlocks(lines) : c \in AtLevel(i)' \/ c \in Carried(work')
      /\ line.dirty => b \in AtLevel(i)'
  <2>1. resident[i] \cap BlocksOf(lines) = {} /\ line.block \notin BlocksOf(lines)
    BY <1>2, <1>3, <1>5
  <2>2. << >> \in Seq(Task) /\ LevelsOK /\ line \in Line /\ lines \in Seq(Line) /\ Distinct(lines)
        /\ Allocate(i, line, lines, << >>)
    BY <1>0, <1>3, <1>5
  <2>3. /\ OnlyLevel(i) /\ OneCopyAt(i)'
        /\ \A c \in dirty[i] \cup DirtyBlocks(lines) : c \in AtLevel(i)' \/ c \in Carried(work')
        /\ line.dirty => line.block \in AtLevel(i)'
    BY <2>1, <2>2, AllocateKeeps
  <2> QED
    BY <1>5, <2>3
<1>8. Carried(work') = {}
  BY <1>1 DEF Carried
<1>9. SingleCopy' /\ WorkBelow'
        /\ \A c : (\E k \in Levels : c \in AtLevel(k))
                  => c \in AtLevel(i) \/ (\E k \in Levels : c \in AtLevel(k)')
  BY <1>0, <1>7, LevelStep DEF WorkBelow
<1>10. line.dirty => b \in dirty'[i]
  <2>1. b \notin DirtyBlocks(buffer'[i])
    BY <1>1, <1>7 DEF OneCopyAt, BlocksOf, DirtyBlocks
  <2> QED
    BY <1>7, <2>1 DEF AtLevel
<1>11. /\ ReqFacts' /\ FillsAbsent' /\ FetchFacts'
       /\ \A c : InRequest(c) => InRequest(c)'
       /\ req.write /\ WriteThrough[i] => InRequest(b)'
  <2>1. req.write /\ ~WriteThrough[i] => b \in dirty'[i]
    BY <1>5, <1>10 DEF DirtyAfterHit
  <2>2. \A k \in Levels : k < i => buffer'[k] = buffer[k]
    BY <1>0, <1>7 DEF OnlyLevel, Levels
  <2> QED
    BY <1>0, <2>1, <2>2, HitAtFacts
<1>12. ASSUME NEW c \in owed' PROVE Somewhere(c)'
  <2>1. CASE c = b /\ req.write
    BY <1>0, <1>5, <1>7, <1>11, <2>1 DEF Somewhere, DirtyAfterHit
  <2>2. CASE ~(c = b /\ req.write)
    <3>1. Somewhere(c)
      BY <1>0, <2>2 DEF OwedAfterHit
    <3>2. Carried(work) = {}
      BY <1>1 DEF Carried
    <3>3. CASE c \in AtLevel(i)
      <4>1. CASE c \in dirty[i] \cup DirtyBlocks(lines)
        BY <1>0, <1>7, <1>8, <4>1 DEF Somewhere
      <4>2. CASE c \notin dirty[i] \cup DirtyBlocks(lines)
        <5>1. c = b /\ LineOf(i, b).dirty
          BY <1>3, <1>6, <3>3, <4>2 DEF AtLevel
        <5>2. line.dirty
          BY <1>5, <2>2, <5>1 DEF DirtyAfterHit
        <5> QED
          BY <1>0, <1>7, <5>1, <5>2 DEF Somewhere
      <4> QED
        BY <4>1, <4>2
    <3>4. CASE c \notin AtLevel(i)
      BY <1>9, <1>11, <3>1, <3>2, <3>4 DEF Somewhere
    <3> QED
      BY <3>3, <3>4
  <2> QED
    BY <2>1, <2>2
<1> QED
  BY <1>9, <1>11, <1>12

LEMMA ProbeMissKeeps ==
  ASSUME ConservationInv, ProbeMiss
  PROVE  LinesInv'
<1> USE DEF ConservationInv, LinesInv
<1> PICK i \in Levels, b \in Blocks : i = req.level /\ b = req.block
  BY NAssumption DEF ProbeMiss, TypeInv, LocalsOK, Request, Levels
<1> DEFINE takes == req.write /\ WriteAllocate[i]
<1>0. /\ pc = "probe" /\ pc' = "probe" /\ ~Contains(i, b) /\ req \in Request
      /\ req' = [req EXCEPT !.level = i + 1,
                            !.write = @ /\ ~takes,
                            !.taken = IF takes THEN i ELSE @,
                            !.fillFrom = IF takes THEN i ELSE @,
                            !.forward = IF takes /\ WriteThrough[i] THEN i + 1 ELSE @]
      /\ owed' = (IF takes THEN owed \cup {b} ELSE owed)
      /\ UNCHANGED <<resident, dirty, buffer, work>>
  BY DEF ProbeMiss, contents, TypeInv, LocalsOK
<1>1. i \in Nat /\ req.level \in Nat /\ req.taken \in Int
  BY <1>0, NAssumption DEF Levels, Request
<1> HIDE DEF takes
<1>2. /\ req'.level = i + 1 /\ req'.block = b
      /\ takes => req'.taken = i /\ req'.fillFrom = i
      /\ ~takes => req'.taken = req.taken /\ req'.fillFrom = req.fillFrom
      /\ takes /\ WriteThrough[i] => req'.forward = i + 1
      /\ ~(takes /\ WriteThrough[i]) => req'.forward = req.forward
  BY <1>0 DEF Request
<1>3. takes => req.write /\ ~req'.write
  BY <1>0 DEF Request, takes
<1>4. ~takes /\ ~req.write => ~req'.write
  BY <1>0 DEF Request, takes
<1>5. SingleCopy' /\ \A k : AtLevel(k)' = AtLevel(k)
  BY <1>0, ContentsKept
<1>6. FillsAbsent'
  <2>1. b \notin BlocksOf(buffer[i])
    BY <1>0 DEF Contains, Buffered, BlocksOf
  <2>2. \A k \in Levels : k < i + 1 => k < i \/ k = i
    BY DEF Levels
  <2> QED
    BY <1>0, <1>2, <2>1, <2>2 DEF FillsAbsent
<1>7. ReqFacts'
  <2>1. CASE takes
    BY <1>0, <1>1, <1>2, <1>3, <2>1 DEF ReqFacts
  <2>2. CASE ~takes
    BY <1>0, <1>1, <1>2, <1>4, <2>2 DEF ReqFacts
  <2> QED
    BY <2>1, <2>2
<1>8. WorkBelow' /\ FetchFacts'
  BY <1>0 DEF WorkBelow, FetchFacts
<1>9. ASSUME NEW c \in owed' PROVE Somewhere(c)'
  <2>1. CASE takes /\ c = b
    BY <1>0, <1>1, <1>2, <2>1 DEF Somewhere, InRequest
  <2>2. CASE ~takes
    BY <1>0, <1>2, <1>5, <2>2 DEF Somewhere, InRequest
  <2>3. CASE c # b
    BY <1>0, <1>5, <2>3 DEF Somewhere, InRequest
  <2> QED
    BY <2>1, <2>2, <2>3
<1> QED
  BY <1>5, <1>6, <1>7, <1>8, <1>9

LEMMA ReachMemoryKeeps ==
  ASSUME ConservationInv, ReachMemory
  PROVE  LinesInv'
<1> USE DEF ConservationInv, LinesInv
<1>0. /\ pc = "probe" /\ pc' = "settle" /\ req.level = N /\ req \in Request /\ req.hit = N
      /\ req' = [req EXCEPT !.fillFrom = IF req.write THEN N ELSE @]
      /\ owed' = (IF req.write THEN owed \ {req.block} ELSE owed)
      /\ UNCHANGED <<resident, dirty, buffer, work>>
  BY DEF ReachMemory, contents, TypeInv, LocalsOK
<1>1. /\ req'.block = req.block /\ req'.taken = req.taken /\ req'.forward = req.forward
      /\ req'.hit = req.hit
      /\ req'.fillFrom = IF req.write THEN N ELSE req.fillFrom
  BY <1>0 DEF Request
<1>2. N \in Nat /\ req.taken \in Int
  BY <1>0, NAssumption DEF Levels, Request
<1>3. SingleCopy' /\ \A k : AtLevel(k)' = AtLevel(k)
  BY <1>0, ContentsKept
<1>4. FillsAbsent' /\ WorkBelow' /\ FetchFacts'
  BY <1>0, <1>1 DEF FillsAbsent, WorkBelow, FetchFacts
<1>5. ReqFacts'
  BY <1>0, <1>1, <1>2 DEF ReqFacts
<1>6. \A c \in owed' : Somewhere(c)'
  BY <1>0, <1>1, <1>3 DEF Somewhere, InRequest
<1> QED
  BY <1>3, <1>4, <1>5, <1>6

\* A newer copy elsewhere does not take the dirty bit from an entry.
LEMMA SupersededKeeps ==
  ASSUME LevelsOK, SingleCopy, NEW i \in Levels, NEW b
  PROVE  /\ BlocksOf(Superseded(i, b)) = BlocksOf(buffer[i]) /\ Distinct(Superseded(i, b))
         /\ DirtyBlocks(buffer[i]) \subseteq DirtyBlocks(Superseded(i, b))
<1> DEFINE line == [BufferedLine(i, b) EXCEPT !.fresh = FALSE]
<1>1. buffer[i] \in Seq(Line) /\ Distinct(buffer[i])
  BY DEF LevelsOK, SingleCopy
<1>2. b \in BlocksOf(buffer[i]) => line.block = b /\ line.dirty = BufferedLine(i, b).dirty
  BY BufferedLineType DEF Line, Buffered, BlocksOf
<1>3. Superseded(i, b) = Replaced(buffer[i], b, line)
  BY DEF Superseded
<1>4. b \in DirtyBlocks(buffer[i]) => b \in BlocksOf(buffer[i]) /\ BufferedLine(i, b).dirty
  <2>1. b \in DirtyBlocks(buffer[i]) => b \in BlocksOf(buffer[i])
    BY DEF DirtyBlocks, BlocksOf
  <2> QED
    BY <1>1, <2>1, DirtyEntry
<1> HIDE DEF line
<1> QED
  BY <1>1, <1>2, <1>3, <1>4, ReplacedBlocks

LEMMA SettleKeeps ==
  ASSUME ConservationInv, Settle
  PROVE  LinesInv'
<1> USE DEF ConservationInv, LinesInv
<1> PICK b \in Blocks : b = req.block
  BY DEF Settle, TypeInv, LocalsOK
<1> DEFINE stored == req.taken >= 0
<1>0. /\ pc = "settle" /\ work = << >> /\ work' = << >> /\ req' = req /\ req \in Request /\ LevelsOK
      /\ UNCHANGED <<resident, dirty, owed>>
      /\ pc' = (IF MovesUp(req) THEN "move" ELSE "fill")
      /\ buffer' = [i \in Levels |-> IF stored THEN Superseded(i, b) ELSE buffer[i]]
  BY DEF Settle, TypeInv, LocalsOK
<1>1. /\ fetch'.block = b /\ fetch'.at = req.hit - 1 /\ fetch'.to = req.fillFrom
      /\ fetch'.keep = req.taken
      /\ fetch'.dirty = (stored /\ ~WriteThrough[req.taken])
  BY DEF Settle
<1>2. req.hit \in Nat /\ req.taken \in Int /\ req.fillFrom \in Int /\ N \in Nat
      /\ (req.taken = -1 \/ stored)
  BY <1>0, NAssumption DEF Request, Levels
<1>3. \A i \in Levels :
        /\ BlocksOf(buffer'[i]) = BlocksOf(buffer[i]) /\ Distinct(buffer'[i])
        /\ DirtyBlocks(buffer[i]) \subseteq DirtyBlocks(buffer'[i])
  <2> SUFFICES ASSUME NEW i \in Levels
               PROVE  /\ BlocksOf(buffer'[i]) = BlocksOf(buffer[i]) /\ Distinct(buffer'[i])
                      /\ DirtyBlocks(buffer[i]) \subseteq DirtyBlocks(buffer'[i])
    OBVIOUS
  <2>1. CASE stored
    BY <1>0, <2>1, SupersededKeeps
  <2>2. CASE ~stored
    BY <1>0, <2>2 DEF SingleCopy
  <2> QED
    BY <2>1, <2>2
<1>4. SingleCopy'
  BY <1>0, <1>3 DEF SingleCopy
<1> HIDE DEF stored
<1>5. FillsAbsent'
  <2> SUFFICES ASSUME NEW k \in Levels, k <= req.hit - 1 PROVE b \notin BlocksOf(buffer'[k])
    BY <1>0, <1>1 DEF FillsAbsent
  <2>1. k < req.hit
    BY <1>2 DEF Levels
  <2> QED
    BY <1>0, <1>3, <2>1 DEF FillsAbsent
<1>6. WorkBelow' /\ ReqFacts'
  BY <1>0 DEF WorkBelow, StackBelow, ReqFacts
<1>7. FetchFacts'
  <2>1. ~Exclusive(0) /\ ~Exclusive(N)
    BY PolicyAssumption, NAssumption DEF Exclusive, Levels
  <2>2. fetch'.to = fetch'.keep \/ ~Exclusive(fetch'.to)
    <3>1. CASE req.taken = -1
      BY <1>0, <1>1, <2>1, <3>1 DEF ReqFacts
    <3>2. CASE stored
      BY <1>0, <1>1, <3>2 DEF ReqFacts, stored
    <3> QED
      BY <1>2, <3>1, <3>2
  <2>3. pc' = "move" => fetch'.to <= fetch'.at
    BY <1>0, <1>1, <1>2 DEF MovesUp
  <2> QED
    BY <1>0, <1>1, <2>2, <2>3 DEF FetchFacts
<1>8. ASSUME NEW c \in owed' PROVE Somewhere(c)'
  <2>1. Somewhere(c) /\ c \notin Carried(work)
    BY <1>0 DEF Carried
  <2>2. \A k \in Levels : c \in AtLevel(k) => c \in AtLevel(k)'
    BY <1>0, <1>3 DEF AtLevel
  <2>3. CASE InRequest(c)
    <3>1. c = b /\ (req.forward >= 0 \/ (stored /\ ~WriteThrough[req.taken]))
      BY <1>0, <2>3 DEF InRequest, stored
    <3>2. CASE req.forward >= 0
      BY <1>0, <3>1, <3>2 DEF Somewhere, InRequest
    <3>3. CASE stored /\ ~WriteThrough[req.taken] /\ req.taken < req.hit
      <4>1. fetch'.at >= fetch'.to
        BY <1>0, <1>1, <1>2, <3>3 DEF ReqFacts, stored
      <4> QED
        BY <1>0, <1>1, <3>1, <3>3, <4>1 DEF Somewhere, InRequest
    <3>4. CASE stored /\ ~WriteThrough[req.taken] /\ ~(req.taken < req.hit)
      <4>1. req.taken = req.hit /\ b \in dirty[req.hit] /\ req.hit \in Levels
        <5>1. req.taken = req.hit
          BY <1>0, <1>2, <3>4 DEF ReqFacts, stored
        <5> QED
          BY <1>0, <1>2, <3>4, <5>1 DEF ReqFacts, stored, Request, Levels
      <4> QED
        BY <1>0, <3>1, <4>1 DEF Somewhere, AtLevel
    <3> QED
      BY <3>1, <3>2, <3>3, <3>4
  <2>4. CASE ~InRequest(c)
    BY <2>1, <2>2, <2>4 DEF Somewhere
  <2> QED
    BY <2>3, <2>4
<1> QED
  BY <1>4, <1>5, <1>6, <1>7, <1>8

LEMMA MoveUpKeeps ==
  ASSUME ConservationInv, MoveUp
  PROVE  LinesInv'
<1> USE DEF ConservationInv, LinesInv
<1> PICK i \in Levels, b \in Blocks : i = req.hit /\ b = fetch.block
  BY NAssumption DEF MoveUp, TypeInv, LocalsOK, HitHolds, Request, Levels
<1>0. /\ pc = "move" /\ pc' = "fill" /\ Contains(i, b) /\ Invalidate(i, b) /\ LevelsOK /\ fetch \in Fetch
      /\ fetch' = [fetch EXCEPT !.dirty = fetch.dirty \/ LineOf(i, b).dirty]
      /\ UNCHANGED <<req, work, owed>> /\ work = << >>
      /\ fetch.at = i - 1 /\ fetch.to <= fetch.at /\ b = req.block
  BY DEF MoveUp, TypeInv, LocalsOK, HitHolds, StackOK, FetchFacts
<1>1. /\ fetch'.block = b /\ fetch'.at = i - 1 /\ fetch'.to = fetch.to /\ fetch'.keep = fetch.keep
      /\ fetch'.dirty = (fetch.dirty \/ LineOf(i, b).dirty)
  BY <1>0 DEF Fetch
<1>2. /\ OnlyLevel(i) /\ OneCopyAt(i)' /\ BlocksOf(buffer'[i]) \subseteq BlocksOf(buffer[i])
      /\ \A c \in AtLevel(i) : c \in AtLevel(i)' \/ (c = b /\ LineOf(i, b).dirty)
  BY <1>0, InvalidateKeeps DEF SingleCopy, OneCopyAt
<1>3. /\ SingleCopy'
      /\ \A c : (\E k \in Levels : c \in AtLevel(k))
               => c \in AtLevel(i) \/ (\E k \in Levels : c \in AtLevel(k)')
  BY <1>2, LevelStep
<1>4. FillsAbsent'
  <2>1. \A k \in Levels : BlocksOf(buffer'[k]) \subseteq BlocksOf(buffer[k])
    BY <1>2 DEF OnlyLevel
  <2> QED
    BY <1>0, <1>1, <2>1 DEF FillsAbsent
<1>5. WorkBelow' /\ ReqFacts' /\ FetchFacts'
  BY <1>0, <1>1 DEF WorkBelow, StackBelow, ReqFacts, FetchFacts
<1>6. ASSUME NEW c \in owed' PROVE Somewhere(c)'
  <2>1. Somewhere(c) /\ c \notin Carried(work)
    BY <1>0 DEF Carried
  <2>2. InRequest(c) => InRequest(c)'
    BY <1>0, <1>1 DEF InRequest
  <2>3. LineOf(i, b).dirty => InRequest(b)'
    BY <1>0, <1>1 DEF InRequest
  <2> QED
    BY <1>2, <1>3, <2>1, <2>2, <2>3 DEF Somewhere
<1> QED
  BY <1>3, <1>4, <1>5, <1>6

LEMMA FillKeeps ==
  ASSUME ConservationInv, Fill \/ PrefetchFill
  PROVE  LinesInv'
<1> USE DEF ConservationInv, LinesInv
<1> PICK i \in Levels, b \in Blocks : i = fetch.at /\ b = fetch.block
  BY NAssumption DEF Fill, PrefetchFill, FillStep, TypeInv, LocalsOK, Fetch, Levels
<1>0. /\ pc \in {"fill", "prefetch"} /\ LevelsOK /\ fetch \in Fetch /\ i >= fetch.to /\ work = << >>
      /\ UNCHANGED <<pc, req, owed>> /\ fetch' = [fetch EXCEPT !.at = i - 1]
      /\ i \in Nat /\ fetch.to \in Int
  BY NAssumption DEF Fill, PrefetchFill, FillStep, TypeInv, LocalsOK, Fetch, Levels
<1>1. /\ fetch'.block = b /\ fetch'.at = i - 1 /\ fetch'.to = fetch.to /\ fetch'.keep = fetch.keep
      /\ fetch'.dirty = fetch.dirty
  BY <1>0 DEF Fetch
<1>2. ReqFacts' /\ FetchFacts'
  BY <1>0, <1>1 DEF ReqFacts, FetchFacts
<1>3. Carried(work) = {}
  BY <1>0 DEF Carried
<1>4. CASE Passes(i)
  <2>1. UNCHANGED <<resident, dirty, buffer, work>>
    BY <1>4 DEF Fill, PrefetchFill, FillStep, contents
  <2>2. SingleCopy' /\ \A k : AtLevel(k)' = AtLevel(k)
    BY <2>1, ContentsKept
  <2>3. fetch.to <= i - 1
    <3>1. i # fetch.to
      BY <1>0, <1>4 DEF Passes, FetchFacts
    <3> QED
      BY <1>0, <3>1
  <2>4. FillsAbsent'
    BY <1>0, <1>1, <2>1 DEF FillsAbsent, Levels
  <2>5. WorkBelow'
    BY <1>0, <2>1 DEF WorkBelow, StackBelow
  <2>6. \A c : InRequest(c) => InRequest(c)'
    BY <1>0, <1>1, <2>3 DEF InRequest
  <2>7. \A c \in owed' : Somewhere(c)'
    BY <1>0, <1>3, <2>2, <2>6 DEF Somewhere
  <2> QED
    BY <1>2, <2>2, <2>4, <2>5, <2>7
<1>5. CASE ~Passes(i)
  <2>1. PICK line \in Line : /\ Allocate(i, line, buffer[i], << >>) /\ line.block = b
                              /\ line.dirty = (fetch.dirty /\ i = fetch.to)
    <3>1. PICK speculative \in BOOLEAN :
            Allocate(i, [block |-> b, dirty |-> fetch.dirty /\ i = fetch.to,
                         prefetched |-> speculative /\ i = fetch.to,
                         fresh |-> FilledCurrent(speculative, i)],
                     buffer[i], << >>)
      BY <1>5 DEF Fill, PrefetchFill, FillStep
    <3> DEFINE line == [block |-> b, dirty |-> fetch.dirty /\ i = fetch.to,
                        prefetched |-> speculative /\ i = fetch.to,
                        fresh |-> FilledCurrent(speculative, i)]
    <3>2. line \in Line
      BY <1>0 DEF Line, Fetch, FilledCurrent
    <3>3. line.block = b /\ line.dirty = (fetch.dirty /\ i = fetch.to)
      OBVIOUS
    <3> HIDE DEF line
    <3>4. Allocate(i, line, buffer[i], << >>)
      BY <3>1 DEF line
    <3> QED
      BY <3>2, <3>3, <3>4
  <2>2. b \notin BlocksOf(buffer[i])
    BY <1>0 DEF FillsAbsent
  <2>3. buffer[i] \in Seq(Line) /\ << >> \in Seq(Task)
        /\ Distinct(buffer[i]) /\ resident[i] \cap BlocksOf(buffer[i]) = {}
    BY <1>0 DEF LevelsOK, SingleCopy
  <2>4. /\ OnlyLevel(i) /\ OneCopyAt(i)'
        /\ \A c \in dirty[i] \cup DirtyBlocks(buffer[i]) : c \in AtLevel(i)' \/ c \in Carried(work')
        /\ line.dirty => line.block \in AtLevel(i)'
        /\ \A k \in Int : i > k /\ StackBelow(<< >>, k) => StackBelow(work', k)
    BY <1>0, <2>1, <2>2, <2>3, AllocateKeeps
  <2>5. /\ SingleCopy'
        /\ \A c : (\E k \in Levels : c \in AtLevel(k))
                 => c \in AtLevel(i) \/ (\E k \in Levels : c \in AtLevel(k)')
    BY <2>4, LevelStep
  <2>6. FillsAbsent'
    <3>1. \A k \in Levels : k <= i - 1 => buffer'[k] = buffer[k] /\ k <= i
      BY <1>0, <2>4 DEF OnlyLevel, Levels
    <3> QED
      BY <1>0, <1>1, <3>1 DEF FillsAbsent
  <2>7. WorkBelow'
    <3>1. StackBelow(<< >>, i - 1) /\ i > i - 1 /\ i - 1 \in Int
      BY <1>0 DEF StackBelow
    <3> QED
      BY <1>1, <2>4, <3>1 DEF WorkBelow
  <2>8. ASSUME NEW c \in owed' PROVE Somewhere(c)'
    <3>1. Somewhere(c)
      BY <1>0
    <3>2. CASE c \in AtLevel(i)
      BY <2>4, <3>2 DEF Somewhere, AtLevel
    <3>3. CASE InRequest(c)
      <4>1. CASE c = b /\ fetch.dirty /\ i = fetch.to
        BY <2>1, <2>4, <4>1 DEF Somewhere
      <4>2. CASE ~(c = b /\ fetch.dirty /\ i = fetch.to)
        <5>1. i # fetch.to => fetch.to <= i - 1
          BY <1>0
        <5>2. InRequest(c)'
          BY <1>0, <1>1, <3>3, <4>2, <5>1 DEF InRequest
        <5> QED
          BY <5>2 DEF Somewhere
      <4> QED
        BY <4>1, <4>2
    <3>4. CASE c \notin AtLevel(i) /\ ~InRequest(c)
      BY <1>3, <2>5, <3>1, <3>4 DEF Somewhere
    <3> QED
      BY <3>2, <3>3, <3>4
  <2> QED
    BY <1>2, <2>5, <2>6, <2>7, <2>8
<1> QED
  BY <1>4, <1>5

LEMMA ForwardKeeps ==
  ASSUME ConservationInv, Forward
  PROVE  LinesInv'
<1> USE DEF ConservationInv, LinesInv
<1>0. /\ pc = "fill" /\ pc' = "observe" /\ work = << >> /\ req \in Request /\ fetch \in Fetch
      /\ fetch.at < fetch.to /\ UNCHANGED <<resident, dirty, buffer, owed>>
  BY DEF Forward, contents, history, TypeInv, LocalsOK
<1>1. SingleCopy' /\ \A k : AtLevel(k)' = AtLevel(k)
  BY <1>0, ContentsKept
<1>2. FillsAbsent' /\ WorkBelow' /\ ReqFacts' /\ FetchFacts'
  BY <1>0 DEF FillsAbsent, WorkBelow, ReqFacts, FetchFacts
<1>3. ASSUME NEW c \in owed' PROVE Somewhere(c)'
  <2>1. Somewhere(c) /\ c \notin Carried(work)
    BY <1>0 DEF Carried
  <2>2. CASE InRequest(c)
    <3>1. fetch.at \in Int /\ fetch.to \in Int /\ req.forward \in Int
      BY <1>0, NAssumption DEF Fetch, Request, Levels
    <3>2. c = req.block /\ req.forward >= 0
      BY <1>0, <2>2, <3>1 DEF InRequest
    <3> DEFINE line == [block |-> req.block, dirty |-> TRUE, prefetched |-> FALSE, fresh |-> fetch.fresh]
    <3>3. work' = <<WriteBack(req.forward, line)>>
      BY <3>1, <3>2 DEF Forward
    <3>4. WriteBack(req.forward, line).line.dirty /\ WriteBack(req.forward, line).line.block = c
      BY <3>2 DEF WriteBack, Call
    <3> HIDE DEF line
    <3>5. c \in Carried(work')
      BY <3>3, <3>4 DEF Carried
    <3> QED
      BY <3>5 DEF Somewhere
  <2>3. CASE ~InRequest(c)
    BY <1>1, <2>1, <2>3 DEF Somewhere
  <2> QED
    BY <2>2, <2>3
<1> QED
  BY <1>1, <1>2, <1>3

-----------------------------------------------------------------------------
(* Prefetching.                                                            *)

LEMMA ClearPrefetchedKeeps ==
  ASSUME LevelsOK, SingleCopy, NEW i \in Levels, NEW b, ClearPrefetched(i, b),
         UNCHANGED <<resident, dirty>>
  PROVE  /\ OnlyLevel(i) /\ OneCopyAt(i)' /\ BlocksOf(buffer'[i]) = BlocksOf(buffer[i])
         /\ AtLevel(i) \subseteq AtLevel(i)'
<1>1. CASE UNCHANGED buffer
  BY <1>1 DEF OnlyLevel, OneCopyAt, SingleCopy, AtLevel
<1>2. CASE b \notin resident[i]
  <2> DEFINE line == [BufferedLine(i, b) EXCEPT !.prefetched = FALSE]
  <2>1. buffer' = [buffer EXCEPT ![i] = Replaced(buffer[i], b, line)]
    BY <1>2 DEF ClearPrefetched
  <2>2. b \in BlocksOf(buffer[i]) => line.block = b /\ line.dirty = BufferedLine(i, b).dirty
    BY BufferedLineType DEF Line, Buffered, BlocksOf
  <2> HIDE DEF line
  <2>3. /\ OnlyLevel(i) /\ buffer'[i] = Replaced(buffer[i], b, line) /\ buffer[i] \in Seq(Line)
        /\ Distinct(buffer[i]) /\ resident[i] \cap BlocksOf(buffer[i]) = {}
    BY <2>1 DEF OnlyLevel, LevelsOK, SingleCopy
  <2>4. b \in DirtyBlocks(buffer[i]) => b \in BlocksOf(buffer[i]) /\ BufferedLine(i, b).dirty
    <3>1. b \in DirtyBlocks(buffer[i]) => b \in BlocksOf(buffer[i])
      BY DEF DirtyBlocks, BlocksOf
    <3> QED
      BY <2>3, <3>1, DirtyEntry
  <2>5. /\ Distinct(buffer'[i]) /\ BlocksOf(buffer'[i]) = BlocksOf(buffer[i])
        /\ DirtyBlocks(buffer[i]) \subseteq DirtyBlocks(buffer'[i])
    BY <2>2, <2>3, <2>4, ReplacedBlocks
  <2> QED
    BY <2>3, <2>5 DEF OneCopyAt, AtLevel
<1> QED
  BY <1>1, <1>2 DEF ClearPrefetched

LEMMA ObserveKeeps ==
  ASSUME ConservationInv, Observe
  PROVE  LinesInv'
<1> USE DEF ConservationInv, LinesInv
<1> PICK i \in Levels, b \in Blocks : i = req.level /\ b = req.block
  BY NAssumption DEF Observe, TypeInv, LocalsOK, Request, Levels, Deepest
<1>0. /\ pc = "observe" /\ work = << >> /\ work' = << >> /\ req \in Request /\ LevelsOK
      /\ UNCHANGED <<resident, dirty, owed>>
  BY DEF Observe, history, TypeInv, LocalsOK
<1>1. \/ pc' = "observe"
      \/ /\ pc' = "issue"
         /\ \E target : fetch' = [NoFetch EXCEPT !.block = target, !.to = i, !.keep = i] /\ ~Contains(i, target)
  BY <1>0 DEF Observe
<1>2. /\ SingleCopy'
      /\ \A k \in Levels : BlocksOf(buffer'[k]) = BlocksOf(buffer[k])
      /\ \A c : (\E k \in Levels : c \in AtLevel(k)) => (\E k \in Levels : c \in AtLevel(k)')
  <2>1. CASE ClearPrefetched(i, b)
    <3>1. /\ OnlyLevel(i) /\ OneCopyAt(i)' /\ BlocksOf(buffer'[i]) = BlocksOf(buffer[i])
          /\ AtLevel(i) \subseteq AtLevel(i)'
      BY <1>0, <2>1, ClearPrefetchedKeeps
    <3>2. /\ SingleCopy'
          /\ \A c : (\E k \in Levels : c \in AtLevel(k))
                   => c \in AtLevel(i) \/ (\E k \in Levels : c \in AtLevel(k)')
      BY <3>1, LevelStep
    <3>3. \A k \in Levels : BlocksOf(buffer'[k]) = BlocksOf(buffer[k])
      BY <3>1 DEF OnlyLevel
    <3> QED
      BY <3>1, <3>2, <3>3
  <2>2. CASE UNCHANGED buffer
    BY <1>0, <2>2, ContentsKept
  <2> QED
    BY <2>1, <2>2 DEF Observe
<1>3. FillsAbsent' /\ FetchFacts'
  <2>1. CASE pc' = "observe"
    BY <2>1 DEF FillsAbsent, FetchFacts
  <2>2. ASSUME NEW target, pc' = "issue", ~Contains(i, target),
               fetch' = [NoFetch EXCEPT !.block = target, !.to = i, !.keep = i]
        PROVE  FillsAbsent' /\ FetchFacts'
    <3>1. fetch'.block = target /\ fetch'.to = i /\ fetch'.keep = i /\ ~fetch'.dirty
      BY <2>2 DEF NoFetch
    <3>2. target \notin BlocksOf(buffer'[i])
      BY <1>2, <2>2 DEF Contains, Buffered, BlocksOf
    <3> QED
      BY <2>2, <3>1, <3>2 DEF FillsAbsent, FetchFacts
  <2> QED
    BY <1>1, <2>1, <2>2
<1>4. WorkBelow' /\ ReqFacts'
  BY <1>1 DEF WorkBelow, ReqFacts
<1>5. \A c \in owed' : Somewhere(c)'
  <2>1. \A c : ~InRequest(c) /\ c \notin Carried(work)
    BY <1>0 DEF InRequest, Carried
  <2> QED
    BY <1>0, <1>2, <2>1 DEF Somewhere
<1> QED
  BY <1>2, <1>3, <1>4, <1>5

LEMMA IssueKeeps ==
  ASSUME ConservationInv, Issue
  PROVE  LinesInv'
<1> USE DEF ConservationInv, LinesInv
<1> PICK b \in Blocks, to \in Levels : b = fetch.block /\ to = fetch.to
  BY DEF Issue, TypeInv, LocalsOK, FetchFacts
<1>0. /\ pc = "issue" /\ pc' = "prefetch" /\ LevelsOK /\ fetch \in Fetch
      /\ work = << >> /\ UNCHANGED <<req, work, owed>> /\ fetch.keep = to
      /\ b \notin BlocksOf(buffer[to])
  BY DEF Issue, TypeInv, LocalsOK, StackOK, FetchFacts, FillsAbsent
<1>1. Carried(work) = {} /\ WorkBelow' /\ ReqFacts' /\ \A c : ~InRequest(c)
  BY <1>0 DEF Carried, WorkBelow, StackBelow, ReqFacts, InRequest
<1>2. CASE /\ \A k \in Levels : k > to => ~Contains(k, b)
           /\ fetch' = [fetch EXCEPT !.at = N - 1, !.fresh = b \in memory]
           /\ UNCHANGED contents
  <2>1. SingleCopy' /\ UNCHANGED buffer /\ \A k : AtLevel(k)' = AtLevel(k)
    BY <1>2, ContentsKept DEF contents
  <2>2. fetch'.block = b /\ fetch'.to = to /\ fetch'.keep = to
    BY <1>0, <1>2 DEF Fetch
  <2>3. \A k \in Levels : to <= k => b \notin BlocksOf(buffer[k])
    BY <1>0, <1>2 DEF Contains, Buffered, BlocksOf, Levels
  <2>4. FillsAbsent' /\ FetchFacts'
    BY <1>0, <2>1, <2>2, <2>3 DEF FillsAbsent, FetchFacts
  <2> QED
    BY <1>0, <1>1, <2>1, <2>4 DEF Somewhere
<1>3. ASSUME NEW source \in Levels, source > to, Contains(source, b),
             \A k \in Levels : k > to /\ Contains(k, b) => source <= k,
             fetch' = [fetch EXCEPT !.at = source - 1,
                                    !.dirty = HandedDirty(source, b),
                                    !.fresh = LineOf(source, b).fresh],
             IF Exclusive(source) THEN Invalidate(source, b) ELSE UNCHANGED <<contents, fresh>>
      PROVE  LinesInv'
  <2>1. /\ fetch'.block = b /\ fetch'.to = to /\ fetch'.keep = to /\ fetch'.at = source - 1
        /\ fetch'.dirty = HandedDirty(source, b)
    BY <1>0, <1>3 DEF Fetch
  <2>2. /\ SingleCopy'
        /\ \A k \in Levels : BlocksOf(buffer'[k]) \subseteq BlocksOf(buffer[k])
        /\ \A c : (\E k \in Levels : c \in AtLevel(k))
                 => (\E k \in Levels : c \in AtLevel(k)') \/ (c = b /\ HandedDirty(source, b))
    <3>1. CASE Exclusive(source)
      <4>1. /\ OnlyLevel(source) /\ OneCopyAt(source)'
            /\ BlocksOf(buffer'[source]) \subseteq BlocksOf(buffer[source])
            /\ \A c \in AtLevel(source) : c \in AtLevel(source)' \/ (c = b /\ LineOf(source, b).dirty)
        BY <1>0, <1>3, <3>1, InvalidateKeeps DEF SingleCopy, OneCopyAt
      <4>2. /\ SingleCopy'
            /\ \A c : (\E k \in Levels : c \in AtLevel(k))
                     => c \in AtLevel(source) \/ (\E k \in Levels : c \in AtLevel(k)')
        BY <4>1, LevelStep
      <4>3. \A k \in Levels : BlocksOf(buffer'[k]) \subseteq BlocksOf(buffer[k])
        BY <4>1 DEF OnlyLevel
      <4> QED
        BY <3>1, <4>1, <4>2, <4>3 DEF HandedDirty
    <3>2. CASE ~Exclusive(source)
      BY <1>3, <3>2, ContentsKept DEF contents
    <3> QED
      BY <3>1, <3>2
  <2>3. FillsAbsent'
    <3>1. \A k \in Levels : to <= k /\ k <= source - 1 => b \notin BlocksOf(buffer[k])
      <4> SUFFICES ASSUME NEW k \in Levels, to <= k, k <= source - 1 PROVE b \notin BlocksOf(buffer[k])
        OBVIOUS
      <4>1. CASE k = to
        BY <1>0, <4>1
      <4>2. CASE k # to
        <5>1. k > to /\ ~(source <= k)
          BY <4>2 DEF Levels
        <5> QED
          BY <1>3, <5>1 DEF Contains, Buffered, BlocksOf
      <4> QED
        BY <4>1, <4>2
    <3> QED
      BY <1>0, <2>1, <2>2, <3>1 DEF FillsAbsent
  <2>4. FetchFacts'
    BY <1>0, <2>1 DEF FetchFacts
  <2>5. HandedDirty(source, b) => InRequest(b)'
    <3>1. source - 1 >= to
      BY <1>3 DEF Levels
    <3> QED
      BY <1>0, <2>1, <3>1 DEF InRequest
  <2>6. \A c \in owed' : Somewhere(c)'
    BY <1>0, <1>1, <2>2, <2>5 DEF Somewhere
  <2> QED
    BY <1>1, <2>2, <2>3, <2>4, <2>6
<1>4. \/ /\ \A k \in Levels : k > to => ~Contains(k, b)
         /\ fetch' = [fetch EXCEPT !.at = N - 1, !.fresh = b \in memory]
         /\ UNCHANGED contents
      \/ \E source \in Levels :
           /\ source > to /\ Contains(source, b)
           /\ \A k \in Levels : k > to /\ Contains(k, b) => source <= k
           /\ fetch' = [fetch EXCEPT !.at = source - 1,
                                     !.dirty = HandedDirty(source, b),
                                     !.fresh = LineOf(source, b).fresh]
           /\ IF Exclusive(source) THEN Invalidate(source, b) ELSE UNCHANGED <<contents, fresh>>
  BY DEF Issue
<1> QED
  BY <1>2, <1>3, <1>4

-----------------------------------------------------------------------------
(* Evictions, write-backs and flushes.                                     *)

\* Steps of the entry point that change no line and no call.
LEMMA QuietKeeps ==
  ASSUME ConservationInv, UNCHANGED <<resident, dirty, buffer, work, owed>>, work = << >>,
         pc \in {"idle", "prefetch", "observe", "flush"}, pc' \in {"idle", "observe", "flush"},
         \A c : ~InRequest(c)
  PROVE  LinesInv'
<1> USE DEF ConservationInv, LinesInv
<1>1. SingleCopy' /\ \A k : AtLevel(k)' = AtLevel(k)
  BY ContentsKept
<1>2. FillsAbsent' /\ WorkBelow' /\ ReqFacts' /\ FetchFacts'
  BY DEF FillsAbsent, WorkBelow, ReqFacts, FetchFacts
<1> QED
  BY <1>1, <1>2 DEF Somewhere

LEMMA ReturnKeeps ==
  ASSUME ConservationInv, PrefetchDone \/ FinishAccess \/ FinishFlush \/ BeginFlush \/ FlushNextLevel
  PROVE  LinesInv'
<1> USE DEF ConservationInv, LinesInv
<1>0. /\ UNCHANGED <<resident, dirty, buffer, work, owed>> /\ work = << >>
      /\ pc \in {"idle", "prefetch", "observe", "flush"} /\ pc' \in {"idle", "observe", "flush"}
      /\ pc = "prefetch" => fetch.at < fetch.to
  BY DEF PrefetchDone, FinishAccess, FinishFlush, BeginFlush, FlushNextLevel, Returned, contents, history,
         TypeInv, StackOK
<1>1. \A c : ~InRequest(c)
  <2>1. fetch.at \in Int /\ fetch.to \in Int
    BY NAssumption DEF TypeInv, LocalsOK, Fetch, Levels
  <2> QED
    BY <1>0, <2>1 DEF InRequest
<1> QED
  BY <1>0, <1>1, QuietKeeps

\* A write-back pushed for a dirty line carries its data.
LEMMA WriteDownKeeps ==
  ASSUME NEW i \in 0 .. N, NEW line \in Line, NEW rest \in Seq(Task)
  PROVE  /\ Carried(rest) \subseteq Carried(WriteDown(i, line) \o rest)
         /\ line.dirty => line.block \in Carried(WriteDown(i, line) \o rest)
         /\ \A k \in Int : i > k /\ StackBelow(rest, k) => StackBelow(WriteDown(i, line) \o rest, k)
<1>1. CASE line.dirty
  <2> DEFINE t == WriteBack(i, line)
  <2>1. t \in Task /\ t.level = i /\ t.line.dirty /\ t.line.block = line.block
    BY CallType DEF WriteBack, Call, Line
  <2>2. WriteDown(i, line) = <<t>>
    BY <1>1 DEF WriteDown
  <2> HIDE DEF t
  <2> QED
    BY <2>1, <2>2, CarriedPush
<1>2. CASE ~line.dirty
  <2>1. WriteDown(i, line) \o rest = rest
    BY <1>2, ConcatEmptySeq DEF WriteDown
  <2> QED
    BY <1>2, <2>1
<1> QED
  BY <1>1, <1>2

\* A back-invalidation carries no data.
LEMMA BackInvalidateKeeps ==
  ASSUME NEW i \in Levels, NEW nth \in 0 .. N, NEW b \in Blocks, NEW rest \in Seq(Task)
  PROVE  /\ Carried(rest) \subseteq Carried(<<BackInvalidate(i, nth, b)>> \o rest)
         /\ \A k \in Int : i > k /\ StackBelow(rest, k)
                            => StackBelow(<<BackInvalidate(i, nth, b)>> \o rest, k)
<1>1. BackInvalidate(i, nth, b) \in Task /\ BackInvalidate(i, nth, b).level = i
  BY DEF BackInvalidate, Call, Task, Line
<1> QED
  BY <1>1, CarriedPush

\* What every step of a call on the stack has in common.
LEMMA StackKeeps ==
  ASSUME ConservationInv, work # << >>, UNCHANGED <<pc, req, fetch>>, SingleCopy',
         \A k \in Levels : k < Head(work).level => BlocksOf(buffer'[k]) \subseteq BlocksOf(buffer[k]),
         \A k \in Int : Head(work).level > k /\ StackBelow(Tail(work), k) => StackBelow(work', k),
         \A c \in owed' : c \in owed /\ (c \in Carried(work) \/ (\E k \in Levels : c \in AtLevel(k))
                                         => c \in Carried(work') \/ (\E k \in Levels : c \in AtLevel(k)'))
  PROVE  LinesInv'
<1> USE DEF ConservationInv, LinesInv
<1>1. pc \notin {"idle", "probe", "settle", "move", "issue"} /\ work \in Seq(Task)
  BY HeadType DEF TypeInv, StackOK
<1>2. \A k \in Int : StackBelow(work, k) => Head(work).level > k /\ StackBelow(Tail(work), k)
  BY <1>1, CarriedPop
<1>3. fetch.at \in Int /\ fetch.to \in Int /\ Head(work).level \in Int
  BY HeadType, NAssumption DEF TypeInv, LocalsOK, Fetch, Levels, Task
<1>4. WorkBelow'
  BY <1>2, <1>3 DEF WorkBelow
<1>5. FillsAbsent'
  <2> SUFFICES ASSUME pc \in {"fill", "prefetch"}, NEW k \in Levels, fetch.to <= k, k <= fetch.at
               PROVE  fetch.block \notin BlocksOf(buffer'[k])
    BY <1>1 DEF FillsAbsent
  <2>1. fetch.at < Head(work).level
    BY <1>2, <1>3 DEF WorkBelow
  <2>2. k < Head(work).level
    BY <1>3, <2>1 DEF Levels
  <2> QED
    BY <2>2 DEF FillsAbsent
<1>6. ReqFacts' /\ FetchFacts'
  BY <1>1 DEF ReqFacts, FetchFacts
<1>7. \A c : InRequest(c)' <=> InRequest(c)
  BY DEF InRequest
<1> QED
  BY <1>4, <1>5, <1>6, <1>7 DEF Somewhere

LEMMA HandleEvictionKeeps ==
  ASSUME ConservationInv, EvictsAbsent, HandleEviction
  PROVE  LinesInv'
<1> USE DEF ConservationInv, LinesInv
<1>a. work # << >> /\ Head(work).op = "evict"
  BY DEF HandleEviction
<1> PICK i \in Levels, line \in Line : i = Head(work).level /\ line = Head(work).line
  BY <1>a, HeadType
<1> DEFINE b == line.block
           pushed == IF Inclusive(i) THEN <<BackInvalidate(i, 0, b)>> ELSE << >>
           rest == pushed \o Tail(work)
<1>0. /\ work \in Seq(Task) /\ Tail(work) \in Seq(Task) /\ b \in Blocks /\ LevelsOK /\ BuffersBounded
      /\ UNCHANGED <<pc, req, fetch, owed>>
  BY <1>a, HeadType DEF HandleEviction, TypeInv, StackOK
<1>1. /\ rest \in Seq(Task) /\ Carried(Tail(work)) \subseteq Carried(rest)
      /\ \A k \in Int : i > k /\ StackBelow(Tail(work), k) => StackBelow(rest, k)
  <2>1. CASE Inclusive(i)
    <3>1. 0 \in 0 .. N
      BY NAssumption
    <3>2. rest = <<BackInvalidate(i, 0, b)>> \o Tail(work)
      BY <2>1
    <3>3. BackInvalidate(i, 0, b) \in Task
      BY <1>0, <3>1 DEF BackInvalidate, Call, Task, Line
    <3> HIDE DEF b, rest
    <3> QED
      BY <1>0, <3>1, <3>2, <3>3, StackType, BackInvalidateKeeps
  <2>2. CASE ~Inclusive(i)
    <3>1. rest = Tail(work)
      BY <1>0, <2>2, ConcatEmptySeq
    <3> QED
      BY <1>0, <3>1
  <2> QED
    BY <2>1, <2>2
<1>2. \A c \in Carried(work) : c \in Carried(Tail(work)) \/ (line.dirty /\ c = b)
  BY <1>a, <1>0, CarriedPop
<1> HIDE DEF rest, pushed, b
<1>3. i + 1 \in 0 .. N /\ i \in Nat /\ Below(i) = i + 1
  BY NAssumption DEF Levels, Below
<1>4. /\ SingleCopy'
      /\ \A k \in Levels : k < i => BlocksOf(buffer'[k]) \subseteq BlocksOf(buffer[k])
      /\ \A k \in Int : i > k /\ StackBelow(Tail(work), k) => StackBelow(work', k)
      /\ Carried(Tail(work)) \subseteq Carried(work')
      /\ line.dirty => b \in Carried(work') \/ (\E k \in Levels : b \in AtLevel(k)')
      /\ \A c : (\E k \in Levels : c \in AtLevel(k))
               => c \in Carried(work') \/ (\E k \in Levels : c \in AtLevel(k)')
  <2>1. CASE ~Exclusive(i + 1)
    <3>1. work' = WriteDown(i + 1, line) \o rest /\ UNCHANGED <<resident, dirty, buffer>>
      BY <1>3, <2>1 DEF HandleEviction, contents, rest, pushed, b
    <3>2. SingleCopy' /\ \A k : AtLevel(k)' = AtLevel(k)
      BY <3>1, ContentsKept
    <3>3. /\ Carried(rest) \subseteq Carried(work')
          /\ line.dirty => b \in Carried(work')
          /\ \A k \in Int : i + 1 > k /\ StackBelow(rest, k) => StackBelow(work', k)
      BY <1>1, <1>3, <3>1, WriteDownKeeps DEF b
    <3>4. \A k \in Int : i > k => i + 1 > k
      BY <1>3
    <3> QED
      BY <1>1, <3>1, <3>2, <3>3, <3>4
  <2>2. CASE Exclusive(i + 1)
    <3> PICK j \in Levels : j = i + 1
      BY <2>2 DEF Exclusive
    <3> DEFINE kept == [line EXCEPT !.dirty = line.dirty /\ ~WriteThrough[j], !.prefetched = FALSE]
               onward == WriteOn(j, line) \o rest
    <3>1. Allocate(j, kept, buffer[j], onward)
      BY <1>3, <2>2 DEF HandleEviction, rest, pushed, b
    <3>2. kept \in Line /\ kept.block = b /\ kept.dirty = (line.dirty /\ ~WriteThrough[j])
      <4>1. (line.dirty /\ ~WriteThrough[j]) \in BOOLEAN
        OBVIOUS
      <4> QED
        BY <4>1 DEF Line, b
    <3>3. b \notin BlocksOf(buffer[j])
      BY <1>a, <2>2 DEF EvictsAbsent, b
    <3>4. /\ onward \in Seq(Task) /\ Carried(rest) \subseteq Carried(onward)
          /\ line.dirty /\ WriteThrough[j] => b \in Carried(onward)
          /\ \A k \in Int : i > k /\ StackBelow(rest, k) => StackBelow(onward, k)
      <4>0. j + 1 \in 0 .. N
        BY NAssumption DEF Levels
      <4>1. CASE line.dirty /\ WriteThrough[j]
        <5>1. onward = WriteDown(j + 1, line) \o rest
          BY <4>1 DEF WriteOn, WriteDown
        <5>2. \A k \in Int : i > k => j + 1 > k
          BY <1>3
        <5> HIDE DEF onward
        <5> QED
          BY <1>1, <4>0, <5>1, <5>2, WriteDownKeeps, WriteDownType DEF b
      <4>2. CASE ~(line.dirty /\ WriteThrough[j])
        <5>1. onward = rest
          BY <1>1, <4>2, ConcatEmptySeq DEF WriteOn
        <5> QED
          BY <1>1, <4>2, <5>1
      <4> QED
        BY <4>1, <4>2
    <3> HIDE DEF kept, onward
    <3>5. /\ Distinct(buffer[j]) /\ resident[j] \cap BlocksOf(buffer[j]) = {}
          /\ kept.block \notin BlocksOf(buffer[j]) /\ buffer[j] \in Seq(Line)
      BY <1>0, <3>2, <3>3 DEF SingleCopy, LevelsOK
    <3>6. /\ OnlyLevel(j) /\ OneCopyAt(j)'
          /\ \A c \in dirty[j] \cup DirtyBlocks(buffer[j]) : c \in AtLevel(j)' \/ c \in Carried(work')
          /\ kept.dirty => kept.block \in AtLevel(j)'
          /\ Carried(onward) \subseteq Carried(work')
          /\ \A k \in Int : j > k /\ StackBelow(onward, k) => StackBelow(work', k)
      BY <1>0, <3>1, <3>2, <3>4, <3>5, AllocateKeeps
    <3>7. /\ SingleCopy'
          /\ \A c : (\E k \in Levels : c \in AtLevel(k))
                   => c \in AtLevel(j) \/ (\E k \in Levels : c \in AtLevel(k)')
      BY <3>6, LevelStep
    <3>8. \A k \in Levels : k < i => BlocksOf(buffer'[k]) \subseteq BlocksOf(buffer[k])
      <4>1. \A k \in Levels : k < i => k # j
        BY <1>3 DEF Levels
      <4> QED
        BY <3>6, <4>1 DEF OnlyLevel
    <3>9. \A k \in Int : i > k /\ StackBelow(Tail(work), k) => StackBelow(work', k)
      <4>1. \A k \in Int : i > k => j > k
        BY <1>3
      <4> QED
        BY <1>1, <3>4, <3>6, <4>1
    <3>10. line.dirty => b \in Carried(work') \/ (\E k \in Levels : b \in AtLevel(k)')
      BY <3>2, <3>4, <3>6
    <3>11. \A c : (\E k \in Levels : c \in AtLevel(k))
                => c \in Carried(work') \/ (\E k \in Levels : c \in AtLevel(k)')
      BY <3>6, <3>7 DEF AtLevel
    <3> QED
      BY <1>1, <3>4, <3>6, <3>7, <3>8, <3>9, <3>10, <3>11
  <2> QED
    BY <2>1, <2>2
<1> QED
  BY <1>a, <1>0, <1>2, <1>4, StackKeeps

LEMMA BackInvalidateStepKeeps ==
  ASSUME ConservationInv, BackInvalidateStep
  PROVE  LinesInv'
<1> USE DEF ConservationInv, LinesInv
<1>a. work # << >> /\ Head(work).op = "backInvalidate"
  BY DEF BackInvalidateStep
<1> PICK i \in Levels, nth \in 0 .. N, b \in Blocks :
      i = Head(work).level /\ nth = Head(work).nth /\ b = Head(work).line.block
  BY <1>a, HeadType
<1> DEFINE k == NthAbove(i, nth)
           rest == NextAbove(i, nth, b) \o Tail(work)
<1>0. /\ work \in Seq(Task) /\ Tail(work) \in Seq(Task) /\ LevelsOK
      /\ ~Head(work).line.dirty /\ UNCHANGED <<pc, req, fetch, owed>>
      /\ i \in Nat /\ nth \in Nat
  BY <1>a, HeadType, NAssumption DEF BackInvalidateStep, TypeInv, StackOK, Task, Levels
<1>1. /\ rest \in Seq(Task) /\ Carried(Tail(work)) \subseteq Carried(rest)
      /\ \A l \in Int : i > l /\ StackBelow(Tail(work), l) => StackBelow(rest, l)
  <2>1. CASE nth + 1 < i
    <3>1. nth + 1 \in 0 .. N
      BY <1>0, <2>1, NAssumption DEF Levels
    <3>2. rest = <<BackInvalidate(i, nth + 1, b)>> \o Tail(work)
      BY <2>1 DEF NextAbove
    <3>3. BackInvalidate(i, nth + 1, b) \in Task
      BY <3>1 DEF BackInvalidate, Call, Task, Line
    <3> HIDE DEF rest
    <3> QED
      BY <1>0, <3>1, <3>2, <3>3, StackType, BackInvalidateKeeps
  <2>2. CASE ~(nth + 1 < i)
    <3>1. rest = Tail(work)
      BY <1>0, <2>2, ConcatEmptySeq DEF NextAbove
    <3> QED
      BY <1>0, <3>1
  <2> QED
    BY <2>1, <2>2
<1>2. Carried(work) \subseteq Carried(Tail(work))
  BY <1>a, <1>0, CarriedPop
<1>3. CASE nth < i /\ LosesCopy(k, b)
  <2> PICK j \in Levels : j = k
    BY <1>0, <1>3, NAssumption DEF NthAbove, Levels
  <2>1. Contains(j, b) /\ Invalidate(j, b) /\ work' = WriteDown(i + 1, LineOf(j, b)) \o rest
    BY <1>3 DEF BackInvalidateStep, LosesCopy
  <2> PICK line \in Line : line = LineOf(j, b) /\ line.block = b
    BY <1>0, <2>1, LineOfType
  <2> HIDE DEF k, rest
  <2>2. i + 1 \in 0 .. N /\ \A l \in Int : i > l => i + 1 > l
    BY <1>0, NAssumption DEF Levels
  <2>3. /\ Carried(rest) \subseteq Carried(work')
        /\ line.dirty => b \in Carried(work')
        /\ \A l \in Int : i + 1 > l /\ StackBelow(rest, l) => StackBelow(work', l)
    BY <1>1, <2>1, <2>2, WriteDownKeeps
  <2>4. /\ OnlyLevel(j) /\ OneCopyAt(j)' /\ BlocksOf(buffer'[j]) \subseteq BlocksOf(buffer[j])
        /\ \A c \in AtLevel(j) : c \in AtLevel(j)' \/ (c = b /\ line.dirty)
    <3>1. OneCopyAt(j)
      BY DEF SingleCopy, OneCopyAt
    <3>2. /\ OnlyLevel(j) /\ OneCopyAt(j)' /\ BlocksOf(buffer'[j]) \subseteq BlocksOf(buffer[j])
          /\ \A c \in AtLevel(j) : c \in AtLevel(j)' \/ (c = b /\ LineOf(j, b).dirty)
      BY <1>0, <2>1, <3>1, InvalidateKeeps
    <3> QED
      BY <3>2
  <2>5. /\ SingleCopy'
        /\ \A c : (\E l \in Levels : c \in AtLevel(l))
                 => c \in AtLevel(j) \/ (\E l \in Levels : c \in AtLevel(l)')
    BY <2>4, LevelStep
  <2>6. \A l \in Levels : BlocksOf(buffer'[l]) \subseteq BlocksOf(buffer[l])
    BY <2>4 DEF OnlyLevel
  <2>7. \A l \in Int : i > l /\ StackBelow(Tail(work), l) => StackBelow(work', l)
    BY <1>1, <2>2, <2>3
  <2>8. \A c \in owed' : c \in owed /\ (c \in Carried(work) \/ (\E l \in Levels : c \in AtLevel(l))
                                       => c \in Carried(work') \/ (\E l \in Levels : c \in AtLevel(l)'))
    BY <1>0, <1>1, <1>2, <2>3, <2>4, <2>5
  <2> QED
    BY <1>a, <1>0, <2>5, <2>6, <2>7, <2>8, StackKeeps
<1>4. CASE ~(nth < i /\ LosesCopy(k, b))
  <2>1. work' = rest /\ UNCHANGED <<resident, dirty, buffer>>
    BY <1>4 DEF BackInvalidateStep, contents
  <2>2. SingleCopy' /\ \A l : AtLevel(l)' = AtLevel(l)
    BY <2>1, ContentsKept
  <2> HIDE DEF rest
  <2> QED
    BY <1>a, <1>0, <1>1, <1>2, <2>1, <2>2, StackKeeps
<1> QED
  BY <1>3, <1>4

LEMMA WriteBackStepKeeps ==
  ASSUME ConservationInv, WriteBackStep
  PROVE  LinesInv'
<1> USE DEF ConservationInv, LinesInv
<1>a. work # << >> /\ Head(work).op = "writeBack"
  BY DEF WriteBackStep
<1> PICK i \in 0 .. N, line \in Line : i = Head(work).level /\ line = Head(work).line
  BY <1>a, HeadType
<1> DEFINE b == line.block
           onward == <<WriteBack(i + 1, line)>> \o Tail(work)
           clean == [line EXCEPT !.dirty = FALSE]
<1>0. /\ work \in Seq(Task) /\ Tail(work) \in Seq(Task) /\ LevelsOK /\ line.dirty /\ b \in Blocks
      /\ UNCHANGED <<pc, req, fetch>> /\ i \in Nat
  BY <1>a, HeadType, NAssumption DEF WriteBackStep, TypeInv, StackOK, Task, Line
<1>1. \A c \in Carried(work) : c \in Carried(Tail(work)) \/ c = b
  BY <1>a, <1>0, CarriedPop
<1>2. i < N => i \in Levels /\ i + 1 \in 0 .. N
  BY <1>0, NAssumption DEF Levels
<1>3. i < N => /\ onward \in Seq(Task) /\ Carried(Tail(work)) \subseteq Carried(onward) /\ b \in Carried(onward)
               /\ \A k \in Int : i > k /\ StackBelow(Tail(work), k) => StackBelow(onward, k)
  <2> SUFFICES ASSUME i < N
               PROVE  /\ onward \in Seq(Task) /\ Carried(Tail(work)) \subseteq Carried(onward) /\ b \in Carried(onward)
                      /\ \A k \in Int : i > k /\ StackBelow(Tail(work), k) => StackBelow(onward, k)
    OBVIOUS
  <2>1. onward = WriteDown(i + 1, line) \o Tail(work)
    BY <1>0 DEF WriteDown
  <2>2. \A k \in Int : i > k => i + 1 > k
    BY <1>0
  <2> HIDE DEF onward
  <2> QED
    BY <1>0, <1>2, <2>1, <2>2, WriteDownKeeps, WriteDownType
<1>4. \/ i = N /\ work' = Tail(work) /\ owed' = owed \ {b} /\ UNCHANGED <<resident, dirty, buffer>>
      \/ i < N /\ work' = onward /\ UNCHANGED <<resident, dirty, buffer, owed>>
      \/ i < N /\ Contains(i, b) /\ SetDirty(i, b, LineOf(i, b).dirty, line.fresh) /\ work' = onward
         /\ UNCHANGED owed
      \/ i < N /\ Contains(i, b) /\ SetDirty(i, b, TRUE, line.fresh) /\ work' = Tail(work) /\ UNCHANGED owed
      \/ i < N /\ ~Contains(i, b) /\ Allocate(i, clean, buffer[i], onward) /\ UNCHANGED owed
      \/ i < N /\ ~Contains(i, b) /\ Allocate(i, line, buffer[i], Tail(work)) /\ UNCHANGED owed
  BY DEF WriteBackStep, contents, history
<1>5. clean \in Line /\ clean.block = b
  BY <1>0 DEF Line
<1> HIDE DEF b, onward, clean
<1>6. CASE i = N /\ work' = Tail(work) /\ owed' = owed \ {b} /\ UNCHANGED <<resident, dirty, buffer>>
  <2>1. SingleCopy' /\ \A k : AtLevel(k)' = AtLevel(k)
    BY <1>6, ContentsKept
  <2> QED
    BY <1>a, <1>0, <1>1, <1>6, <2>1, StackKeeps
<1>7. CASE i < N /\ work' = onward /\ UNCHANGED <<resident, dirty, buffer, owed>>
  <2>1. SingleCopy' /\ \A k : AtLevel(k)' = AtLevel(k)
    BY <1>7, ContentsKept
  <2> QED
    BY <1>a, <1>0, <1>1, <1>3, <1>7, <2>1, StackKeeps
\* A step that changes level i: what it has to establish.
<1>8. ASSUME i < N, OnlyLevel(i), OneCopyAt(i)', UNCHANGED owed,
             Carried(Tail(work)) \subseteq Carried(work'),
             b \in AtLevel(i)' \/ b \in Carried(work'),
             \A c \in AtLevel(i) : c = b \/ c \in AtLevel(i)' \/ c \in Carried(work'),
             \A k \in Int : i > k /\ StackBelow(Tail(work), k) => StackBelow(work', k)
      PROVE  LinesInv'
  <2>1. i \in Levels
    BY <1>2, <1>8
  <2>2. /\ SingleCopy'
        /\ \A c : (\E k \in Levels : c \in AtLevel(k))
                 => c \in AtLevel(i) \/ (\E k \in Levels : c \in AtLevel(k)')
    BY <1>8, <2>1, LevelStep
  <2>3. \A k \in Levels : k < i => BlocksOf(buffer'[k]) \subseteq BlocksOf(buffer[k])
    BY <1>8, <2>1 DEF OnlyLevel, Levels
  <2>4. \A c \in owed' : c \in owed /\ (c \in Carried(work) \/ (\E k \in Levels : c \in AtLevel(k))
                                       => c \in Carried(work') \/ (\E k \in Levels : c \in AtLevel(k)'))
    BY <1>1, <1>8, <2>1, <2>2
  <2> QED
    BY <1>a, <1>0, <1>8, <2>2, <2>3, <2>4, StackKeeps
<1>9. CASE i < N /\ Contains(i, b) /\ UNCHANGED owed
           /\ \E mark \in BOOLEAN :
                 /\ SetDirty(i, b, mark, line.fresh)
                 /\ (mark /\ work' = Tail(work)) \/ work' = onward
  <2> PICK mark \in BOOLEAN : /\ SetDirty(i, b, mark, line.fresh)
                              /\ (mark /\ work' = Tail(work)) \/ work' = onward
    BY <1>9
  <2>1. /\ OnlyLevel(i) /\ OneCopyAt(i)'
        /\ \A c \in AtLevel(i) : c = b \/ c \in AtLevel(i)'
        /\ mark => b \in AtLevel(i)'
    BY <1>0, <1>2, <1>9, SetDirtyKeeps DEF SingleCopy, OneCopyAt, b
  <2>2. /\ Carried(Tail(work)) \subseteq Carried(work')
        /\ b \in AtLevel(i)' \/ b \in Carried(work')
        /\ \A k \in Int : i > k /\ StackBelow(Tail(work), k) => StackBelow(work', k)
    BY <1>3, <1>9, <2>1
  <2> QED
    BY <1>8, <1>9, <2>1, <2>2
<1>10. CASE i < N /\ ~Contains(i, b) /\ UNCHANGED owed
            /\ (Allocate(i, clean, buffer[i], onward) \/ Allocate(i, line, buffer[i], Tail(work)))
  <2>1. PICK put \in Line, rest \in Seq(Task) :
          /\ Allocate(i, put, buffer[i], rest) /\ put.block = b
          /\ put.dirty \/ b \in Carried(rest)
          /\ Carried(Tail(work)) \subseteq Carried(rest)
          /\ \A k \in Int : i > k /\ StackBelow(Tail(work), k) => StackBelow(rest, k)
    <3>1. CASE Allocate(i, clean, buffer[i], onward)
      BY <1>3, <1>5, <1>10, <3>1
    <3>2. CASE Allocate(i, line, buffer[i], Tail(work))
      BY <1>0, <1>10, <3>2 DEF b
    <3> QED
      BY <1>10, <3>1, <3>2
  <2>2. /\ i \in Levels /\ buffer[i] \in Seq(Line) /\ Distinct(buffer[i])
        /\ resident[i] \cap BlocksOf(buffer[i]) = {} /\ put.block \notin BlocksOf(buffer[i])
    BY <1>0, <1>2, <1>10, <2>1 DEF LevelsOK, SingleCopy, Contains, Buffered, BlocksOf
  <2>3. /\ OnlyLevel(i) /\ OneCopyAt(i)'
        /\ \A c \in dirty[i] \cup DirtyBlocks(buffer[i]) : c \in AtLevel(i)' \/ c \in Carried(work')
        /\ put.dirty => put.block \in AtLevel(i)'
        /\ Carried(rest) \subseteq Carried(work')
        /\ \A k \in Int : i > k /\ StackBelow(rest, k) => StackBelow(work', k)
    BY <1>0, <2>1, <2>2, AllocateKeeps
  <2>4. \A c \in AtLevel(i) : c \in AtLevel(i)' \/ c \in Carried(work')
    BY <2>3 DEF AtLevel
  <2>5. b \in AtLevel(i)' \/ b \in Carried(work')
    BY <2>1, <2>3
  <2> QED
    BY <1>8, <1>10, <2>1, <2>3, <2>4, <2>5
<1>11. Contains(i, b) /\ i < N => LineOf(i, b).dirty \in BOOLEAN
  BY <1>0, <1>2, LineOfType DEF Line, b
<1> QED
  BY <1>4, <1>6, <1>7, <1>9, <1>10, <1>11

LEMMA FlushLineKeeps ==
  ASSUME ConservationInv, FlushLine
  PROVE  LinesInv'
<1> USE DEF ConservationInv, LinesInv
<1> PICK i \in Levels : i = FlushLevel(req.level)
  BY DEF FlushLine, TypeInv, LocalsOK, FlushLevel
<1>0. /\ pc = "flush" /\ work = << >> /\ UNCHANGED <<pc, req, fetch, owed>> /\ LevelsOK
  BY DEF FlushLine, TypeInv
<1>1. PICK b \in Blocks :
        /\ IF Contains(i, b) THEN SetDirty(i, b, FALSE, LineOf(i, b).fresh)
                             ELSE UNCHANGED <<contents, fresh>>
        /\ \E line \in Line : line.dirty /\ line.block = b /\ work' = <<WriteBack(i + 1, line)>>
  <2>1. PICK entry \in snapshot :
        /\ IF Contains(i, entry.block)
           THEN SetDirty(i, entry.block, FALSE, LineOf(i, entry.block).fresh)
           ELSE UNCHANGED <<contents, fresh>>
        /\ work' = <<WriteBack(i + 1, [block |-> entry.block, dirty |-> TRUE, prefetched |-> FALSE,
                                       fresh |-> Contains(i, entry.block) /\ LineOf(i, entry.block).fresh])>>
    BY DEF FlushLine
  <2>2. entry.block \in Blocks
    BY DEF TypeInv, LocalsOK
  <2> DEFINE line == [block |-> entry.block, dirty |-> TRUE, prefetched |-> FALSE,
                      fresh |-> Contains(i, entry.block) /\ LineOf(i, entry.block).fresh]
  <2>3. line \in Line /\ line.dirty /\ line.block = entry.block
    BY <2>2 DEF Line
  <2>4. work' = <<WriteBack(i + 1, line)>>
    BY <2>1
  <2> HIDE DEF line
  <2> QED
    BY <2>1, <2>2, <2>3, <2>4
<1>2. b \in Carried(work')
  <2>1. PICK line \in Line : line.dirty /\ line.block = b /\ work' = <<WriteBack(i + 1, line)>>
    BY <1>1
  <2> DEFINE t == WriteBack(i + 1, line)
  <2>2. t.line.dirty /\ t.line.block = b
    BY <2>1 DEF WriteBack, Call, Line
  <2>3. work' = <<t>>
    BY <2>1
  <2> HIDE DEF t
  <2> QED
    BY <2>2, <2>3 DEF Carried
<1>3. /\ SingleCopy'
      /\ \A c : (\E k \in Levels : c \in AtLevel(k)) => c = b \/ (\E k \in Levels : c \in AtLevel(k)')
  <2>1. CASE Contains(i, b)
    <3>1. /\ OnlyLevel(i) /\ OneCopyAt(i)' /\ \A c \in AtLevel(i) : c = b \/ c \in AtLevel(i)'
      BY <1>0, <1>1, <2>1, SetDirtyKeeps DEF SingleCopy, OneCopyAt
    <3>2. /\ SingleCopy'
          /\ \A c : (\E k \in Levels : c \in AtLevel(k))
                   => c \in AtLevel(i) \/ (\E k \in Levels : c \in AtLevel(k)')
      BY <3>1, LevelStep
    <3> QED
      BY <3>1, <3>2
  <2>2. CASE ~Contains(i, b)
    BY <1>1, <2>2, ContentsKept DEF contents
  <2> QED
    BY <2>1, <2>2
<1>4. FillsAbsent' /\ WorkBelow' /\ ReqFacts' /\ FetchFacts' /\ \A c : ~InRequest(c)
  BY <1>0 DEF FillsAbsent, WorkBelow, ReqFacts, FetchFacts, InRequest
<1>5. Carried(work) = {}
  BY <1>0 DEF Carried
<1> QED
  BY <1>0, <1>2, <1>3, <1>4, <1>5 DEF Somewhere

-----------------------------------------------------------------------------
LEMMA ConservationStep == EvictsAbsent /\ ConservationInv /\ [Next]_vars => ConservationInv'
<1> SUFFICES ASSUME EvictsAbsent, ConservationInv, [Next]_vars PROVE ConservationInv'
  OBVIOUS
<1>1. TypeInv'
  BY TypeInvStep DEF ConservationInv
<1>2. CASE \E b \in Blocks, store \in BOOLEAN : BeginAccess(b, store)
  BY <1>1, <1>2, BeginAccessKeeps DEF ConservationInv
<1>3. CASE ProbeHit \/ ProbeVictimHit \/ ProbeMiss \/ ReachMemory
  BY <1>1, <1>3, ProbeHitKeeps, ProbeVictimHitKeeps, ProbeMissKeeps, ReachMemoryKeeps DEF ConservationInv
<1>4. CASE Settle \/ MoveUp \/ Fill \/ Forward
  BY <1>1, <1>4, SettleKeeps, MoveUpKeeps, FillKeeps, ForwardKeeps DEF ConservationInv
<1>5. CASE Observe \/ Issue \/ PrefetchFill
  BY <1>1, <1>5, ObserveKeeps, IssueKeeps, FillKeeps DEF ConservationInv
<1>6. CASE HandleEviction \/ BackInvalidateStep \/ WriteBackStep
  BY <1>1, <1>6, HandleEvictionKeeps, BackInvalidateStepKeeps, WriteBackStepKeeps DEF ConservationInv
<1>7. CASE FlushLine
  BY <1>1, <1>7, FlushLineKeeps DEF ConservationInv
<1>8. CASE PrefetchDone \/ FinishAccess \/ FinishFlush \/ BeginFlush \/ FlushNextLevel
  BY <1>1, <1>8, ReturnKeeps DEF ConservationInv
<1>9. CASE UNCHANGED vars
  BY <1>1, <1>9 DEF vars, ConservationInv, LinesInv, SingleCopy, FillsAbsent, WorkBelow, ReqFacts,
                    FetchFacts, Somewhere, AtLevel, InRequest
<1> QED
  BY <1>2, <1>3, <1>4, <1>5, <1>6, <1>7, <1>8, <1>9 DEF Next, Step

\* A victim buffer of no entries holds nothing.
LEMMA BareBuffers ==
  ASSUME TypeInv, BareVictimLevels
  PROVE  EvictsAbsent
<1> SUFFICES ASSUME work # << >>, Head(work).op = "evict", NEW j \in Levels, Exclusive(j)
             PROVE  BlocksOf(buffer[j]) = {}
  BY DEF EvictsAbsent, Exclusive
<1>1. buffer[j] \in Seq(Line) /\ Len(buffer[j]) <= 0
  BY DEF BareVictimLevels, TypeInv, BuffersBounded, LevelsOK
<1>2. Len(buffer[j]) = 0
  BY <1>1
<1>3. buffer[j] = << >>
  BY <1>1, <1>2, EmptySeq
<1> QED
  BY <1>3 DEF BlocksOf

\* A block that was stored and not written to memory since is dirty in some level,
\* or its data is on its way down or up, through every eviction, back-invalidation,
\* move, write-back and flush, as long as no exclusive level has a victim buffer.
THEOREM NoStoreIsLost == BareVictimLevels => (Spec => []StoresConserved)
<1> SUFFICES ASSUME BareVictimLevels PROVE Spec => []StoresConserved
  OBVIOUS
<1>1. ConservationInv => StoresConserved
  BY DEF ConservationInv, LinesInv, Somewhere, StoresConserved, AtLevel, DirtyBlocks, DirtyIn, Carried, InFlight
<1>2. Init => ConservationInv
  BY TypeInvInit, InvInit DEF ConservationInv
<1>3. ConservationInv /\ [Next]_vars => ConservationInv'
  BY ConservationStep, BareBuffers DEF ConservationInv
<1> QED
  BY <1>1, <1>2, <1>3, PTL DEF Spec
=============================================================================
