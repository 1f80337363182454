------------------------------ MODULE Hierarchy ------------------------------
(***************************************************************************)
(* The chain of cache levels of cachesim/hierarchy.py and the part of      *)
(* cachesim/cache.py it works on: which blocks every level holds, which    *)
(* copies are dirty, which were prefetched, and how one access, one flush  *)
(* and the evictions they cause move blocks between the levels and main    *)
(* memory.                                                                 *)
(*                                                                         *)
(* The simulator is single-threaded: access() and flush() run to           *)
(* completion, one call at a time.  Their loops and the mutually recursive *)
(* _handle_eviction, _back_invalidate and _write_back are modelled step by *)
(* step: `pc' says which loop of the entry point is running, `work' is the *)
(* call stack of the recursive methods (the call that runs next at its     *)
(* head), and a step of the entry point waits until `work' is empty.  At   *)
(* every moment the steps enabled are those of the call that is running,   *)
(* so the order is the one of the code.                                    *)
(*                                                                         *)
(* Replacement is abstracted: the policy may pick any line of a full set,  *)
(* as the random policy can.  The line a victim buffer pushes out is the   *)
(* least recently used one, as in the code.                                *)
(*                                                                         *)
(* `fresh', `memory' and `owed' are history variables.  The simulator      *)
(* keeps no bytes; `fresh' and `memory' say which copies would hold the    *)
(* data of the latest store if it did, and `owed' which blocks have been   *)
(* stored since main memory was last written with them.  No guard reads    *)
(* them.                                                                   *)
(***************************************************************************)
EXTENDS Integers, Sequences, FiniteSets

Ext == INSTANCE SequencesExt

CONSTANTS
  Blocks,         \* the block numbers that are referenced or prefetched
  N,              \* number of levels; level 0 is L1, main memory is below N - 1
  Sets,           \* names of the sets of a level
  SetOf,          \* SetOf[i][b]: the set of level i that block b maps to
  Ways,           \* Ways[i]: the associativity of level i
  Entries,        \* Entries[i]: lines of level i's victim buffer, 0 for none
  Inclusion,      \* Inclusion[i]: "nine", "inclusive" or "exclusive"
  WriteThrough,   \* WriteThrough[i]: is level i write-through?
  WriteAllocate,  \* WriteAllocate[i]: does a write miss fetch the line?
  Prefetcher,     \* Prefetcher[i]: "none", "next-line" or "stride"
  NextBlock,      \* NextBlock[b]: b + 1, or None where it is not modelled
  None            \* no block

Levels == 0 .. N - 1

ASSUME BlocksAssumption == IsFiniteSet(Blocks) /\ None \notin Blocks
ASSUME NAssumption == N \in Nat \ {0}
ASSUME GeometryAssumption ==
  /\ SetOf \in [Levels -> [Blocks -> Sets]]
  /\ Ways \in [Levels -> Nat \ {0}]
  /\ Entries \in [Levels -> Nat]
\* The first level has no level above it, so it must be NINE.
ASSUME PolicyAssumption ==
  /\ Inclusion \in [Levels -> {"nine", "inclusive", "exclusive"}]
  /\ Inclusion[0] = "nine"
  /\ WriteThrough \in [Levels -> BOOLEAN]
  /\ WriteAllocate \in [Levels -> BOOLEAN]
ASSUME PrefetchAssumption ==
  /\ Prefetcher \in [Levels -> {"none", "next-line", "stride"}]
  /\ NextBlock \in [Blocks -> Blocks \cup {None}]

Exclusive(i) == i \in Levels /\ Inclusion[i] = "exclusive"
Inclusive(i) == Inclusion[i] = "inclusive"

\* A line on the move or in a victim buffer: the Evicted record of the code,
\* and whether it carries the latest data.
Line == [block : Blocks, dirty : BOOLEAN, prefetched : BOOLEAN, fresh : BOOLEAN]

\* A call that waits to be made: _handle_eviction(level, line), one iteration of
\* _write_back(level, line.block), or iteration `nth' of
\* _back_invalidate(level, line.block).
Task == [op : {"evict"}, level : Levels, nth : {0}, line : Line]
        \cup [op : {"writeBack"}, level : 0 .. N, nth : {0}, line : {l \in Line : l.dirty}]
        \cup [op : {"backInvalidate"}, level : Levels, nth : 0 .. N, line : {l \in Line : ~l.dirty}]

\* The locals of access(): the level reached, and its hit_level, taken,
\* fill_from and forward_from.
Request == [block : Blocks \cup {None}, store : BOOLEAN, write : BOOLEAN,
            level : 0 .. N, hit : 0 .. N, taken : Levels \cup {-1},
            fillFrom : 0 .. N, forward : 0 .. N \cup {-1}]

\* The locals of a fill loop, the one of access() or of _prefetch_fill(): the
\* block, the next level to fill, the last one, and the level that is filled
\* even if it is exclusive.
Fetch == [block : Blocks \cup {None}, at : Levels \cup {-1}, to : 0 .. N,
          keep : Levels \cup {-1}, dirty : BOOLEAN, fresh : BOOLEAN]

NoRequest == [block |-> None, store |-> FALSE, write |-> FALSE, level |-> 0, hit |-> 0,
              taken |-> -1, fillFrom |-> 0, forward |-> -1]
NoFetch == [block |-> None, at |-> -1, to |-> 0, keep |-> -1, dirty |-> FALSE, fresh |-> FALSE]

VARIABLES
  resident,    \* resident[i]: the blocks of level i's array
  dirty,       \* dirty[i]: those whose dirty bit is set
  prefetched,  \* prefetched[i]: those with the prefetched flag
  buffer,      \* buffer[i]: level i's victim buffer, least recently used first
  pc,          \* the loop of the entry point that is running
  req,         \* the access in progress
  fetch,       \* the fill in progress
  work,        \* the calls still to be made, innermost first
  snapshot,    \* flush(): dirty lines of the level still to be written
  fresh,       \* history: fresh[i], the array copies with the latest data
  memory,      \* history: the blocks whose latest data main memory holds
  owed         \* history: the blocks stored and not written to memory since

contents == <<resident, dirty, prefetched, buffer>>
history == <<fresh, memory, owed>>
vars == <<resident, dirty, prefetched, buffer, pc, req, fetch, work, snapshot,
          fresh, memory, owed>>

-----------------------------------------------------------------------------
(* One level: the primitives of class Cache.                               *)

Buffered(i) == {buffer[i][n].block : n \in DOMAIN buffer[i]}

\* Cache.contains: in the array or in the victim buffer.
Contains(i, b) == b \in resident[i] \/ b \in Buffered(i)

ArrayLine(i, b) == [block |-> b, dirty |-> b \in dirty[i],
                    prefetched |-> b \in prefetched[i], fresh |-> b \in fresh[i]]

BufferedLine(i, b) == buffer[i][CHOOSE n \in DOMAIN buffer[i] : buffer[i][n].block = b]

\* The copy the methods of Cache find: the array is searched first.
LineOf(i, b) == IF b \in resident[i] THEN ArrayLine(i, b) ELSE BufferedLine(i, b)

\* Mutant of Without: a hit peeks at the buffer and leaves its entry there.
PeekOnly(lines, b) == lines

\* VictimBuffer.take: a block has at most one entry.
Without(lines, b) ==
  IF \E n \in DOMAIN lines : lines[n].block = b
  THEN Ext!RemoveAt(lines, CHOOSE n \in DOMAIN lines : lines[n].block = b)
  ELSE lines

With(S, b, member) == IF member THEN S \cup {b} ELSE S \ {b}

SetMates(i, b) == {c \in resident[i] : SetOf[i][c] = SetOf[i][b]}

\* The array of level i takes `line' in place of the blocks `out'.
Place(i, line, out) ==
  /\ resident' = [resident EXCEPT ![i] = (@ \ out) \cup {line.block}]
  /\ dirty' = [dirty EXCEPT ![i] = With(@ \ out, line.block, line.dirty)]
  /\ prefetched' = [prefetched EXCEPT ![i] = With(@ \ out, line.block, line.prefetched)]
  /\ fresh' = [fresh EXCEPT ![i] = With(@ \ out, line.block, line.fresh)]

\* VictimBuffer.push: a block has one entry, the most recent line is last.
Pushed(lines, line) == Append(Without(lines, line.block), line)

Call(op, i, nth, line) == [op |-> op, level |-> i, nth |-> nth, line |-> line]
Evict(i, line) == Call("evict", i, 0, line)
WriteBack(i, line) == Call("writeBack", i, 0, [line EXCEPT !.dirty = TRUE, !.prefetched = FALSE])
BackInvalidate(i, nth, b) ==
  Call("backInvalidate", i, nth,
       [block |-> b, dirty |-> FALSE, prefetched |-> FALSE, fresh |-> FALSE])

(* Cache.allocate at level i, beside a victim buffer holding `lines'; the  *)
(* line that leaves the level, if any, is handled before `rest'.           *)
Allocate(i, line, lines, rest) ==
  \/ \* already resident: the dirty bit is OR-ed in
     /\ line.block \in resident[i]
     /\ dirty' = [dirty EXCEPT ![i] = IF line.dirty THEN @ \cup {line.block} ELSE @]
     /\ fresh' = [fresh EXCEPT ![i] = With(@, line.block, line.fresh)]
     /\ buffer' = [buffer EXCEPT ![i] = lines]
     /\ work' = rest
     /\ UNCHANGED <<resident, prefetched>>
  \/ \* an empty way
     /\ line.block \notin resident[i]
     /\ Cardinality(SetMates(i, line.block)) < Ways[i]
     /\ Place(i, line, {})
     /\ buffer' = [buffer EXCEPT ![i] = lines]
     /\ work' = rest
  \/ \* a victim of the full set
     /\ line.block \notin resident[i]
     /\ Cardinality(SetMates(i, line.block)) >= Ways[i]
     /\ \E victim \in SetMates(i, line.block) :
          LET out == ArrayLine(i, victim)
              pushed == Pushed(lines, out)
          IN /\ Place(i, line, {victim})
             /\ IF Entries[i] = 0
                THEN buffer' = [buffer EXCEPT ![i] = lines] /\ work' = <<Evict(i, out)>> \o rest
                ELSE IF Len(pushed) <= Entries[i]
                THEN buffer' = [buffer EXCEPT ![i] = pushed] /\ work' = rest
                ELSE /\ buffer' = [buffer EXCEPT ![i] = Tail(pushed)]
                     /\ work' = <<Evict(i, Head(pushed))>> \o rest

\* Mutant of Invalidate: the way is emptied, its flags stay set.
EmptiesWayOnly(i, b) ==
  IF b \in resident[i]
  THEN /\ resident' = [resident EXCEPT ![i] = @ \ {b}]
       /\ fresh' = [fresh EXCEPT ![i] = @ \ {b}]
       /\ UNCHANGED <<dirty, prefetched, buffer>>
  ELSE /\ buffer' = [buffer EXCEPT ![i] = Without(@, b)]
       /\ UNCHANGED <<resident, dirty, prefetched, fresh>>

\* Cache.invalidate of a block level i contains.
Invalidate(i, b) ==
  IF b \in resident[i]
  THEN /\ resident' = [resident EXCEPT ![i] = @ \ {b}]
       /\ dirty' = [dirty EXCEPT ![i] = @ \ {b}]
       /\ prefetched' = [prefetched EXCEPT ![i] = @ \ {b}]
       /\ fresh' = [fresh EXCEPT ![i] = @ \ {b}]
       /\ UNCHANGED buffer
  ELSE /\ buffer' = [buffer EXCEPT ![i] = Without(@, b)]
       /\ UNCHANGED <<resident, dirty, prefetched, fresh>>

\* VictimBuffer.replace: the entry of block b, if there is one, becomes `line'.
Replaced(lines, b, line) ==
  [n \in DOMAIN lines |-> IF lines[n].block = b THEN line ELSE lines[n]]

\* Cache.mark_dirty and Cache.clean of a block level i contains; `current' is
\* whether the copy then holds the latest data.
SetDirty(i, b, mark, current) ==
  /\ IF b \in resident[i]
     THEN /\ dirty' = [dirty EXCEPT ![i] = With(@, b, mark)]
          /\ fresh' = [fresh EXCEPT ![i] = With(@, b, current)]
          /\ UNCHANGED buffer
     ELSE LET line == [BufferedLine(i, b) EXCEPT !.dirty = mark, !.fresh = current]
          IN buffer' = [buffer EXCEPT ![i] = Replaced(@, b, line)] /\ UNCHANGED <<dirty, fresh>>
  /\ UNCHANGED <<resident, prefetched>>

-----------------------------------------------------------------------------
(* The access path: Hierarchy.access.                                      *)

Init ==
  /\ resident = [i \in Levels |-> {}]
  /\ dirty = [i \in Levels |-> {}]
  /\ prefetched = [i \in Levels |-> {}]
  /\ buffer = [i \in Levels |-> << >>]
  /\ pc = "idle"
  /\ req = NoRequest
  /\ fetch = NoFetch
  /\ work = << >>
  /\ snapshot = {}
  /\ fresh = [i \in Levels |-> {}]
  /\ memory = Blocks
  /\ owed = {}

Returned == pc' = "idle" /\ req' = NoRequest /\ fetch' = NoFetch

BeginAccess(b, store) ==
  /\ pc = "idle"
  /\ pc' = "probe"
  /\ req' = [NoRequest EXCEPT !.block = b, !.store = store, !.write = store, !.hit = N]
  /\ UNCHANGED <<contents, history, fetch, work, snapshot>>

\* The store is applied at level i, which hit: nothing is left to fill there.
HitAt(i) ==
  [req EXCEPT !.hit = i,
              !.taken = IF req.write THEN i ELSE @,
              !.fillFrom = IF req.write THEN i ELSE @,
              !.forward = IF req.write /\ WriteThrough[i] THEN i + 1 ELSE @]

\* Mutant of DirtyAfterHit: a write-through level does not clean the line again.
LeftDirty(i, was) == was \/ req.write

\* The dirty bit of the line that hit: set by a store, and cleared again by a
\* write-through level.
DirtyAfterHit(i, was) == (was \/ req.write) /\ ~(req.write /\ WriteThrough[i])

OwedAfterHit == IF req.write THEN owed \cup {req.block} ELSE owed

ProbeHit ==
  /\ pc = "probe" /\ req.level < N
  /\ LET i == req.level
         b == req.block
     IN /\ b \in resident[i]
        /\ dirty' = [dirty EXCEPT ![i] = With(@, b, DirtyAfterHit(i, b \in @))]
        /\ req' = HitAt(i)
  /\ owed' = OwedAfterHit
  /\ pc' = "settle"
  /\ UNCHANGED <<resident, prefetched, buffer, fresh, memory, fetch, work, snapshot>>

\* The victim buffer serves the reference: the block is swapped back into the
\* array.
ProbeVictimHit ==
  /\ pc = "probe" /\ req.level < N
  /\ LET i == req.level
         b == req.block
         line == LineOf(i, b)
     IN /\ b \notin resident[i] /\ b \in Buffered(i)
        /\ Allocate(i, [line EXCEPT !.dirty = DirtyAfterHit(i, @)],
                    Without(buffer[i], b), << >>)
        /\ req' = HitAt(i)
  /\ owed' = OwedAfterHit
  /\ pc' = "settle"
  /\ UNCHANGED <<memory, fetch, snapshot>>

\* A miss: a store is taken by a level that allocates on a write miss and goes
\* on as a fill, or passes a level that does not.
ProbeMiss ==
  /\ pc = "probe" /\ req.level < N
  /\ LET i == req.level
         takes == req.write /\ WriteAllocate[i]
     IN /\ ~Contains(i, req.block)
        /\ req' = [req EXCEPT !.level = i + 1,
                              !.write = @ /\ ~takes,
                              !.taken = IF takes THEN i ELSE @,
                              !.fillFrom = IF takes THEN i ELSE @,
                              !.forward = IF takes /\ WriteThrough[i] THEN i + 1 ELSE @]
        /\ owed' = IF takes THEN owed \cup {req.block} ELSE owed
  /\ UNCHANGED <<contents, fresh, memory, pc, fetch, work, snapshot>>

\* Every level missed.  A store nobody took is written to memory and fills
\* nothing.
ReachMemory ==
  /\ pc = "probe" /\ req.level = N
  /\ pc' = "settle"
  /\ req' = [req EXCEPT !.fillFrom = IF req.write THEN N ELSE @]
  /\ owed' = IF req.write THEN owed \ {req.block} ELSE owed
  /\ UNCHANGED <<contents, fresh, memory, fetch, work, snapshot>>

\* Mutants of MovesUp: the block stays in the exclusive level that hit, or leaves it
\* even for a store that no level above takes.
StaysBelow(r) == FALSE
AlwaysMoves(r) == Exclusive(r.hit)

\* A hit in an exclusive level moves the block up, unless the store stays there.
MovesUp(r) == r.fillFrom < r.hit /\ Exclusive(r.hit)

\* Level i's victim buffer once a newer copy of block b exists.
Superseded(i, b) == Replaced(buffer[i], b, [BufferedLine(i, b) EXCEPT !.fresh = FALSE])

\* What is to be filled.  Once a level took the store, its data supersedes every
\* other copy of the block.
Settle ==
  /\ pc = "settle" /\ work = << >>
  /\ LET b == req.block
         stored == req.taken >= 0
         current == IF req.hit < N THEN LineOf(req.hit, b).fresh ELSE b \in memory
     IN /\ fetch' = [block |-> b, at |-> req.hit - 1, to |-> req.fillFrom, keep |-> req.taken,
                     dirty |-> stored /\ ~WriteThrough[req.taken], fresh |-> current]
        /\ pc' = IF MovesUp(req) THEN "move" ELSE "fill"
        /\ fresh' = [i \in Levels |-> IF stored /\ ~(i = req.taken /\ i = req.hit)
                                      THEN fresh[i] \ {b} ELSE fresh[i]]
        /\ buffer' = [i \in Levels |-> IF stored THEN Superseded(i, b) ELSE buffer[i]]
        /\ memory' = IF stored THEN memory \ {b} ELSE memory
  /\ UNCHANGED <<resident, dirty, prefetched, owed, req, work, snapshot>>

\* A block that hit in an exclusive level moves up, dirty bit and all.
MoveUp ==
  /\ pc = "move"
  /\ fetch' = [fetch EXCEPT !.dirty = @ \/ LineOf(req.hit, fetch.block).dirty]
  /\ Invalidate(req.hit, fetch.block)
  /\ pc' = "fill"
  /\ UNCHANGED <<memory, owed, req, work, snapshot>>

\* Mutant of Passes: a fetch fills the exclusive levels on its way.
FillsEvery(i) == FALSE

\* An exclusive level is passed by a fill unless the fill is for it.
Passes(i) == Exclusive(i) /\ i # fetch.keep

\* Whether the copy installed at level i has the latest data.  When a level took
\* the store of this access, it alone applies it: the levels below get a plain
\* line fill, of the data before the store.  A prefetch stores nothing.
FilledCurrent(speculative, i) == fetch.fresh /\ (speculative \/ fetch.keep \in {-1, i})

\* One iteration of a fill loop; the last level filled gets the flags.
FillStep(speculative) ==
  LET i == fetch.at
      last == i = fetch.to
  IN /\ work = << >> /\ i >= fetch.to
     /\ fetch' = [fetch EXCEPT !.at = i - 1]
     /\ IF Passes(i)
        THEN UNCHANGED <<contents, fresh, work>>
        ELSE Allocate(i, [block |-> fetch.block, dirty |-> fetch.dirty /\ last,
                          prefetched |-> speculative /\ last,
                          fresh |-> FilledCurrent(speculative, i)],
                      buffer[i], << >>)

Fill ==
  /\ pc = "fill"
  /\ FillStep(FALSE)
  /\ UNCHANGED <<memory, owed, pc, req, snapshot>>

\* The fills are done; a write-through level sends its duplicate of the store
\* down.
Forward ==
  /\ pc = "fill" /\ work = << >> /\ fetch.at < fetch.to
  /\ work' = IF req.forward < 0 THEN << >>
             ELSE <<WriteBack(req.forward, [block |-> req.block, dirty |-> TRUE,
                                            prefetched |-> FALSE, fresh |-> fetch.fresh])>>
  /\ pc' = "observe"
  /\ req' = [req EXCEPT !.level = 0]
  /\ fetch' = NoFetch
  /\ UNCHANGED <<contents, history, snapshot>>

-----------------------------------------------------------------------------
(* Prefetching: _run_prefetchers and _prefetch_fill.                       *)

\* What the prefetcher of level i may predict.  The stride prefetcher's table is
\* abstracted: it may predict any block, or none.
Predictions(i, hit, wasPrefetched) ==
  CASE Prefetcher[i] = "next-line" -> {IF hit /\ ~wasPrefetched THEN None ELSE NextBlock[req.block]}
    [] Prefetcher[i] = "stride"    -> Blocks \cup {None}
    [] Prefetcher[i] = "none"      -> {None}

\* Cache.clear_prefetched, at a level that holds the block or not.
ClearPrefetched(i, b) ==
  IF b \in resident[i]
  THEN prefetched' = [prefetched EXCEPT ![i] = @ \ {b}] /\ UNCHANGED buffer
  ELSE LET line == [BufferedLine(i, b) EXCEPT !.prefetched = FALSE]
       IN buffer' = [buffer EXCEPT ![i] = Replaced(@, b, line)] /\ UNCHANGED prefetched

Deepest == IF req.hit < N THEN req.hit ELSE N - 1

\* The prefetcher of one level observes the reference.
Observe ==
  /\ pc = "observe" /\ work = << >> /\ req.level <= Deepest
  /\ LET i == req.level
         b == req.block
         hit == i = req.hit
         was == hit /\ Contains(i, b) /\ LineOf(i, b).prefetched
     IN /\ IF hit /\ Prefetcher[i] # "none"
           THEN ClearPrefetched(i, b)
           ELSE UNCHANGED <<prefetched, buffer>>
        /\ \E target \in Predictions(i, hit, was) :
             IF target = None \/ Contains(i, target)
             THEN /\ req' = [req EXCEPT !.level = i + 1]
                  /\ UNCHANGED <<pc, fetch>>
             ELSE /\ fetch' = [NoFetch EXCEPT !.block = target, !.to = i, !.keep = i]
                  /\ pc' = "issue"
                  /\ UNCHANGED req
  /\ UNCHANGED <<resident, dirty, history, work, snapshot>>

\* Mutant of HandedDirty: the block moves up without its dirty bit.
HandedClean(source, b) == FALSE

\* An exclusive source gives the dirty bit along with the block.
HandedDirty(source, b) == Exclusive(source) /\ LineOf(source, b).dirty

\* The first level below the issuing one that holds the block supplies it; an
\* exclusive one hands it up.
Issue ==
  /\ pc = "issue"
  /\ LET b == fetch.block
         holders == {k \in Levels : k > fetch.to /\ Contains(k, b)}
     IN \/ /\ holders = {}
           /\ fetch' = [fetch EXCEPT !.at = N - 1, !.fresh = b \in memory]
           /\ UNCHANGED <<contents, fresh>>
        \/ \E source \in holders :
             /\ \A k \in holders : source <= k
             /\ fetch' = [fetch EXCEPT !.at = source - 1,
                                       !.dirty = HandedDirty(source, b),
                                       !.fresh = LineOf(source, b).fresh]
             /\ IF Exclusive(source) THEN Invalidate(source, b) ELSE UNCHANGED <<contents, fresh>>
  /\ pc' = "prefetch"
  /\ UNCHANGED <<memory, owed, req, work, snapshot>>

PrefetchFill ==
  /\ pc = "prefetch"
  /\ FillStep(TRUE)
  /\ UNCHANGED <<memory, owed, pc, req, snapshot>>

PrefetchDone ==
  /\ pc = "prefetch" /\ work = << >> /\ fetch.at < fetch.to
  /\ pc' = "observe"
  /\ req' = [req EXCEPT !.level = @ + 1]
  /\ fetch' = NoFetch
  /\ UNCHANGED <<contents, history, work, snapshot>>

FinishAccess ==
  /\ pc = "observe" /\ work = << >> /\ req.level > Deepest
  /\ Returned
  /\ UNCHANGED <<contents, history, work, snapshot>>

-----------------------------------------------------------------------------
(* Evictions and write-backs: the call at the head of `work'.              *)

\* The level a line evicted from level i goes to.
Below(i) == i + 1

\* Modified data goes to level i.
WriteDown(i, line) == IF line.dirty THEN <<WriteBack(i, line)>> ELSE << >>

\* What a write-through exclusive level i does not keep continues below it.
WriteOn(i, line) ==
  IF line.dirty /\ WriteThrough[i] THEN <<WriteBack(i + 1, line)>> ELSE << >>

\* _handle_eviction.  An exclusive level below takes the line, clean or dirty;
\* any other takes it only if it is dirty.  An inclusive level then
\* back-invalidates the block above.
HandleEviction ==
  /\ work # << >> /\ Head(work).op = "evict"
  /\ LET i == Head(work).level
         line == Head(work).line
         below == Below(i)
         rest == (IF Inclusive(i) THEN <<BackInvalidate(i, 0, line.block)>> ELSE << >>)
                 \o Tail(work)
     IN IF Exclusive(below)
        THEN Allocate(below, [line EXCEPT !.dirty = @ /\ ~WriteThrough[below], !.prefetched = FALSE],
                      buffer[below], WriteOn(below, line) \o rest)
        ELSE /\ work' = WriteDown(below, line) \o rest
             /\ UNCHANGED <<contents, fresh>>
  /\ UNCHANGED <<pc, req, fetch, snapshot, memory, owed>>

\* Mutant of NthAbove: the level nearest to the core is walked first.
TopFirst(i, nth) == nth

\* The levels above level i, the nearest one first.
NthAbove(i, nth) == i - 1 - nth

\* Mutants of NextAbove: only the level directly above is invalidated, or that one
\* again and again.
NearestOnly(i, nth, b) == << >>
NearestAgain(i, nth, b) == <<BackInvalidate(i, nth, b)>>

NextAbove(i, nth, b) == IF nth + 1 < i THEN <<BackInvalidate(i, nth + 1, b)>> ELSE << >>

\* Mutant of LosesCopy: the victim buffer is spared.
ArrayOnly(k, b) == b \in resident[k]

LosesCopy(k, b) == Contains(k, b)

\* One iteration of _back_invalidate.
BackInvalidateStep ==
  /\ work # << >> /\ Head(work).op = "backInvalidate"
  /\ LET i == Head(work).level
         nth == Head(work).nth
         b == Head(work).line.block
         k == NthAbove(i, nth)
         rest == NextAbove(i, nth, b) \o Tail(work)
     IN IF nth < i /\ LosesCopy(k, b)
        THEN /\ Invalidate(k, b)
             /\ work' = WriteDown(i + 1, LineOf(k, b)) \o rest
        ELSE /\ work' = rest
             /\ UNCHANGED <<contents, fresh>>
  /\ UNCHANGED <<pc, req, fetch, snapshot, memory, owed>>

\* One iteration of the loop of _write_back, or the DRAM write after it.
WriteBackStep ==
  /\ work # << >> /\ Head(work).op = "writeBack"
  /\ LET i == Head(work).level
         line == Head(work).line
         b == line.block
         onward == <<WriteBack(i + 1, line)>> \o Tail(work)
     IN \/ \* _write_to_memory
           /\ i = N
           /\ memory' = With(memory, b, line.fresh)
           /\ owed' = owed \ {b}
           /\ work' = Tail(work)
           /\ UNCHANGED <<contents, fresh>>
        \/ \* a write-through level updates its copy; the data continues
           /\ i < N /\ WriteThrough[i] /\ Contains(i, b)
           /\ SetDirty(i, b, LineOf(i, b).dirty, line.fresh)
           /\ work' = onward
           /\ UNCHANGED <<memory, owed>>
        \/ \* a write-through level installs a clean line
           /\ i < N /\ WriteThrough[i] /\ ~Contains(i, b) /\ WriteAllocate[i]
           /\ Allocate(i, [line EXCEPT !.dirty = FALSE], buffer[i], onward)
           /\ UNCHANGED <<memory, owed>>
        \/ \* nothing is installed; the data continues
           /\ i < N /\ ~Contains(i, b) /\ ~WriteAllocate[i]
           /\ work' = onward
           /\ UNCHANGED <<contents, history>>
        \/ \* a write-back level marks its copy dirty; the data stops here
           /\ i < N /\ ~WriteThrough[i] /\ Contains(i, b)
           /\ SetDirty(i, b, TRUE, line.fresh)
           /\ work' = Tail(work)
           /\ UNCHANGED <<memory, owed>>
        \/ \* a write-back level allocates the line dirty
           /\ i < N /\ ~WriteThrough[i] /\ ~Contains(i, b) /\ WriteAllocate[i]
           /\ Allocate(i, line, buffer[i], Tail(work))
           /\ UNCHANGED <<memory, owed>>
  /\ UNCHANGED <<pc, req, fetch, snapshot>>

-----------------------------------------------------------------------------
(* Hierarchy.flush: top-down, over a copy of each level's lines.           *)

\* Mutant of DirtyLines: clean lines of the array are listed too, and no buffered ones.
ArrayLines(i) == {[place |-> "array", block |-> b] : b \in resident[i]}

\* Cache.lines, dirty ones only.
DirtyLines(i) ==
  {[place |-> "array", block |-> b] : b \in dirty[i]}
  \cup {[place |-> "buffer", block |-> buffer[i][n].block] :
          n \in {m \in DOMAIN buffer[i] : buffer[i][m].dirty}}

\* Mutant of FlushLevel: the level nearest to memory is flushed first.
BottomUp(n) == N - 1 - n

\* The n-th level flushed.
FlushLevel(n) == n

BeginFlush ==
  /\ pc = "idle"
  /\ pc' = "flush"
  /\ snapshot' = DirtyLines(FlushLevel(0))
  /\ UNCHANGED <<contents, history, req, fetch, work>>

\* One line of the snapshot: cleaned if the level still holds it, and written
\* down.
FlushLine ==
  /\ pc = "flush" /\ work = << >>
  /\ \E entry \in snapshot :
       LET i == FlushLevel(req.level)
           b == entry.block
           held == Contains(i, b)
       IN /\ snapshot' = snapshot \ {entry}
          /\ IF held THEN SetDirty(i, b, FALSE, LineOf(i, b).fresh) ELSE UNCHANGED <<contents, fresh>>
          /\ work' = <<WriteBack(i + 1, [block |-> b, dirty |-> TRUE, prefetched |-> FALSE,
                                         fresh |-> held /\ LineOf(i, b).fresh])>>
  /\ UNCHANGED <<pc, req, fetch, memory, owed>>

FlushNextLevel ==
  /\ pc = "flush" /\ work = << >> /\ snapshot = {} /\ req.level < N - 1
  /\ req' = [req EXCEPT !.level = @ + 1]
  /\ snapshot' = DirtyLines(FlushLevel(req.level + 1))
  /\ UNCHANGED <<contents, history, pc, fetch, work>>

FinishFlush ==
  /\ pc = "flush" /\ work = << >> /\ snapshot = {} /\ req.level = N - 1
  /\ Returned
  /\ UNCHANGED <<contents, history, work, snapshot>>

-----------------------------------------------------------------------------
Step ==
  \/ ProbeHit \/ ProbeVictimHit \/ ProbeMiss \/ ReachMemory \/ Settle \/ MoveUp
  \/ Fill \/ Forward
  \/ Observe \/ Issue \/ PrefetchFill \/ PrefetchDone \/ FinishAccess
  \/ HandleEviction \/ BackInvalidateStep \/ WriteBackStep
  \/ FlushLine \/ FlushNextLevel \/ FinishFlush

Next ==
  \/ \E b \in Blocks, store \in BOOLEAN : BeginAccess(b, store)
  \/ BeginFlush
  \/ Step

Spec == Init /\ [][Next]_vars

\* A call, once made, is carried out.
FairSpec == Spec /\ WF_vars(Step)

-----------------------------------------------------------------------------
(* Correctness.                                                            *)

\* The type invariant: every variable holds what the code's lists, dictionaries
\* and locals can hold; flags belong to resident blocks.
TypeOK ==
  /\ resident \in [Levels -> SUBSET Blocks]
  /\ dirty \in [Levels -> SUBSET Blocks]
  /\ prefetched \in [Levels -> SUBSET Blocks]
  /\ buffer \in [Levels -> Seq(Line)]
  /\ pc \in {"idle", "probe", "settle", "move", "fill", "observe", "issue", "prefetch", "flush"}
  /\ req \in Request
  /\ fetch \in Fetch
  /\ work \in Seq(Task)
  /\ snapshot \subseteq [place : {"array", "buffer"}, block : Blocks]
  /\ fresh \in [Levels -> SUBSET Blocks]
  /\ \A i \in Levels : dirty[i] \cup prefetched[i] \cup fresh[i] \subseteq resident[i]
  /\ memory \subseteq Blocks
  /\ owed \subseteq Blocks

\* A dirty copy of b in a level, in its array or in its victim buffer.
DirtyIn(i, b) ==
  \/ b \in dirty[i]
  \/ \E n \in DOMAIN buffer[i] : buffer[i][n].block = b /\ buffer[i][n].dirty

\* Modified data of b on its way down.
InFlight(b) == \E n \in DOMAIN work : work[n].line.block = b /\ work[n].line.dirty

\* The access in progress will deliver modified data of b: a store that was
\* taken and is not filled yet, a duplicate still to be forwarded, or a dirty
\* line that is moving up.
InRequest(b) ==
  \/ /\ req.block = b
     /\ pc \in {"probe", "settle", "move", "fill"}
     /\ req.forward >= 0
  \/ /\ req.block = b
     /\ pc \in {"probe", "settle"}
     /\ req.taken >= 0 /\ ~WriteThrough[req.taken]
  \/ /\ fetch.block = b
     /\ pc \in {"move", "fill", "prefetch"}
     /\ fetch.dirty /\ fetch.at >= fetch.to

\* No exclusive level has a victim buffer.  HandleEviction allocates in an
\* exclusive level without looking into its buffer.
BareVictimLevels == \A i \in Levels : Exclusive(i) => Entries[i] = 0

\* An exclusive level takes no store and no write-back of its own, and the level
\* above it is one that the blocks it receives have left.
NeverAllocatesShared ==
  \A i \in Levels : Exclusive(i) =>
    /\ ~WriteAllocate[i]
    /\ Prefetcher[i] = "none"
    /\ i = 1 \/ Exclusive(i - 1) \/ ~WriteAllocate[i - 1]

\* No write-through level is above an exclusive write-back one.
NoDirtyMovesIntoWriteThrough ==
  \A i, k \in Levels : i < k /\ WriteThrough[i] => WriteThrough[k] \/ ~Exclusive(k)

\* "Dirty data is never duplicated and never dropped": a block that was stored
\* and has not been written to memory since is dirty in some level, or its data
\* is on the way, through every eviction, back-invalidation, move and write-back.
StoresConserved ==
  \A b \in owed : (\E i \in Levels : DirtyIn(i, b)) \/ InFlight(b) \/ InRequest(b)

\* A reference is served by the newest data: the level that hits, or memory when
\* all miss, holds what the last store to the block wrote.  This is what the
\* order of _back_invalidate ("the most recent is written down last and wins")
\* and the top-down order of flush are for.
ServedNewest == pc \in {"move", "fill"} => fetch.fresh

\* The newest data of a block is in memory, or in a copy whose dirty bit will
\* bring it there.
NewestKept ==
  pc = "idle" =>
    \A b \in Blocks \ memory :
      \E i \in Levels : \/ b \in dirty[i] /\ b \in fresh[i]
                        \/ \E n \in DOMAIN buffer[i] :
                             buffer[i][n].block = b /\ buffer[i][n].dirty /\ buffer[i][n].fresh

Held(i) == resident[i] \cup Buffered(i)

\* An inclusive level holds everything the levels above it hold (check_inclusion,
\* and the back-invalidation out of EVERY level above).
InclusionHolds ==
  pc = "idle" =>
    \A i \in Levels : Inclusive(i) => \A k \in 0 .. i - 1 : Held(k) \subseteq Held(i)

\* An exclusive level shares no block with the level above it (check_inclusion).
ExclusionHolds ==
  pc = "idle" => \A i \in Levels : Exclusive(i) => Held(i - 1) \cap Held(i) = {}

\* A write-through level never holds a dirty line.
WriteThroughClean ==
  pc = "idle" => \A i \in Levels : WriteThrough[i] => \A b \in Blocks : ~DirtyIn(i, b)

\* The copy of the lines that flush() walks stays current: a line it is about to
\* write down is still there and still dirty, although writing the lines before
\* it down may evict and back-invalidate.
SnapshotCurrent == pc = "flush" => \A entry \in snapshot : DirtyIn(FlushLevel(req.level), entry.block)

\* When flush() returns no level holds a dirty line, and memory has the newest
\* data of every block.
FlushWrites ==
  pc = "flush" /\ pc' = "idle" =>
    /\ \A i \in Levels, b \in Blocks : ~DirtyIn(i, b)
    /\ memory = Blocks /\ owed = {}

FlushWritesAll == [][FlushWrites]_vars

\* A victim-buffer hit frees the entry it needs, so the line it displaces never
\* leaves the level and take_pending_eviction() never has anything to return.
VictimHitDisplacesNothing == [][pc = "probe" => work' = << >>]_vars

\* A prefetched line that leaves a level with its flag set was never referenced
\* there: not by the access in progress either.
PrefetchedLeavesUnused ==
  \A n \in DOMAIN work :
    work[n].op = "evict" /\ work[n].line.prefetched /\ pc # "flush"
      => ~(work[n].line.block = req.block /\ work[n].level = req.hit)

\* The block a reference was for is in the level that was to have it once the
\* fills and the evictions they caused are done: none of them drops it again.
ReferencedBlockStays ==
  pc = "observe" /\ work = << >> /\ req.level = 0 /\ req.fillFrom < N
    => Contains(req.fillFrom, req.block)

\* Every access and every flush comes to an end.
CallsReturn == pc # "idle" ~> pc = "idle"
=============================================================================
