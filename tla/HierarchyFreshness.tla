-------------------------- MODULE HierarchyFreshness --------------------------
(***************************************************************************)
(* The newest data of a block is never lost and never overtaken, for every *)
(* number of levels, geometry and choice of policies under which no        *)
(* exclusive level holds a block twice.                                    *)
(*                                                                         *)
(*   ReadsServeNewest    a reference gets what the last store wrote;       *)
(*   NewestStaysDirty    newest data not in memory is in a dirty copy;     *)
(*   FlushLeavesNothing  a flush cleans every level, and memory then has   *)
(*                       the newest data of every block.                   *)
(*                                                                         *)
(* Copies of a block lie one below the other: level k's at height 2k + 1,  *)
(* the line of a call that will write to level k just above, at 2k, and    *)
(* memory's at the bottom, at 2N + 1.  The invariant is that a copy has    *)
(* the newest data unless modified data of its block is higher up          *)
(* (Covered): the copies from the top down to the first dirty one, or to   *)
(* memory, are all current.  A store miss fills the levels under the one   *)
(* that took the store with the data before it; the store is above them.   *)
(* Modified data must not overtake other copies on its way down.  So the   *)
(* calls on the stack are in the order of their heights, the lowest first, *)
(* and a back-invalidation, which carries a line past several levels, is   *)
(* the last call of the stack (Ordered) and finds no copy of its block in  *)
(* the levels it passes (PurgesClear).                                     *)
(***************************************************************************)
EXTENDS HierarchyPolicies, WellFoundedInduction

-----------------------------------------------------------------------------
(* The inductive invariant.                                                *)

FreshBlocks(lines) == {lines[n].block : n \in {m \in DOMAIN lines : lines[m].fresh}}

\* The blocks whose copy in level i has the newest data.
Newest(i) == fresh[i] \cup FreshBlocks(buffer[i])

Carries(t, b) == t.line.block = b /\ t.line.dirty

\* The calls of the stack write at greater or equal depth the sooner they run, and
\* only the last one to run may purge the levels above.
Descending(stack) ==
  \A m, n \in DOMAIN stack : m < n => Reaches(stack[n]) <= Reaches(stack[m]) /\ ~Purges(stack[m])

Ordered == Descending(work)

\* The lowest level that call t has still to take its block out of.
NextPurged(t) == IF t.op = "evict" THEN t.level - 1 ELSE NthAbove(t.level, t.nth)

\* From there down to the level that evicted the block, no level holds it.
PurgesClear ==
  \A t \in Calls(work) : Purges(t) =>
    /\ Inclusive(t.level)
    /\ \A j \in Levels : NextPurged(t) < j /\ j <= t.level => t.line.block \notin Held(j)

\* Above height p, the access in progress has modified data of b in its locals.
Pending(p, b) ==
  \/ /\ pc = "settle" /\ req.block = b
     /\ req.forward = req.hit + 1 /\ 2 * req.forward < p
  \/ /\ pc \in {"move", "fill"} /\ req.block = b
     /\ 0 <= req.forward /\ 2 * req.forward < p
  \/ /\ pc \in {"move", "fill", "prefetch"} /\ fetch.block = b
     /\ fetch.dirty /\ fetch.to <= fetch.at /\ 2 * fetch.to < p

\* There is modified data of b above height p.
Covered(p, b) ==
  \/ \E k \in Levels : 2 * k + 1 < p /\ b \in AtLevel(k)
  \/ \E t \in Calls(work) : Carries(t, b) /\ 2 * Reaches(t) < p
  \/ Pending(p, b)

CurrentLevels == \A i \in Levels : \A b \in Held(i) : Covered(2 * i + 1, b) \/ b \in Newest(i)

CurrentMemory == \A b \in Blocks : Covered(2 * N + 1, b) \/ b \in memory

CurrentCalls ==
  \A t \in Calls(work) :
    t.op # "backInvalidate" => Covered(2 * Reaches(t), t.line.block) \/ t.line.fresh

\* What is fetched is current, but for a prefetch below a level with modified data.
\* When a level took the store, the fill goes up to it, and the modified data is in
\* that fill or in the duplicate that follows: either is above the copies of the data
\* before the store that the levels in between are filled with.
CurrentFetch ==
  /\ pc \in {"move", "fill"} =>
       /\ fetch.fresh
       /\ fetch.keep >= 0 => /\ fetch.keep = fetch.to
                             /\ fetch.dirty \/ req.forward = fetch.to + 1
  /\ pc = "prefetch" /\ fetch.to <= fetch.at
       => fetch.fresh \/ \E k \in Levels : k < fetch.to /\ fetch.block \in AtLevel(k)

\* The levels a flush has passed are clean, and the level it is at but for the lines
\* listed.
Flushed ==
  pc = "flush" =>
    /\ \A k \in Levels : k < req.level => AtLevel(k) = {}
    /\ \A b \in AtLevel(req.level) : \E entry \in snapshot : entry.block = b

\* A hit ends with the block in the array.  A store taken by a write-through level
\* has its duplicate.
HitFacts ==
  /\ pc = "settle" /\ req.hit < N => req.block \in resident[req.hit]
  /\ pc \in {"probe", "settle"} /\ req.taken >= 0 /\ WriteThrough[req.taken] => req.forward >= 0

OrderInv == Ordered /\ PurgesClear /\ Missed /\ HitFacts /\ Flushed
CurrentInv == CurrentLevels /\ CurrentMemory /\ CurrentCalls /\ CurrentFetch

FreshInv == InclusionInv /\ OrderInv /\ CurrentInv

-----------------------------------------------------------------------------
(* Lemmas about buffers.                                                   *)

LEMMA WithoutFresh ==
  ASSUME NEW lines \in Seq(Line), Distinct(lines), NEW b
  PROVE  FreshBlocks(Without(lines, b)) = FreshBlocks(lines) \ {b}
<1>1. CASE \E n \in DOMAIN lines : lines[n].block = b
  <2> DEFINE m == CHOOSE n \in DOMAIN lines : lines[n].block = b
             new == Without(lines, b)
             old(k) == IF k < m THEN k ELSE k + 1
  <2>1. m \in 1 .. Len(lines) /\ lines[m].block = b
    BY <1>1
  <2>2. new = Ext!RemoveAt(lines, m)
    BY <1>1 DEF Without
  <2> HIDE DEF m, new
  <2>3. /\ DOMAIN new = 1 .. Len(lines) - 1
        /\ \A k \in DOMAIN new : new[k] = lines[old(k)] /\ old(k) \in DOMAIN lines /\ old(k) # m
    BY <2>1, <2>2, RemoveAtElements
  <2>4. \A n \in DOMAIN lines : n # m => \E k \in DOMAIN new : old(k) = n
    <3> SUFFICES ASSUME NEW n \in DOMAIN lines, n # m PROVE \E k \in DOMAIN new : old(k) = n
      OBVIOUS
    <3>1. CASE n < m
      <4>1. n \in DOMAIN new /\ old(n) = n
        BY <2>1, <2>3, <3>1
      <4> QED
        BY <4>1
    <3>2. CASE n > m
      <4>1. n - 1 \in DOMAIN new /\ old(n - 1) = n
        BY <2>1, <2>3, <3>2
      <4> QED
        BY <4>1
    <3> QED
      BY <2>1, <3>1, <3>2
  <2>5. \A n \in DOMAIN lines : lines[n].block = b => n = m
    BY <2>1 DEF Distinct
  <2> HIDE DEF old
  <2>6. FreshBlocks(new) = FreshBlocks(lines) \ {b}
    BY <2>1, <2>3, <2>4, <2>5 DEF FreshBlocks
  <2> QED
    BY <2>6 DEF new
<1>2. CASE ~ \E n \in DOMAIN lines : lines[n].block = b
  BY <1>2 DEF Without, FreshBlocks
<1> QED
  BY <1>1, <1>2

LEMMA PushedFresh ==
  ASSUME NEW lines \in Seq(Line), NEW line \in Line, line.block \notin BlocksOf(lines)
  PROVE  /\ FreshBlocks(lines) \subseteq FreshBlocks(Pushed(lines, line))
         /\ line.fresh => line.block \in FreshBlocks(Pushed(lines, line))
<1> DEFINE new == Append(lines, line)
<1>1. Pushed(lines, line) = new
  BY DEF Pushed, Without, BlocksOf
<1>2. /\ DOMAIN new = 1 .. Len(lines) + 1 /\ DOMAIN lines = 1 .. Len(lines)
      /\ \A n \in DOMAIN lines : new[n] = lines[n]
      /\ new[Len(lines) + 1] = line
  BY AppendProperties
<1> HIDE DEF new
<1>3. DOMAIN lines \subseteq DOMAIN new /\ Len(lines) + 1 \in DOMAIN new
  BY <1>2
<1>4. FreshBlocks(lines) \subseteq FreshBlocks(new) /\ (line.fresh => line.block \in FreshBlocks(new))
  BY <1>2, <1>3 DEF FreshBlocks
<1> QED
  BY <1>1, <1>4

LEMMA TailFresh ==
  ASSUME NEW lines \in Seq(Line), lines # << >>
  PROVE  \A b \in FreshBlocks(lines) :
           b \in FreshBlocks(Tail(lines)) \/ (Head(lines).fresh /\ Head(lines).block = b)
<1>1. /\ \A n \in DOMAIN lines : n = 1 \/ (n - 1 \in DOMAIN Tail(lines) /\ (n - 1) + 1 = n)
      /\ \A n \in DOMAIN Tail(lines) : Tail(lines)[n] = lines[n + 1]
      /\ Head(lines) = lines[1]
  BY HeadTailProperties
<1> SUFFICES ASSUME NEW b \in FreshBlocks(lines)
             PROVE  b \in FreshBlocks(Tail(lines)) \/ (Head(lines).fresh /\ Head(lines).block = b)
  OBVIOUS
<1>2. PICK n \in DOMAIN lines : lines[n].fresh /\ lines[n].block = b
  BY DEF FreshBlocks
<1>3. CASE n = 1
  BY <1>1, <1>2, <1>3
<1>4. CASE n # 1
  <2>1. n - 1 \in DOMAIN Tail(lines) /\ Tail(lines)[n - 1] = lines[n]
    BY <1>1, <1>4
  <2> QED
    BY <1>2, <2>1 DEF FreshBlocks
<1> QED
  BY <1>3, <1>4

LEMMA ReplacedFresh ==
  ASSUME NEW lines \in Seq(Line), NEW b, NEW line, b \in BlocksOf(lines) => line.block = b
  PROVE  /\ \A c \in FreshBlocks(lines) : c = b \/ c \in FreshBlocks(Replaced(lines, b, line))
         /\ b \in BlocksOf(lines) /\ line.fresh => b \in FreshBlocks(Replaced(lines, b, line))
<1> DEFINE new == Replaced(lines, b, line)
<1>1. /\ DOMAIN new = DOMAIN lines
      /\ \A n \in DOMAIN lines : new[n] = IF lines[n].block = b THEN line ELSE lines[n]
  BY DEF Replaced
<1>2. \A n \in DOMAIN lines : lines[n].block = b => line.block = b
  BY DEF BlocksOf
<1> HIDE DEF new
<1>3. \A c \in FreshBlocks(lines) : c = b \/ c \in FreshBlocks(new)
  BY <1>1 DEF FreshBlocks
<1>4. b \in BlocksOf(lines) /\ line.fresh => b \in FreshBlocks(new)
  BY <1>1, <1>2 DEF FreshBlocks, BlocksOf
<1> QED
  BY <1>3, <1>4 DEF new

\* With one entry per block, the entry found is the one that is current.
LEMMA FreshEntry ==
  ASSUME NEW i \in Levels, Distinct(buffer[i]), NEW b \in BlocksOf(buffer[i])
  PROVE  BufferedLine(i, b).fresh <=> b \in FreshBlocks(buffer[i])
<1> DEFINE m == CHOOSE n \in DOMAIN buffer[i] : buffer[i][n].block = b
<1>1. m \in DOMAIN buffer[i] /\ buffer[i][m].block = b
  BY DEF BlocksOf
<1>2. BufferedLine(i, b) = buffer[i][m]
  BY DEF BufferedLine
<1> HIDE DEF m
<1>3. \A n \in DOMAIN buffer[i] : buffer[i][n].block = b => n = m
  BY <1>1 DEF Distinct
<1> QED
  BY <1>1, <1>2, <1>3 DEF FreshBlocks

\* The one copy of a block in a level.
LEMMA LineFlags ==
  ASSUME LevelsOK, SingleCopy, NEW i \in Levels, NEW b \in Blocks, b \in Held(i)
  PROVE  /\ Contains(i, b) /\ LineOf(i, b) \in Line /\ LineOf(i, b).block = b
         /\ LineOf(i, b).dirty <=> b \in AtLevel(i)
         /\ LineOf(i, b).fresh <=> b \in Newest(i)
<1>1. Contains(i, b)
  BY DEF Held, Contains
<1>2. LineOf(i, b) \in Line /\ LineOf(i, b).block = b
  BY <1>1, LineOfType
<1>3. /\ dirty[i] \cup fresh[i] \subseteq resident[i]
      /\ DirtyBlocks(buffer[i]) \cup FreshBlocks(buffer[i]) \subseteq BlocksOf(buffer[i])
      /\ resident[i] \cap BlocksOf(buffer[i]) = {} /\ Distinct(buffer[i])
  BY DEF LevelsOK, SingleCopy, DirtyBlocks, FreshBlocks, BlocksOf
<1>4. CASE b \in resident[i]
  <2>1. LineOf(i, b).dirty = (b \in dirty[i]) /\ LineOf(i, b).fresh = (b \in fresh[i])
    BY <1>4 DEF LineOf, ArrayLine
  <2> QED
    BY <1>1, <1>2, <1>3, <1>4, <2>1 DEF AtLevel, Newest
<1>5. CASE b \notin resident[i]
  <2>1. b \in BlocksOf(buffer[i]) /\ LineOf(i, b) = BufferedLine(i, b)
    BY <1>5 DEF LineOf, Held, Buffered, BlocksOf
  <2>2. /\ LineOf(i, b).dirty <=> b \in DirtyBlocks(buffer[i])
        /\ LineOf(i, b).fresh <=> b \in FreshBlocks(buffer[i])
    BY <1>3, <2>1, DirtyEntry, FreshEntry
  <2> QED
    BY <1>1, <1>2, <1>3, <1>5, <2>2 DEF AtLevel, Newest
<1> QED
  BY <1>4, <1>5

-----------------------------------------------------------------------------
(* What the primitives of Cache do to the copies of a level.               *)

OnlyFresh(i) == \A k \in Levels \ {i} : fresh'[k] = fresh[k]

\* Line out leaves level i, where it was dirty or current if its block is in D or F.
Expels(i, out, D, F, rest) ==
  /\ work' = <<Evict(i, out)>> \o rest
  /\ out.block \in D => out.dirty
  /\ out.block \in F => out.fresh
  /\ out.block \notin Held(i)'

\* Level i, which held the blocks H, of which those in D were dirty and those in F
\* current, takes block b, and no other copy changes unless it leaves the level.
Takes(i, b, H, D, F, rest) ==
  /\ b \in Held(i)'
  /\ \A c \in Held(i)' : c = b \/ (/\ c \in H
                                   /\ c \in D => c \in AtLevel(i)'
                                   /\ c \in F => c \in Newest(i)')
  /\ \/ work' = rest /\ H \subseteq Held(i)'
     \/ \E out \in Line : /\ out.block \in H \ {b} /\ H \subseteq Held(i)' \cup {out.block}
                          /\ Expels(i, out, D, F, rest)

\* Cache.allocate.
LEMMA AllocateTakes ==
  ASSUME LevelsOK, NEW i \in Levels, NEW line \in Line, NEW lines \in Seq(Line),
         NEW rest \in Seq(Task), Distinct(lines), resident[i] \cap BlocksOf(lines) = {},
         line.block \notin BlocksOf(lines), Allocate(i, line, lines, rest)
  PROVE  /\ OnlyLevel(i) /\ OnlyFresh(i)
         /\ line.dirty \/ line.block \in dirty[i] => line.block \in AtLevel(i)'
         /\ line.fresh => line.block \in Newest(i)'
         /\ Takes(i, line.block, resident[i] \cup BlocksOf(lines), dirty[i] \cup DirtyBlocks(lines),
                  fresh[i] \cup FreshBlocks(lines), rest)
<1> DEFINE b == line.block
           H == resident[i] \cup BlocksOf(lines)
           D == dirty[i] \cup DirtyBlocks(lines)
           F == fresh[i] \cup FreshBlocks(lines)
           flags == /\ OnlyFresh(i)
                    /\ line.dirty \/ b \in dirty[i] => b \in AtLevel(i)'
                    /\ line.fresh => b \in Newest(i)'
                    /\ Takes(i, b, H, D, F, rest)
<1>0. OnlyLevel(i)
  BY AllocateKeeps
<1>a. /\ dirty[i] \subseteq resident[i] /\ fresh[i] \subseteq resident[i]
      /\ DirtyBlocks(lines) \subseteq BlocksOf(lines) /\ FreshBlocks(lines) \subseteq BlocksOf(lines)
  BY DEF LevelsOK, DirtyBlocks, FreshBlocks, BlocksOf
<1>1. ASSUME b \in resident[i],
             dirty' = [dirty EXCEPT ![i] = IF line.dirty THEN @ \cup {b} ELSE @],
             fresh' = [fresh EXCEPT ![i] = With(@, b, line.fresh)],
             buffer' = [buffer EXCEPT ![i] = lines],
             work' = rest,
             UNCHANGED resident
      PROVE  flags
  <2>1. OnlyFresh(i)
    BY <1>1 DEF OnlyFresh, LevelsOK
  <2>2. /\ resident'[i] = resident[i] /\ buffer'[i] = lines
        /\ dirty[i] \subseteq dirty'[i] /\ (line.dirty => b \in dirty'[i])
        /\ fresh'[i] = With(fresh[i], b, line.fresh)
    BY <1>1 DEF LevelsOK
  <2>3. Held(i)' = H
    BY <2>2, HeldIs
  <2>4. D \subseteq AtLevel(i)' /\ \A c \in F : c = b \/ c \in Newest(i)'
    BY <2>2 DEF AtLevel, Newest, With
  <2>5. line.fresh => b \in Newest(i)'
    BY <2>2 DEF Newest, With
  <2>6. line.dirty \/ b \in dirty[i] => b \in AtLevel(i)'
    BY <2>2 DEF AtLevel
  <2> HIDE DEF H, D, F
  <2>7. b \in H
    BY <1>1 DEF H
  <2> QED
    BY <1>1, <2>1, <2>3, <2>4, <2>5, <2>6, <2>7 DEF Takes
<1>2. ASSUME NEW out, out \subseteq resident[i], b \notin resident[i], Place(i, line, out)
      PROVE  /\ OnlyFresh(i)
             /\ resident'[i] = (resident[i] \ out) \cup {b}
             /\ \A c \in dirty[i] : c \in out \/ c \in dirty'[i]
             /\ \A c \in fresh[i] : c \in out \/ c \in fresh'[i]
             /\ line.dirty => b \in AtLevel(i)'
             /\ line.fresh => b \in Newest(i)'
             /\ b \notin dirty[i] /\ b \notin fresh[i]
  <2>1. OnlyFresh(i)
    BY <1>2 DEF OnlyFresh, LevelsOK, Place
  <2>2. /\ resident'[i] = (resident[i] \ out) \cup {b}
        /\ dirty'[i] = With(dirty[i] \ out, b, line.dirty)
        /\ fresh'[i] = With(fresh[i] \ out, b, line.fresh)
    BY <1>2 DEF LevelsOK, Place
  <2>3. b \notin dirty[i] /\ b \notin fresh[i]
    BY <1>2, <1>a
  <2> HIDE DEF b
  <2>4. /\ \A c \in dirty[i] : c \in out \/ c \in dirty'[i]
        /\ \A c \in fresh[i] : c \in out \/ c \in fresh'[i]
        /\ line.dirty => b \in dirty'[i]
        /\ line.fresh => b \in fresh'[i]
    BY <2>2, <2>3 DEF With
  <2> QED
    BY <2>1, <2>2, <2>3, <2>4 DEF AtLevel, Newest
<1>3. ASSUME b \notin resident[i], Place(i, line, {}),
             buffer' = [buffer EXCEPT ![i] = lines], work' = rest
      PROVE  flags
  <2>0. {} \subseteq resident[i]
    OBVIOUS
  <2>1. /\ OnlyFresh(i)
        /\ resident'[i] = resident[i] \cup {b} /\ buffer'[i] = lines
        /\ dirty[i] \subseteq dirty'[i] /\ fresh[i] \subseteq fresh'[i]
        /\ line.dirty => b \in AtLevel(i)'
        /\ line.fresh => b \in Newest(i)'
        /\ b \notin dirty[i]
    BY <1>2, <1>3, <2>0 DEF LevelsOK
  <2>2. Held(i)' = H \cup {b}
    BY <2>1, HeldIs
  <2>3. D \subseteq AtLevel(i)' /\ F \subseteq Newest(i)'
    BY <2>1 DEF AtLevel, Newest
  <2> HIDE DEF b, H, D, F
  <2> QED
    BY <1>3, <2>1, <2>2, <2>3 DEF Takes
<1>4. ASSUME NEW victim \in SetMates(i, b), b \notin resident[i], Place(i, line, {victim}),
             IF Entries[i] = 0
             THEN buffer' = [buffer EXCEPT ![i] = lines] /\ work' = <<Evict(i, ArrayLine(i, victim))>> \o rest
             ELSE IF Len(Pushed(lines, ArrayLine(i, victim))) <= Entries[i]
             THEN buffer' = [buffer EXCEPT ![i] = Pushed(lines, ArrayLine(i, victim))] /\ work' = rest
             ELSE /\ buffer' = [buffer EXCEPT ![i] = Tail(Pushed(lines, ArrayLine(i, victim)))]
                  /\ work' = <<Evict(i, Head(Pushed(lines, ArrayLine(i, victim))))>> \o rest
      PROVE  flags
  <2> DEFINE out == ArrayLine(i, victim)
             pushed == Pushed(lines, out)
  <2>0. victim \in resident[i] /\ victim \in Blocks /\ victim # b /\ victim \notin BlocksOf(lines)
    BY <1>4 DEF SetMates, LevelsOK
  <2>1. /\ OnlyFresh(i)
        /\ resident'[i] = (resident[i] \ {victim}) \cup {b}
        /\ \A c \in dirty[i] : c = victim \/ c \in dirty'[i]
        /\ \A c \in fresh[i] : c = victim \/ c \in fresh'[i]
        /\ line.dirty => b \in AtLevel(i)'
        /\ line.fresh => b \in Newest(i)'
        /\ b \notin dirty[i]
    <3>1. {victim} \subseteq resident[i]
      BY <2>0
    <3> QED
      BY <1>2, <1>4, <3>1
  <2>2. out \in Line /\ out.block = victim /\ out.dirty = (victim \in dirty[i]) /\ out.fresh = (victim \in fresh[i])
    BY <2>0 DEF ArrayLine, Line
  <2>3. /\ BlocksOf(pushed) = BlocksOf(lines) \cup {victim} /\ Distinct(pushed)
        /\ DirtyBlocks(lines) \subseteq DirtyBlocks(pushed) /\ FreshBlocks(lines) \subseteq FreshBlocks(pushed)
        /\ victim \in dirty[i] => victim \in DirtyBlocks(pushed)
        /\ victim \in fresh[i] => victim \in FreshBlocks(pushed)
        /\ pushed \in Seq(Line) /\ pushed # << >>
    BY <2>0, <2>2, PushedBlocks, PushedFresh, PushedType
  <2> HIDE DEF out, pushed
  <2>4. CASE Entries[i] = 0
    <3>1. buffer'[i] = lines /\ work' = <<Evict(i, out)>> \o rest
      BY <1>4, <2>4 DEF out, LevelsOK
    <3>2. Held(i)' = (H \ {victim}) \cup {b}
      <4>1. Held(i)' = (resident[i] \ {victim}) \cup {b} \cup BlocksOf(lines)
        BY <2>1, <3>1, HeldIs
      <4> QED
        BY <2>0, <4>1
    <3>3. /\ \A c \in D : c = victim \/ c \in AtLevel(i)'
          /\ \A c \in F : c = victim \/ c \in Newest(i)'
      BY <2>1, <3>1 DEF AtLevel, Newest
    <3>4. (victim \in D => out.dirty) /\ (victim \in F => out.fresh)
      BY <1>a, <2>0, <2>2
    <3>5. victim \in H
      BY <2>0
    <3> HIDE DEF b, H, D, F
    <3>6. Expels(i, out, D, F, rest)
      BY <2>0, <2>2, <3>1, <3>2, <3>4 DEF Expels
    <3>7. Takes(i, b, H, D, F, rest)
      BY <2>0, <2>2, <3>2, <3>3, <3>5, <3>6 DEF Takes
    <3> QED
      BY <2>1, <3>7
  <2>5. CASE Entries[i] # 0 /\ Len(pushed) <= Entries[i]
    <3>1. buffer'[i] = pushed /\ work' = rest
      BY <1>4, <2>5 DEF out, pushed, LevelsOK
    <3>2. Held(i)' = H \cup {b}
      <4>1. Held(i)' = (resident[i] \ {victim}) \cup {b} \cup (BlocksOf(lines) \cup {victim})
        BY <2>1, <2>3, <3>1, HeldIs
      <4> QED
        BY <2>0, <4>1
    <3>3. D \subseteq AtLevel(i)' /\ F \subseteq Newest(i)'
      BY <2>1, <2>3, <3>1 DEF AtLevel, Newest
    <3> HIDE DEF b, H, D, F
    <3> QED
      BY <2>1, <3>1, <3>2, <3>3 DEF Takes
  <2>6. CASE Entries[i] # 0 /\ ~(Len(pushed) <= Entries[i])
    <3> DEFINE gone == Head(pushed)
    <3>1. buffer'[i] = Tail(pushed) /\ work' = <<Evict(i, gone)>> \o rest
      BY <1>4, <2>6 DEF out, pushed, LevelsOK
    <3>2. /\ gone \in Line /\ BlocksOf(pushed) = {gone.block} \cup BlocksOf(Tail(pushed))
          /\ gone.block \notin BlocksOf(Tail(pushed))
          /\ \A c \in DirtyBlocks(pushed) : c \in DirtyBlocks(Tail(pushed)) \/ (gone.dirty /\ gone.block = c)
          /\ \A c \in FreshBlocks(pushed) : c \in FreshBlocks(Tail(pushed)) \/ (gone.fresh /\ gone.block = c)
          /\ DirtyBlocks(Tail(pushed)) \cup FreshBlocks(Tail(pushed)) \subseteq BlocksOf(Tail(pushed))
      <4>1. gone \in Line /\ Tail(pushed) \in Seq(Line)
        BY <2>3, HeadTailProperties
      <4>2. DirtyBlocks(Tail(pushed)) \cup FreshBlocks(Tail(pushed)) \subseteq BlocksOf(Tail(pushed))
        BY DEF DirtyBlocks, FreshBlocks, BlocksOf
      <4> QED
        BY <2>3, <4>1, <4>2, BlocksPop, HeadLeaves, TailBlocks, TailFresh
    <3> HIDE DEF gone
    <3>3. Held(i)' = (resident[i] \ {victim}) \cup {b} \cup BlocksOf(Tail(pushed))
      BY <2>1, <3>1, HeldIs
    <3>4. /\ gone.block \in H \ {b} /\ gone.block \notin Held(i)'
          /\ H \subseteq Held(i)' \cup {gone.block} /\ Held(i)' \subseteq H \cup {b} /\ b \in Held(i)'
      BY <2>0, <2>3, <3>2, <3>3
    <3>5. /\ \A c \in D : c \in AtLevel(i)' \/ (gone.dirty /\ gone.block = c)
          /\ \A c \in F : c \in Newest(i)' \/ (gone.fresh /\ gone.block = c)
      BY <2>1, <2>3, <3>1, <3>2 DEF AtLevel, Newest
    <3>6. /\ AtLevel(i)' \subseteq Held(i)' /\ Newest(i)' \subseteq Held(i)'
      <4>1. dirty'[i] \subseteq resident'[i] /\ fresh'[i] \subseteq resident'[i]
        BY <1>4, <1>a, <2>0 DEF Place, LevelsOK, With
      <4>2. Held(i)' = resident'[i] \cup BlocksOf(buffer'[i])
        BY HeldIs
      <4>3. DirtyBlocks(buffer'[i]) \cup FreshBlocks(buffer'[i]) \subseteq BlocksOf(buffer'[i])
        BY <3>1, <3>2
      <4> QED
        BY <4>1, <4>2, <4>3 DEF AtLevel, Newest
    <3> HIDE DEF b, H, D, F
    <3>7. Expels(i, gone, D, F, rest)
      BY <3>1, <3>4, <3>5, <3>6 DEF Expels
    <3>8. Takes(i, b, H, D, F, rest)
      BY <3>2, <3>4, <3>5, <3>7 DEF Takes
    <3> QED
      BY <2>1, <3>8
  <2> QED
    BY <2>4, <2>5, <2>6
<1>5. flags
  BY <1>1, <1>3, <1>4 DEF Allocate
<1> QED
  BY <1>0, <1>5

SameCopies(k) == Held(k)' = Held(k) /\ AtLevel(k)' = AtLevel(k) /\ Newest(k)' = Newest(k)

\* The copy of block c that level k has stays; it may become dirty or current.
CopyStays(k, c) ==
  /\ c \in AtLevel(k) => c \in AtLevel(k)'
  /\ c \in Newest(k) => c \in Newest(k)'

LEMMA OthersSame ==
  ASSUME NEW i \in Levels, OnlyLevel(i), OnlyFresh(i)
  PROVE  \A k \in Levels : k # i => SameCopies(k)
<1> SUFFICES ASSUME NEW k \in Levels, k # i PROVE SameCopies(k)
  OBVIOUS
<1>1. resident'[k] = resident[k] /\ dirty'[k] = dirty[k] /\ buffer'[k] = buffer[k] /\ fresh'[k] = fresh[k]
  BY DEF OnlyLevel, OnlyFresh
<1> QED
  BY <1>1, HeldIs DEF SameCopies, AtLevel, Newest

LEMMA ContentsSame ==
  ASSUME UNCHANGED <<contents, fresh>>
  PROVE  \A k : SameCopies(k)
  BY HeldIs DEF contents, SameCopies, AtLevel, Newest

\* Cache.invalidate.
LEMMA InvalidateDrops ==
  ASSUME LevelsOK, SingleCopy, NEW i \in Levels, NEW b \in Blocks, Contains(i, b), Invalidate(i, b)
  PROVE  /\ \A k \in Levels : k # i => SameCopies(k)
         /\ Held(i)' = Held(i) \ {b} /\ \A c : c # b => CopyStays(i, c)
<1>1. Held(i)' = Held(i) \ {b}
  BY InvalidateHolds
<1>2. OnlyLevel(i)
  BY InvalidateKeeps DEF SingleCopy, OneCopyAt
<1>3. CASE b \in resident[i]
  <2>1. /\ dirty' = [dirty EXCEPT ![i] = dirty[i] \ {b}] /\ fresh' = [fresh EXCEPT ![i] = fresh[i] \ {b}]
        /\ buffer' = buffer
    BY <1>3 DEF Invalidate
  <2>2. OnlyFresh(i) /\ dirty'[i] = dirty[i] \ {b} /\ fresh'[i] = fresh[i] \ {b} /\ buffer'[i] = buffer[i]
    BY <2>1 DEF OnlyFresh, LevelsOK
  <2>3. \A c : c # b => CopyStays(i, c)
    BY <2>2 DEF CopyStays, AtLevel, Newest
  <2> QED
    BY <1>1, <1>2, <2>2, <2>3, OthersSame
<1>4. CASE b \notin resident[i]
  <2>1. buffer' = [buffer EXCEPT ![i] = Without(buffer[i], b)] /\ dirty' = dirty /\ fresh' = fresh
    BY <1>4 DEF Invalidate
  <2>2. buffer[i] \in Seq(Line) /\ Distinct(buffer[i]) /\ buffer'[i] = Without(buffer[i], b)
    BY <2>1 DEF LevelsOK, SingleCopy
  <2>3. /\ DirtyBlocks(buffer'[i]) = DirtyBlocks(buffer[i]) \ {b}
        /\ FreshBlocks(buffer'[i]) = FreshBlocks(buffer[i]) \ {b}
    BY <2>2, WithoutBlocks, WithoutFresh
  <2>4. OnlyFresh(i) /\ \A c : c # b => CopyStays(i, c)
    BY <2>1, <2>3 DEF OnlyFresh, CopyStays, AtLevel, Newest
  <2> QED
    BY <1>1, <1>2, <2>4, OthersSame
<1> QED
  BY <1>3, <1>4

\* Cache.mark_dirty and Cache.clean.
LEMMA SetDirtyMarks ==
  ASSUME LevelsOK, SingleCopy, NEW i \in Levels, NEW b \in Blocks, Contains(i, b),
         NEW mark \in BOOLEAN, NEW current \in BOOLEAN, SetDirty(i, b, mark, current)
  PROVE  /\ \A k \in Levels : k # i => SameCopies(k)
         /\ Held(i)' = Held(i) /\ \A c : c # b => CopyStays(i, c)
         /\ mark => b \in AtLevel(i)'
         /\ current => b \in Newest(i)'
<1>1. Held(i)' = Held(i)
  BY SetDirtyHolds
<1>2. /\ OnlyLevel(i)
      /\ \A c \in AtLevel(i) : c = b \/ c \in AtLevel(i)'
      /\ mark => b \in AtLevel(i)'
  BY SetDirtyKeeps DEF SingleCopy, OneCopyAt
<1>3. CASE b \in resident[i]
  <2>1. fresh' = [fresh EXCEPT ![i] = With(fresh[i], b, current)] /\ buffer' = buffer
    BY <1>3 DEF SetDirty
  <2>2. OnlyFresh(i) /\ fresh'[i] = With(fresh[i], b, current) /\ buffer'[i] = buffer[i]
    BY <2>1 DEF OnlyFresh, LevelsOK
  <2>3. /\ \A c \in Newest(i) : c = b \/ c \in Newest(i)'
        /\ current => b \in Newest(i)'
    BY <2>2 DEF Newest, With
  <2> QED
    BY <1>1, <1>2, <2>2, <2>3, OthersSame DEF CopyStays
<1>4. CASE b \notin resident[i]
  <2> DEFINE line == [BufferedLine(i, b) EXCEPT !.dirty = mark, !.fresh = current]
  <2>1. buffer' = [buffer EXCEPT ![i] = Replaced(buffer[i], b, line)] /\ fresh' = fresh
    BY <1>4 DEF SetDirty
  <2>2. b \in Buffered(i) /\ b \in BlocksOf(buffer[i])
    BY <1>4 DEF Contains, Buffered, BlocksOf
  <2>3. line.block = b /\ line.fresh = current
    BY <2>2, BufferedLineType DEF Line
  <2> HIDE DEF line
  <2>4. buffer'[i] = Replaced(buffer[i], b, line) /\ buffer[i] \in Seq(Line)
    BY <2>1 DEF LevelsOK
  <2>5. /\ \A c \in FreshBlocks(buffer[i]) : c = b \/ c \in FreshBlocks(buffer'[i])
        /\ current => b \in FreshBlocks(buffer'[i])
    BY <2>2, <2>3, <2>4, ReplacedFresh
  <2>6. OnlyFresh(i) /\ fresh'[i] = fresh[i]
    BY <2>1 DEF OnlyFresh
  <2>7. /\ \A c \in Newest(i) : c = b \/ c \in Newest(i)'
        /\ current => b \in Newest(i)'
    BY <2>5, <2>6 DEF Newest
  <2> QED
    BY <1>1, <1>2, <2>6, <2>7, OthersSame DEF CopyStays
<1> QED
  BY <1>3, <1>4

-----------------------------------------------------------------------------
(* A step that writes a block.                                             *)

\* Modified data of b is in a call that will write to level j.
CallAt(b, j) == \E t \in Calls(work) : Carries(t, b) /\ Reaches(t) = j

\* The step writes block b to level r, or to memory: modified if d, the newest data
\* if f.  What the level evicts for it is in a call, modified if it was.
Writes(b, r, d, f) ==
  /\ \A k \in Levels : k # r => SameCopies(k)
  /\ r \in Levels =>
       /\ b \in AtLevel(r) => b \in AtLevel(r)'
       /\ \A c \in Held(r)' : c # b => c \in Held(r) /\ CopyStays(r, c)
       /\ \A c \in AtLevel(r) : c \in Held(r)' \/ CallAt(c, r + 1)'
       /\ b \in Held(r)' => \/ f => b \in Newest(r)'
                            \/ /\ b \in Held(r) /\ CopyStays(r, b)
                               /\ d => CallAt(b, r)'
  /\ \A c \in memory : c \in memory' \/ (c = b /\ r = N /\ ~f)
  /\ d => \/ CallAt(b, r)'
          \/ r \in Levels /\ (b \in AtLevel(r)' \/ CallAt(b, r + 1)')
          \/ r = N /\ (f => b \in memory')

\* It carries out a call that reaches level r, none that is left reaches deeper, and
\* it makes calls about b, and about what level r evicts.
WritesCalls(b, r, d, f) ==
  /\ \A u \in Calls(work) :
       /\ Reaches(u) <= r
       /\ u \in Calls(work') \/ (Reaches(u) = r /\ (u.line.dirty => u.line.block = b /\ d))
  /\ \A u \in Calls(work') : u.op # "backInvalidate" =>
       \/ u \in Calls(work)
       \/ u.line.block = b /\ Reaches(u) >= r /\ (f => u.line.fresh)
       \/ /\ r \in Levels /\ Reaches(u) = r + 1 /\ u.line.block \in Held(r) \ {b}
          /\ u.line.block \in Newest(r) => u.line.fresh

\* Modified data in the locals stays there, but for the line that is written.
PendingStays(b, r, d) ==
  \A p \in Int : \A c : Pending(p, c) => Pending(p, c)' \/ (c = b /\ d /\ 2 * r < p)

\* What is above one height is above the next.
CoveredBelow == \A p, q \in Int : \A b : p <= q /\ Covered(p, b) => Covered(q, b)

LEMMA CoveredDown == TypeInv => CoveredBelow
<1> SUFFICES ASSUME TypeInv, NEW p \in Int, NEW q \in Int, NEW b, p <= q, Covered(p, b)
             PROVE  Covered(q, b)
  BY DEF CoveredBelow
<1>1. /\ \A t \in Calls(work) : Reaches(t) \in Int
      /\ req.forward \in Int /\ fetch.to \in Int
  <2>1. work \in Seq(Task) /\ req \in Request /\ fetch \in Fetch
    BY DEF TypeInv, StackOK, LocalsOK
  <2>2. \A t \in Calls(work) : t \in Task
    BY <2>1 DEF Calls
  <2> QED
    BY <2>1, <2>2, TaskFields, NAssumption DEF Request, Fetch
<1>2. CASE \E k \in Levels : 2 * k + 1 < p /\ b \in AtLevel(k)
  BY <1>2 DEF Covered, Levels
<1>3. CASE \E t \in Calls(work) : Carries(t, b) /\ 2 * Reaches(t) < p
  BY <1>1, <1>3 DEF Covered
<1>4. CASE Pending(p, b)
  BY <1>1, <1>4 DEF Covered, Pending
<1> QED
  BY <1>2, <1>3, <1>4 DEF Covered

LEMMA CoveredDownNext == TypeInv' => CoveredBelow'
  BY CoveredDown, PTL

LEMMA IntegerFields ==
  ASSUME TypeInv
  PROVE  /\ work \in Seq(Task) /\ \A t \in Calls(work) : t \in Task /\ Reaches(t) \in Int
         /\ req \in Request /\ fetch \in Fetch
         /\ req.forward \in 0 .. N \cup {-1} /\ req.hit \in 0 .. N /\ req.level \in 0 .. N
         /\ req.taken \in Levels \cup {-1} /\ req.fillFrom \in 0 .. N
         /\ fetch.to \in 0 .. N /\ fetch.at \in Levels \cup {-1}
<1>1. work \in Seq(Task) /\ req \in Request /\ fetch \in Fetch
  BY DEF TypeInv, StackOK, LocalsOK
<1>2. \A t \in Calls(work) : t \in Task
  BY <1>1 DEF Calls
<1> QED
  BY <1>1, <1>2, TaskFields DEF Request, Fetch

\* What is written is older data that modified data covers, and no call is made of it.
WritesOlder(b, r, d) ==
  /\ r \in Levels /\ ~d /\ Covered(2 * r + 1, b)
  /\ \A u \in Calls(work') : u.line.block # b

LEMMA WrittenCurrent ==
  ASSUME TypeInv, TypeInv', CurrentLevels, CurrentMemory, CurrentCalls,
         NEW b, NEW r \in 0 .. N, NEW d \in BOOLEAN, NEW f \in BOOLEAN,
         Writes(b, r, d, f), WritesCalls(b, r, d, f), PendingStays(b, r, d),
         Covered(2 * r, b) \/ f \/ WritesOlder(b, r, d)
  PROVE  CurrentLevels' /\ CurrentMemory' /\ CurrentCalls'
<1>a. r \in Int /\ N \in Int /\ (r \in Levels <=> r < N) /\ \A k \in Levels : k \in Int /\ k < N /\ 0 <= k
  BY NAssumption DEF Levels
<1>b. \A u \in Calls(work) : Reaches(u) \in Int
  BY IntegerFields
<1>c. \A p, q \in Int : \A c : p <= q /\ Covered(p, c)' => Covered(q, c)'
  BY CoveredDownNext DEF CoveredBelow
<1>d. \A k \in Levels : k # r => Held(k)' = Held(k) /\ AtLevel(k)' = AtLevel(k) /\ Newest(k)' = Newest(k)
  BY DEF Writes, SameCopies
\* A call at height 2 * j covers what is below it.
<1>e. ASSUME NEW c, NEW j \in Int, CallAt(c, j)', NEW p \in Int, 2 * j < p
      PROVE  Covered(p, c)'
  BY <1>e DEF CallAt, Covered
\* The same for the dirty copies of a level.
<1>f. ASSUME NEW c, NEW k \in Levels, c \in AtLevel(k)', NEW p \in Int, 2 * k + 1 < p
      PROVE  Covered(p, c)'
  BY <1>f DEF Covered
<1>1. ASSUME NEW p \in Int, NEW c, p <= 2 * r, Covered(p, c)
      PROVE  Covered(p, c)'
  <2>1. CASE \E k \in Levels : 2 * k + 1 < p /\ c \in AtLevel(k)
    BY <1>1, <1>a, <1>d, <1>f, <2>1
  <2>2. CASE \E u \in Calls(work) : Carries(u, c) /\ 2 * Reaches(u) < p
    <3>1. PICK u \in Calls(work) : Carries(u, c) /\ 2 * Reaches(u) < p
      BY <2>2
    <3>2. u \in Calls(work')
      BY <1>1, <1>a, <1>b, <3>1 DEF WritesCalls
    <3> QED
      BY <3>1, <3>2 DEF Covered
  <2>3. CASE Pending(p, c)
    BY <1>1, <1>a, <2>3 DEF PendingStays, Covered
  <2> QED
    BY <1>1, <2>1, <2>2, <2>3 DEF Covered
<1>2. ASSUME NEW p \in Int, p # 2 * r + 2, NEW c, c # b, Covered(p, c)
      PROVE  Covered(p, c)'
  <2>1. ASSUME NEW k \in Levels, 2 * k + 1 < p, c \in AtLevel(k)
        PROVE  Covered(p, c)'
    <3>1. CASE k # r
      BY <1>d, <1>f, <2>1, <3>1
    <3>2. CASE k = r
      <4>1. c \in AtLevel(r)' \/ CallAt(c, r + 1)'
        BY <1>2, <2>1, <3>2 DEF Writes, CopyStays
      <4>2. 2 * (r + 1) < p /\ r + 1 \in Int
        BY <1>2, <1>a, <2>1, <3>2
      <4> QED
        BY <1>e, <1>f, <2>1, <3>2, <4>1, <4>2
    <3> QED
      BY <3>1, <3>2
  <2>2. CASE \E u \in Calls(work) : Carries(u, c) /\ 2 * Reaches(u) < p
    <3>1. PICK u \in Calls(work) : Carries(u, c) /\ 2 * Reaches(u) < p
      BY <2>2
    <3>2. u \in Calls(work')
      BY <1>2, <3>1 DEF WritesCalls, Carries
    <3> QED
      BY <3>1, <3>2 DEF Covered
  <2>3. CASE Pending(p, c)
    BY <1>2, <2>3 DEF PendingStays, Covered
  <2> QED
    BY <1>2, <2>1, <2>2, <2>3 DEF Covered
\* Where the line itself was modified.
<1>3. ASSUME NEW p \in Int, Covered(p, b), ~Covered(p, b)'
      PROVE  d /\ 2 * r < p
  <2>1. ASSUME NEW k \in Levels, 2 * k + 1 < p, b \in AtLevel(k)
        PROVE  FALSE
    <3>1. b \in AtLevel(k)'
      BY <1>d, <2>1 DEF Writes
    <3> QED
      BY <1>3, <1>f, <2>1, <3>1
  <2>2. CASE \E u \in Calls(work) : Carries(u, b) /\ 2 * Reaches(u) < p
    <3>1. PICK u \in Calls(work) : Carries(u, b) /\ 2 * Reaches(u) < p
      BY <2>2
    <3>2. u \notin Calls(work')
      BY <1>3, <3>1 DEF Covered
    <3> QED
      BY <3>1, <3>2 DEF WritesCalls, Carries
  <2>3. CASE Pending(p, b)
    <3>1. ~Pending(p, b)'
      BY <1>3 DEF Covered
    <3> QED
      BY <2>3, <3>1 DEF PendingStays
  <2> QED
    BY <1>3, <2>1, <2>2, <2>3 DEF Covered
<1>4. ASSUME NEW p \in Int, p >= 2 * r + 3, r \in Levels, Covered(p, b)
      PROVE  Covered(p, b)'
  <2>1. d => CallAt(b, r)' \/ b \in AtLevel(r)' \/ CallAt(b, r + 1)'
    BY <1>4, <1>a DEF Writes
  <2>2. 2 * r < p /\ 2 * r + 1 < p /\ 2 * (r + 1) < p /\ r + 1 \in Int
    BY <1>4, <1>a
  <2>3. d => Covered(p, b)'
    BY <1>4, <1>a, <1>e, <1>f, <2>1, <2>2
  <2> QED
    BY <1>3, <1>4, <2>3
<1>5. ASSUME ~d \/ CallAt(b, r)', Covered(2 * r + 1, b)
      PROVE  Covered(2 * r + 1, b)'
  <2>1. 2 * r + 1 \in Int /\ 2 * r < 2 * r + 1
    BY <1>a
  <2> QED
    BY <1>3, <1>5, <1>a, <1>e, <2>1
\* The line is current where it is written, or covered there.
<1>6. /\ f \/ \A p \in Int : 2 * r + 1 <= p => Covered(p, b)'
      /\ \/ f \/ \A p \in Int : 2 * r <= p => Covered(p, b)'
         \/ \A u \in Calls(work') : u.line.block # b
  <2>1. 2 * r \in Int /\ 2 * r <= 2 * r /\ 2 * r + 1 \in Int /\ 2 * r <= 2 * r + 1
    BY <1>a
  <2>2. CASE Covered(2 * r, b)
    <3>1. Covered(2 * r, b)'
      BY <1>1, <2>1, <2>2
    <3>2. \A p \in Int : 2 * r <= p => Covered(p, b)'
      BY <1>c, <2>1, <3>1
    <3>3. \A p \in Int : 2 * r + 1 <= p => 2 * r <= p
      BY <1>a
    <3> QED
      BY <3>2, <3>3
  <2>3. CASE WritesOlder(b, r, d)
    <3>1. Covered(2 * r + 1, b)'
      BY <1>5, <2>3 DEF WritesOlder
    <3> QED
      BY <1>c, <2>1, <2>3, <3>1 DEF WritesOlder
  <2>4. CASE f
    BY <2>4
  <2> QED
    BY <2>2, <2>3, <2>4
<1>7. CurrentLevels'
  <2> SUFFICES ASSUME NEW k \in Levels, NEW c \in Held(k)'
               PROVE  Covered(2 * k + 1, c)' \/ c \in Newest(k)'
    BY DEF CurrentLevels
  <2>0. 2 * k + 1 \in Int
    BY <1>a
  <2>1. CASE c # b
    <3>1. c \in Held(k) /\ (c \in Newest(k) => c \in Newest(k)')
      <4>1. CASE k = r
        BY <2>1, <4>1 DEF Writes, CopyStays
      <4> QED
        BY <1>d, <4>1
    <3>2. Covered(2 * k + 1, c) \/ c \in Newest(k)
      BY <3>1 DEF CurrentLevels
    <3>3. 2 * k + 1 # 2 * r + 2
      BY <1>a
    <3> QED
      BY <1>2, <2>0, <2>1, <3>1, <3>2, <3>3
  <2>2. CASE c = b /\ k # r
    <3>1. Covered(2 * k + 1, b) \/ b \in Newest(k)
      BY <1>d, <2>2 DEF CurrentLevels
    <3>2. b \in Newest(k) => b \in Newest(k)'
      BY <1>d, <2>2
    <3>3. CASE k < r
      <4>1. 2 * k + 1 <= 2 * r
        BY <1>a, <3>3
      <4> QED
        BY <1>1, <2>0, <2>2, <3>1, <3>2, <4>1
    <3>4. CASE k > r
      <4>1. 2 * k + 1 >= 2 * r + 3 /\ r \in Levels
        BY <1>a, <3>4
      <4> QED
        BY <1>4, <2>0, <2>2, <3>1, <3>2, <4>1
    <3> QED
      BY <1>a, <2>2, <3>3, <3>4
  <2>3. CASE c = b /\ k = r
    <3>1. 2 * r + 1 <= 2 * k + 1
      BY <1>a, <2>3
    <3>2. CASE f => b \in Newest(r)'
      BY <1>6, <2>0, <2>3, <3>1, <3>2
    <3>3. CASE b \in Held(r) /\ CopyStays(r, b) /\ (d => CallAt(b, r)')
      <4>1. Covered(2 * r + 1, b) \/ b \in Newest(r)
        BY <2>3, <3>3 DEF CurrentLevels
      <4> QED
        BY <1>5, <2>3, <3>3, <4>1 DEF CopyStays
    <3> QED
      BY <2>3, <3>2, <3>3 DEF Writes
  <2> QED
    BY <2>1, <2>2, <2>3
<1>8. CurrentMemory'
  <2> SUFFICES ASSUME NEW c \in Blocks PROVE Covered(2 * N + 1, c)' \/ c \in memory'
    BY DEF CurrentMemory
  <2>0. 2 * N + 1 \in Int /\ 2 * N + 1 # 2 * r + 2 /\ 2 * r + 1 <= 2 * N + 1
    BY <1>a
  <2>1. Covered(2 * N + 1, c) \/ c \in memory
    BY DEF CurrentMemory
  <2>2. CASE c # b
    BY <1>2, <2>0, <2>1, <2>2 DEF Writes
  <2>3. CASE c = b /\ r # N
    <3>1. r \in Levels /\ 2 * N + 1 >= 2 * r + 3
      BY <1>a, <2>3
    <3> QED
      BY <1>4, <2>0, <2>1, <2>3, <3>1 DEF Writes
  <2>4. CASE c = b /\ r = N
    <3>1. CASE ~d \/ CallAt(b, r)'
      BY <1>5, <1>6, <2>0, <2>1, <2>4, <3>1 DEF Writes
    <3>2. CASE d /\ ~CallAt(b, r)'
      <4>1. f => b \in memory'
        BY <1>a, <2>4, <3>2 DEF Writes
      <4> QED
        BY <1>6, <2>0, <2>4, <4>1
    <3> QED
      BY <3>1, <3>2
  <2> QED
    BY <2>2, <2>3, <2>4
<1>9. CurrentCalls'
  <2> SUFFICES ASSUME NEW u \in Calls(work'), u.op # "backInvalidate"
               PROVE  Covered(2 * Reaches(u), u.line.block)' \/ u.line.fresh
    BY DEF CurrentCalls
  <2>0. Reaches(u) \in Int /\ 2 * Reaches(u) \in Int
    <3>1. u \in Task
      BY DEF TypeInv, StackOK, Calls
    <3> QED
      BY <3>1, TaskFields
  <2>1. CASE u \in Calls(work)
    <3>1. Covered(2 * Reaches(u), u.line.block) \/ u.line.fresh
      BY <2>1 DEF CurrentCalls
    <3>2. 2 * Reaches(u) <= 2 * r
      <4>1. Reaches(u) <= r
        BY <2>1 DEF WritesCalls
      <4> QED
        BY <1>a, <2>0, <4>1
    <3> QED
      BY <1>1, <2>0, <3>1, <3>2
  <2>2. CASE u.line.block = b /\ Reaches(u) >= r /\ (f => u.line.fresh)
    <3>1. 2 * r <= 2 * Reaches(u)
      BY <1>a, <2>0, <2>2
    <3> QED
      BY <1>6, <2>0, <2>2, <3>1
  <2>3. CASE /\ r \in Levels /\ Reaches(u) = r + 1 /\ u.line.block \in Held(r) \ {b}
             /\ u.line.block \in Newest(r) => u.line.fresh
    <3>1. Covered(2 * r + 1, u.line.block) \/ u.line.block \in Newest(r)
      BY <2>3 DEF CurrentLevels
    <3>2. 2 * r + 1 \in Int /\ 2 * r + 1 # 2 * r + 2 /\ 2 * r + 1 <= 2 * Reaches(u)
      BY <1>a, <2>3
    <3>3. Covered(2 * r + 1, u.line.block) => Covered(2 * r + 1, u.line.block)'
      BY <1>2, <2>3, <3>2
    <3> QED
      BY <1>c, <2>0, <2>3, <3>1, <3>2, <3>3
  <2> QED
    BY <2>1, <2>2, <2>3 DEF WritesCalls
<1> QED
  BY <1>7, <1>8, <1>9

-----------------------------------------------------------------------------
(* The order of the calls.                                                 *)

LEMMA DescendingPush ==
  ASSUME NEW t \in Task, NEW rest \in Seq(Task), Descending(rest),
         \A u \in Calls(rest) : Reaches(u) <= Reaches(t), Purges(t) => rest = << >>
  PROVE  Descending(<<t>> \o rest)
<1> DEFINE new == <<t>> \o rest
<1>1. /\ DOMAIN new = 1 .. Len(rest) + 1 /\ DOMAIN rest = 1 .. Len(rest) /\ Len(rest) \in Nat
      /\ new[1] = t
      /\ \A n \in DOMAIN rest : new[n + 1] = rest[n]
  OBVIOUS
<1> HIDE DEF new
<1>2. \A n \in DOMAIN new : n # 1 => /\ n - 1 \in DOMAIN rest /\ new[n] = rest[n - 1]
                                     /\ rest[n - 1] \in Calls(rest)
  <2> SUFFICES ASSUME NEW n \in DOMAIN new, n # 1
               PROVE  n - 1 \in DOMAIN rest /\ new[n] = rest[n - 1] /\ rest[n - 1] \in Calls(rest)
    OBVIOUS
  <2>1. n - 1 \in DOMAIN rest /\ (n - 1) + 1 = n
    BY <1>1
  <2> QED
    BY <1>1, <2>1 DEF Calls
<1>3. Descending(new)
  <2> SUFFICES ASSUME NEW m \in DOMAIN new, NEW n \in DOMAIN new, m < n
               PROVE  Reaches(new[n]) <= Reaches(new[m]) /\ ~Purges(new[m])
    BY DEF Descending
  <2>1. n # 1 /\ rest # << >>
    BY <1>1
  <2>2. CASE m = 1
    BY <1>1, <1>2, <2>1, <2>2
  <2>3. CASE m # 1
    <3>1. m - 1 < n - 1
      BY <1>1
    <3> QED
      BY <1>2, <2>1, <2>3, <3>1 DEF Descending
  <2> QED
    BY <2>2, <2>3
<1> QED
  BY <1>3 DEF new

LEMMA DescendingPop ==
  ASSUME NEW stack \in Seq(Task), stack # << >>, Descending(stack)
  PROVE  /\ Descending(Tail(stack))
         /\ \A u \in Calls(Tail(stack)) : Reaches(u) <= Reaches(Head(stack))
         /\ Purges(Head(stack)) => Tail(stack) = << >>
<1> DEFINE rest == Tail(stack)
<1>1. /\ DOMAIN rest = 1 .. Len(stack) - 1 /\ 1 \in DOMAIN stack /\ Head(stack) = stack[1]
      /\ \A n \in DOMAIN rest : rest[n] = stack[n + 1] /\ n + 1 \in DOMAIN stack /\ 1 < n + 1 /\ n \in Int
      /\ rest \in Seq(Task)
  BY HeadTailProperties
<1> HIDE DEF rest
<1>2. Descending(rest)
  <2> SUFFICES ASSUME NEW m \in DOMAIN rest, NEW n \in DOMAIN rest, m < n
               PROVE  Reaches(rest[n]) <= Reaches(rest[m]) /\ ~Purges(rest[m])
    BY DEF Descending
  <2>1. m + 1 < n + 1
    BY <1>1
  <2> QED
    BY <1>1, <2>1 DEF Descending
<1>3. \A n \in DOMAIN rest : Reaches(rest[n]) <= Reaches(Head(stack)) /\ ~Purges(Head(stack))
  BY <1>1 DEF Descending
<1>4. rest # << >> => 1 \in DOMAIN rest
  BY <1>1
<1>5. \A u \in Calls(rest) : Reaches(u) <= Reaches(Head(stack))
  BY <1>3 DEF Calls
<1> QED
  BY <1>2, <1>3, <1>4, <1>5 DEF rest

LEMMA DescendingNone == Descending(<< >>)
  BY DEF Descending

LEMMA OnlyCall ==
  ASSUME NEW t \in Task
  PROVE  Calls(<<t>>) = {t} /\ Descending(<<t>>) /\ <<t>> \in Seq(Task)
<1>1. DOMAIN <<t>> = {1} /\ <<t>>[1] = t /\ <<t>> \in Seq(Task)
  OBVIOUS
<1> QED
  BY <1>1 DEF Calls, Descending

LEMMA WriteBackFields ==
  ASSUME NEW i \in 0 .. N, NEW line \in Line
  PROVE  LET t == WriteBack(i, line)
         IN  /\ t \in Task /\ ~Purges(t) /\ t.op = "writeBack" /\ t.level = i /\ Reaches(t) = i
             /\ Carries(t, line.block) /\ t.line.block = line.block /\ t.line.fresh = line.fresh
<1> DEFINE t == WriteBack(i, line)
<1>1. t \in Task
  BY CallType
<1>2. t.op = "writeBack" /\ t.level = i /\ t.line = [line EXCEPT !.dirty = TRUE, !.prefetched = FALSE]
  BY DEF WriteBack, Call
<1> HIDE DEF t
<1>3. t.line.block = line.block /\ t.line.dirty /\ t.line.fresh = line.fresh
  BY <1>2 DEF Line
<1> QED
  BY <1>1, <1>2, <1>3 DEF t, Reaches, Purges, Carries

LEMMA LevelFlagsHeld ==
  ASSUME LevelsOK
  PROVE  \A i \in Levels : AtLevel(i) \subseteq Held(i) /\ Newest(i) \subseteq Held(i)
<1> SUFFICES ASSUME NEW i \in Levels
             PROVE  AtLevel(i) \subseteq Held(i) /\ Newest(i) \subseteq Held(i)
  OBVIOUS
<1>1. dirty[i] \subseteq resident[i] /\ fresh[i] \subseteq resident[i]
  BY DEF LevelsOK
<1>2. DirtyBlocks(buffer[i]) \cup FreshBlocks(buffer[i]) \subseteq BlocksOf(buffer[i])
  BY DEF DirtyBlocks, FreshBlocks, BlocksOf
<1> QED
  BY <1>1, <1>2, HeldIs DEF AtLevel, Newest

\* Beside the calls `rest' there may be the eviction of a line that left level i.
AddsEvict(i, b, rest) ==
  /\ Calls(rest) \subseteq Calls(work')
  /\ \A u \in Calls(work') :
       \/ u \in Calls(rest)
       \/ /\ u.op = "evict" /\ u.level = i /\ Reaches(u) = i + 1
          /\ u.line.block \in Held(i) \ {b} /\ u.line.block \notin Held(i)'
          /\ u.line.block \in Newest(i) => u.line.fresh

LEMMA TakesWrites ==
  ASSUME LevelsOK, NEW i \in Levels, NEW b, NEW d \in BOOLEAN, NEW f \in BOOLEAN, NEW rest \in Seq(Task),
         OnlyLevel(i), OnlyFresh(i), Takes(i, b, Held(i), AtLevel(i), Newest(i), rest),
         b \in AtLevel(i) => b \in AtLevel(i)', f => b \in Newest(i)', memory' = memory,
         d => b \in AtLevel(i)' \/ \E u \in Calls(rest) : Carries(u, b) /\ Reaches(u) = i + 1,
         Descending(rest), \A u \in Calls(rest) : Reaches(u) <= i + 1, Inclusive(i) => rest = << >>
  PROVE  Writes(b, i, d, f) /\ AddsEvict(i, b, rest) /\ Ordered'
<1>1. /\ AddsEvict(i, b, rest) /\ Ordered'
      /\ \A c \in AtLevel(i) : c \in Held(i)' \/ CallAt(c, i + 1)'
  <2>1. CASE work' = rest /\ Held(i) \subseteq Held(i)'
    BY <2>1, LevelFlagsHeld DEF AddsEvict, Ordered
  <2>2. ASSUME NEW out \in Line, out.block \in Held(i) \ {b}, Held(i) \subseteq Held(i)' \cup {out.block},
               Expels(i, out, AtLevel(i), Newest(i), rest)
        PROVE  /\ AddsEvict(i, b, rest) /\ Ordered'
               /\ \A c \in AtLevel(i) : c \in Held(i)' \/ CallAt(c, i + 1)'
    <3> PICK e \in Task : e = Evict(i, out)
      BY CallType
    <3>1. e.op = "evict" /\ e.level = i /\ e.line = out /\ Reaches(e) = i + 1
      BY CallFields DEF Reaches
    <3>2. work' = <<e>> \o rest /\ Calls(work') = {e} \cup Calls(rest)
      BY <2>2, CallsPush DEF Expels
    <3>3. AddsEvict(i, b, rest)
      BY <2>2, <3>1, <3>2 DEF AddsEvict, Expels
    <3>4. Ordered'
      <4>1. Purges(e) => rest = << >>
        BY <3>1 DEF Purges
      <4> QED
        BY <3>1, <3>2, <4>1, DescendingPush DEF Ordered
    <3>5. \A c \in AtLevel(i) : c \in Held(i)' \/ CallAt(c, i + 1)'
      <4> SUFFICES ASSUME NEW c \in AtLevel(i), c \notin Held(i)' PROVE CallAt(c, i + 1)'
        OBVIOUS
      <4>1. c = out.block
        BY <2>2, LevelFlagsHeld
      <4> QED
        BY <2>2, <3>1, <3>2, <4>1 DEF CallAt, Carries, Expels
    <3> QED
      BY <3>3, <3>4, <3>5
  <2> QED
    BY <2>1, <2>2 DEF Takes
<1>2. \A k \in Levels : k # i => SameCopies(k)
  BY OthersSame
<1>3. \A c \in Held(i)' : c # b => c \in Held(i) /\ CopyStays(i, c)
  BY DEF Takes, CopyStays
<1>4. d => b \in AtLevel(i)' \/ CallAt(b, i + 1)'
  BY <1>1 DEF AddsEvict, CallAt
<1> QED
  BY <1>1, <1>2, <1>3, <1>4 DEF Writes

-----------------------------------------------------------------------------
(* Evictions and write-backs.                                              *)

\* What a call that writes below the level last filled leaves alone.
LEMMA DownwardOrder ==
  ASSUME TypeInv, FreshInv, work # << >>, UNCHANGED <<pc, req, fetch, snapshot>>,
         NEW t \in Task, t = Head(work), NEW r \in 0 .. N, r = Reaches(t),
         \A k \in Levels : k # r => SameCopies(k),
         \A u \in Calls(work') : Purges(u) =>
           \/ u \in Calls(work)
           \/ /\ Purges(t) /\ u.level = t.level /\ u.line.block = t.line.block
              /\ NextPurged(u) = NextPurged(t)
  PROVE  PurgesClear' /\ Missed' /\ HitFacts' /\ Flushed' /\ CurrentFetch'
<1> USE DEF FreshInv, OrderInv, CurrentInv, InclusionInv, StackInv
<1>0. t \in Calls(work) /\ fetch.at \in Levels \cup {-1} /\ fetch.to \in 0 .. N /\ req.level \in 0 .. N
  BY CallsPop, IntegerFields DEF TypeInv, StackOK
<1>1. /\ pc \in {"fill", "prefetch"} => r > fetch.at + 1
      /\ pc = "flush" => r > req.level
  BY <1>0 DEF CallsBelow
<1>2. pc \notin {"idle", "probe", "settle", "move", "issue"}
  BY DEF TypeInv, StackOK
<1>3. \A u \in Calls(work) : Purges(u) => /\ pc \in {"fill", "prefetch"} /\ u.level < r
                                          /\ u.level \in Int
  <2> SUFFICES ASSUME NEW u \in Calls(work), Purges(u)
               PROVE  pc \in {"fill", "prefetch"} /\ u.level < r /\ u.level \in Int
    OBVIOUS
  <2>1. pc \in {"fill", "prefetch"} /\ u.level <= fetch.at + 1
    BY DEF PurgesAbove
  <2>2. u.level \in Int
    <3>1. u \in Task
      BY IntegerFields
    <3> QED
      BY <3>1, TaskFields
  <2> QED
    BY <1>0, <1>1, <2>1, <2>2 DEF Levels
<1>4. PurgesClear'
  <2>1. ASSUME NEW u \in Calls(work), Purges(u), NEW j \in Levels, NextPurged(u) < j, j <= u.level
        PROVE  Inclusive(u.level) /\ u.line.block \notin Held(j)'
    <3>1. Inclusive(u.level) /\ u.line.block \notin Held(j)
      BY <2>1 DEF PurgesClear
    <3>2. j # r
      BY <1>3, <2>1 DEF Levels
    <3> QED
      BY <3>1, <3>2 DEF SameCopies
  <2>2. \A u \in Calls(work) : Purges(u) => Inclusive(u.level)
    BY DEF PurgesClear
  <2> SUFFICES ASSUME NEW u \in Calls(work'), Purges(u)
               PROVE  /\ Inclusive(u.level)
                      /\ \A j \in Levels : NextPurged(u) < j /\ j <= u.level => u.line.block \notin Held(j)'
    BY DEF PurgesClear
  <2>3. CASE u \in Calls(work)
    BY <2>1, <2>2, <2>3
  <2>4. CASE Purges(t) /\ u.level = t.level /\ u.line.block = t.line.block /\ NextPurged(u) = NextPurged(t)
    BY <1>0, <2>1, <2>2, <2>4
  <2> QED
    BY <2>3, <2>4
<1>5. Missed' /\ HitFacts'
  BY <1>2 DEF Missed, HitFacts
<1>6. Flushed'
  <2> SUFFICES ASSUME pc = "flush"
               PROVE  /\ \A k \in Levels : k < req.level => AtLevel(k)' = {}
                      /\ \A b \in AtLevel(req.level)' : \E entry \in snapshot : entry.block = b
    BY DEF Flushed
  <2>1. req.level \in Levels
    BY DEF TypeInv, LocalsOK
  <2>2. \A k \in Levels : k <= req.level => AtLevel(k)' = AtLevel(k)
    BY <1>1, <2>1 DEF SameCopies, Levels
  <2> QED
    BY <2>1, <2>2 DEF Flushed, Levels
<1>7. CurrentFetch'
  <2>1. ASSUME NEW k \in Levels, pc = "prefetch", fetch.to <= fetch.at, k < fetch.to
        PROVE  AtLevel(k)' = AtLevel(k)
    BY <1>0, <1>1, <2>1 DEF SameCopies, Levels
  <2> QED
    BY <2>1 DEF CurrentFetch
<1> QED
  BY <1>4, <1>5, <1>6, <1>7

\* A call that writes its block to the level it reaches.
LEMMA DownwardCurrent ==
  ASSUME TypeInv, TypeInv', FreshInv, work # << >>, UNCHANGED <<pc, req, fetch, snapshot>>,
         NEW t \in Task, t = Head(work), t.op # "backInvalidate", NEW r \in 0 .. N, r = Reaches(t),
         NEW b, b = t.line.block, Writes(b, r, t.line.dirty, t.line.fresh),
         Calls(Tail(work)) \subseteq Calls(work'),
         \A u \in Calls(work') : u.op # "backInvalidate" =>
           \/ u \in Calls(Tail(work))
           \/ u.line.block = b /\ Reaches(u) >= r /\ (t.line.fresh => u.line.fresh)
           \/ /\ r \in Levels /\ Reaches(u) = r + 1 /\ u.line.block \in Held(r) \ {b}
              /\ u.line.block \in Newest(r) => u.line.fresh
  PROVE  CurrentLevels' /\ CurrentMemory' /\ CurrentCalls'
<1> USE DEF FreshInv, OrderInv, CurrentInv
<1>1. /\ work \in Seq(Task) /\ t \in Calls(work) /\ Calls(work) = {t} \cup Calls(Tail(work))
      /\ t.line.dirty \in BOOLEAN /\ t.line.fresh \in BOOLEAN
  <2>1. work \in Seq(Task)
    BY DEF TypeInv, StackOK
  <2>2. t.line \in Line
    BY TaskFields
  <2> QED
    BY <2>1, <2>2, CallsPop DEF Line
<1>2. \A u \in Calls(Tail(work)) : Reaches(u) <= r
  BY <1>1, DescendingPop DEF Ordered
<1>3. WritesCalls(b, r, t.line.dirty, t.line.fresh)
  BY <1>1, <1>2 DEF WritesCalls
<1>4. PendingStays(b, r, t.line.dirty)
  BY DEF PendingStays, Pending
<1>5. Covered(2 * r, b) \/ t.line.fresh
  BY <1>1 DEF CurrentCalls
<1> QED
  BY <1>1, <1>3, <1>4, <1>5, WrittenCurrent

\* Call u goes on with what call t, which purges, began.
Resumes(u, t) ==
  /\ u.op = "backInvalidate" /\ Purges(t) /\ u.level = t.level /\ u.line.block = t.line.block
  /\ NextPurged(u) = NextPurged(t)

\* The calls an eviction leaves after the one that places the line.
LEMMA AfterEvictOrder ==
  ASSUME TypeInv, Ordered, work # << >>, NEW t \in Task, t = Head(work), t.op = "evict",
         NEW i \in Levels, i = t.level, NEW b \in Blocks, b = t.line.block
  PROVE  /\ AfterEvict(i, b) \in Seq(Task) /\ Descending(AfterEvict(i, b))
         /\ Calls(Tail(work)) \subseteq Calls(AfterEvict(i, b))
         /\ \A u \in Calls(AfterEvict(i, b)) :
              Reaches(u) <= i + 1 /\ (u \in Calls(Tail(work)) \/ Resumes(u, t))
<1> DEFINE rest == Tail(work)
           new == AfterEvict(i, b)
<1>1. /\ rest \in Seq(Task) /\ Descending(rest) /\ Reaches(t) = i + 1
      /\ \A u \in Calls(rest) : Reaches(u) <= i + 1
      /\ Purges(t) => rest = << >>
  <2>1. work \in Seq(Task) /\ rest \in Seq(Task) /\ Reaches(t) = i + 1
    BY HeadType DEF TypeInv, StackOK, Reaches
  <2> QED
    BY <2>1, DescendingPop DEF Ordered
<1>3. new = (IF Inclusive(i) THEN <<BackInvalidate(i, 0, b)>> ELSE << >>) \o rest
  BY DEF AfterEvict
<1> HIDE DEF rest, new
<1>2. /\ new \in Seq(Task)
      /\ Calls(new) = (IF Inclusive(i) THEN {BackInvalidate(i, 0, b)} ELSE {}) \cup Calls(rest)
  BY <1>1, <1>3, CallsBackInvalidate
<1>4. CASE Inclusive(i)
  <2>0. BackInvalidate(i, 0, b) \in Task
    BY NAssumption DEF BackInvalidate, Call, Task, Line
  <2> PICK u \in Task : u = BackInvalidate(i, 0, b)
    BY <2>0
  <2>1. u.op = "backInvalidate" /\ u.level = i /\ u.nth = 0 /\ u.line.block = b
    BY BackInvalidateFields
  <2>2. Purges(t) /\ Reaches(u) = i + 1 /\ NextPurged(u) = i - 1 /\ NextPurged(t) = i - 1
    <3>1. NthAbove(i, 0) = i - 1
      BY DEF NthAbove, Levels
    <3> QED
      BY <1>4, <2>1, <3>1 DEF Purges, Reaches, NextPurged
  <2>3. Calls(rest) = {} /\ new = <<u>> \o rest /\ Calls(new) = {u}
    BY <1>1, <1>2, <1>3, <1>4, <2>2, CallsOfNone
  <2>4. Descending(new)
    BY <1>1, <2>2, <2>3, DescendingPush
  <2>5. Resumes(u, t) /\ Reaches(u) <= i + 1
    BY <2>1, <2>2 DEF Resumes, Levels
  <2> QED
    BY <1>2, <2>3, <2>4, <2>5 DEF rest, new
<1>5. CASE ~Inclusive(i)
  <2>1. new = rest
    BY <1>1, <1>3, <1>5, ConcatEmptySeq
  <2> QED
    BY <1>1, <2>1 DEF rest, new
<1> QED
  BY <1>4, <1>5

\* A write-back that is called, or not, before the rest.
LEMMA WriteBackFirst ==
  ASSUME NEW i \in 0 .. N, NEW line \in Line, NEW rest \in Seq(Task), Descending(rest),
         \A u \in Calls(rest) : Reaches(u) <= i
  PROVE  /\ <<WriteBack(i, line)>> \o rest \in Seq(Task) /\ Descending(<<WriteBack(i, line)>> \o rest)
         /\ Calls(<<WriteBack(i, line)>> \o rest) = {WriteBack(i, line)} \cup Calls(rest)
<1> PICK t \in Task : t = WriteBack(i, line)
  BY CallType
<1>1. ~Purges(t) /\ Reaches(t) = i
  BY WriteBackFields
<1> QED
  BY <1>1, StackType, CallsPush, DescendingPush

LEMMA HandleEvictionFresh ==
  ASSUME TypeInv, TypeInv', FreshInv, EvictsAbsent, HandleEviction
  PROVE  OrderInv' /\ CurrentInv'
<1> USE DEF FreshInv
<1>a. /\ work # << >> /\ Head(work).op = "evict" /\ UNCHANGED <<pc, req, fetch, snapshot>>
      /\ memory' = memory
  BY DEF HandleEviction
<1> PICK t \in Task : t = Head(work)
  BY <1>a, HeadType
<1> PICK i \in Levels, line \in Line, b \in Blocks : i = t.level /\ line = t.line /\ b = line.block
  BY <1>a, HeadType DEF Line
<1> PICK j \in 0 .. N : j = i + 1
  BY NAssumption DEF Levels
<1>0. /\ LevelsOK /\ SingleCopy /\ Reaches(t) = j /\ Below(i) = j
      /\ line.dirty \in BOOLEAN /\ line.fresh \in BOOLEAN
  BY <1>a DEF TypeInv, InclusionInv, ConservationInv, LinesInv, Reaches, Below, Line
<1> PICK rest \in Seq(Task) :
      /\ rest = AfterEvict(i, b) /\ Descending(rest) /\ Calls(Tail(work)) \subseteq Calls(rest)
      /\ \A u \in Calls(rest) : Reaches(u) <= j /\ (u \in Calls(Tail(work)) \/ Resumes(u, t))
  BY <1>a, AfterEvictOrder DEF OrderInv
<1>1. \A k \in 0 .. N :
        /\ WriteBack(k, line).line.block = b /\ WriteBack(k, line).line.fresh = line.fresh
        /\ Reaches(WriteBack(k, line)) = k /\ ~Purges(WriteBack(k, line))
        /\ Carries(WriteBack(k, line), b) /\ WriteBack(k, line).op = "writeBack"
  BY WriteBackFields
<1>2. Calls(Tail(work)) \subseteq Calls(work)
  BY <1>a, CallsPop DEF TypeInv, StackOK
\* Either way the line is written to the level below.
<1>3. ASSUME Writes(b, j, line.dirty, line.fresh), Ordered', Calls(rest) \subseteq Calls(work'),
             \A u \in Calls(work') :
               \/ u \in Calls(rest)
               \/ /\ ~Purges(u) /\ u.line.block = b /\ Reaches(u) >= j
                  /\ line.fresh => u.line.fresh
               \/ /\ ~Purges(u) /\ j \in Levels /\ Reaches(u) = j + 1 /\ u.line.block \in Held(j) \ {b}
                  /\ u.line.block \in Newest(j) => u.line.fresh
      PROVE  OrderInv' /\ CurrentInv'
  <2>1. /\ \A u \in Calls(rest) : u.op # "backInvalidate" => u \in Calls(Tail(work))
        /\ \A u \in Calls(rest) : u \in Calls(work) \/ Resumes(u, t)
    BY <1>2 DEF Resumes
  <2>2. CurrentLevels' /\ CurrentMemory' /\ CurrentCalls'
    BY <1>a, <1>0, <1>3, <2>1, DownwardCurrent
  <2>3. \A k \in Levels : k # j => SameCopies(k)
    BY <1>3 DEF Writes
  <2>4. \A u \in Calls(work') : Purges(u) => u \in Calls(work) \/ Resumes(u, t)
    BY <1>3, <2>1
  <2>5. PurgesClear' /\ Missed' /\ HitFacts' /\ Flushed' /\ CurrentFetch'
    BY <1>a, <1>0, <2>3, <2>4, DownwardOrder DEF Resumes
  <2> QED
    BY <1>3, <2>2, <2>5 DEF OrderInv, CurrentInv
<1>4. CASE ~Exclusive(j)
  <2>1. work' = WriteDown(j, line) \o rest /\ UNCHANGED <<contents, fresh>>
    BY <1>0, <1>4 DEF HandleEviction, AfterEvict
  <2>2. /\ Calls(work') = (IF line.dirty THEN {WriteBack(j, line)} ELSE {}) \cup Calls(rest)
        /\ Ordered'
    <3>1. CASE line.dirty
      <4>1. work' = <<WriteBack(j, line)>> \o rest
        BY <2>1, <3>1 DEF WriteDown
      <4> QED
        BY <3>1, <4>1, WriteBackFirst DEF Ordered
    <3>2. CASE ~line.dirty
      <4>1. work' = rest
        BY <2>1, <3>2, ConcatEmptySeq DEF WriteDown
      <4> QED
        BY <3>2, <4>1 DEF Ordered
    <3> QED
      BY <3>1, <3>2
  <2>3. Writes(b, j, line.dirty, line.fresh)
    <3>1. \A k \in Levels : SameCopies(k)
      BY <2>1, ContentsSame
    <3>2. line.dirty => CallAt(b, j)'
      BY <1>1, <2>2 DEF CallAt
    <3>3. j \in Levels => AtLevel(j) \subseteq Held(j)
      BY <1>0, LevelFlagsHeld
    <3> QED
      BY <1>a, <3>1, <3>2, <3>3 DEF Writes, SameCopies, CopyStays
  <2>4. Reaches(WriteBack(j, line)) >= j
    BY <1>1
  <2> QED
    BY <1>1, <1>3, <2>2, <2>3, <2>4
<1>5. CASE Exclusive(j)
  <2> DEFINE kept == [line EXCEPT !.dirty = line.dirty /\ ~WriteThrough[j], !.prefetched = FALSE]
             onward == WriteOn(j, line) \o rest
  <2>0. j \in Levels /\ j + 1 \in 0 .. N /\ ~Inclusive(j)
    BY <1>5, NAssumption DEF Exclusive, Inclusive, Levels
  <2>1. Allocate(j, kept, buffer[j], onward)
    BY <1>0, <1>5 DEF HandleEviction, AfterEvict
  <2>2. /\ kept \in Line /\ kept.block = b /\ kept.dirty = (line.dirty /\ ~WriteThrough[j])
        /\ kept.fresh = line.fresh
    <3>1. (line.dirty /\ ~WriteThrough[j]) \in BOOLEAN
      OBVIOUS
    <3> QED
      BY <3>1 DEF Line
  <2>3. /\ buffer[j] \in Seq(Line) /\ Distinct(buffer[j])
        /\ resident[j] \cap BlocksOf(buffer[j]) = {} /\ b \notin BlocksOf(buffer[j])
    BY <1>a, <1>0, <1>5, <2>0 DEF EvictsAbsent, SingleCopy, LevelsOK
  <2>4. /\ onward \in Seq(Task) /\ Descending(onward)
        /\ Calls(onward) = (IF line.dirty /\ WriteThrough[j] THEN {WriteBack(j + 1, line)} ELSE {})
                            \cup Calls(rest)
    <3>1. CASE line.dirty /\ WriteThrough[j]
      <4>1. onward = <<WriteBack(j + 1, line)>> \o rest
        BY <3>1 DEF WriteOn
      <4>2. \A u \in Calls(rest) : Reaches(u) <= j + 1
        <5>1. \A u \in Calls(rest) : Reaches(u) \in Int
          BY TaskFields DEF Calls
        <5> QED
          BY <5>1
      <4>3. \A k \in 0 .. N : (\A u \in Calls(rest) : Reaches(u) <= k) =>
              /\ <<WriteBack(k, line)>> \o rest \in Seq(Task)
              /\ Descending(<<WriteBack(k, line)>> \o rest)
              /\ Calls(<<WriteBack(k, line)>> \o rest) = {WriteBack(k, line)} \cup Calls(rest)
        BY WriteBackFirst
      <4> QED
        BY <2>0, <3>1, <4>1, <4>2, <4>3
    <3>2. CASE ~(line.dirty /\ WriteThrough[j])
      <4>1. onward = rest
        BY <3>2, ConcatEmptySeq DEF WriteOn
      <4> QED
        BY <3>2, <4>1
    <3> QED
      BY <3>1, <3>2
  <2> HIDE DEF kept, onward
  <2>5. /\ OnlyLevel(j) /\ OnlyFresh(j)
        /\ kept.dirty \/ b \in dirty[j] => b \in AtLevel(j)'
        /\ line.fresh => b \in Newest(j)'
        /\ Takes(j, b, resident[j] \cup BlocksOf(buffer[j]), dirty[j] \cup DirtyBlocks(buffer[j]),
                 fresh[j] \cup FreshBlocks(buffer[j]), onward)
    <3>1. kept.block \notin BlocksOf(buffer[j])
      BY <2>2, <2>3
    <3>2. /\ OnlyLevel(j) /\ OnlyFresh(j)
          /\ kept.dirty \/ kept.block \in dirty[j] => kept.block \in AtLevel(j)'
          /\ kept.fresh => kept.block \in Newest(j)'
          /\ Takes(j, kept.block, resident[j] \cup BlocksOf(buffer[j]), dirty[j] \cup DirtyBlocks(buffer[j]),
                   fresh[j] \cup FreshBlocks(buffer[j]), onward)
      BY <1>0, <2>0, <2>1, <2>2, <2>3, <2>4, <3>1, AllocateTakes
    <3> QED
      BY <2>2, <3>2
  <2>6. Takes(j, b, Held(j), AtLevel(j), Newest(j), onward)
    BY <2>5, HeldIs DEF AtLevel, Newest
  <2>7. b \in AtLevel(j) => b \in AtLevel(j)'
    <3>1. b \notin DirtyBlocks(buffer[j])
      BY <2>3 DEF DirtyBlocks, BlocksOf
    <3> QED
      BY <2>5, <3>1 DEF AtLevel
  <2>8. /\ line.dirty => b \in AtLevel(j)' \/ \E u \in Calls(onward) : Carries(u, b) /\ Reaches(u) = j + 1
        /\ \A u \in Calls(onward) : Reaches(u) <= j + 1
    <3>1. \A u \in Calls(rest) : Reaches(u) \in Int
      BY TaskFields DEF Calls
    <3>2. Carries(WriteBack(j + 1, line), b) /\ Reaches(WriteBack(j + 1, line)) = j + 1
      BY <1>1, <2>0
    <3>3. \A u \in Calls(onward) : Reaches(u) <= j + 1
      BY <2>4, <3>1, <3>2
    <3>4. CASE line.dirty /\ WriteThrough[j]
      BY <2>4, <3>2, <3>3, <3>4
    <3>5. CASE ~(line.dirty /\ WriteThrough[j])
      BY <2>2, <2>5, <3>3, <3>5
    <3> QED
      BY <3>4, <3>5
  <2>9. Writes(b, j, line.dirty, line.fresh) /\ AddsEvict(j, b, onward) /\ Ordered'
    BY <1>a, <1>0, <2>0, <2>4, <2>5, <2>6, <2>7, <2>8, TakesWrites
  <2>10. \A u \in Calls(work') :
           \/ u \in Calls(rest)
           \/ /\ ~Purges(u) /\ u.line.block = b /\ Reaches(u) >= j
              /\ line.fresh => u.line.fresh
           \/ /\ ~Purges(u) /\ j \in Levels /\ Reaches(u) = j + 1 /\ u.line.block \in Held(j) \ {b}
              /\ u.line.block \in Newest(j) => u.line.fresh
    <3>1. ASSUME NEW u \in Calls(onward), u \notin Calls(rest)
          PROVE  ~Purges(u) /\ u.line.block = b /\ Reaches(u) >= j /\ (line.fresh => u.line.fresh)
      BY <1>1, <2>0, <2>4, <3>1
    <3>2. \A u : u.op = "evict" /\ u.level = j => ~Purges(u)
      BY <2>0 DEF Purges
    <3> QED
      BY <2>0, <2>9, <3>1, <3>2 DEF AddsEvict
  <2>11. Calls(rest) \subseteq Calls(work')
    BY <2>4, <2>9 DEF AddsEvict
  <2> QED
    BY <1>3, <2>9, <2>10, <2>11
<1> QED
  BY <1>4, <1>5

\* Cache.allocate at a level that has no copy of the block.
LEMMA AllocateWrites ==
  ASSUME LevelsOK, SingleCopy, NEW i \in Levels, NEW b, NEW line \in Line, line.block = b, ~Contains(i, b),
         NEW d \in BOOLEAN, NEW rest \in Seq(Task), Allocate(i, line, buffer[i], rest), memory' = memory,
         d => line.dirty \/ \E u \in Calls(rest) : Carries(u, b) /\ Reaches(u) = i + 1,
         Descending(rest), \A u \in Calls(rest) : Reaches(u) <= i + 1, Inclusive(i) => rest = << >>
  PROVE  Writes(b, i, d, line.fresh) /\ AddsEvict(i, b, rest) /\ Ordered'
<1>1. /\ buffer[i] \in Seq(Line) /\ Distinct(buffer[i])
      /\ resident[i] \cap BlocksOf(buffer[i]) = {} /\ b \notin BlocksOf(buffer[i])
      /\ b \notin Held(i) /\ line.fresh \in BOOLEAN
  <2>1. buffer[i] \in Seq(Line)
    BY DEF LevelsOK
  <2>2. Distinct(buffer[i]) /\ resident[i] \cap BlocksOf(buffer[i]) = {}
    BY DEF SingleCopy
  <2>3. b \notin Held(i)
    BY DEF Contains, Held
  <2>4. b \notin BlocksOf(buffer[i])
    BY <2>3, HeldIs
  <2>5. line.fresh \in BOOLEAN
    BY DEF Line
  <2> QED
    BY <2>1, <2>2, <2>3, <2>4, <2>5
<1>2. /\ OnlyLevel(i) /\ OnlyFresh(i)
      /\ line.dirty => b \in AtLevel(i)'
      /\ line.fresh => b \in Newest(i)'
      /\ Takes(i, b, resident[i] \cup BlocksOf(buffer[i]), dirty[i] \cup DirtyBlocks(buffer[i]),
               fresh[i] \cup FreshBlocks(buffer[i]), rest)
  BY <1>1, AllocateTakes
<1>3. Takes(i, b, Held(i), AtLevel(i), Newest(i), rest)
  BY <1>2, HeldIs DEF AtLevel, Newest
<1>4. b \notin AtLevel(i)
  BY <1>1, LevelFlagsHeld
<1> QED
  BY <1>1, <1>2, <1>3, <1>4, TakesWrites

LEMMA WriteBackStepFresh ==
  ASSUME TypeInv, TypeInv', FreshInv, WriteBackStep
  PROVE  OrderInv' /\ CurrentInv'
<1> USE DEF FreshInv
<1>a. work # << >> /\ Head(work).op = "writeBack" /\ UNCHANGED <<pc, req, fetch, snapshot>>
  BY DEF WriteBackStep
<1> PICK t \in Task : t = Head(work)
  BY <1>a, HeadType
<1> PICK i \in 0 .. N, line \in Line, b \in Blocks : i = t.level /\ line = t.line /\ b = line.block
  BY <1>a, HeadType DEF Line
<1> PICK rest \in Seq(Task) : rest = Tail(work)
  BY <1>a, HeadType
<1> DEFINE onward == <<WriteBack(i + 1, line)>> \o rest
           clean == [line EXCEPT !.dirty = FALSE]
<1>0. /\ LevelsOK /\ SingleCopy /\ Reaches(t) = i /\ line.dirty /\ line.fresh \in BOOLEAN
      /\ i < N => i \in Levels /\ i + 1 \in 0 .. N
      /\ work \in Seq(Task) /\ t \in Calls(work)
      /\ clean \in Line /\ clean.block = b /\ clean.fresh = line.fresh
  <2>1. t.line.dirty
    BY <1>a DEF Task
  <2>2. clean \in Line /\ clean.block = b /\ clean.fresh = line.fresh /\ line.fresh \in BOOLEAN
    BY DEF Line
  <2>3. LevelsOK /\ SingleCopy /\ work \in Seq(Task)
    BY DEF TypeInv, StackOK, InclusionInv, ConservationInv, LinesInv
  <2> QED
    BY <1>a, <2>1, <2>2, <2>3, CallsPop, NAssumption DEF Reaches, Levels
<1>1. /\ Descending(rest) /\ Calls(rest) \subseteq Calls(work)
      /\ \A u \in Calls(rest) : Reaches(u) \in Int /\ Reaches(u) <= i /\ Reaches(u) <= i + 1
  <2>1. \A u \in Calls(rest) : Reaches(u) \in Int
    BY TaskFields DEF Calls
  <2>2. Descending(rest) /\ \A u \in Calls(rest) : Reaches(u) <= i
    BY <1>a, <1>0, DescendingPop DEF OrderInv, Ordered
  <2> QED
    BY <1>a, <1>0, <2>1, <2>2, CallsPop
<1>2. i < N => /\ onward \in Seq(Task) /\ Descending(onward)
               /\ Calls(onward) = {WriteBack(i + 1, line)} \cup Calls(rest)
               /\ \E u \in Calls(onward) : Carries(u, b) /\ Reaches(u) = i + 1
               /\ \A u \in Calls(onward) : Reaches(u) <= i + 1
  <2> SUFFICES ASSUME i < N
               PROVE  /\ onward \in Seq(Task) /\ Descending(onward)
                      /\ Calls(onward) = {WriteBack(i + 1, line)} \cup Calls(rest)
                      /\ \E u \in Calls(onward) : Carries(u, b) /\ Reaches(u) = i + 1
                      /\ \A u \in Calls(onward) : Reaches(u) <= i + 1
    OBVIOUS
  <2>1. /\ onward \in Seq(Task) /\ Descending(onward)
        /\ Calls(onward) = {WriteBack(i + 1, line)} \cup Calls(rest)
    <3> HIDE DEF onward, clean, FreshInv
    <3> PICK j \in 0 .. N : j = i + 1
      BY <1>0
    <3>1. Descending(rest) /\ \A u \in Calls(rest) : Reaches(u) <= j
      BY <1>1
    <3>2. /\ <<WriteBack(j, line)>> \o rest \in Seq(Task)
          /\ Descending(<<WriteBack(j, line)>> \o rest)
          /\ Calls(<<WriteBack(j, line)>> \o rest) = {WriteBack(j, line)} \cup Calls(rest)
      BY <3>1, WriteBackFirst
    <3> QED
      BY <3>2 DEF onward
  <2>2. Carries(WriteBack(i + 1, line), b) /\ Reaches(WriteBack(i + 1, line)) = i + 1
    BY <1>0, WriteBackFields
  <2> HIDE DEF onward
  <2> QED
    BY <1>1, <2>1, <2>2
<1>3. i < N => /\ WriteBack(i + 1, line).line.block = b /\ Reaches(WriteBack(i + 1, line)) >= i
               /\ WriteBack(i + 1, line).line.fresh = line.fresh /\ ~Purges(WriteBack(i + 1, line))
  BY <1>0, WriteBackFields
<1>4. \/ i = N /\ memory' = With(memory, b, line.fresh) /\ work' = rest /\ UNCHANGED <<contents, fresh>>
      \/ /\ i < N /\ Contains(i, b) /\ SetDirty(i, b, LineOf(i, b).dirty, line.fresh) /\ work' = onward
         /\ memory' = memory
      \/ /\ i < N /\ ~Contains(i, b) /\ Allocate(i, clean, buffer[i], onward)
         /\ memory' = memory
      \/ /\ i < N /\ ~Contains(i, b) /\ work' = onward /\ UNCHANGED <<contents, fresh>>
         /\ memory' = memory
      \/ /\ i < N /\ Contains(i, b) /\ SetDirty(i, b, TRUE, line.fresh) /\ work' = rest
         /\ memory' = memory
      \/ /\ i < N /\ ~Contains(i, b) /\ Allocate(i, line, buffer[i], rest)
         /\ memory' = memory
  BY DEF WriteBackStep, history
\* A level that allocates is not inclusive.
<1>5. i < N /\ ~Contains(i, b) => ~Inclusive(i)
  BY <1>0 DEF InclusionInv, StackInv, CallsHeld, Held, Contains
<1> HIDE DEF onward, clean
\* However the level takes the line, the block is written there.
<1>6. ASSUME Writes(b, i, TRUE, line.fresh), Ordered', Calls(rest) \subseteq Calls(work'),
             \A u \in Calls(work') :
               \/ u \in Calls(rest)
               \/ i < N /\ u = WriteBack(i + 1, line)
               \/ /\ ~Purges(u) /\ i \in Levels /\ Reaches(u) = i + 1 /\ u.line.block \in Held(i) \ {b}
                  /\ u.line.block \in Newest(i) => u.line.fresh
      PROVE  OrderInv' /\ CurrentInv'
  <2>1. \A u \in Calls(work') :
          \/ u \in Calls(rest)
          \/ /\ ~Purges(u) /\ u.line.block = b /\ Reaches(u) >= i
             /\ line.fresh => u.line.fresh
          \/ /\ ~Purges(u) /\ i \in Levels /\ Reaches(u) = i + 1 /\ u.line.block \in Held(i) \ {b}
             /\ u.line.block \in Newest(i) => u.line.fresh
    BY <1>3, <1>6
  <2>2. t.op # "backInvalidate" /\ t.line.dirty = TRUE
    BY <1>a, <1>0 DEF Line
  <2>3. CurrentLevels' /\ CurrentMemory' /\ CurrentCalls'
    <3>1. Writes(b, i, t.line.dirty, t.line.fresh)
      BY <1>6, <2>2
    <3>2. \A u \in Calls(work') : u.op # "backInvalidate" =>
            \/ u \in Calls(Tail(work))
            \/ u.line.block = b /\ Reaches(u) >= i /\ (t.line.fresh => u.line.fresh)
            \/ /\ i \in Levels /\ Reaches(u) = i + 1 /\ u.line.block \in Held(i) \ {b}
               /\ u.line.block \in Newest(i) => u.line.fresh
      BY <2>1
    <3>3. i = Reaches(t) /\ b = t.line.block /\ Calls(Tail(work)) \subseteq Calls(work')
      BY <1>0, <1>6
    <3> HIDE DEF FreshInv
    <3> QED
      BY <1>a, <2>2, <3>1, <3>2, <3>3, DownwardCurrent
  <2>4. \A k \in Levels : k # i => SameCopies(k)
    BY <1>6 DEF Writes
  <2>5. \A u \in Calls(work') : Purges(u) => u \in Calls(work)
    BY <1>1, <2>1
  <2>6. PurgesClear' /\ Missed' /\ HitFacts' /\ Flushed' /\ CurrentFetch'
    BY <1>a, <1>0, <2>4, <2>5, DownwardOrder
  <2> QED
    BY <1>6, <2>3, <2>6 DEF OrderInv, CurrentInv
<1>7. i < N /\ work' = onward =>
        /\ CallAt(b, i + 1)' /\ Ordered' /\ Calls(rest) \subseteq Calls(work')
        /\ \A u \in Calls(work') : u \in Calls(rest) \/ u = WriteBack(i + 1, line)
  BY <1>2 DEF CallAt, Ordered
<1>8. work' = rest =>
        /\ Ordered' /\ Calls(rest) \subseteq Calls(work')
        /\ \A u \in Calls(work') : u \in Calls(rest)
  BY <1>1 DEF Ordered
<1>9. CASE i = N /\ memory' = With(memory, b, line.fresh) /\ work' = rest /\ UNCHANGED <<contents, fresh>>
  <2>1. \A k \in Levels : SameCopies(k)
    BY <1>9, ContentsSame
  <2>2. i \notin Levels
    BY <1>9, NAssumption DEF Levels
  <2>3. /\ \A c \in memory : c \in memory' \/ (c = b /\ ~line.fresh)
        /\ line.fresh => b \in memory'
    BY <1>9 DEF With
  <2>4. Writes(b, i, TRUE, line.fresh)
    BY <1>9, <2>1, <2>2, <2>3 DEF Writes
  <2> QED
    BY <1>6, <1>8, <1>9, <2>4
<1>10. CASE i < N /\ Contains(i, b) /\ memory' = memory
  <2>1. ASSUME NEW mark \in BOOLEAN, SetDirty(i, b, mark, line.fresh)
        PROVE  /\ \A k \in Levels : k # i => SameCopies(k)
               /\ Held(i)' = Held(i) /\ \A c : c # b => CopyStays(i, c)
               /\ mark => b \in AtLevel(i)'
               /\ line.fresh => b \in Newest(i)'
    BY <1>0, <1>10, <2>1, SetDirtyMarks
  <2>2. /\ LineOf(i, b).dirty \in BOOLEAN /\ (LineOf(i, b).dirty <=> b \in AtLevel(i))
    <3>1. b \in Held(i)
      BY <1>10 DEF Contains, Held
    <3> QED
      BY <1>0, <1>10, <3>1, LineFlags DEF Line
  <2>3. CASE SetDirty(i, b, LineOf(i, b).dirty, line.fresh) /\ work' = onward
    <3>1. /\ \A k \in Levels : k # i => SameCopies(k)
          /\ Held(i)' = Held(i) /\ \A c : c # b => CopyStays(i, c)
          /\ b \in AtLevel(i) => b \in AtLevel(i)'
          /\ line.fresh => b \in Newest(i)'
      BY <2>1, <2>2, <2>3
    <3>2. AtLevel(i) \subseteq Held(i)
      BY <1>0, <1>10, LevelFlagsHeld
    <3>3. Writes(b, i, TRUE, line.fresh)
      BY <1>0, <1>7, <1>10, <2>3, <3>1, <3>2 DEF Writes
    <3> QED
      BY <1>6, <1>7, <1>10, <2>3, <3>3
  <2>4. CASE SetDirty(i, b, TRUE, line.fresh) /\ work' = rest
    <3>1. /\ \A k \in Levels : k # i => SameCopies(k)
          /\ Held(i)' = Held(i) /\ \A c : c # b => CopyStays(i, c)
          /\ b \in AtLevel(i)'
          /\ line.fresh => b \in Newest(i)'
      BY <2>1, <2>4
    <3>2. AtLevel(i) \subseteq Held(i)
      BY <1>0, <1>10, LevelFlagsHeld
    <3>3. Writes(b, i, TRUE, line.fresh)
      BY <1>0, <1>10, <3>1, <3>2 DEF Writes
    <3> QED
      BY <1>6, <1>8, <2>4, <3>3
  <2>5. \/ SetDirty(i, b, LineOf(i, b).dirty, line.fresh) /\ work' = onward
        \/ SetDirty(i, b, TRUE, line.fresh) /\ work' = rest
    <3>1. i # N
      BY <1>10
    <3> QED
      BY <1>4, <1>10, <3>1
  <2> QED
    BY <2>3, <2>4, <2>5
<1>11. CASE i < N /\ ~Contains(i, b) /\ memory' = memory
  <2>0. i \in Levels /\ ~Inclusive(i)
    BY <1>0, <1>5, <1>11
  <2>1. ASSUME NEW more \in Seq(Task), Writes(b, i, TRUE, line.fresh), AddsEvict(i, b, more), Ordered',
               Calls(rest) \subseteq Calls(more),
               \A u \in Calls(more) : u \in Calls(rest) \/ u = WriteBack(i + 1, line)
        PROVE  OrderInv' /\ CurrentInv'
    <3>1. \A u : u.op = "evict" /\ u.level = i => ~Purges(u)
      BY <2>0 DEF Purges
    <3>2. \A u \in Calls(work') :
            \/ u \in Calls(rest)
            \/ i < N /\ u = WriteBack(i + 1, line)
            \/ /\ ~Purges(u) /\ i \in Levels /\ Reaches(u) = i + 1 /\ u.line.block \in Held(i) \ {b}
               /\ u.line.block \in Newest(i) => u.line.fresh
      BY <1>11, <2>0, <2>1, <3>1 DEF AddsEvict
    <3>3. Calls(rest) \subseteq Calls(work')
      BY <2>1 DEF AddsEvict
    <3> QED
      BY <1>6, <2>1, <3>2, <3>3
  <2>2. CASE Allocate(i, clean, buffer[i], onward)
    <3>1. Writes(b, i, TRUE, clean.fresh) /\ AddsEvict(i, b, onward) /\ Ordered'
      BY <1>0, <1>2, <1>11, <2>0, <2>2, AllocateWrites
    <3> QED
      BY <1>0, <1>2, <1>11, <2>1, <3>1
  <2>3. CASE work' = onward /\ UNCHANGED <<contents, fresh>>
    <3>1. \A k \in Levels : SameCopies(k)
      BY <2>3, ContentsSame
    <3>2. b \notin Held(i) /\ AtLevel(i) \subseteq Held(i)
      BY <1>0, <1>11, <2>0, LevelFlagsHeld DEF Contains, Held
    <3>3. Writes(b, i, TRUE, line.fresh)
      BY <1>7, <1>11, <2>0, <2>3, <3>1, <3>2 DEF Writes, SameCopies, CopyStays
    <3> QED
      BY <1>6, <1>7, <1>11, <2>3, <3>3
  <2>4. CASE Allocate(i, line, buffer[i], rest)
    <3>1. Writes(b, i, TRUE, line.fresh) /\ AddsEvict(i, b, rest) /\ Ordered'
      BY <1>0, <1>1, <1>11, <2>0, <2>4, AllocateWrites
    <3> QED
      BY <2>1, <3>1
  <2>5. \/ Allocate(i, clean, buffer[i], onward)
        \/ work' = onward /\ UNCHANGED <<contents, fresh>>
        \/ Allocate(i, line, buffer[i], rest)
    <3>1. i # N
      BY <1>11
    <3> QED
      BY <1>4, <1>11, <3>1
  <2> QED
    BY <2>2, <2>3, <2>4, <2>5
<1> QED
  BY <1>4, <1>9, <1>10, <1>11

\* The level nearest to the one that evicted the block gives up its copy, which goes
\* down past levels that have none.
LEMMA BackInvalidateStepFresh ==
  ASSUME TypeInv, TypeInv', FreshInv, BackInvalidateStep
  PROVE  OrderInv' /\ CurrentInv'
<1> USE DEF FreshInv
<1>a. /\ work # << >> /\ Head(work).op = "backInvalidate" /\ UNCHANGED <<pc, req, fetch, snapshot>>
      /\ memory' = memory
  BY DEF BackInvalidateStep
<1> PICK t \in Task : t = Head(work)
  BY <1>a, HeadType
<1> PICK i \in Levels, nth \in 0 .. N, b \in Blocks : i = t.level /\ nth = t.nth /\ b = t.line.block
  BY <1>a, HeadType DEF Line
<1> PICK k \in Int : k = i - 1 - nth
  BY DEF Levels
<1> PICK below \in 1 .. N : below = i + 1
  BY NAssumption DEF Levels
<1>0. /\ LevelsOK /\ SingleCopy /\ NthAbove(i, nth) = k /\ k < i /\ Reaches(t) = below /\ Purges(t)
      /\ NextPurged(t) = k /\ ~t.line.dirty /\ below \in 0 .. N /\ i \in Int /\ nth \in Int
      /\ i = below - 1
  <2>1. NthAbove(i, nth) = k /\ Reaches(t) = below /\ Purges(t) /\ NextPurged(t) = k
    BY <1>a DEF NthAbove, Reaches, Purges, NextPurged
  <2>2. ~t.line.dirty
    BY <1>a DEF Task
  <2> QED
    BY <2>1, <2>2, NAssumption DEF TypeInv, InclusionInv, ConservationInv, LinesInv, Levels
\* It is the only call on the stack.
<1>1. /\ Tail(work) = << >> /\ Calls(work) = {t}
  <2>1. work \in Seq(Task)
    BY DEF TypeInv, StackOK
  <2>2. Tail(work) = << >>
    BY <1>a, <1>0, <2>1, DescendingPop DEF OrderInv, Ordered
  <2> QED
    BY <1>a, <2>1, <2>2, CallsPop, CallsOfNone
<1>2. /\ pc \in {"fill", "prefetch"} /\ i = fetch.at + 1 /\ Inclusive(i)
      /\ \A j \in Levels : k < j /\ j <= i => b \notin Held(j)
  <2>1. fetch.at \in Int
    BY IntegerFields, NAssumption DEF Levels
  <2>2. pc \in {"fill", "prefetch"} /\ i <= fetch.at + 1 /\ below > fetch.at + 1
    BY <1>0, <1>1 DEF InclusionInv, StackInv, PurgesAbove, CallsBelow
  <2>3. Inclusive(i) /\ \A j \in Levels : k < j /\ j <= i => b \notin Held(j)
    BY <1>0, <1>1 DEF OrderInv, PurgesClear
  <2> QED
    BY <1>0, <2>1, <2>2, <2>3
\* It is not the block that is being filled.
<1>3. fetch.block # b
  <2>1. fetch.block \in Held(i)
    <3>1. fetch.at \in Int
      BY IntegerFields, NAssumption DEF Levels
    <3>2. i > fetch.at
      BY <1>0, <1>2, <3>1
    <3> QED
      BY <1>2, <3>2 DEF InclusionInv, LocalsInv, FetchHeld
  <2> QED
    BY <1>0, <1>2, <2>1
<1> DEFINE loses == nth < i /\ Contains(k, b)
           next == IF nth + 1 < i THEN <<BackInvalidate(i, nth + 1, b)>> ELSE << >>
\* What the level had is in a call, and the walk goes on above it.
<1>4. /\ Descending(next) /\ next \in Seq(Task)
      /\ \A u \in Calls(next) :
           /\ u.op = "backInvalidate" /\ u.level = i /\ u.line.block = b
           /\ Reaches(u) = below /\ NextPurged(u) = k - 1
  <2>1. CASE nth + 1 < i
    <3>1. nth + 1 \in 0 .. N
      BY <1>0, <2>1, NAssumption DEF Levels
    <3> PICK u \in Task : u = BackInvalidate(i, nth + 1, b)
      BY <3>1, NAssumption DEF BackInvalidate, Call, Task, Line
    <3>2. u.op = "backInvalidate" /\ u.level = i /\ u.nth = nth + 1 /\ u.line.block = b
      BY BackInvalidateFields
    <3>3. Reaches(u) = below /\ NextPurged(u) = k - 1
      BY <1>0, <3>2 DEF Reaches, NextPurged, NthAbove
    <3>4. next = <<u>>
      BY <2>1
    <3>5. Calls(next) = {u} /\ Descending(next) /\ next \in Seq(Task)
      <4> HIDE DEF next
      <4> QED
        BY <3>4, OnlyCall
    <3> QED
      BY <3>2, <3>3, <3>5
  <2>2. CASE ~(nth + 1 < i)
    BY <2>2, DescendingNone, CallsOfNone
  <2> QED
    BY <2>1, <2>2
<1>5. /\ loses => Invalidate(k, b) /\ work' = WriteDown(below, LineOf(k, b)) \o next
      /\ ~loses => work' = next /\ UNCHANGED <<contents, fresh>>
  <2>1. NextAbove(i, nth, b) \o Tail(work) = next
    <3>1. NextAbove(i, nth, b) = next
      BY DEF NextAbove
    <3>2. next \o << >> = next
      <4> HIDE DEF next
      <4> QED
        BY <1>4, ConcatEmptySeq
    <3> HIDE DEF next
    <3> QED
      BY <1>1, <3>1, <3>2
  <2> QED
    BY <1>0, <2>1 DEF BackInvalidateStep, LosesCopy
<1> HIDE DEF next
\* The line that level k loses.
<1>6. loses => /\ k \in Levels /\ k < i /\ b \in Held(k) /\ LineOf(k, b) \in Line /\ LineOf(k, b).block = b
               /\ LineOf(k, b).dirty <=> b \in AtLevel(k)
               /\ LineOf(k, b).fresh <=> b \in Newest(k)
               /\ \A l \in Levels : l # k => SameCopies(l)
               /\ Held(k)' = Held(k) \ {b} /\ \A c : c # b => CopyStays(k, c)
  <2> SUFFICES ASSUME loses
               PROVE  /\ k \in Levels /\ k < i /\ b \in Held(k) /\ LineOf(k, b) \in Line /\ LineOf(k, b).block = b
                      /\ LineOf(k, b).dirty <=> b \in AtLevel(k)
                      /\ LineOf(k, b).fresh <=> b \in Newest(k)
                      /\ \A l \in Levels : l # k => SameCopies(l)
                      /\ Held(k)' = Held(k) \ {b} /\ \A c : c # b => CopyStays(k, c)
    OBVIOUS
  <2>1. k \in Levels /\ k < i
    <3>1. nth < i /\ k = i - 1 - nth /\ i \in 0 .. N - 1 /\ nth \in 0 .. N
      BY DEF Levels
    <3>2. k \in 0 .. N - 1
      BY <1>0, <3>1, NAssumption
    <3> QED
      BY <1>0, <3>2 DEF Levels
  <2>2. b \in Held(k) /\ Contains(k, b)
    BY DEF Contains, Held
  <2> HIDE DEF loses
  <2> QED
    BY <1>0, <1>5, <2>1, <2>2, InvalidateDrops, LineFlags
<1>7. ~loses => (\A l \in Levels : SameCopies(l)) /\ (k \in Levels => b \notin Held(k))
  <2>1. k \in Levels => nth < i
    BY <1>0 DEF Levels
  <2>2. b \in Held(k) => Contains(k, b)
    BY DEF Contains, Held
  <2>3. UNCHANGED <<contents, fresh>> => \A l \in Levels : SameCopies(l)
    BY ContentsSame
  <2> QED
    BY <1>5, <2>1, <2>2, <2>3
<1> HIDE DEF loses
<1> DEFINE hands == loses /\ b \in AtLevel(k)
           call == WriteBack(below, LineOf(k, b))
<1>8. /\ Ordered' /\ Calls(next) \subseteq Calls(work')
      /\ \A u \in Calls(work') : u \in Calls(next) \/ (hands /\ u = call)
      /\ hands => call \in Calls(work')
  <2>1. \A u \in Calls(next) : Reaches(u) <= below
    BY <1>4
  <2>2. CASE hands
    <3>1. work' = <<call>> \o next
      BY <1>5, <1>6, <2>2 DEF WriteDown
    <3>2. LineOf(k, b) \in Line /\ below \in 0 .. N
      BY <1>0, <1>6, <2>2
    <3> QED
      BY <1>4, <2>1, <2>2, <3>1, <3>2, WriteBackFirst DEF Ordered
  <2>3. CASE ~hands
    <3>1. work' = next
      <4>1. CASE loses
        <5>1. work' = << >> \o next
          BY <1>5, <1>6, <2>3, <4>1 DEF WriteDown
        <5> QED
          BY <1>4, <5>1, ConcatEmptySeq
      <4>2. CASE ~loses
        BY <1>5, <4>2
      <4> QED
        BY <4>1, <4>2
    <3> QED
      BY <1>4, <2>3, <3>1 DEF Ordered
  <2> QED
    BY <2>2, <2>3
<1>9. hands => /\ Reaches(call) = below /\ ~Purges(call) /\ call.op = "writeBack"
               /\ Carries(call, b) /\ call.line.block = b /\ (call.line.fresh <=> b \in Newest(k))
  <2> SUFFICES ASSUME hands
               PROVE  /\ Reaches(call) = below /\ ~Purges(call) /\ call.op = "writeBack"
                      /\ Carries(call, b) /\ call.line.block = b /\ (call.line.fresh <=> b \in Newest(k))
    OBVIOUS
  <2>1. LineOf(k, b) \in Line /\ LineOf(k, b).block = b /\ (LineOf(k, b).fresh <=> b \in Newest(k))
    BY <1>6
  <2> QED
    BY <1>0, <2>1, WriteBackFields
<1> HIDE DEF call
\* Every other copy stays, and is as current as it was.
<1>10. \A l \in Levels : \A c \in Held(l) :
         (l = k /\ c = b /\ loses) \/ (c \in Held(l)' /\ CopyStays(l, c))
  BY <1>6, <1>7 DEF SameCopies, CopyStays
<1>11. \A l \in Levels : Held(l)' \subseteq Held(l) /\ (loses /\ l = k => b \notin Held(l)')
  BY <1>6, <1>7 DEF SameCopies
<1>12. AtLevel(k) \subseteq Held(k) \/ k \notin Levels
  BY <1>0, LevelFlagsHeld
<1>13. ASSUME NEW p \in Int, NEW c, Covered(p, c)
       PROVE  Covered(p, c)' \/ (c = b /\ hands /\ 2 * k + 1 < p /\ p <= 2 * below)
  <2>1. ASSUME NEW l \in Levels, 2 * l + 1 < p, c \in AtLevel(l), ~(l = k /\ c = b /\ loses)
        PROVE  Covered(p, c)'
    <3>1. c \in Held(l)
      BY <1>0, <2>1, LevelFlagsHeld
    <3>2. c \in AtLevel(l)'
      BY <1>10, <2>1, <3>1 DEF CopyStays
    <3> QED
      BY <2>1, <3>2 DEF Covered
  <2>2. ASSUME hands, c = b, 2 * below < p
        PROVE  Covered(p, c)'
    BY <1>8, <1>9, <2>2 DEF Covered
  <2>3. CASE \E u \in Calls(work) : Carries(u, c) /\ 2 * Reaches(u) < p
    BY <1>0, <1>1, <2>3 DEF Carries
  <2>4. CASE Pending(p, c)
    BY <1>a, <2>4 DEF Covered, Pending
  <2>5. CASE \E l \in Levels : 2 * l + 1 < p /\ c \in AtLevel(l)
    <3>1. PICK l \in Levels : 2 * l + 1 < p /\ c \in AtLevel(l)
      BY <2>5
    <3>2. l = k /\ c = b /\ loses => hands
      BY <3>1
    <3>3. 2 * below \in Int
      BY <1>0
    <3> QED
      BY <1>13, <2>1, <2>2, <3>1, <3>2, <3>3
  <2> QED
    BY <1>13, <2>3, <2>4, <2>5 DEF Covered
<1>14. CurrentLevels'
  <2> SUFFICES ASSUME NEW l \in Levels, NEW c \in Held(l)'
               PROVE  Covered(2 * l + 1, c)' \/ c \in Newest(l)'
    BY DEF CurrentLevels
  <2>1. c \in Held(l) /\ (c \in Newest(l) => c \in Newest(l)') /\ ~(loses /\ l = k /\ c = b)
    BY <1>10, <1>11 DEF CopyStays
  <2>2. Covered(2 * l + 1, c) \/ c \in Newest(l)
    BY <2>1 DEF CurrentInv, CurrentLevels
  <2>3. ~(c = b /\ k < l /\ l <= i)
    BY <1>2, <2>1
  <2>4. 2 * l + 1 \in Int /\ l \in Int
    BY DEF Levels
  <2>5. ASSUME c = b, hands, 2 * k + 1 < 2 * l + 1, 2 * l + 1 <= 2 * below
        PROVE  FALSE
    BY <1>0, <2>3, <2>4, <2>5
  <2> QED
    BY <1>13, <2>1, <2>2, <2>4, <2>5
<1>15. CurrentMemory'
  <2>1. 2 * N + 1 \in Int /\ ~(2 * N + 1 <= 2 * below)
    BY <1>0, NAssumption
  <2> QED
    BY <1>a, <1>13, <2>1 DEF CurrentInv, CurrentMemory
<1>16. CurrentCalls'
  <2> SUFFICES ASSUME NEW u \in Calls(work'), u.op # "backInvalidate"
               PROVE  Covered(2 * Reaches(u), u.line.block)' \/ u.line.fresh
    BY DEF CurrentCalls
  <2>1. hands /\ u = call
    BY <1>4, <1>8
  <2>2. Covered(2 * k + 1, b) \/ b \in Newest(k)
    BY <1>6, <2>1 DEF CurrentInv, CurrentLevels
  <2>3. 2 * k + 1 \in Int /\ 2 * below \in Int /\ 2 * k + 1 <= 2 * below
    BY <1>0
  <2>4. Covered(2 * k + 1, b) => Covered(2 * k + 1, b)'
    BY <1>13, <2>3
  <2>5. Covered(2 * k + 1, b) => Covered(2 * below, b)'
    BY <2>3, <2>4, CoveredDownNext DEF CoveredBelow
  <2> QED
    BY <1>9, <2>1, <2>2, <2>5
<1>17. CurrentFetch'
  <2>1. ASSUME NEW l \in Levels, fetch.block \in AtLevel(l) PROVE fetch.block \in AtLevel(l)'
    <3>1. fetch.block \in Held(l)
      BY <1>0, <2>1, LevelFlagsHeld
    <3> QED
      BY <1>3, <1>10, <2>1, <3>1 DEF CopyStays
  <2> QED
    BY <1>a, <2>1 DEF CurrentInv, CurrentFetch
<1>18. PurgesClear'
  <2> SUFFICES ASSUME NEW u \in Calls(work'), Purges(u)
               PROVE  /\ Inclusive(u.level)
                      /\ \A j \in Levels : NextPurged(u) < j /\ j <= u.level => u.line.block \notin Held(j)'
    BY DEF PurgesClear
  <2>1. u \in Calls(next)
    BY <1>8, <1>9
  <2>2. u.level = i /\ u.line.block = b /\ NextPurged(u) = k - 1
    BY <1>4, <2>1
  <2>3. \A j \in Levels : k - 1 < j /\ j <= i => b \notin Held(j)'
    <3> SUFFICES ASSUME NEW j \in Levels, k - 1 < j, j <= i PROVE b \notin Held(j)'
      OBVIOUS
    <3>1. CASE j = k
      BY <1>7, <1>11, <3>1
    <3>2. CASE j # k
      <4>1. k < j
        BY <3>2 DEF Levels
      <4> QED
        BY <1>2, <1>11, <4>1
    <3> QED
      BY <3>1, <3>2
  <2> QED
    BY <1>2, <2>2, <2>3
<1>19. Missed' /\ HitFacts' /\ Flushed'
  BY <1>a, <1>2 DEF Missed, HitFacts, Flushed
<1> QED
  BY <1>8, <1>14, <1>15, <1>16, <1>17, <1>18, <1>19 DEF OrderInv, CurrentInv

-----------------------------------------------------------------------------
(* The steps of access() and flush().                                      *)

LEMMA FillFresh ==
  ASSUME TypeInv, TypeInv', FreshInv, Fill \/ PrefetchFill
  PROVE  OrderInv' /\ CurrentInv'
<1> USE DEF FreshInv
<1>a. /\ pc \in {"fill", "prefetch"} /\ pc' = pc /\ req' = req /\ memory' = memory /\ work = << >>
      /\ fetch.at >= fetch.to
      /\ fetch' = [fetch EXCEPT !.at = fetch.at - 1]
  BY DEF Fill, PrefetchFill, FillStep
<1>b. fetch \in Fetch /\ fetch.at \in Levels \cup {-1} /\ fetch.to \in 0 .. N /\ fetch.block \in Blocks
  BY <1>a, IntegerFields DEF TypeInv, LocalsOK
<1> PICK i \in Levels, b \in Blocks, to \in Int : i = fetch.at /\ b = fetch.block /\ to = fetch.to
  BY <1>a, <1>b, NAssumption DEF Levels
<1> PICK d \in BOOLEAN, f \in BOOLEAN :
      d = (fetch.dirty /\ i = to) /\ f = (fetch.fresh /\ (pc = "prefetch" \/ fetch.keep \in {-1, i}))
  BY <1>b DEF Fetch
<1>0. /\ LevelsOK /\ SingleCopy /\ i \in 0 .. N /\ i \in Levels /\ i \in Int /\ to <= i
      /\ fetch'.block = b /\ fetch'.at = i - 1 /\ fetch'.to = to /\ fetch'.dirty = fetch.dirty
      /\ fetch'.fresh = fetch.fresh /\ fetch'.keep = fetch.keep
  BY <1>a, <1>b, NAssumption DEF TypeInv, InclusionInv, ConservationInv, LinesInv, Levels, Fetch
<1>1. /\ Writes(b, i, d, f) /\ AddsEvict(i, b, << >>) /\ Ordered'
  <2>1. CASE Passes(i)
    <3>1. UNCHANGED <<contents, fresh, work>>
      BY <2>1 DEF Fill, PrefetchFill, FillStep
    <3>2. \A k \in Levels : SameCopies(k)
      BY <3>1, ContentsSame
    <3>3. ~d
      BY <1>a, <2>1 DEF Passes, InclusionInv, ConservationInv, LinesInv, FetchFacts
    <3>4. AtLevel(i) \subseteq Held(i)
      BY <1>0, LevelFlagsHeld
    <3>5. Writes(b, i, d, f)
      BY <1>a, <3>2, <3>3, <3>4 DEF Writes, SameCopies, CopyStays
    <3> QED
      BY <1>a, <3>1, <3>5, CallsOfNone, DescendingNone DEF AddsEvict, Ordered
  <2>2. CASE ~Passes(i)
    <3> DEFINE line(spec) == [block |-> b, dirty |-> d, prefetched |-> spec, fresh |-> f]
    <3>1. PICK spec \in BOOLEAN : Allocate(i, line(spec), buffer[i], << >>)
      <4>1. Fill => Allocate(i, line(FALSE), buffer[i], << >>)
        BY <2>2 DEF Fill, FillStep, FilledCurrent
      <4>2. PrefetchFill => Allocate(i, line(i = to), buffer[i], << >>)
        BY <2>2 DEF PrefetchFill, FillStep, FilledCurrent
      <4>3. FALSE \in BOOLEAN /\ (i = to) \in BOOLEAN
        OBVIOUS
      <4> QED
        BY <4>1, <4>2, <4>3
    <3>2. line(spec) \in Line /\ line(spec).block = b /\ line(spec).dirty = d /\ line(spec).fresh = f
      BY DEF Line
    <3> HIDE DEF line
    <3>3. /\ buffer[i] \in Seq(Line) /\ Distinct(buffer[i])
          /\ resident[i] \cap BlocksOf(buffer[i]) = {}
      BY <1>0 DEF SingleCopy, LevelsOK
    <3>4. b \notin BlocksOf(buffer[i])
      BY <1>a, <1>0 DEF InclusionInv, ConservationInv, LinesInv, FillsAbsent
    <3>5. << >> \in Seq(Task) /\ Descending(<< >>) /\ Calls(<< >>) = {}
      BY DescendingNone, CallsOfNone
    <3>6. /\ OnlyLevel(i) /\ OnlyFresh(i)
          /\ d \/ b \in dirty[i] => b \in AtLevel(i)'
          /\ f => b \in Newest(i)'
          /\ Takes(i, b, resident[i] \cup BlocksOf(buffer[i]), dirty[i] \cup DirtyBlocks(buffer[i]),
                   fresh[i] \cup FreshBlocks(buffer[i]), << >>)
      BY <1>0, <3>1, <3>2, <3>3, <3>4, <3>5, AllocateTakes
    <3>7. Takes(i, b, Held(i), AtLevel(i), Newest(i), << >>)
      BY <3>6, HeldIs DEF AtLevel, Newest
    <3>8. b \in AtLevel(i) => b \in AtLevel(i)'
      <4>1. b \notin DirtyBlocks(buffer[i])
        BY <3>4 DEF DirtyBlocks, BlocksOf
      <4> QED
        BY <3>6, <4>1 DEF AtLevel
    <3> QED
      BY <1>a, <1>0, <3>5, <3>6, <3>7, <3>8, TakesWrites
  <2> QED
    BY <2>1, <2>2
<1>2. \A u \in Calls(work') :
        /\ u.op = "evict" /\ u.level = i /\ Reaches(u) = i + 1
        /\ u.line.block \in Held(i) \ {b} /\ u.line.block \notin Held(i)'
        /\ u.line.block \in Newest(i) => u.line.fresh
  BY <1>1, CallsOfNone DEF AddsEvict
<1>3. WritesCalls(b, i, d, f)
  BY <1>a, <1>2, CallsOfNone DEF WritesCalls
<1>4. PendingStays(b, i, d)
  <2> SUFFICES ASSUME NEW p \in Int, NEW c, Pending(p, c), ~(c = b /\ d /\ 2 * i < p)
               PROVE  Pending(p, c)'
    BY DEF PendingStays
  <2>1. CASE pc = "fill" /\ req.block = c /\ 0 <= req.forward /\ 2 * req.forward < p
    BY <1>a, <2>1 DEF Pending
  <2>2. CASE fetch.block = c /\ fetch.dirty /\ fetch.to <= fetch.at /\ 2 * fetch.to < p
    <3>1. to # i
      BY <2>2
    <3>2. to <= i - 1
      BY <1>0, <3>1
    <3> QED
      BY <1>a, <1>0, <2>2, <3>2 DEF Pending
  <2> QED
    BY <1>a, <2>1, <2>2 DEF Pending
<1>5. Covered(2 * i, b) \/ f \/ WritesOlder(b, i, d)
  <2>1. ASSUME NEW k \in Levels, k < to, b \in AtLevel(k)
        PROVE  Covered(2 * i, b)
    <3>1. 2 * k + 1 < 2 * i
      BY <1>0, <2>1 DEF Levels
    <3> QED
      BY <2>1, <3>1 DEF Covered
  <2>2. CASE pc = "prefetch"
    BY <1>a, <1>0, <2>1, <2>2 DEF CurrentInv, CurrentFetch
  \* A level that took the store is above, and so is the modified data.
  <2>3. CASE pc = "fill" /\ fetch.keep \notin {-1, i}
    <3>0. fetch.keep >= 0
      BY <1>b, <2>3, NAssumption DEF Fetch, Levels
    <3>1. fetch.keep = to /\ (fetch.dirty \/ req.forward = to + 1) /\ b = req.block
      BY <2>3, <3>0 DEF CurrentInv, CurrentFetch, InclusionInv, LocalsInv, ForwardFacts
    <3>2. to # i
      BY <2>3, <3>1
    <3>3. 2 * to < 2 * i + 1 /\ 2 * (to + 1) < 2 * i + 1 /\ 0 <= to + 1
      <4>1. i \in Int /\ to \in Int /\ to <= i
        BY <1>0
      <4>2. 0 <= to
        BY <3>0, <3>1
      <4> QED
        BY <3>2, <4>1, <4>2
    <3>4. Pending(2 * i + 1, b)
      BY <1>a, <2>3, <3>1, <3>3 DEF Pending
    <3>5. i \in Levels /\ ~d /\ Covered(2 * i + 1, b)
      BY <1>0, <3>2, <3>4 DEF Covered
    <3> QED
      BY <1>2, <3>5 DEF WritesOlder
  <2>4. CASE pc = "fill" /\ fetch.keep \in {-1, i}
    BY <2>4 DEF CurrentInv, CurrentFetch
  <2> QED
    BY <1>a, <2>2, <2>3, <2>4
<1>6. CurrentLevels' /\ CurrentMemory' /\ CurrentCalls'
  BY <1>0, <1>1, <1>3, <1>4, <1>5, WrittenCurrent DEF CurrentInv
<1>7. CurrentFetch'
  <2>1. \A k \in Levels : k < to => AtLevel(k)' = AtLevel(k)
    <3>1. \A k \in Levels : k < to => k # i
      BY <1>0 DEF Levels
    <3> QED
      BY <1>1, <3>1 DEF Writes, SameCopies
  <2> QED
    BY <1>a, <1>0, <2>1 DEF CurrentInv, CurrentFetch
<1>8. PurgesClear'
  <2> SUFFICES ASSUME NEW u \in Calls(work'), Purges(u)
               PROVE  /\ Inclusive(u.level)
                      /\ \A j \in Levels : NextPurged(u) < j /\ j <= u.level => u.line.block \notin Held(j)'
    BY DEF PurgesClear
  <2>1. NextPurged(u) = i - 1 /\ Inclusive(i) /\ u.level = i /\ u.line.block \notin Held(i)'
    BY <1>2 DEF NextPurged, Purges
  <2>2. \A j \in Levels : i - 1 < j /\ j <= i => j = i
    BY <1>0 DEF Levels
  <2> QED
    BY <2>1, <2>2
<1>9. Missed' /\ HitFacts' /\ Flushed'
  BY <1>a DEF Missed, HitFacts, Flushed
<1> QED
  BY <1>1, <1>6, <1>7, <1>8, <1>9 DEF OrderInv, CurrentInv

\* A step of access() or flush() that does not uncover a copy, nor make one stale.
LEMMA StayCurrent ==
  ASSUME TypeInv, CurrentLevels, CurrentMemory,
         \A k \in Levels : Held(k)' \subseteq Held(k),
         \A k \in 0 .. N : \A b \in Blocks : Covered(2 * k + 1, b) => Covered(2 * k + 1, b)',
         \A k \in Levels : \A b \in Held(k)' :
           b \in Newest(k) => b \in Newest(k)' \/ Covered(2 * k + 1, b)',
         \A b \in memory : b \in memory' \/ Covered(2 * N + 1, b)'
  PROVE  CurrentLevels' /\ CurrentMemory'
<1>1. \A k \in Levels : k \in 0 .. N /\ \A b \in Held(k) : b \in Blocks
  <2> SUFFICES ASSUME NEW k \in Levels PROVE k \in 0 .. N /\ Held(k) \subseteq Blocks
    OBVIOUS
  <2>1. resident[k] \subseteq Blocks /\ buffer[k] \in Seq(Line)
    BY DEF TypeInv, LevelsOK
  <2>2. BlocksOf(buffer[k]) \subseteq Blocks
    <3>1. \A n \in DOMAIN buffer[k] : buffer[k][n] \in Line
      BY <2>1
    <3>2. \A l \in Line : l.block \in Blocks
      BY DEF Line
    <3> QED
      BY <3>1, <3>2 DEF BlocksOf
  <2>3. k \in 0 .. N
    BY NAssumption DEF Levels
  <2> QED
    BY <2>1, <2>2, <2>3, HeldIs
<1>2. CurrentLevels'
  <2> SUFFICES ASSUME NEW k \in Levels, NEW b \in Held(k)'
               PROVE  Covered(2 * k + 1, b)' \/ b \in Newest(k)'
    BY DEF CurrentLevels
  <2>1. b \in Held(k) /\ b \in Blocks /\ k \in 0 .. N
    BY <1>1
  <2>2. Covered(2 * k + 1, b) \/ b \in Newest(k)
    BY <2>1 DEF CurrentLevels
  <2> QED
    BY <2>1, <2>2
<1>3. CurrentMemory'
  <2>1. N \in 0 .. N
    BY NAssumption
  <2> QED
    BY <2>1 DEF CurrentMemory
<1> QED
  BY <1>2, <1>3

\* It makes no call,
LEMMA NoCallsCurrent ==
  ASSUME work' = << >>
  PROVE  CurrentCalls' /\ Ordered' /\ PurgesClear'
  BY CallsOfNone, DescendingNone DEF CurrentCalls, Ordered, PurgesClear

\* or it writes one line down.
LEMMA OneCallCurrent ==
  ASSUME NEW i \in 0 .. N, NEW line \in Line, work' = <<WriteBack(i, line)>>, line.fresh
  PROVE  /\ CurrentCalls' /\ Ordered' /\ PurgesClear'
         /\ \A p : 2 * i < p => Covered(p, line.block)'
<1> PICK t \in Task : t = WriteBack(i, line)
  BY CallType
<1>1. ~Purges(t) /\ Reaches(t) = i /\ Carries(t, line.block) /\ t.line.fresh
  BY WriteBackFields
<1>2. work' = <<t>> \o << >> /\ << >> \in Seq(Task)
  BY StackType
<1>3. Calls(work') = {t} /\ Descending(work')
  BY <1>2, CallsPush, DescendingPush, DescendingNone, CallsOfNone
<1> QED
  BY <1>1, <1>3 DEF CurrentCalls, Ordered, PurgesClear, Covered

LEMMA SameCurrent ==
  ASSUME TypeInv, CurrentLevels, CurrentMemory, work = << >>, work' = << >>, memory' = memory,
         \A k \in Levels : SameCopies(k), \A p \in Int : \A b : Pending(p, b) => Pending(p, b)'
  PROVE  CurrentLevels' /\ CurrentMemory' /\ CurrentCalls' /\ Ordered' /\ PurgesClear'
<1>1. ASSUME NEW k \in 0 .. N, NEW b \in Blocks, Covered(2 * k + 1, b)
      PROVE  Covered(2 * k + 1, b)'
  <2>1. 2 * k + 1 \in Int
    OBVIOUS
  <2>2. Calls(work) = {}
    BY CallsOfNone
  <2> QED
    BY <1>1, <2>1, <2>2 DEF Covered, SameCopies
<1>2. \A k \in Levels : Held(k)' = Held(k) /\ Newest(k)' = Newest(k)
  BY DEF SameCopies
<1> QED
  BY <1>1, <1>2, StayCurrent, NoCallsCurrent

LEMMA BeginAccessFresh ==
  ASSUME TypeInv, FreshInv, NEW b \in Blocks, NEW store \in BOOLEAN, BeginAccess(b, store)
  PROVE  OrderInv' /\ CurrentInv'
<1>1. /\ pc = "idle" /\ pc' = "probe" /\ work = << >> /\ work' = << >> /\ memory' = memory
      /\ UNCHANGED <<contents, fresh>>
      /\ req'.level = 0 /\ req'.taken = -1
  BY DEF BeginAccess, NoRequest, history, TypeInv, StackOK
<1>2. \A k \in Levels : SameCopies(k)
  BY <1>1, ContentsSame
<1>3. \A p \in Int : \A c : ~Pending(p, c)
  BY <1>1 DEF Pending
<1>4. CurrentLevels' /\ CurrentMemory' /\ CurrentCalls' /\ Ordered' /\ PurgesClear'
  BY <1>1, <1>2, <1>3, SameCurrent DEF FreshInv, CurrentInv
<1>5. Missed' /\ HitFacts' /\ Flushed' /\ CurrentFetch'
  <2>1. \A k \in Levels : ~(k < 0)
    BY DEF Levels
  <2> QED
    BY <1>1, <2>1 DEF Missed, HitFacts, Flushed, CurrentFetch
<1> QED
  BY <1>4, <1>5 DEF OrderInv, CurrentInv

LEMMA ProbeMissFresh ==
  ASSUME TypeInv, FreshInv, ProbeMiss
  PROVE  OrderInv' /\ CurrentInv'
<1> PICK i \in Levels, b \in Blocks : i = req.level /\ b = req.block
  BY NAssumption DEF ProbeMiss, TypeInv, LocalsOK, Request, Levels
<1> DEFINE takes == req.write /\ WriteAllocate[i]
<1>1. /\ work = << >> /\ work' = << >> /\ UNCHANGED <<contents, fresh>> /\ ~Contains(i, b)
      /\ pc = "probe" /\ pc' = "probe" /\ req \in Request /\ memory' = memory
      /\ req' = [req EXCEPT !.level = i + 1,
                            !.write = @ /\ ~takes,
                            !.taken = IF takes THEN i ELSE @,
                            !.fillFrom = IF takes THEN i ELSE @,
                            !.forward = IF takes /\ WriteThrough[i] THEN i + 1 ELSE @]
  BY DEF ProbeMiss, TypeInv, StackOK, LocalsOK
<1> HIDE DEF takes
<1>2. /\ req'.block = b /\ req'.level = i + 1
      /\ req'.taken = IF takes THEN i ELSE req.taken
      /\ req'.forward = IF takes /\ WriteThrough[i] THEN i + 1 ELSE req.forward
  BY <1>1 DEF Request
<1>3. \A k \in Levels : SameCopies(k)
  BY <1>1, ContentsSame
<1>4. \A p \in Int : \A c : ~Pending(p, c)
  BY <1>1 DEF Pending
<1>5. CurrentLevels' /\ CurrentMemory' /\ CurrentCalls' /\ Ordered' /\ PurgesClear'
  BY <1>1, <1>3, <1>4, SameCurrent DEF FreshInv, CurrentInv
<1>6. Missed'
  <2> SUFFICES ASSUME NEW k \in Levels, k < i + 1 PROVE b \notin Held(k)'
    BY <1>1, <1>2 DEF Missed
  <2>1. k = i \/ k < i
    BY DEF Levels
  <2>2. b \notin Held(i)
    BY <1>1 DEF Contains, Held
  <2> QED
    BY <1>1, <1>3, <2>1, <2>2 DEF FreshInv, OrderInv, Missed, SameCopies
<1>7. HitFacts'
  <2>1. i + 1 >= 0
    BY DEF Levels
  <2> QED
    BY <1>1, <1>2, <2>1 DEF FreshInv, OrderInv, HitFacts
<1>8. Flushed' /\ CurrentFetch'
  BY <1>1 DEF Flushed, CurrentFetch
<1> QED
  BY <1>5, <1>6, <1>7, <1>8 DEF OrderInv, CurrentInv

LEMMA ReachMemoryFresh ==
  ASSUME TypeInv, FreshInv, ReachMemory
  PROVE  OrderInv' /\ CurrentInv'
<1>1. /\ work = << >> /\ work' = << >> /\ UNCHANGED <<contents, fresh>> /\ memory' = memory
      /\ pc = "probe" /\ pc' = "settle" /\ req.level = N /\ req.hit = N /\ req \in Request
      /\ req' = [req EXCEPT !.fillFrom = IF req.write THEN N ELSE @]
  BY DEF ReachMemory, TypeInv, StackOK, LocalsOK
<1>2. req'.block = req.block /\ req'.hit = N /\ req'.taken = req.taken /\ req'.forward = req.forward
  BY <1>1 DEF Request
<1>3. \A k \in Levels : SameCopies(k)
  BY <1>1, ContentsSame
<1>4. \A p \in Int : \A c : ~Pending(p, c)
  BY <1>1 DEF Pending
<1>5. CurrentLevels' /\ CurrentMemory' /\ CurrentCalls' /\ Ordered' /\ PurgesClear'
  BY <1>1, <1>3, <1>4, SameCurrent DEF FreshInv, CurrentInv
<1>6. Missed'
  BY <1>1, <1>2, <1>3 DEF FreshInv, OrderInv, Missed, SameCopies
<1>7. HitFacts'
  <2>1. ~(N < N)
    BY NAssumption
  <2> QED
    BY <1>1, <1>2, <2>1 DEF FreshInv, OrderInv, HitFacts
<1>8. Flushed' /\ CurrentFetch'
  BY <1>1 DEF Flushed, CurrentFetch
<1> QED
  BY <1>5, <1>6, <1>7, <1>8 DEF OrderInv, CurrentInv

\* The level that hits keeps its copies.  A store may clean the one that was hit, and
\* then goes on as a duplicate.
LEMMA HitFresh ==
  ASSUME TypeInv, TypeInv', FreshInv, pc = "probe", NEW i \in Levels, i = req.level, req' = HitAt(i),
         pc' = "settle", work' = << >>, memory' = memory, NEW b \in Blocks, b = req.block,
         \A k \in Levels : Held(k)' = Held(k), \A k \in Levels : k # i => SameCopies(k),
         \A c : c # b => CopyStays(i, c),
         b \in Newest(i) => b \in Newest(i)',
         b \in AtLevel(i) => b \in AtLevel(i)' \/ (req.write /\ WriteThrough[i]),
         b \in resident'[i]
  PROVE  OrderInv' /\ CurrentInv'
<1>1. work = << >> /\ Calls(work) = {} /\ req \in Request
  BY CallsOfNone DEF TypeInv, StackOK, LocalsOK
<1>2. /\ req'.block = b /\ req'.hit = i
      /\ req'.taken = (IF req.write THEN i ELSE req.taken)
      /\ req'.forward = (IF req.write /\ WriteThrough[i] THEN i + 1 ELSE req.forward)
  BY <1>1 DEF HitAt, Request
<1>3. \A p \in Int : \A c : ~Pending(p, c)
  BY DEF Pending
<1>4. ASSUME NEW k \in 0 .. N, NEW c \in Blocks, Covered(2 * k + 1, c)
      PROVE  Covered(2 * k + 1, c)'
  <2>1. PICK j \in Levels : 2 * j + 1 < 2 * k + 1 /\ c \in AtLevel(j)
    <3>1. 2 * k + 1 \in Int
      OBVIOUS
    <3> QED
      BY <1>1, <1>3, <1>4, <3>1 DEF Covered
  <2>2. CASE c \in AtLevel(j)'
    BY <2>1, <2>2 DEF Covered
  <2>3. CASE c \notin AtLevel(j)'
    <3>1. j = i /\ c = b /\ req.write /\ WriteThrough[i]
      BY <2>1, <2>3 DEF SameCopies, CopyStays
    <3>2. 2 * (i + 1) < 2 * k + 1
      BY <2>1, <3>1 DEF Levels
    <3>3. Pending(2 * k + 1, c)'
      BY <1>2, <3>1, <3>2 DEF Pending
    <3> QED
      BY <3>3 DEF Covered
  <2> QED
    BY <2>2, <2>3
<1>5. ASSUME NEW k \in Levels, NEW c \in Held(k)', c \in Newest(k)
      PROVE  c \in Newest(k)'
  BY <1>5 DEF SameCopies, CopyStays
<1>6. CurrentLevels' /\ CurrentMemory' /\ CurrentCalls' /\ Ordered' /\ PurgesClear'
  BY <1>4, <1>5, StayCurrent, NoCallsCurrent DEF FreshInv, CurrentInv
<1>7. Missed'
  BY <1>2 DEF FreshInv, OrderInv, Missed
<1>8. HitFacts'
  <2>1. i + 1 >= 0
    BY DEF Levels
  <2> QED
    BY <1>2, <2>1 DEF FreshInv, OrderInv, HitFacts
<1>9. Flushed' /\ CurrentFetch'
  BY DEF Flushed, CurrentFetch
<1> QED
  BY <1>6, <1>7, <1>8, <1>9 DEF OrderInv, CurrentInv

LEMMA ProbeHitFresh ==
  ASSUME TypeInv, TypeInv', FreshInv, ProbeHit
  PROVE  OrderInv' /\ CurrentInv'
<1> PICK i \in Levels, b \in Blocks : i = req.level /\ b = req.block
  BY NAssumption DEF ProbeHit, TypeInv, LocalsOK, Request, Levels
<1>1. /\ work' = << >> /\ UNCHANGED <<resident, buffer, fresh, memory>>
      /\ pc = "probe" /\ pc' = "settle" /\ req' = HitAt(i) /\ b \in resident[i]
      /\ dirty' = [dirty EXCEPT ![i] = With(dirty[i], b, DirtyAfterHit(i, b \in dirty[i]))]
  BY DEF ProbeHit, TypeInv, StackOK
<1>2. OnlyLevel(i) /\ OnlyFresh(i) /\ dirty'[i] = With(dirty[i], b, DirtyAfterHit(i, b \in dirty[i]))
  BY <1>1 DEF OnlyLevel, OnlyFresh, TypeInv, LevelsOK
<1>3. \A k \in Levels : k # i => SameCopies(k)
  BY <1>2, OthersSame
<1>4. \A k \in Levels : Held(k)' = Held(k)
  BY <1>1, HeldUnchanged
<1>5. \A c : c # b => CopyStays(i, c)
  BY <1>1, <1>2 DEF CopyStays, AtLevel, Newest, With
<1>6. b \in Newest(i) => b \in Newest(i)'
  BY <1>1 DEF Newest
<1>7. b \in AtLevel(i) => b \in AtLevel(i)' \/ (req.write /\ WriteThrough[i])
  BY <1>1, <1>2 DEF AtLevel, With, DirtyAfterHit
<1> QED
  BY <1>1, <1>3, <1>4, <1>5, <1>6, <1>7, HitFresh

LEMMA ProbeVictimHitFresh ==
  ASSUME TypeInv, TypeInv', FreshInv, ProbeVictimHit
  PROVE  OrderInv' /\ CurrentInv'
<1> USE DEF FreshInv
<1> PICK i \in Levels, b \in Blocks : i = req.level /\ b = req.block
  BY NAssumption DEF ProbeVictimHit, TypeInv, LocalsOK, Request, Levels
<1>0. LevelsOK /\ SingleCopy /\ ConservationInv
  BY DEF InclusionInv, ConservationInv, LinesInv, TypeInv
<1> DEFINE line == [LineOf(i, b) EXCEPT !.dirty = DirtyAfterHit(i, LineOf(i, b).dirty)]
<1>1. /\ memory' = memory /\ pc = "probe" /\ pc' = "settle" /\ req' = HitAt(i)
      /\ b \notin resident[i] /\ b \in Buffered(i)
      /\ Allocate(i, line, Without(buffer[i], b), << >>)
  BY DEF ProbeVictimHit
<1>2. /\ work' = << >> /\ b \in resident'[i]
      /\ \A k \in Levels : Held(k)' = Held(k)
  BY <1>0, VictimHitQuiet, VictimHitHeld
<1>3. b \in Held(i) /\ b \in BlocksOf(buffer[i])
  BY <1>1 DEF Held, Buffered, BlocksOf
<1> PICK d \in BOOLEAN : d = DirtyAfterHit(i, LineOf(i, b).dirty)
  BY DEF DirtyAfterHit
<1>4. /\ line \in Line /\ line.block = b /\ line.dirty = d
      /\ line.fresh <=> b \in Newest(i)
      /\ b \in AtLevel(i) => d \/ (req.write /\ WriteThrough[i])
  <2>1. /\ LineOf(i, b) \in Line /\ LineOf(i, b).block = b
        /\ LineOf(i, b).dirty <=> b \in AtLevel(i)
        /\ LineOf(i, b).fresh <=> b \in Newest(i)
    BY <1>0, <1>3, LineFlags
  <2>2. b \in AtLevel(i) => d \/ (req.write /\ WriteThrough[i])
    BY <2>1 DEF DirtyAfterHit
  <2> QED
    BY <2>1, <2>2 DEF Line
<1> PICK lines \in Seq(Line) : lines = Without(buffer[i], b)
  BY <1>0, WithoutType DEF LevelsOK
<1> PICK new \in Line : new = line
  BY <1>4
<1>5. Allocate(i, new, lines, << >>) /\ << >> \in Seq(Task)
  BY <1>1
<1>6. new.block = b /\ new.dirty = d /\ (new.fresh <=> b \in Newest(i))
  BY <1>4
<1> HIDE DEF line
<1>7. /\ BlocksOf(lines) = BlocksOf(buffer[i]) \ {b} /\ Distinct(lines)
      /\ DirtyBlocks(lines) = DirtyBlocks(buffer[i]) \ {b} /\ FreshBlocks(lines) = FreshBlocks(buffer[i]) \ {b}
      /\ resident[i] \cap BlocksOf(lines) = {} /\ new.block \notin BlocksOf(lines)
  <2>1. buffer[i] \in Seq(Line) /\ Distinct(buffer[i]) /\ resident[i] \cap BlocksOf(buffer[i]) = {}
    BY <1>0 DEF LevelsOK, SingleCopy
  <2>2. /\ BlocksOf(lines) = BlocksOf(buffer[i]) \ {b} /\ Distinct(lines)
        /\ DirtyBlocks(lines) = DirtyBlocks(buffer[i]) \ {b} /\ FreshBlocks(lines) = FreshBlocks(buffer[i]) \ {b}
    BY <2>1, WithoutBlocks, WithoutFresh
  <2> QED
    BY <1>6, <2>1, <2>2
<1>8. /\ OnlyLevel(i) /\ OnlyFresh(i)
      /\ d => b \in AtLevel(i)'
      /\ b \in Newest(i) => b \in Newest(i)'
      /\ Takes(i, b, resident[i] \cup BlocksOf(lines), dirty[i] \cup DirtyBlocks(lines),
               fresh[i] \cup FreshBlocks(lines), << >>)
  <2>1. /\ OnlyLevel(i) /\ OnlyFresh(i)
        /\ new.dirty \/ new.block \in dirty[i] => new.block \in AtLevel(i)'
        /\ new.fresh => new.block \in Newest(i)'
        /\ Takes(i, new.block, resident[i] \cup BlocksOf(lines), dirty[i] \cup DirtyBlocks(lines),
                 fresh[i] \cup FreshBlocks(lines), << >>)
    <3> HIDE DEF FreshInv
    <3> QED
      BY <1>0, <1>5, <1>7, AllocateTakes
  <2> QED
    BY <1>6, <2>1
<1>9. \A c : c # b => CopyStays(i, c)
  <2> SUFFICES ASSUME NEW c, c # b PROVE CopyStays(i, c)
    OBVIOUS
  <2>1. c \in AtLevel(i) \/ c \in Newest(i) => c \in Held(i)'
    BY <1>0, <1>2, LevelFlagsHeld
  <2>2. c \in AtLevel(i) => c \in dirty[i] \cup DirtyBlocks(lines)
    BY <1>7 DEF AtLevel
  <2>3. c \in Newest(i) => c \in fresh[i] \cup FreshBlocks(lines)
    BY <1>7 DEF Newest
  <2>4. c \in Held(i)' => /\ c \in dirty[i] \cup DirtyBlocks(lines) => c \in AtLevel(i)'
                          /\ c \in fresh[i] \cup FreshBlocks(lines) => c \in Newest(i)'
    BY <1>8 DEF Takes
  <2> QED
    BY <2>1, <2>2, <2>3, <2>4 DEF CopyStays
<1>10. \A k \in Levels : k # i => SameCopies(k)
  BY <1>8, OthersSame
<1> QED
  BY <1>1, <1>2, <1>4, <1>8, <1>9, <1>10, HitFresh

\* What a store leaves of the current copies of a level, but for the one it was
\* applied to.
LEMMA SupersededFresh ==
  ASSUME LevelsOK, SingleCopy, NEW i \in Levels, NEW b
  PROVE  \A c \in FreshBlocks(buffer[i]) : c = b \/ c \in FreshBlocks(Superseded(i, b))
<1> DEFINE line == [BufferedLine(i, b) EXCEPT !.fresh = FALSE]
<1>1. buffer[i] \in Seq(Line)
  BY DEF LevelsOK
<1>2. b \in BlocksOf(buffer[i]) => line.block = b
  BY BufferedLineType DEF Line, Buffered, BlocksOf
<1>3. Superseded(i, b) = Replaced(buffer[i], b, line)
  BY DEF Superseded
<1> HIDE DEF line
<1> QED
  BY <1>1, <1>2, <1>3, ReplacedFresh

\* A store supersedes every copy but the one it was applied to, and its modified data
\* is above them: in the line that hit, in the fill, or in the duplicate.
LEMMA SettleFresh ==
  ASSUME TypeInv, TypeInv', FreshInv, Settle
  PROVE  OrderInv' /\ CurrentInv'
<1> USE DEF FreshInv
<1> PICK b \in Blocks, hit \in 0 .. N, to \in 0 .. N, taken \in Levels \cup {-1}, forward \in Int :
      b = req.block /\ hit = req.hit /\ to = req.fillFrom /\ taken = req.taken /\ forward = req.forward
  BY NAssumption DEF Settle, TypeInv, LocalsOK, Request
<1> DEFINE stored == taken >= 0
           current == IF hit < N THEN LineOf(hit, b).fresh ELSE b \in memory
<1>0. /\ LevelsOK /\ SingleCopy /\ N \in Int /\ hit \in Int /\ to \in Int /\ taken \in Int
      /\ hit < N => hit \in Levels
      /\ \A k \in Levels : k \in Int /\ k < N
  BY NAssumption DEF TypeInv, InclusionInv, ConservationInv, LinesInv, Levels
<1>1. /\ work = << >> /\ work' = << >> /\ req' = req /\ pc = "settle" /\ pc' \in {"move", "fill"}
      /\ fetch'.block = b /\ fetch'.at = hit - 1 /\ fetch'.to = to
      /\ fetch'.dirty = (stored /\ ~WriteThrough[taken]) /\ fetch'.fresh = current
      /\ fresh' = [i \in Levels |-> IF stored /\ ~(i = taken /\ i = hit) THEN fresh[i] \ {b} ELSE fresh[i]]
      /\ buffer' = [i \in Levels |-> IF stored THEN Superseded(i, b) ELSE buffer[i]]
      /\ memory' = IF stored THEN memory \ {b} ELSE memory
      /\ UNCHANGED <<resident, dirty>>
  BY DEF Settle
<1>2. \A k \in Levels : k < hit => b \notin Held(k)
  BY <1>1 DEF OrderInv, Missed
<1>3. \A k \in Levels : Held(k)' = Held(k)
  BY SettleHeld DEF InclusionInv
\* Nothing is above the level that hit.
<1>4. ~Covered(2 * hit + 1, b)
  <2>1. \A k \in Levels : 2 * k + 1 < 2 * hit + 1 => b \notin AtLevel(k)
    <3>1. \A k \in Levels : 2 * k + 1 < 2 * hit + 1 => k < hit
      BY <1>0
    <3> QED
      BY <1>0, <1>2, <3>1, LevelFlagsHeld
  <2>2. Calls(work) = {}
    BY <1>1, CallsOfNone
  <2>3. ~(2 * (hit + 1) < 2 * hit + 1)
    BY <1>0
  <2>4. ~Pending(2 * hit + 1, b)
    BY <1>1, <2>3 DEF Pending
  <2> QED
    BY <2>1, <2>2, <2>4 DEF Covered
<1>5. current
  <2>1. CASE hit < N
    <3>1. b \in Held(hit) /\ hit \in Levels
      BY <1>0, <1>1, <2>1 DEF TypeInv, HitHolds, Contains, Held
    <3>2. b \in Newest(hit)
      BY <1>4, <3>1 DEF CurrentInv, CurrentLevels
    <3>3. LineOf(hit, b).fresh
      BY <1>0, <3>1, <3>2, LineFlags
    <3> QED
      BY <2>1, <3>3
  <2>2. CASE ~(hit < N)
    <3>1. hit = N
      BY <1>0, <2>2
    <3> QED
      BY <1>4, <2>2, <3>1 DEF CurrentInv, CurrentMemory
  <2> QED
    BY <2>1, <2>2
<1> HIDE DEF stored, current
<1>6. \A k \in Levels : AtLevel(k) \subseteq AtLevel(k)'
  <2> SUFFICES ASSUME NEW k \in Levels PROVE AtLevel(k) \subseteq AtLevel(k)'
    OBVIOUS
  <2>1. buffer'[k] = Superseded(k, b) \/ buffer'[k] = buffer[k]
    BY <1>1
  <2>2. DirtyBlocks(buffer[k]) \subseteq DirtyBlocks(buffer'[k])
    BY <1>0, <2>1, SupersededKeeps
  <2> QED
    BY <1>1, <2>2 DEF AtLevel
<1>7. ASSUME NEW k \in 0 .. N, NEW c \in Blocks, Covered(2 * k + 1, c)
      PROVE  Covered(2 * k + 1, c)'
  <2>1. CASE \E j \in Levels : 2 * j + 1 < 2 * k + 1 /\ c \in AtLevel(j)
    BY <1>6, <2>1 DEF Covered
  <2>2. CASE Pending(2 * k + 1, c)
    <3>1. req.block = c /\ req.forward = hit + 1 /\ 2 * req.forward < 2 * k + 1
      BY <1>1, <2>2 DEF Pending
    <3>2. 0 <= hit + 1
      BY <1>0
    <3>3. Pending(2 * k + 1, c)'
      BY <1>1, <3>1, <3>2 DEF Pending
    <3> QED
      BY <3>3 DEF Covered
  <2>3. Calls(work) = {}
    BY <1>1, CallsOfNone
  <2> QED
    BY <1>7, <2>1, <2>2, <2>3 DEF Covered
\* The store covers the copies below the one it was applied to.
<1>8. ASSUME stored, NEW k \in 0 .. N, hit <= k, ~(k = hit /\ taken = hit)
      PROVE  Covered(2 * k + 1, b)'
  <2>1. to = taken /\ taken <= hit /\ taken \in Levels
    BY <1>1, <1>8 DEF stored, InclusionInv, ConservationInv, LinesInv, ReqFacts
  <2>2. k \in Int /\ taken < k
    BY <1>0, <1>8, <2>1
  <2>3. CASE WriteThrough[taken]
    <3>1. forward = taken + 1 /\ 0 <= forward
      BY <1>1, <1>8, <2>1, <2>3 DEF stored, OrderInv, HitFacts, InclusionInv, LocalsInv, ForwardFacts
    <3>2. 2 * forward < 2 * k + 1
      BY <1>0, <2>2, <3>1
    <3>3. Pending(2 * k + 1, b)'
      BY <1>1, <3>1, <3>2 DEF Pending
    <3> QED
      BY <3>3 DEF Covered
  <2>4. CASE ~WriteThrough[taken] /\ taken < hit
    <3>1. to <= hit - 1 /\ 2 * to < 2 * k + 1
      BY <1>0, <2>1, <2>2, <2>4
    <3>2. Pending(2 * k + 1, b)'
      BY <1>1, <1>8, <2>4, <3>1 DEF Pending
    <3> QED
      BY <3>2 DEF Covered
  <2>5. CASE ~WriteThrough[taken] /\ taken = hit
    <3>1. b \in dirty[hit]
      BY <1>1, <1>8, <2>5 DEF stored, InclusionInv, ConservationInv, LinesInv, ReqFacts
    <3>2. b \in AtLevel(hit)' /\ hit \in Levels
      BY <1>6, <2>1, <2>5, <3>1 DEF AtLevel
    <3>3. 2 * hit + 1 < 2 * k + 1
      BY <1>0, <2>2, <2>5
    <3> QED
      BY <3>2, <3>3 DEF Covered
  <2> QED
    BY <1>0, <2>1, <2>3, <2>4, <2>5
<1>9. ASSUME NEW k \in Levels, NEW c \in Held(k)', c \in Newest(k)
      PROVE  c \in Newest(k)' \/ Covered(2 * k + 1, c)'
  <2>1. CASE ~stored
    BY <1>1, <1>9, <2>1 DEF Newest
  <2>2. CASE stored /\ c # b
    <3>1. fresh'[k] = fresh[k] \/ fresh'[k] = fresh[k] \ {b}
      BY <1>1
    <3>2. buffer'[k] = Superseded(k, b)
      BY <1>1, <2>2
    <3>3. c \in FreshBlocks(buffer[k]) => c \in FreshBlocks(buffer'[k])
      BY <1>0, <2>2, <3>2, SupersededFresh
    <3> QED
      BY <1>9, <2>2, <3>1, <3>3 DEF Newest
  <2>3. CASE stored /\ c = b
    <3>1. b \in Held(k) /\ hit <= k /\ k \in 0 .. N
      BY <1>0, <1>2, <1>3, <1>9, <2>3 DEF Levels
    <3>2. CASE k = hit /\ taken = hit
      <4>1. b \in resident[k]
        BY <1>0, <1>1, <3>2 DEF OrderInv, HitFacts
      <4>2. b \notin BlocksOf(buffer[k])
        BY <1>0, <4>1 DEF SingleCopy
      <4>3. b \in fresh[k]
        BY <1>9, <2>3, <4>2 DEF Newest, FreshBlocks, BlocksOf
      <4>4. fresh'[k] = fresh[k]
        BY <1>1, <3>2
      <4> QED
        BY <2>3, <4>3, <4>4 DEF Newest
    <3> QED
      BY <1>8, <2>3, <3>1, <3>2
  <2> QED
    BY <2>1, <2>2, <2>3
<1>10. ASSUME NEW c \in memory, c \notin memory'
       PROVE  Covered(2 * N + 1, c)'
  <2>1. stored /\ c = b
    BY <1>1, <1>10
  <2>2. taken <= hit /\ taken < N /\ N \in 0 .. N
    BY <1>0, <1>1, <2>1 DEF stored, InclusionInv, ConservationInv, LinesInv, ReqFacts
  <2> QED
    BY <1>0, <1>8, <2>1, <2>2
<1>11. CurrentLevels' /\ CurrentMemory' /\ CurrentCalls' /\ Ordered' /\ PurgesClear'
  BY <1>1, <1>3, <1>7, <1>9, <1>10, StayCurrent, NoCallsCurrent DEF CurrentInv
<1>12. stored => to = taken /\ (WriteThrough[taken] => forward = to + 1)
  BY <1>1 DEF stored, OrderInv, HitFacts, InclusionInv, ConservationInv, LinesInv, ReqFacts,
              LocalsInv, ForwardFacts
<1>13. fetch'.keep = taken /\ (taken >= 0 <=> stored)
  BY DEF Settle, stored
<1>14. CurrentFetch' /\ Missed' /\ HitFacts' /\ Flushed'
  BY <1>1, <1>5, <1>12, <1>13 DEF CurrentFetch, Missed, HitFacts, Flushed
<1> QED
  BY <1>11, <1>14 DEF OrderInv, CurrentInv

\* The dirty bit of a block that leaves an exclusive level goes with the fill.
LEMMA MoveUpFresh ==
  ASSUME TypeInv, TypeInv', FreshInv, MoveUp
  PROVE  OrderInv' /\ CurrentInv'
<1> USE DEF FreshInv
<1> PICK i \in Levels, b \in Blocks : i = req.hit /\ b = fetch.block
  BY NAssumption DEF MoveUp, TypeInv, LocalsOK, HitHolds, Request, Levels
<1>0. /\ pc = "move" /\ pc' = "fill" /\ Contains(i, b) /\ Invalidate(i, b) /\ LevelsOK /\ SingleCopy
      /\ fetch \in Fetch /\ fetch' = [fetch EXCEPT !.dirty = fetch.dirty \/ LineOf(i, b).dirty]
      /\ req' = req /\ work = << >> /\ work' = << >> /\ memory' = memory
      /\ fetch.at = i - 1 /\ fetch.to <= fetch.at /\ b = req.block
  BY DEF MoveUp, TypeInv, LocalsOK, HitHolds, StackOK, InclusionInv, ConservationInv, LinesInv, FetchFacts,
         LocalsInv, ForwardFacts
<1>1. /\ fetch'.block = b /\ fetch'.at = fetch.at /\ fetch'.to = fetch.to /\ fetch'.fresh = fetch.fresh
      /\ fetch'.dirty = (fetch.dirty \/ LineOf(i, b).dirty) /\ fetch'.keep = fetch.keep
  BY <1>0 DEF Fetch
<1>2. fetch.to \in Int /\ fetch.at \in Int /\ fetch.to <= i - 1
  BY <1>0, IntegerFields, NAssumption DEF Levels
<1>3. /\ \A k \in Levels : k # i => SameCopies(k)
      /\ Held(i)' = Held(i) \ {b} /\ \A c : c # b => CopyStays(i, c)
  BY <1>0, InvalidateDrops
<1>4. b \in AtLevel(i) => fetch'.dirty
  <2>1. b \in Held(i)
    BY <1>0 DEF Contains, Held
  <2> QED
    BY <1>0, <1>1, <2>1, LineFlags
<1>5. ASSUME NEW k \in 0 .. N, NEW c \in Blocks, Covered(2 * k + 1, c)
      PROVE  Covered(2 * k + 1, c)'
  <2>1. ASSUME NEW j \in Levels, 2 * j + 1 < 2 * k + 1, c \in AtLevel(j)
        PROVE  Covered(2 * k + 1, c)'
    <3>1. CASE j = i /\ c = b
      <4>1. 2 * fetch.to < 2 * k + 1
        BY <1>2, <2>1, <3>1 DEF Levels
      <4>2. Pending(2 * k + 1, c)'
        BY <1>0, <1>1, <1>4, <2>1, <3>1, <4>1 DEF Pending
      <4> QED
        BY <4>2 DEF Covered
    <3>2. CASE ~(j = i /\ c = b)
      <4>1. c \in AtLevel(j)'
        BY <1>3, <2>1, <3>2 DEF SameCopies, CopyStays
      <4> QED
        BY <2>1, <4>1 DEF Covered
    <3> QED
      BY <3>1, <3>2
  <2>2. CASE Pending(2 * k + 1, c)
    <3>1. Pending(2 * k + 1, c)'
      BY <1>0, <1>1, <2>2 DEF Pending
    <3> QED
      BY <3>1 DEF Covered
  <2>3. Calls(work) = {}
    BY <1>0, CallsOfNone
  <2> QED
    BY <1>5, <2>1, <2>2, <2>3 DEF Covered
<1>6. \A k \in Levels : Held(k)' \subseteq Held(k)
  BY <1>3 DEF SameCopies
<1>7. \A k \in Levels : \A c \in Held(k)' : c \in Newest(k) => c \in Newest(k)'
  BY <1>3 DEF SameCopies, CopyStays
<1>8. CurrentLevels' /\ CurrentMemory' /\ CurrentCalls' /\ Ordered' /\ PurgesClear'
  BY <1>0, <1>5, <1>6, <1>7, StayCurrent, NoCallsCurrent DEF CurrentInv
<1>9. CurrentFetch' /\ Missed' /\ HitFacts' /\ Flushed'
  BY <1>0, <1>1 DEF CurrentInv, CurrentFetch, Missed, HitFacts, Flushed
<1> QED
  BY <1>8, <1>9 DEF OrderInv, CurrentInv

\* The duplicate of a store is newer than every copy below the level that took it.
LEMMA ForwardFresh ==
  ASSUME TypeInv, TypeInv', FreshInv, Forward
  PROVE  OrderInv' /\ CurrentInv'
<1> USE DEF FreshInv
<1> PICK b \in Blocks : b = req.block
  BY DEF Forward, TypeInv, LocalsOK
<1>0. /\ pc = "fill" /\ pc' = "observe" /\ work = << >> /\ fetch.at < fetch.to /\ memory' = memory
      /\ UNCHANGED <<contents, fresh>> /\ req.forward \in 0 .. N \cup {-1}
      /\ fetch.at \in Int /\ fetch.to \in Int
  BY IntegerFields, NAssumption DEF Forward, history, Levels
<1>1. \A k \in Levels : SameCopies(k)
  BY <1>0, ContentsSame
<1>2. CurrentFetch' /\ Missed' /\ HitFacts' /\ Flushed'
  BY <1>0 DEF CurrentFetch, Missed, HitFacts, Flushed
<1>3. \A p \in Int : \A c : Pending(p, c) => c = b /\ 0 <= req.forward /\ 2 * req.forward < p
  BY <1>0 DEF Pending
<1>4. CASE req.forward < 0
  <2>1. work' = << >>
    BY <1>4 DEF Forward
  <2>2. \A p \in Int : \A c : ~Pending(p, c)
    BY <1>0, <1>3, <1>4
  <2>3. CurrentLevels' /\ CurrentMemory' /\ CurrentCalls' /\ Ordered' /\ PurgesClear'
    BY <1>0, <1>1, <2>1, <2>2, SameCurrent DEF CurrentInv
  <2> QED
    BY <1>2, <2>3 DEF OrderInv, CurrentInv
<1>5. CASE ~(req.forward < 0)
  <2> PICK i \in 0 .. N : i = req.forward
    BY <1>0, <1>5
  <2> DEFINE duplicate == [block |-> b, dirty |-> TRUE, prefetched |-> FALSE, fresh |-> fetch.fresh]
  <2>1. fetch.fresh /\ fetch.fresh \in BOOLEAN
    BY <1>0, IntegerFields DEF CurrentInv, CurrentFetch, Fetch
  <2>2. duplicate \in Line /\ duplicate.block = b /\ duplicate.fresh
    BY <2>1 DEF Line
  <2>3. work' = <<WriteBack(i, duplicate)>>
    BY <1>5 DEF Forward
  <2> HIDE DEF duplicate
  <2>4. /\ CurrentCalls' /\ Ordered' /\ PurgesClear'
        /\ \A p : 2 * i < p => Covered(p, b)'
    BY <2>2, <2>3, OneCallCurrent
  <2>5. ASSUME NEW k \in 0 .. N, NEW c \in Blocks, Covered(2 * k + 1, c)
        PROVE  Covered(2 * k + 1, c)'
    <3>1. CASE \E j \in Levels : 2 * j + 1 < 2 * k + 1 /\ c \in AtLevel(j)
      BY <1>1, <3>1 DEF Covered, SameCopies
    <3>2. CASE Pending(2 * k + 1, c)
      <4>1. 2 * k + 1 \in Int
        OBVIOUS
      <4>2. c = b /\ 2 * i < 2 * k + 1
        BY <1>3, <3>2, <4>1
      <4> QED
        BY <2>4, <4>2
    <3>3. Calls(work) = {}
      BY <1>0, CallsOfNone
    <3> QED
      BY <2>5, <3>1, <3>2, <3>3 DEF Covered
  <2>6. CurrentLevels' /\ CurrentMemory'
    BY <1>0, <1>1, <2>5, StayCurrent DEF CurrentInv, SameCopies
  <2> QED
    BY <1>2, <2>4, <2>6 DEF OrderInv, CurrentInv
<1> QED
  BY <1>4, <1>5

\* Clearing a prefetched flag.
LEMMA ClearPrefetchedFresh ==
  ASSUME LevelsOK, SingleCopy, NEW i \in Levels, NEW b, ClearPrefetched(i, b),
         UNCHANGED <<resident, dirty, fresh>>
  PROVE  \A k \in Levels : \A c : CopyStays(k, c)
<1>1. CASE UNCHANGED buffer
  BY <1>1 DEF CopyStays, AtLevel, Newest
<1>2. CASE ~UNCHANGED buffer
  <2> DEFINE line == [BufferedLine(i, b) EXCEPT !.prefetched = FALSE]
  <2>1. buffer' = [buffer EXCEPT ![i] = Replaced(buffer[i], b, line)]
    BY <1>2 DEF ClearPrefetched
  <2>2. b \in BlocksOf(buffer[i]) => /\ line.block = b /\ line.dirty = BufferedLine(i, b).dirty
                                     /\ line.fresh = BufferedLine(i, b).fresh
    BY BufferedLineType DEF Line, Buffered, BlocksOf
  <2> HIDE DEF line
  <2>3. buffer[i] \in Seq(Line) /\ Distinct(buffer[i]) /\ buffer'[i] = Replaced(buffer[i], b, line)
    BY <2>1 DEF LevelsOK, SingleCopy
  <2>4. b \in BlocksOf(buffer[i]) => /\ line.dirty <=> b \in DirtyBlocks(buffer[i])
                                     /\ line.fresh <=> b \in FreshBlocks(buffer[i])
    BY <2>2, <2>3, DirtyEntry, FreshEntry
  <2>5. DirtyBlocks(buffer[i]) \cup FreshBlocks(buffer[i]) \subseteq BlocksOf(buffer[i])
    BY DEF DirtyBlocks, FreshBlocks, BlocksOf
  <2>6. /\ \A c \in DirtyBlocks(buffer[i]) : c = b \/ c \in DirtyBlocks(buffer'[i])
        /\ b \in BlocksOf(buffer[i]) /\ line.dirty => b \in DirtyBlocks(buffer'[i])
    BY <2>2, <2>3, ReplacedBlocks
  <2>7. /\ \A c \in FreshBlocks(buffer[i]) : c = b \/ c \in FreshBlocks(buffer'[i])
        /\ b \in BlocksOf(buffer[i]) /\ line.fresh => b \in FreshBlocks(buffer'[i])
    BY <2>2, <2>3, ReplacedFresh
  <2>8. /\ DirtyBlocks(buffer[i]) \subseteq DirtyBlocks(buffer'[i])
        /\ FreshBlocks(buffer[i]) \subseteq FreshBlocks(buffer'[i])
    BY <2>4, <2>5, <2>6, <2>7
  <2>9. \A k \in Levels : k # i => buffer'[k] = buffer[k]
    BY <2>1
  <2>10. \A c : CopyStays(i, c)
    BY <2>8 DEF CopyStays, AtLevel, Newest
  <2>11. \A k \in Levels : k # i => \A c : CopyStays(k, c)
    BY <2>9 DEF CopyStays, AtLevel, Newest
  <2> QED
    BY <2>10, <2>11
<1> QED
  BY <1>1, <1>2

LEMMA ObserveFresh ==
  ASSUME TypeInv, TypeInv', FreshInv, Observe
  PROVE  OrderInv' /\ CurrentInv'
<1> USE DEF FreshInv
<1> PICK i \in Levels, b \in Blocks : i = req.level /\ b = req.block
  BY NAssumption DEF Observe, TypeInv, LocalsOK, Request, Levels, Deepest
<1>0. /\ work = << >> /\ work' = << >> /\ LevelsOK /\ SingleCopy /\ pc = "observe" /\ memory' = memory
      /\ UNCHANGED <<resident, dirty, fresh>>
  BY DEF Observe, history, TypeInv, InclusionInv, ConservationInv, LinesInv
<1>1. \A k \in Levels : Held(k)' = Held(k)
  BY ObserveHeld DEF InclusionInv
<1>2. \A k \in Levels : \A c : CopyStays(k, c)
  <2>1. CASE ClearPrefetched(i, b)
    BY <1>0, <2>1, ClearPrefetchedFresh
  <2>2. CASE UNCHANGED buffer
    BY <1>0, <2>2 DEF CopyStays, AtLevel, Newest
  <2> QED
    BY <2>1, <2>2 DEF Observe
<1>3. ASSUME NEW k \in 0 .. N, NEW c \in Blocks, Covered(2 * k + 1, c)
      PROVE  Covered(2 * k + 1, c)'
  <2>1. Calls(work) = {} /\ ~Pending(2 * k + 1, c)
    BY <1>0, CallsOfNone DEF Pending
  <2> QED
    BY <1>2, <1>3, <2>1 DEF Covered, CopyStays
<1>4. CurrentLevels' /\ CurrentMemory' /\ CurrentCalls' /\ Ordered' /\ PurgesClear'
  BY <1>0, <1>1, <1>2, <1>3, StayCurrent, NoCallsCurrent DEF CurrentInv, CopyStays
<1>5. pc' = "observe" \/ (pc' = "issue" /\ fetch'.to = i /\ fetch'.block \notin Held(i))
  <2>1. PICK target : IF target = None \/ Contains(i, target)
                      THEN UNCHANGED pc
                      ELSE /\ fetch' = [NoFetch EXCEPT !.block = target, !.to = i, !.keep = i]
                           /\ pc' = "issue"
    BY DEF Observe
  <2>2. ~Contains(i, target) => target \notin Held(i)
    BY DEF Contains, Held
  <2> QED
    BY <1>0, <2>1, <2>2 DEF NoFetch
<1>6. CurrentFetch' /\ Missed' /\ HitFacts' /\ Flushed'
  BY <1>1, <1>5 DEF CurrentFetch, Missed, HitFacts, Flushed
<1> QED
  BY <1>4, <1>6 DEF OrderInv, CurrentInv

\* What supplies a prefetch is current, but for modified data above the level that
\* asks for it.
LEMMA IssueFresh ==
  ASSUME TypeInv, TypeInv', FreshInv, Issue
  PROVE  OrderInv' /\ CurrentInv'
<1> USE DEF FreshInv
<1> PICK b \in Blocks, to \in Levels : b = fetch.block /\ to = fetch.to
  BY DEF Issue, TypeInv, LocalsOK, InclusionInv, ConservationInv, LinesInv, FetchFacts
<1>0. /\ pc = "issue" /\ pc' = "prefetch" /\ work = << >> /\ work' = << >> /\ fetch \in Fetch
      /\ LevelsOK /\ SingleCopy /\ memory' = memory
  BY DEF Issue, TypeInv, LocalsOK, StackOK, InclusionInv, ConservationInv, LinesInv
<1>1. Calls(work) = {} /\ \A p \in Int : \A c : ~Pending(p, c)
  BY <1>0, CallsOfNone DEF Pending
<1>2. b \notin AtLevel(to)
  BY <1>0, LevelFlagsHeld DEF OrderInv, Missed
<1>3. Missed' /\ HitFacts' /\ Flushed'
  BY <1>0 DEF Missed, HitFacts, Flushed
<1>4. CASE /\ {k \in Levels : k > to /\ Contains(k, b)} = {}
           /\ fetch' = [fetch EXCEPT !.at = N - 1, !.fresh = b \in memory]
           /\ UNCHANGED <<contents, fresh>>
  <2>1. fetch'.block = b /\ fetch'.to = to /\ fetch'.fresh = (b \in memory)
    BY <1>0, <1>4 DEF Fetch
  <2>2. \A k \in Levels : SameCopies(k)
    BY <1>4, ContentsSame
  <2>3. CurrentLevels' /\ CurrentMemory' /\ CurrentCalls' /\ Ordered' /\ PurgesClear'
    BY <1>0, <1>1, <2>2, SameCurrent DEF CurrentInv
  <2>4. b \in memory \/ \E k \in Levels : k < to /\ b \in AtLevel(k)
    <3>1. Covered(2 * N + 1, b) => \E k \in Levels : b \in AtLevel(k)
      <4>1. 2 * N + 1 \in Int
        BY NAssumption
      <4> QED
        BY <1>1, <4>1 DEF Covered
    <3>2. ASSUME NEW k \in Levels, b \in AtLevel(k) PROVE k < to
      <4>1. Contains(k, b)
        BY <1>0, <3>2, LevelFlagsHeld DEF Held, Contains
      <4> QED
        BY <1>2, <1>4, <3>2, <4>1 DEF Levels
    <3> QED
      BY <3>1, <3>2 DEF CurrentInv, CurrentMemory
  <2>5. CurrentFetch'
    BY <1>0, <2>1, <2>2, <2>4 DEF CurrentFetch, SameCopies
  <2> QED
    BY <1>3, <2>3, <2>5 DEF OrderInv, CurrentInv
<1>5. ASSUME NEW source \in Levels, source > to, Contains(source, b),
             \A k \in Levels : k > to /\ Contains(k, b) => source <= k,
             fetch' = [fetch EXCEPT !.at = source - 1,
                                    !.dirty = HandedDirty(source, b),
                                    !.fresh = LineOf(source, b).fresh],
             IF Exclusive(source) THEN Invalidate(source, b) ELSE UNCHANGED <<contents, fresh>>
      PROVE  OrderInv' /\ CurrentInv'
  <2>1. /\ fetch'.block = b /\ fetch'.to = to /\ fetch'.at = source - 1
        /\ fetch'.fresh = LineOf(source, b).fresh
        /\ fetch'.dirty = (Exclusive(source) /\ LineOf(source, b).dirty)
    BY <1>0, <1>5 DEF Fetch, HandedDirty
  <2>2. /\ b \in Held(source)
        /\ LineOf(source, b).dirty <=> b \in AtLevel(source)
        /\ LineOf(source, b).fresh <=> b \in Newest(source)
    <3>1. b \in Held(source)
      BY <1>5 DEF Contains, Held
    <3> QED
      BY <1>0, <3>1, LineFlags
  <2>3. /\ \A k \in Levels : k # source => SameCopies(k)
        /\ Held(source)' \subseteq Held(source)
        /\ \A c : CopyStays(source, c) \/ (c = b /\ Exclusive(source) /\ b \notin Held(source)')
    <3>1. CASE Exclusive(source)
      <4>1. /\ \A k \in Levels : k # source => SameCopies(k)
            /\ Held(source)' = Held(source) \ {b} /\ \A c : c # b => CopyStays(source, c)
        BY <1>0, <1>5, <3>1, InvalidateDrops
      <4> QED
        BY <3>1, <4>1
    <3>2. CASE ~Exclusive(source)
      BY <1>5, <3>2, ContentsSame DEF SameCopies, CopyStays
    <3> QED
      BY <3>1, <3>2
  <2>4. ASSUME NEW k \in 0 .. N, NEW c \in Blocks, Covered(2 * k + 1, c)
        PROVE  Covered(2 * k + 1, c)'
    <3>1. PICK j \in Levels : 2 * j + 1 < 2 * k + 1 /\ c \in AtLevel(j)
      <4>1. 2 * k + 1 \in Int
        OBVIOUS
      <4> QED
        BY <1>1, <2>4, <4>1 DEF Covered
    <3>2. CASE c \in AtLevel(j)'
      BY <3>1, <3>2 DEF Covered
    <3>3. CASE c \notin AtLevel(j)'
      <4>1. j = source /\ c = b /\ Exclusive(source)
        BY <2>3, <3>1, <3>3 DEF SameCopies, CopyStays
      <4>2. fetch'.dirty /\ to <= source - 1 /\ 2 * to < 2 * k + 1
        <5>1. fetch'.dirty
          BY <2>1, <2>2, <3>1, <4>1
        <5>2. source \in Int /\ to \in Int /\ to < source /\ source < k
          BY <1>5, <3>1, <4>1 DEF Levels
        <5> QED
          BY <5>1, <5>2
      <4>3. Pending(2 * k + 1, c)'
        BY <1>0, <2>1, <4>1, <4>2 DEF Pending
      <4> QED
        BY <4>3 DEF Covered
    <3> QED
      BY <3>2, <3>3
  <2>5. \A k \in Levels : Held(k)' \subseteq Held(k)
    BY <2>3 DEF SameCopies
  <2>6. \A k \in Levels : \A c \in Held(k)' : c \in Newest(k) => c \in Newest(k)'
    BY <2>3 DEF SameCopies, CopyStays
  <2>7. CurrentLevels' /\ CurrentMemory' /\ CurrentCalls' /\ Ordered' /\ PurgesClear'
    BY <1>0, <2>4, <2>5, <2>6, StayCurrent, NoCallsCurrent DEF CurrentInv
  <2>8. LineOf(source, b).fresh \/ \E k \in Levels : k < to /\ b \in AtLevel(k)'
    <3>1. Covered(2 * source + 1, b) => \E k \in Levels : 2 * k + 1 < 2 * source + 1 /\ b \in AtLevel(k)
      <4>1. 2 * source + 1 \in Int
        BY DEF Levels
      <4> QED
        BY <1>1, <4>1 DEF Covered
    <3>2. ASSUME NEW k \in Levels, 2 * k + 1 < 2 * source + 1, b \in AtLevel(k)
          PROVE  k < to /\ b \in AtLevel(k)'
      <4>1. Contains(k, b)
        BY <1>0, <3>2, LevelFlagsHeld DEF Held, Contains
      <4>2. ~(source <= k) /\ k # source
        BY <3>2 DEF Levels
      <4>3. ~(k > to) /\ k # to
        BY <1>2, <1>5, <3>2, <4>1, <4>2
      <4>4. k < to
        BY <4>3 DEF Levels
      <4> QED
        BY <2>3, <3>2, <4>2, <4>4 DEF SameCopies
    <3> QED
      BY <2>2, <3>1, <3>2 DEF CurrentInv, CurrentLevels
  <2>9. CurrentFetch'
    BY <1>0, <2>1, <2>8 DEF CurrentFetch
  <2> QED
    BY <1>3, <2>7, <2>9 DEF OrderInv, CurrentInv
<1>6. \/ /\ {k \in Levels : k > to /\ Contains(k, b)} = {}
         /\ fetch' = [fetch EXCEPT !.at = N - 1, !.fresh = b \in memory]
         /\ UNCHANGED <<contents, fresh>>
      \/ \E source \in Levels :
           /\ source > to /\ Contains(source, b)
           /\ \A k \in Levels : k > to /\ Contains(k, b) => source <= k
           /\ fetch' = [fetch EXCEPT !.at = source - 1,
                                     !.dirty = HandedDirty(source, b),
                                     !.fresh = LineOf(source, b).fresh]
           /\ IF Exclusive(source) THEN Invalidate(source, b) ELSE UNCHANGED <<contents, fresh>>
  BY DEF Issue
<1> QED
  BY <1>4, <1>5, <1>6

\* The dirty lines of a level are all listed.
LEMMA DirtyListed ==
  ASSUME NEW i, NEW b \in AtLevel(i)
  PROVE  \E entry \in DirtyLines(i) : entry.block = b
<1>1. CASE b \in dirty[i]
  <2>1. [place |-> "array", block |-> b] \in DirtyLines(i)
    BY <1>1 DEF DirtyLines
  <2> QED
    BY <2>1
<1>2. CASE b \in DirtyBlocks(buffer[i])
  <2>1. PICK n \in {m \in DOMAIN buffer[i] : buffer[i][m].dirty} : buffer[i][n].block = b
    BY <1>2 DEF DirtyBlocks
  <2>2. [place |-> "buffer", block |-> buffer[i][n].block] \in DirtyLines(i)
    BY DEF DirtyLines
  <2> QED
    BY <2>1, <2>2
<1> QED
  BY <1>1, <1>2 DEF AtLevel

\* A prefetch, a call or a level of a flush is done, or a flush begins.
LEMMA BetweenFresh ==
  ASSUME TypeInv, TypeInv', FreshInv,
         PrefetchDone \/ FinishAccess \/ BeginFlush \/ FlushNextLevel \/ FinishFlush
  PROVE  OrderInv' /\ CurrentInv'
<1> USE DEF FreshInv
<1>0. /\ work = << >> /\ work' = << >> /\ memory' = memory /\ UNCHANGED <<contents, fresh>>
      /\ pc \in {"idle", "observe", "flush"} \/ (pc = "prefetch" /\ fetch.at < fetch.to)
      /\ pc' \in {"idle", "observe"} \/ BeginFlush \/ FlushNextLevel
      /\ pc' \in {"idle", "observe", "flush"}
  BY DEF PrefetchDone, FinishAccess, BeginFlush, FlushNextLevel, FinishFlush, Returned, history, TypeInv, StackOK
<1>1. \A k \in Levels : SameCopies(k)
  BY <1>0, ContentsSame
<1>2. \A p \in Int : \A c : ~Pending(p, c)
  <2>1. fetch.at < fetch.to => ~(fetch.to <= fetch.at)
    BY IntegerFields, NAssumption DEF Levels
  <2> QED
    BY <1>0, <2>1 DEF Pending
<1>3. CurrentLevels' /\ CurrentMemory' /\ CurrentCalls' /\ Ordered' /\ PurgesClear'
  BY <1>0, <1>1, <1>2, SameCurrent DEF CurrentInv
<1>4. CurrentFetch' /\ Missed' /\ HitFacts'
  BY <1>0 DEF CurrentFetch, Missed, HitFacts
<1>5. Flushed'
  <2>1. CASE BeginFlush
    <3>1. req'.level = 0 /\ snapshot' = DirtyLines(0)
      BY <2>1 DEF BeginFlush, FlushLevel, TypeInv, LocalsOK, NoRequest
    <3>2. 0 \in Levels /\ \A k \in Levels : ~(k < 0)
      BY NAssumption DEF Levels
    <3>3. \A b \in AtLevel(0) : \E entry \in DirtyLines(0) : entry.block = b
      BY DirtyListed
    <3> QED
      BY <1>1, <3>1, <3>2, <3>3 DEF Flushed, SameCopies
  <2>2. CASE FlushNextLevel
    <3> PICK i \in Levels, j \in Levels : i = req.level /\ j = i + 1
      BY <2>2, NAssumption DEF FlushNextLevel, TypeInv, LocalsOK, Levels
    <3>1. /\ req'.level = j /\ snapshot' = DirtyLines(j) /\ snapshot = {} /\ pc = "flush"
      BY <2>2 DEF FlushNextLevel, FlushLevel, TypeInv, LocalsOK, Request
    <3>2. \A k \in Levels : k < j => AtLevel(k) = {}
      <4>1. \A k \in Levels : k < i => AtLevel(k) = {}
        BY <3>1 DEF OrderInv, Flushed
      <4>2. AtLevel(i) = {}
        BY <3>1 DEF OrderInv, Flushed
      <4>3. \A k \in Levels : k < j => k < i \/ k = i
        BY DEF Levels
      <4> QED
        BY <4>1, <4>2, <4>3
    <3>3. \A b \in AtLevel(j) : \E entry \in DirtyLines(j) : entry.block = b
      BY DirtyListed
    <3> QED
      BY <1>1, <3>1, <3>2, <3>3 DEF Flushed, SameCopies
  <2>3. CASE pc' \in {"idle", "observe"}
    BY <2>3 DEF Flushed
  <2> QED
    BY <1>0, <2>1, <2>2, <2>3
<1> QED
  BY <1>3, <1>4, <1>5 DEF OrderInv, CurrentInv

-----------------------------------------------------------------------------
(* Writing a line of a flush.                                              *)

LEMMA ReplacedCleans ==
  ASSUME NEW lines \in Seq(Line), NEW b, NEW line, line.block = b, ~line.dirty
  PROVE  DirtyBlocks(Replaced(lines, b, line)) \subseteq DirtyBlocks(lines) \ {b}
<1> DEFINE new == Replaced(lines, b, line)
<1>1. /\ DOMAIN new = DOMAIN lines
      /\ \A n \in DOMAIN lines : new[n] = IF lines[n].block = b THEN line ELSE lines[n]
  BY DEF Replaced
<1> HIDE DEF new
<1>2. DirtyBlocks(new) \subseteq DirtyBlocks(lines) \ {b}
  BY <1>1 DEF DirtyBlocks
<1> QED
  BY <1>2 DEF new

LEMMA SetDirtyCleans ==
  ASSUME LevelsOK, SingleCopy, NEW i \in Levels, NEW b \in Blocks, Contains(i, b),
         NEW current, SetDirty(i, b, FALSE, current)
  PROVE  AtLevel(i)' \subseteq AtLevel(i) \ {b}
<1>1. /\ dirty[i] \subseteq resident[i] /\ resident[i] \cap BlocksOf(buffer[i]) = {}
      /\ buffer[i] \in Seq(Line) /\ DirtyBlocks(buffer[i]) \subseteq BlocksOf(buffer[i])
  BY DEF LevelsOK, SingleCopy, DirtyBlocks, BlocksOf
<1>2. CASE b \in resident[i]
  <2>1. dirty'[i] = dirty[i] \ {b} /\ buffer'[i] = buffer[i]
    BY <1>2 DEF SetDirty, With, LevelsOK
  <2> QED
    BY <1>1, <1>2, <2>1 DEF AtLevel
<1>3. CASE b \notin resident[i]
  <2> DEFINE line == [BufferedLine(i, b) EXCEPT !.dirty = FALSE, !.fresh = current]
  <2>1. buffer' = [buffer EXCEPT ![i] = Replaced(buffer[i], b, line)] /\ dirty' = dirty
    BY <1>3 DEF SetDirty
  <2>2. line.block = b /\ ~line.dirty
    BY <1>3, BufferedLineType DEF Contains, Line
  <2> HIDE DEF line
  <2>3. buffer'[i] = Replaced(buffer[i], b, line) /\ dirty'[i] = dirty[i]
    BY <2>1 DEF LevelsOK
  <2>4. DirtyBlocks(buffer'[i]) \subseteq DirtyBlocks(buffer[i]) \ {b}
    BY <1>1, <2>2, <2>3, ReplacedCleans
  <2> QED
    BY <1>1, <1>3, <2>3, <2>4 DEF AtLevel
<1> QED
  BY <1>2, <1>3

\* The levels above are clean, so the line has the newest data.
LEMMA FlushLineFresh ==
  ASSUME TypeInv, TypeInv', FreshInv, FlushLine
  PROVE  OrderInv' /\ CurrentInv'
<1> USE DEF FreshInv
<1> PICK i \in Levels, below \in 0 .. N : i = req.level /\ below = i + 1
  BY NAssumption DEF FlushLine, TypeInv, LocalsOK, Levels
<1>0. /\ pc = "flush" /\ work = << >> /\ UNCHANGED <<pc, req, fetch, memory>> /\ LevelsOK /\ SingleCopy
      /\ FlushLevel(req.level) = i /\ i \in Int
  BY DEF FlushLine, TypeInv, InclusionInv, ConservationInv, LinesInv, FlushLevel, Levels
<1> PICK entry \in snapshot :
       /\ snapshot' = snapshot \ {entry}
       /\ IF Contains(i, entry.block)
          THEN SetDirty(i, entry.block, FALSE, LineOf(i, entry.block).fresh)
          ELSE UNCHANGED <<contents, fresh>>
       /\ work' = <<WriteBack(below, [block |-> entry.block, dirty |-> TRUE, prefetched |-> FALSE,
                                      fresh |-> Contains(i, entry.block) /\ LineOf(i, entry.block).fresh])>>
  BY <1>0 DEF FlushLine
<1> PICK b \in Blocks : b = entry.block
  BY DEF TypeInv, LocalsOK
<1>1. b \in AtLevel(i)
  <2>1. b \in (IF entry.place = "array" THEN dirty[i] ELSE DirtyBlocks(buffer[i]))
    BY <1>0 DEF InclusionInv, LocalsInv, ListedDirty
  <2> QED
    BY <2>1 DEF AtLevel
<1>2. b \in Held(i) /\ Contains(i, b)
  BY <1>0, <1>1, LevelFlagsHeld DEF Held, Contains
<1>3. Calls(work) = {} /\ \A p \in Int : \A c : ~Pending(p, c)
  BY <1>0, CallsOfNone DEF Pending
<1>4. b \in Newest(i) /\ LineOf(i, b).fresh
  <2>1. ~Covered(2 * i + 1, b)
    <3>1. \A k \in Levels : 2 * k + 1 < 2 * i + 1 => AtLevel(k) = {}
      <4>1. \A k \in Levels : 2 * k + 1 < 2 * i + 1 => k < i
        BY <1>0 DEF Levels
      <4> QED
        BY <1>0, <4>1 DEF OrderInv, Flushed
    <3>2. 2 * i + 1 \in Int
      BY <1>0
    <3> QED
      BY <1>3, <3>1, <3>2 DEF Covered
  <2>2. b \in Newest(i)
    BY <1>2, <2>1 DEF CurrentInv, CurrentLevels
  <2> QED
    BY <1>0, <1>2, <2>2, LineFlags
<1> PICK current \in BOOLEAN : current = LineOf(i, b).fresh /\ current
  BY <1>4
<1>5. SetDirty(i, b, FALSE, current)
  BY <1>2
<1>6. /\ \A k \in Levels : k # i => SameCopies(k)
      /\ Held(i)' = Held(i) /\ \A c : c # b => CopyStays(i, c)
      /\ b \in Newest(i)'
  <2>1. FALSE \in BOOLEAN
    OBVIOUS
  <2> QED
    BY <1>0, <1>2, <1>5, <2>1, SetDirtyMarks
<1>7. /\ CurrentCalls' /\ Ordered' /\ PurgesClear'
      /\ \A p : 2 * below < p => Covered(p, b)'
  <2> DEFINE cleaned == [block |-> b, dirty |-> TRUE, prefetched |-> FALSE,
                         fresh |-> Contains(i, b) /\ LineOf(i, b).fresh]
  <2>1. cleaned \in Line /\ cleaned.block = b /\ cleaned.fresh
    BY <1>2 DEF Line
  <2>2. work' = <<WriteBack(below, cleaned)>>
    OBVIOUS
  <2> HIDE DEF cleaned
  <2> QED
    BY <2>1, <2>2, OneCallCurrent
<1>8. ASSUME NEW k \in 0 .. N, NEW c \in Blocks, Covered(2 * k + 1, c)
      PROVE  Covered(2 * k + 1, c)'
  <2>1. PICK j \in Levels : 2 * j + 1 < 2 * k + 1 /\ c \in AtLevel(j)
    <3>1. 2 * k + 1 \in Int
      OBVIOUS
    <3> QED
      BY <1>3, <1>8, <3>1 DEF Covered
  <2>2. CASE c \in AtLevel(j)'
    BY <2>1, <2>2 DEF Covered
  <2>3. CASE c \notin AtLevel(j)'
    <3>1. j = i /\ c = b
      BY <1>6, <2>1, <2>3 DEF SameCopies, CopyStays
    <3>2. 2 * below < 2 * k + 1
      BY <1>0, <2>1, <3>1
    <3> QED
      BY <1>7, <3>1, <3>2
  <2> QED
    BY <2>2, <2>3
<1>9. \A k \in Levels : Held(k)' \subseteq Held(k)
  BY <1>6 DEF SameCopies
<1>10. \A k \in Levels : \A c \in Held(k)' : c \in Newest(k) => c \in Newest(k)'
  BY <1>6 DEF SameCopies, CopyStays
<1>11. CurrentLevels' /\ CurrentMemory'
  BY <1>0, <1>8, <1>9, <1>10, StayCurrent DEF CurrentInv
<1>12. Flushed'
  <2>1. AtLevel(i)' \subseteq AtLevel(i) \ {b}
    BY <1>0, <1>2, <1>5, SetDirtyCleans
  <2>2. \A k \in Levels : k < i => k # i /\ AtLevel(k) = {}
    BY <1>0 DEF OrderInv, Flushed, Levels
  <2>3. \A c \in AtLevel(i) : \E e \in snapshot : e.block = c
    BY <1>0 DEF OrderInv, Flushed
  <2>4. \A c \in AtLevel(i)' : \E e \in snapshot' : e.block = c
    BY <2>1, <2>3
  <2> QED
    BY <1>0, <1>6, <2>2, <2>4 DEF Flushed, SameCopies
<1>13. CurrentFetch' /\ Missed' /\ HitFacts'
  BY <1>0 DEF CurrentFetch, Missed, HitFacts
<1> QED
  BY <1>7, <1>11, <1>12, <1>13 DEF OrderInv, CurrentInv

-----------------------------------------------------------------------------
(* The invariant.                                                          *)

\* The principle of the least natural, as one fact about sets.
LEMMA TopmostLevel ==
  ASSUME NEW T \in SUBSET Levels, T # {}
  PROVE  \E x \in T : \A y \in T : x <= y
<1>1. T \in SUBSET Nat
  BY NAssumption DEF Levels
<1>2. \E x \in T : \A y \in T : ~ (<<y, x>> \in OpToRel(<, Nat))
  <2> HIDE DEF OpToRel
  <2> QED
    BY <1>1, NatLessThanWellFounded, WFMin
<1>3. \A x, y \in Nat : ~ (<<y, x>> \in OpToRel(<, Nat)) => x <= y
  BY DEF OpToRel
<1> QED
  BY <1>1, <1>2, <1>3

LEMMA FreshInit == Init => FreshInv
<1> SUFFICES ASSUME Init PROVE FreshInv
  OBVIOUS
<1>1. /\ work = << >> /\ pc = "idle" /\ memory = Blocks
      /\ \A k \in Levels : Held(k) = {}
  BY DEF Init, Held, Buffered
<1>2. Calls(work) = {}
  BY <1>1, CallsOfNone
<1>3. Ordered /\ PurgesClear /\ Missed /\ HitFacts /\ Flushed
  BY <1>1, <1>2, DescendingNone DEF Ordered, PurgesClear, Missed, HitFacts, Flushed
<1>4. CurrentLevels /\ CurrentMemory /\ CurrentCalls /\ CurrentFetch
  BY <1>1, <1>2 DEF CurrentLevels, CurrentMemory, CurrentCalls, CurrentFetch
<1> QED
  BY <1>3, <1>4, InclusionInit DEF FreshInv, OrderInv, CurrentInv

LEMMA StutterFresh ==
  ASSUME FreshInv, UNCHANGED vars
  PROVE  OrderInv' /\ CurrentInv'
<1>1. /\ UNCHANGED <<pc, req, fetch, work, snapshot, memory>>
      /\ UNCHANGED <<contents, fresh>>
  BY DEF vars, contents
<1>2. \A k : SameCopies(k)
  BY <1>1, ContentsSame
<1>3. \A p, b : Covered(p, b)' <=> Covered(p, b)
  BY <1>1, <1>2 DEF Covered, Pending, SameCopies
<1>4. OrderInv'
  BY <1>1, <1>2 DEF FreshInv, OrderInv, Ordered, PurgesClear, Missed, HitFacts, Flushed, SameCopies, contents
<1>5. CurrentLevels' /\ CurrentMemory' /\ CurrentCalls'
  BY <1>1, <1>2, <1>3 DEF FreshInv, CurrentInv, CurrentLevels, CurrentMemory, CurrentCalls, SameCopies
<1>6. CurrentFetch'
  BY <1>1, <1>2 DEF FreshInv, CurrentInv, CurrentFetch, SameCopies
<1> QED
  BY <1>4, <1>5, <1>6 DEF CurrentInv

LEMMA FreshStep == EvictsAbsent /\ FreshInv /\ [Next]_vars => FreshInv'
<1> SUFFICES ASSUME EvictsAbsent, FreshInv, [Next]_vars PROVE FreshInv'
  OBVIOUS
<1>1. InclusionInv'
  BY InclusionStep DEF FreshInv
<1>2. TypeInv /\ TypeInv'
  BY <1>1 DEF FreshInv, InclusionInv, ConservationInv
<1> SUFFICES OrderInv' /\ CurrentInv'
  BY <1>1 DEF FreshInv
<1>3. CASE \E b \in Blocks, store \in BOOLEAN : BeginAccess(b, store)
  BY <1>2, <1>3, BeginAccessFresh
<1>4. CASE ProbeHit \/ ProbeVictimHit \/ ProbeMiss \/ ReachMemory
  BY <1>2, <1>4, ProbeHitFresh, ProbeVictimHitFresh, ProbeMissFresh, ReachMemoryFresh
<1>5. CASE Settle \/ MoveUp \/ Fill \/ Forward
  BY <1>2, <1>5, SettleFresh, MoveUpFresh, FillFresh, ForwardFresh
<1>6. CASE Observe \/ Issue \/ PrefetchFill
  BY <1>2, <1>6, ObserveFresh, IssueFresh, FillFresh
<1>7. CASE PrefetchDone \/ FinishAccess \/ BeginFlush \/ FlushNextLevel \/ FinishFlush
  BY <1>2, <1>7, BetweenFresh
<1>8. CASE HandleEviction \/ BackInvalidateStep \/ WriteBackStep
  BY <1>2, <1>8, HandleEvictionFresh, BackInvalidateStepFresh, WriteBackStepFresh
<1>9. CASE FlushLine
  BY <1>2, <1>9, FlushLineFresh
<1>10. CASE UNCHANGED vars
  BY <1>10, StutterFresh
<1> QED
  BY <1>3, <1>4, <1>5, <1>6, <1>7, <1>8, <1>9, <1>10 DEF Next, Step

\* Under either condition a line that is being evicted has left no copy in its level.
LEMMA FreshAlways == BareVictimLevels \/ NeverAllocatesShared => (Spec => []FreshInv)
<1> SUFFICES ASSUME BareVictimLevels \/ NeverAllocatesShared PROVE Spec => []FreshInv
  OBVIOUS
<1>1. CASE BareVictimLevels
  <2>1. FreshInv /\ [Next]_vars => FreshInv'
    BY <1>1, BareBuffers, FreshStep DEF FreshInv, InclusionInv, ConservationInv
  <2> QED
    BY <2>1, FreshInit, PTL DEF Spec
<1>2. CASE NeverAllocatesShared
  <2>1. ExclusionInv /\ FreshInv /\ [Next]_vars => ExclusionInv' /\ FreshInv'
    BY <1>2, ChainsAbsent, ExclusionStep, FreshStep
  <2> QED
    BY <2>1, ExclusionInit, FreshInit, PTL DEF Spec
<1> QED
  BY <1>1, <1>2

-----------------------------------------------------------------------------
(* The theorems.                                                           *)

\* A reference is served by the newest data of its block: what the last store to it
\* wrote is in the level that hits, or in memory when all miss, whatever was evicted,
\* back-invalidated, moved up or written down since.  A store miss leaves stale copies,
\* filled from below, under the level that took it (hierarchy.py:584-590): they are
\* stale in the model too, and none of them is reached before the modified data.
THEOREM ReadsServeNewest ==
  BareVictimLevels \/ NeverAllocatesShared => (Spec => []ServedNewest)
<1>1. FreshInv => ServedNewest
  BY DEF FreshInv, CurrentInv, CurrentFetch, ServedNewest
<1> QED
  BY <1>1, FreshAlways, PTL

\* The topmost dirty copy of a block is current: nothing above it covers it.
LEMMA NewestInDirtyCopy == FreshInv => NewestKept
<1> SUFFICES ASSUME FreshInv, pc = "idle", NEW b \in Blocks \ memory
             PROVE  \E i \in Levels :
                      \/ b \in dirty[i] /\ b \in fresh[i]
                      \/ \E n \in DOMAIN buffer[i] :
                           buffer[i][n].block = b /\ buffer[i][n].dirty /\ buffer[i][n].fresh
  BY DEF NewestKept
<1>1. TypeInv /\ LevelsOK /\ SingleCopy
  BY DEF FreshInv, InclusionInv, ConservationInv, TypeInv, LinesInv
<1>2. Calls(work) = {} /\ \A p : ~Pending(p, b)
  BY <1>1, CallsOfNone DEF TypeInv, StackOK, Pending
<1>3. \E k \in Levels : b \in AtLevel(k)
  BY <1>2 DEF FreshInv, CurrentInv, CurrentMemory, Covered
<1>4. PICK x \in Levels : b \in AtLevel(x) /\ \A y \in Levels : b \in AtLevel(y) => x <= y
  <2> DEFINE T == {k \in Levels : b \in AtLevel(k)}
  <2>1. T \in SUBSET Levels /\ T # {}
    BY <1>3
  <2>2. \E x \in T : \A y \in T : x <= y
    <3> HIDE DEF T
    <3> QED
      BY <2>1, TopmostLevel
  <2> QED
    BY <2>2
<1>5. /\ dirty[x] \cup fresh[x] \subseteq resident[x]
      /\ DirtyBlocks(buffer[x]) \cup FreshBlocks(buffer[x]) \subseteq BlocksOf(buffer[x])
      /\ resident[x] \cap BlocksOf(buffer[x]) = {} /\ Distinct(buffer[x])
  BY <1>1 DEF LevelsOK, SingleCopy, DirtyBlocks, FreshBlocks, BlocksOf
<1>6. b \in Held(x)
  BY <1>4, <1>5, HeldIs DEF AtLevel
<1>7. ~Covered(2 * x + 1, b)
  <2>1. \A k \in Levels : 2 * k + 1 < 2 * x + 1 => ~(x <= k)
    BY NAssumption DEF Levels
  <2> QED
    BY <1>2, <1>4, <2>1 DEF Covered
<1>8. b \in Newest(x)
  BY <1>6, <1>7 DEF FreshInv, CurrentInv, CurrentLevels
<1>9. CASE b \in dirty[x]
  BY <1>5, <1>8, <1>9 DEF Newest
<1>10. CASE b \in DirtyBlocks(buffer[x])
  <2>1. PICK n \in DOMAIN buffer[x] : buffer[x][n].dirty /\ buffer[x][n].block = b
    BY <1>10 DEF DirtyBlocks
  <2>2. b \in FreshBlocks(buffer[x])
    BY <1>5, <1>8, <1>10 DEF Newest
  <2>3. PICK m \in DOMAIN buffer[x] : buffer[x][m].fresh /\ buffer[x][m].block = b
    BY <2>2 DEF FreshBlocks
  <2>4. m = n
    BY <1>5, <2>1, <2>3 DEF Distinct
  <2> QED
    BY <2>1, <2>3, <2>4
<1> QED
  BY <1>4, <1>9, <1>10 DEF AtLevel

\* Between two calls the newest data of a block is in memory, or in a copy whose dirty
\* bit will bring it there: no write-back of older data, and no level that drops a
\* line, can lose it.
THEOREM NewestStaysDirty ==
  BareVictimLevels \/ NeverAllocatesShared => (Spec => []NewestKept)
  BY FreshAlways, NewestInDirtyCopy, PTL

\* flush() ends with no dirty line in any level: a line that a write-back from above
\* allocates lower down while flush() walks is in the list of a later level.
LEMMA FlushEnds == FreshInv /\ [Next]_vars => [FlushWrites]_vars
<1> SUFFICES ASSUME FreshInv, Next, pc = "flush", pc' = "idle"
             PROVE  /\ \A i \in Levels, b \in Blocks : ~DirtyIn(i, b)
                    /\ memory = Blocks /\ owed = {}
  BY DEF FlushWrites
<1>1. FinishFlush
  BY DEF Next, Step, BeginAccess, BeginFlush, ProbeHit, ProbeVictimHit, ProbeMiss, ReachMemory, Settle,
         MoveUp, Fill, Forward, Observe, Issue, PrefetchFill, PrefetchDone, FinishAccess,
         HandleEviction, BackInvalidateStep, WriteBackStep, FlushLine, FlushNextLevel
<1>2. /\ TypeInv /\ LinesInv /\ CurrentMemory /\ Flushed
      /\ work = << >> /\ snapshot = {} /\ req.level = N - 1
  BY <1>1 DEF FinishFlush, FreshInv, InclusionInv, ConservationInv, OrderInv, CurrentInv
<1>3. \A k \in Levels : AtLevel(k) = {}
  <2>1. N - 1 \in Levels /\ \A k \in Levels : k < N - 1 \/ k = N - 1
    BY NAssumption DEF Levels
  <2>2. \A k \in Levels : k < N - 1 => AtLevel(k) = {}
    BY <1>2 DEF Flushed
  <2>3. AtLevel(N - 1) = {}
    BY <1>2 DEF Flushed
  <2> QED
    BY <2>1, <2>2, <2>3
<1>4. \A i \in Levels, b \in Blocks : ~DirtyIn(i, b)
  BY <1>3 DEF DirtyIn, AtLevel, DirtyBlocks
<1>5. Calls(work) = {} /\ Carried(work) = {}
  BY <1>2, CallsOfNone DEF Carried
<1>6. memory = Blocks
  <2>1. memory \subseteq Blocks
    BY <1>2 DEF TypeInv, HistoryOK
  <2> QED
    BY <1>2, <1>3, <1>5, <2>1 DEF CurrentMemory, Covered, Pending
<1>7. owed = {}
  BY <1>2, <1>3, <1>5 DEF LinesInv, Somewhere, InRequest
<1> QED
  BY <1>4, <1>6, <1>7

\* When flush() returns no level has a dirty line, memory has the newest data of every
\* block, and no block waits to be written.
THEOREM FlushLeavesNothing ==
  BareVictimLevels \/ NeverAllocatesShared => (Spec => FlushWritesAll)
<1> SUFFICES ASSUME BareVictimLevels \/ NeverAllocatesShared PROVE Spec => FlushWritesAll
  OBVIOUS
<1> QED
  BY FreshAlways, FlushEnds, PTL DEF Spec, FlushWritesAll
=============================================================================
