-------------------------- MODULE HierarchyInclusion --------------------------
(***************************************************************************)
(* What the levels hold relative to each other, for every number of        *)
(* levels, geometry and choice of policies in which no exclusive level has *)
(* a victim buffer.                                                        *)
(*                                                                         *)
(*   InclusionIsKept      an inclusive level holds what those above hold;  *)
(*   ReferenceIsServed    no eviction drops the block of the reference;    *)
(*   FlushListIsCurrent   the lines flush() walks are still there, dirty.  *)
(*                                                                         *)
(* They share one inductive invariant.  While a call runs, an inclusive    *)
(* level may lack a block that levels above it hold, but then a            *)
(* back-invalidation of that block from those levels is on the stack       *)
(* (AlmostInclusive).  Only a fill takes a line out of an inclusive level: *)
(* every other call is about a block that the inclusive levels it may      *)
(* reach hold already (CallsHeld), so it allocates in none of them.  Hence *)
(* blocks are purged only above the level just filled (PurgesAbove), and   *)
(* everything else happens below it (CallsBelow): neither touches the      *)
(* block that is being filled, nor the lines a flush has listed.           *)
(***************************************************************************)
EXTENDS HierarchyProofs

-----------------------------------------------------------------------------
(* The parts of the inductive invariant.                                   *)

Calls(stack) == {stack[n] : n \in DOMAIN stack}

\* The first level that a call may write to.
Reaches(t) == IF t.op = "writeBack" THEN t.level ELSE t.level + 1

\* A call that takes a block out of the levels above an inclusive one.
Purges(t) == t.op = "backInvalidate" \/ (t.op = "evict" /\ Inclusive(t.level))

\* Call t takes block b out of level k, itself or through the calls it makes.
Removes(t, k, b) ==
  /\ t.line.block = b
  /\ \/ t.op = "evict" /\ Inclusive(t.level) /\ k < t.level
     \/ t.op = "backInvalidate" /\ k <= NthAbove(t.level, t.nth)

Doomed(k, b) == \E t \in Calls(work) : Removes(t, k, b)

\* Inclusion, but for the blocks that are about to be back-invalidated.
AlmostInclusive ==
  \A i \in Levels : Inclusive(i) =>
    \A k \in Levels : k < i => \A b \in Held(k) : b \in Held(i) \/ Doomed(k, b)

\* The inclusive levels a call may reach hold its block.
CallsHeld ==
  \A t \in Calls(work), i \in Levels : Inclusive(i) /\ i >= Reaches(t) => t.line.block \in Held(i)

\* Only the level just filled loses a line that levels above it may hold.
PurgesAbove ==
  \A t \in Calls(work) : Purges(t) => pc \in {"fill", "prefetch"} /\ t.level <= fetch.at + 1

\* Calls write below the level just filled, below the one that was to have the
\* block of the reference, and below the one being flushed.
CallsBelow ==
  \A t \in Calls(work) :
    /\ pc \in {"fill", "prefetch"} => Reaches(t) > fetch.at + 1
    /\ pc = "observe" => Reaches(t) > req.fillFrom
    /\ pc = "flush" => Reaches(t) > req.level

\* The inclusive levels already passed by a fill hold its block.
FetchHeld ==
  pc \in {"move", "fill", "prefetch"} =>
    \A i \in Levels : Inclusive(i) /\ i > fetch.at => fetch.block \in Held(i)

\* The duplicate of a store starts below the last level filled; a block moves up
\* from an exclusive level only.
ForwardFacts ==
  /\ pc \in {"probe", "settle", "move", "fill"} /\ req.forward >= 0 => req.forward = req.fillFrom + 1
  /\ pc = "probe" /\ req.write => req.forward = -1
  /\ pc \in {"move", "fill"} => fetch.block = req.block /\ fetch.to = req.fillFrom
  /\ pc = "move" => Exclusive(req.hit)

\* The last level filled holds the block from then on.
FilledStays ==
  /\ pc \in {"move", "fill"} /\ fetch.to < N => fetch.at + 1 >= fetch.to
  /\ pc = "fill" /\ fetch.at < fetch.to /\ fetch.to < N => fetch.block \in Held(fetch.to)
  /\ pc = "observe" /\ req.level = 0 /\ req.fillFrom < N => req.block \in Held(req.fillFrom)

\* A listed line is where it was listed, and dirty.
ListedDirty ==
  pc = "flush" => \A entry \in snapshot :
    entry.block \in (IF entry.place = "array" THEN dirty[req.level] ELSE DirtyBlocks(buffer[req.level]))

StackInv == AlmostInclusive /\ CallsHeld /\ PurgesAbove /\ CallsBelow
LocalsInv == FetchHeld /\ ForwardFacts /\ FilledStays /\ ListedDirty

InclusionInv == ConservationInv /\ StackInv /\ LocalsInv

-----------------------------------------------------------------------------
(* Lemmas about stacks and levels.                                         *)

\* The elements of a sequence are its head and those of its tail.
LEMMA HeadTailElements ==
  ASSUME NEW S, NEW s \in Seq(S), s # << >>
  PROVE  {s[n] : n \in DOMAIN s} = {Head(s)} \cup {Tail(s)[n] : n \in DOMAIN Tail(s)}
<1>1. /\ DOMAIN s = 1 .. Len(s) /\ DOMAIN Tail(s) = 1 .. Len(s) - 1 /\ 1 \in DOMAIN s
      /\ Head(s) = s[1] /\ Len(s) \in Nat
      /\ \A n \in DOMAIN Tail(s) : Tail(s)[n] = s[n + 1] /\ n + 1 \in DOMAIN s
  BY HeadTailProperties
<1>2. ASSUME NEW n \in DOMAIN s, n # 1
      PROVE  n - 1 \in DOMAIN Tail(s) /\ Tail(s)[n - 1] = s[n]
  <2>1. n - 1 \in DOMAIN Tail(s) /\ (n - 1) + 1 = n
    BY <1>1, <1>2
  <2> QED
    BY <1>1, <2>1
<1> QED
  BY <1>1, <1>2

LEMMA BlocksPop ==
  ASSUME NEW lines \in Seq(Line), lines # << >>
  PROVE  BlocksOf(lines) = {Head(lines).block} \cup BlocksOf(Tail(lines))
<1> DEFINE elements == {lines[n] : n \in DOMAIN lines}
           others == {Tail(lines)[n] : n \in DOMAIN Tail(lines)}
<1>1. elements = {Head(lines)} \cup others
  BY HeadTailElements
<1>2. BlocksOf(lines) = {e.block : e \in elements} /\ BlocksOf(Tail(lines)) = {e.block : e \in others}
  BY DEF BlocksOf
<1> HIDE DEF elements, others
<1> QED
  BY <1>1, <1>2

LEMMA HeadLeaves ==
  ASSUME NEW lines \in Seq(Line), lines # << >>, Distinct(lines)
  PROVE  Head(lines).block \notin BlocksOf(Tail(lines))
<1>1. /\ 1 \in DOMAIN lines /\ Head(lines) = lines[1]
      /\ \A n \in DOMAIN Tail(lines) : Tail(lines)[n] = lines[n + 1] /\ n + 1 \in DOMAIN lines /\ n + 1 # 1
  BY HeadTailProperties
<1> QED
  BY <1>1 DEF Distinct, BlocksOf

LEMMA CallsPop ==
  ASSUME NEW stack \in Seq(Task), stack # << >>
  PROVE  Calls(stack) = {Head(stack)} \cup Calls(Tail(stack))
  BY HeadTailElements DEF Calls

LEMMA CallsPush ==
  ASSUME NEW t \in Task, NEW rest \in Seq(Task)
  PROVE  Calls(<<t>> \o rest) = {t} \cup Calls(rest)
<1> DEFINE new == <<t>> \o rest
<1>1. /\ DOMAIN new = 1 .. Len(rest) + 1 /\ DOMAIN rest = 1 .. Len(rest) /\ Len(rest) \in Nat
      /\ new[1] = t
      /\ \A n \in DOMAIN rest : new[n + 1] = rest[n] /\ n + 1 \in DOMAIN new
  OBVIOUS
<1> HIDE DEF new
<1>2. 1 \in DOMAIN new
  BY <1>1
<1>3. \A n \in DOMAIN new : n # 1 => n - 1 \in DOMAIN rest /\ (n - 1) + 1 = n
  BY <1>1
<1>4. Calls(new) = {t} \cup Calls(rest)
  BY <1>1, <1>2, <1>3 DEF Calls
<1> QED
  BY <1>4 DEF new

LEMMA CallsOfNone == Calls(<< >>) = {}
  BY DEF Calls

\* Modified data that is written down, or not, before the rest.
LEMMA CallsWriteDown ==
  ASSUME NEW i \in 0 .. N, NEW line \in Line, NEW rest \in Seq(Task)
  PROVE  Calls(WriteDown(i, line) \o rest)
           = (IF line.dirty THEN {WriteBack(i, line)} ELSE {}) \cup Calls(rest)
<1>1. CASE line.dirty
  <2>1. WriteBack(i, line) \in Task
    BY CallType
  <2>2. WriteDown(i, line) = <<WriteBack(i, line)>>
    BY <1>1 DEF WriteDown
  <2> QED
    BY <1>1, <2>1, <2>2, CallsPush
<1>2. CASE ~line.dirty
  <2>1. WriteDown(i, line) \o rest = rest
    BY <1>2, ConcatEmptySeq DEF WriteDown
  <2> QED
    BY <1>2, <2>1
<1> QED
  BY <1>1, <1>2

\* What the calls the model makes are about.
LEMMA CallFields ==
  ASSUME NEW i, NEW line \in Line
  PROVE  /\ Evict(i, line).op = "evict" /\ Evict(i, line).level = i /\ Evict(i, line).line = line
         /\ WriteBack(i, line).op = "writeBack" /\ WriteBack(i, line).level = i
         /\ WriteBack(i, line).line.block = line.block
  BY DEF Evict, WriteBack, Call, Line

LEMMA BackInvalidateFields ==
  ASSUME NEW i, NEW nth, NEW b
  PROVE  /\ BackInvalidate(i, nth, b).op = "backInvalidate" /\ BackInvalidate(i, nth, b).level = i
         /\ BackInvalidate(i, nth, b).nth = nth /\ BackInvalidate(i, nth, b).line.block = b
  BY DEF BackInvalidate, Call

LEMMA TaskFields ==
  ASSUME NEW t \in Task
  PROVE  /\ t.op \in {"evict", "writeBack", "backInvalidate"} /\ t.level \in 0 .. N /\ t.nth \in 0 .. N
         /\ t.op # "writeBack" => t.level \in Levels
         /\ t.line \in Line /\ t.line.block \in Blocks
         /\ Reaches(t) \in Int
<1>1. /\ t.op \in {"evict", "writeBack", "backInvalidate"} /\ t.level \in 0 .. N /\ t.nth \in 0 .. N
      /\ t.op # "writeBack" => t.level \in Levels
      /\ t.line \in Line /\ t.line.block \in Blocks
  BY NAssumption DEF Task, Levels, Line
<1> QED
  BY <1>1, NAssumption DEF Reaches

LEMMA HeldIs ==
  ASSUME NEW i
  PROVE  Held(i) = resident[i] \cup BlocksOf(buffer[i]) /\ Held(i)' = resident'[i] \cup BlocksOf(buffer'[i])
  BY DEF Held, Buffered, BlocksOf

\* Level i then holds block b and the blocks `before', but for the one of a line
\* whose eviction is handled before `rest'.
Installs(i, b, before, rest) ==
  /\ b \in Held(i)' /\ Held(i)' \subseteq before \cup {b}
  /\ \/ work' = rest /\ before \subseteq Held(i)'
     \/ \E out \in Line : /\ work' = <<Evict(i, out)>> \o rest
                          /\ out.block \in before \ ({b} \cup Held(i)')
                          /\ before \subseteq Held(i)' \cup {out.block}

\* Cache.allocate: the level holds the line, and what it held but for the line
\* that leaves it.
LEMMA AllocateHolds ==
  ASSUME LevelsOK, NEW i \in Levels, NEW line \in Line, NEW lines \in Seq(Line),
         NEW rest \in Seq(Task), resident[i] \cap BlocksOf(lines) = {},
         line.block \notin BlocksOf(lines), Distinct(lines), Allocate(i, line, lines, rest)
  PROVE  Installs(i, line.block, resident[i] \cup BlocksOf(lines), rest)
<1> USE DEF Installs
<1> DEFINE before == resident[i] \cup BlocksOf(lines)
<1>1. CASE /\ line.block \in resident[i]
           /\ buffer' = [buffer EXCEPT ![i] = lines]
           /\ work' = rest
           /\ UNCHANGED resident
  <2>1. Held(i)' = before
    BY <1>1, HeldIs DEF LevelsOK
  <2> QED
    BY <1>1, <2>1
<1>2. CASE /\ line.block \notin resident[i]
           /\ Place(i, line, {})
           /\ buffer' = [buffer EXCEPT ![i] = lines]
           /\ work' = rest
  <2>1. resident'[i] = resident[i] \cup {line.block} /\ buffer'[i] = lines
    BY <1>2 DEF LevelsOK, Place
  <2>2. Held(i)' = before \cup {line.block}
    BY <2>1, HeldIs
  <2> QED
    BY <1>2, <2>2
<1>3. ASSUME NEW victim \in SetMates(i, line.block),
             line.block \notin resident[i],
             Place(i, line, {victim}),
             IF Entries[i] = 0
             THEN buffer' = [buffer EXCEPT ![i] = lines] /\ work' = <<Evict(i, ArrayLine(i, victim))>> \o rest
             ELSE IF Len(Pushed(lines, ArrayLine(i, victim))) <= Entries[i]
             THEN buffer' = [buffer EXCEPT ![i] = Pushed(lines, ArrayLine(i, victim))] /\ work' = rest
             ELSE /\ buffer' = [buffer EXCEPT ![i] = Tail(Pushed(lines, ArrayLine(i, victim)))]
                  /\ work' = <<Evict(i, Head(Pushed(lines, ArrayLine(i, victim))))>> \o rest
      PROVE  Installs(i, line.block, before, rest)
  <2> DEFINE out == ArrayLine(i, victim)
             pushed == Pushed(lines, out)
  <2>1. victim \in resident[i] /\ victim \in Blocks /\ victim # line.block /\ victim \notin BlocksOf(lines)
    BY <1>3 DEF SetMates, LevelsOK
  <2>2. out \in Line /\ out.block = victim
    BY <2>1 DEF ArrayLine, Line
  <2>3. /\ BlocksOf(pushed) = BlocksOf(lines) \cup {victim} /\ pushed \in Seq(Line) /\ pushed # << >>
        /\ Distinct(pushed)
    BY <2>1, <2>2, PushedBlocks, PushedType
  <2>4. resident'[i] = (resident[i] \ {victim}) \cup {line.block}
    BY <1>3 DEF Place, LevelsOK
  <2> HIDE DEF out, pushed
  <2>5. CASE Entries[i] = 0
    <3>1. buffer'[i] = lines /\ work' = <<Evict(i, out)>> \o rest
      BY <1>3, <2>5 DEF out, LevelsOK
    <3>2. Held(i)' = (resident[i] \ {victim}) \cup {line.block} \cup BlocksOf(lines)
      BY <2>4, <3>1, HeldIs
    <3> QED
      BY <1>3, <2>1, <2>2, <3>1, <3>2
  <2>6. CASE Entries[i] # 0 /\ Len(pushed) <= Entries[i]
    <3>1. buffer'[i] = pushed /\ work' = rest
      BY <1>3, <2>6 DEF out, pushed, LevelsOK
    <3>2. Held(i)' = (resident[i] \ {victim}) \cup {line.block} \cup (BlocksOf(lines) \cup {victim})
      BY <2>3, <2>4, <3>1, HeldIs
    <3> QED
      BY <2>1, <3>1, <3>2
  <2>7. CASE Entries[i] # 0 /\ ~(Len(pushed) <= Entries[i])
    <3>1. buffer'[i] = Tail(pushed) /\ work' = <<Evict(i, Head(pushed))>> \o rest
      BY <1>3, <2>7 DEF out, pushed, LevelsOK
    <3>2. /\ Head(pushed) \in Line /\ BlocksOf(pushed) = {Head(pushed).block} \cup BlocksOf(Tail(pushed))
          /\ Head(pushed).block \notin BlocksOf(Tail(pushed))
      BY <2>3, HeadTailProperties, BlocksPop, HeadLeaves
    <3>3. Held(i)' = (resident[i] \ {victim}) \cup {line.block} \cup BlocksOf(Tail(pushed))
      BY <2>4, <3>1, HeldIs
    <3>4. /\ line.block \in Held(i)' /\ Held(i)' \subseteq before \cup {line.block}
          /\ before \subseteq Held(i)' \cup {Head(pushed).block}
          /\ Head(pushed).block \in before \ ({line.block} \cup Held(i)')
      BY <2>1, <2>3, <3>2, <3>3
    <3> QED
      BY <1>3, <3>1, <3>2, <3>4
  <2> QED
    BY <2>5, <2>6, <2>7
<1> QED
  BY <1>1, <1>2, <1>3 DEF Allocate

-----------------------------------------------------------------------------
(* The steps of the stack.                                                 *)

\* Level j is the only one that changes: it may take block b, and loses nothing
\* if it is inclusive.
TouchesOnly(j, b) ==
  /\ \A k \in Levels : k # j =>
       Held(k)' = Held(k) /\ dirty'[k] = dirty[k] /\ buffer'[k] = buffer[k]
  /\ j \in Levels => Held(j)' \subseteq Held(j) \cup {b}
  /\ j \in Levels /\ Inclusive(j) => Held(j)' = Held(j)

\* A call about the block of call t, from level j on.
Continues(u, t, j) ==
  /\ u.line.block = t.line.block /\ Reaches(u) >= j
  /\ Purges(u) => Purges(t) /\ u.level = t.level

\* Call t leaves on the stack calls about its own block, or about a line that
\* level j held.
Leaves(t, j) ==
  /\ work' \in Seq(Task) /\ Calls(Tail(work)) \subseteq Calls(work')
  /\ \A u \in Calls(work') :
       \/ u \in Calls(Tail(work)) \/ Continues(u, t, j)
       \/ j \in Levels /\ ~Purges(u) /\ u.line.block \in Held(j) /\ Reaches(u) = j + 1
  /\ Purges(t) => \E u \in Calls(work') : \A k \in Levels : k < t.level => Removes(u, k, t.line.block)

LEMMA DownwardStep ==
  ASSUME InclusionInv, work # << >>, UNCHANGED <<pc, req, fetch, snapshot>>,
         NEW t \in Task, t = Head(work), t.op # "backInvalidate", NEW j \in Int, j = Reaches(t),
         TouchesOnly(j, t.line.block), Leaves(t, j)
  PROVE  StackInv' /\ LocalsInv'
<1> USE DEF InclusionInv, TouchesOnly, Leaves, Continues
<1>0. /\ work \in Seq(Task) /\ t \in Calls(work) /\ Calls(work) = {t} \cup Calls(Tail(work))
      /\ \A u \in Calls(work) : u \in Task
      /\ req \in Request /\ fetch \in Fetch /\ fetch.at \in Int /\ fetch.to \in 0 .. N
      /\ req.fillFrom \in 0 .. N /\ req.level \in 0 .. N
  <2>1. work \in Seq(Task) /\ req \in Request /\ fetch \in Fetch
    BY DEF ConservationInv, TypeInv, StackOK, LocalsOK
  <2>2. Calls(work) = {t} \cup Calls(Tail(work))
    BY <2>1, CallsPop
  <2>3. \A u \in Calls(work) : u \in Task
    BY <2>1 DEF Calls
  <2> QED
    BY <2>1, <2>2, <2>3, NAssumption DEF Request, Fetch, Levels
<1>a. \A u \in Calls(work') : Reaches(u) \in Int
  BY TaskFields DEF Calls
<1>1. \A i \in Levels : Inclusive(i) => Held(i)' = Held(i)
  OBVIOUS
<1>2. /\ pc \in {"fill", "prefetch"} => j > fetch.at + 1
      /\ pc = "observe" => j > req.fillFrom
      /\ pc = "flush" => j > req.level
  BY <1>0 DEF StackInv, CallsBelow
<1>3. \A i \in Levels : Inclusive(i) /\ i >= j => t.line.block \in Held(i)
  BY <1>0 DEF StackInv, CallsHeld
\* No call on the stack removes a block from the level that is touched.
<1>4. j \in Levels => \A c : ~Doomed(j, c)
  <2> SUFFICES ASSUME j \in Levels, NEW c, NEW p \in Calls(work), Removes(p, j, c) PROVE FALSE
    BY DEF Doomed
  <2>1. Purges(p) /\ p \in Task
    BY <1>0 DEF Removes, Purges
  <2>2. pc \in {"fill", "prefetch"} /\ p.level <= fetch.at + 1
    BY <2>1 DEF StackInv, PurgesAbove
  <2>3. j < p.level
    <3>1. p.level \in Int /\ p.nth \in Nat
      BY <2>1, TaskFields, NAssumption
    <3> QED
      BY <3>1 DEF Removes, NthAbove
  <2>4. p.level \in Int
    BY <2>1, TaskFields
  <2> QED
    BY <1>0, <1>2, <2>2, <2>3, <2>4
<1>5. CallsHeld'
  <2> SUFFICES ASSUME NEW u \in Calls(work'), NEW i \in Levels, Inclusive(i), i >= Reaches(u)
               PROVE  u.line.block \in Held(i)
    BY <1>1 DEF CallsHeld
  <2>1. CASE u \in Calls(Tail(work))
    BY <1>0, <2>1 DEF StackInv, CallsHeld
  <2>2. CASE u.line.block = t.line.block /\ Reaches(u) >= j
    <3>1. i >= j
      BY <1>a, <2>2 DEF Levels
    <3> QED
      BY <1>3, <2>2, <3>1
  <2>3. CASE j \in Levels /\ u.line.block \in Held(j) /\ Reaches(u) = j + 1
    <3>1. j < i
      BY <2>3 DEF Levels
    <3> QED
      BY <1>4, <2>3, <3>1 DEF StackInv, AlmostInclusive
  <2> QED
    BY <2>1, <2>2, <2>3
<1>6. PurgesAbove'
  <2>1. \A u \in Calls(Tail(work)) : Purges(u) => pc \in {"fill", "prefetch"} /\ u.level <= fetch.at + 1
    BY <1>0 DEF StackInv, PurgesAbove
  <2>2. Purges(t) => pc \in {"fill", "prefetch"} /\ t.level <= fetch.at + 1
    BY <1>0 DEF StackInv, PurgesAbove
  <2> QED
    BY <2>1, <2>2 DEF PurgesAbove
<1>7. CallsBelow'
  <2> SUFFICES ASSUME NEW u \in Calls(work')
               PROVE  /\ pc \in {"fill", "prefetch"} => Reaches(u) > fetch.at + 1
                      /\ pc = "observe" => Reaches(u) > req.fillFrom
                      /\ pc = "flush" => Reaches(u) > req.level
    BY DEF CallsBelow
  <2>1. CASE u \in Calls(Tail(work))
    BY <1>0, <2>1 DEF StackInv, CallsBelow
  <2>2. CASE Reaches(u) >= j
    BY <1>0, <1>a, <1>2, <2>2
  <2> QED
    BY <2>1, <2>2
<1>8. AlmostInclusive'
  <2> SUFFICES ASSUME NEW i \in Levels, Inclusive(i), NEW k \in Levels, k < i, NEW c \in Held(k)'
               PROVE  c \in Held(i) \/ Doomed(k, c)'
    BY <1>1 DEF AlmostInclusive
  <2>1. CASE c \in Held(k)
    <3>1. c \in Held(i) \/ Doomed(k, c)
      BY <2>1 DEF StackInv, AlmostInclusive
    <3>2. ASSUME NEW p \in Calls(work), Removes(p, k, c)
          PROVE  Doomed(k, c)'
      <4>1. CASE p \in Calls(Tail(work))
        BY <3>2, <4>1 DEF Doomed
      <4>2. CASE p = t
        <5>1. Purges(t) /\ k < t.level /\ c = t.line.block
          BY <3>2, <4>2 DEF Removes, Purges
        <5> QED
          BY <5>1 DEF Doomed
      <4> QED
        BY <1>0, <4>1, <4>2
    <3> QED
      BY <3>1, <3>2 DEF Doomed
  <2>2. CASE c \notin Held(k)
    <3>1. k = j /\ c = t.line.block
      BY <2>2
    <3> QED
      BY <1>3, <3>1 DEF Levels
  <2> QED
    BY <2>1, <2>2
<1>9. FetchHeld' /\ ForwardFacts'
  <2>1. FetchHeld'
    BY <1>1 DEF LocalsInv, FetchHeld
  <2> QED
    BY <2>1 DEF LocalsInv, ForwardFacts
<1>10. FilledStays'
  <2>1. ASSUME pc = "fill", fetch.at < fetch.to, fetch.to < N
        PROVE  fetch.block \in Held(fetch.to)'
    <3>1. fetch.to \in Levels /\ fetch.to # j
      BY <1>0, <1>2, <2>1, NAssumption DEF LocalsInv, FilledStays, Levels
    <3> QED
      BY <2>1, <3>1 DEF LocalsInv, FilledStays
  <2>2. ASSUME pc = "observe", req.level = 0, req.fillFrom < N
        PROVE  req.block \in Held(req.fillFrom)'
    <3>1. req.fillFrom \in Levels /\ req.fillFrom # j
      BY <1>0, <1>2, <2>2, NAssumption DEF Levels
    <3> QED
      BY <2>2, <3>1 DEF LocalsInv, FilledStays
  <2> QED
    BY <2>1, <2>2 DEF LocalsInv, FilledStays
<1>11. ListedDirty'
  <2> SUFFICES ASSUME pc = "flush"
               PROVE  dirty'[req.level] = dirty[req.level] /\ buffer'[req.level] = buffer[req.level]
    BY DEF LocalsInv, ListedDirty
  <2>1. req.level \in Levels /\ req.level # j
    BY <1>0, <1>2 DEF ConservationInv, TypeInv, LocalsOK
  <2> QED
    BY <2>1
<1> QED
  BY <1>5, <1>6, <1>7, <1>8, <1>9, <1>10, <1>11 DEF StackInv, LocalsInv

\* A call that makes its level install a line leaves an eviction there at most.
LEMMA InstallLeaves ==
  ASSUME NEW t \in Task, NEW j \in Levels, ~Inclusive(j), NEW b, NEW before, before \subseteq Held(j),
         NEW rest \in Seq(Task), Installs(j, b, before, rest), Calls(Tail(work)) \subseteq Calls(rest),
         \A u \in Calls(rest) : u \in Calls(Tail(work)) \/ Continues(u, t, j),
         Purges(t) => \E u \in Calls(rest) : \A k \in Levels : k < t.level => Removes(u, k, t.line.block)
  PROVE  Leaves(t, j)
<1>1. CASE work' = rest
  BY <1>1 DEF Leaves
<1>2. ASSUME NEW out \in Line, work' = <<Evict(j, out)>> \o rest, out.block \in before
      PROVE  Leaves(t, j)
  <2> PICK e \in Task : e = Evict(j, out)
    BY CallType
  <2>1. work' \in Seq(Task) /\ Calls(work') = {e} \cup Calls(rest)
    BY <1>2, StackType, CallsPush
  <2>2. ~Purges(e) /\ e.line.block \in Held(j) /\ Reaches(e) = j + 1
    BY <1>2, CallFields DEF Purges, Reaches
  <2> QED
    BY <2>1, <2>2 DEF Leaves
<1> QED
  BY <1>1, <1>2 DEF Installs

\* The calls an eviction from an inclusive level leaves for the levels above.
LEMMA CallsBackInvalidate ==
  ASSUME NEW i \in Levels, NEW b \in Blocks, NEW rest \in Seq(Task)
  PROVE  LET new == (IF Inclusive(i) THEN <<BackInvalidate(i, 0, b)>> ELSE << >>) \o rest
         IN  /\ new \in Seq(Task)
             /\ Calls(new) = (IF Inclusive(i) THEN {BackInvalidate(i, 0, b)} ELSE {}) \cup Calls(rest)
<1>1. CASE Inclusive(i)
  <2>1. BackInvalidate(i, 0, b) \in Task
    BY NAssumption DEF BackInvalidate, Call, Task, Line
  <2> QED
    BY <1>1, <2>1, StackType, CallsPush
<1>2. CASE ~Inclusive(i)
  BY <1>2, ConcatEmptySeq
<1> QED
  BY <1>1, <1>2

\* The calls left by the eviction of block b from level i, after those that place
\* the line.
AfterEvict(i, b) == (IF Inclusive(i) THEN <<BackInvalidate(i, 0, b)>> ELSE << >>) \o Tail(work)

\* The level below takes the line evicted from level i; what it evicts comes first,
\* then what a write-through one passes on.
EvictedPlaced(i, line) ==
  \E onward \in Seq(Task) :
    /\ Calls(onward) = (IF line.dirty /\ WriteThrough[i + 1] THEN {WriteBack(i + 2, line)} ELSE {})
                        \cup Calls(AfterEvict(i, line.block))
    /\ OnlyLevel(i + 1) /\ Installs(i + 1, line.block, Held(i + 1), onward)

LEMMA EvictionInstalls ==
  ASSUME ConservationInv, EvictsAbsent, HandleEviction, Exclusive(Head(work).level + 1)
  PROVE  EvictedPlaced(Head(work).level, Head(work).line)
<1>a. work # << >> /\ Head(work).op = "evict"
  BY DEF HandleEviction
<1> PICK i \in Levels, line \in Line : i = Head(work).level /\ line = Head(work).line
  BY <1>a, HeadType DEF ConservationInv
<1> PICK j \in Levels : j = i + 1
  BY DEF Exclusive
<1> PICK rest \in Seq(Task) : rest = AfterEvict(i, line.block)
  BY <1>a, HeadType, CallsBackInvalidate DEF ConservationInv, AfterEvict, Line
<1>b. Exclusive(j) /\ j + 1 = i + 2
  BY DEF Levels
<1> USE DEF ConservationInv
<1> DEFINE kept == [line EXCEPT !.dirty = line.dirty /\ ~WriteThrough[j], !.prefetched = FALSE]
           onward == WriteOn(j, line) \o rest
<1>0. LevelsOK /\ Below(i) = j /\ j + 1 \in 0 .. N
  BY NAssumption DEF TypeInv, Below, Levels
<1>1. Allocate(j, kept, buffer[j], onward) /\ work # << >> /\ Head(work).op = "evict"
  BY <1>a, <1>b, <1>0 DEF HandleEviction, AfterEvict
<1>2. kept \in Line /\ kept.block = line.block
  <2>1. (line.dirty /\ ~WriteThrough[j]) \in BOOLEAN
    OBVIOUS
  <2> QED
    BY <2>1 DEF Line
<1>3. /\ buffer[j] \in Seq(Line) /\ Distinct(buffer[j])
      /\ resident[j] \cap BlocksOf(buffer[j]) = {} /\ line.block \notin BlocksOf(buffer[j])
  BY <1>0, <1>1 DEF EvictsAbsent, LinesInv, SingleCopy, LevelsOK
<1>4. /\ onward \in Seq(Task)
      /\ Calls(onward) = (IF line.dirty /\ WriteThrough[j] THEN {WriteBack(j + 1, line)} ELSE {}) \cup Calls(rest)
  <2>1. CASE line.dirty /\ WriteThrough[j]
    <3> PICK call \in Task : call = WriteBack(j + 1, line)
      BY <1>0, <2>1, CallType
    <3>1. onward = <<call>> \o rest
      BY <2>1 DEF WriteOn
    <3>2. <<call>> \o rest \in Seq(Task) /\ Calls(<<call>> \o rest) = {call} \cup Calls(rest)
      BY StackType, CallsPush
    <3> HIDE DEF onward
    <3> QED
      BY <2>1, <3>1, <3>2
  <2>2. CASE ~(line.dirty /\ WriteThrough[j])
    <3>1. onward = rest
      BY <2>2, ConcatEmptySeq DEF WriteOn
    <3> QED
      BY <2>2, <3>1
  <2> QED
    BY <2>1, <2>2
<1> HIDE DEF kept, onward
<1>5. OnlyLevel(j)
  BY <1>0, <1>1, <1>2, <1>3, <1>4, AllocateKeeps
<1>6. Installs(j, kept.block, resident[j] \cup BlocksOf(buffer[j]), onward)
  BY <1>0, <1>1, <1>2, <1>3, <1>4, AllocateHolds
<1>7. Installs(j, line.block, Held(j), onward)
  BY <1>2, <1>6, HeldIs
<1> QED
  BY <1>b, <1>4, <1>5, <1>7 DEF EvictedPlaced

LEMMA HandleEvictionHolds ==
  ASSUME InclusionInv, EvictsAbsent, HandleEviction
  PROVE  StackInv' /\ LocalsInv'
<1>c. ConservationInv /\ (Exclusive(Head(work).level + 1) => EvictedPlaced(Head(work).level, Head(work).line))
  BY EvictionInstalls DEF InclusionInv
<1> USE DEF InclusionInv, ConservationInv
<1>a. work # << >> /\ Head(work).op = "evict" /\ UNCHANGED <<pc, req, fetch, snapshot>>
  BY DEF HandleEviction
<1> DEFINE t == Head(work)
<1> PICK i \in Levels, line \in Line : i = t.level /\ line = t.line
  BY <1>a, HeadType
<1> PICK j \in 0 .. N : j = i + 1
  BY NAssumption DEF Levels
<1> DEFINE b == line.block
           rest == (IF Inclusive(i) THEN <<BackInvalidate(i, 0, b)>> ELSE << >>) \o Tail(work)
<1>0. /\ work \in Seq(Task) /\ Tail(work) \in Seq(Task) /\ t \in Task /\ b \in Blocks /\ LevelsOK
      /\ work' \in Seq(Task) /\ i \in Nat
  <2>1. work' \in Seq(Task)
    BY HandleEvictionType DEF TypeInv, StackOK
  <2> QED
    BY <1>a, <2>1, HeadType DEF TypeInv, StackOK, Levels
<1>1. /\ rest \in Seq(Task)
      /\ Calls(rest) = (IF Inclusive(i) THEN {BackInvalidate(i, 0, b)} ELSE {}) \cup Calls(Tail(work))
  BY <1>0, CallsBackInvalidate
<1>2. /\ j \in 0 .. N /\ Below(i) = j /\ j = Reaches(t) /\ t.line.block = b
  BY <1>a, NAssumption DEF Levels, Below, Reaches
<1>3. /\ \A k \in 0 .. N : k >= j => Continues(WriteBack(k, line), t, j)
      /\ Inclusive(i) => Continues(BackInvalidate(i, 0, b), t, j)
  <2>1. ASSUME NEW k \in 0 .. N, k >= j PROVE Continues(WriteBack(k, line), t, j)
    BY <2>1, CallFields DEF Reaches, Purges, Continues
  <2>2. ASSUME Inclusive(i) PROVE Continues(BackInvalidate(i, 0, b), t, j)
    BY <1>a, <1>0, <1>2, <2>2, BackInvalidateFields DEF Reaches, Purges, Continues
  <2> QED
    BY <2>1, <2>2
<1>4. Purges(t) => \E u \in Calls(rest) : \A k \in Levels : k < t.level => Removes(u, k, b)
  <2> SUFFICES ASSUME Purges(t)
               PROVE  \E u \in Calls(rest) : \A k \in Levels : k < t.level => Removes(u, k, b)
    OBVIOUS
  <2>1. Inclusive(i)
    BY <1>a DEF Purges
  <2> DEFINE u == BackInvalidate(i, 0, b)
  <2>2. u \in Calls(rest)
    BY <1>1, <2>1
  <2>3. u.op = "backInvalidate" /\ u.level = i /\ u.nth = 0 /\ u.line.block = b
    BY BackInvalidateFields
  <2> HIDE DEF u
  <2>4. \A k \in Levels : k < i => k <= NthAbove(i, 0)
    BY <1>0 DEF Levels, NthAbove
  <2> QED
    BY <2>2, <2>3, <2>4 DEF Removes
<1> HIDE DEF rest, b, t
<1>5. CASE ~Exclusive(j)
  <2>1. work' = WriteDown(j, line) \o rest /\ UNCHANGED <<resident, dirty, buffer>>
    BY <1>2, <1>5 DEF HandleEviction, contents, rest, b, t
  <2>2. Calls(work') = (IF line.dirty THEN {WriteBack(j, line)} ELSE {}) \cup Calls(rest)
    BY <1>1, <1>2, <2>1, CallsWriteDown
  <2>3. \A u \in Calls(work') : u \in Calls(Tail(work)) \/ Continues(u, t, j)
    BY <1>1, <1>2, <1>3, <2>2
  <2>4. TouchesOnly(j, b)
    BY <2>1 DEF TouchesOnly, Held, Buffered
  <2>5. Calls(Tail(work)) \subseteq Calls(rest) /\ Calls(rest) \subseteq Calls(work')
    BY <1>1, <2>2
  <2>6. Leaves(t, j)
    BY <1>0, <1>2, <1>4, <2>3, <2>5 DEF Leaves
  <2> QED
    BY <1>a, <1>0, <1>2, <2>4, <2>6, DownwardStep DEF t
<1>6. CASE Exclusive(j)
  <2>0. j \in Levels /\ ~Inclusive(j) /\ j + 1 \in 0 .. N
    BY <1>6, NAssumption DEF Exclusive, Inclusive, Levels
  <2>1. i = Head(work).level /\ line = Head(work).line /\ rest = AfterEvict(i, line.block) /\ j + 1 = i + 2
    BY <1>0 DEF rest, b, t, AfterEvict
  <2>2. PICK onward \in Seq(Task) :
          /\ Calls(onward) = (IF line.dirty /\ WriteThrough[j] THEN {WriteBack(j + 1, line)} ELSE {})
                              \cup Calls(rest)
          /\ OnlyLevel(j) /\ Installs(j, line.block, Held(j), onward)
    BY <1>6, <1>c, <2>1 DEF EvictedPlaced
  <2>4. Calls(onward) = (IF line.dirty /\ WriteThrough[j] THEN {WriteBack(j + 1, line)} ELSE {}) \cup Calls(rest)
    BY <2>2
  <2>5. OnlyLevel(j) /\ Installs(j, b, Held(j), onward)
    BY <2>2 DEF b
  <2>6. Held(j) \subseteq Held(j)
    OBVIOUS
  <2>7. TouchesOnly(j, b)
    <3>1. \A k \in Levels : k # j =>
            Held(k)' = Held(k) /\ dirty'[k] = dirty[k] /\ buffer'[k] = buffer[k]
      BY <2>5, HeldIs DEF OnlyLevel
    <3> QED
      BY <2>0, <2>5, <2>6, <3>1 DEF TouchesOnly, Installs
  <2>8. /\ Calls(Tail(work)) \subseteq Calls(onward) /\ Calls(rest) \subseteq Calls(onward)
        /\ \A u \in Calls(onward) : u \in Calls(Tail(work)) \/ Continues(u, t, j)
    <3>1. Continues(WriteBack(j + 1, line), t, j)
      BY <1>2, <1>3, <2>0
    <3> QED
      BY <1>1, <1>3, <2>4, <3>1
  <2>9. Leaves(t, j)
    BY <1>0, <1>2, <1>4, <2>0, <2>4, <2>5, <2>6, <2>8, InstallLeaves
  <2> QED
    BY <1>a, <1>0, <1>2, <2>7, <2>9, DownwardStep DEF t
<1> QED
  BY <1>5, <1>6

\* The write-back of a line about to be carried on to the next level.
LEMMA OnwardCalls ==
  ASSUME NEW i \in Levels, NEW line \in Line, NEW rest \in Seq(Task)
  PROVE  /\ <<WriteBack(i + 1, line)>> \o rest \in Seq(Task)
         /\ Calls(<<WriteBack(i + 1, line)>> \o rest) = {WriteBack(i + 1, line)} \cup Calls(rest)
<1>1. i + 1 \in 0 .. N
  BY NAssumption DEF Levels
<1>2. WriteBack(i + 1, line) \in Task
  BY <1>1, CallType
<1> QED
  BY <1>2, StackType, CallsPush

\* Cache.mark_dirty and Cache.clean leave a level's blocks alone.
LEMMA SetDirtyHolds ==
  ASSUME LevelsOK, SingleCopy, NEW i \in Levels, NEW b \in Blocks, Contains(i, b),
         NEW mark \in BOOLEAN, NEW current, SetDirty(i, b, mark, current)
  PROVE  TouchesOnly(i, b) /\ \A k \in Levels : Held(k)' = Held(k)
<1>1. OnlyLevel(i) /\ BlocksOf(buffer'[i]) = BlocksOf(buffer[i])
  BY SetDirtyKeeps DEF SingleCopy, OneCopyAt
<1>2. resident' = resident
  BY DEF SetDirty
<1> QED
  BY <1>1, <1>2, HeldIs DEF TouchesOnly, OnlyLevel

LEMMA WriteBackStepHolds ==
  ASSUME InclusionInv, WriteBackStep
  PROVE  StackInv' /\ LocalsInv'
<1> USE DEF InclusionInv, ConservationInv
<1>a. work # << >> /\ Head(work).op = "writeBack" /\ UNCHANGED <<pc, req, fetch, snapshot>>
  BY DEF WriteBackStep
<1> DEFINE t == Head(work)
<1> PICK i \in 0 .. N, line \in Line, b \in Blocks : i = t.level /\ line = t.line /\ b = line.block
  BY <1>a, HeadType
<1> DEFINE onward == <<WriteBack(i + 1, line)>> \o Tail(work)
           clean == [line EXCEPT !.dirty = FALSE]
<1>0. /\ work \in Seq(Task) /\ Tail(work) \in Seq(Task) /\ t \in Task /\ LevelsOK /\ SingleCopy
      /\ t \in Calls(work) /\ i \in Nat
  BY <1>a, HeadType, CallsPop, NAssumption DEF TypeInv, StackOK, LinesInv
<1>1. i = Reaches(t) /\ ~Purges(t) /\ t.line.block = b
  BY <1>a DEF Reaches, Purges
<1>2. i < N => i \in Levels
  BY <1>0, NAssumption DEF Levels
<1>3. i < N => /\ onward \in Seq(Task) /\ Calls(Tail(work)) \subseteq Calls(onward)
               /\ \A u \in Calls(onward) : u \in Calls(Tail(work)) \/ Continues(u, t, i)
  <2>1. Continues(WriteBack(i + 1, line), t, i)
    BY <1>0, <1>1, CallFields DEF Continues, Reaches, Purges
  <2> HIDE DEF t
  <2>2. ASSUME i \in Levels
        PROVE  onward \in Seq(Task) /\ Calls(onward) = {WriteBack(i + 1, line)} \cup Calls(Tail(work))
    <3> DEFINE rest == Tail(work)
    <3>1. rest \in Seq(Task)
      BY <1>0
    <3> HIDE DEF rest
    <3>2. /\ <<WriteBack(i + 1, line)>> \o rest \in Seq(Task)
          /\ Calls(<<WriteBack(i + 1, line)>> \o rest) = {WriteBack(i + 1, line)} \cup Calls(rest)
      BY <2>2, <3>1, OnwardCalls
    <3> QED
      BY <3>2 DEF rest
  <2> HIDE DEF onward
  <2> QED
    BY <1>2, <2>1, <2>2
<1>4. \/ work' = Tail(work) /\ UNCHANGED <<resident, dirty, buffer>>
      \/ i < N /\ work' = onward /\ UNCHANGED <<resident, dirty, buffer>>
      \/ i < N /\ Contains(i, b) /\ SetDirty(i, b, LineOf(i, b).dirty, line.fresh) /\ work' = onward
      \/ i < N /\ Contains(i, b) /\ SetDirty(i, b, TRUE, line.fresh) /\ work' = Tail(work)
      \/ i < N /\ ~Contains(i, b) /\ Allocate(i, clean, buffer[i], onward)
      \/ i < N /\ ~Contains(i, b) /\ Allocate(i, line, buffer[i], Tail(work))
  BY DEF WriteBackStep, contents, history
<1>5. clean \in Line /\ clean.block = b
  BY DEF Line
<1> HIDE DEF t, onward, clean
<1>6. ASSUME TouchesOnly(i, b), work' = Tail(work) \/ (i < N /\ work' = onward)
      PROVE  StackInv' /\ LocalsInv'
  <2>1. Leaves(t, i)
    BY <1>0, <1>1, <1>3, <1>6 DEF Leaves
  <2> QED
    BY <1>a, <1>0, <1>1, <1>6, <2>1, DownwardStep DEF t
<1>7. UNCHANGED <<resident, dirty, buffer>> => TouchesOnly(i, b)
  BY HeldIs DEF TouchesOnly
<1>8. ASSUME NEW put \in Line, put.block = b, NEW rest \in Seq(Task), rest \in {Tail(work), onward}, i < N,
             ~Contains(i, b), Allocate(i, put, buffer[i], rest)
      PROVE  StackInv' /\ LocalsInv'
  <2>1. i \in Levels /\ ~Inclusive(i)
    BY <1>0, <1>1, <1>2, <1>8 DEF StackInv, CallsHeld, Held, Contains
  <2>2. /\ buffer[i] \in Seq(Line) /\ Distinct(buffer[i])
        /\ resident[i] \cap BlocksOf(buffer[i]) = {} /\ put.block \notin BlocksOf(buffer[i])
    BY <1>0, <1>8, <2>1 DEF LevelsOK, SingleCopy, Contains, Buffered, BlocksOf
  <2>3. OnlyLevel(i)
    BY <1>0, <1>8, <2>1, <2>2, AllocateKeeps
  <2>4. Installs(i, put.block, resident[i] \cup BlocksOf(buffer[i]), rest)
    BY <1>0, <1>8, <2>1, <2>2, AllocateHolds
  <2>5. Installs(i, b, Held(i), rest)
    BY <1>8, <2>4, HeldIs
  <2>6. TouchesOnly(i, b)
    <3>1. \A k \in Levels : k # i =>
            Held(k)' = Held(k) /\ dirty'[k] = dirty[k] /\ buffer'[k] = buffer[k]
      BY <2>3, HeldIs DEF OnlyLevel
    <3>2. Held(i)' \subseteq Held(i) \cup {b}
      BY <2>5 DEF Installs
    <3> QED
      BY <2>1, <3>1, <3>2 DEF TouchesOnly
  <2>7. Leaves(t, i)
    <3>1. /\ Calls(Tail(work)) \subseteq Calls(rest)
          /\ \A u \in Calls(rest) : u \in Calls(Tail(work)) \/ Continues(u, t, i)
      BY <1>3, <1>8
    <3>2. Held(i) \subseteq Held(i)
      OBVIOUS
    <3> QED
      BY <1>0, <1>1, <2>1, <2>5, <3>1, <3>2, InstallLeaves
  <2> QED
    BY <1>a, <1>0, <1>1, <2>6, <2>7, DownwardStep DEF t
<1>9. ASSUME i < N, Contains(i, b)
      PROVE  \A mark \in BOOLEAN : SetDirty(i, b, mark, line.fresh) => TouchesOnly(i, b)
  BY <1>0, <1>2, <1>9, SetDirtyHolds
<1>10. Contains(i, b) /\ i < N => LineOf(i, b).dirty \in BOOLEAN
  BY <1>0, <1>2, LineOfType DEF Line
<1> QED
  BY <1>0, <1>3, <1>4, <1>5, <1>6, <1>7, <1>8, <1>9, <1>10

\* Cache.invalidate takes the block out of the level.
LEMMA InvalidateHolds ==
  ASSUME LevelsOK, SingleCopy, NEW k \in Levels, NEW b \in Blocks, Contains(k, b), Invalidate(k, b)
  PROVE  /\ Held(k)' = Held(k) \ {b}
         /\ \A l \in Levels : l # k => Held(l)' = Held(l)
<1>1. OnlyLevel(k)
  BY InvalidateKeeps DEF SingleCopy, OneCopyAt
<1>2. \A l \in Levels : l # k => Held(l)' = Held(l)
  BY <1>1, HeldIs DEF OnlyLevel
<1>3. CASE b \in resident[k]
  <2>1. resident'[k] = resident[k] \ {b} /\ buffer'[k] = buffer[k] /\ b \notin BlocksOf(buffer[k])
    BY <1>3 DEF Invalidate, LevelsOK, SingleCopy
  <2> QED
    BY <1>2, <2>1, HeldIs
<1>4. CASE b \notin resident[k]
  <2>1. resident'[k] = resident[k] /\ buffer'[k] = Without(buffer[k], b)
    BY <1>4 DEF Invalidate, LevelsOK
  <2>2. buffer[k] \in Seq(Line) /\ Distinct(buffer[k])
    BY DEF LevelsOK, SingleCopy
  <2>3. BlocksOf(buffer'[k]) = BlocksOf(buffer[k]) \ {b}
    BY <2>1, <2>2, WithoutBlocks
  <2> QED
    BY <1>2, <1>4, <2>1, <2>3, HeldIs
<1> QED
  BY <1>3, <1>4

\* Back-invalidation takes its block out of the levels above the one just filled,
\* the nearest one first.
LEMMA BackInvalidateStepHolds ==
  ASSUME InclusionInv, BackInvalidateStep
  PROVE  StackInv' /\ LocalsInv'
<1> USE DEF InclusionInv, ConservationInv
<1>a. work # << >> /\ Head(work).op = "backInvalidate" /\ UNCHANGED <<pc, req, fetch, snapshot>>
  BY DEF BackInvalidateStep
<1> DEFINE t == Head(work)
<1> PICK i \in Levels, nth \in 0 .. N, b \in Blocks : i = t.level /\ nth = t.nth /\ b = t.line.block
  BY <1>a, HeadType
<1> PICK k \in Int : k = NthAbove(i, nth)
  BY NAssumption DEF NthAbove, Levels
<1> DEFINE rest == NextAbove(i, nth, b) \o Tail(work)
<1>0. /\ work \in Seq(Task) /\ Tail(work) \in Seq(Task) /\ t \in Task /\ LevelsOK /\ SingleCopy
      /\ Calls(work) = {t} \cup Calls(Tail(work)) /\ i \in Nat /\ nth \in Nat /\ fetch.at \in Int
      /\ fetch.to \in Int
  BY <1>a, HeadType, CallsPop, NAssumption DEF TypeInv, StackOK, LocalsOK, LinesInv, Levels, Fetch
<1>b. \A u \in Calls(work) : u \in Task /\ Reaches(u) \in Int
  BY <1>0, TaskFields DEF Calls
<1>1. i + 1 = Reaches(t) /\ Purges(t) /\ k = i - 1 - nth
  BY <1>a DEF Reaches, Purges, NthAbove
<1>2. pc \in {"fill", "prefetch"} /\ i = fetch.at + 1 /\ k <= fetch.at
  <2>1. pc \in {"fill", "prefetch"} /\ i <= fetch.at + 1
    BY <1>0, <1>1 DEF StackInv, PurgesAbove
  <2>2. i + 1 > fetch.at + 1
    BY <1>0, <1>1, <2>1 DEF StackInv, CallsBelow
  <2>3. i = fetch.at + 1
    BY <1>0, <2>1, <2>2
  <2> QED
    BY <1>0, <1>1, <2>1, <2>3
<1>3. /\ rest \in Seq(Task)
      /\ Calls(rest) = (IF nth + 1 < i THEN {BackInvalidate(i, nth + 1, b)} ELSE {}) \cup Calls(Tail(work))
  <2>1. CASE nth + 1 < i
    <3>1. nth + 1 \in 0 .. N
      BY <1>0, <2>1, NAssumption DEF Levels
    <3>2. BackInvalidate(i, nth + 1, b) \in Task
      BY <3>1 DEF BackInvalidate, Call, Task, Line
    <3>3. rest = <<BackInvalidate(i, nth + 1, b)>> \o Tail(work)
      BY <2>1 DEF NextAbove
    <3> HIDE DEF rest
    <3> QED
      BY <1>0, <2>1, <3>2, <3>3, StackType, CallsPush
  <2>2. CASE ~(nth + 1 < i)
    <3>1. rest = Tail(work)
      BY <1>0, <2>2, ConcatEmptySeq DEF NextAbove
    <3> QED
      BY <1>0, <2>2, <3>1
  <2> QED
    BY <2>1, <2>2
<1> HIDE DEF rest, t
<1>4. /\ Calls(Tail(work)) \subseteq Calls(work')
      /\ nth + 1 < i => BackInvalidate(i, nth + 1, b) \in Calls(work')
      /\ \A u \in Calls(work') : u \in Calls(Tail(work)) \/ Continues(u, t, i + 1)
      /\ \A l \in Levels : l # k => Held(l)' = Held(l)
      /\ k \in Levels => Held(k)' = Held(k) \ {b}
  <2>1. nth + 1 < i => Continues(BackInvalidate(i, nth + 1, b), t, i + 1)
    BY <1>0, <1>1, BackInvalidateFields DEF Continues, Reaches, Purges
  <2>2. CASE nth < i /\ LosesCopy(k, b)
    <3>1. k \in Levels
      BY <1>0, <1>1, <2>2, NAssumption DEF Levels
    <3>2. Contains(k, b) /\ Invalidate(k, b) /\ work' = WriteDown(i + 1, LineOf(k, b)) \o rest
      BY <2>2 DEF BackInvalidateStep, LosesCopy, t, rest
    <3> PICK line \in Line : line = LineOf(k, b) /\ line.block = b
      BY <1>0, <3>1, <3>2, LineOfType
    <3>3. i + 1 \in 0 .. N
      BY NAssumption DEF Levels
    <3>4. Calls(work') = (IF line.dirty THEN {WriteBack(i + 1, line)} ELSE {}) \cup Calls(rest)
      BY <1>3, <3>2, <3>3, CallsWriteDown
    <3>5. Continues(WriteBack(i + 1, line), t, i + 1)
      BY <1>0, CallFields DEF Continues, Reaches, Purges
    <3>6. /\ Held(k)' = Held(k) \ {b}
          /\ \A l \in Levels : l # k => Held(l)' = Held(l)
      BY <1>0, <3>1, <3>2, InvalidateHolds
    <3> QED
      BY <1>3, <2>1, <3>4, <3>5, <3>6
  <2>3. CASE ~(nth < i /\ LosesCopy(k, b))
    <3>1. work' = rest /\ UNCHANGED <<resident, dirty, buffer>>
      BY <2>3 DEF BackInvalidateStep, contents, t, rest
    <3>2. \A l \in Levels : Held(l)' = Held(l)
      BY <3>1, HeldIs
    <3>3. k \in Levels => b \notin Held(k)
      <4>1. k \in Levels => nth < i
        BY <1>0, <1>1 DEF Levels
      <4> QED
        BY <2>3, <4>1 DEF LosesCopy, Contains, Held
    <3> QED
      BY <1>3, <2>1, <3>1, <3>2, <3>3
  <2> QED
    BY <2>2, <2>3
<1>c. work' \in Seq(Task)
  BY BackInvalidateType DEF TypeInv, StackOK
<1>d. \A u \in Calls(work') : Reaches(u) \in Int
  BY <1>c, TaskFields DEF Calls
<1>5. \A l \in Levels : l > fetch.at => Held(l)' = Held(l)
  BY <1>0, <1>2, <1>4 DEF Levels
<1>6. CallsHeld'
  <2> SUFFICES ASSUME NEW u \in Calls(work'), NEW l \in Levels, Inclusive(l), l >= Reaches(u)
               PROVE  u.line.block \in Held(l)'
    BY DEF CallsHeld
  <2>1. PICK v \in Calls(work) : u.line.block = v.line.block /\ Reaches(u) >= Reaches(v)
    <3>1. CASE u \in Calls(Tail(work))
      BY <1>0, <1>b, <3>1
    <3>2. CASE Continues(u, t, i + 1)
      BY <1>0, <1>1, <3>2 DEF Continues
    <3> QED
      BY <1>4, <3>1, <3>2
  <2>2. Reaches(v) > fetch.at + 1
    BY <1>2 DEF StackInv, CallsBelow
  <2>3. l >= Reaches(v) /\ l > fetch.at
    BY <1>0, <1>b, <1>d, <2>1, <2>2 DEF Levels
  <2> QED
    BY <1>5, <2>1, <2>3 DEF StackInv, CallsHeld
<1>7. PurgesAbove'
  <2>1. \A u \in Calls(work) : Purges(u) => u.level <= fetch.at + 1
    BY DEF StackInv, PurgesAbove
  <2> QED
    BY <1>a, <1>0, <1>1, <1>2, <1>4, <2>1 DEF PurgesAbove, Continues
<1>8. CallsBelow'
  <2>1. \A u \in Calls(work) : Reaches(u) > fetch.at + 1
    BY <1>2 DEF StackInv, CallsBelow
  <2>2. \A u \in Calls(work') : Reaches(u) > fetch.at + 1
    BY <1>0, <1>1, <1>2, <1>4, <1>d, <2>1 DEF Continues
  <2> QED
    BY <1>a, <1>2, <2>2 DEF CallsBelow
<1>9. AlmostInclusive'
  <2> SUFFICES ASSUME NEW m \in Levels, Inclusive(m), NEW l \in Levels, l < m, NEW c \in Held(l)'
               PROVE  c \in Held(m)' \/ Doomed(l, c)'
    BY DEF AlmostInclusive
  <2>1. c \in Held(l) /\ ~(l = k /\ c = b)
    BY <1>4
  <2>2. c \in Held(m) \/ Doomed(l, c)
    BY <2>1 DEF StackInv, AlmostInclusive
  \* The next call takes the block out of the levels above level k.
  <2>3. c = b /\ l < k => Doomed(l, c)'
    <3> SUFFICES ASSUME c = b, l < k PROVE Doomed(l, c)'
      OBVIOUS
    <3> DEFINE next == BackInvalidate(i, nth + 1, b)
    <3>1. nth + 1 < i /\ l <= i - 1 - (nth + 1)
      BY <1>0, <1>1 DEF Levels
    <3>2. next \in Calls(work')
      BY <1>4, <3>1
    <3>3. next.op = "backInvalidate" /\ next.level = i /\ next.nth = nth + 1 /\ next.line.block = b
      BY BackInvalidateFields
    <3> HIDE DEF next
    <3> QED
      BY <3>1, <3>2, <3>3 DEF Doomed, Removes, NthAbove
  <2>4. CASE c \in Held(m)
    BY <1>4, <2>1, <2>3, <2>4
  <2>5. ASSUME NEW p \in Calls(work), Removes(p, l, c) PROVE Doomed(l, c)'
    <3>1. CASE p \in Calls(Tail(work))
      BY <1>4, <2>5, <3>1 DEF Doomed
    <3>2. CASE p = t
      <4>1. c = b /\ l <= k
        BY <1>a, <2>5, <3>2 DEF Removes, t
      <4> QED
        BY <2>1, <2>3, <4>1 DEF Levels
    <3> QED
      BY <1>0, <3>1, <3>2
  <2> QED
    BY <2>2, <2>4, <2>5 DEF Doomed
<1>10. FetchHeld' /\ ForwardFacts'
  BY <1>a, <1>5 DEF LocalsInv, FetchHeld, ForwardFacts
<1>11. FilledStays' /\ ListedDirty'
  <2>1. ASSUME pc = "fill", fetch.at < fetch.to, fetch.to < N
        PROVE  fetch.block \in Held(fetch.to)'
    <3>1. fetch.to \in Levels
      BY <2>1, NAssumption DEF TypeInv, LocalsOK, Fetch, Levels
    <3> QED
      BY <1>a, <1>5, <2>1, <3>1 DEF LocalsInv, FilledStays
  <2> QED
    BY <1>a, <1>2, <2>1 DEF LocalsInv, FilledStays, ListedDirty
<1> QED
  BY <1>6, <1>7, <1>8, <1>9, <1>10, <1>11 DEF StackInv, LocalsInv

-----------------------------------------------------------------------------
(* The steps of access() that call nothing.                                *)

\* No block leaves an inclusive level, and none enters any.
LEMMA QuietStep ==
  ASSUME StackInv, work = << >>, work' = << >>,
         \A k \in Levels : Held(k)' \subseteq Held(k),
         \A k \in Levels : Inclusive(k) => Held(k)' = Held(k)
  PROVE  StackInv'
<1>1. Calls(work) = {} /\ Calls(work') = {}
  BY CallsOfNone
<1>2. CallsHeld' /\ PurgesAbove' /\ CallsBelow'
  BY <1>1 DEF CallsHeld, PurgesAbove, CallsBelow
<1>3. AlmostInclusive'
  BY <1>1 DEF StackInv, AlmostInclusive, Doomed
<1> QED
  BY <1>2, <1>3 DEF StackInv

\* While no call is running, an inclusive level holds what those above hold.
LEMMA NothingDoomed ==
  ASSUME StackInv, work = << >>, NEW i \in Levels, Inclusive(i), NEW k \in Levels, k < i
  PROVE  Held(k) \subseteq Held(i)
  BY CallsOfNone DEF StackInv, AlmostInclusive, Doomed

LEMMA HeldUnchanged ==
  ASSUME UNCHANGED <<resident, buffer>>
  PROVE  \A k \in Levels : Held(k)' = Held(k)
  BY HeldIs

LEMMA BeginAccessHolds ==
  ASSUME InclusionInv, NEW b \in Blocks, NEW store \in BOOLEAN, BeginAccess(b, store)
  PROVE  StackInv' /\ LocalsInv'
<1> USE DEF InclusionInv, ConservationInv
<1>1. /\ work = << >> /\ work' = << >> /\ UNCHANGED <<resident, buffer>> /\ pc' = "probe"
      /\ req'.forward = -1
  BY DEF BeginAccess, contents, NoRequest, TypeInv, StackOK
<1>2. StackInv'
  BY <1>1, HeldUnchanged, QuietStep
<1>3. LocalsInv'
  BY <1>1 DEF LocalsInv, FetchHeld, ForwardFacts, FilledStays, ListedDirty
<1> QED
  BY <1>2, <1>3

\* The level that hits: what access() then knows.
LEMMA HitAtHolds ==
  ASSUME InclusionInv, pc = "probe", NEW i \in Levels, req' = HitAt(i), pc' = "settle"
  PROVE  LocalsInv'
<1> USE DEF InclusionInv, ConservationInv
<1>1. req \in Request
  BY DEF TypeInv, LocalsOK
<1>2. /\ req'.fillFrom = (IF req.write THEN i ELSE req.fillFrom)
      /\ req'.forward = (IF req.write /\ WriteThrough[i] THEN i + 1 ELSE req.forward)
  BY <1>1 DEF HitAt, Request
<1>3. ForwardFacts'
  BY <1>2 DEF LocalsInv, ForwardFacts
<1> QED
  BY <1>3 DEF LocalsInv, FetchHeld, FilledStays, ListedDirty

LEMMA ProbeHitHolds ==
  ASSUME InclusionInv, ProbeHit
  PROVE  StackInv' /\ LocalsInv'
<1> USE DEF InclusionInv, ConservationInv
<1> PICK i \in Levels : i = req.level
  BY NAssumption DEF ProbeHit, TypeInv, LocalsOK, Request, Levels
<1>1. /\ work = << >> /\ work' = << >> /\ UNCHANGED <<resident, buffer>>
      /\ pc = "probe" /\ pc' = "settle" /\ req' = HitAt(i)
  BY DEF ProbeHit, TypeInv, StackOK
<1>2. StackInv'
  BY <1>1, HeldUnchanged, QuietStep
<1> QED
  BY <1>1, <1>2, HitAtHolds

\* A hit in the victim buffer swaps the block in; the level holds what it held.
LEMMA VictimHitHeld ==
  ASSUME ConservationInv, ProbeVictimHit
  PROVE  work' = << >> /\ \A k \in Levels : Held(k)' = Held(k)
<1> USE DEF ConservationInv
<1> PICK i \in Levels, b \in Blocks : i = req.level /\ b = req.block
  BY NAssumption DEF ProbeVictimHit, TypeInv, LocalsOK, Request, Levels
<1> DEFINE line == [LineOf(i, b) EXCEPT !.dirty = DirtyAfterHit(i, @)]
<1>1. /\ work = << >> /\ work' = << >> /\ pc = "probe" /\ pc' = "settle" /\ req' = HitAt(i)
      /\ b \notin resident[i] /\ b \in Buffered(i) /\ LevelsOK
      /\ Allocate(i, line, Without(buffer[i], b), << >>)
  BY VictimHitQuiet DEF ProbeVictimHit, TypeInv, StackOK
<1> PICK lines \in Seq(Line) : lines = Without(buffer[i], b)
  BY <1>1, WithoutType DEF LevelsOK
<1>2. line \in Line /\ line.block = b
  <2>1. LineOf(i, b) \in Line /\ LineOf(i, b).block = b
    BY <1>1, LineOfType DEF Contains
  <2>2. DirtyAfterHit(i, LineOf(i, b).dirty) \in BOOLEAN
    BY DEF DirtyAfterHit
  <2> QED
    BY <2>1, <2>2 DEF Line
<1> PICK new \in Line : new = line /\ new.block = b
  BY <1>2
<1>3. Allocate(i, new, lines, << >>) /\ << >> \in Seq(Task)
  BY <1>1
<1> HIDE DEF line
<1>4. /\ BlocksOf(lines) = BlocksOf(buffer[i]) \ {b} /\ Distinct(lines)
      /\ resident[i] \cap BlocksOf(lines) = {} /\ new.block \notin BlocksOf(lines)
  <2>1. buffer[i] \in Seq(Line) /\ Distinct(buffer[i]) /\ resident[i] \cap BlocksOf(buffer[i]) = {}
    BY <1>1 DEF LevelsOK, LinesInv, SingleCopy
  <2>2. Distinct(lines) /\ BlocksOf(lines) = BlocksOf(buffer[i]) \ {b}
    BY <2>1, WithoutBlocks
  <2> QED
    BY <2>1, <2>2
<1>5. OnlyLevel(i)
  BY <1>1, <1>3, <1>4, AllocateKeeps
<1>6. Installs(i, new.block, resident[i] \cup BlocksOf(lines), << >>)
  BY <1>1, <1>3, <1>4, AllocateHolds
<1>7. Held(i)' = Held(i)
  <2> PICK before : before = resident[i] \cup BlocksOf(lines)
    OBVIOUS
  <2>1. Installs(i, b, before, << >>)
    BY <1>6
  <2>2. b \in Held(i)' /\ Held(i)' \subseteq before \cup {b} /\ before \subseteq Held(i)'
    <3>1. \A out \in Line : work' # <<Evict(i, out)>> \o << >>
      <4>1. \A out \in Line : <<Evict(i, out)>> \o << >> = <<Evict(i, out)>>
        BY CallType, ConcatEmptySeq
      <4> QED
        BY <1>1, <4>1
    <3> QED
      BY <2>1, <3>1 DEF Installs
  <2>3. Held(i) = before \cup {b}
    <3>1. b \in BlocksOf(buffer[i])
      BY <1>1 DEF Buffered, BlocksOf
    <3>2. Held(i) = resident[i] \cup BlocksOf(buffer[i])
      BY HeldIs
    <3> QED
      BY <1>4, <3>1, <3>2
  <2> QED
    BY <2>2, <2>3
<1>8. \A k \in Levels : Held(k)' = Held(k)
  BY <1>5, <1>7, HeldIs DEF OnlyLevel
<1> QED
  BY <1>1, <1>8

LEMMA ProbeVictimHitHolds ==
  ASSUME InclusionInv, ProbeVictimHit
  PROVE  StackInv' /\ LocalsInv'
<1> USE DEF InclusionInv, ConservationInv
<1> PICK i \in Levels : i = req.level
  BY NAssumption DEF ProbeVictimHit, TypeInv, LocalsOK, Request, Levels
<1>1. work = << >> /\ pc = "probe" /\ pc' = "settle" /\ req' = HitAt(i)
  BY DEF ProbeVictimHit, TypeInv, StackOK
<1>2. work' = << >> /\ \A k \in Levels : Held(k)' = Held(k)
  BY VictimHitHeld
<1>3. StackInv'
  BY <1>1, <1>2, QuietStep
<1> QED
  BY <1>1, <1>3, HitAtHolds

LEMMA ProbeMissHolds ==
  ASSUME InclusionInv, ProbeMiss
  PROVE  StackInv' /\ LocalsInv'
<1> USE DEF InclusionInv, ConservationInv
<1> PICK i \in Levels : i = req.level
  BY NAssumption DEF ProbeMiss, TypeInv, LocalsOK, Request, Levels
<1> DEFINE takes == req.write /\ WriteAllocate[i]
<1>1. /\ work = << >> /\ work' = << >> /\ UNCHANGED <<resident, buffer>>
      /\ pc = "probe" /\ pc' = "probe" /\ req \in Request
      /\ req' = [req EXCEPT !.level = i + 1,
                            !.write = @ /\ ~takes,
                            !.taken = IF takes THEN i ELSE @,
                            !.fillFrom = IF takes THEN i ELSE @,
                            !.forward = IF takes /\ WriteThrough[i] THEN i + 1 ELSE @]
  BY DEF ProbeMiss, contents, TypeInv, StackOK, LocalsOK
<1> HIDE DEF takes
<1>2. /\ req'.fillFrom = (IF takes THEN i ELSE req.fillFrom)
      /\ req'.forward = (IF takes /\ WriteThrough[i] THEN i + 1 ELSE req.forward)
      /\ req'.write => req.write /\ ~takes
  BY <1>1 DEF Request
<1>3. ForwardFacts'
  <2>1. /\ req.write => req.forward = -1
        /\ req.forward >= 0 => req.forward = req.fillFrom + 1
    BY <1>1 DEF LocalsInv, ForwardFacts
  <2>2. takes => req.write
    BY DEF takes
  <2> QED
    BY <1>1, <1>2, <2>1, <2>2 DEF ForwardFacts
<1>4. StackInv'
  BY <1>1, HeldUnchanged, QuietStep
<1> QED
  BY <1>1, <1>3, <1>4 DEF LocalsInv, FetchHeld, FilledStays, ListedDirty

LEMMA ReachMemoryHolds ==
  ASSUME InclusionInv, ReachMemory
  PROVE  StackInv' /\ LocalsInv'
<1> USE DEF InclusionInv, ConservationInv
<1>1. /\ work = << >> /\ work' = << >> /\ UNCHANGED <<resident, buffer>>
      /\ pc = "probe" /\ pc' = "settle" /\ req \in Request
      /\ req' = [req EXCEPT !.fillFrom = IF req.write THEN N ELSE @]
  BY DEF ReachMemory, contents, TypeInv, StackOK, LocalsOK
<1>2. req'.fillFrom = (IF req.write THEN N ELSE req.fillFrom) /\ req'.forward = req.forward
  BY <1>1 DEF Request
<1>3. ForwardFacts'
  BY <1>1, <1>2 DEF LocalsInv, ForwardFacts
<1>4. StackInv'
  BY <1>1, HeldUnchanged, QuietStep
<1> QED
  BY <1>1, <1>3, <1>4 DEF LocalsInv, FetchHeld, FilledStays, ListedDirty

\* A store that was taken supersedes the other copies; none of them goes.
LEMMA SettleHeld ==
  ASSUME ConservationInv, Settle
  PROVE  \A k \in Levels : Held(k)' = Held(k)
<1> SUFFICES ASSUME NEW k \in Levels PROVE Held(k)' = Held(k)
  OBVIOUS
<1> PICK b \in Blocks : b = req.block
  BY DEF Settle, ConservationInv, TypeInv, LocalsOK
<1>1. resident' = resident /\ (buffer'[k] = Superseded(k, b) \/ buffer'[k] = buffer[k])
  BY DEF Settle
<1>2. BlocksOf(buffer'[k]) = BlocksOf(buffer[k])
  BY <1>1, SupersededKeeps DEF ConservationInv, TypeInv, LinesInv
<1> QED
  BY <1>1, <1>2, HeldIs

\* The block is in the level that hit, and in the inclusive levels below it.
LEMMA SettleHolds ==
  ASSUME InclusionInv, Settle
  PROVE  StackInv' /\ LocalsInv'
<1> USE DEF InclusionInv, ConservationInv
<1> PICK b \in Blocks : b = req.block
  BY DEF Settle, TypeInv, LocalsOK
<1>0. /\ req \in Request /\ req.hit \in 0 .. N /\ req.fillFrom \in 0 .. N /\ (req.taken = -1 \/ req.taken >= 0)
      /\ req.hit \in Nat /\ req.fillFrom \in Nat /\ N \in Nat
  BY NAssumption DEF TypeInv, LocalsOK, Request, Levels
<1>1. /\ work = << >> /\ work' = << >> /\ resident' = resident /\ req' = req
      /\ pc = "settle" /\ pc' \in {"move", "fill"} /\ (pc' = "move" => Exclusive(req.hit))
      /\ fetch'.block = b /\ fetch'.at = req.hit - 1 /\ fetch'.to = req.fillFrom
  BY DEF Settle, MovesUp
<1>2. \A k \in Levels : Held(k)' = Held(k)
  BY SettleHeld
<1>3. StackInv'
  BY <1>1, <1>2, QuietStep
<1>4. req.hit < N => req.hit \in Levels /\ b \in Held(req.hit)
  <2>1. req.hit < N => req.hit \in Levels
    BY <1>0 DEF Levels
  <2> QED
    BY <1>1, <2>1 DEF TypeInv, HitHolds, Contains, Held
<1>5. FetchHeld'
  <2> SUFFICES ASSUME NEW i \in Levels, Inclusive(i), i > req.hit - 1 PROVE b \in Held(i)
    BY <1>1, <1>2 DEF FetchHeld
  <2>1. CASE i = req.hit
    BY <1>0, <1>4, <2>1 DEF Levels
  <2>2. CASE i # req.hit
    <3>1. req.hit < i /\ req.hit < N
      BY <1>0, <2>2 DEF Levels
    <3> QED
      BY <1>1, <1>4, <3>1, NothingDoomed
  <2> QED
    BY <2>1, <2>2
<1>6. ForwardFacts'
  BY <1>1 DEF LocalsInv, ForwardFacts
<1>7. FilledStays'
  <2> PICK to \in Nat, hit \in Nat : to = req.fillFrom /\ hit = req.hit
    BY <1>0
  <2>1. to < N => to <= hit
    BY <1>0, <1>1 DEF LinesInv, ReqFacts
  <2>2. ASSUME hit - 1 < to, to < N
        PROVE  b \in Held(to)'
    <3>1. to = hit /\ to \in Levels /\ b \in Held(to)
      BY <1>0, <1>4, <2>1, <2>2
    <3> QED
      BY <1>2, <3>1
  <2>3. to < N => (hit - 1) + 1 >= to
    BY <2>1
  <2> QED
    BY <1>1, <2>2, <2>3 DEF FilledStays
<1> QED
  BY <1>1, <1>3, <1>5, <1>6, <1>7 DEF LocalsInv, ListedDirty

\* A block moves up from an exclusive level.
LEMMA MoveUpHolds ==
  ASSUME InclusionInv, MoveUp
  PROVE  StackInv' /\ LocalsInv'
<1> USE DEF InclusionInv, ConservationInv
<1> PICK i \in Levels, b \in Blocks : i = req.hit /\ b = fetch.block
  BY NAssumption DEF MoveUp, TypeInv, LocalsOK, HitHolds, Request, Levels
<1>0. /\ pc = "move" /\ pc' = "fill" /\ Contains(i, b) /\ Invalidate(i, b) /\ LevelsOK /\ SingleCopy
      /\ fetch \in Fetch /\ fetch' = [fetch EXCEPT !.dirty = fetch.dirty \/ LineOf(i, b).dirty]
      /\ req' = req /\ work = << >> /\ work' = << >>
      /\ fetch.at = i - 1 /\ fetch.to <= fetch.at /\ b = req.block /\ Exclusive(i)
  BY DEF MoveUp, TypeInv, LocalsOK, HitHolds, StackOK, LinesInv, FetchFacts, LocalsInv, ForwardFacts
<1>1. fetch'.block = b /\ fetch'.at = fetch.at /\ fetch'.to = fetch.to
  BY <1>0 DEF Fetch
<1>2. Held(i)' = Held(i) \ {b} /\ \A k \in Levels : k # i => Held(k)' = Held(k)
  BY <1>0, InvalidateHolds
<1>3. \A k \in Levels : Inclusive(k) => Held(k)' = Held(k)
  BY <1>0, <1>2 DEF Exclusive, Inclusive
<1>4. \A k \in Levels : Held(k)' \subseteq Held(k)
  BY <1>2
<1>5. StackInv'
  BY <1>0, <1>3, <1>4, QuietStep
<1>6. FetchHeld'
  BY <1>0, <1>1, <1>3 DEF LocalsInv, FetchHeld
<1>7. ForwardFacts'
  BY <1>0, <1>1 DEF LocalsInv, ForwardFacts
<1>8. FilledStays'
  <2>1. fetch.at \in Int /\ fetch.to \in Int
    BY <1>0, NAssumption DEF Fetch, Levels
  <2>2. ~(fetch.at < fetch.to) /\ fetch.at + 1 >= fetch.to
    BY <1>0, <2>1
  <2> QED
    BY <1>0, <1>1, <2>2 DEF FilledStays
<1> QED
  BY <1>0, <1>5, <1>6, <1>7, <1>8 DEF LocalsInv, ListedDirty
-----------------------------------------------------------------------------
(* The steps of access() that fill levels, and those that call.            *)

\* One level of a fill: its victim is back-invalidated above, and the inclusive
\* levels below hold both blocks.
LEMMA FillInstalls ==
  ASSUME InclusionInv, pc \in {"fill", "prefetch"}, pc' = pc, work = << >>, NEW i \in Levels, i = fetch.at,
         NEW b \in Blocks, b = fetch.block, fetch'.at = i - 1, Installs(i, b, Held(i), << >>),
         \A k \in Levels : k # i => Held(k)' = Held(k)
  PROVE  StackInv'
<1> USE DEF InclusionInv, ConservationInv
<1>1. \A k \in Levels : Inclusive(k) /\ k > i => b \in Held(k)
  BY DEF LocalsInv, FetchHeld
<1>2. \A m, k \in Levels : Inclusive(m) /\ k < m => Held(k) \subseteq Held(m)
  BY NothingDoomed
<1>3. b \in Held(i)' /\ Held(i)' \subseteq Held(i) \cup {b}
  BY DEF Installs
<1>4. CASE work' = << >> /\ Held(i) \subseteq Held(i)'
  <2>1. Calls(work') = {}
    BY <1>4, CallsOfNone
  <2>2. AlmostInclusive'
    <3> SUFFICES ASSUME NEW m \in Levels, Inclusive(m), NEW k \in Levels, k < m, NEW c \in Held(k)'
                 PROVE  c \in Held(m)'
      BY DEF AlmostInclusive
    <3>1. CASE c \in Held(k)
      BY <1>2, <1>4, <3>1
    <3>2. CASE k = i /\ c = b
      BY <1>1, <3>2 DEF Levels
    <3> QED
      BY <1>3, <3>1, <3>2
  <2> QED
    BY <2>1, <2>2 DEF StackInv, CallsHeld, PurgesAbove, CallsBelow
<1>5. ASSUME NEW out \in Line, work' = <<Evict(i, out)>> \o << >>, out.block \in Held(i) \ {b},
             Held(i) \subseteq Held(i)' \cup {out.block}
      PROVE  StackInv'
  <2> PICK e \in Task : e = Evict(i, out)
    BY CallType
  <2>1. Calls(work') = {e}
    <3>1. << >> \in Seq(Task)
      OBVIOUS
    <3>2. Calls(<<e>> \o << >>) = {e} \cup Calls(<< >>)
      BY <3>1, CallsPush
    <3> QED
      BY <1>5, <3>2, CallsOfNone
  <2>2. e.op = "evict" /\ e.level = i /\ e.line = out
    BY CallFields
  <2>3. Reaches(e) = i + 1 /\ i \in Int
    BY <2>2 DEF Reaches, Levels
  <2>4. CallsHeld'
    <3> SUFFICES ASSUME NEW k \in Levels, Inclusive(k), k >= i + 1 PROVE out.block \in Held(k)'
      BY <2>1, <2>2, <2>3 DEF CallsHeld
    <3>1. i < k /\ k # i
      BY <2>3 DEF Levels
    <3> QED
      BY <1>2, <1>5, <3>1
  <2>5. PurgesAbove' /\ CallsBelow'
    BY <2>1, <2>2, <2>3 DEF PurgesAbove, CallsBelow
  <2>6. AlmostInclusive'
    <3> SUFFICES ASSUME NEW m \in Levels, Inclusive(m), NEW k \in Levels, k < m, NEW c \in Held(k)'
                 PROVE  c \in Held(m)' \/ Doomed(k, c)'
      BY DEF AlmostInclusive
    <3>1. CASE c \in Held(k) /\ m # i
      BY <1>2, <3>1
    <3>2. CASE c \in Held(k) /\ m = i
      <4>1. c \in Held(i)' \/ c = out.block
        BY <1>2, <1>5, <3>2
      <4>2. c = out.block => Removes(e, k, c)
        BY <2>2, <3>2 DEF Removes
      <4> QED
        BY <2>1, <3>2, <4>1, <4>2 DEF Doomed
    <3>3. CASE k = i /\ c = b
      BY <1>1, <2>3, <3>3 DEF Levels
    <3> QED
      BY <1>3, <3>1, <3>2, <3>3
  <2> QED
    BY <2>4, <2>5, <2>6 DEF StackInv
<1> QED
  BY <1>4, <1>5 DEF Installs

\* One iteration of a fill loop passes its level, or installs the block there.
LEMMA FillHeld ==
  ASSUME ConservationInv, Fill \/ PrefetchFill, NEW i \in Levels, i = fetch.at,
         NEW b \in Blocks, b = fetch.block
  PROVE  /\ \A k \in Levels : k # i => Held(k)' = Held(k)
         /\ \/ Passes(i) /\ work' = << >> /\ Held(i)' = Held(i)
            \/ ~Passes(i) /\ Installs(i, b, Held(i), << >>)
<1> USE DEF ConservationInv
<1>0. /\ pc \in {"fill", "prefetch"} /\ LevelsOK /\ SingleCopy /\ fetch \in Fetch
      /\ i >= fetch.to /\ work = << >> /\ i \in Int /\ fetch.to \in Int
  BY NAssumption DEF Fill, PrefetchFill, FillStep, TypeInv, LocalsOK, LinesInv, Fetch, Levels
<1>1. CASE Passes(i)
  <2>1. UNCHANGED <<resident, buffer>> /\ work' = << >>
    BY <1>0, <1>1 DEF Fill, PrefetchFill, FillStep, contents
  <2> QED
    BY <1>1, <2>1, HeldUnchanged
<1>2. CASE ~Passes(i)
  <2>1. PICK new \in Line : new.block = b /\ Allocate(i, new, buffer[i], << >>)
    <3> PICK speculative \in BOOLEAN : FillStep(speculative)
      BY DEF Fill, PrefetchFill
    <3> DEFINE last == i = fetch.to
               new == [block |-> b, dirty |-> fetch.dirty /\ last,
                       prefetched |-> speculative /\ last, fresh |-> FilledCurrent(speculative, i)]
    <3>1. Allocate(i, new, buffer[i], << >>)
      BY <1>2 DEF FillStep
    <3>2. /\ (fetch.dirty /\ last) \in BOOLEAN /\ (speculative /\ last) \in BOOLEAN
          /\ FilledCurrent(speculative, i) \in BOOLEAN
      BY <1>0 DEF Fetch, FilledCurrent
    <3>3. new \in Line /\ new.block = b
      BY <3>2 DEF Line
    <3> QED
      BY <3>1, <3>3
  <2>2. /\ buffer[i] \in Seq(Line) /\ Distinct(buffer[i]) /\ resident[i] \cap BlocksOf(buffer[i]) = {}
        /\ new.block \notin BlocksOf(buffer[i]) /\ << >> \in Seq(Task)
    <3>1. b \notin BlocksOf(buffer[i])
      BY <1>0 DEF LinesInv, FillsAbsent
    <3> QED
      BY <1>0, <2>1, <3>1 DEF LevelsOK, SingleCopy
  <2>3. OnlyLevel(i)
    BY <1>0, <2>1, <2>2, AllocateKeeps
  <2>4. Installs(i, new.block, resident[i] \cup BlocksOf(buffer[i]), << >>)
    BY <1>0, <2>1, <2>2, AllocateHolds
  <2>5. Installs(i, b, Held(i), << >>)
    BY <2>1, <2>4, HeldIs
  <2> QED
    BY <1>2, <2>3, <2>5, HeldIs DEF OnlyLevel
<1> QED
  BY <1>1, <1>2

LEMMA FillHolds ==
  ASSUME InclusionInv, Fill \/ PrefetchFill
  PROVE  StackInv' /\ LocalsInv'
<1> USE DEF InclusionInv, ConservationInv
<1> PICK i \in Levels, b \in Blocks : i = fetch.at /\ b = fetch.block
  BY NAssumption DEF Fill, PrefetchFill, FillStep, TypeInv, LocalsOK, Fetch, Levels
<1>0. /\ pc \in {"fill", "prefetch"} /\ LevelsOK /\ SingleCopy /\ fetch \in Fetch
      /\ i >= fetch.to /\ work = << >> /\ UNCHANGED <<pc, req>>
      /\ fetch' = [fetch EXCEPT !.at = i - 1]
  BY DEF Fill, PrefetchFill, FillStep, TypeInv, LocalsOK, LinesInv
<1>1. fetch'.block = b /\ fetch'.at = i - 1 /\ fetch'.to = fetch.to
  BY <1>0 DEF Fetch
<1> PICK to \in 0 .. N : to = fetch.to
  BY <1>0 DEF Fetch
<1>2. i \in Nat /\ to \in Nat /\ i >= to
  BY <1>0, NAssumption DEF Levels
<1>3. /\ \A k \in Levels : k # i => Held(k)' = Held(k)
      /\ \/ Passes(i) /\ work' = << >> /\ Held(i)' = Held(i)
         \/ ~Passes(i) /\ Installs(i, b, Held(i), << >>)
  BY FillHeld
<1>4. StackInv'
  <2>1. CASE Passes(i) /\ work' = << >> /\ Held(i)' = Held(i)
    BY <1>0, <1>3, <2>1, QuietStep
  <2>2. CASE Installs(i, b, Held(i), << >>)
    BY <1>0, <1>1, <1>3, <2>2, FillInstalls
  <2> QED
    BY <1>3, <2>1, <2>2
<1>5. ~Inclusive(i) \/ b \in Held(i)'
  BY <1>3 DEF Passes, Exclusive, Inclusive, Installs
<1>6. FetchHeld'
  <2> SUFFICES ASSUME NEW k \in Levels, Inclusive(k), k > i - 1 PROVE b \in Held(k)'
    BY <1>0, <1>1 DEF FetchHeld
  <2>1. k = i \/ k > i
    BY DEF Levels
  <2>2. k > i => k # i /\ b \in Held(k)
    BY <1>0 DEF LocalsInv, FetchHeld, Levels
  <2> QED
    BY <1>3, <1>5, <2>1, <2>2
<1>7. ForwardFacts'
  BY <1>0, <1>1 DEF LocalsInv, ForwardFacts
<1>8. FilledStays'
  <2>1. i - 1 < to /\ to < N => b \in Held(to)'
    <3> SUFFICES ASSUME i - 1 < to, to < N PROVE b \in Held(to)'
      OBVIOUS
    <3>1. to = i
      BY <1>2
    <3>2. ~Passes(i)
      BY <1>0, <3>1 DEF LinesInv, FetchFacts, Passes
    <3> QED
      BY <1>3, <3>1, <3>2 DEF Installs
  <2>2. (i - 1) + 1 >= to
    BY <1>2
  <2> QED
    BY <1>0, <1>1, <2>1, <2>2 DEF FilledStays
<1> QED
  BY <1>0, <1>4, <1>6, <1>7, <1>8 DEF LocalsInv, ListedDirty

\* A single write-back is called while no level lacks a block.
LEMMA WriteBackCalled ==
  ASSUME StackInv, work = << >>, NEW i \in 0 .. N, NEW line \in Line, work' = <<WriteBack(i, line)>>,
         \A k \in Levels : Held(k)' = Held(k),
         \A k \in Levels : Inclusive(k) /\ k >= i => line.block \in Held(k),
         pc' \notin {"fill", "prefetch"}, pc' = "observe" => i > req'.fillFrom, pc' = "flush" => i > req'.level
  PROVE  StackInv'
<1> PICK t \in Task : t = WriteBack(i, line)
  BY CallType
<1>1. Calls(work') = {t}
  <2>1. Calls(<<t>>) = {<<t>>[n] : n \in {1}}
    BY DEF Calls
  <2> QED
    BY <2>1
<1>2. t.op = "writeBack" /\ t.level = i /\ t.line.block = line.block
  BY CallFields
<1>3. Reaches(t) = i /\ ~Purges(t)
  BY <1>2 DEF Reaches, Purges
<1>4. AlmostInclusive'
  <2>1. \A m, k \in Levels : Inclusive(m) /\ k < m => Held(k) \subseteq Held(m)
    BY NothingDoomed
  <2> QED
    BY <2>1 DEF AlmostInclusive
<1>5. CallsHeld' /\ PurgesAbove' /\ CallsBelow'
  BY <1>1, <1>2, <1>3 DEF CallsHeld, PurgesAbove, CallsBelow
<1> QED
  BY <1>4, <1>5 DEF StackInv
\* The duplicate of a store goes below the last level filled, where the inclusive
\* levels hold its block.
LEMMA ForwardHolds ==
  ASSUME InclusionInv, Forward
  PROVE  StackInv' /\ LocalsInv'
<1> USE DEF InclusionInv, ConservationInv
<1>0. /\ pc = "fill" /\ pc' = "observe" /\ work = << >> /\ fetch.at < fetch.to
      /\ req \in Request /\ req' = [req EXCEPT !.level = 0] /\ fetch \in Fetch
      /\ UNCHANGED <<resident, buffer>> /\ req.block \in Blocks
  BY DEF Forward, contents, TypeInv, LocalsOK
<1>1. req'.level = 0 /\ req'.block = req.block /\ req'.fillFrom = req.fillFrom
  BY <1>0 DEF Request
<1>2. \A k \in Levels : Held(k)' = Held(k)
  BY <1>0, HeldUnchanged
<1> PICK b \in Blocks, to \in 0 .. N, at \in Int :
      b = req.block /\ b = fetch.block /\ to = fetch.to /\ to = req.fillFrom /\ at = fetch.at
  BY <1>0, NAssumption DEF LocalsInv, ForwardFacts, Fetch, Levels
<1>3. to \in Nat /\ at < to /\ N \in Nat
  BY <1>0, NAssumption
<1>4. \A k \in Levels : Inclusive(k) /\ k > at => b \in Held(k)
  BY <1>0 DEF LocalsInv, FetchHeld
<1>5. StackInv'
  <2>1. CASE req.forward < 0
    <3>1. work' = << >>
      BY <2>1 DEF Forward
    <3> QED
      BY <1>0, <1>2, <3>1, QuietStep
  <2>2. CASE ~(req.forward < 0)
    <3> PICK i \in 0 .. N : i = req.forward
      BY <1>0, <2>2, NAssumption DEF Request
    <3>1. i = to + 1
      BY <1>0, <2>2 DEF LocalsInv, ForwardFacts
    <3> DEFINE duplicate == [block |-> b, dirty |-> TRUE, prefetched |-> FALSE, fresh |-> fetch.fresh]
    <3>a. duplicate \in Line /\ duplicate.block = b
      BY <1>0 DEF Fetch, Line
    <3>b. work' = <<WriteBack(i, duplicate)>>
      BY <2>2 DEF Forward
    <3> HIDE DEF duplicate
    <3> PICK line \in Line : line = duplicate /\ line.block = b
      BY <3>a
    <3>2. work' = <<WriteBack(i, line)>>
      BY <3>b
    <3>3. \A k \in Levels : Inclusive(k) /\ k >= i => line.block \in Held(k)
      BY <1>3, <1>4, <3>1 DEF Levels
    <3>4. i > to
      BY <1>3, <3>1
    <3> QED
      BY <1>0, <1>1, <1>2, <3>2, <3>3, <3>4, WriteBackCalled
  <2> QED
    BY <2>1, <2>2
<1>6. FilledStays'
  <2>1. to < N => b \in Held(to)'
    <3> SUFFICES ASSUME to < N PROVE b \in Held(to)'
      OBVIOUS
    <3>1. to \in Levels
      BY <1>3 DEF Levels
    <3>2. b \in Held(to)
      BY <1>0 DEF LocalsInv, FilledStays
    <3> QED
      BY <1>2, <3>1, <3>2
  <2> QED
    BY <1>0, <1>1, <2>1 DEF FilledStays
<1> QED
  BY <1>0, <1>5, <1>6 DEF LocalsInv, FetchHeld, ForwardFacts, ListedDirty

LEMMA ObserveHeld ==
  ASSUME ConservationInv, Observe
  PROVE  \A k \in Levels : Held(k)' = Held(k)
<1> USE DEF ConservationInv
<1> DEFINE b == req.block
<1> PICK i \in Levels : i = req.level
  BY NAssumption DEF Observe, TypeInv, LocalsOK, Request, Levels, Deepest
<1>0. /\ work = << >> /\ work' = << >> /\ req \in Request /\ LevelsOK /\ SingleCopy
      /\ UNCHANGED <<resident, dirty>>
  BY DEF Observe, history, TypeInv, LocalsOK, LinesInv
<1>1. \A k \in Levels : Held(k)' = Held(k)
  <2>1. CASE ClearPrefetched(i, b)
    <3>1. OnlyLevel(i) /\ BlocksOf(buffer'[i]) = BlocksOf(buffer[i])
      BY <1>0, <2>1, ClearPrefetchedKeeps
    <3> QED
      BY <1>0, <3>1, HeldIs DEF OnlyLevel
  <2>2. CASE UNCHANGED buffer
    BY <1>0, <2>2, HeldUnchanged
  <2> QED
    BY <2>1, <2>2 DEF Observe
<1> QED
  BY <1>1

LEMMA ObserveHolds ==
  ASSUME InclusionInv, Observe
  PROVE  StackInv' /\ LocalsInv'
<1> USE DEF InclusionInv, ConservationInv
<1> PICK i \in Levels : i = req.level
  BY NAssumption DEF Observe, TypeInv, LocalsOK, Request, Levels, Deepest
<1>0. /\ work = << >> /\ work' = << >> /\ req \in Request /\ LevelsOK /\ SingleCopy
      /\ UNCHANGED <<resident, dirty>>
  BY DEF Observe, history, TypeInv, LocalsOK, LinesInv
<1>1. \A k \in Levels : Held(k)' = Held(k)
  BY ObserveHeld
<1>2. StackInv'
  BY <1>0, <1>1, QuietStep
<1>3. pc' = "issue" \/ (pc' = "observe" /\ req'.level = i + 1)
  BY <1>0 DEF Observe, Request
<1>4. i + 1 # 0
  BY DEF Levels
<1> QED
  BY <1>2, <1>3, <1>4 DEF LocalsInv, FetchHeld, ForwardFacts, FilledStays, ListedDirty

\* The level that supplies a prefetched line holds it, unless it is exclusive.
LEMMA IssueHolds ==
  ASSUME InclusionInv, Issue
  PROVE  StackInv' /\ LocalsInv'
<1> USE DEF InclusionInv, ConservationInv
<1> PICK b \in Blocks : b = fetch.block
  BY DEF Issue, TypeInv, LocalsOK
<1>0. /\ pc = "issue" /\ pc' = "prefetch" /\ work = << >> /\ work' = << >> /\ fetch \in Fetch
      /\ LevelsOK /\ SingleCopy
  BY DEF Issue, TypeInv, LocalsOK, StackOK, LinesInv
<1>1. CASE /\ fetch' = [fetch EXCEPT !.at = N - 1, !.fresh = b \in memory]
           /\ UNCHANGED <<contents, fresh>>
  <2>1. fetch'.at = N - 1
    BY <1>0, <1>1 DEF Fetch
  <2>2. StackInv'
    BY <1>0, <1>1, HeldUnchanged, QuietStep DEF contents
  <2>3. FetchHeld'
    BY <2>1, NAssumption DEF FetchHeld, Levels
  <2> QED
    BY <1>0, <2>2, <2>3 DEF LocalsInv, ForwardFacts, FilledStays, ListedDirty
<1>2. ASSUME NEW source \in Levels, Contains(source, b),
             fetch' = [fetch EXCEPT !.at = source - 1,
                                    !.dirty = HandedDirty(source, b),
                                    !.fresh = LineOf(source, b).fresh],
             IF Exclusive(source) THEN Invalidate(source, b) ELSE UNCHANGED <<contents, fresh>>
      PROVE  StackInv' /\ LocalsInv'
  <2>1. fetch'.at = source - 1 /\ fetch'.block = b
    BY <1>0, <1>2 DEF Fetch
  <2>2. /\ \A k \in Levels : Held(k)' \subseteq Held(k)
        /\ \A k \in Levels : Inclusive(k) => Held(k)' = Held(k)
    <3>1. CASE Exclusive(source)
      <4>1. /\ Held(source)' = Held(source) \ {b}
            /\ \A l \in Levels : l # source => Held(l)' = Held(l)
        BY <1>0, <1>2, <3>1, InvalidateHolds
      <4>2. ~Inclusive(source)
        BY <3>1 DEF Exclusive, Inclusive
      <4> QED
        BY <4>1, <4>2
    <3>2. CASE ~Exclusive(source)
      BY <1>2, <3>2, HeldUnchanged DEF contents
    <3> QED
      BY <3>1, <3>2
  <2>3. StackInv'
    BY <1>0, <2>2, QuietStep
  <2>4. FetchHeld'
    <3> SUFFICES ASSUME NEW i \in Levels, Inclusive(i), i > source - 1 PROVE b \in Held(i)
      BY <2>1, <2>2 DEF FetchHeld
    <3>1. b \in Held(source)
      BY <1>2 DEF Contains, Held
    <3>2. i = source \/ source < i
      BY DEF Levels
    <3> QED
      BY <1>0, <3>1, <3>2, NothingDoomed
  <2> QED
    BY <1>0, <2>3, <2>4 DEF LocalsInv, ForwardFacts, FilledStays, ListedDirty
<1> QED
  BY <1>1, <1>2 DEF Issue

LEMMA ReturnHolds ==
  ASSUME InclusionInv, PrefetchDone \/ FinishAccess
  PROVE  StackInv' /\ LocalsInv'
<1> USE DEF InclusionInv, ConservationInv
<1>0. /\ work = << >> /\ work' = << >> /\ UNCHANGED <<resident, buffer>> /\ req \in Request
      /\ pc' = "idle" \/ (pc' = "observe" /\ req' = [req EXCEPT !.level = req.level + 1] /\ req.level \in Levels)
  BY DEF PrefetchDone, FinishAccess, Returned, contents, TypeInv, StackOK, LocalsOK
<1>1. StackInv'
  BY <1>0, HeldUnchanged, QuietStep
<1>2. pc' = "idle" \/ (pc' = "observe" /\ req'.level # 0)
  <2>1. req.level \in Levels => req.level + 1 # 0
    BY DEF Levels
  <2> QED
    BY <1>0, <2>1 DEF Request
<1> QED
  BY <1>1, <1>2 DEF LocalsInv, FetchHeld, ForwardFacts, FilledStays, ListedDirty

-----------------------------------------------------------------------------
(* The steps of flush().                                                   *)

LEMMA FlushLevelsHolds ==
  ASSUME InclusionInv, BeginFlush \/ FlushNextLevel \/ FinishFlush
  PROVE  StackInv' /\ LocalsInv'
<1> USE DEF InclusionInv, ConservationInv
<1>0. /\ work = << >> /\ work' = << >> /\ UNCHANGED <<resident, dirty, buffer>> /\ req \in Request
      /\ pc' = "idle" \/ (pc' = "flush" /\ snapshot' = DirtyLines(req'.level))
  <2>1. work = << >> /\ work' = << >> /\ UNCHANGED <<resident, dirty, buffer>> /\ req \in Request
    BY DEF BeginFlush, FlushNextLevel, FinishFlush, contents, TypeInv, StackOK, LocalsOK
  <2>2. BeginFlush => pc' = "flush" /\ snapshot' = DirtyLines(req'.level)
    BY DEF BeginFlush, FlushLevel, TypeInv, LocalsOK, NoRequest
  <2>3. FlushNextLevel => pc' = "flush" /\ snapshot' = DirtyLines(req'.level)
    BY <2>1 DEF FlushNextLevel, FlushLevel, TypeInv, LocalsOK, Request
  <2>4. FinishFlush => pc' = "idle"
    BY DEF FinishFlush, Returned
  <2> QED
    BY <2>1, <2>2, <2>3, <2>4
<1>1. StackInv'
  BY <1>0, HeldUnchanged, QuietStep
<1>2. ListedDirty'
  BY <1>0 DEF ListedDirty, DirtyLines, DirtyBlocks
<1> QED
  BY <1>0, <1>1, <1>2 DEF LocalsInv, FetchHeld, ForwardFacts, FilledStays

\* One listed line is written down; the others stay listed and dirty.
LEMMA FlushLineHolds ==
  ASSUME InclusionInv, FlushLine
  PROVE  StackInv' /\ LocalsInv'
<1> USE DEF InclusionInv, ConservationInv
<1> PICK i \in Levels : i = req.level
  BY DEF FlushLine, TypeInv, LocalsOK
<1>0. /\ pc = "flush" /\ work = << >> /\ UNCHANGED <<pc, req, fetch>> /\ LevelsOK /\ SingleCopy
      /\ FlushLevel(req.level) = i /\ i + 1 \in 0 .. N /\ i \in Int
  BY NAssumption DEF FlushLine, TypeInv, LinesInv, FlushLevel, Levels
<1> PICK entry \in snapshot :
       /\ snapshot' = snapshot \ {entry}
       /\ IF Contains(i, entry.block)
          THEN SetDirty(i, entry.block, FALSE, LineOf(i, entry.block).fresh)
          ELSE UNCHANGED <<contents, fresh>>
       /\ work' = <<WriteBack(i + 1, [block |-> entry.block, dirty |-> TRUE, prefetched |-> FALSE,
                                      fresh |-> Contains(i, entry.block) /\ LineOf(i, entry.block).fresh])>>
  BY <1>0 DEF FlushLine
<1> PICK b \in Blocks : b = entry.block
  BY DEF TypeInv, LocalsOK
<1>1. ASSUME NEW e \in snapshot
      PROVE  \/ e.place = "array" /\ e.block \in dirty[i]
             \/ e.place = "buffer" /\ e.block \in DirtyBlocks(buffer[i])
  <2>1. e.place \in {"array", "buffer"}
    BY DEF TypeInv, LocalsOK
  <2>2. e.block \in (IF e.place = "array" THEN dirty[i] ELSE DirtyBlocks(buffer[i]))
    BY <1>0 DEF LocalsInv, ListedDirty
  <2> QED
    BY <2>1, <2>2
<1>2. /\ dirty[i] \subseteq resident[i] /\ DirtyBlocks(buffer[i]) \subseteq BlocksOf(buffer[i])
      /\ resident[i] \cap BlocksOf(buffer[i]) = {} /\ buffer[i] \in Seq(Line) /\ Distinct(buffer[i])
  <2>1. DirtyBlocks(buffer[i]) \subseteq BlocksOf(buffer[i])
    BY DEF DirtyBlocks, BlocksOf
  <2> QED
    BY <1>0, <2>1 DEF LevelsOK, SingleCopy
<1>3. Contains(i, b) /\ b \in Held(i)
  <2>1. entry.block \in dirty[i] \/ entry.block \in DirtyBlocks(buffer[i])
    BY <1>1
  <2>2. b \in resident[i] \/ b \in BlocksOf(buffer[i])
    BY <1>2, <2>1
  <2> QED
    BY <2>2 DEF Contains, Held, Buffered, BlocksOf
<1>4. SetDirty(i, b, FALSE, LineOf(i, b).fresh)
  BY <1>3
<1>5. \A k \in Levels : Held(k)' = Held(k)
  <2>1. OnlyLevel(i) /\ BlocksOf(buffer'[i]) = BlocksOf(buffer[i]) /\ resident' = resident
    BY <1>0, <1>3, <1>4, SetDirtyKeeps DEF SingleCopy, OneCopyAt, SetDirty
  <2> QED
    BY <2>1, HeldIs DEF OnlyLevel
<1>6. StackInv'
  <2> DEFINE cleaned == [block |-> b, dirty |-> TRUE, prefetched |-> FALSE,
                         fresh |-> Contains(i, b) /\ LineOf(i, b).fresh]
  <2>a. cleaned \in Line /\ cleaned.block = b
    BY DEF Line
  <2>b. work' = <<WriteBack(i + 1, cleaned)>>
    OBVIOUS
  <2> HIDE DEF cleaned
  <2> PICK line \in Line : line = cleaned /\ line.block = b
    BY <2>a
  <2>c. work' = <<WriteBack(i + 1, line)>>
    BY <2>b
  <2>1. \A k \in Levels : Inclusive(k) /\ k >= i + 1 => line.block \in Held(k)
    <3>1. \A k \in Levels : k >= i + 1 => i < k
      BY DEF Levels
    <3> QED
      BY <1>0, <1>3, <3>1, NothingDoomed
  <2>2. i + 1 > i
    BY <1>0
  <2> QED
    BY <1>0, <1>5, <2>1, <2>2, <2>c, WriteBackCalled
<1>7. ListedDirty'
  <2> SUFFICES ASSUME NEW e \in snapshot, e # entry
               PROVE  e.block \in (IF e.place = "array" THEN dirty'[i] ELSE DirtyBlocks(buffer'[i]))
    BY <1>0 DEF ListedDirty
  <2>a. \/ e.place = "array" /\ e.block \in dirty[i]
        \/ e.place = "buffer" /\ e.block \in DirtyBlocks(buffer[i])
    BY <1>1
  <2>b. e.block # b
    <3> SUFFICES ASSUME e.block = b PROVE FALSE
      OBVIOUS
    <3>1. \/ entry.place = "array" /\ b \in dirty[i]
          \/ entry.place = "buffer" /\ b \in DirtyBlocks(buffer[i])
      BY <1>1
    <3>2. e.place = entry.place
      BY <1>2, <2>a, <3>1
    <3>3. /\ e \in [place : {"array", "buffer"}, block : Blocks]
          /\ entry \in [place : {"array", "buffer"}, block : Blocks]
      BY DEF TypeInv, LocalsOK
    <3> QED
      BY <3>2, <3>3
  <2>1. CASE b \in resident[i]
    <3>1. dirty'[i] = dirty[i] \ {b} /\ buffer'[i] = buffer[i]
      BY <1>0, <1>4, <2>1 DEF SetDirty, LevelsOK, With
    <3> QED
      BY <2>a, <2>b, <3>1
  <2>2. CASE b \notin resident[i]
    <3> DEFINE line == [BufferedLine(i, b) EXCEPT !.dirty = FALSE, !.fresh = LineOf(i, b).fresh]
    <3>1. dirty' = dirty /\ buffer' = [buffer EXCEPT ![i] = Replaced(buffer[i], b, line)]
      BY <1>4, <2>2 DEF SetDirty
    <3>2. buffer'[i] = Replaced(buffer[i], b, line)
      BY <1>0, <3>1 DEF LevelsOK
    <3>3. line.block = b
      BY <1>0, <1>3, <2>2, BufferedLineType DEF Contains, Line
    <3> HIDE DEF line
    <3>4. \A c \in DirtyBlocks(buffer[i]) : c = b \/ c \in DirtyBlocks(buffer'[i])
      BY <1>2, <3>2, <3>3, ReplacedBlocks
    <3> QED
      BY <2>a, <2>b, <3>1, <3>4
  <2> QED
    BY <2>1, <2>2
<1> QED
  BY <1>0, <1>6, <1>7 DEF LocalsInv, FetchHeld, ForwardFacts, FilledStays

-----------------------------------------------------------------------------
LEMMA InclusionStep == EvictsAbsent /\ InclusionInv /\ [Next]_vars => InclusionInv'
<1> SUFFICES ASSUME EvictsAbsent, InclusionInv, [Next]_vars PROVE InclusionInv'
  OBVIOUS
<1>1. ConservationInv'
  BY ConservationStep DEF InclusionInv
<1>2. CASE \E b \in Blocks, store \in BOOLEAN : BeginAccess(b, store)
  BY <1>1, <1>2, BeginAccessHolds DEF InclusionInv
<1>3. CASE ProbeHit \/ ProbeVictimHit \/ ProbeMiss \/ ReachMemory
  BY <1>1, <1>3, ProbeHitHolds, ProbeVictimHitHolds, ProbeMissHolds, ReachMemoryHolds DEF InclusionInv
<1>4. CASE Settle \/ MoveUp \/ Fill \/ Forward
  BY <1>1, <1>4, SettleHolds, MoveUpHolds, FillHolds, ForwardHolds DEF InclusionInv
<1>5. CASE Observe \/ Issue \/ PrefetchFill \/ PrefetchDone \/ FinishAccess
  BY <1>1, <1>5, ObserveHolds, IssueHolds, FillHolds, ReturnHolds DEF InclusionInv
<1>6. CASE HandleEviction \/ BackInvalidateStep \/ WriteBackStep
  BY <1>1, <1>6, HandleEvictionHolds, BackInvalidateStepHolds, WriteBackStepHolds DEF InclusionInv
<1>7. CASE BeginFlush \/ FlushLine \/ FlushNextLevel \/ FinishFlush
  BY <1>1, <1>7, FlushLineHolds, FlushLevelsHolds DEF InclusionInv
<1>8. CASE UNCHANGED vars
  <2>1. UNCHANGED <<resident, dirty, buffer, pc, req, fetch, work, snapshot>>
    BY <1>8 DEF vars
  <2>2. \A k \in Levels : Held(k)' = Held(k)
    BY <2>1, HeldUnchanged
  <2>3. StackInv'
    BY <2>1, <2>2 DEF InclusionInv, StackInv, AlmostInclusive, Doomed, CallsHeld, PurgesAbove, CallsBelow
  <2>4. LocalsInv'
    BY <2>1 DEF InclusionInv, LocalsInv, FetchHeld, ForwardFacts, FilledStays, ListedDirty, Held, Buffered
  <2> QED
    BY <1>1, <2>3, <2>4 DEF InclusionInv
<1> QED
  BY <1>2, <1>3, <1>4, <1>5, <1>6, <1>7, <1>8 DEF Next, Step

LEMMA InclusionInit == Init => InclusionInv
<1> SUFFICES ASSUME Init PROVE InclusionInv
  OBVIOUS
<1>1. ConservationInv
  BY TypeInvInit, InvInit DEF ConservationInv
<1>2. work = << >> /\ pc = "idle" /\ \A k \in Levels : Held(k) = {}
  BY DEF Init, Held, Buffered
<1>3. Calls(work) = {}
  BY <1>2, CallsOfNone
<1>4. StackInv
  BY <1>2, <1>3 DEF StackInv, AlmostInclusive, CallsHeld, PurgesAbove, CallsBelow
<1>5. LocalsInv
  BY <1>2 DEF LocalsInv, FetchHeld, ForwardFacts, FilledStays, ListedDirty
<1> QED
  BY <1>1, <1>4, <1>5 DEF InclusionInv

\* What the invariant is for.
LEMMA InclusionImplies == InclusionInv => InclusionHolds /\ ReferencedBlockStays /\ SnapshotCurrent
<1> SUFFICES ASSUME InclusionInv PROVE InclusionHolds /\ ReferencedBlockStays /\ SnapshotCurrent
  OBVIOUS
<1>1. InclusionHolds
  <2> SUFFICES ASSUME pc = "idle", NEW i \in Levels, Inclusive(i), NEW k \in 0 .. i - 1
               PROVE  Held(k) \subseteq Held(i)
    BY DEF InclusionHolds
  <2>1. work = << >> /\ k \in Levels /\ k < i
    BY NAssumption DEF InclusionInv, ConservationInv, TypeInv, StackOK, Levels
  <2> QED
    BY <2>1, NothingDoomed DEF InclusionInv
<1>2. ReferencedBlockStays
  BY DEF InclusionInv, LocalsInv, FilledStays, ReferencedBlockStays, Held, Contains
<1>3. SnapshotCurrent
  BY DEF InclusionInv, LocalsInv, ListedDirty, SnapshotCurrent, FlushLevel, DirtyIn, DirtyBlocks
<1> QED
  BY <1>1, <1>2, <1>3

LEMMA BareInclusionStep == BareVictimLevels /\ InclusionInv /\ [Next]_vars => InclusionInv'
  BY InclusionStep, BareBuffers DEF InclusionInv, ConservationInv

\* Between two calls an inclusive level holds every block that a level above it
\* holds, in its array or in its victim buffer, as long as no exclusive level has a
\* victim buffer: every way a block enters or leaves a level is followed by the
\* back-invalidations it takes, with any policies at the other levels.
THEOREM InclusionIsKept == BareVictimLevels => (Spec => []InclusionHolds)
<1> SUFFICES ASSUME BareVictimLevels PROVE Spec => []InclusionHolds
  OBVIOUS
<1>1. InclusionInv => InclusionHolds
  BY InclusionImplies
<1>2. Init => InclusionInv
  BY InclusionInit
<1>3. InclusionInv /\ [Next]_vars => InclusionInv'
  BY BareInclusionStep
<1> QED
  BY <1>1, <1>2, <1>3, PTL DEF Spec

\* When the fills of a reference and the evictions they caused are done, the level
\* that was to have the block has it: the back-invalidations out of the levels above
\* an inclusive one run before the levels above are filled, and never reach it.
THEOREM ReferenceIsServed == BareVictimLevels => (Spec => []ReferencedBlockStays)
<1> SUFFICES ASSUME BareVictimLevels PROVE Spec => []ReferencedBlockStays
  OBVIOUS
<1>1. InclusionInv => ReferencedBlockStays
  BY InclusionImplies
<1>2. Init => InclusionInv
  BY InclusionInit
<1>3. InclusionInv /\ [Next]_vars => InclusionInv'
  BY BareInclusionStep
<1> QED
  BY <1>1, <1>2, <1>3, PTL DEF Spec

\* The copy of a level's lines that flush() walks stays current: no line it has still
\* to write down is cleaned, moved or evicted by the write-backs of the lines before
\* it, which only reach the levels below.
THEOREM FlushListIsCurrent == BareVictimLevels => (Spec => []SnapshotCurrent)
<1> SUFFICES ASSUME BareVictimLevels PROVE Spec => []SnapshotCurrent
  OBVIOUS
<1>1. InclusionInv => SnapshotCurrent
  BY InclusionImplies
<1>2. Init => InclusionInv
  BY InclusionInit
<1>3. InclusionInv /\ [Next]_vars => InclusionInv'
  BY BareInclusionStep
<1> QED
  BY <1>1, <1>2, <1>3, PTL DEF Spec
===============================================================================
