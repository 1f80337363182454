-------------------------- MODULE ReplacementProofs --------------------------
(***************************************************************************)
(* What the replacement policies guarantee, for every geometry, every      *)
(* width of PSEL and every period of the leader sets.                      *)
(*                                                                         *)
(*   TypeCorrect     every book has an entry in range for every way, and a *)
(*                   victim is a way;                                      *)
(*   DuelSaturates   PSEL saturates, so the followers turn in time;        *)
(*   RecencyIsKept   LRU, FIFO and MRU name the ways of their definitions; *)
(*   TreeIsKept      tree pseudo-LRU names a way that, at every level of   *)
(*                   the tree, is in the half not used last.               *)
(*                                                                         *)
(* An order starts with the empty ways and ends with the valid ones, by    *)
(* their last reference or fill (RecentLast).  A tree points away from the *)
(* way of every subtree referenced last, unless it points towards an empty *)
(* way of that subtree (TreeBalanced): a walk sets the bits on one path,   *)
(* and two paths meet in a node only where they are the same down to it    *)
(* (NodesApart).                                                           *)
(*                                                                         *)
(* Powers, shifts and nodes are functions defined by recursion.  That they *)
(* obey their definitions is proved here (Recursion), from the principle   *)
(* that a set of naturals that is not empty has a least element.           *)
(***************************************************************************)
EXTENDS Replacement, RecursionTheorems, FiniteSetTheorems, SequenceTheorems, FunctionTheorems

-----------------------------------------------------------------------------
(* Recursion and induction over the naturals.                              *)

\* A set of naturals that has 0 and the successor of each of its members up to a bound.
LEMMA Induction ==
  ASSUME NEW bound \in Nat, NEW S, 0 \in S, \A n \in 0 .. bound - 1 : n \in S => n + 1 \in S
  PROVE  0 .. bound \subseteq S
<1> DEFINE T == {n \in 0 .. bound : n \notin S}
<1> SUFFICES ASSUME T # {} PROVE FALSE
  OBVIOUS
<1>1. PICK m \in T : \A n \in T : m <= n
  <2>1. T \in SUBSET Nat
    OBVIOUS
  <2> HIDE DEF T
  <2> QED
    BY <2>1, LeastOfNaturals
<1>2. m \in 1 .. bound /\ m - 1 \in 0 .. bound - 1
  BY <1>1
<1>3. m - 1 \in S
  BY <1>1, <1>2
<1> QED
  BY <1>1, <1>2, <1>3

\* Function h obeys the recursion up to n.
Obeys(h, n, start, step) ==
  \A k \in 0 .. n : h[k] = IF k = 0 THEN start ELSE step[<<k - 1, h[k - 1]>>]

LEMMA RecursionUpTo ==
  ASSUME NEW start, NEW step, NEW n \in Nat
  PROVE  \E h : Obeys(h, n, start, step)
<1> DEFINE S == {m \in Nat : \E h : Obeys(h, m, start, step)}
<1>1. 0 \in S
  <2> DEFINE h == [k \in 0 .. 0 |-> start]
  <2>1. Obeys(h, 0, start, step)
    BY DEF Obeys
  <2> QED
    BY <2>1
<1>2. ASSUME NEW m \in 0 .. n - 1, m \in S PROVE m + 1 \in S
  <2> PICK h : Obeys(h, m, start, step)
    BY <1>2
  <2> DEFINE g == [k \in 0 .. m + 1 |-> IF k <= m THEN h[k] ELSE step[<<m, h[m]>>]]
  <2>1. ASSUME NEW k \in 0 .. m + 1
        PROVE  g[k] = IF k = 0 THEN start ELSE step[<<k - 1, g[k - 1]>>]
    <3>1. CASE k = m + 1
      <4>1. g[k] = step[<<m, h[m]>>] /\ g[k - 1] = h[m] /\ k - 1 = m /\ k # 0
        BY <3>1
      <4> QED
        BY <4>1
    <3>2. CASE k <= m
      <4>1. g[k] = h[k] /\ (k # 0 => g[k - 1] = h[k - 1]) /\ k \in 0 .. m
        BY <3>2
      <4> QED
        BY <4>1 DEF Obeys
    <3> QED
      BY <3>1, <3>2
  <2> HIDE DEF g
  <2>2. Obeys(g, m + 1, start, step)
    BY <2>1 DEF Obeys
  <2> QED
    BY <2>2
<1> HIDE DEF S
<1>3. 0 .. n \subseteq S
  BY <1>1, <1>2, Induction
<1> QED
  BY <1>3 DEF S

LEMMA RecursionUnique ==
  ASSUME NEW start, NEW step, NEW n \in Nat, NEW g, NEW h,
         Obeys(g, n, start, step), Obeys(h, n, start, step)
  PROVE  g[n] = h[n]
<1> DEFINE E == {k \in Nat : g[k] = h[k]}
<1>1. 0 \in E
  <2>1. g[0] = start /\ h[0] = start
    BY 0 \in 0 .. n DEF Obeys
  <2> QED
    BY <2>1
<1>2. ASSUME NEW m \in 0 .. n - 1, m \in E PROVE m + 1 \in E
  <2>1. m + 1 \in 0 .. n /\ m + 1 # 0 /\ (m + 1) - 1 = m
    OBVIOUS
  <2>2. g[m + 1] = step[<<m, g[m]>>] /\ h[m + 1] = step[<<m, h[m]>>]
    BY <2>1 DEF Obeys
  <2> QED
    BY <1>2, <2>2
<1> HIDE DEF E
<1>3. 0 .. n \subseteq E
  BY <1>1, <1>2, Induction
<1> QED
  BY <1>3 DEF E

\* The recursive definition of a function f.
Defines(f, start, step) == f = [n \in Nat |-> IF n = 0 THEN start ELSE step[<<n - 1, f[n - 1]>>]]

\* A function may be defined by recursion over the naturals.
LEMMA Recursion ==
  ASSUME NEW start, NEW step
  PROVE  \E f : Defines(f, start, step)
<1> DEFINE upTo(n) == CHOOSE h : Obeys(h, n, start, step)
           f == [n \in Nat |-> upTo(n)[n]]
<1>1. \A n \in Nat : Obeys(upTo(n), n, start, step)
  BY RecursionUpTo
<1> HIDE DEF upTo
<1>2. ASSUME NEW n \in Nat PROVE f[n] = IF n = 0 THEN start ELSE step[<<n - 1, f[n - 1]>>]
  <2>1. upTo(n)[n] = IF n = 0 THEN start ELSE step[<<n - 1, upTo(n)[n - 1]>>]
    BY <1>1 DEF Obeys
  <2>2. CASE n = 0
    BY <2>1, <2>2
  <2>3. CASE n # 0
    <3>1. n - 1 \in Nat /\ \A k \in 0 .. n - 1 : k \in 0 .. n
      BY <2>3
    <3>2. Obeys(upTo(n), n - 1, start, step)
      BY <1>1, <3>1 DEF Obeys
    <3>3. upTo(n - 1)[n - 1] = upTo(n)[n - 1]
      BY <1>1, <3>1, <3>2, RecursionUnique
    <3> QED
      BY <2>1, <2>3, <3>1, <3>3
  <2> QED
    BY <2>2, <2>3
<1>3. f = [n \in Nat |-> f[n]]
  OBVIOUS
<1> HIDE DEF f
<1>4. Defines(f, start, step)
  BY <1>2, <1>3 DEF Defines
<1> QED
  BY <1>4

-----------------------------------------------------------------------------
(* Powers of two and shifts.                                               *)

LEMMA PowerDoubles ==
  /\ Power[0] = 1
  /\ \A n \in Nat : Power[n + 1] = 2 * Power[n] /\ Power[n] \in Nat \ {0}
BY PowerIs, PowerPositive

LEMMA ShiftHalves ==
  ASSUME NEW w \in Nat
  PROVE  /\ ShiftRight(w, 0) = w
         /\ \A n \in Nat : /\ ShiftRight(w, n) \in Nat
                           /\ ShiftRight(w, n + 1) = ShiftRight(w, n) \div 2
<1> DEFINE step == [p \in Nat \X Nat |-> p[2] \div 2]
<1> HIDE DEF step
<1> PICK f : Defines(f, w, step)
  BY Recursion
<1>0. f = [n \in Nat |-> IF n = 0 THEN w ELSE step[<<n - 1, f[n - 1]>>]]
  BY DEF Defines
<1>1. ASSUME NEW n \in Nat PROVE f[n] \in Nat
  <2> DEFINE S == {k \in Nat : f[k] \in Nat}
  <2>1. 0 \in S
    BY <1>0
  <2>2. ASSUME NEW m \in 0 .. n - 1, m \in S PROVE m + 1 \in S
    <3>1. f[m + 1] = step[<<m, f[m]>>]
      BY <1>0, (m + 1) - 1 = m
    <3> QED
      BY <2>2, <3>1 DEF step
  <2> HIDE DEF S
  <2>3. 0 .. n \subseteq S
    BY <2>1, <2>2, Induction
  <2> QED
    BY <2>3 DEF S
<1>2. ASSUME NEW n \in Nat, n # 0 PROVE step[<<n - 1, f[n - 1]>>] = f[n - 1] \div 2
  <2>1. n - 1 \in Nat
    BY <1>2
  <2> QED
    BY <1>1, <2>1 DEF step
<1>3. f = [n \in Nat |-> IF n = 0 THEN w ELSE f[n - 1] \div 2]
  BY <1>0, <1>2
<1> DEFINE half == CHOOSE h : h = [n \in Nat |-> IF n = 0 THEN w ELSE h[n - 1] \div 2]
<1>4. half = [n \in Nat |-> IF n = 0 THEN w ELSE half[n - 1] \div 2]
  BY <1>3
<1>5. \A n : ShiftRight(w, n) = half[n]
  BY DEF ShiftRight
<1> HIDE DEF half
<1>6. \A n \in Nat : half[n] \in Nat
  <2> SUFFICES ASSUME NEW n \in Nat PROVE half[n] \in Nat
    OBVIOUS
  <2> DEFINE S == {k \in Nat : half[k] \in Nat}
  <2>1. 0 \in S
    BY <1>4
  <2>2. ASSUME NEW m \in 0 .. n - 1, m \in S PROVE m + 1 \in S
    <3>1. half[m + 1] = half[m] \div 2
      BY <1>4, (m + 1) - 1 = m
    <3> QED
      BY <2>2, <3>1
  <2> HIDE DEF S
  <2>3. 0 .. n \subseteq S
    BY <2>1, <2>2, Induction
  <2> QED
    BY <2>3 DEF S
<1>7. half[0] = w /\ \A n \in Nat : half[n + 1] = half[n] \div 2
  <2>1. \A n \in Nat : n + 1 \in Nat /\ n + 1 # 0 /\ (n + 1) - 1 = n
    OBVIOUS
  <2> QED
    BY <1>4, <2>1
<1> QED
  BY <1>5, <1>6, <1>7

\* A bit shifted in at the end of v is shifted out of u first.
LEMMA ShiftDown ==
  ASSUME NEW u \in Nat, NEW v \in Nat, u \div 2 = v, NEW n \in Nat
  PROVE  ShiftRight(u, n + 1) = ShiftRight(v, n)
<1> DEFINE S == {k \in Nat : ShiftRight(u, k + 1) = ShiftRight(v, k)}
<1>1. 0 \in S
  <2>1. ShiftRight(u, 0 + 1) = ShiftRight(u, 0) \div 2
    BY ShiftHalves, 0 \in Nat
  <2> QED
    BY <2>1, ShiftHalves
<1>2. ASSUME NEW m \in 0 .. n - 1, m \in S PROVE m + 1 \in S
  <2>1. ShiftRight(u, (m + 1) + 1) = ShiftRight(u, m + 1) \div 2
    BY ShiftHalves, m + 1 \in Nat
  <2>2. ShiftRight(v, m + 1) = ShiftRight(v, m) \div 2
    BY ShiftHalves
  <2> QED
    BY <1>2, <2>1, <2>2
<1> HIDE DEF S
<1>3. 0 .. n \subseteq S
  BY <1>1, <1>2, Induction
<1> QED
  BY <1>3 DEF S

-----------------------------------------------------------------------------
(* Paths in the tree.                                                      *)

\* The path to way w down to a level of the tree, read as a number.
Path(w, level) == ShiftRight(w, Depth - level)

\* The tree is complete.
Complete == Depth \in Nat /\ config.ways = Power[Depth]

LEMMA TreeComplete ==
  ASSUME config \in Configurations, Is({"plru"})
  PROVE  Complete
<1>1. \E d \in 0 .. config.ways : config.ways = Power[d]
  BY ConfigurationsAssumption DEF Is
<1>2. Depth \in 0 .. config.ways /\ Power[Depth] = config.ways
  BY <1>1 DEF Depth
<1> QED
  BY <1>2, ConfigurationsAssumption DEF Complete

LEMMA PathSteps ==
  ASSUME Complete, NEW w \in Nat, NEW level \in 0 .. Depth - 1
  PROVE  /\ Path(w, level) \in Nat /\ Path(w, level + 1) \in Nat
         /\ Branch(w, level) \in {0, 1}
         /\ Path(w, level + 1) = 2 * Path(w, level) + Branch(w, level)
<1> PICK n \in Nat : n = Depth - 1 - level
  BY DEF Complete
<1>1. Depth - level = n + 1 /\ Depth - (level + 1) = n
  BY DEF Complete
<1>2. ShiftRight(w, n) \in Nat /\ ShiftRight(w, n + 1) = ShiftRight(w, n) \div 2
  BY ShiftHalves
<1> PICK a \in Nat : a = ShiftRight(w, n)
  BY <1>2
<1> PICK b \in Nat : b = ShiftRight(w, n + 1) /\ b = a \div 2
  BY <1>2, a \div 2 \in Nat
<1>3. a % 2 \in {0, 1} /\ a = 2 * b + (a % 2)
  OBVIOUS
<1>4. Path(w, level + 1) = a /\ Path(w, level) = b /\ Branch(w, level) = a % 2
  BY <1>1 DEF Path, Branch
<1> QED
  BY <1>3, <1>4

LEMMA PathBound ==
  ASSUME Complete, NEW w \in Ways, NEW level \in 0 .. Depth
  PROVE  Path(w, level) \in 0 .. Power[level] - 1
<1>0. w \in Nat /\ w < Power[Depth] /\ Depth \in Nat
  BY PowerDoubles DEF Complete, Ways
<1> DEFINE S == {n \in 0 .. Depth : ShiftRight(w, n) < Power[Depth - n]}
<1>1. 0 \in S
  <2>1. ShiftRight(w, 0) = w /\ Depth - 0 = Depth
    BY <1>0, ShiftHalves
  <2> QED
    BY <1>0, <2>1
<1>2. ASSUME NEW m \in 0 .. Depth - 1, m \in S PROVE m + 1 \in S
  <2>0. m \in Nat /\ m + 1 \in 0 .. Depth
    BY <1>0
  <2> PICK k \in Nat : k = Depth - (m + 1) /\ Depth - m = k + 1
    BY <1>0
  <2>1. Power[k + 1] = 2 * Power[k] /\ Power[k] \in Nat
    BY PowerDoubles
  <2>2. ShiftRight(w, m + 1) = ShiftRight(w, m) \div 2 /\ ShiftRight(w, m) \in Nat
    BY <1>0, <2>0, ShiftHalves
  <2>3. ShiftRight(w, m) < 2 * Power[k]
    BY <1>2, <2>1
  <2>4. ShiftRight(w, m + 1) < Power[k]
    BY <2>1, <2>2, <2>3
  <2> QED
    BY <2>0, <2>4
<1> HIDE DEF S
<1>3. 0 .. Depth \subseteq S
  BY <1>0, <1>1, <1>2, Induction
<1> PICK n \in Nat : n = Depth - level /\ n \in 0 .. Depth /\ Depth - n = level /\ level \in Nat
  BY <1>0
<1>4. ShiftRight(w, n) < Power[level]
  BY <1>3 DEF S
<1>5. ShiftRight(w, n) \in Nat /\ Power[level] \in Nat
  BY <1>0, ShiftHalves, PowerDoubles
<1> QED
  BY <1>4, <1>5 DEF Path

LEMMA NodeSteps ==
  ASSUME Complete, NEW w \in Nat
  PROVE  /\ Node(w, 0) = 0
         /\ \A l \in 0 .. Depth - 1 : Node(w, l + 1) = 2 * Node(w, l) + 1 + Branch(w, l)
<1>0. Depth \in Nat
  BY DEF Complete
<1> DEFINE step == [p \in Nat \X Int |-> 2 * p[2] + 1 + Branch(w, p[1])]
<1> HIDE DEF step
<1> PICK f : Defines(f, 0, step)
  BY Recursion
<1>1. f = [n \in Nat |-> IF n = 0 THEN 0 ELSE step[<<n - 1, f[n - 1]>>]]
  BY DEF Defines
<1>2. \A l \in 0 .. Depth - 1 : Branch(w, l) \in Int
  BY PathSteps
<1> DEFINE S == {l \in Nat : f[l] \in Int}
<1>3. 0 \in S
  BY <1>1
<1>4. ASSUME NEW m \in 0 .. Depth - 1, m \in S PROVE m + 1 \in S
  <2>1. f[m + 1] = step[<<m, f[m]>>]
    BY <1>1, (m + 1) - 1 = m
  <2> QED
    BY <1>2, <1>4, <2>1 DEF step
<1> HIDE DEF S
<1>5. \A l \in 0 .. Depth : f[l] \in Int
  BY <1>0, <1>3, <1>4, Induction DEF S
<1> DEFINE g == [l \in 0 .. Depth |-> f[l]]
<1>6. ASSUME NEW l \in 0 .. Depth, l # 0 PROVE f[l] = 2 * f[l - 1] + 1 + Branch(w, l - 1)
  <2>1. l \in Nat /\ l - 1 \in Nat /\ l - 1 \in 0 .. Depth
    BY <1>0, <1>6
  <2>2. f[l] = step[<<l - 1, f[l - 1]>>]
    BY <1>1, <1>6, <2>1
  <2>3. f[l - 1] \in Int
    BY <1>5, <2>1
  <2> QED
    BY <2>1, <2>2, <2>3 DEF step
<1>7. g = [l \in 0 .. Depth |-> IF l = 0 THEN 0 ELSE 2 * g[l - 1] + 1 + Branch(w, l - 1)]
  <2>1. f[0] = 0
    BY <1>1
  <2>2. \A l \in 0 .. Depth : l # 0 => g[l - 1] = f[l - 1]
    BY <1>0
  <2> QED
    BY <1>6, <2>1, <2>2
<1> DEFINE at == CHOOSE a : a = [l \in 0 .. Depth |-> IF l = 0 THEN 0 ELSE 2 * a[l - 1] + 1 + Branch(w, l - 1)]
<1> HIDE DEF g
<1>8. at = [l \in 0 .. Depth |-> IF l = 0 THEN 0 ELSE 2 * at[l - 1] + 1 + Branch(w, l - 1)]
  BY <1>7
<1>9. \A l : Node(w, l) = at[l]
  BY DEF Node
<1> HIDE DEF at
<1>10. at[0] = 0
  BY <1>0, <1>8, 0 \in 0 .. Depth
<1>11. ASSUME NEW l \in 0 .. Depth - 1 PROVE at[l + 1] = 2 * at[l] + 1 + Branch(w, l)
  <2>1. l + 1 \in 0 .. Depth /\ l + 1 # 0 /\ (l + 1) - 1 = l
    BY <1>0
  <2> QED
    BY <1>8, <2>1
<1> QED
  BY <1>9, <1>10, <1>11

\* The nodes of a level are numbered by the paths to them, after those of the levels above.
LEMMA NodeOfPath ==
  ASSUME Complete, NEW w \in Ways, NEW level \in 0 .. Depth
  PROVE  Node(w, level) = Power[level] - 1 + Path(w, level)
<1>0. w \in Nat /\ Depth \in Nat
  BY DEF Complete, Ways
<1> DEFINE S == {l \in 0 .. Depth : Node(w, l) = Power[l] - 1 + Path(w, l)}
<1>1. 0 \in S
  <2>1. Path(w, 0) = 0
    BY <1>0, PathBound, PowerDoubles
  <2> QED
    BY <1>0, <2>1, NodeSteps, PowerDoubles
<1>2. ASSUME NEW m \in 0 .. Depth - 1, m \in S PROVE m + 1 \in S
  <2>1. Node(w, m + 1) = 2 * Node(w, m) + 1 + Branch(w, m)
    BY <1>0, NodeSteps
  <2>2. /\ Path(w, m) \in Nat /\ Branch(w, m) \in {0, 1}
        /\ Path(w, m + 1) = 2 * Path(w, m) + Branch(w, m)
    BY <1>0, PathSteps
  <2>3. Power[m + 1] = 2 * Power[m] /\ Power[m] \in Nat
    BY PowerDoubles
  <2> QED
    BY <1>0, <1>2, <2>1, <2>2, <2>3
<1> HIDE DEF S
<1>3. 0 .. Depth \subseteq S
  BY <1>0, <1>1, <1>2, Induction
<1> QED
  BY <1>3 DEF S

LEMMA NodeInTree ==
  ASSUME Complete, NEW w \in Ways, NEW level \in 0 .. Depth - 1
  PROVE  Node(w, level) \in 0 .. config.ways - 2
<1>1. Path(w, level) \in 0 .. Power[level] - 1 /\ Node(w, level) = Power[level] - 1 + Path(w, level)
  BY PathBound, NodeOfPath DEF Complete
<1>2. Power[level + 1] = 2 * Power[level] /\ Power[level] \in Nat \ {0} /\ Power[level + 1] <= Power[Depth]
  BY PowerDoubles, PowerGrows DEF Complete
<1>3. Power[Depth] \in Nat /\ config.ways = Power[Depth]
  BY PowerDoubles DEF Complete
<1> QED
  BY <1>1, <1>2, <1>3

\* Paths meet in a node only if they are the same down to it.
LEMMA NodesApart ==
  ASSUME Complete, NEW v \in Ways, NEW w \in Ways, NEW k \in 0 .. Depth - 1, NEW l \in 0 .. Depth - 1,
         Node(v, k) = Node(w, l)
  PROVE  k = l /\ Path(v, k) = Path(w, l)
<1>0. k \in Nat /\ l \in Nat /\ k \in 0 .. Depth /\ l \in 0 .. Depth
  BY DEF Complete
<1> PICK p \in Nat, q \in Nat : p = Power[k] /\ q = Power[l]
  BY <1>0, PowerDoubles
<1>1. Power[k + 1] = 2 * p /\ Power[l + 1] = 2 * q
  BY <1>0, PowerDoubles
<1> PICK x \in 0 .. p - 1 : x = Path(v, k) /\ Node(v, k) = p - 1 + x
  BY <1>0, PathBound, NodeOfPath
<1> PICK y \in 0 .. q - 1 : y = Path(w, l) /\ Node(w, l) = q - 1 + y
  BY <1>0, PathBound, NodeOfPath
<1>2. p + x = q + y
  <2>1. p - 1 + x = q - 1 + y
    OBVIOUS
  <2> QED
    BY <2>1
<1>3. CASE k < l
  <2>1. 2 * p <= q
    BY <1>0, <1>1, <1>3, PowerGrows
  <2> QED
    BY <1>2, <2>1
<1>4. CASE l < k
  <2>1. 2 * q <= p
    BY <1>0, <1>1, <1>4, PowerGrows
  <2> QED
    BY <1>2, <2>1
<1>5. CASE k = l
  BY <1>2, <1>5
<1> QED
  BY <1>0, <1>3, <1>4, <1>5

\* A node among the `p' of its level, and its child, have their places in the tree.
LEMMA ChildInLevel ==
  ASSUME NEW p \in Nat, NEW v \in 0 .. p - 1, NEW b \in {0, 1}, NEW ways \in Nat, 2 * p <= ways
  PROVE  /\ p - 1 + v \in 0 .. ways - 2
         /\ 2 * v + b \in 0 .. 2 * p - 1 /\ 2 * v + b \in Nat
         /\ (2 * v + b) % 2 = b /\ (2 * v + b) \div 2 = v
  OBVIOUS

\* The bits always lead to a way.
LEMMA VictimFound ==
  ASSUME Complete, NEW bits \in [0 .. config.ways - 2 -> {0, 1}]
  PROVE  /\ TreeVictim(bits) \in Ways
         /\ \A level \in 0 .. Depth - 1 : bits[Node(TreeVictim(bits), level)] = Branch(TreeVictim(bits), level)
<1>0. Depth \in Nat /\ config.ways = Power[Depth]
  BY DEF Complete
<1> DEFINE Follows(v, l) == \A k \in 0 .. l - 1 : bits[Power[k] - 1 + ShiftRight(v, l - k)] = ShiftRight(v, l - 1 - k) % 2
           S == {l \in 0 .. Depth : \E v \in 0 .. Power[l] - 1 : Follows(v, l)}
<1> HIDE DEF Follows
<1>1. 0 \in S
  <2>1. 0 \in 0 .. Power[0] - 1 /\ 0 \in 0 .. Depth
    BY <1>0, PowerDoubles
  <2>2. Follows(0, 0)
    BY DEF Follows
  <2> QED
    BY <2>1, <2>2
<1>2. ASSUME NEW l \in 0 .. Depth - 1, l \in S PROVE l + 1 \in S
  <2> PICK v \in 0 .. Power[l] - 1 : Follows(v, l)
    BY <1>2
  <2>0. l \in Nat /\ l + 1 \in Nat /\ l + 1 <= Depth
    BY <1>0
  <2> HIDE DEF S
  <2>3. v \in Nat
    BY <2>0, PowerDoubles
  <2>4. \A u \in Nat, n \in Nat : u \div 2 = v => ShiftRight(u, n + 1) = ShiftRight(v, n)
    BY <2>3, ShiftDown
  <2> PICK p \in Nat \ {0} : p = Power[l] /\ Power[l + 1] = 2 * p
    BY <2>0, PowerDoubles
  <2> PICK ways \in Nat : ways = config.ways
    BY <1>0, PowerDoubles
  <2>1. v \in 0 .. p - 1 /\ 2 * p <= ways
    BY <1>0, <2>0, PowerGrows
  <2>2. p - 1 + v \in 0 .. ways - 2
    BY <2>1, ChildInLevel
  <2> PICK b \in {0, 1} : b = bits[p - 1 + v]
    BY <2>2
  <2> PICK u \in Nat : u = 2 * v + b /\ u \in 0 .. 2 * p - 1 /\ u % 2 = b /\ u \div 2 = v
    BY <2>1, ChildInLevel
  <2>5. ASSUME NEW k \in 0 .. l
        PROVE  bits[Power[k] - 1 + ShiftRight(u, (l + 1) - k)] = ShiftRight(u, (l + 1) - 1 - k) % 2
    <3>1. CASE k < l
      <4> PICK n \in Nat : n = l - 1 - k /\ (l + 1) - k = (n + 1) + 1 /\ l - k = n + 1 /\ (l + 1) - 1 - k = n + 1
        BY <3>1
      <4>1. ShiftRight(u, (n + 1) + 1) = ShiftRight(v, n + 1) /\ ShiftRight(u, n + 1) = ShiftRight(v, n)
        BY <2>4, n + 1 \in Nat
      <4>2. bits[Power[k] - 1 + ShiftRight(v, n + 1)] = ShiftRight(v, n) % 2
        BY <3>1 DEF Follows
      <4> QED
        BY <4>1, <4>2
    <3>2. CASE k = l
      <4>1. (l + 1) - k = 0 + 1 /\ (l + 1) - 1 - k = 0
        BY <3>2
      <4>2. ShiftRight(u, 0 + 1) = ShiftRight(v, 0) /\ ShiftRight(v, 0) = v /\ ShiftRight(u, 0) = u
        BY <2>3, <2>4, ShiftHalves, 0 \in Nat
      <4> QED
        BY <3>2, <4>1, <4>2
    <3> QED
      BY <3>1, <3>2
  <2>6. Follows(u, l + 1)
    BY <2>0, <2>5, (l + 1) - 1 = l DEF Follows
  <2>7. l + 1 \in 0 .. Depth
    BY <1>0, <2>0
  <2> QED
    BY <2>6, <2>7 DEF S
<1> HIDE DEF S
<1>3. 0 .. Depth \subseteq S
  BY <1>0, <1>1, <1>2, Induction
<1> PICK w \in Ways : Follows(w, Depth)
  <2>1. Depth \in S
    BY <1>0, <1>3
  <2> QED
    BY <1>0, <2>1 DEF S, Ways
<1>4. ASSUME NEW level \in 0 .. Depth - 1 PROVE bits[Node(w, level)] = Branch(w, level)
  <2>1. Node(w, level) = Power[level] - 1 + ShiftRight(w, Depth - level)
    BY <1>0, NodeOfPath DEF Path
  <2>2. bits[Power[level] - 1 + ShiftRight(w, Depth - level)] = ShiftRight(w, Depth - 1 - level) % 2
    BY DEF Follows
  <2> QED
    BY <2>1, <2>2 DEF Branch
<1> QED
  BY <1>4 DEF TreeVictim

-----------------------------------------------------------------------------
(* The order of the ways.                                                  *)

\* The elements of a sequence without its n-th one.
LEMMA RemoveAtElements ==
  ASSUME NEW S, NEW s \in Seq(S), NEW n \in 1 .. Len(s)
  PROVE  /\ Ext!RemoveAt(s, n) \in Seq(S) /\ Len(Ext!RemoveAt(s, n)) = Len(s) - 1
         /\ \A k \in 1 .. Len(s) - 1 : Ext!RemoveAt(s, n)[k] = IF k < n THEN s[k] ELSE s[k + 1]
<1> DEFINE before == SubSeq(s, 1, n - 1)
           after == SubSeq(s, n + 1, Len(s))
<1>1. before \in Seq(S) /\ Len(before) = n - 1 /\ \A k \in 1 .. n - 1 : before[k] = s[k]
  OBVIOUS
<1>2. after \in Seq(S) /\ Len(after) = Len(s) - n /\ \A k \in 1 .. Len(s) - n : after[k] = s[n + k]
  OBVIOUS
<1>3. Ext!RemoveAt(s, n) = before \o after
  BY DEF Ext!RemoveAt
<1> HIDE DEF before, after
<1>4. /\ before \o after \in Seq(S) /\ Len(before \o after) = Len(s) - 1
      /\ \A k \in 1 .. Len(s) - 1 :
           (before \o after)[k] = IF k <= n - 1 THEN before[k] ELSE after[k - (n - 1)]
  <2>1. /\ before \o after \in Seq(S) /\ Len(before \o after) = Len(before) + Len(after)
        /\ \A k \in 1 .. Len(before) + Len(after) :
             (before \o after)[k] = IF k <= Len(before) THEN before[k] ELSE after[k - Len(before)]
    BY <1>1, <1>2, ConcatProperties
  <2>2. Len(before) + Len(after) = Len(s) - 1
    BY <1>1, <1>2
  <2> QED
    BY <1>1, <2>1, <2>2
<1>5. ASSUME NEW k \in 1 .. Len(s) - 1
      PROVE  (before \o after)[k] = IF k < n THEN s[k] ELSE s[k + 1]
  <2>1. CASE k < n
    BY <1>1, <1>4, <2>1
  <2>2. CASE ~(k < n)
    <3>1. k - (n - 1) \in 1 .. Len(s) - n /\ n + (k - (n - 1)) = k + 1
      BY <2>2
    <3> QED
      BY <1>2, <1>4, <2>2, <3>1
  <2> QED
    BY <2>1, <2>2
<1> QED
  BY <1>3, <1>4, <1>5

\* The n entries of `ways' are the members of S, each once.
Enumerates(ways, n, S) ==
  /\ Len(ways) = n
  /\ \A k \in 1 .. n : ways[k] \in S
  /\ \A w \in S : \E k \in 1 .. n : ways[k] = w
  /\ \A j, k \in 1 .. n : ways[j] = ways[k] => j = k

LEMMA ListsEnumerate ==
  ASSUME NEW S, NEW ways, Lists(ways, S)
  PROVE  ways \in Seq(S) /\ \E n \in Nat : Enumerates(ways, n, S)
<1>1. ways \in Seq(S) /\ Len(ways) \in Nat /\ DOMAIN ways = 1 .. Len(ways)
  BY DEF Lists
<1>2. \A k \in 1 .. Len(ways) : ways[k] \in S
  BY <1>1, ElementOfSeq
<1>3. Enumerates(ways, Len(ways), S)
  BY <1>1, <1>2 DEF Lists, Enumerates
<1> QED
  BY <1>1, <1>3

LEMMA EnumeratesLists ==
  ASSUME NEW S, NEW T, NEW ways \in Seq(T), NEW n \in Nat, Enumerates(ways, n, S)
  PROVE  Lists(ways, S)
<1>1. DOMAIN ways = 1 .. n /\ Len(ways) = n
  BY DEF Enumerates
<1>2. ways = [k \in 1 .. n |-> ways[k]]
  BY <1>1, LenProperties
<1>3. \A k \in 1 .. n : ways[k] \in S
  BY DEF Enumerates
<1>4. ways \in Seq(S)
  BY <1>2, <1>3
<1> QED
  BY <1>1, <1>4 DEF Enumerates, Lists

\* `rest' is `ways' without the m-th of its n entries.
Removes(rest, ways, n, m) ==
  /\ Len(rest) = n - 1
  /\ \A k \in 1 .. n - 1 : rest[k] = IF k < m THEN ways[k] ELSE ways[k + 1]

LEMMA WithoutMember ==
  ASSUME NEW S, NEW ways \in Seq(S), NEW n \in Nat, Enumerates(ways, n, S), NEW w \in S
  PROVE  /\ Without(ways, w) \in Seq(S)
         /\ \E m \in 1 .. n : ways[m] = w /\ Removes(Without(ways, w), ways, n, m)
<1> DEFINE m == CHOOSE k \in DOMAIN ways : ways[k] = w
<1>1. Len(ways) = n /\ DOMAIN ways = 1 .. n
  BY DEF Enumerates
<1>2. m \in 1 .. n /\ ways[m] = w
  BY <1>1 DEF Enumerates
<1>3. Without(ways, w) = Ext!RemoveAt(ways, m)
  BY <1>1, <1>2 DEF Without
<1> HIDE DEF m
<1>4. /\ Ext!RemoveAt(ways, m) \in Seq(S) /\ Len(Ext!RemoveAt(ways, m)) = n - 1
      /\ \A k \in 1 .. n - 1 : Ext!RemoveAt(ways, m)[k] = IF k < m THEN ways[k] ELSE ways[k + 1]
  BY <1>1, <1>2, RemoveAtElements
<1>5. Removes(Without(ways, w), ways, n, m)
  BY <1>3, <1>4 DEF Removes
<1> QED
  BY <1>2, <1>3, <1>4, <1>5

LEMMA WithoutOther ==
  ASSUME NEW S, NEW ways, NEW n \in Nat, ways \in Seq(S), Enumerates(ways, n, S), NEW w, w \notin S
  PROVE  Without(ways, w) = ways
<1>1. DOMAIN ways = 1 .. n
  BY DEF Enumerates
<1> QED
  BY <1>1 DEF Without, Enumerates

\* Taking one entry out leaves a list of the others.
LEMMA RemovesEnumerates ==
  ASSUME NEW S, NEW ways, NEW n \in Nat, Enumerates(ways, n, S),
         NEW m \in 1 .. n, NEW rest, Removes(rest, ways, n, m)
  PROVE  Enumerates(rest, n - 1, S \ {ways[m]})
<1> DEFINE old(k) == IF k < m THEN k ELSE k + 1
<1>1. \A k \in 1 .. n - 1 : rest[k] = ways[old(k)]
  BY DEF Removes
<1>2. \A k \in 1 .. n - 1 : old(k) \in 1 .. n /\ old(k) # m
  OBVIOUS
<1>3. \A j, k \in 1 .. n - 1 : old(j) = old(k) => j = k
  OBVIOUS
<1>4. ASSUME NEW l \in 1 .. n, l # m PROVE \E k \in 1 .. n - 1 : old(k) = l
  <2>1. CASE l < m
    <3>1. l \in 1 .. n - 1 /\ old(l) = l
      BY <2>1
    <3> QED
      BY <3>1
  <2>2. CASE l > m
    <3>1. l - 1 \in 1 .. n - 1 /\ old(l - 1) = l
      BY <2>2
    <3> QED
      BY <3>1
  <2> QED
    BY <1>4, <2>1, <2>2
<1> HIDE DEF old
<1>5. \A k \in 1 .. n - 1 : rest[k] \in S \ {ways[m]}
  BY <1>1, <1>2 DEF Enumerates
<1>6. \A w \in S \ {ways[m]} : \E k \in 1 .. n - 1 : rest[k] = w
  <2> TAKE w \in S \ {ways[m]}
  <2> PICK l \in 1 .. n : ways[l] = w
    BY DEF Enumerates
  <2> PICK k \in 1 .. n - 1 : old(k) = l
    BY <1>4
  <2> QED
    BY <1>1
<1>7. \A j, k \in 1 .. n - 1 : rest[j] = rest[k] => j = k
  BY <1>1, <1>2, <1>3 DEF Enumerates
<1> QED
  BY <1>5, <1>6, <1>7 DEF Enumerates, Removes

LEMMA WithoutEnumerates ==
  ASSUME NEW S, NEW ways, Lists(ways, S), NEW w
  PROVE  Without(ways, w) \in Seq(S) /\ \E n \in Nat : Enumerates(Without(ways, w), n, S \ {w})
<1> PICK n \in Nat : Enumerates(ways, n, S)
  BY ListsEnumerate
<1>0. ways \in Seq(S)
  BY ListsEnumerate
<1>1. CASE w \in S
  <2>1. Without(ways, w) \in Seq(S)
    BY <1>0, <1>1, WithoutMember
  <2> PICK m \in 1 .. n : ways[m] = w /\ Removes(Without(ways, w), ways, n, m)
    BY <1>0, <1>1, WithoutMember
  <2>2. Enumerates(Without(ways, w), n - 1, S \ {w}) /\ n - 1 \in Nat
    BY RemovesEnumerates
  <2> QED
    BY <2>1, <2>2
<1>2. CASE w \notin S
  BY <1>0, <1>2, WithoutOther, S \ {w} = S
<1> QED
  BY <1>1, <1>2

LEMMA WithoutLists ==
  ASSUME NEW S, NEW ways, Lists(ways, S), NEW w
  PROVE  Lists(Without(ways, w), S \ {w})
BY WithoutEnumerates, EnumeratesLists

\* The entries of `new' are the n of `rest' and, after them, w.
Extends(new, rest, n, w) ==
  /\ Len(new) = n + 1
  /\ new[n + 1] = w
  /\ \A k \in 1 .. n : new[k] = rest[k]

\* The entries of `new' are w and, after it, the n of `rest'.
Prefixes(new, rest, n, w) ==
  /\ Len(new) = n + 1
  /\ new[1] = w
  /\ \A k \in 1 .. n : new[k + 1] = rest[k]

LEMMA LastEnumerates ==
  ASSUME NEW S, NEW w, NEW n \in Nat, NEW rest, Enumerates(rest, n, S \ {w}),
         NEW new, Extends(new, rest, n, w)
  PROVE  Enumerates(new, n + 1, S \cup {w})
<1>0. Len(new) = n + 1 /\ new[n + 1] = w /\ \A k \in 1 .. n : new[k] = rest[k]
  BY DEF Extends
<1>1. \A k \in 1 .. n : new[k] \in S \ {w}
  BY <1>0 DEF Enumerates
<1>2. \A k \in 1 .. n + 1 : k \in 1 .. n \/ k = n + 1
  OBVIOUS
<1>3. \A k \in 1 .. n + 1 : new[k] \in S \cup {w}
  BY <1>0, <1>1, <1>2
<1>4. \A v \in S \cup {w} : \E k \in 1 .. n + 1 : new[k] = v
  <2> TAKE v \in S \cup {w}
  <2>1. CASE v = w
    BY <1>0, <2>1, n + 1 \in 1 .. n + 1
  <2>2. CASE v # w
    <3> PICK k \in 1 .. n : rest[k] = v
      BY <2>2 DEF Enumerates
    <3> QED
      BY <1>0, k \in 1 .. n + 1
  <2> QED
    BY <2>1, <2>2
<1>5. \A j, k \in 1 .. n + 1 : new[j] = new[k] => j = k
  BY <1>0, <1>1, <1>2 DEF Enumerates
<1> QED
  BY <1>0, <1>3, <1>4, <1>5 DEF Enumerates

LEMMA FirstEnumerates ==
  ASSUME NEW S, NEW w, NEW n \in Nat, NEW rest, Enumerates(rest, n, S \ {w}),
         NEW new, Prefixes(new, rest, n, w)
  PROVE  Enumerates(new, n + 1, S \cup {w})
<1>0. Len(new) = n + 1 /\ new[1] = w /\ \A k \in 1 .. n : new[k + 1] = rest[k]
  BY DEF Prefixes
<1>1. \A k \in 1 .. n : new[k + 1] \in S \ {w}
  BY <1>0 DEF Enumerates
<1>2. ASSUME NEW k \in 1 .. n + 1, k # 1 PROVE \E l \in 1 .. n : k = l + 1 /\ new[k] = rest[l]
  <2>1. k - 1 \in 1 .. n /\ k = (k - 1) + 1
    BY <1>2
  <2> QED
    BY <1>0, <2>1
<1>3. \A k \in 1 .. n + 1 : new[k] \in S \cup {w}
  BY <1>0, <1>1, <1>2
<1>4. \A v \in S \cup {w} : \E k \in 1 .. n + 1 : new[k] = v
  <2> TAKE v \in S \cup {w}
  <2>1. CASE v = w
    BY <1>0, <2>1, 1 \in 1 .. n + 1
  <2>2. CASE v # w
    <3> PICK k \in 1 .. n : rest[k] = v
      BY <2>2 DEF Enumerates
    <3> QED
      BY <1>0, k + 1 \in 1 .. n + 1
  <2> QED
    BY <2>1, <2>2
<1>5. ASSUME NEW j \in 1 .. n + 1, NEW k \in 1 .. n + 1, new[j] = new[k] PROVE j = k
  <2>1. CASE j = 1
    BY <1>0, <1>1, <1>2, <1>5, <2>1
  <2>2. CASE k = 1
    BY <1>0, <1>1, <1>2, <1>5, <2>2
  <2>3. CASE j # 1 /\ k # 1
    <3> PICK a \in 1 .. n : j = a + 1 /\ new[j] = rest[a]
      BY <1>2, <2>3
    <3> PICK b \in 1 .. n : k = b + 1 /\ new[k] = rest[b]
      BY <1>2, <2>3
    <3>1. a = b
      BY <1>5 DEF Enumerates
    <3> QED
      BY <3>1
  <2> QED
    BY <2>1, <2>2, <2>3
<1> QED
  BY <1>0, <1>3, <1>4, <1>5 DEF Enumerates

LEMMA ToBackEntries ==
  ASSUME NEW T, NEW w \in T, NEW ways, Without(ways, w) \in Seq(T), NEW n \in Nat, Len(Without(ways, w)) = n
  PROVE  ToBack(ways, w) \in Seq(T) /\ Extends(ToBack(ways, w), Without(ways, w), n, w)
<1> DEFINE rest == Without(ways, w)
<1>1. rest \in Seq(T) /\ Len(rest) = n
  OBVIOUS
<1> HIDE DEF rest
<1>2. /\ Append(rest, w) \in Seq(T) /\ Len(Append(rest, w)) = n + 1 /\ Append(rest, w)[n + 1] = w
      /\ \A k \in 1 .. n : Append(rest, w)[k] = rest[k]
  BY <1>1, AppendProperties
<1> QED
  BY <1>2 DEF rest, ToBack, Extends

LEMMA ToFrontEntries ==
  ASSUME NEW T, NEW w \in T, NEW ways, Without(ways, w) \in Seq(T), NEW n \in Nat, Len(Without(ways, w)) = n
  PROVE  ToFront(ways, w) \in Seq(T) /\ Prefixes(ToFront(ways, w), Without(ways, w), n, w)
<1> DEFINE rest == Without(ways, w)
           one == <<w>>
<1>1. rest \in Seq(T) /\ Len(rest) = n
  OBVIOUS
<1>2. one \in Seq(T) /\ Len(one) = 1 /\ one[1] = w
  OBVIOUS
<1>3. ToFront(ways, w) = one \o rest
  BY DEF ToFront
<1> HIDE DEF rest, one
<1>4. /\ one \o rest \in Seq(T) /\ Len(one \o rest) = 1 + n
      /\ \A k \in 1 .. 1 + n : (one \o rest)[k] = IF k <= 1 THEN one[k] ELSE rest[k - 1]
  <2>1. /\ one \o rest \in Seq(T) /\ Len(one \o rest) = Len(one) + Len(rest)
        /\ \A k \in 1 .. Len(one) + Len(rest) :
             (one \o rest)[k] = IF k <= Len(one) THEN one[k] ELSE rest[k - Len(one)]
    BY <1>1, <1>2, ConcatProperties
  <2> QED
    BY <1>1, <1>2, <2>1
<1>5. (one \o rest)[1] = w
  BY <1>2, <1>4, 1 \in 1 .. 1 + n, 1 <= 1
<1>6. ASSUME NEW k \in 1 .. n PROVE (one \o rest)[k + 1] = rest[k]
  <2>1. k + 1 \in 1 .. 1 + n /\ ~(k + 1 <= 1) /\ (k + 1) - 1 = k
    OBVIOUS
  <2> QED
    BY <1>4, <2>1
<1>7. 1 + n = n + 1
  OBVIOUS
<1> QED
  BY <1>3, <1>4, <1>5, <1>6, <1>7 DEF rest, Prefixes

LEMMA ToBackLists ==
  ASSUME NEW S, NEW ways, Lists(ways, S), NEW w
  PROVE  Lists(ToBack(ways, w), S \cup {w})
<1> PICK T : T = S \cup {w}
  OBVIOUS
<1>1. Without(ways, w) \in Seq(T)
  BY WithoutEnumerates, SeqMonotonic
<1> PICK n \in Nat : Enumerates(Without(ways, w), n, S \ {w})
  BY WithoutEnumerates
<1>2. Len(Without(ways, w)) = n
  BY DEF Enumerates
<1>3. ToBack(ways, w) \in Seq(T) /\ Extends(ToBack(ways, w), Without(ways, w), n, w)
  BY <1>1, <1>2, w \in T, ToBackEntries
<1>4. Enumerates(ToBack(ways, w), n + 1, S \cup {w})
  BY <1>3, LastEnumerates
<1> QED
  BY <1>3, <1>4, EnumeratesLists

LEMMA ToFrontLists ==
  ASSUME NEW S, NEW ways, Lists(ways, S), NEW w
  PROVE  Lists(ToFront(ways, w), S \cup {w})
<1> PICK T : T = S \cup {w}
  OBVIOUS
<1>1. Without(ways, w) \in Seq(T)
  BY WithoutEnumerates, SeqMonotonic
<1> PICK n \in Nat : Enumerates(Without(ways, w), n, S \ {w})
  BY WithoutEnumerates
<1>2. Len(Without(ways, w)) = n
  BY DEF Enumerates
<1>3. ToFront(ways, w) \in Seq(T) /\ Prefixes(ToFront(ways, w), Without(ways, w), n, w)
  BY <1>1, <1>2, w \in T, ToFrontEntries
<1>4. Enumerates(ToFront(ways, w), n + 1, S \cup {w})
  BY <1>3, FirstEnumerates
<1> QED
  BY <1>3, <1>4, EnumeratesLists

\* The entries of `some' are the last ones of `all', in the same order.
Suffix(some, all) ==
  /\ Len(some) <= Len(all)
  /\ \A n \in 1 .. Len(some) : some[n] = all[Len(all) - Len(some) + n]

\* The same entry taken out of both.
LEMMA SuffixRemoves ==
  ASSUME NEW some, NEW all, NEW a \in Nat, NEW b \in Nat, a <= b, NEW m \in 1 .. a,
         \A n \in 1 .. a : some[n] = all[b - a + n],
         NEW left, Removes(left, some, a, m), NEW rest, Removes(rest, all, b, b - a + m)
  PROVE  Suffix(left, rest)
<1>1. ASSUME NEW n \in 1 .. a - 1 PROVE left[n] = rest[(b - 1) - (a - 1) + n]
  <2> PICK j \in 1 .. b - 1 : j = (b - 1) - (a - 1) + n /\ j = b - a + n /\ j + 1 = b - a + (n + 1)
    OBVIOUS
  <2>1. CASE n < m
    <3>1. j < b - a + m /\ n \in 1 .. a
      BY <2>1
    <3>2. left[n] = some[n] /\ rest[j] = all[j]
      BY <2>1, <3>1 DEF Removes
    <3> QED
      BY <3>1, <3>2
  <2>2. CASE ~(n < m)
    <3>1. ~(j < b - a + m) /\ n + 1 \in 1 .. a
      BY <2>2
    <3>2. left[n] = some[n + 1] /\ rest[j] = all[j + 1]
      BY <2>2, <3>1 DEF Removes
    <3> QED
      BY <3>1, <3>2
  <2> QED
    BY <2>1, <2>2
<1>2. Len(left) = a - 1 /\ Len(rest) = b - 1 /\ a - 1 <= b - 1
  BY DEF Removes
<1> QED
  BY <1>1, <1>2 DEF Suffix

\* An entry before all of `some'.
LEMMA SuffixKeeps ==
  ASSUME NEW some, NEW all, NEW a \in Nat, NEW b \in Nat, NEW m \in 1 .. b - a,
         Len(some) = a, \A n \in 1 .. a : some[n] = all[b - a + n],
         NEW rest, Removes(rest, all, b, m)
  PROVE  Suffix(some, rest)
<1>1. ASSUME NEW n \in 1 .. a PROVE some[n] = rest[(b - 1) - a + n]
  <2> PICK j \in 1 .. b - 1 : j = (b - 1) - a + n /\ ~(j < m) /\ j + 1 = b - a + n
    OBVIOUS
  <2>1. rest[j] = all[j + 1]
    BY DEF Removes
  <2> QED
    BY <2>1
<1>2. Len(rest) = b - 1 /\ a <= b - 1
  BY DEF Removes
<1> QED
  BY <1>1, <1>2 DEF Suffix

LEMMA SuffixWithout ==
  ASSUME NEW S, NEW T, S \subseteq T, NEW some, NEW all,
         Lists(some, S), Lists(all, T), Suffix(some, all), NEW w \in T
  PROVE  Suffix(Without(some, w), Without(all, w))
<1>0. some \in Seq(S) /\ all \in Seq(T)
  BY ListsEnumerate
<1> PICK a \in Nat : Enumerates(some, a, S)
  BY ListsEnumerate
<1> PICK b \in Nat : Enumerates(all, b, T)
  BY ListsEnumerate
<1>1. a <= b /\ Len(some) = a /\ \A n \in 1 .. a : some[n] = all[b - a + n]
  BY DEF Suffix, Enumerates
<1> PICK k \in 1 .. b : all[k] = w /\ Removes(Without(all, w), all, b, k)
  BY <1>0, WithoutMember
<1>2. CASE w \in S
  <2> PICK m \in 1 .. a : some[m] = w /\ Removes(Without(some, w), some, a, m)
    BY <1>0, <1>2, WithoutMember
  <2>1. k = b - a + m
    <3>1. b - a + m \in 1 .. b
      BY <1>1
    <3>2. all[b - a + m] = all[k]
      BY <1>1
    <3> QED
      BY <3>1, <3>2 DEF Enumerates
  <2> QED
    BY <1>1, <2>1, SuffixRemoves
<1>3. CASE w \notin S
  <2>1. Without(some, w) = some
    BY <1>0, <1>3, WithoutOther
  <2>2. \A n \in 1 .. a : some[n] # w
    BY <1>3 DEF Enumerates
  <2>3. k \in 1 .. b - a
    <3> SUFFICES ASSUME k > b - a PROVE FALSE
      BY <1>1
    <3>1. k - (b - a) \in 1 .. a /\ k = b - a + (k - (b - a))
      BY <1>1
    <3> QED
      BY <1>1, <2>2, <3>1
  <2> QED
    BY <1>1, <2>1, <2>3, SuffixKeeps
<1> QED
  BY <1>2, <1>3

\* The same way added at the end of both.
LEMMA SuffixExtends ==
  ASSUME NEW x, NEW y, NEW a \in Nat, NEW b \in Nat, Len(x) = a, Len(y) = b, Suffix(x, y),
         NEW w, NEW u, Extends(u, x, a, w), NEW v, Extends(v, y, b, w)
  PROVE  Suffix(u, v)
<1>0. /\ Len(u) = a + 1 /\ u[a + 1] = w /\ \A n \in 1 .. a : u[n] = x[n]
      /\ Len(v) = b + 1 /\ v[b + 1] = w /\ \A n \in 1 .. b : v[n] = y[n]
  BY DEF Extends
<1>1. a <= b /\ \A n \in 1 .. a : x[n] = y[b - a + n]
  BY DEF Suffix
<1>2. ASSUME NEW n \in 1 .. a + 1 PROVE u[n] = v[(b + 1) - (a + 1) + n]
  <2>1. (b + 1) - (a + 1) + n = b - a + n
    OBVIOUS
  <2>2. CASE n \in 1 .. a
    <3>1. b - a + n \in 1 .. b
      BY <1>1, <2>2
    <3> QED
      BY <1>0, <1>1, <2>1, <2>2, <3>1
  <2>3. CASE n = a + 1
    <3>1. b - a + n = b + 1
      BY <2>3
    <3> QED
      BY <1>0, <2>1, <2>3, <3>1
  <2> QED
    BY <2>2, <2>3
<1>3. a + 1 <= b + 1
  BY <1>1
<1> QED
  BY <1>0, <1>2, <1>3 DEF Suffix

LEMMA SuffixToBack ==
  ASSUME NEW S, NEW T, S \subseteq T, NEW some, NEW all,
         Lists(some, S), Lists(all, T), Suffix(some, all), NEW w \in T
  PROVE  Suffix(ToBack(some, w), ToBack(all, w))
<1>1. Without(some, w) \in Seq(T) /\ Without(all, w) \in Seq(T)
  BY WithoutEnumerates, SeqMonotonic
<1> PICK a \in Nat : a = Len(Without(some, w))
  BY <1>1
<1> PICK b \in Nat : b = Len(Without(all, w))
  BY <1>1
<1>2. Extends(ToBack(some, w), Without(some, w), a, w)
  BY <1>1, ToBackEntries
<1>3. Extends(ToBack(all, w), Without(all, w), b, w)
  BY <1>1, ToBackEntries
<1>4. Suffix(Without(some, w), Without(all, w))
  BY SuffixWithout
<1> QED
  BY <1>2, <1>3, <1>4, SuffixExtends

LEMMA SuffixToFront ==
  ASSUME NEW S, NEW T, S \subseteq T, NEW some, NEW all,
         Lists(some, S), Lists(all, T), Suffix(some, all), NEW w \in T
  PROVE  Suffix(Without(some, w), ToFront(all, w))
<1>1. Without(some, w) \in Seq(T) /\ Without(all, w) \in Seq(T)
  BY WithoutEnumerates, SeqMonotonic
<1> PICK a \in Nat : a = Len(Without(some, w))
  BY <1>1
<1> PICK b \in Nat : b = Len(Without(all, w))
  BY <1>1
<1>0. Prefixes(ToFront(all, w), Without(all, w), b, w)
  BY <1>1, ToFrontEntries
<1> PICK x, y, v : /\ x = Without(some, w) /\ y = Without(all, w) /\ v = ToFront(all, w)
                   /\ Len(x) = a /\ Len(y) = b
  OBVIOUS
<1>7. Len(v) = b + 1 /\ \A k \in 1 .. b : v[k + 1] = y[k]
  BY <1>0 DEF Prefixes
<1>2. Suffix(x, y)
  BY SuffixWithout
<1>3. a <= b /\ \A n \in 1 .. a : x[n] = y[b - a + n]
  BY <1>2 DEF Suffix
<1>4. ASSUME NEW n \in 1 .. a PROVE x[n] = v[(b + 1) - a + n]
  <2> PICK j \in 1 .. b : j = b - a + n /\ j + 1 = (b + 1) - a + n
    BY <1>3
  <2> QED
    BY <1>3, <1>7
<1>5. a <= b + 1
  BY <1>3
<1>6. Suffix(x, v)
  BY <1>4, <1>5, <1>7 DEF Suffix
<1> QED
  BY <1>6

\* A list of a set is as long as the set is large.
LEMMA ListLength ==
  ASSUME NEW S, NEW ways, Lists(ways, S)
  PROVE  IsFiniteSet(S) /\ Cardinality(S) = Len(ways)
<1> PICK n \in Nat : Enumerates(ways, n, S)
  BY ListsEnumerate
<1>0. n = Len(ways)
  BY DEF Enumerates
<1> DEFINE at == [k \in 1 .. n |-> ways[k]]
<1>1. at \in Bijection(1 .. n, S)
  <2>1. at \in [1 .. n -> S] /\ \A k \in 1 .. n : at[k] = ways[k]
    BY DEF Enumerates
  <2> HIDE DEF at
  <2>2. \A j, k \in 1 .. n : at[j] = at[k] => j = k
    BY <2>1 DEF Enumerates
  <2>3. \A w \in S : \E k \in 1 .. n : at[k] = w
    BY <2>1 DEF Enumerates
  <2> QED
    BY <2>1, <2>2, <2>3 DEF Bijection, Injection, Surjection, IsInjective
<1>2. ExistsBijection(1 .. n, S)
  BY <1>1 DEF ExistsBijection
<1>3. IsFiniteSet(1 .. n) /\ Cardinality(1 .. n) = n
  <2>1. IsFiniteSet(1 .. n) /\ Cardinality(1 .. n) = IF 1 > n THEN 0 ELSE (n - 1) + 1
    BY FS_Interval
  <2> QED
    BY <2>1
<1> HIDE DEF at
<1> QED
  BY <1>0, <1>2, <1>3, FS_Bijection

LEMMA WaysCounted ==
  ASSUME config \in Configurations
  PROVE  config.ways \in Nat \ {0} /\ config.sets \in Nat \ {0} /\ Cardinality(Ways) = config.ways
<1>1. config.ways \in Nat \ {0} /\ config.sets \in Nat \ {0}
  BY ConfigurationsAssumption
<1> PICK n \in Nat : n = config.ways /\ n > 0
  BY <1>1
<1>2. Cardinality(0 .. n - 1) = n
  BY FS_Interval
<1> QED
  BY <1>1, <1>2 DEF Ways

-----------------------------------------------------------------------------
(* Type correctness.                                                       *)

Orders == {ways \in Seq(Ways) : Lists(ways, Ways)}
Bits == [0 .. config.ways - 2 -> {0, 1}]

\* The bookkeeping of the policies.
BooksOK ==
  /\ order \in [Sets -> Orders]
  /\ tree \in [Sets -> Bits]
  /\ referenced \in [Sets -> SUBSET Ways]
  /\ count \in [Sets -> [Ways -> 0 .. MaxCount]]
  /\ rrpv \in [Sets -> [Ways -> RRPV_NEAR .. RRPV_DISTANT]]
  /\ psel \in 0 .. PSEL_MAX

\* `list' has the ways held in each set.
HistoryOK(list, held) == list \in [Sets -> Seq(Ways)] /\ \A s \in Sets : Lists(list[s], held[s])

CacheOK ==
  /\ config \in Configurations
  /\ valid \in [Sets -> SUBSET Ways]
  /\ searching \in Sets \cup {NoSet}
  /\ searching # NoSet => Full(searching)

LeadOK == lead \in -PSEL_MAX .. PSEL_MAX

LEMMA TypeParts == TypeOK <=> CacheOK /\ BooksOK /\ LeadOK /\ HistoryOK(used, valid) /\ HistoryOK(filled, valid)
<1>1. order \in [Sets -> Orders] <=> order \in [Sets -> Seq(Ways)] /\ \A s \in Sets : Lists(order[s], Ways)
  BY DEF Orders
<1> QED
  BY <1>1 DEF TypeOK, CacheOK, BooksOK, LeadOK, HistoryOK, Bits

LEMMA TypePartsNext ==
  CacheOK' /\ BooksOK' /\ LeadOK' /\ HistoryOK(used, valid)' /\ HistoryOK(filled, valid)' => TypeOK'
BY TypeParts, PTL

LEMMA KeepType ==
  ASSUME NEW V, NEW book \in [Sets -> V], NEW policies, NEW s \in Sets, NEW entry, Is(policies) => entry \in V
  PROVE  Keep(book, policies, s, entry) \in [Sets -> V]
BY DEF Keep

LEMMA HistoryKept ==
  ASSUME NEW list, NEW held \in [Sets -> SUBSET Ways], HistoryOK(list, held),
         NEW s \in Sets, NEW V \in SUBSET Ways, NEW entry, Lists(entry, V)
  PROVE  HistoryOK([list EXCEPT ![s] = entry], [held EXCEPT ![s] = V])
<1>1. entry \in Seq(Ways)
  BY SeqMonotonic DEF Lists
<1>2. list \in [Sets -> Seq(Ways)] /\ \A t \in Sets : Lists(list[t], held[t])
  BY DEF HistoryOK
<1>3. [list EXCEPT ![s] = entry] \in [Sets -> Seq(Ways)]
  BY <1>1, <1>2
<1>4. ASSUME NEW t \in Sets PROVE Lists([list EXCEPT ![s] = entry][t], [held EXCEPT ![s] = V][t])
  <2>1. CASE t = s
    <3>1. [list EXCEPT ![s] = entry][t] = entry /\ [held EXCEPT ![s] = V][t] = V
      BY <1>2, <2>1
    <3> QED
      BY <3>1
  <2>2. CASE t # s
    <3>1. [list EXCEPT ![s] = entry][t] = list[t] /\ [held EXCEPT ![s] = V][t] = held[t]
      BY <1>2, <2>2
    <3> QED
      BY <1>2, <3>1
  <2> QED
    BY <2>1, <2>2
<1> QED
  BY <1>3, <1>4 DEF HistoryOK

LEMMA WalkType ==
  ASSUME config \in Configurations, Is({"plru"}), NEW bits \in Bits, NEW w \in Ways, NEW toward \in BOOLEAN
  PROVE  Walk(bits, w, toward) \in Bits
<1>1. Complete
  BY TreeComplete
<1>2. w \in Nat
  BY DEF Ways
<1>3. \A level \in 0 .. Depth - 1 : Branch(w, level) \in {0, 1} /\ 1 - Branch(w, level) \in {0, 1}
  BY <1>1, <1>2, PathSteps
<1> QED
  BY <1>3 DEF Walk, Bits

LEMMA OrderTypes ==
  ASSUME NEW ways \in Orders, NEW w \in Ways
  PROVE  ToBack(ways, w) \in Orders /\ ToFront(ways, w) \in Orders
<1>1. Lists(ways, Ways) /\ Ways \cup {w} = Ways
  BY DEF Orders
<1>2. Lists(ToBack(ways, w), Ways) /\ Lists(ToFront(ways, w), Ways)
  BY <1>1, ToBackLists, ToFrontLists
<1> QED
  BY <1>2 DEF Orders, Lists

LEMMA HitBooks ==
  ASSUME config \in Configurations, BooksOK, NEW s \in Sets, NEW w \in Ways, OnHit(s, w), count[s][w] < MaxCount,
         UNCHANGED config
  PROVE  BooksOK'
<1>0. Sets' = Sets /\ Ways' = Ways /\ Orders' = Orders /\ Bits' = Bits
  BY DEF Sets, Ways, Orders, Bits
<1>1. order' \in [Sets -> Orders]
  BY KeepType, OrderTypes DEF OnHit, BooksOK
<1>2. tree' \in [Sets -> Bits]
  <2>1. Is({"plru"}) => Walk(tree[s], w, FALSE) \in Bits
    BY WalkType DEF BooksOK
  <2> QED
    BY <2>1, KeepType DEF OnHit, BooksOK
<1>3. referenced' \in [Sets -> SUBSET Ways]
  BY KeepType DEF OnHit, BooksOK
<1>4. count' \in [Sets -> [Ways -> 0 .. MaxCount]]
  <2>1. [count[s] EXCEPT ![w] = @ + 1] \in [Ways -> 0 .. MaxCount]
    BY MaxCountAssumption DEF BooksOK
  <2> QED
    BY <2>1, KeepType DEF OnHit, BooksOK
<1>5. rrpv' \in [Sets -> [Ways -> RRPV_NEAR .. RRPV_DISTANT]]
  <2>1. [rrpv[s] EXCEPT ![w] = RRPV_NEAR] \in [Ways -> RRPV_NEAR .. RRPV_DISTANT]
    BY DEF BooksOK, RRPV_NEAR, RRPV_DISTANT
  <2> QED
    BY <2>1, KeepType DEF OnHit, BooksOK
<1>6. psel' \in 0 .. PSEL_MAX
  BY DEF OnHit, BooksOK
<1> QED
  BY <1>0, <1>1, <1>2, <1>3, <1>4, <1>5, <1>6 DEF BooksOK

LEMMA InvalidateBooks ==
  ASSUME config \in Configurations, BooksOK, NEW s \in Sets, NEW w \in Ways, OnInvalidate(s, w), UNCHANGED config
  PROVE  BooksOK'
<1>0. Sets' = Sets /\ Ways' = Ways /\ Orders' = Orders /\ Bits' = Bits
  BY DEF Sets, Ways, Orders, Bits
<1>1. order' \in [Sets -> Orders]
  BY KeepType, OrderTypes DEF OnInvalidate, BooksOK
<1>2. tree' \in [Sets -> Bits]
  <2>1. Is({"plru"}) => Walk(tree[s], w, TRUE) \in Bits
    BY WalkType DEF BooksOK
  <2> QED
    BY <2>1, KeepType DEF OnInvalidate, BooksOK
<1>3. referenced' \in [Sets -> SUBSET Ways]
  <2>1. referenced[s] \ {w} \in SUBSET Ways
    BY DEF BooksOK
  <2> QED
    BY <2>1, KeepType DEF OnInvalidate, BooksOK
<1>4. count' \in [Sets -> [Ways -> 0 .. MaxCount]]
  <2>1. [count[s] EXCEPT ![w] = 0] \in [Ways -> 0 .. MaxCount]
    BY MaxCountAssumption DEF BooksOK
  <2> QED
    BY <2>1, KeepType DEF OnInvalidate, BooksOK
<1>5. rrpv' \in [Sets -> [Ways -> RRPV_NEAR .. RRPV_DISTANT]]
  <2>1. [rrpv[s] EXCEPT ![w] = RRPV_DISTANT] \in [Ways -> RRPV_NEAR .. RRPV_DISTANT]
    BY DEF BooksOK, RRPV_NEAR, RRPV_DISTANT
  <2> QED
    BY <2>1, KeepType DEF OnInvalidate, BooksOK
<1>6. psel' \in 0 .. PSEL_MAX
  BY DEF OnInvalidate, BooksOK
<1> QED
  BY <1>0, <1>1, <1>2, <1>3, <1>4, <1>5, <1>6 DEF BooksOK

\* The bounds of PSEL.
LEMMA PselRange ==
  /\ PSEL_MAX \in Nat \ {0} /\ PSEL_THRESHOLD \in Nat
  /\ PSEL_THRESHOLD - 1 \in 0 .. PSEL_MAX
  /\ PSEL_MAX = 2 * PSEL_THRESHOLD - 1
<1> PICK n \in Nat : n = PSEL_BITS - 1 /\ PSEL_BITS = n + 1
  <2>1. PSEL_BITS - 1 \in Nat /\ PSEL_BITS = (PSEL_BITS - 1) + 1
    BY DuelAssumption
  <2> QED
    BY <2>1
<1> PICK p \in Nat \ {0} : p = Power[n] /\ Power[n + 1] = 2 * p
  BY PowerDoubles
<1> QED
  BY DEF PSEL_MAX, PSEL_THRESHOLD

LEMMA PselKept ==
  ASSUME psel \in 0 .. PSEL_MAX, NEW s \in Sets
  PROVE  PselAfter(s) \in 0 .. PSEL_MAX
BY PselRange DEF PselAfter

LEMMA LeadKept ==
  ASSUME LeadOK, NEW s \in Sets, lead' = LeadAfter(s)
  PROVE  LeadOK'
<1>1. LeadAfter(s) \in -PSEL_MAX .. PSEL_MAX
  BY PselRange DEF LeadOK, LeadAfter, Least, Greatest
<1> QED
  BY <1>1 DEF LeadOK, PSEL_MAX

LEMMA FillBooks ==
  ASSUME config \in Configurations, BooksOK, NEW s \in Sets, NEW w \in Ways, NEW marked \in SUBSET Ways,
         OnFill(s, w, marked), UNCHANGED config
  PROVE  BooksOK'
<1>0. Sets' = Sets /\ Ways' = Ways /\ Orders' = Orders /\ Bits' = Bits
  BY DEF Sets, Ways, Orders, Bits
<1>1. order' \in [Sets -> Orders]
  BY KeepType, OrderTypes DEF OnFill, BooksOK
<1>2. tree' \in [Sets -> Bits]
  <2>1. Is({"plru"}) => Walk(tree[s], w, FALSE) \in Bits
    BY WalkType DEF BooksOK
  <2> QED
    BY <2>1, KeepType DEF OnFill, BooksOK
<1>3. referenced' \in [Sets -> SUBSET Ways]
  BY KeepType DEF OnFill, BooksOK
<1>4. count' \in [Sets -> [Ways -> 0 .. MaxCount]]
  <2>1. [count[s] EXCEPT ![w] = 1] \in [Ways -> 0 .. MaxCount]
    BY MaxCountAssumption DEF BooksOK
  <2> QED
    BY <2>1, KeepType DEF OnFill, BooksOK
<1>5. rrpv' \in [Sets -> [Ways -> RRPV_NEAR .. RRPV_DISTANT]]
  <2> PICK value \in Insertions(s) : rrpv' = Keep(rrpv, Rrip, s, [rrpv[s] EXCEPT ![w] = value])
    BY DEF OnFill
  <2>0. value \in RRPV_NEAR .. RRPV_DISTANT
    BY DEF Insertions, Bimodal, RRPV_LONG, RRPV_NEAR, RRPV_DISTANT
  <2>1. [rrpv[s] EXCEPT ![w] = value] \in [Ways -> RRPV_NEAR .. RRPV_DISTANT]
    BY <2>0 DEF BooksOK
  <2> QED
    BY <2>1, KeepType DEF BooksOK
<1>6. psel' \in 0 .. PSEL_MAX
  BY PselKept DEF OnFill, BooksOK
<1> QED
  BY <1>0, <1>1, <1>2, <1>3, <1>4, <1>5, <1>6 DEF BooksOK

\* The victim is a way of the set.
VictimsInRange == \A s \in Sets : Victims(s) \subseteq Ways

LEMMA VictimsAreWays ==
  ASSUME TypeOK, NEW s \in Sets
  PROVE  Victims(s) \subseteq Ways
<1>0. config \in Configurations /\ BooksOK
  BY TypeParts DEF CacheOK
<1>1. config.policy \in Policies /\ 0 \in Ways
  BY <1>0, ConfigurationsAssumption, WaysCounted DEF Ways
<1>2. CASE Is({"lru", "fifo", "mru"})
  <2>1. Lists(order[s], Ways)
    BY <1>0 DEF BooksOK, Orders
  <2> PICK n \in Nat : Enumerates(order[s], n, Ways)
    BY <2>1, ListsEnumerate
  <2>2. n = Len(order[s]) /\ n # 0 /\ \A k \in 1 .. n : order[s][k] \in Ways
    BY <1>1 DEF Enumerates
  <2>3. order[s][1] \in Ways /\ order[s][n] \in Ways
    BY <2>2
  <2>4. Head(order[s]) = order[s][1]
    OBVIOUS
  <2>5. RecencyVictims(s) \subseteq Ways
    BY <2>2, <2>3, <2>4 DEF RecencyVictims
  <2> QED
    BY <1>2, <2>5 DEF Victims, Is, Rrip
<1>3. CASE Is({"random"})
  BY <1>3 DEF Victims, Is, Rrip
<1>4. CASE Is({"plru"})
  <2>1. TreeVictim(tree[s]) \in Ways
    BY <1>0, <1>4, TreeComplete, VictimFound DEF BooksOK, Bits
  <2> QED
    BY <1>4, <2>1 DEF Victims, Is, Rrip
<1>5. CASE Is({"nru"})
  BY <1>1, <1>5 DEF Victims, Is, Rrip, NruVictims, Lowest
<1>6. CASE Is({"lfu"})
  BY <1>6 DEF Victims, Is, Rrip, LfuVictims, Lowest
<1>7. CASE Is(Rrip)
  BY <1>7 DEF Victims, Is, Rrip, RripVictims, Lowest
<1> QED
  BY <1>1, <1>2, <1>3, <1>4, <1>5, <1>6, <1>7 DEF Policies, Rrip, Is

LEMMA TypeInit == Init => TypeOK
<1> SUFFICES ASSUME Init PROVE TypeOK
  OBVIOUS
<1>0. config \in Configurations /\ config.ways \in Nat \ {0} /\ config.sets \in Nat \ {0}
  BY WaysCounted DEF Init
<1>1. CacheOK
  BY DEF Init, CacheOK
<1>2. BooksOK
  <2>1. order \in [Sets -> Orders]
    <3> PICK first : first = [n \in 1 .. config.ways |-> n - 1]
      OBVIOUS
    <3>1. first \in Seq(Ways) /\ Len(first) = config.ways
      BY <1>0 DEF Ways
    <3>2. Enumerates(first, config.ways, Ways)
      <4>1. \A k \in 1 .. config.ways : first[k] = k - 1 /\ first[k] \in Ways
        BY <1>0 DEF Ways
      <4>2. \A w \in Ways : w + 1 \in 1 .. config.ways /\ first[w + 1] = w
        BY <1>0 DEF Ways
      <4>3. \A j, k \in 1 .. config.ways : first[j] = first[k] => j = k
        BY <4>1
      <4> QED
        BY <3>1, <4>1, <4>2, <4>3 DEF Enumerates
    <3>3. first \in Orders
      BY <1>0, <3>1, <3>2, EnumeratesLists DEF Orders
    <3> QED
      BY <3>3 DEF Init
  <2>2. tree \in [Sets -> Bits]
    BY DEF Init, Bits
  <2>3. count \in [Sets -> [Ways -> 0 .. MaxCount]]
    BY MaxCountAssumption DEF Init
  <2>4. rrpv \in [Sets -> [Ways -> RRPV_NEAR .. RRPV_DISTANT]]
    BY DEF Init, RRPV_NEAR, RRPV_DISTANT
  <2>5. referenced \in [Sets -> SUBSET Ways] /\ psel \in 0 .. PSEL_MAX
    BY PselRange DEF Init
  <2> QED
    BY <2>1, <2>2, <2>3, <2>4, <2>5 DEF BooksOK
<1>3. HistoryOK(used, valid) /\ HistoryOK(filled, valid)
  <2>1. <<>> \in Seq(Ways) /\ Lists(<<>>, {})
    BY DEF Lists
  <2> QED
    BY <2>1 DEF Init, HistoryOK
<1>4. LeadOK
  BY PselRange DEF Init, LeadOK
<1> QED
  BY <1>1, <1>2, <1>3, <1>4, TypeParts

LEMMA TypeHit ==
  ASSUME TypeOK, NEW s \in Sets, NEW w \in Ways, Hit(s, w)
  PROVE  TypeOK'
<1>0. CacheOK /\ BooksOK /\ LeadOK /\ HistoryOK(used, valid) /\ HistoryOK(filled, valid)
  BY TypeParts
<1>1. config \in Configurations /\ config' = config /\ valid' = valid /\ Sets' = Sets /\ Ways' = Ways
  BY <1>0 DEF CacheOK, Hit, Sets, Ways
<1>2. BooksOK'
  BY <1>0, <1>1, HitBooks DEF Hit
<1>3. CacheOK'
  BY <1>0, <1>1 DEF CacheOK, Hit, Full
<1>4. HistoryOK([used EXCEPT ![s] = ToBack(used[s], w)], [valid EXCEPT ![s] = valid[s]])
  <2>1. Lists(used[s], valid[s]) /\ valid[s] \cup {w} = valid[s] /\ valid \in [Sets -> SUBSET Ways]
    BY <1>0 DEF HistoryOK, Hit, CacheOK
  <2>2. Lists(ToBack(used[s], w), valid[s])
    BY <2>1, ToBackLists
  <2> QED
    BY <1>0, <2>1, <2>2, HistoryKept
<1>5. HistoryOK(used, valid)' /\ HistoryOK(filled, valid)'
  <2>1. [valid EXCEPT ![s] = valid[s]] = valid
    BY <1>0 DEF CacheOK
  <2> QED
    BY <1>0, <1>1, <1>4, <2>1 DEF HistoryOK, Hit
<1>6. LeadOK'
  BY <1>0 DEF LeadOK, Hit, PSEL_MAX
<1> QED
  BY <1>2, <1>3, <1>5, <1>6, TypePartsNext

LEMMA TypeInvalidate ==
  ASSUME TypeOK, NEW s \in Sets, NEW w \in Ways, Invalidate(s, w)
  PROVE  TypeOK'
<1>0. CacheOK /\ BooksOK /\ LeadOK /\ HistoryOK(used, valid) /\ HistoryOK(filled, valid)
  BY TypeParts
<1>1. /\ config \in Configurations /\ config' = config /\ Sets' = Sets /\ Ways' = Ways
      /\ valid \in [Sets -> SUBSET Ways] /\ valid' = [valid EXCEPT ![s] = valid[s] \ {w}]
  BY <1>0 DEF CacheOK, Invalidate, Sets, Ways
<1>2. BooksOK'
  BY <1>0, <1>1, InvalidateBooks DEF Invalidate
<1>3. CacheOK'
  BY <1>0, <1>1 DEF CacheOK, Invalidate, Full
<1>4. valid[s] \ {w} \in SUBSET Ways
  BY <1>1
<1>5. HistoryOK([used EXCEPT ![s] = Without(used[s], w)], [valid EXCEPT ![s] = valid[s] \ {w}])
  <2>1. Lists(Without(used[s], w), valid[s] \ {w})
    BY <1>0, WithoutLists DEF HistoryOK
  <2> QED
    BY <1>0, <1>1, <1>4, <2>1, HistoryKept
<1>6. HistoryOK([filled EXCEPT ![s] = Without(filled[s], w)], [valid EXCEPT ![s] = valid[s] \ {w}])
  <2>1. Lists(Without(filled[s], w), valid[s] \ {w})
    BY <1>0, WithoutLists DEF HistoryOK
  <2> QED
    BY <1>0, <1>1, <1>4, <2>1, HistoryKept
<1>7. HistoryOK(used, valid)' /\ HistoryOK(filled, valid)'
  BY <1>1, <1>5, <1>6 DEF HistoryOK, Invalidate
<1>8. LeadOK'
  BY <1>0 DEF LeadOK, Invalidate, PSEL_MAX
<1> QED
  BY <1>2, <1>3, <1>7, <1>8, TypePartsNext

\* The histories after a fill.
LEMMA InstalledHistory ==
  ASSUME NEW held \in [Sets -> SUBSET Ways], HistoryOK(used, held), HistoryOK(filled, held),
         NEW s \in Sets, NEW w \in Ways, Installed(s, w), Sets' = Sets, Ways' = Ways,
         valid' = [held EXCEPT ![s] = held[s] \cup {w}]
  PROVE  HistoryOK(used, valid)' /\ HistoryOK(filled, valid)'
<1>1. held[s] \cup {w} \in SUBSET Ways
  OBVIOUS
<1>2. Lists(ToBack(used[s], w), held[s] \cup {w}) /\ Lists(ToBack(filled[s], w), held[s] \cup {w})
  BY ToBackLists DEF HistoryOK
<1>3. HistoryOK([used EXCEPT ![s] = ToBack(used[s], w)], [held EXCEPT ![s] = held[s] \cup {w}])
  BY <1>1, <1>2, HistoryKept
<1>4. HistoryOK([filled EXCEPT ![s] = ToBack(filled[s], w)], [held EXCEPT ![s] = held[s] \cup {w}])
  BY <1>1, <1>2, HistoryKept
<1> QED
  BY <1>3, <1>4 DEF HistoryOK, Installed

LEMMA TypeFillEmpty ==
  ASSUME TypeOK, NEW s \in Sets, FillEmpty(s)
  PROVE  TypeOK'
<1>0. CacheOK /\ BooksOK /\ LeadOK /\ HistoryOK(used, valid) /\ HistoryOK(filled, valid)
  BY TypeParts
<1> PICK w \in Lowest(Ways \ valid[s]) :
      valid' = [valid EXCEPT ![s] = @ \cup {w}] /\ OnFill(s, w, referenced[s]) /\ Installed(s, w)
  BY DEF FillEmpty
<1>1. /\ config \in Configurations /\ config' = config /\ Sets' = Sets /\ Ways' = Ways
      /\ valid \in [Sets -> SUBSET Ways] /\ valid' = [valid EXCEPT ![s] = valid[s] \cup {w}] /\ w \in Ways
  BY <1>0 DEF CacheOK, FillEmpty, Sets, Ways, Lowest
<1>2. BooksOK'
  BY <1>0, <1>1, FillBooks DEF BooksOK
<1>3. CacheOK'
  BY <1>0, <1>1 DEF CacheOK, FillEmpty, Full
<1>4. HistoryOK(used, valid)' /\ HistoryOK(filled, valid)'
  BY <1>0, <1>1, InstalledHistory
<1>5. LeadOK'
  BY <1>0, LeadKept DEF Installed
<1> QED
  BY <1>2, <1>3, <1>4, <1>5, TypePartsNext

LEMMA TypeReplace ==
  ASSUME TypeOK, Replace
  PROVE  TypeOK'
<1>0. CacheOK /\ BooksOK /\ LeadOK /\ HistoryOK(used, valid) /\ HistoryOK(filled, valid)
  BY TypeParts
<1> PICK s \in Sets : s = searching /\ Full(s)
  BY <1>0 DEF CacheOK, Replace
<1> PICK w \in Victims(s) : OnFill(s, w, Forgotten(s)) /\ Installed(s, w)
  BY DEF Replace
<1>1. /\ config \in Configurations /\ config' = config /\ Sets' = Sets /\ Ways' = Ways
      /\ valid \in [Sets -> SUBSET Ways] /\ valid' = valid /\ w \in Ways
  BY <1>0, VictimsAreWays DEF CacheOK, Replace, Sets, Ways
<1>2. valid' = [valid EXCEPT ![s] = valid[s] \cup {w}]
  BY <1>1 DEF Full
<1>3. BooksOK'
  <2>1. Forgotten(s) \in SUBSET Ways
    BY <1>0 DEF Forgotten, BooksOK
  <2> QED
    BY <1>0, <1>1, <2>1, FillBooks
<1>4. CacheOK'
  BY <1>0, <1>1 DEF CacheOK, Replace, Full
<1>5. HistoryOK(used, valid)' /\ HistoryOK(filled, valid)'
  BY <1>0, <1>1, <1>2, InstalledHistory
<1>6. LeadOK'
  BY <1>0, LeadKept DEF Installed
<1> QED
  BY <1>3, <1>4, <1>5, <1>6, TypePartsNext

LEMMA TypeAge ==
  ASSUME TypeOK, Age
  PROVE  TypeOK'
<1>0. CacheOK /\ BooksOK /\ LeadOK /\ HistoryOK(used, valid) /\ HistoryOK(filled, valid)
  BY TypeParts
<1>1. config' = config /\ valid' = valid /\ Sets' = Sets /\ Ways' = Ways /\ Orders' = Orders /\ Bits' = Bits
  BY DEF Age, Sets, Ways, Orders, Bits
<1> PICK s \in Sets : s = searching
  BY <1>0 DEF CacheOK, Age
<1>2. rrpv' \in [Sets -> [Ways -> RRPV_NEAR .. RRPV_DISTANT]]
  <2>1. rrpv[s] \in [Ways -> 0 .. 3] /\ \A w \in Ways : rrpv[s][w] # 3
    BY <1>0 DEF BooksOK, Age, RRPV_NEAR, RRPV_DISTANT
  <2>2. [w \in Ways |-> rrpv[s][w] + 1] \in [Ways -> 0 .. 3]
    BY <2>1
  <2> QED
    BY <1>0, <2>2 DEF BooksOK, Age, RRPV_NEAR, RRPV_DISTANT
<1>3. BooksOK'
  BY <1>0, <1>1, <1>2 DEF BooksOK, Age
<1>4. CacheOK' /\ HistoryOK(used, valid)' /\ HistoryOK(filled, valid)'
  BY <1>0, <1>1 DEF CacheOK, HistoryOK, Age, Full
<1>5. LeadOK'
  BY <1>0 DEF LeadOK, Age, PSEL_MAX
<1> QED
  BY <1>3, <1>4, <1>5, TypePartsNext

LEMMA TypeSearch ==
  ASSUME TypeOK, NEW s \in Sets, Search(s)
  PROVE  TypeOK'
<1>0. CacheOK /\ BooksOK /\ LeadOK /\ HistoryOK(used, valid) /\ HistoryOK(filled, valid)
  BY TypeParts
<1>1. config' = config /\ valid' = valid /\ Sets' = Sets /\ Ways' = Ways /\ Orders' = Orders /\ Bits' = Bits
  BY DEF Search, Sets, Ways, Orders, Bits
<1>2. BooksOK' /\ HistoryOK(used, valid)' /\ HistoryOK(filled, valid)'
  BY <1>0, <1>1 DEF BooksOK, HistoryOK, Search, books
<1>3. CacheOK' /\ LeadOK'
  BY <1>0, <1>1 DEF CacheOK, LeadOK, Search, Full, PSEL_MAX
<1> QED
  BY <1>2, <1>3, TypePartsNext

LEMMA TypeStep == TypeOK /\ [Next]_vars => TypeOK'
<1> SUFFICES ASSUME TypeOK, [Next]_vars PROVE TypeOK'
  OBVIOUS
<1>1. ASSUME NEW s \in Sets, NEW w \in Ways, Hit(s, w) \/ Invalidate(s, w) PROVE TypeOK'
  BY <1>1, TypeHit, TypeInvalidate
<1>2. ASSUME NEW s \in Sets, FillEmpty(s) \/ Search(s) PROVE TypeOK'
  BY <1>2, TypeFillEmpty, TypeSearch
<1>3. CASE Age \/ Replace
  BY <1>3, TypeAge, TypeReplace
<1>4. CASE UNCHANGED vars
  <2>1. Sets' = Sets /\ Ways' = Ways
    BY <1>4 DEF vars, Sets, Ways
  <2> QED
    BY <1>4, <2>1 DEF TypeOK, vars, Full
<1> QED
  BY <1>1, <1>2, <1>3, <1>4 DEF Next

\* Whatever policy runs and however lines come and go, its books have an entry for
\* every way: the order of LRU, FIFO and MRU names each way once, a prediction of
\* RRIP stays in its two bits although whole sets age, and PSEL in its range.  What
\* victim() returns is then a way of the set: the tree of pseudo-LRU always leads to
\* one, and so does the front or the back of the order.
THEOREM TypeCorrect == Spec => [](TypeOK /\ VictimsInRange)
<1>1. TypeOK => VictimsInRange
  BY VictimsAreWays DEF VictimsInRange
<1> QED
  BY <1>1, TypeInit, TypeStep, PTL DEF Spec

\* A side of the duel that has missed n times in a row has moved PSEL n from the end
\* it moves away from, or as far as PSEL goes.
DuelCounted == lead <= psel /\ psel <= PSEL_MAX + lead

LEMMA DuelStep ==
  ASSUME TypeOK, DuelCounted, [Next]_vars
  PROVE  DuelCounted'
<1>0. psel \in 0 .. PSEL_MAX /\ lead \in -PSEL_MAX .. PSEL_MAX /\ PSEL_MAX \in Nat \ {0} /\ PSEL_MAX' = PSEL_MAX
  BY PselRange DEF TypeOK, PSEL_MAX
<1>1. ASSUME NEW s \in Sets, psel' = PselAfter(s), lead' = LeadAfter(s) PROVE DuelCounted'
  <2>1. LeadAfter(s) <= PselAfter(s) /\ PselAfter(s) <= PSEL_MAX + LeadAfter(s)
    BY <1>0 DEF DuelCounted, PselAfter, LeadAfter, Least, Greatest
  <2> QED
    BY <1>0, <1>1, <2>1 DEF DuelCounted
<1>2. ASSUME UNCHANGED <<psel, lead>> PROVE DuelCounted'
  BY <1>0, <1>2 DEF DuelCounted
<1>3. ASSUME NEW s \in Sets, NEW w \in Ways, Hit(s, w) \/ Invalidate(s, w) PROVE UNCHANGED <<psel, lead>>
  BY <1>3 DEF Hit, Invalidate, OnHit, OnInvalidate
<1>4. ASSUME NEW s \in Sets, FillEmpty(s) PROVE psel' = PselAfter(s) /\ lead' = LeadAfter(s)
  BY <1>4 DEF FillEmpty, OnFill, Installed
<1>5. ASSUME NEW s \in Sets, Search(s) PROVE UNCHANGED <<psel, lead>>
  BY <1>5 DEF Search, books
<1>6. Age => UNCHANGED <<psel, lead>>
  BY DEF Age
<1>7. Replace => \E s \in Sets : psel' = PselAfter(s) /\ lead' = LeadAfter(s)
  BY DEF Replace, OnFill, Installed, TypeOK
<1>8. UNCHANGED vars => UNCHANGED <<psel, lead>>
  BY DEF vars
<1> QED
  BY <1>1, <1>2, <1>3, <1>4, <1>5, <1>6, <1>7, <1>8 DEF Next

\* PSEL saturates: it stays in its range, and half that range of misses in a row of
\* one side's leader sets are enough to turn the followers to the other side, for any
\* width of PSEL, any layout of leader sets and any phase before.
THEOREM DuelSaturates == Spec => []PselSaturates
<1>1. Init => DuelCounted
  BY PselRange DEF Init, DuelCounted
<1>2. TypeOK /\ DuelCounted /\ [Next]_vars => DuelCounted'
  BY DuelStep
<1>3. TypeOK /\ DuelCounted => PselSaturates
  <2> SUFFICES ASSUME TypeOK, DuelCounted, Is({"drrip"}) PROVE PselSaturates
    BY DEF PselSaturates
  <2>1. /\ psel \in 0 .. PSEL_MAX /\ lead \in -PSEL_MAX .. PSEL_MAX /\ PSEL_THRESHOLD \in Nat
        /\ PSEL_MAX = 2 * PSEL_THRESHOLD - 1
    BY PselRange DEF TypeOK
  <2>2. ASSUME NEW s \in Followers
        PROVE  Insertions(s) = IF psel < PSEL_THRESHOLD THEN {RRPV_LONG} ELSE Bimodal
    BY <2>2 DEF Insertions, Followers, Is
  <2>3. lead >= PSEL_THRESHOLD => ~(psel < PSEL_THRESHOLD)
    BY <2>1 DEF DuelCounted
  <2>4. lead <= -PSEL_THRESHOLD => psel < PSEL_THRESHOLD
    BY <2>1 DEF DuelCounted
  <2> QED
    BY <2>1, <2>2, <2>3, <2>4 DEF PselSaturates
<1> QED
  BY <1>1, <1>2, <1>3, TypeCorrect, PTL DEF Spec

-----------------------------------------------------------------------------
(* Recency.                                                                *)

\* The valid ways are the end of the order, however empty ways come before them.
RecentLast ==
  \A s \in Sets : /\ Is({"lru", "mru"}) => Suffix(used[s], order[s])
                  /\ Is({"fifo"}) => Suffix(filled[s], order[s])

LEMMA RecentInit == Init => RecentLast
<1> SUFFICES ASSUME Init, NEW s \in Sets PROVE Suffix(used[s], order[s]) /\ Suffix(filled[s], order[s])
  BY DEF RecentLast
<1>0. config.ways \in Nat \ {0}
  BY WaysCounted DEF Init
<1>1. used[s] = <<>> /\ filled[s] = <<>> /\ order[s] = [n \in 1 .. config.ways |-> n - 1]
  BY DEF Init
<1>2. Len(order[s]) = config.ways /\ Len(used[s]) = 0 /\ Len(filled[s]) = 0
  BY <1>0, <1>1
<1>3. 0 <= config.ways /\ 1 .. 0 = {}
  BY <1>0
<1> QED
  BY <1>2, <1>3 DEF Suffix

\* The sequences of one set, and that the ways held are all in the order.
LEMMA ListsOfSet ==
  ASSUME TypeOK, NEW s \in Sets
  PROVE  /\ Lists(order[s], Ways) /\ Lists(used[s], valid[s]) /\ Lists(filled[s], valid[s])
         /\ valid[s] \subseteq Ways
         /\ s \in DOMAIN order /\ s \in DOMAIN used /\ s \in DOMAIN filled /\ s \in DOMAIN valid
BY DEF TypeOK

\* Way w was taken into use.
LEMMA RecentFilled ==
  ASSUME TypeOK, RecentLast, NEW s \in Sets, NEW w \in Ways, Installed(s, w),
         order' = Keep(order, {"lru", "fifo", "mru"}, s, ToBack(order[s], w)), config' = config
  PROVE  RecentLast'
<1>0. Sets' = Sets /\ Ways' = Ways
  BY DEF Sets, Ways
<1> SUFFICES ASSUME NEW t \in Sets
             PROVE  /\ Is({"lru", "mru"}) => Suffix(used'[t], order'[t])
                    /\ Is({"fifo"}) => Suffix(filled'[t], order'[t])
  BY <1>0 DEF RecentLast, Is
<1>1. CASE t = s
  <2>1. Is({"lru", "fifo", "mru"}) => order'[t] = ToBack(order[s], w)
    BY <1>1, ListsOfSet DEF Keep
  <2>2. used'[t] = ToBack(used[s], w) /\ filled'[t] = ToBack(filled[s], w)
    BY <1>1, ListsOfSet DEF Installed
  <2>3. Suffix(used[s], order[s]) => Suffix(ToBack(used[s], w), ToBack(order[s], w))
    BY ListsOfSet, SuffixToBack
  <2>4. Suffix(filled[s], order[s]) => Suffix(ToBack(filled[s], w), ToBack(order[s], w))
    BY ListsOfSet, SuffixToBack
  <2> QED
    BY <2>1, <2>2, <2>3, <2>4 DEF RecentLast, Is
<1>2. CASE t # s
  <2>1. order'[t] = order[t] /\ used'[t] = used[t] /\ filled'[t] = filled[t]
    BY <1>2, ListsOfSet DEF Keep, Installed
  <2> QED
    BY <2>1 DEF RecentLast
<1> QED
  BY <1>1, <1>2

LEMMA RecentHit ==
  ASSUME TypeOK, RecentLast, NEW s \in Sets, NEW w \in Ways, Hit(s, w)
  PROVE  RecentLast'
<1>0. Sets' = Sets /\ config' = config /\ filled' = filled
  BY DEF Sets, Hit
<1> SUFFICES ASSUME NEW t \in Sets
             PROVE  /\ Is({"lru", "mru"}) => Suffix(used'[t], order'[t])
                    /\ Is({"fifo"}) => Suffix(filled'[t], order'[t])
  BY <1>0 DEF RecentLast, Is
<1>1. order' = Keep(order, RefreshedByHits, s, ToBack(order[s], w)) /\ used' = [used EXCEPT ![s] = ToBack(@, w)]
  BY DEF Hit, OnHit
<1>2. Is({"fifo"}) => order' = order
  BY <1>1 DEF Keep, Is, RefreshedByHits
<1>3. CASE t = s
  <2>1. Is({"lru", "mru"}) => order'[t] = ToBack(order[s], w)
    BY <1>1, <1>3, ListsOfSet DEF Keep, RefreshedByHits
  <2>2. used'[t] = ToBack(used[s], w)
    BY <1>1, <1>3, ListsOfSet
  <2>3. Suffix(used[s], order[s]) => Suffix(ToBack(used[s], w), ToBack(order[s], w))
    BY ListsOfSet, SuffixToBack
  <2> QED
    BY <1>0, <1>2, <1>3, <2>1, <2>2, <2>3 DEF RecentLast
<1>4. CASE t # s
  <2>1. order'[t] = order[t] /\ used'[t] = used[t]
    BY <1>1, <1>4, ListsOfSet DEF Keep
  <2> QED
    BY <1>0, <2>1 DEF RecentLast
<1> QED
  BY <1>3, <1>4

LEMMA RecentInvalidate ==
  ASSUME TypeOK, RecentLast, NEW s \in Sets, NEW w \in Ways, Invalidate(s, w)
  PROVE  RecentLast'
<1>0. Sets' = Sets /\ config' = config
  BY DEF Sets, Invalidate
<1> SUFFICES ASSUME NEW t \in Sets
             PROVE  /\ Is({"lru", "mru"}) => Suffix(used'[t], order'[t])
                    /\ Is({"fifo"}) => Suffix(filled'[t], order'[t])
  BY <1>0 DEF RecentLast, Is
<1>1. /\ order' = Keep(order, {"lru", "fifo", "mru"}, s, ToFront(order[s], w))
      /\ used' = [used EXCEPT ![s] = Without(@, w)] /\ filled' = [filled EXCEPT ![s] = Without(@, w)]
  BY DEF Invalidate, OnInvalidate
<1>2. CASE t = s
  <2>1. Is({"lru", "fifo", "mru"}) => order'[t] = ToFront(order[s], w)
    BY <1>1, <1>2, ListsOfSet DEF Keep
  <2>2. used'[t] = Without(used[s], w) /\ filled'[t] = Without(filled[s], w)
    BY <1>1, <1>2, ListsOfSet
  <2>3. Suffix(used[s], order[s]) => Suffix(Without(used[s], w), ToFront(order[s], w))
    BY ListsOfSet, SuffixToFront
  <2>4. Suffix(filled[s], order[s]) => Suffix(Without(filled[s], w), ToFront(order[s], w))
    BY ListsOfSet, SuffixToFront
  <2> QED
    BY <2>1, <2>2, <2>3, <2>4 DEF RecentLast, Is
<1>3. CASE t # s
  <2>1. order'[t] = order[t] /\ used'[t] = used[t] /\ filled'[t] = filled[t]
    BY <1>1, <1>3, ListsOfSet DEF Keep
  <2> QED
    BY <2>1 DEF RecentLast
<1> QED
  BY <1>2, <1>3

LEMMA RecentStep == TypeOK /\ RecentLast /\ [Next]_vars => RecentLast'
<1> SUFFICES ASSUME TypeOK, RecentLast, [Next]_vars PROVE RecentLast'
  OBVIOUS
<1>1. ASSUME NEW s \in Sets, NEW w \in Ways, Hit(s, w) \/ Invalidate(s, w) PROVE RecentLast'
  BY <1>1, RecentHit, RecentInvalidate
<1>2. ASSUME NEW s \in Sets, FillEmpty(s) PROVE RecentLast'
  <2> PICK w \in Lowest(Ways \ valid[s]) : OnFill(s, w, referenced[s]) /\ Installed(s, w)
    BY <1>2 DEF FillEmpty
  <2>1. w \in Ways /\ config' = config
    BY <1>2 DEF Lowest, FillEmpty
  <2> QED
    BY <2>1, RecentFilled DEF OnFill
<1>3. CASE Replace
  <2> PICK s \in Sets : s = searching
    BY <1>3 DEF TypeOK, Replace
  <2> PICK w \in Victims(s) : OnFill(s, w, Forgotten(s)) /\ Installed(s, w)
    BY <1>3 DEF Replace
  <2>1. w \in Ways /\ config' = config
    BY <1>3, VictimsAreWays DEF Replace
  <2> QED
    BY <2>1, RecentFilled DEF OnFill
<1>4. ASSUME UNCHANGED <<config, order, used, filled>> PROVE RecentLast'
  <2>1. Sets' = Sets
    BY <1>4 DEF Sets
  <2> QED
    BY <1>4, <2>1 DEF RecentLast, Is
<1>5. CASE Age
  BY <1>4, <1>5 DEF Age
<1>6. ASSUME NEW s \in Sets, Search(s) PROVE RecentLast'
  BY <1>4, <1>6 DEF Search, books
<1>7. CASE UNCHANGED vars
  BY <1>4, <1>7 DEF vars
<1> QED
  BY <1>1, <1>2, <1>3, <1>5, <1>6, <1>7 DEF Next

\* In a full set the end of the order is all of it.
LEMMA SuffixOfSame ==
  ASSUME NEW S, NEW some, NEW all, Lists(some, S), Lists(all, S), Suffix(some, all)
  PROVE  Len(some) = Len(all) /\ \A n \in 1 .. Len(all) : some[n] = all[n]
<1>1. Len(some) = Len(all)
  BY ListLength
<1> PICK n \in Nat : Enumerates(all, n, S)
  BY ListsEnumerate
<1>0. n = Len(all) /\ n = Len(some)
  BY <1>1 DEF Enumerates
<1>2. \A k \in 1 .. n : some[k] = all[n - n + k] /\ n - n + k = k
  BY <1>0 DEF Suffix
<1> QED
  BY <1>0, <1>2

LEMMA RecentVictim == TypeOK /\ RecentLast => RecencyVictim
<1> SUFFICES ASSUME TypeOK, RecentLast, NEW s \in Sets, Full(s)
             PROVE  /\ Is({"lru"}) => Victims(s) = {Head(used[s])}
                    /\ Is({"fifo"}) => Victims(s) = {Head(filled[s])}
                    /\ Is({"mru"}) => Victims(s) = {used[s][config.ways]}
  BY DEF RecencyVictim
<1>1. /\ Lists(order[s], Ways) /\ Lists(used[s], Ways) /\ Lists(filled[s], Ways)
      /\ config \in Configurations
  BY ListsOfSet DEF Full, TypeOK
<1>2. Len(order[s]) = config.ways /\ config.ways \in Nat \ {0} /\ 1 \in 1 .. config.ways
  BY <1>1, ListLength, WaysCounted
<1>3. /\ Is({"lru", "mru"}) => \A n \in 1 .. config.ways : used[s][n] = order[s][n]
      /\ Is({"fifo"}) => \A n \in 1 .. config.ways : filled[s][n] = order[s][n]
  BY <1>1, <1>2, SuffixOfSame DEF RecentLast
<1>4. Head(order[s]) = order[s][1] /\ Head(used[s]) = used[s][1] /\ Head(filled[s]) = filled[s][1]
  OBVIOUS
<1>8. /\ Is({"lru"}) \/ Is({"fifo"}) => Victims(s) = {Head(order[s])}
      /\ Is({"mru"}) => Victims(s) = {order[s][config.ways]}
  <2>1. Is({"lru", "fifo", "mru"}) => Victims(s) = RecencyVictims(s)
    BY DEF Victims, Is, Rrip
  <2> QED
    BY <1>2, <2>1 DEF RecencyVictims, Is
<1>5. CASE Is({"lru"})
  <2>1. used[s][1] = order[s][1]
    BY <1>2, <1>3, <1>5 DEF Is
  <2> QED
    BY <1>4, <1>5, <1>8, <2>1 DEF Is
<1>6. CASE Is({"fifo"})
  <2>1. filled[s][1] = order[s][1]
    BY <1>2, <1>3, <1>6
  <2> QED
    BY <1>4, <1>6, <1>8, <2>1 DEF Is
<1>7. CASE Is({"mru"})
  <2>1. used[s][config.ways] = order[s][config.ways]
    BY <1>2, <1>3, <1>7 DEF Is
  <2> QED
    BY <1>7, <1>8, <2>1 DEF Is
<1> QED
  BY <1>5, <1>6, <1>7 DEF Is

\* Whatever ways of a full set were hit, emptied and filled again in between, LRU
\* names the way referenced longest ago, FIFO the one filled longest ago and MRU the
\* one referenced last.
THEOREM RecencyIsKept == Spec => []RecencyVictim
<1>1. Init => TypeOK /\ RecentLast
  BY TypeInit, RecentInit
<1>2. TypeOK /\ RecentLast /\ [Next]_vars => TypeOK' /\ RecentLast'
  BY TypeStep, RecentStep
<1> QED
  BY <1>1, <1>2, RecentVictim, PTL DEF Spec

-----------------------------------------------------------------------------
(* The tree points away from recent ways.                                  *)

\* Ways v and w of a tree of depth d are in the same subtree of a level.
Together(v, w, level, d) == ShiftRight(v, d - level) = ShiftRight(w, d - level)

\* At a level, the bits point towards way w.
PointsTo(bits, w, level, d) ==
  bits[Power[level] - 1 + ShiftRight(w, d - level)] = ShiftRight(w, d - 1 - level) % 2

\* The n-th way referenced is the last one of its subtree.
Latest(recent, n, level, d) ==
  \A m \in 1 .. Len(recent) : Together(recent[m], recent[n], level, d) => m <= n

\* At no level the bits point towards the way of a subtree referenced last, unless
\* they point towards a way of it that is empty.
Balanced(bits, recent, held, ways, d) ==
  \A level \in 0 .. d - 1 : \A n \in 1 .. Len(recent) :
    Latest(recent, n, level, d) /\ PointsTo(bits, recent[n], level, d) =>
      \E x \in ways \ held : Together(x, recent[n], level, d) /\ PointsTo(bits, x, level, d)

TreeBalanced == Is({"plru"}) => \A s \in Sets : Balanced(tree[s], used[s], valid[s], Ways, Depth)

LEMMA PointsToNode ==
  ASSUME Complete, NEW bits, NEW w \in Ways, NEW level \in 0 .. Depth - 1
  PROVE  PointsTo(bits, w, level, Depth) <=> bits[Node(w, level)] = Branch(w, level)
<1>1. Node(w, level) = Power[level] - 1 + ShiftRight(w, Depth - level)
  <2>1. level \in 0 .. Depth
    BY DEF Complete
  <2> QED
    BY <2>1, NodeOfPath DEF Path
<1> QED
  BY <1>1 DEF PointsTo, Branch

LEMMA TogetherPath ==
  ASSUME NEW v, NEW w, NEW level
  PROVE  Together(v, w, level, Depth) <=> Path(v, level) = Path(w, level)
BY DEF Together, Path

LEMMA SameNode ==
  ASSUME Complete, NEW v \in Ways, NEW w \in Ways, NEW level \in 0 .. Depth - 1
  PROVE  Together(v, w, level, Depth) <=> Node(v, level) = Node(w, level)
<1>1. level \in 0 .. Depth
  BY DEF Complete
<1>2. Path(v, level) = Path(w, level) => Node(v, level) = Node(w, level)
  BY <1>1, NodeOfPath
<1> QED
  BY <1>2, NodesApart, TogetherPath

\* A walk sets the bits on the path to way w and leaves the others.
LEMMA WalkSets ==
  ASSUME Complete, NEW bits \in Bits, NEW w \in Ways, NEW level \in 0 .. Depth - 1
  PROVE  /\ Walk(bits, w, FALSE)[Node(w, level)] = 1 - Branch(w, level)
         /\ Walk(bits, w, TRUE)[Node(w, level)] = Branch(w, level)
<1>1. Node(w, level) \in DOMAIN bits
  BY NodeInTree DEF Bits
<1> PICK k : k = (CHOOSE l \in 0 .. Depth - 1 : Node(w, l) = Node(w, level))
  OBVIOUS
<1>2. k \in 0 .. Depth - 1 /\ Node(w, k) = Node(w, level)
  OBVIOUS
<1>3. k = level
  BY <1>2, NodesApart
<1>4. Walk(bits, w, FALSE)[Node(w, level)] = 1 - Branch(w, k) /\ Walk(bits, w, TRUE)[Node(w, level)] = Branch(w, k)
  BY <1>1 DEF Walk
<1> QED
  BY <1>3, <1>4

LEMMA WalkLeaves ==
  ASSUME Complete, NEW bits \in Bits, NEW v \in Ways, NEW w \in Ways, NEW level \in 0 .. Depth - 1,
         ~Together(v, w, level, Depth), NEW toward
  PROVE  Walk(bits, w, toward)[Node(v, level)] = bits[Node(v, level)]
<1>1. Node(v, level) \in DOMAIN bits
  BY NodeInTree DEF Bits
<1>2. \A l \in 0 .. Depth - 1 : Node(w, l) # Node(v, level)
  BY NodesApart, TogetherPath
<1> QED
  BY <1>1, <1>2 DEF Walk

LEMMA WalkPoints ==
  ASSUME Complete, NEW bits \in Bits, NEW v \in Ways, NEW w \in Ways, NEW level \in 0 .. Depth - 1
  PROVE  /\ ~PointsTo(Walk(bits, w, FALSE), w, level, Depth)
         /\ PointsTo(Walk(bits, w, TRUE), w, level, Depth)
         /\ ~Together(v, w, level, Depth) =>
              /\ PointsTo(Walk(bits, w, FALSE), v, level, Depth) <=> PointsTo(bits, v, level, Depth)
              /\ PointsTo(Walk(bits, w, TRUE), v, level, Depth) <=> PointsTo(bits, v, level, Depth)
<1>1. Branch(w, level) # 1 - Branch(w, level)
  <2>1. Branch(w, level) \in {0, 1}
    BY PathSteps DEF Ways
  <2> QED
    BY <2>1
<1>2. ~PointsTo(Walk(bits, w, FALSE), w, level, Depth)
  BY <1>1, WalkSets, PointsToNode
<1>3. PointsTo(Walk(bits, w, TRUE), w, level, Depth)
  BY WalkSets, PointsToNode
<1>4. ASSUME ~Together(v, w, level, Depth), NEW toward
      PROVE  PointsTo(Walk(bits, w, toward), v, level, Depth) <=> PointsTo(bits, v, level, Depth)
  BY <1>4, WalkLeaves, PointsToNode
<1> QED
  BY <1>2, <1>3, <1>4

\* The last way of a subtree stays it when a way of another one is taken out.
LEMMA LatestWithout ==
  ASSUME NEW S, NEW recent, Lists(recent, S), NEW w, NEW rest, rest = Without(recent, w),
         NEW n \in 1 .. Len(rest), NEW level, NEW d,
         \A k \in 1 .. Len(rest) : Together(rest[k], rest[n], level, d) => k <= n,
         ~Together(w, rest[n], level, d)
  PROVE  \E m \in 1 .. Len(recent) : recent[m] = rest[n] /\ Latest(recent, m, level, d)
<1>0. recent \in Seq(S)
  BY ListsEnumerate
<1> PICK a \in Nat : Enumerates(recent, a, S)
  BY ListsEnumerate
<1>1. a = Len(recent)
  BY DEF Enumerates
<1>2. CASE w \in S
  <2> PICK i \in 1 .. a : recent[i] = w /\ Removes(rest, recent, a, i)
    BY <1>0, <1>2, WithoutMember
  <2>1. Len(rest) = a - 1 /\ \A k \in 1 .. a - 1 : rest[k] = IF k < i THEN recent[k] ELSE recent[k + 1]
    BY DEF Removes
  <2> DEFINE old(k) == IF k < i THEN k ELSE k + 1
  <2>2. \A k \in 1 .. a - 1 : rest[k] = recent[old(k)] /\ old(k) \in 1 .. a
    BY <2>1
  <2>3. n \in 1 .. a - 1
    BY <2>1
  <2>4. ASSUME NEW m \in 1 .. a, Together(recent[m], rest[n], level, d) PROVE m <= old(n)
    <3>1. m # i
      BY <2>4
    <3> PICK k \in 1 .. a - 1 : m = old(k)
      <4>1. CASE m < i
        <5>1. m \in 1 .. a - 1 /\ m = old(m)
          BY <4>1
        <5> QED
          BY <5>1
      <4>2. CASE m > i
        <5>1. m - 1 \in 1 .. a - 1 /\ m = old(m - 1)
          BY <4>2
        <5> QED
          BY <5>1
      <4> QED
        BY <3>1, <4>1, <4>2
    <3>2. k <= n
      BY <2>1, <2>2, <2>4
    <3>3. old(k) <= old(n)
      BY <2>3, <3>2
    <3> QED
      BY <3>3
  <2> HIDE DEF old
  <2>5. recent[old(n)] = rest[n] /\ old(n) \in 1 .. a
    BY <2>2, <2>3
  <2>6. Latest(recent, old(n), level, d)
    BY <1>1, <2>4, <2>5 DEF Latest
  <2> QED
    BY <1>1, <2>5, <2>6
<1>3. CASE w \notin S
  <2>1. rest = recent
    BY <1>0, <1>3, WithoutOther
  <2>2. Latest(recent, n, level, d)
    BY <2>1 DEF Latest
  <2> QED
    BY <2>1, <2>2
<1> QED
  BY <1>2, <1>3

\* Way v is of another subtree than w, which is used or emptied: what made the
\* tree balanced around v is as it was.
LEMMA OtherSubtree ==
  ASSUME Complete, NEW bits \in Bits, NEW held \in SUBSET Ways, NEW recent, Lists(recent, held),
         Balanced(bits, recent, held, Ways, Depth), NEW w \in Ways, NEW level \in 0 .. Depth - 1,
         NEW rest, rest = Without(recent, w), NEW n \in 1 .. Len(rest),
         \A k \in 1 .. Len(rest) : Together(rest[k], rest[n], level, Depth) => k <= n,
         ~Together(w, rest[n], level, Depth), rest[n] \in Ways, PointsTo(bits, rest[n], level, Depth)
  PROVE  \E x \in Ways \ (held \cup {w}) :
           Together(x, rest[n], level, Depth) /\ PointsTo(bits, x, level, Depth) /\ ~Together(x, w, level, Depth)
<1> PICK m \in 1 .. Len(recent) : recent[m] = rest[n] /\ Latest(recent, m, level, Depth)
  BY LatestWithout
<1> PICK x \in Ways \ held : Together(x, rest[n], level, Depth) /\ PointsTo(bits, x, level, Depth)
  BY DEF Balanced
<1>1. ~Together(x, w, level, Depth)
  BY DEF Together
<1>2. Together(w, w, level, Depth)
  BY DEF Together
<1> QED
  BY <1>1, <1>2

LEMMA TouchBalanced ==
  ASSUME Complete, NEW bits \in Bits, NEW held \in SUBSET Ways, NEW recent, Lists(recent, held),
         Balanced(bits, recent, held, Ways, Depth), NEW w \in Ways
  PROVE  Balanced(Walk(bits, w, FALSE), ToBack(recent, w), held \cup {w}, Ways, Depth)
<1> PICK new, rest, walked : new = ToBack(recent, w) /\ rest = Without(recent, w) /\ walked = Walk(bits, w, FALSE)
  OBVIOUS
<1>1. rest \in Seq(held)
  BY WithoutEnumerates
<1> PICK a \in Nat : a = Len(rest)
  BY <1>1
<1>2. Extends(new, rest, a, w)
  BY <1>1, SeqMonotonic, ToBackEntries
<1>3. Len(new) = a + 1 /\ new[a + 1] = w /\ \A k \in 1 .. a : new[k] = rest[k]
  BY <1>2 DEF Extends
<1>4. \A k \in 1 .. a : rest[k] \in Ways
  BY <1>1, ElementOfSeq
<1> SUFFICES ASSUME NEW level \in 0 .. Depth - 1, NEW n \in 1 .. a + 1,
                    Latest(new, n, level, Depth), PointsTo(walked, new[n], level, Depth)
             PROVE  \E x \in Ways \ (held \cup {w}) :
                      Together(x, new[n], level, Depth) /\ PointsTo(walked, x, level, Depth)
  BY <1>3 DEF Balanced
<1>5. \A k \in 1 .. a + 1 : Together(new[k], new[n], level, Depth) => k <= n
  BY <1>3 DEF Latest
<1>6. n # a + 1
  <2>1. ~PointsTo(walked, w, level, Depth)
    BY WalkPoints
  <2> QED
    BY <1>3, <2>1
<1>7. n \in 1 .. a /\ new[n] = rest[n] /\ rest[n] \in Ways
  BY <1>3, <1>4, <1>6
<1>8. ~Together(w, rest[n], level, Depth)
  BY <1>3, <1>5, <1>7
<1>9. ~Together(rest[n], w, level, Depth)
  BY <1>8 DEF Together
<1>10. PointsTo(bits, rest[n], level, Depth)
  BY <1>7, <1>9, WalkPoints
<1>11. \A k \in 1 .. Len(rest) : Together(rest[k], rest[n], level, Depth) => k <= n
  BY <1>3, <1>5, <1>7
<1>12. n \in 1 .. Len(rest)
  BY <1>7
<1> PICK x \in Ways \ (held \cup {w}) :
      Together(x, rest[n], level, Depth) /\ PointsTo(bits, x, level, Depth) /\ ~Together(x, w, level, Depth)
  BY <1>7, <1>8, <1>10, <1>11, <1>12, OtherSubtree
<1>13. PointsTo(walked, x, level, Depth)
  BY WalkPoints
<1> QED
  BY <1>7, <1>13

LEMMA EmptyBalanced ==
  ASSUME Complete, NEW bits \in Bits, NEW held \in SUBSET Ways, NEW recent, Lists(recent, held),
         Balanced(bits, recent, held, Ways, Depth), NEW w \in Ways
  PROVE  Balanced(Walk(bits, w, TRUE), Without(recent, w), held \ {w}, Ways, Depth)
<1> PICK rest, walked : rest = Without(recent, w) /\ walked = Walk(bits, w, TRUE)
  OBVIOUS
<1>1. rest \in Seq(held)
  BY WithoutEnumerates
<1> SUFFICES ASSUME NEW level \in 0 .. Depth - 1, NEW n \in 1 .. Len(rest),
                    Latest(rest, n, level, Depth), PointsTo(walked, rest[n], level, Depth)
             PROVE  \E x \in Ways \ (held \ {w}) :
                      Together(x, rest[n], level, Depth) /\ PointsTo(walked, x, level, Depth)
  BY DEF Balanced
<1>2. rest[n] \in Ways
  BY <1>1, ElementOfSeq
<1>3. CASE Together(w, rest[n], level, Depth)
  BY <1>3, WalkPoints
<1>4. CASE ~Together(w, rest[n], level, Depth)
  <2>1. ~Together(rest[n], w, level, Depth)
    BY <1>4 DEF Together
  <2>2. PointsTo(bits, rest[n], level, Depth)
    BY <1>2, <2>1, WalkPoints
  <2>3. \A k \in 1 .. Len(rest) : Together(rest[k], rest[n], level, Depth) => k <= n
    BY DEF Latest
  <2> PICK x \in Ways \ (held \cup {w}) :
        Together(x, rest[n], level, Depth) /\ PointsTo(bits, x, level, Depth) /\ ~Together(x, w, level, Depth)
    BY <1>2, <1>4, <2>2, <2>3, OtherSubtree
  <2>4. PointsTo(walked, x, level, Depth)
    BY WalkPoints
  <2> QED
    BY <2>4
<1> QED
  BY <1>3, <1>4

LEMMA BalancedInit == Init => TreeBalanced
<1> SUFFICES ASSUME Init, NEW s \in Sets PROVE Balanced(tree[s], used[s], valid[s], Ways, Depth)
  BY DEF TreeBalanced
<1>1. used[s] = <<>>
  BY DEF Init
<1>2. Len(used[s]) = 0 /\ 1 .. 0 = {}
  BY <1>1
<1> QED
  BY <1>2 DEF Balanced

\* What the invariant says of one set when the tree of another changes.
LEMMA BalancedSets ==
  ASSUME config' = config,
         Is({"plru"}) => \A t \in Sets : Balanced(tree'[t], used'[t], valid'[t], Ways, Depth)
  PROVE  TreeBalanced'
<1>1. Sets' = Sets /\ Ways' = Ways /\ Depth' = Depth
  BY DEF Sets, Ways, Depth
<1> QED
  BY <1>1 DEF TreeBalanced, Is

\* What the type invariant says of a set under pseudo-LRU.
LEMMA TreeOfSet ==
  ASSUME TypeOK, Is({"plru"}), NEW s \in Sets
  PROVE  /\ Complete /\ tree[s] \in Bits /\ valid[s] \in SUBSET Ways /\ Lists(used[s], valid[s])
         /\ s \in DOMAIN tree /\ s \in DOMAIN used /\ s \in DOMAIN valid
BY TreeComplete DEF TypeOK, Bits

LEMMA BalancedFilled ==
  ASSUME TypeOK, TreeBalanced, NEW s \in Sets, NEW w \in Ways, config' = config,
         tree' = Keep(tree, {"plru"}, s, Walk(tree[s], w, FALSE)),
         used' = [used EXCEPT ![s] = ToBack(used[s], w)],
         valid' = [valid EXCEPT ![s] = valid[s] \cup {w}]
  PROVE  TreeBalanced'
<1> SUFFICES ASSUME Is({"plru"}), NEW t \in Sets
             PROVE  Balanced(tree'[t], used'[t], valid'[t], Ways, Depth)
  BY BalancedSets
<1>1. CASE t = s
  <2>1. Balanced(Walk(tree[s], w, FALSE), ToBack(used[s], w), valid[s] \cup {w}, Ways, Depth)
    BY TreeOfSet, TouchBalanced DEF TreeBalanced
  <2>2. tree'[t] = Walk(tree[s], w, FALSE) /\ used'[t] = ToBack(used[s], w) /\ valid'[t] = valid[s] \cup {w}
    BY <1>1, TreeOfSet DEF Keep
  <2> QED
    BY <2>1, <2>2
<1>2. CASE t # s
  <2>1. tree'[t] = tree[t] /\ used'[t] = used[t] /\ valid'[t] = valid[t]
    BY <1>2, TreeOfSet DEF Keep
  <2> QED
    BY <2>1 DEF TreeBalanced
<1> QED
  BY <1>1, <1>2

LEMMA BalancedEmptied ==
  ASSUME TypeOK, TreeBalanced, NEW s \in Sets, NEW w \in Ways, Invalidate(s, w)
  PROVE  TreeBalanced'
<1>0. /\ config' = config /\ tree' = Keep(tree, {"plru"}, s, Walk(tree[s], w, TRUE))
      /\ used' = [used EXCEPT ![s] = Without(used[s], w)] /\ valid' = [valid EXCEPT ![s] = valid[s] \ {w}]
  BY DEF Invalidate, OnInvalidate
<1> SUFFICES ASSUME Is({"plru"}), NEW t \in Sets
             PROVE  Balanced(tree'[t], used'[t], valid'[t], Ways, Depth)
  BY <1>0, BalancedSets
<1>1. CASE t = s
  <2>1. Balanced(Walk(tree[s], w, TRUE), Without(used[s], w), valid[s] \ {w}, Ways, Depth)
    BY TreeOfSet, EmptyBalanced DEF TreeBalanced
  <2>2. tree'[t] = Walk(tree[s], w, TRUE) /\ used'[t] = Without(used[s], w) /\ valid'[t] = valid[s] \ {w}
    BY <1>0, <1>1, TreeOfSet DEF Keep
  <2> QED
    BY <2>1, <2>2
<1>2. CASE t # s
  <2>1. tree'[t] = tree[t] /\ used'[t] = used[t] /\ valid'[t] = valid[t]
    BY <1>0, <1>2, TreeOfSet DEF Keep
  <2> QED
    BY <2>1 DEF TreeBalanced
<1> QED
  BY <1>1, <1>2

LEMMA BalancedStep == TypeOK /\ TreeBalanced /\ [Next]_vars => TreeBalanced'
<1> SUFFICES ASSUME TypeOK, TreeBalanced, [Next]_vars PROVE TreeBalanced'
  OBVIOUS
<1>0. valid \in [Sets -> SUBSET Ways]
  BY DEF TypeOK
<1>1. ASSUME NEW s \in Sets, NEW w \in Ways, Hit(s, w) PROVE TreeBalanced'
  <2>1. valid' = [valid EXCEPT ![s] = valid[s] \cup {w}]
    BY <1>0, <1>1 DEF Hit
  <2> QED
    BY <1>1, <2>1, BalancedFilled DEF Hit, OnHit
<1>2. ASSUME NEW s \in Sets, FillEmpty(s) PROVE TreeBalanced'
  <2> PICK w \in Lowest(Ways \ valid[s]) :
        valid' = [valid EXCEPT ![s] = @ \cup {w}] /\ OnFill(s, w, referenced[s]) /\ Installed(s, w)
    BY <1>2 DEF FillEmpty
  <2>1. w \in Ways /\ config' = config
    BY <1>2 DEF Lowest, FillEmpty
  <2> QED
    BY <2>1, BalancedFilled DEF OnFill, Installed
<1>3. CASE Replace
  <2> PICK s \in Sets : s = searching /\ Full(s)
    BY <1>3 DEF TypeOK, Replace
  <2> PICK w \in Victims(s) : OnFill(s, w, Forgotten(s)) /\ Installed(s, w)
    BY <1>3 DEF Replace
  <2>1. w \in Ways /\ config' = config /\ valid' = valid
    BY <1>3, VictimsAreWays DEF Replace
  <2>2. valid' = [valid EXCEPT ![s] = valid[s] \cup {w}]
    BY <1>0, <2>1 DEF Full
  <2> QED
    BY <2>1, <2>2, BalancedFilled DEF OnFill, Installed
<1>4. ASSUME UNCHANGED <<config, valid, tree, used>> PROVE TreeBalanced'
  BY <1>4, BalancedSets DEF TreeBalanced
<1>5. CASE Age
  BY <1>4, <1>5 DEF Age
<1>6. ASSUME NEW s \in Sets, Search(s) PROVE TreeBalanced'
  BY <1>4, <1>6 DEF Search, books
<1>7. CASE UNCHANGED vars
  BY <1>4, <1>7 DEF vars
<1> QED
  BY <1>1, <1>2, <1>3, <1>5, <1>6, <1>7, BalancedEmptied DEF Next

LEMMA GreatestUpTo ==
  ASSUME NEW bound \in Nat, NEW T \in SUBSET (1 .. bound), T # {}
  PROVE  \E x \in T : \A y \in T : y <= x
<1> DEFINE R == {bound - x : x \in T}
<1>1. R \in SUBSET Nat /\ R # {}
  <2>1. \A x \in 1 .. bound : bound - x \in Nat
    OBVIOUS
  <2> QED
    BY <2>1
<1> PICK r \in R : \A q \in R : r <= q
  <2> HIDE DEF R
  <2> QED
    BY <1>1, LeastOfNaturals
<1> PICK x \in T : r = bound - x
  OBVIOUS
<1>2. ASSUME NEW y \in T PROVE y <= x
  <2>1. bound - x <= bound - y
    OBVIOUS
  <2>2. x \in 1 .. bound /\ y \in 1 .. bound
    OBVIOUS
  <2> HIDE DEF R
  <2> QED
    BY <2>1, <2>2
<1> QED
  BY <1>2

LEMMA BalancedVictim == TypeOK /\ TreeBalanced => TreeVictimIsOld
<1> SUFFICES ASSUME TypeOK, TreeBalanced, Is({"plru"}), NEW s \in Sets, Full(s),
                    NEW victim \in Victims(s), NEW level \in 0 .. Depth - 1
             PROVE  LET Within(n, depth) == ShiftRight(used[s][n], Depth - depth) = ShiftRight(victim, Depth - depth)
                        subtree == {n \in 1 .. config.ways : Within(n, level)}
                        latest == CHOOSE n \in subtree : \A m \in subtree : m <= n
                    IN ~Within(latest, level + 1)
  BY DEF TreeVictimIsOld
<1> DEFINE Within(n, depth) == ShiftRight(used[s][n], Depth - depth) = ShiftRight(victim, Depth - depth)
           subtree == {n \in 1 .. config.ways : Within(n, level)}
           latest == CHOOSE n \in subtree : \A m \in subtree : m <= n
<1>0. Complete /\ tree[s] \in Bits /\ Lists(used[s], Ways) /\ config \in Configurations
  BY TreeOfSet DEF Full, TypeOK
<1>1. config.ways \in Nat /\ Len(used[s]) = config.ways
  BY <1>0, ListLength, WaysCounted
<1>2. Enumerates(used[s], config.ways, Ways)
  BY <1>0, <1>1, ListsEnumerate DEF Enumerates
<1>3. victim \in Ways /\ PointsTo(tree[s], victim, level, Depth)
  <2>1. victim = TreeVictim(tree[s])
    BY DEF Victims, Is, Rrip
  <2> QED
    BY <1>0, <2>1, VictimFound, PointsToNode DEF Bits
<1>4. latest \in subtree /\ \A m \in subtree : m <= latest
  <2> PICK k \in 1 .. config.ways : used[s][k] = victim
    BY <1>2, <1>3 DEF Enumerates
  <2>1. k \in subtree
    OBVIOUS
  <2>2. subtree \in SUBSET (1 .. config.ways) /\ subtree # {}
    BY <2>1
  <2> HIDE DEF subtree
  <2>3. \E n \in subtree : \A m \in subtree : m <= n
    BY <1>1, <2>2, GreatestUpTo
  <2> QED
    BY <2>3
<1> HIDE DEF latest
<1> PICK w \in Ways : w = used[s][latest]
  BY <1>2, <1>4 DEF Enumerates
<1>5. Latest(used[s], latest, level, Depth) /\ latest \in 1 .. Len(used[s])
  BY <1>1, <1>4 DEF Latest, Together
<1>6. ~PointsTo(tree[s], w, level, Depth)
  <2>1. Balanced(tree[s], used[s], Ways, Ways, Depth)
    BY DEF TreeBalanced, Full
  <2> QED
    BY <1>5, <2>1 DEF Balanced
<1>7. ASSUME Within(latest, level + 1) PROVE FALSE
  <2>1. Path(w, level) = Path(victim, level) /\ Path(w, level + 1) = Path(victim, level + 1)
    BY <1>4, <1>7 DEF Path
  <2>2. Branch(w, level) = Branch(victim, level)
    <3>1. w \in Nat /\ victim \in Nat
      BY <1>3 DEF Ways
    <3>2. /\ Path(w, level) \in Nat /\ Branch(w, level) \in {0, 1}
          /\ Path(w, level + 1) = 2 * Path(w, level) + Branch(w, level)
      BY <1>0, <3>1, PathSteps
    <3>3. /\ Branch(victim, level) \in {0, 1}
          /\ Path(victim, level + 1) = 2 * Path(victim, level) + Branch(victim, level)
      BY <1>0, <3>1, PathSteps
    <3> QED
      BY <2>1, <3>2, <3>3
  <2>3. Node(w, level) = Node(victim, level)
    BY <1>0, <1>3, <2>1, SameNode, TogetherPath
  <2> QED
    BY <1>0, <1>3, <1>6, <2>2, <2>3, PointsToNode
<1> QED
  BY <1>7 DEF latest

\* Tree pseudo-LRU on a full set, whatever ways were emptied and filled again
\* before: at every level of the tree the victim is in the half that was not used
\* last.  Two ways have one level, so there it is the way referenced longest ago.
THEOREM TreeIsKept == Spec => []TreeVictimIsOld
<1>1. Init => TypeOK /\ TreeBalanced
  BY TypeInit, BalancedInit
<1>2. TypeOK /\ TreeBalanced /\ [Next]_vars => TypeOK' /\ TreeBalanced'
  BY TypeStep, BalancedStep
<1> QED
  BY <1>1, <1>2, BalancedVictim, PTL DEF Spec
=============================================================================
