--------------------------- MODULE RecursionTheorems ---------------------------
(***************************************************************************)
(* Minima, induction over the naturals, and definitions by recursion, in   *)
(* the form the provers can use: over sets and functions, without          *)
(* operators as parameters; and what follows by induction about powers of  *)
(* two and division.                                                       *)
(***************************************************************************)
EXTENDS Indexing, WellFoundedInduction, TLAPS

\* A set of naturals has a least member.
LEMMA LeastOfNaturals ==
  ASSUME NEW T \in SUBSET Nat, T # {}
  PROVE  \E x \in T : \A y \in T : x <= y
<1>1. \E x \in T : \A y \in T : ~ (<<y, x>> \in OpToRel(<, Nat))
  <2> HIDE DEF OpToRel
  <2> QED BY NatLessThanWellFounded, WFMin
<1>2. \A x, y \in Nat : ~ (<<y, x>> \in OpToRel(<, Nat)) => x <= y
  BY DEF OpToRel
<1> QED BY <1>1, <1>2

\* A bounded set of naturals has a largest member.
LEMMA LargestOfBounded ==
  ASSUME NEW T \in SUBSET Nat, T # {}, NEW limit \in Nat, \A x \in T : x <= limit
  PROVE  \E x \in T : \A y \in T : x >= y
<1> DEFINE Gaps == {limit - x : x \in T}
<1>1. Gaps \in SUBSET Nat /\ Gaps # {}
  <2>1. \A x \in T : limit - x \in Nat
    OBVIOUS
  <2> QED BY <2>1
<1>2. PICK gap \in Gaps : \A g \in Gaps : gap <= g
  <2> HIDE DEF Gaps
  <2> QED BY <1>1, LeastOfNaturals
<1>3. PICK x \in T : gap = limit - x
  BY <1>2
<1>4. \A y \in T : gap <= limit - y
  BY <1>2
<1> QED BY <1>3, <1>4
\* A set of naturals closed under successor holds them all.
LEMMA NaturalSetInduction ==
  ASSUME NEW G \in SUBSET Nat, 0 \in G, \A n \in G : n + 1 \in G
  PROVE  \A n \in Nat : n \in G
<1> SUFFICES ASSUME Nat \ G # {} PROVE FALSE
  OBVIOUS
<1>1. PICK n \in Nat \ G : \A m \in Nat \ G : n <= m
  <2> DEFINE T == Nat \ G
  <2>1. T \in SUBSET Nat /\ T # {}
    OBVIOUS
  <2> HIDE DEF T
  <2>2. \E x \in T : \A y \in T : x <= y
    BY <2>1, LeastOfNaturals
  <2> QED BY <2>2 DEF T
<1>2. n # 0 /\ n - 1 \in Nat
  BY <1>1
<1>3. n - 1 \in G
  BY <1>1, <1>2
<1>4. (n - 1) + 1 \in G
  BY <1>3
<1> QED BY <1>1, <1>4

\* A definition of f on S by recursion: f[x] is `zero' on the base, and elsewhere
\* comes from f[pred[x]], which is nearer to the base.
Descends(S, V, rank, base, pred, zero, step) ==
  /\ rank \in [S -> Nat] /\ base \in SUBSET S /\ pred \in [S -> S] /\ zero \in V /\ step \in [S -> [V -> V]]
  /\ \A x \in S \ base : rank[pred[x]] < rank[x]

\* There is such a function.
LEMMA RecursionExists ==
  ASSUME NEW S, NEW V, NEW rank, NEW base, NEW pred, NEW zero, NEW step,
         Descends(S, V, rank, base, pred, zero, step)
  PROVE  \E f \in [S -> V] : \A x \in S : f[x] = IF x \in base THEN zero ELSE step[x][f[pred[x]]]
<1> USE DEF Descends
<1> DEFINE Below(n) == {x \in S : rank[x] < n}
           Solves(f, n) == /\ f \in [Below(n) -> V]
                           /\ \A x \in Below(n) : f[x] = IF x \in base THEN zero ELSE step[x][f[pred[x]]]
<1>1. \A n \in Nat : \E f : Solves(f, n)
  <2> DEFINE G == {n \in Nat : \E f : Solves(f, n)}
  <2>1. 0 \in G
    <3>1. Below(0) = {}
      OBVIOUS
    <3>2. Solves([x \in {} |-> zero], 0)
      BY <3>1
    <3> QED BY <3>2
  <2>2. ASSUME NEW n \in G PROVE n + 1 \in G
    <3>1. PICK f : Solves(f, n)
      OBVIOUS
    <3> DEFINE g == [x \in Below(n + 1) |-> IF x \in base THEN zero ELSE step[x][f[pred[x]]]]
    <3>2. \A x \in Below(n + 1) \ base : pred[x] \in Below(n)
      OBVIOUS
    <3>3. g \in [Below(n + 1) -> V]
      BY <3>1, <3>2
    <3>4. \A x \in Below(n) : g[x] = f[x]
      BY <3>1
    <3>5. ASSUME NEW x \in Below(n + 1) PROVE g[x] = IF x \in base THEN zero ELSE step[x][g[pred[x]]]
      <4>1. g[x] = IF x \in base THEN zero ELSE step[x][f[pred[x]]]
        OBVIOUS
      <4>2. x \notin base => g[pred[x]] = f[pred[x]]
        BY <3>2, <3>4
      <4> HIDE DEF g
      <4> QED BY <4>1, <4>2
    <3> HIDE DEF g
    <3>6. Solves(g, n + 1)
      BY <3>3, <3>5
    <3> HIDE DEF Solves
    <3>7. \E h : Solves(h, n + 1)
      BY <3>6
    <3> QED BY <3>7
  <2>3. \A n \in Nat : n \in G
    <3> HIDE DEF G
    <3>1. G \in SUBSET Nat
      BY DEF G
    <3> QED BY <2>1, <2>2, <3>1, NaturalSetInduction
  <2> QED BY <2>3
<1>2. ASSUME NEW m \in Nat, NEW k \in Nat, NEW f, NEW g, Solves(f, m), Solves(g, k)
      PROVE  \A x \in S : rank[x] < m /\ rank[x] < k => f[x] = g[x]
  <2> DEFINE Bad == {rank[x] : x \in {y \in Below(m) \cap Below(k) : f[y] # g[y]}}
  <2> SUFFICES Bad = {}
    OBVIOUS
  <2> SUFFICES ASSUME Bad # {} PROVE FALSE
    OBVIOUS
  <2>1. PICK r \in Bad : \A q \in Bad : r <= q
    <3>1. Bad \in SUBSET Nat
      OBVIOUS
    <3> HIDE DEF Bad
    <3> QED BY <3>1, LeastOfNaturals
  <2>2. PICK x \in Below(m) \cap Below(k) : f[x] # g[x] /\ rank[x] = r
    BY <2>1
  <2>3. x \notin base
    BY <1>2, <2>2
  <2>4. pred[x] \in Below(m) \cap Below(k) /\ rank[pred[x]] < r
    BY <2>2, <2>3
  <2>5. f[pred[x]] # g[pred[x]]
    BY <1>2, <2>2, <2>3
  <2>6. rank[pred[x]] \in Bad
    BY <2>4, <2>5
  <2>7. rank[pred[x]] \in Nat /\ r \in Nat
    BY <2>2
  <2> HIDE DEF Bad
  <2>8. r <= rank[pred[x]]
    BY <2>1, <2>6
  <2> QED BY <2>4, <2>7, <2>8
<1> HIDE DEF Solves
<1> DEFINE solution == [n \in Nat |-> CHOOSE f : Solves(f, n)]
           f == [x \in S |-> solution[rank[x] + 1][x]]
<1>3. \A n \in Nat : Solves(solution[n], n)
  BY <1>1
<1> HIDE DEF solution
<1>4. ASSUME NEW x \in S
      PROVE  f[x] \in V /\ f[x] = IF x \in base THEN zero ELSE step[x][f[pred[x]]]
  <2> DEFINE n == rank[x] + 1
             k == rank[pred[x]] + 1
  <2>1. n \in Nat /\ k \in Nat /\ x \in Below(n) /\ pred[x] \in Below(k)
    OBVIOUS
  <2>2. Solves(solution[n], n) /\ Solves(solution[k], k)
    BY <1>3, <2>1
  <2>3. solution[n][x] \in V /\ solution[n][x] = IF x \in base THEN zero ELSE step[x][solution[n][pred[x]]]
    BY <2>1, <2>2 DEF Solves
  <2>4. x \notin base => solution[n][pred[x]] = solution[k][pred[x]]
    <3> SUFFICES ASSUME x \notin base PROVE solution[n][pred[x]] = solution[k][pred[x]]
      OBVIOUS
    <3>1. rank[pred[x]] < n /\ rank[pred[x]] < k /\ pred[x] \in S
      OBVIOUS
    <3> HIDE DEF n, k
    <3> QED BY <1>2, <2>1, <2>2, <3>1
  <2>5. f[x] = solution[n][x] /\ f[pred[x]] = solution[k][pred[x]]
    OBVIOUS
  <2> HIDE DEF n, k, f
  <2> QED BY <2>3, <2>4, <2>5
<1> HIDE DEF f
<1>5. f \in [S -> V]
  <2>1. f = [x \in S |-> f[x]]
    BY DEF f
  <2> QED BY <1>4, <2>1
<1> QED BY <1>4, <1>5

-----------------------------------------------------------------------------
(* Powers of two.                                                          *)

\* Power[k] is 1 << k.
LEMMA PowerIs ==
  /\ Power[0] = 1
  /\ \A k \in Nat : Power[k] \in Nat /\ Power[k + 1] = 2 * Power[k]
<1> DEFINE pred == [k \in Nat |-> IF k = 0 THEN 0 ELSE k - 1]
           step == [k \in Nat |-> [v \in Nat |-> 2 * v]]
           rank == [k \in Nat |-> k]
<1>1. \E f \in [Nat -> Nat] : \A k \in Nat : f[k] = IF k \in {0} THEN 1 ELSE step[k][f[pred[k]]]
  <2>1. Descends(Nat, Nat, rank, {0}, pred, 1, step)
    BY DEF Descends
  <2> HIDE DEF rank, pred, step
  <2> QED BY <2>1, RecursionExists
<1>2. PICK f \in [Nat -> Nat] : \A k \in Nat : f[k] = IF k = 0 THEN 1 ELSE 2 * f[k - 1]
  <2>1. PICK f \in [Nat -> Nat] : \A k \in Nat : f[k] = IF k \in {0} THEN 1 ELSE step[k][f[pred[k]]]
    BY <1>1
  <2>2. ASSUME NEW k \in Nat PROVE f[k] = IF k = 0 THEN 1 ELSE 2 * f[k - 1]
    <3>1. k # 0 => pred[k] = k - 1 /\ f[k - 1] \in Nat /\ \A v \in Nat : step[k][v] = 2 * v
      OBVIOUS
    <3> HIDE DEF pred, step
    <3> QED BY <2>1, <3>1
  <2> QED BY <2>2
<1>3. f = [k \in Nat |-> IF k = 0 THEN 1 ELSE 2 * f[k - 1]]
  BY <1>2
<1>4. Power = [k \in Nat |-> IF k = 0 THEN 1 ELSE 2 * Power[k - 1]]
  BY <1>3 DEF Power
<1>5. ASSUME NEW k \in Nat PROVE Power[k + 1] = 2 * Power[k]
  BY <1>4
<1>6. \A k \in Nat : Power[k] \in Nat
  <2> DEFINE G == {k \in Nat : Power[k] \in Nat}
  <2>1. 0 \in G /\ \A k \in G : k + 1 \in G
    BY <1>4, <1>5
  <2> HIDE DEF G
  <2>2. \A k \in Nat : k \in G
    BY <2>1, NaturalSetInduction DEF G
  <2> QED BY <2>2 DEF G
<1> QED BY <1>4, <1>5, <1>6

\* Powers of two are positive.
LEMMA PowerPositive == \A k \in Nat : Power[k] \in Nat \ {0}
<1> DEFINE G == {k \in Nat : Power[k] \in Nat \ {0}}
<1>1. 0 \in G /\ \A k \in G : k + 1 \in G
  BY PowerIs
<1>2. \A k \in Nat : k \in G
  <2> HIDE DEF G
  <2>1. G \in SUBSET Nat
    BY DEF G
  <2> QED BY <1>1, <2>1, NaturalSetInduction
<1> QED BY <1>2

\* There is room for the exponent below the power.
LEMMA PowerAbove == \A k \in Nat : k < Power[k]
<1> DEFINE G == {k \in Nat : k < Power[k]}
<1>1. 0 \in G /\ \A k \in G : k + 1 \in G
  BY PowerIs
<1>2. \A k \in Nat : k \in G
  <2> HIDE DEF G
  <2>1. G \in SUBSET Nat
    BY DEF G
  <2> QED BY <1>1, <2>1, NaturalSetInduction
<1> QED BY <1>2

\* They grow with the exponent.
LEMMA PowerGrows ==
  ASSUME NEW m \in Nat
  PROVE  \A k \in Nat : m <= k => Power[m] <= Power[k]
<1> DEFINE G == {k \in Nat : m <= k => Power[m] <= Power[k]}
<1>1. Power[m] \in Nat
  BY PowerIs
<1>2. 0 \in G
  BY <1>1
<1>3. ASSUME NEW k \in G PROVE k + 1 \in G
  <2>1. k \in Nat /\ (m <= k => Power[m] <= Power[k]) /\ Power[k] \in Nat /\ Power[k + 1] = 2 * Power[k]
    BY PowerIs
  <2>2. m <= k + 1 => m <= k \/ m = k + 1
    BY <2>1
  <2>3. k + 1 \in Nat
    BY <2>1
  <2>4. m <= k + 1 => Power[m] <= Power[k + 1]
    BY <1>1, <2>1, <2>2
  <2> QED BY <2>3, <2>4
<1>4. \A k \in Nat : k \in G
  <2> HIDE DEF G
  <2>1. G \in SUBSET Nat
    BY DEF G
  <2> QED BY <1>2, <1>3, <2>1, NaturalSetInduction
<1> QED BY <1>4

LEMMA PowerIsPower ==
  ASSUME NEW w \in Nat, w # 0
  PROVE  Power[w] # 1 /\ IsPowerOfTwo(Power[w])
<1>1. w < Power[w] /\ Power[w] \in Nat
  BY PowerAbove, PowerIs
<1>2. w \in 0 .. Power[w]
  BY <1>1
<1> QED BY <1>1, <1>2 DEF IsPowerOfTwo

\* Powers of two multiply.
LEMMA PowerAdds ==
  ASSUME NEW m \in Nat
  PROVE  \A k \in Nat : Power[m + k] = Power[m] * Power[k]
<1> DEFINE G == {k \in Nat : Power[m + k] = Power[m] * Power[k]}
<1>1. 0 \in G
  BY PowerIs
<1>2. ASSUME NEW k \in G PROVE k + 1 \in G
  <2>1. Power[m + k] = Power[m] * Power[k] /\ m + k \in Nat
    OBVIOUS
  <2>2. /\ Power[(m + k) + 1] = 2 * Power[m + k] /\ Power[k + 1] = 2 * Power[k]
        /\ Power[m] \in Nat /\ Power[k] \in Nat
    BY <2>1, PowerIs
  <2>3. \A a, b \in Nat : 2 * (a * b) = a * (2 * b)
    OBVIOUS
  <2>4. (m + k) + 1 = m + (k + 1)
    OBVIOUS
  <2>5. 2 * Power[m + k] = Power[m] * (2 * Power[k])
    BY <2>1, <2>2, <2>3
  <2>6. Power[m + (k + 1)] = Power[m] * Power[k + 1]
    BY <2>2, <2>4, <2>5
  <2> QED BY <2>6
<1>3. \A k \in Nat : k \in G
  <2> HIDE DEF G
  <2>1. G \in SUBSET Nat
    BY DEF G
  <2> QED BY <1>1, <1>2, <2>1, NaturalSetInduction
<1> QED BY <1>3

-----------------------------------------------------------------------------
(* Division.                                                               *)

\* A quotient and a remainder are the only ones.
LEMMA DivisionUnique ==
  ASSUME NEW d \in Nat \ {0}, NEW q \in Nat, NEW r \in 0 .. d - 1
  PROVE  /\ (d * q) + r \in Nat
         /\ ((d * q) + r) \div d = q
         /\ ((d * q) + r) % d = r
<1> DEFINE x == (d * q) + r
<1>1. d * q \in Nat /\ x \in Nat
  OBVIOUS
<1>2. x = (d * (x \div d)) + (x % d) /\ x \div d \in Nat /\ x % d \in 0 .. d - 1
  <2> HIDE DEF x
  <2> QED BY <1>1
<1>3. \A a \in Nat, c \in Nat : a < c => (d * a) + d <= d * c
  <2> SUFFICES ASSUME NEW a \in Nat, NEW c \in Nat, a < c PROVE (d * a) + d <= d * c
    OBVIOUS
  <2>1. PICK k \in Nat : c = a + 1 + k
    <3>1. c - a - 1 \in Nat /\ c = a + 1 + (c - a - 1)
      OBVIOUS
    <3> QED BY <3>1
  <2>2. d * c = (d * a) + d + (d * k)
    BY <2>1
  <2>3. d * k \in Nat
    OBVIOUS
  <2> QED BY <2>2, <2>3
<1> DEFINE p == x \div d
           m == x % d
<1>4. x = (d * p) + m /\ x = (d * q) + r /\ p \in Nat /\ m \in 0 .. d - 1
  BY <1>2
<1> HIDE DEF x, p, m
<1>5. ~(p < q) /\ ~(q < p)
  BY <1>3, <1>4
<1>6. p = q
  BY <1>4, <1>5
<1>7. m = r
  BY <1>4, <1>6
<1> QED BY <1>1, <1>6, <1>7 DEF p, m, x

LEMMA Division ==
  ASSUME NEW x \in Nat, NEW d \in Nat \ {0}
  PROVE  x = (d * (x \div d)) + (x % d) /\ x \div d \in Nat /\ x % d \in 0 .. d - 1
OBVIOUS

\* Dividing by a product p of two numbers is dividing twice.
IsProduct(p, d, e) == p = d * e

LEMMA DividedTwice ==
  ASSUME NEW x \in Nat, NEW d \in Nat \ {0}, NEW e \in Nat \ {0}, NEW de, IsProduct(de, d, e)
  PROVE  /\ de \in Nat \ {0}
         /\ x \div de = (x \div d) \div e
         /\ x % de = (d * ((x \div d) % e)) + (x % d)
<1> DEFINE q == x \div d
           r == x % d
           p == q \div e
           m == q % e
<1>0. de = d * e
  BY DEF IsProduct
<1>1. x = (d * q) + r /\ q \in Nat /\ r \in 0 .. d - 1
  BY Division
<1>2. q = (e * p) + m /\ p \in Nat /\ m \in 0 .. e - 1
  <2> HIDE DEF q
  <2> QED BY <1>1, Division
<1> HIDE DEF q, r, p, m
<1> DEFINE rest == (d * m) + r
<1>3. de \in Nat \ {0}
  <2>1. \A k \in Nat : d * (k + 1) = (d * k) + d /\ d * k \in Nat
    OBVIOUS
  <2>2. e - 1 \in Nat /\ (e - 1) + 1 = e
    OBVIOUS
  <2> QED BY <1>0, <2>1, <2>2
<1>4. x = (de * p) + rest
  <2>1. d * q = (d * (e * p)) + (d * m)
    BY <1>2
  <2>2. d * (e * p) = de * p
    BY <1>0, <1>2
  <2> QED BY <1>1, <1>2, <2>1, <2>2
<1>5. rest \in 0 .. de - 1
  <2>1. PICK k \in Nat : e = m + 1 + k
    <3>1. e - m - 1 \in Nat /\ e = m + 1 + (e - m - 1)
      BY <1>2
    <3> QED BY <3>1
  <2>2. de = (d * m) + d + (d * k) /\ d * k \in Nat /\ d * m \in Nat
    BY <1>0, <1>2, <2>1
  <2> QED BY <1>1, <2>2
<1> HIDE DEF rest
<1>6. x \div de = p /\ x % de = rest
  BY <1>2, <1>3, <1>4, <1>5, DivisionUnique
<1> QED BY <1>3, <1>6 DEF rest, p, m, q, r

LEMMA QuotientTwice ==
  ASSUME NEW x \in Nat, NEW d \in Nat \ {0}, NEW e \in Nat \ {0}, NEW de, IsProduct(de, d, e)
  PROVE  x \div de = (x \div d) \div e
BY DividedTwice

LEMMA DivisionByProduct ==
  ASSUME NEW x \in Nat, NEW d \in Nat \ {0}, NEW e \in Nat \ {0}
  PROVE  /\ d * e \in Nat \ {0}
         /\ x \div (d * e) = (x \div d) \div e
         /\ x % (d * e) = (d * ((x \div d) % e)) + (x % d)
<1> DEFINE de == d * e
<1>1. IsProduct(de, d, e)
  BY DEF IsProduct
<1> HIDE DEF de
<1> SUFFICES /\ de \in Nat \ {0}
             /\ x \div de = (x \div d) \div e
             /\ x % de = (d * ((x \div d) % e)) + (x % d)
  BY DEF de
<1> QED BY <1>1, DividedTwice

\* Halving takes the lowest bit off.
LEMMA Halving ==
  ASSUME NEW x \in Nat, NEW p \in Nat \ {0}
  PROVE  /\ x = (2 * (x \div 2)) + (x % 2) /\ x \div 2 \in Nat /\ x % 2 \in {0, 1}
         /\ x % (2 * p) = (2 * ((x \div 2) % p)) + (x % 2)
         /\ (x \div 2) % p \in Nat
<1>1. x % (2 * p) = (2 * ((x \div 2) % p)) + (x % 2)
  <2>1. 2 \in Nat \ {0}
    OBVIOUS
  <2> QED BY <2>1, DivisionByProduct
<1>2. x \div 2 \in Nat
  OBVIOUS
<1>3. (x \div 2) % p \in Nat
  BY <1>2, Division
<1> QED BY <1>1, <1>3

\* A remainder by a multiple of low leaves the remainder by low.
LEMMA LowPart ==
  ASSUME NEW x \in Nat, NEW low \in Nat \ {0}, NEW top \in Nat \ {0}
  PROVE  (x % (low * top)) % low = x % low
<1> DEFINE q == (x \div low) % top
           r == x % low
<1>1. x % (low * top) = (low * q) + r
  BY DivisionByProduct
<1>2. x \div low \in Nat /\ r \in 0 .. low - 1
  BY Division
<1>3. q \in Nat
  BY <1>2, Division
<1> HIDE DEF q, r
<1>4. ((low * q) + r) % low = r
  BY <1>2, <1>3, DivisionUnique
<1> QED BY <1>1, <1>4 DEF r
================================================================================
