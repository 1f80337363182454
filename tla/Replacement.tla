----------------------------- MODULE Replacement -----------------------------
(***************************************************************************)
(* The replacement policies of cachesim/policies.py, driven by the hooks   *)
(* of cachesim/cache.py: a hit calls on_hit, an allocation fills the       *)
(* lowest empty way or, when the set is full, the way victim() names, and  *)
(* calls on_fill, an invalidation empties a way and calls on_invalidate.   *)
(*                                                                         *)
(* Every policy is one value of the rigid variable `config', with its own  *)
(* bookkeeping among the variables.  What a block is does not matter here: *)
(* the ways of a set are told apart, not what they hold.  The loop of the  *)
(* RRIP victim search is modelled pass by pass, so that a search that does *)
(* not end can be seen.                                                    *)
(*                                                                         *)
(* `used', `filled' and `lead' are history variables: the valid ways of a  *)
(* set in the order of their last reference, and of their fill, and the    *)
(* misses of leader sets in a row.  No guard reads them.                   *)
(***************************************************************************)
EXTENDS Indexing, Sequences, FiniteSets

Ext == INSTANCE SequencesExt

CONSTANTS
  Configurations,  \* records of a policy, a number of sets and a number of ways
  PSEL_BITS,       \* width of PSEL: 10 in the code
  LEADER_PERIOD,   \* one set in so many leads each policy: 64 in the code
  MaxCount         \* bound: the references LFU counts for one line

Policies == {"lru", "fifo", "mru", "random", "plru", "nru", "lfu", "srrip", "brrip", "drrip"}
Rrip == {"srrip", "brrip", "drrip"}

\* plru requires a power-of-two associativity.
ASSUME ConfigurationsAssumption ==
  /\ Configurations \subseteq [policy : Policies, sets : Nat \ {0}, ways : Nat \ {0}]
  /\ \A c \in Configurations : c.policy = "plru" => \E d \in 0 .. c.ways : c.ways = Power[d]
ASSUME DuelAssumption == PSEL_BITS \in Nat \ {0} /\ LEADER_PERIOD \in Nat \ {0, 1}
ASSUME MaxCountAssumption == MaxCount \in Nat \ {0}

RRPV_DISTANT == 3
RRPV_LONG == 2
RRPV_NEAR == 0
PSEL_MAX == Power[PSEL_BITS] - 1
PSEL_THRESHOLD == Power[PSEL_BITS - 1]

NoSet == -1

VARIABLES
  config,      \* the policy and the geometry of the cache
  valid,       \* valid[s]: the ways of set s that hold a block
  searching,   \* the full set a victim is searched in, or NoSet
  order,       \* lru, fifo, mru: the ways of a set, least recent first
  tree,        \* plru: the bits of a set by node, 0 points left
  referenced,  \* nru: the ways whose reference bit is set
  count,       \* lfu: references of each way
  rrpv,        \* srrip, brrip, drrip: re-reference prediction of each way
  psel,        \* drrip: the policy selection counter
  used,        \* history: the valid ways, least recently referenced first
  filled,      \* history: the valid ways, first filled first
  lead         \* history: the misses of one side's leader sets since the other
               \* side's last one, SRRIP's positive and BRRIP's negative

books == <<order, tree, referenced, count, rrpv, psel>>
vars == <<config, valid, searching, order, tree, referenced, count, rrpv, psel, used, filled, lead>>

Sets == 0 .. config.sets - 1
Ways == 0 .. config.ways - 1
Is(policies) == config.policy \in policies
Full(s) == valid[s] = Ways

\* move_to_end takes a way out of its place and puts it at either end.
Without(ways, w) ==
  IF \E n \in DOMAIN ways : ways[n] = w
  THEN Ext!RemoveAt(ways, CHOOSE n \in DOMAIN ways : ways[n] = w)
  ELSE ways

ToBack(ways, w) == Append(Without(ways, w), w)
ToFront(ways, w) == <<w>> \o Without(ways, w)

-----------------------------------------------------------------------------
(* Tree pseudo-LRU: node n has the children 2n + 1 and 2n + 2.             *)

\* The depth of the tree: ways.bit_length() - 1.
Depth == CHOOSE d \in 0 .. config.ways : Power[d] = config.ways

\* w >> n
ShiftRight(w, n) == LET half[k \in Nat] == IF k = 0 THEN w ELSE half[k - 1] \div 2 IN half[n]

\* Mutant of Branch: the least significant bit first.
LsbFirst(w, level) == ShiftRight(w, level) % 2

\* The branch towards way w at a level of the tree, most significant bit first.
Branch(w, level) == ShiftRight(w, Depth - 1 - level) % 2

\* The node of a level on the path to way w.
Node(w, level) ==
  LET at[l \in 0 .. Depth] == IF l = 0 THEN 0 ELSE 2 * at[l - 1] + 1 + Branch(w, l - 1)
  IN at[level]

\* _walk: the bits on the path to way w point towards it, or away from it.
Walk(bits, w, toward) ==
  [n \in DOMAIN bits |->
     IF \E level \in 0 .. Depth - 1 : Node(w, level) = n
     THEN LET level == CHOOSE level \in 0 .. Depth - 1 : Node(w, level) = n
          IN IF toward THEN Branch(w, level) ELSE 1 - Branch(w, level)
     ELSE bits[n]]

\* The way the bits lead to.
TreeVictim(bits) ==
  CHOOSE w \in Ways : \A level \in 0 .. Depth - 1 : bits[Node(w, level)] = Branch(w, level)

-----------------------------------------------------------------------------
(* Set dueling.                                                            *)

\* Which side of the duel a set is on.
Role(s) ==
  IF config.sets >= LEADER_PERIOD
  THEN IF s % LEADER_PERIOD = 0 THEN "srrip-leader"
       ELSE IF s % LEADER_PERIOD = LEADER_PERIOD \div 2 THEN "brrip-leader" ELSE "follower"
  ELSE IF config.sets < 2 THEN "follower"
  ELSE IF s = config.sets \div 2 THEN "brrip-leader"
  ELSE IF s = 0 THEN "srrip-leader" ELSE "follower"

\* _bimodal: long once in BRRIP_EPSILON draws, otherwise distant.
Bimodal == {RRPV_LONG, RRPV_DISTANT}

\* The values _insert_rrpv may return.
Insertions(s) ==
  IF config.policy = "srrip" THEN {RRPV_LONG}
  ELSE IF config.policy = "brrip" \/ Role(s) = "brrip-leader" THEN Bimodal
  ELSE IF Role(s) = "srrip-leader" \/ psel < PSEL_THRESHOLD THEN {RRPV_LONG}
  ELSE Bimodal

\* Mutant of PselAfter: the counter does not saturate.
PselRunsOn(s) ==
  IF config.policy # "drrip" THEN psel
  ELSE IF Role(s) = "srrip-leader" THEN psel + 1
  ELSE IF Role(s) = "brrip-leader" THEN psel - 1
  ELSE psel

\* PSEL after a fill into set s: a miss of a leader is evidence against it.
PselAfter(s) ==
  IF config.policy # "drrip" THEN psel
  ELSE IF Role(s) = "srrip-leader" /\ psel < PSEL_MAX THEN psel + 1
  ELSE IF Role(s) = "brrip-leader" /\ psel > 0 THEN psel - 1
  ELSE psel

Least(m, n) == IF m <= n THEN m ELSE n
Greatest(m, n) == IF m >= n THEN m ELSE n

\* The misses in a row after one in set s; PSEL_MAX of them are counted, and no more.
LeadAfter(s) ==
  IF config.policy # "drrip" THEN lead
  ELSE IF Role(s) = "srrip-leader" THEN Least(Greatest(lead, 0) + 1, PSEL_MAX)
  ELSE IF Role(s) = "brrip-leader" THEN Greatest(Least(lead, 0) - 1, -PSEL_MAX)
  ELSE lead

-----------------------------------------------------------------------------
(* The hooks.                                                              *)

\* `book' with the entry of set s changed, where one of `policies' is in use.
Keep(book, policies, s, entry) == IF Is(policies) THEN [book EXCEPT ![s] = entry] ELSE book

\* Mutant of RefreshedByHits: hits refresh the order of FIFO.
EveryOrder == {"lru", "fifo", "mru"}

\* The policies whose order a hit changes; FIFO's only a fill does.
RefreshedByHits == {"lru", "mru"}

OnHit(s, w) ==
  /\ order' = Keep(order, RefreshedByHits, s, ToBack(order[s], w))
  /\ tree' = Keep(tree, {"plru"}, s, Walk(tree[s], w, FALSE))
  /\ referenced' = Keep(referenced, {"nru"}, s, referenced[s] \cup {w})
  /\ count' = Keep(count, {"lfu"}, s, [count[s] EXCEPT ![w] = @ + 1])
  /\ rrpv' = Keep(rrpv, Rrip, s, [rrpv[s] EXCEPT ![w] = RRPV_NEAR])
  /\ UNCHANGED psel

\* on_fill; `marked' are the reference bits victim() has left.
OnFill(s, w, marked) ==
  /\ order' = Keep(order, {"lru", "fifo", "mru"}, s, ToBack(order[s], w))
  /\ tree' = Keep(tree, {"plru"}, s, Walk(tree[s], w, FALSE))
  /\ referenced' = Keep(referenced, {"nru"}, s, marked \cup {w})
  /\ count' = Keep(count, {"lfu"}, s, [count[s] EXCEPT ![w] = 1])
  /\ \E value \in Insertions(s) : rrpv' = Keep(rrpv, Rrip, s, [rrpv[s] EXCEPT ![w] = value])
  /\ psel' = PselAfter(s)

OnInvalidate(s, w) ==
  /\ order' = Keep(order, {"lru", "fifo", "mru"}, s, ToFront(order[s], w))
  /\ tree' = Keep(tree, {"plru"}, s, Walk(tree[s], w, TRUE))
  /\ referenced' = Keep(referenced, {"nru"}, s, referenced[s] \ {w})
  /\ count' = Keep(count, {"lfu"}, s, [count[s] EXCEPT ![w] = 0])
  /\ rrpv' = Keep(rrpv, Rrip, s, [rrpv[s] EXCEPT ![w] = RRPV_DISTANT])
  /\ UNCHANGED psel

Lowest(ways) == {w \in ways : \A v \in ways : w <= v}

RecencyVictims(s) == IF Is({"mru"}) THEN {order[s][Len(order[s])]} ELSE {Head(order[s])}
NruVictims(s) == IF referenced[s] = Ways THEN {0} ELSE Lowest(Ways \ referenced[s])
LfuVictims(s) == Lowest({w \in Ways : \A v \in Ways : count[s][w] <= count[s][v]})
RripVictims(s) == Lowest({w \in Ways : rrpv[s][w] = RRPV_DISTANT})

\* victim: the ways it may return for a full set.
Victims(s) ==
  CASE Is({"lru", "fifo", "mru"}) -> RecencyVictims(s)
    [] Is({"random"}) -> Ways
    [] Is({"plru"}) -> {TreeVictim(tree[s])}
    [] Is({"nru"}) -> NruVictims(s)
    [] Is({"lfu"}) -> LfuVictims(s)
    [] Is(Rrip) -> RripVictims(s)

\* The reference bits after victim(): all cleared if every way claimed to be recent.
Forgotten(s) == IF referenced[s] = Ways THEN {} ELSE referenced[s]

-----------------------------------------------------------------------------
(* What a cache does with a set.                                           *)

Init ==
  /\ config \in Configurations
  /\ valid = [s \in Sets |-> {}]
  /\ searching = NoSet
  /\ order = [s \in Sets |-> [n \in 1 .. config.ways |-> n - 1]]
  /\ tree = [s \in Sets |-> [n \in 0 .. config.ways - 2 |-> 0]]
  /\ referenced = [s \in Sets |-> {}]
  /\ count = [s \in Sets |-> [w \in Ways |-> 0]]
  /\ rrpv = [s \in Sets |-> [w \in Ways |-> RRPV_DISTANT]]
  /\ psel = PSEL_THRESHOLD - 1
  /\ used = [s \in Sets |-> <<>>]
  /\ filled = [s \in Sets |-> <<>>]
  /\ lead = 0

\* A reference finds its block in way w of set s.
Hit(s, w) ==
  /\ searching = NoSet
  /\ w \in valid[s]
  /\ count[s][w] < MaxCount
  /\ OnHit(s, w)
  /\ used' = [used EXCEPT ![s] = ToBack(@, w)]
  /\ UNCHANGED <<config, valid, searching, filled, lead>>

Installed(s, w) ==
  /\ used' = [used EXCEPT ![s] = ToBack(@, w)]
  /\ filled' = [filled EXCEPT ![s] = ToBack(@, w)]
  /\ lead' = LeadAfter(s)

\* A block is allocated in a set with an empty way: the lowest one.
FillEmpty(s) ==
  /\ searching = NoSet
  /\ \E w \in Lowest(Ways \ valid[s]) :
       /\ valid' = [valid EXCEPT ![s] = @ \cup {w}]
       /\ OnFill(s, w, referenced[s])
       /\ Installed(s, w)
  /\ UNCHANGED <<config, searching>>

\* A block is allocated in a full set: victim() is called.
Search(s) ==
  /\ searching = NoSet
  /\ Full(s)
  /\ searching' = s
  /\ UNCHANGED <<config, valid, books, used, filled, lead>>

\* Mutant of Age: ways predicted near do not age.
SparesNear ==
  /\ searching # NoSet
  /\ Is(Rrip)
  /\ \A w \in Ways : rrpv[searching][w] # RRPV_DISTANT
  /\ rrpv' = [rrpv EXCEPT ![searching] = [w \in Ways |-> IF @[w] = RRPV_NEAR THEN @[w] ELSE @[w] + 1]]
  /\ UNCHANGED <<config, valid, searching, order, tree, referenced, count, psel, used, filled, lead>>

\* RRIP: no way is predicted distant, so the whole set ages.
Age ==
  /\ searching # NoSet
  /\ Is(Rrip)
  /\ \A w \in Ways : rrpv[searching][w] # RRPV_DISTANT
  /\ rrpv' = [rrpv EXCEPT ![searching] = [w \in Ways |-> @[w] + 1]]
  /\ UNCHANGED <<config, valid, searching, order, tree, referenced, count, psel, used, filled, lead>>

\* The victim is found and the block takes its way.
Replace ==
  /\ searching # NoSet
  /\ \E w \in Victims(searching) : OnFill(searching, w, Forgotten(searching)) /\ Installed(searching, w)
  /\ searching' = NoSet
  /\ UNCHANGED <<config, valid>>

\* A line is removed on command.
Invalidate(s, w) ==
  /\ searching = NoSet
  /\ w \in valid[s]
  /\ valid' = [valid EXCEPT ![s] = @ \ {w}]
  /\ OnInvalidate(s, w)
  /\ used' = [used EXCEPT ![s] = Without(@, w)]
  /\ filled' = [filled EXCEPT ![s] = Without(@, w)]
  /\ UNCHANGED <<config, searching, lead>>

Next ==
  \/ \E s \in Sets, w \in Ways : Hit(s, w) \/ Invalidate(s, w)
  \/ \E s \in Sets : FillEmpty(s) \/ Search(s)
  \/ Age \/ Replace

Spec == Init /\ [][Next]_vars

\* victim() runs to completion once it is called.
FairSpec == Spec /\ WF_vars(Age \/ Replace)

-----------------------------------------------------------------------------
(* Properties.                                                             *)

\* `ways' lists each member of S once.
Lists(ways, S) ==
  /\ ways \in Seq(S)
  /\ \A w \in S : \E n \in DOMAIN ways : ways[n] = w
  /\ \A m, n \in DOMAIN ways : ways[m] = ways[n] => m = n

TypeOK ==
  /\ config \in Configurations
  /\ valid \in [Sets -> SUBSET Ways]
  /\ searching \in Sets \cup {NoSet}
  /\ searching # NoSet => Full(searching)
  /\ order \in [Sets -> Seq(Ways)] /\ used \in [Sets -> Seq(Ways)] /\ filled \in [Sets -> Seq(Ways)]
  /\ \A s \in Sets : Lists(order[s], Ways) /\ Lists(used[s], valid[s]) /\ Lists(filled[s], valid[s])
  /\ tree \in [Sets -> [0 .. config.ways - 2 -> {0, 1}]]
  /\ referenced \in [Sets -> SUBSET Ways]
  /\ count \in [Sets -> [Ways -> 0 .. MaxCount]]
  /\ rrpv \in [Sets -> [Ways -> RRPV_NEAR .. RRPV_DISTANT]]
  /\ psel \in 0 .. PSEL_MAX
  /\ lead \in -PSEL_MAX .. PSEL_MAX

\* The recency policies name the victim of their definition, whatever ways were
\* emptied and filled again: LRU the way referenced longest ago, FIFO the one
\* filled longest ago, MRU the one referenced last.
RecencyVictim ==
  \A s \in Sets : Full(s) =>
    /\ Is({"lru"}) => Victims(s) = {Head(used[s])}
    /\ Is({"fifo"}) => Victims(s) = {Head(filled[s])}
    /\ Is({"mru"}) => Victims(s) = {used[s][config.ways]}

\* The docstring of TreePLRUPolicy: exact LRU for two ways; beyond that the victim
\* is, at every level of the tree, in the half that was not used last.
TreeVictimIsOld ==
  Is({"plru"}) => \A s \in Sets : Full(s) =>
    \A victim \in Victims(s), level \in 0 .. Depth - 1 :
      LET Within(n, depth) == ShiftRight(used[s][n], Depth - depth) = ShiftRight(victim, Depth - depth)
          subtree == {n \in 1 .. config.ways : Within(n, level)}
          latest == CHOOSE n \in subtree : \A m \in subtree : m <= n
      IN ~Within(latest, level + 1)

Followers == {s \in Sets : Role(s) = "follower"}

\* PSEL saturates (policies.py:463): however long one side of the duel has been
\* missing, PSEL is between its ends, and as many misses in a row of the other side
\* as half its range, wherever they began, turn the followers to the winner.
PselSaturates ==
  Is({"drrip"}) =>
    /\ psel \in 0 .. PSEL_MAX
    /\ lead >= PSEL_THRESHOLD => \A s \in Followers : Insertions(s) = Bimodal
    /\ lead <= -PSEL_THRESHOLD => \A s \in Followers : Insertions(s) = {RRPV_LONG}

\* The victim search of RRIP ends.
SearchEnds == searching # NoSet ~> searching = NoSet
=============================================================================
