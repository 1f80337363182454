------------------------------- MODULE Indexing -------------------------------
(***************************************************************************)
(* cachesim/indexing.py: how a block number chooses its set.               *)
(***************************************************************************)
EXTENDS Integers

IndexNames == {"modulo", "xor"}

\* 1 << k
Power[k \in Nat] == IF k = 0 THEN 1 ELSE 2 * Power[k - 1]

IsPowerOfTwo(n) == \E k \in 0 .. n : Power[k] = n

\* The set counts make_index accepts for the named function.
IndexDefined(name, numSets) == numSets >= 1 /\ (name = "xor" => IsPowerOfTwo(numSets))

\* The ^= of the fold, on numbers below `size'.
Xor(size, x, y) ==
  LET xor[p \in (0 .. size - 1) \X (0 .. size - 1)] ==
        IF p = <<0, 0>> THEN 0 ELSE (2 * xor[<<p[1] \div 2, p[2] \div 2>>]) + ((p[1] + p[2]) % 2)
  IN xor[<<x, y>>]

\* Mutant of XorIndex: the loop runs once, so the high-order bits are ignored.
OneChunk(numSets, block) == block % numSets

\* The block number is cut into chunks of log2(numSets) bits, and all of them are
\* XOR-ed.
XorIndex(numSets, block) ==
  LET folded[b \in 0 .. block] ==
        IF b = 0 THEN 0 ELSE Xor(numSets, b % numSets, folded[b \div numSets])
  IN IF numSets = 1 THEN 0 ELSE folded[block]

IndexOf(name, numSets, block) ==
  IF name = "modulo" THEN block % numSets ELSE XorIndex(numSets, block)
===============================================================================
