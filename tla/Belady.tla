-------------------------------- MODULE Belady --------------------------------
(***************************************************************************)
(* next_use_indices of cachesim/opt.py.  Indices count from 1 here and     *)
(* from 0 in the code.                                                     *)
(***************************************************************************)
EXTENDS Integers, Sequences

\* Compares greater than any index.
Never(blocks) == Len(blocks) + 1

\* Where the block referenced at n is referenced next, or Never.
NextUse(blocks, n) ==
  LET later == {m \in n + 1 .. Len(blocks) : blocks[m] = blocks[n]}
  IN IF later = {} THEN Never(blocks) ELSE CHOOSE m \in later : \A k \in later : m <= k
===============================================================================
