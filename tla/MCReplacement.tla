---------------------------- MODULE MCReplacement ----------------------------
(* Every policy on one set of four ways, and set dueling on caches of one,   *)
(* two, three and more sets of one way.                                      *)
EXTENDS Replacement

Each == {[policy |-> p, sets |-> 1, ways |-> w] : p \in Policies \ {"drrip"}, w \in {2, 4}}
Odd == {[policy |-> p, sets |-> 1, ways |-> 3] : p \in Policies \ {"drrip", "plru"}}
Dueling == {[policy |-> "drrip", sets |-> n, ways |-> 1] : n \in {1, 2, 3, 4, 5}}
           \cup {[policy |-> "drrip", sets |-> 2, ways |-> 2]}

AllPolicies == Each \cup Odd \cup Dueling
=============================================================================
