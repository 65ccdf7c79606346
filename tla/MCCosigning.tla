---------------------------- MODULE MCCosigning ----------------------------
(* A log that forks at its first entry and goes on with one branch, and    *)
(* that signs two roots for its empty tree.                                *)
EXTENDS Cosigning, TLC

CONSTANTS a, b, w1, w2, w3, w4

MCSigned ==
  {[size |-> Len(log), root |-> log] : log \in {<< >>, <<a>>, <<b>>, <<b, a>>}}
    \cup {[size |-> 0, root |-> <<a>>]}

SteadyWitnesses == Permutations({w1, w2, w3})

ASSUME QuorumsOverlap
=============================================================================
