-------------------------- MODULE MCWitnessService --------------------------
(* Two actions, each submitted with any root of a chained log of at most   *)
(* Depth receipts as its prev_root.                                        *)
EXTENDS WitnessService

CONSTANTS Bodies, Depth

ChainedLogs[n \in Nat] ==
  IF n = 0 THEN {<< >>}
  ELSE ChainedLogs[n - 1]
         \cup {Append(log, [body |-> b, prev_root |-> log]) : log \in ChainedLogs[n - 1], b \in Bodies}

MCReceipt == [body : Bodies, prev_root : ChainedLogs[Depth]]
=============================================================================
