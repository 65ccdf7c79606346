--------------------------- MODULE MCWitnessGossip ---------------------------
(* Two actions, each submitted with any root of a chained log of at most   *)
(* Depth receipts as its prev_root.  A behaviour has faults of one kind.   *)
EXTENDS WitnessGossip

CONSTANTS Bodies, Depth

VARIABLE kind

ChainedLogs[n \in Nat] ==
  IF n = 0 THEN {<< >>}
  ELSE ChainedLogs[n - 1]
         \cup {Append(log, [body |-> b, prev_root |-> log]) : log \in ChainedLogs[n - 1], b \in Bodies}

MCReceipt == [body : Bodies, prev_root : ChainedLogs[Depth]]

\* A process that dies leaves the file alone; what a power loss leaves is on the device.
OneKind ==
  /\ UNCHANGED kind
  /\ pc # "idle" /\ pc' = "idle" /\ UNCHANGED <<up, tree>> => kind = "io_error"
  /\ kind = "io_error" => up'
  /\ kind = "process_crash" /\ ~up' => UNCHANGED <<file, synced>>
  /\ kind = "power_loss" /\ ~up' =>
       \A i \in synced' + 1 .. Len(file') : file'[i].written # "whole"

MCInit == GossipInit /\ kind \in Faults

MCSpec == MCInit /\ [][GossipNext /\ OneKind]_<<gossipVars, kind>>
=============================================================================
