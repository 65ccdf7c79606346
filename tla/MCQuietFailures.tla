--------------------------- MODULE MCQuietFailures ---------------------------
(* The instance of MCWitnessService with all faults, where after a failed  *)
(* append nothing is appended until the next restart: what comes behind    *)
(* the bytes that it left is the finding of WitnessIoRestart.              *)
EXTENDS MCWitnessService

VARIABLE failed     \* an append has failed in this run of the process

AppendEnds == pc # "idle" /\ pc' = "idle"

Remembered == failed' = (up' /\ (failed \/ (AppendEnds /\ tree' = tree)))

QuietAfterFailure == failed => pc' = "idle"

MCInit == Init /\ failed = FALSE

MCSpec ==
  /\ MCInit /\ [][Next /\ Remembered /\ QuietAfterFailure]_<<vars, failed>>
  /\ Fairness
=============================================================================
