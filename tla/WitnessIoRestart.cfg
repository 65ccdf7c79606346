\* A write or an fsync that fails, and a restart: is an acknowledged receipt ever lost?
CONSTANTS
  a = a
  b = b
  Bodies = {a, b}
  Depth = 2
  Receipt <- MCReceipt
  Faults = {"io_error", "process_crash"}
  MaxFrames = 3
  MaxHeads = 1
SPECIFICATION Spec
INVARIANT AckedSurvive
