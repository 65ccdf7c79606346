\* Relying parties reconcile heads of a service whose operator may cheat, and that
\* is killed, or loses power, or runs on after writes and fsyncs that fail.
CONSTANTS
  a = a
  b = b
  Bodies = {a, b}
  Depth = 1
  Receipt <- MCReceipt
  Faults = {"process_crash", "power_loss", "io_error"}
  MaxFrames = 3
  MaxHeads = 2
SPECIFICATION MCSpec
INVARIANTS
  ConsistentMeansOneHistory
  HonestLogNeverForked
  HonestHeadsServed
  AckedOnDevice
