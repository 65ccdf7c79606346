\* The witness under process crashes, power losses and I/O errors, in any order, with
\* a restart between a failed append and the next one.
CONSTANTS
  a = a
  b = b
  Bodies = {a, b}
  Depth = 2
  Receipt <- MCReceipt
  Faults = {"process_crash", "power_loss", "io_error"}
  MaxFrames = 3
  MaxHeads = 1
SPECIFICATION MCSpec
INVARIANTS
  TypeOK
  AckedSurvive
  OnlyTailTorn
  ServedLogChained
PROPERTIES
  ImplementsAppendOnlyLog
  SyncedIsServed
