\* A process crash, a restart and then a power loss: is a published head ever lost?
CONSTANTS
  a = a
  b = b
  Bodies = {a, b}
  Depth = 2
  Receipt <- MCReceipt
  Faults = {"process_crash", "power_loss"}
  MaxFrames = 3
  MaxHeads = 1
SPECIFICATION Spec
INVARIANT HeadsSurvive
