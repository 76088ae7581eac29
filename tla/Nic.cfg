SPECIFICATION Spec
CONSTANTS
  Kinds <- MCKinds
  PageStart = 4
  PageStop = 9
  MaxFrames = 5
  MaxSends = 2
  MaxSetups = 2
INVARIANTS RingOK WholeFrames Interrupted
PROPERTIES FramesRead TxTold
