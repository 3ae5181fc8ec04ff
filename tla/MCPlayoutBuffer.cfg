CONSTANTS
  Slots = 3
  MaxPosition = 7
  CountCap = 1
  Positions <- MCPositions
SPECIFICATION FairBufferSpec
INVARIANTS PlaysSendersAudio LossIsReported BufferInv
PROPERTIES HeldIsReached ImplementsTimeline NeverOverwrites PlaysForward
