CONSTANTS
  Capacity = 3
  MaxBatch = 4
  IndexModulus = 12
  CountCap = 1
  Period = 2
SPECIFICATION FairDeviceSpec
INVARIANTS DeviceInv
PROPERTIES ImplementsAudioQueue EngineComesBack
CHECK_DEADLOCK FALSE
