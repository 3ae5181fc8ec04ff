CONSTANTS
  Size = 5
  Stamps <- MCStamps
  Target = 1
  Alarm = 2
  TrimWindow = 2
  LineLength = 1
  MaxFrames = 2
  MaxStreams = 2
  MaxStamp = 3
SPECIFICATION FairReceiveSpec
INVARIANTS ReceiveInv BacklogIsTrimmed
PROPERTIES OldStreamEnds  
