CONSTANTS
  WrongType = WrongType
  Empty = Empty
  Garbled = Garbled
  HasOpus = TRUE
  http = http
  Bodies <- MCBodies
  FirstFile <- Base
  Dials <- MCDials
  Savers <- OneSaver
SPECIFICATION ControlSpec
INVARIANTS  AcceptedIsPrepared
 
CHECK_DEADLOCK FALSE
