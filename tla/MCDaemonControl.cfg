CONSTANTS
  Nothing = Nothing
  a = a
  b = b
  far = far
  Main = main
  Configs <- MCConfigs
  Announced <- MCAnnounced
  Setups <- MCSetups
  Requests <- MCRequests
  Handlers <- MCHandlers
  Attempts = 2
  MaxStops = 1
SPECIFICATION FairDaemonSpec
PROPERTIES AnsweredMeansDone EverythingIsAnswered
