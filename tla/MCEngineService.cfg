CONSTANTS
  main = main
  receive = receive
  link = link
  Callers <- OneCaller
  Loops <- MCLoops
  MaxEngines = 3
SPECIFICATION FairServiceSpec
INVARIANTS   ReportIsTrue
 
CHECK_DEADLOCK FALSE
