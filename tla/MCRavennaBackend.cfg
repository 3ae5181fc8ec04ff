CONSTANTS
  StallWaits = 3
  MaxRestarts = 2
  MaxFaults = 3
SPECIFICATION FairBackendSpec
INVARIANTS BackendInv
 
CHECK_DEADLOCK FALSE
