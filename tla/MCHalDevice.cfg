CONSTANTS
  Capacity = 2
  MaxBatch = 3
  MaxWritten = 6
  MaxFaults = 2
SPECIFICATION HalSpec
INVARIANTS HalInv RestartsLoseNothingSilently
PROPERTIES IndicesNeverGoBack
