CONSTANTS
  Capacity = 2
  MaxBatch = 2
  MaxWritten = 2
  MaxFaults = 0
SPECIFICATION HalSpec
INVARIANTS DirectionsAreApart
