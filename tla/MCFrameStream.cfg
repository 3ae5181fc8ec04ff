CONSTANTS
  FragmentCounts <- MCFragmentCounts
  SequenceModulus = 2
  MaxFrames = 3
  MaxRuns = 2
  MaxConnections = 3
  MaxForeign = 1
SPECIFICATION FrameSpec
INVARIANTS FrameInv OnlyItsOwnFrameIsLost
PROPERTIES ImplementsPeriodStream
