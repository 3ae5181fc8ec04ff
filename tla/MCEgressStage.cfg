CONSTANTS
  a = a
  b = b
  Period = 2
  MaxDelay = 2
  Fade = 2
  MaxPending = 1
  Posters <- MCPosters
  Dials <- MCDials
SPECIFICATION EgressSpec
INVARIANTS OutputIsContinuous ReadsWhatWasWritten 
PROPERTIES  TriggerIsPlaced
