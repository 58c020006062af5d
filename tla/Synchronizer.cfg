SPECIFICATION Spec
CONSTANTS
  HasAudio = TRUE
  FrameTime = 1
  Skip = 1
  VideoMax = 2
  AudioMax = 3
  AudioKeep = 2
  Blocks = {2}
  Delays = {0, 1}
  MaxTime = 5
  MaxTotal = 4
INVARIANTS VideoNeverAhead VideoKeepsUp
PROPERTIES PtsIncrease AudioComplete
