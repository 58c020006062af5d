SPECIFICATION Spec
CONSTANTS
  MaxTakes = 2
  MaxBoxes = 2
  MaxSignals = 1
INVARIANTS
  AudioSinkEnabled
