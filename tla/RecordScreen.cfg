SPECIFICATION Spec
CONSTANTS
  MaxTakes = 3
  MaxBoxes = 3
  MaxSignals = 2
INVARIANTS
  RecordingInReach
  InputsFollowOutput
  OutputOutlivesSaving
  OutputHasItsFile
  SharedIsSettled
PROPERTIES
  SavedIsKept
