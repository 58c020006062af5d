SPECIFICATION FairSpec
CONSTANTS
  N = 2
  Delayed = {1}
  MaxFrames = 2
PROPERTIES
  ImplementsFile
  OutputEnds
INVARIANTS
  MuxerDrained
  TakenIsWritten
  NoUseAfterFree
