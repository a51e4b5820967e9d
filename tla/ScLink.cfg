SPECIFICATION Spec
CONSTANTS
  Fifo = 4
  AckLen = 2
  VersionLen = 3
  SensorLen <- Lengths
  BufMax = 12
  MaxFaults = 2
INVARIANTS BelievesOnlyWhatScDid NoAnswerLostByUs
PROPERTIES LinkRecovers
