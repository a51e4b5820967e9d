\* Calls on two stacked chips, some transfers of which fail.
SPECIFICATION Spec
CONSTANTS
  Stacked = TRUE
  PageCells = 2
  SectorCells = 4
  ChipCells = 8
  NumDie = 2
  Calls <- MCCalls
  Retries = 1
  MaxCalls = 2
  MaxFaults = 2
  MaxLost = 1
INVARIANTS StaysInReach OkMeansDone
PROPERTIES EveryCallEnds
CHECK_DEADLOCK FALSE
