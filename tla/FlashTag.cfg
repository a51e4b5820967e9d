\* Legacy commands as well, one image too long for its partition.
SPECIFICATION Spec
CONSTANTS
  Images = {i1, i2}
  Length <- LongLength
  Cap = 4
  SectorPages = 2
  FrontSectors = 1
  Blank = Blank
  Junk = Junk
  Foreign = Foreign
  Flags = {"default", "no_backup", "legacy"}
  Restarts = TRUE
  DebugCmds = TRUE
INVARIANTS
  TagMeansComplete
PROPERTIES
  NeighbourOnlyWhenFull
