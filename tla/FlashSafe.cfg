\* Commands with and without backup, retries, restarts and debug commands.
SPECIFICATION Spec
CONSTANTS
  Images = {i1, i2}
  Length <- MixedLength
  Cap = 4
  SectorPages = 2
  FrontSectors = 1
  Blank = Blank
  Junk = Junk
  Foreign = Foreign
  Flags = {"default", "no_backup"}
  Restarts = TRUE
  DebugCmds = TRUE
INVARIANTS
  TypeOK
  SomeImageBootable
  
  BackupIsDefault
