\* A flash command that failed is sent again without a reboot.
SPECIFICATION Spec
CONSTANTS
  Images = {i1, i2}
  Length <- MixedLength
  Cap = 4
  SectorPages = 2
  FrontSectors = 1
  Blank = Blank
  Junk = Junk
  Foreign = Foreign
  Flags = {"default"}
  Restarts = FALSE
  DebugCmds = FALSE
PROPERTIES
  BackupOnlyWhileDefaultBoots
