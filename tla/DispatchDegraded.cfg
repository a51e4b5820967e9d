\* No VMC tasks, and a host that keeps more in flight than the CQ has slots.
SPECIFICATION FairSpec
CONSTANTS
  Cmds = {c1, c2, c3}
  NoCmd = NoCmd
  QLen = 1
  NSlots = 2
  Window = 3
  VmcReady = FALSE
INVARIANTS
  CqNeverOverrun
PROPERTIES
  OpcodePathIsOpen
\* The program task may stop for good.
CHECK_DEADLOCK FALSE
