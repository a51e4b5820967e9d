\* Three commands of any type, a CQ of two slots, a host window of two.
SPECIFICATION FairSpec
CONSTANTS
  Cmds = {c1, c2, c3}
  NoCmd = NoCmd
  QLen = 1
  NSlots = 2
  Window = 2
  VmcReady = TRUE
INVARIANTS
  TypeOK
  HeldSomewhere
  AnsweredOnce
  ReplyIsOutcome
  OneRequestInFlight
PROPERTIES
  EveryCommandAnswered
