\* Downloads, clock scalings, limits and shutdowns over one another.
SPECIFICATION Spec
CONSTANTS
  Layouts <- MCLayouts
  ActivityMax = 2
  ActivityFloor = 1
  CritWait = 2
  Powers = {3, 6}
  Currents = {1, 2}
  Critical = 6
  ThermalPowers <- MCThermal
  BoardPower = 4
  IdlePower = 1
  Limits = {0, 2}
  MaxLoads = 1
  MaxOps = 1
  MaxShuts = 1
INVARIANTS LoadIsolated DownloadEndsOpen OverrideHasLimit RestIsIntact
PROPERTIES OverPowerSlowsDown SustainedPowerShuts KernelClockComesBack
