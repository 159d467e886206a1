SPECIFICATION SpecDesktop
CONSTANTS
  MAX_THREADS = 4
  Paths = {calc}
  NoPath = none
  Calls = {"sleep", "exit"}
  Spawners = {1}
  DeviceIrqs = TRUE
  MaxNest = 1
INVARIANTS IdleAvailable
PROPERTIES Acknowledged ReadyRunsOrPreempted
