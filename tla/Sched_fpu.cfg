SPECIFICATION Spec
CONSTANTS
  MAX_THREADS = 4
  Paths = {calc}
  NoPath = none
  Calls = {"exit"}
  Spawners = {1}
  DeviceIrqs = FALSE
  MaxNest = 0
PROPERTIES FpuIsolation
