SPECIFICATION Spec
CONSTANTS
  MAX_THREADS = 4
  Paths = {calc}
  NoPath = none
  Calls = {"exit", "window"}
  Spawners = {1, 2}
  DeviceIrqs = FALSE
  MaxNest = 0
INVARIANTS TypeOK RunnableHasStack
PROPERTIES NoResurrection
