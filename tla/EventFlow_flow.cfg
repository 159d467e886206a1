SPECIFICATION FairSpec
CONSTANTS
  Apps = {calc, note}
  Mortal = {calc}
  Comp = compositor
  Tick = tick
  Capacity = 2
  IPC_MAX_MSG = 3
  Burst = 1
  MaxEvents = 3
  MaxLives = 2
INVARIANTS FullMeansAwake Accounted InOrder
PROPERTIES Handled Answered
