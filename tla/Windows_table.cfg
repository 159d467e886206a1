SPECIFICATION SpecOpened
CONSTANTS
  calc = calc
  note = note
  term = term
  view = view
  desktop = desktop
  Threads = {calc, note, term, view}
  Desktop = desktop
  Fixed = {calc}
  Quitters = {view}
  MAX_WINDOWS = 3
  MaxClicks = 3
  MaxStarts = 1
INVARIANTS NoDangling KeysOnTop FitsUnlessMaximised
PROPERTIES StackingKept
CHECK_DEADLOCK FALSE
