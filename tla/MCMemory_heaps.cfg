SPECIFICATION PartsSpec
CONSTANTS
  NPages = 10
  PageSize = 2
  LowPages = {0}
  ImagePages = {1, 2, 3}
  FixedPages = {5}
  MemoryMaps <- SmallMaps
  RunSizes = {2}
  KernelPml4 = 1
  KernelPdpt = 2
  KernelPd = 3
  High = 1
  UserFrom = 1
  UserPages <- TwoPages
  MaxSpaces = 2
  MaxHeld = 1
  KArena = 18
  KHeader = 2
  KAlign = 2
  Threads = {"t1", "t2"}
  KRequests = {1, 4}
  Values = {"a", "b"}
  MaxLive = 3
  UArena = 14
  UHeader = 2
  UAlign = 2
  Width = 32
  URequests = {0, 1, 4, 31}
  Counts = {3, 9}
INVARIANTS PagesOwned HeapsSound
PROPERTIES PagesImplemented HeapImplemented
