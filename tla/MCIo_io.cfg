SPECIFICATION Spec
CONSTANTS
  FileNames = {"a", "bb"}
  Opened = {"a"}
  Long = {"bb"}
  StartFiles <- SomeFiles
  Payload = {"x"}
  NHandles = 2
  HeaderLen = 2
  BufLens = {4, 5}
  ReadLens = {1}
  MaxSize = 1
  NPcbs = 2
  QueueLen = 1
  BufSize = 2
  Types = {"tcp", "udp"}
  Vectors <- SomeVectors
  MaxBytes = 3
  NSectors = 3
  Chunk = 2
  Ports <- SomePorts
  Values = {"a"}
  RingSize = 2
  Width = 4
  MaxPackets = 6
  Threads = {"t1", "t2"}
  Names = {"a", "b"}
  TableSize = 2
  PingCount = 2
  MaxRuns <- SomeRuns
  NSockets = 3
  MaxRedirects = 2
  Keys = {"lshift", "rshift", "alt", "up"}
  Shifts = {"lshift", "rshift"}
  Alts = {"alt"}
  Ctrls = {}
  Extended = {"up"}
  Grey = {"up"}
  FakeShift = "lshift"
  MaxKeys = 4
  Motions <- SomeMotions
  MaxReports = 2
  Lengths = {3}
  ScreenWidth = 5
  Events = {"key", "move"}
  Capacity = 3
  Wrap = 4
INVARIANTS FilesKept SocketsOwned BytesInOrder DevicesSound AnswersOwned InputKept
PROPERTIES ReadsExact OnlyAfterTimeout InputSteps
