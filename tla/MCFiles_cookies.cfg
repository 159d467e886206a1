SPECIFICATION Spec
CONSTANTS
    Names = {"a", "bb", "cc"}
    Opened = {}
    Long = {"bb", "cc"}
    StartFiles <- ThreeFiles
    Bytes = {}
    NHandles = 2
    HeaderLen = 2
    BufLens = {4, 5}
    ReadLens = {}
    MaxSize = 0
INVARIANTS CookieIsPosition
