SPECIFICATION Spec
CONSTANTS
  Lengths = {0, 3}
  Requests = {0, 2, 4, 8}
  Counts <- MCCounts
  Offsets = {"start", "current", "end", "invalid"}
  INT32_MAX = 8
  Here = "here"
  Dirs = {"d1", "d2"}
  MaxLength = 4
  SEARCH_PATH_MAX_COUNT = 2
INVARIANTS TypeOK TransfersInside ShortOnlyAtEnd
PROPERTIES LoopReadsAll ReaderEnds
