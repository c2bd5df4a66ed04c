CONSTANTS
  Workers = {w1, w2, w3}
  Main = Main
  Viewers = {v1}
  Concurrency = 2
  RingSize = 2
  BufferSize = 2
SPECIFICATION StreamFairSpec
INVARIANTS EachLineOnce NoSilentGap ClosingLineArrives VerdictIsLast
PROPERTIES BulkEnds
CHECK_DEADLOCK FALSE
