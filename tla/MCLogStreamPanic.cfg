CONSTANTS
  Workers = {w1, w2, w3}
  Main = Main
  Viewers = {v1}
  Concurrency = 2
  RingSize = 2
  BufferSize = 2
SPECIFICATION StreamFairSpec
INVARIANTS ViewersAreHarmless
CHECK_DEADLOCK FALSE
