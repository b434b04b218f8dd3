SPECIFICATION ClientSpec
CONSTANTS
  Frame = 8
  Page = 4
  HeapWords = 24
  Intercepted = TRUE
  Width = 100
  Sizes = {2, 5}
  Counts = {}
  Resizes = {}
  MaxLive = 8
  Unsafe = {}
VIEW View
INVARIANTS NoCrash Tiled Linked Coalesced Intact Drained
CHECK_DEADLOCK FALSE
