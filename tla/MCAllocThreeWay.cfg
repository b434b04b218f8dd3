SPECIFICATION ClientFairSpec
CONSTANTS
  Frame = 24
  Page = 4
  HeapWords = 24
  Intercepted = TRUE
  Width = 100
  Sizes = {2}
  Counts = {}
  Resizes = {}
  MaxLive = 6
  Unsafe = {"three_way"}
PROPERTY Returns
CHECK_DEADLOCK FALSE
