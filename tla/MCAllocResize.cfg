SPECIFICATION ClientFairSpec
CONSTANTS
  Frame = 6
  Page = 4
  HeapWords = 12
  Intercepted = TRUE
  Width = 100
  Sizes = {2}
  Counts = {2}
  Resizes = {2, 4}
  MaxLive = 4
  Unsafe = {"resize_by_moving"}
INVARIANT Roomy
PROPERTIES ChecksPass ImplementsHeap Returns
CHECK_DEADLOCK FALSE
