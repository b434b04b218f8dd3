SPECIFICATION ClientSpec
CONSTANTS
  Frame = 8
  Page = 4
  HeapWords = 16
  Intercepted = TRUE
  Width = 100
  Sizes = {2}
  Counts = {}
  Resizes = {}
  MaxLive = 3
  Unsafe = {"tight_fit"}
INVARIANT Intact
CHECK_DEADLOCK FALSE
