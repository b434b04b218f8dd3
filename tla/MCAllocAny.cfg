SPECIFICATION Spec
CONSTANTS
  Frame = 4
  Page = 4
  HeapWords = 8
  Intercepted = FALSE
  Width = 4
  Sizes = {1}
  Counts = {2}
  Resizes = {3}
  MaxLive = 2
INVARIANTS TypeOK Accounting
CHECK_DEADLOCK FALSE
