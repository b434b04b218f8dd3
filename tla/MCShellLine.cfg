SPECIFICATION Spec
CONSTANTS
  Size = 15
  AliasSize = 7
  Chunks <- MCChunks
  Files <- MCFiles
  Leftovers <- MCLeftovers
  Stacks <- MCStacks
  MaxKeys = 5
VIEW View
INVARIANTS ScreenIsLine RecallAlternates AliasesAreWords ParsesWords LastStreams
PROPERTY AliasRoundTrip
CHECK_DEADLOCK FALSE
