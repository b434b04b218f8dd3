SPECIFICATION FairSpec
CONSTANTS
  None = None
  AnyChild = AnyChild
  Dirs <- MCDirs
  Parent <- MCParent
  Module <- MCModule
  Pids = {p1, p2}
  MaxCommands = 3
  MaxShells = 2
  MaxMatches = 2
  Trees <- MCTrees
VIEW View
INVARIANTS TypeOK TerminalKept InputBlocks ForegroundDone ModuleRemoved PictureCurrent
PROPERTIES PsvisMoves PictureShows CommandReturns ForkRecovers
CHECK_DEADLOCK FALSE
