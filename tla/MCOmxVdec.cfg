CONSTANTS
  Stream <- MCStream
  MaxPictures = 1
  MaxHeaders = 1
  MaxCommands = 2
  Kinds = {"Flush", "Idle", "Execute", "Pause", "Disable", "Quit"}
SPECIFICATION VdecFairSpec
INVARIANTS EngineIsQuiet ChangeIsClean
PROPERTIES CommandsConclude WorkersArePausable
CHECK_DEADLOCK FALSE
