CONSTANTS
  Stream <- MCStream
  MaxPictures = 1
  MaxHeaders = 1
  MaxCommands = 1
  Kinds = {"Flush"}
SPECIFICATION VdecFairSpec
PROPERTIES EveryCommandConcludes
CHECK_DEADLOCK FALSE
