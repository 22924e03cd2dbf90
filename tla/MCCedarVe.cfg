CONSTANTS
  NoFile = NoFile
  Files = {f1, f2}
  UnitLock = "VDEC"
  Locks = {"VDEC", "04_REG"}
  MaxOpens = 3
SPECIFICATION FairSpec
INVARIANTS AnswersAreTrue ClockServesUsers
PROPERTIES LockIsGiven
CHECK_DEADLOCK FALSE
