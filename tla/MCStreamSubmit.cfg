SPECIFICATION StreamSpec
CONSTANTS
  Size = 4
  MaxFrames = 2
  Margin = 0
  EmptyAsk = 1
  OrphanParts = FALSE
  Lens <- MCLens
  Pts = {0}
INVARIANTS
  BytesHaveOneUse
  PartialIsNext
  LostOnlyWhenFull
PROPERTIES
  RoomComesBack
