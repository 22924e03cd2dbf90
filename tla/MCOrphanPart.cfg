SPECIFICATION StreamSpec
CONSTANTS
  Size = 4
  MaxFrames = 2
  Margin = 0
  EmptyAsk = 1
  OrphanParts = TRUE
  Lens <- MCLens
  Pts = {0}
INVARIANTS
  GrantIsFree
