SPECIFICATION Spec
CONSTANTS
  Size = 4
  MaxFrames = 3
  Margin = 1
  Lens <- MCLens
  Pts = {1, 2}
INVARIANTS
  NeverAborts
  GrantIsFree
  GrantIsHonoured
PROPERTIES
  ImplementsFifo
