CONSTANTS
  InHdrs = {i1}
  OutHdrs = {o1}
  NoHdr = NoHdr
  AllocBufs = 1
  BitRoom = 1
  Commands <- MCCommands
  MaxCommands = 2
SPECIFICATION Spec
INVARIANTS HeadersHaveOneOwner
PROPERTIES NothingIsCutOff WaitsEnd
