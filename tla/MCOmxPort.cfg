\* Three headers, an input or an output port.
CONSTANTS
  nBufNeedSize = 3
  NoHeader = NoHeader
SPECIFICATION FairSpec
INVARIANTS OneOwner PutBackFindsItsSlot
PROPERTIES HeadersComeBack ImplementsQueue
