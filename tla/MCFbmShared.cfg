SPECIFICATION Spec
CONSTANTS
  nMaxFrameNum = 3
  CanShare = TRUE
  Quiesced = TRUE
INVARIANTS
  BooksAgree
  NoFrameLost
  OldBuffersLeave
PROPERTIES
  EmptyFrameComes
  ImplementsUsers
