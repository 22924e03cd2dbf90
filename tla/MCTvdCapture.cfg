SPECIFICATION Spec
CONSTANTS
  b1 = b1
  b2 = b2
  b3 = b3
  NoBuf = NoBuf
  Buffers <- MCBuffers
  MinBuffers = 2
  SeqMod = 4
INVARIANTS
  DmaOnlyIntoOwned
  OneOwner
  StreamIsAlive
  SequenceHasNoGap
  FramesAreFresh
PROPERTIES
  BuffersComeBack
  ImplementsQueue
