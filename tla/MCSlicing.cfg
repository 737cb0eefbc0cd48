CONSTANTS
  SizeArrays <- MCSizeArrays
  BufferSizes <- MCBufferSizes
  HkdfMax = 5
SPECIFICATION Spec
INVARIANTS
  TypeOK
  SegmentsTile
  SizesHonoured
  ThrowsExactlyOnBadInput
