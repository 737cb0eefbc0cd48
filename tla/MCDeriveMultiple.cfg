CONSTANTS
  SizeArrays <- MCSizeArrays
  BufferSizes <- MCBufferSizes
  HkdfMax = 5
SPECIFICATION Spec
INVARIANT OneKeyPerRequestedLength
