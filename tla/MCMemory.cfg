CONSTANTS
  Lengths <- MCLengths
  MaxPieces = 3
  MaxBytes = 4
  MaxBuffers = 4
SPECIFICATION Spec
INVARIANTS
  TypeOK
  ContentsAsDocumented
  NothingLeftBehind
