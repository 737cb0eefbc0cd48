CONSTANTS
  Calls <- MCCalls
  NaN = NaN
  Modulus = 32
  HkdfMax = 8
  Sha512Max = 16
  MaxRandom = 20
  PrkSize = 4
  Blake3Size = 4
  MinSalt = 2
  MinTag = 2
  LaneBlocks = 2
  MaxLanes = 2
SPECIFICATION Spec
INVARIANTS
  TypeOK
  HkdfExact
  HonouredBelowWidth
  NoWeakKey
  RefusesOnlyArgon2Minima
