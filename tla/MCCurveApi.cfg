CONSTANTS
  Scalars <- MCScalars
  Zero = 0
  SAdd <- MCSAdd
  SMul <- MCSMul
  SNeg <- MCSNeg
  Points <- MCPoints
  Base <- MCBase
  Add <- MCAdd
  Neg <- MCNeg
  Mult <- MCMult
  IsSmallOrder <- MCIsSmallOrder
  Y <- MCY
  IsNegative <- MCIsNegative
  OffCurve <- MCOffCurve
  PrivateKeys <- MCPrivateKeys
  Messages <- MCMessages
  Randoms <- MCRandoms
  ScalarBytes <- MCScalarBytes
  ScalarOf <- MCScalarOf
  SeedScalar <- MCSeedScalar
  SeedNonce <- MCSeedNonce
  RandomNonce <- MCRandomNonce
  Challenge <- MCChallenge
  Us <- MCUs
  SmallUs <- MCSmallUs
  ZeroU <- MCZeroU
  Ladder <- MCLadder
  Malformed = Malformed
  MaxSigned = 1
SPECIFICATION Spec
INVARIANTS
  TypeOK
  SignaturesVerify
  NoMauling
  BindsMessage
  SecretsAgree
  ZeroSecretFromSmallOrder
