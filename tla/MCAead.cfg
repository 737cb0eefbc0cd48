CONSTANTS
  key1 = key1
  key2 = key2
  nonce12 = nonce12
  nonce24 = nonce24
  header = header
  empty = empty
  message = message
  Keys <- MCKeys
  Nonces12 <- MCNonces12
  Nonces24 <- MCNonces24
  Aads <- MCAads
  EmptyAad = empty
  Messages <- MCMessages
  Malformed = Malformed
  Altered = Altered
  Short = Short
  MaxSealed = 2
SPECIFICATION Spec
INVARIANTS
  TypeOK
  ErrorsTellTheTruth
PROPERTY ImplementsIdeal
