CONSTANTS
  sha256 = sha256
  sha512 = sha512
  blake3 = blake3
  odd = odd
  sharedKey = sharedKey
  oddKey = oddKey
  iv1 = iv1
  iv2 = iv2
  brief = brief
  long = long
  Sessions <- MCSessions
  EncKeys <- MCKeys
  EncKey <- MCKey
  MacKeys <- MCKeys
  MacKey <- MCKey
  OddKeys <- MCOddKeys
  MacOf <- MCMacOf
  Ivs <- MCIvs
  Messages <- MCMessages
  Blocks <- MCBlocks
  Mangled = Mangled
  NoTag = NoTag
  Garbage = Garbage
  MaxSealed = 2
SPECIFICATION Spec
INVARIANTS
  TypeOK
  NoPaddingError
PROPERTY ImplementsIdeal
