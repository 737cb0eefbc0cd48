CONSTANTS
  Crumb = {0, 1}
  Zero = 0
  SpecialSymbols <- MCSpecialSymbols
  Letters <- MCLetters
  Messages <- MCMessages
  Strings <- MCStrings
  NotAString = NotAString
  NotABuffer = NotABuffer
SPECIFICATION Spec
INVARIANTS
  TypeOK
  RoundTrip
  Canonical
  NodeAgrees
  ValidatorsAgree
