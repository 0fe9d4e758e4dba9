SPECIFICATION Spec
CONSTANTS
  LoginSize = 2
  RegisterSize = 3
  UshortRange = 4
  MaxLength = 4
  Messages <- MCMessages
  Junk = {0, 84, 255}
  Uninitialised <- MCUninitialised
  Pointer <- MCPointer
INVARIANTS
  UnchangedOnlyIfUniform
  PolyIsRemainder
  TableIsRemainder
  DetectsOneByte
CHECK_DEADLOCK FALSE
