SPECIFICATION Spec
CONSTANTS
  Modulus = 8
  Sizes = {1, 2, 3}
  ByteValues <- MCByteValues
INVARIANTS
  RollingIsDirect
