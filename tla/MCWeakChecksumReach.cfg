SPECIFICATION Spec
CONSTANTS
  Modulus = 8
  Sizes = {2, 3}
  ByteValues <- MCByteValues
INVARIANTS
  AccessesAsDocumented
