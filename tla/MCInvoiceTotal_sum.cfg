\* Three-bit integers, wrapping.
SPECIFICATION Spec
CONSTANTS
  Half = 4
  MaxLines = 3
INVARIANT TotalIsSum
