\* Three-bit integers, wrapping: sums up to 27 against a range of -4 .. 3.
SPECIFICATION Spec
CONSTANTS
  Half = 4
  MaxLines = 3
INVARIANTS
  RowsAgree
  ExactBelowTwiceRange
