CONSTANTS
  one = one
  two = two
  Floats <- MCFloats
  Garbage = Garbage
  MaxRows = 3
  MaxColumns = 3
SPECIFICATION Spec
INVARIANTS TypeOK LiteralMeansItsText RaggedRefused OnlyTheLiteralLeft
CHECK_DEADLOCK FALSE
