CONSTANTS
  Names = {"x"}
  ConstantTypes = {"INT", "MATRIX"}
  BinaryOps = {"ADD"}
  CompareOps = {"BLT"}
  Excluded <- ExpressionsOnly
  MaxGrowth = 3
SPECIFICATION Spec
INVARIANTS TypeOK OnlyOperandsLost
CHECK_DEADLOCK FALSE
