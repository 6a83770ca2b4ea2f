CONSTANTS
  Names = {"x", "y"}
  ConstantTypes = {"INT"}
  BinaryOps = {"ADD"}
  CompareOps = {"BLT"}
  Excluded <- ControlInOneFunction
  MaxGrowth = 3
SPECIFICATION Spec
INVARIANTS BranchesGoWhereTheySay
CHECK_DEADLOCK FALSE
