CONSTANTS
  Names = {"x"}
  ConstantTypes = {"INT"}
  BinaryOps = {"ADD"}
  CompareOps = {"BLT"}
  Excluded <- ControlOnly
  MaxGrowth = 4
SPECIFICATION Spec
INVARIANTS BranchesMoveWithTheirConstruct LabelsExist
PROPERTY LabelsWrittenOnce
CHECK_DEADLOCK FALSE
