CONSTANTS
  Names = {"x"}
  ConstantTypes = {"INT"}
  BinaryOps = {"ADD"}
  CompareOps = {"BLT"}
  Excluded <- LogicOnly
  MaxGrowth = 4
SPECIFICATION Spec
INVARIANTS HangsExactlyWhenExitsMerge UnresolvedOnlyBeforeAnd FarthestExitWins
CHECK_DEADLOCK FALSE
