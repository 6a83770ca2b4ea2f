CONSTANTS
  a = a
  b = b
  k = k
  NULL = NULL
  Symbols <- MCSymbols
  Constant <- MCConstant
  MaxQuads = 3
  Garbage <- MCGarbage
SPECIFICATION Spec
INVARIANTS TypeOK LifetimeTight WarnedMeansUsedAtMostOnce
SYMMETRY Symmetry
CHECK_DEADLOCK FALSE
