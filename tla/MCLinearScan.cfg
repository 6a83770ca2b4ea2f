CONSTANTS
  MaxSymbols = 5
  Symbols <- MCSymbols
  Size <- MCSize
  MAX_REGISTERS = 2
  MaxPoint = 2
  NULL = NULL
  Foreign = Foreign
SPECIFICATION MCSpec
INVARIANTS
  TypeOK NoClobber RegistersMatchActive NoDoubleFree OverflowMeansPressure
  SpillOnlyAfterOverflow StackSlotsDisjoint CompleteWhenSilent
PROPERTY SpilledEndsLast
CHECK_DEADLOCK FALSE
