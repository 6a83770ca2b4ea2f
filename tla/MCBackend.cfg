CONSTANTS
  x = x
  y = y
  c = c
  l0 = l0
  l3 = l3
  NULL = NULL
  Foreign = Foreign
  Garbage <- MCGarbage
  Symbols <- MCSymbols
  Type <- MCType
  Constant <- MCConstant
  Data <- MCData
  Size <- MCSize
  Word <- MCWord
  Result <- MCResult
  Taken <- MCTaken
  Junk <- MCJunk
  MAX_REGISTERS = 2
  MaxQuads = 3
SPECIFICATION MCSpec
PROPERTIES WrongOnlyWhenSpilled ReturnsOrWarns
CHECK_DEADLOCK FALSE
