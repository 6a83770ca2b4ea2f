CONSTANTS
  x = x
  y = y
  c = c
  d = d
  f = f
  g = g
  s = s
  t = t
  l0 = l0
  l1 = l1
  l2 = l2
  l3 = l3
  l4 = l4
  lost = lost
  NULL = NULL
  Symbols <- MCSymbols
  Type <- MCType
  Constant <- MCConstant
  Data <- MCData
  Word <- MCWord
  Result <- MCResult
  Taken <- MCTaken
  Junk <- MCJunk
  MAX_REGISTERS = 3
SPECIFICATION MCSpec
INVARIANT TypeOK
PROPERTIES ImplementsQuads ForwardProgramsReturn
CHECK_DEADLOCK FALSE
