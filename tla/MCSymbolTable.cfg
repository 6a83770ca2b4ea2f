CONSTANTS
  a = a
  b = b
  long1 = long1
  long2 = long2
  long = long
  NULL = NULL
  HT_OK = HT_OK
  HT_ALREADYEXISTS = HT_ALREADYEXISTS
  HT_NOTFOUND = HT_NOTFOUND
  AlreadyDefined = AlreadyDefined
  Unknown = Unknown
  Nothing = Nothing
  Names <- MCNames
  Cut <- MCCut
  Size = 2
  DoHash <- MCDoHash
  MaxGenerated = 2
SPECIFICATION Spec
INVARIANTS TypeOK EverySymbolListedOnce OnlyCutNamesConfused
PROPERTY ImplementsMap
CHECK_DEADLOCK FALSE
