SPECIFICATION InputSpec
CONSTANTS
  OperandWidths = {2, 5}
  Unit = 2
  ByteBase = 8
  MaxArguments = 4
  Fields <- SomeFields
  Pools = {0, 7}
  ClassFiles <- SomeFiles
  NameBytes = {0, 1}
  LongTable = 3
  ShortTable = 2
  Chains <- SomeChains
  Sought <- LongNames
INVARIANTS
  WordOperations
  DivisionIdentity
  PackedWordsReadBack
  WalksEnd
  LookupAnswers
  SearchStopsShort
CHECK_DEADLOCK FALSE
