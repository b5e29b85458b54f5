SPECIFICATION Spec
CONSTANTS
  Base = Base
  Left = Left
  Right = Right
  Both = Both
  Ring1 = Ring1
  Ring2 = Ring2
  Bad = Bad
  Lost = Lost
  Orphan = Orphan
  Other = Other
  Cap = 8
  Committed = 6
  Names <- AllNames
  Files <- AllFiles
CHECK_DEADLOCK FALSE
INVARIANTS
  TypeOK
  OrderIndependent
  LoadingIsInProgress
  OneClassPerName
  TableEntries
PROPERTIES
  LoadsEnd
