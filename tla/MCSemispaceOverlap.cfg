SPECIFICATION Spec
CONSTANTS
  o1 = o1
  o2 = o2
  o3 = o3
  Ids = {o1, o2, o3}
  Cap = 12
  PageSize = 2
  HeaderSize = 1
  MinHeap = 4
  MinNum = 1
  MinDen = 2
  MaxNum = 3
  MaxDen = 4
  InitialCommit = 6
  Requests = {1, 3, 7}
SYMMETRY Symmetry
INVARIANTS
  SurvivorsIntact
CHECK_DEADLOCK FALSE
