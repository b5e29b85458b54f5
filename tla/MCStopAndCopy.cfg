SPECIFICATION Spec
CONSTANTS
  h1 = h1
  Str = Str
  Node = Node
  Cell = Cell
  Layouts <- AllLayouts
  StaticSlots = 1
  StackSlots = 1
  Handles = {h1}
INVARIANTS
  CopiesInPlace
  CopiesFaithful
  NoFromSpaceReference
  CopiesReachable
PROPERTIES
  Terminates
CHECK_DEADLOCK FALSE
