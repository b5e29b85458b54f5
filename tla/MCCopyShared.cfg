SPECIFICATION Spec
CONSTANTS
  h1 = h1
  Str = Str
  Node = Node
  Cell = Cell
  Layouts <- PairLayouts
  StaticSlots = 1
  StackSlots = 1
  Handles = {h1}
INVARIANTS
  RootsFollow
CHECK_DEADLOCK FALSE
