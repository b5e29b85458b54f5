SPECIFICATION Spec
CONSTANTS
  MaxSlots = 42
  HeaderSlots = 8
  PointerBytes = 8
  Methods = {"leaf", "node", "wide"}
  Layout <- MethodLayout
  ArgTypes <- MethodArgs
  ReturnAddresses = {1, 2}
  ReturnOffsets = {0, 2}
INVARIANTS
  FramesSound
  RootsAreObjects
  ArgsDelivered
PROPERTIES
  PrologueWritesAbove
  ImplementsCallStack
CHECK_DEADLOCK FALSE
