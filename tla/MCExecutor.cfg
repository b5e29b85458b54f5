SPECIFICATION Spec
CONSTANTS
  Width = 4
  ByteWidth = 1
  Slots = 4
  StackSize = 2
  FrameSize <- MCFrameSize
  MaxObjects = 3
  PcLimit = 12
  Code <- MCCode
  ArgCount <- MCArgCount
  Entry = {"divide", "convert", "upper", "float", "fields",
           "text", "wider", "widerload", "objects", "missing", "static", "deep", "virtual", "dynamic",
           "make", "clobbered", "store", "put"}
  Strings <- MCStrings
  Loadable <- MCLoadable
  StaticFields <- MCStaticFields
  StaticMethods <- MCStaticMethods
  Vmt <- MCVmt
  IsSuperclass <- MCIsSuperclass
CHECK_DEADLOCK FALSE
INVARIANTS
  MachineSound
  OnlyWidthsStray
PROPERTIES
  FailedHasNoEffect
  CallersUntouched
