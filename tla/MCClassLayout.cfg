SPECIFICATION Spec
CONSTANTS
  Files <- LayoutFiles
  MaxClasses = 3
  Answers = {0, 2}
CHECK_DEADLOCK FALSE
INVARIANTS
  FieldsDisjoint
  FieldsAligned
  PointerWordsAreFields
  RegionsSound
