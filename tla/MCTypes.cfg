CONSTANT Configs <- Types
SPECIFICATION Spec
INVARIANTS
  TypesSound
PROPERTIES
  ChangesSeen
  TypesRefine
CHECK_DEADLOCK FALSE
