CONSTANT Configs <- Structures
SPECIFICATION Spec
INVARIANTS
  StructuresSound

  
CHECK_DEADLOCK FALSE
