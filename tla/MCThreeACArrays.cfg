SPECIFICATION Spec
CONSTANTS
  Sizes = {1, 2, 3}
  Indices <- AnyIndex
INVARIANTS
  TypeOK
  Computed
  InBounds
PROPERTIES
  Finishes
CHECK_DEADLOCK FALSE
