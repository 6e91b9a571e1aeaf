SPECIFICATION Spec
CONSTANTS
  Programs <- MCPrograms
  None = None
CHECK_DEADLOCK FALSE
INVARIANTS Kept Refused
PROPERTIES Progress
