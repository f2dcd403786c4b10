CONSTANTS
  Contexts = {c1, c2, c3}
  None = None
SPECIFICATION Spec
INVARIANT DeletedIsUnnecessary
CHECK_DEADLOCK FALSE
