CONSTANTS
  N = 2
  None = None
  MaxStarts = 2
  MaxResets = 1
SPECIFICATION Spec
INVARIANT HandlesLive
CHECK_DEADLOCK FALSE
