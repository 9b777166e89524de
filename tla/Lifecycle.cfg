CONSTANTS
  N = 2
  None = None
  MaxStarts = 2
  MaxResets = 1
SPECIFICATION LiveSpec
INVARIANT TypeOK
INVARIANT StartsAsAsked
INVARIANT BarrierHolds
INVARIANT Verdict
PROPERTY VmEnds
CHECK_DEADLOCK FALSE
