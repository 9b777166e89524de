CONSTANTS
  IoQ <- TwoQ
  IoCmd <- FuaOnly
  AdminCmd <- SharedCq
  NoCmd = NoCmd
  SqSize <- Rings2
  CqSize <- Rings2
  AerLimit = 1
  AsyncFlush = TRUE
  UnlockedIo = FALSE
  CcWrites <- Shutdowns
SPECIFICATION Spec
INVARIANT NoStrandedWork
INVARIANT ServiceInvariant
PROPERTY ShutdownStopsFetching
