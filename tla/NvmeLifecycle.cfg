CONSTANTS
  IoQ <- OneQ
  IoCmd <- FuaOnly
  AdminCmd <- Lifecycles
  NoCmd = NoCmd
  SqSize <- Rings2
  CqSize <- Rings2
  AerLimit = 1
  AsyncFlush = TRUE
  UnlockedIo = TRUE
  CcWrites <- Resets
SPECIFICATION Spec
INVARIANT QueuesOutliveJobs
PROPERTY AdminRunsAlone
PROPERTY ImplementsService
