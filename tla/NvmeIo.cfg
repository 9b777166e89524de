CONSTANTS
  IoQ <- OneQ
  IoCmd <- IoCmds
  AdminCmd <- CreateOne
  NoCmd = NoCmd
  SqSize <- Admin2Io3
  CqSize <- Admin2Io3
  AerLimit = 1
  AsyncFlush = TRUE
  UnlockedIo = TRUE
  CcWrites <- EnableOnly
SPECIFICATION Spec
INVARIANT TypeOK
INVARIANT RingCapacity
INVARIANT PhaseTagsTell
INVARIANT AnsweredOnce
