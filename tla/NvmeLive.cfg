CONSTANTS
  IoQ <- OneQ
  IoCmd <- TwoCmds
  AdminCmd <- TwoAers
  NoCmd = NoCmd
  SqSize <- Rings2
  CqSize <- Rings2
  AerLimit = 1
  AsyncFlush = TRUE
  UnlockedIo = TRUE
  CcWrites <- EnableOnly
SPECIFICATION LiveSpec
PROPERTY EveryIoAnswered
INVARIANT AnsweredOnce
