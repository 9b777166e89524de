CONSTANTS
  w1 = w1
  w2 = w2
  Disk <- Disks2
  Worker <- Workers1
  Written <- NoDisk
  NoWorker = NoWorker
  Modes <- AllModes
  Within = 1
  Lag = 1
  Failures = TRUE
SPECIFICATION LiveSpec
INVARIANT TypeOK
INVARIANT DurableWithin
PROPERTY DebtKept
PROPERTY DebtPaid
