CONSTANTS
  w1 = w1
  w2 = w2
  Disk <- Disks2
  Worker <- Workers2
  Written <- OneDisk
  NoWorker = NoWorker
  Modes <- AllModes
  Within = 1
  Lag = 1
  Failures = FALSE
SYMMETRY Symmetric
SPECIFICATION Spec
INVARIANT DurableWithin
INVARIANT ShutdownDurable
