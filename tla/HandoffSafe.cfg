CONSTANTS
  cpu0 = cpu0
  cpu1 = cpu1
  b1 = b1
  b2 = b2
  Primary <- cpu0
  Secondaries <- OneSecondary
  Batch <- Batches2
  Fua <- Fua1
  NoBatch = NoBatch
SPECIFICATION Spec
INVARIANT TypeOK
INVARIANT NoLostCompletion
INVARIANT AwokenByFinish
INVARIANT OneAnswer
INVARIANT RamOutlivesTransfers
CHECK_DEADLOCK FALSE
