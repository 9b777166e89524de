CONSTANTS
  cpu0 = cpu0
  cpu1 = cpu1
  b1 = b1
  b2 = b2
  Primary <- cpu0
  Secondaries <- OneSecondary
  Batch <- Batches1
  Fua <- Fua1
  NoBatch = NoBatch
SPECIFICATION WaitSpec
PROPERTY DrainedEventually
PROPERTY TeardownEnds
PROPERTY WaitBounded
CHECK_DEADLOCK FALSE
