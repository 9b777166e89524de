CONSTANTS
  Cpu = {0, 1}
  Shared = Shared
  Spi = {40}
  Private <- SgiAndTimer
  Prio = {2, 4}
  Nowhere = Nowhere
  Device = Device
  First <- Start
  Masks = {4, 255}
  MaxWrites = 1
SPECIFICATION Spec
INVARIANT TypeOK
INVARIANT NoMissedRise
INVARIANT NestingOrdered
PROPERTY LostByClearingOnly
