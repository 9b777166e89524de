CONSTANTS
  cpu0 = cpu0
  cpu1 = cpu1
  cpu2 = cpu2
  Primary <- cpu0
  Secondaries <- Cpu12
  NoTime = NoTime
  MaxPauses = 2
  MaxMach = 2
SPECIFICATION LiveSpec
INVARIANT TypeOK
INVARIANT NobodyRunsPaused
INVARIANT GuestClock
PROPERTY PauseTakes
PROPERTY ParkedFreed
