SPECIFICATION TimedSpec
CONSTANTS
  Modulus = 1000
  SidModulus = 3
  SampleModulus = 2
  ChunkSize = 1
  MaxRecovery = 3
  Crc <- MCCrc
  FlashCrc <- MCCrc
  FailVerify = FALSE
  MallocFails = FALSE
  FlashFails = FALSE
  Targets = {"simulator"}
  Upgrades <- MCUpgrades
  MaxOperations = 1
  Capacity = 2
  UpgradeRetries = 4
  Timeout = 40
  RetryInterval = 15
  TimerPeriod = 2
  Outage = 120
  Percents = {0, 42, 100}
  MaxLag = 2
INVARIANTS
  OutageForcesRecovery
PROPERTIES
  KeepsDeadlines
  UpgradeCompletes
CHECK_DEADLOCK FALSE
