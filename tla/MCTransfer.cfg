SPECIFICATION TransferSpec
CONSTANTS
  Modulus = 1000
  SidModulus = 3
  SampleModulus = 3
  ChunkSize = 2
  MaxRecovery = 2
  Crc <- MCCrc
  FlashCrc <- MCCrc
  FailVerify = FALSE
  MallocFails = FALSE
  FlashFails = TRUE
  Targets = {"simulator", "stm32"}
  Upgrades <- MCUpgrades
  MaxOperations = 2
  Capacity = 3
  UpgradeRetries = 2
VIEW View
INVARIANTS
  FlashIsPrefix
  HostFollowsDevice
  VerifyReadsWrittenFlash
  SimulatorToleratesRetries
PROPERTIES
  KeepsPromise
CHECK_DEADLOCK FALSE
