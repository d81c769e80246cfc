SPECIFICATION DaemonSpec
CONSTANTS
  Modulus = 3
  ChunkSize = 1
  MaxRecovery = 1
  Crc <- MCCrc
  JobIds <- MCJobIds
  MaxClients = 1
  MaxBacklog = 1
  Commands <- UpgradeCommands
  Payloads <- MCPayloads
  Images <- MCImages
  Faults <- Leaving
  HandshakeRetries = 0
  ClientRetries = 0
  UpgradeRetries = 1
VIEW View
INVARIANTS
  WorkerInv
  UpgradeHoldsImage
  UpgradeIsWaitedFor
  OutcomeIsConsistent
PROPERTIES
  WorkerProtocol
  OutcomesStay
