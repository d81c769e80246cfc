SPECIFICATION DaemonSpec
CONSTANTS
  Modulus = 2
  ChunkSize = 1
  MaxRecovery = 1
  Crc <- TinyCrc
  JobIds <- MCJobIds
  MaxClients = 1
  MaxBacklog = 1
  Commands <- LocalCommands
  Payloads <- LocalPayloads
  Images <- ShortImages
  Faults <- Ending
  HandshakeRetries = 1
  ClientRetries = 0
  UpgradeRetries = 0
VIEW View
INVARIANTS
  AnswersBelongToRequests
  NothingLeftMapped
