SPECIFICATION DaemonSpec
CONSTANTS
  Modulus = 3
  ChunkSize = 1
  MaxRecovery = 1
  Crc <- MCCrc
  JobIds <- MCJobIds
  MaxClients = 2
  MaxBacklog = 1
  Commands <- StreamCommands
  Payloads <- NoPayload
  Images <- MCImages
  Faults <- Leaving
  HandshakeRetries = 0
  ClientRetries = 1
  UpgradeRetries = 1
VIEW View
INVARIANTS
  DaemonInv
  AddresseeIsAsking
  AnswersBelongToRequests
PROPERTIES
  NoInheritedAnswer
