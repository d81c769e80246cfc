SPECIFICATION DaemonLiveSpec
CONSTANTS
  Modulus = 2
  ChunkSize = 1
  MaxRecovery = 1
  Crc <- TinyCrc
  JobIds <- MCJobIds
  MaxClients = 1
  MaxBacklog = 1
  Commands <- UpgradeCommands
  Payloads <- TinyPayloads
  Images <- ShortImages
  Faults <- Ending
  HandshakeRetries = 0
  ClientRetries = 0
  UpgradeRetries = 0
VIEW LiveView
INVARIANT
  ClientsCannotStopDaemon
PROPERTIES
  RequestsEnd
  UpgradesEnd
  DestroyReturns
