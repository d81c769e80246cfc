SPECIFICATION DaemonSpec
CONSTANTS
  Modulus = 2
  ChunkSize = 1
  MaxRecovery = 1
  Crc <- TinyCrc
  JobIds <- MCJobIds
  MaxClients = 1
  MaxBacklog = 1
  Commands <- UpgradeCommands
  Payloads <- TinyPayloads
  Images <- ShortImages
  Faults <- Leaving
  HandshakeRetries = 0
  ClientRetries = 0
  UpgradeRetries = 0
VIEW View
INVARIANT
  ClientsCannotStopDaemon
