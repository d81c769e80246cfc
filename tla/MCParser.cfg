SPECIFICATION Spec
CONSTANTS
  Capacity = 20
  Magic <- MCMagic
  GoodTags = {9}
  MaxPayload = 5
  Crc <- MCCrc
  Streams <- MCStreams
  Damaged <- MCDamaged
  MaxRead = 10
  ReadSizes = {1, 2, 5, 9, 10}
  MaxFailures = 3
CHECK_DEADLOCK FALSE
INVARIANTS BytesAccountedFor NoFrameLost OnlyFramesSent DeliveredInTime RoomForReads
