SPECIFICATION Spec
CONSTANTS
  Frames <- MCFrames
  Statuses <- MCStatuses
  MaxPayload = 4096
  MaxFlips = 2
  DamagedBits = {0, 1, 2, 3, 4, 5, 6, 7}
CHECK_DEADLOCK FALSE
INVARIANTS CrcIsRemainder FrameIntactOrRefused IpcSurvives
