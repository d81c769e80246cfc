SPECIFICATION Spec
CONSTANTS
  Modulus = 6
  SidModulus = 2
  SampleModulus = 2
  FlashCrc <- MCCrc
  FailVerify = FALSE
  MallocFails = FALSE
  Queries = {"PING"}
  Intervals <- BadIntervals
  Lossy = TRUE
  Capacity = 2
  MaxRequests = 2
  ClientRetries = 1
INVARIANT
  AnsweredStreamAgrees
PROPERTIES
  SampleArrives
  SimulatorStops
CHECK_DEADLOCK FALSE
