SPECIFICATION Spec
CONSTANTS
  Daemons = {"d1"}
  Socket <- Apart
  UserFiles = TRUE
  MaxFaults = 6
INVARIANTS
  NothingLeftBehind
  PathLeadsToDaemon
PROPERTY
  RestartSucceeds
CHECK_DEADLOCK FALSE
