SPECIFICATION Spec
CONSTANTS
  Clients = {"c1", "c2"}
  MaxClients = 1
  HeaderSize = 2
  MaxPayload = 2
  Requests <- WithTooLong
  AnswerSizes = {0, 2}
  Window = 3
  Impatient = TRUE
INVARIANTS
  WholeAnswer
PROPERTY
  ExchangeCompletes
CHECK_DEADLOCK FALSE
