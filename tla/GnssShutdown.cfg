\* The position sentence, whose parsing is not checked; nothing damaged is sent.
CONSTANTS
  Callbacks = {c1}
  None = None
  MAX_BUF_MSG = 2
  ChecksParse = FALSE
  Damages = FALSE
  MaxDatagrams = 1
  MaxInits = 1
SPECIFICATION Spec
INVARIANTS
  DeliveredWasParsed
CHECK_DEADLOCK FALSE
