\* Three lines of a log; the replayer, the daemon and the plugin may all end.
SPECIFICATION FairSpec
CONSTANTS
  Lines <- MCLines
  MaxLines = 3
  MAX_BUF_MSG = 2
  Requests <- MCRequests
  PropertyValues <- MCPropertyValues
INVARIANTS
  TypeOK
  ValidWasSentValid
  UpdateTellsWhatIsStored
  ClientCatchesUp
PROPERTIES
  OthersRetained
  ShutdownReturns
  DestructorReturnsOnDatagram
CHECK_DEADLOCK FALSE
