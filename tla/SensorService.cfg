\* Two lives of a service, two callbacks, three datagrams in batches of two.
CONSTANTS
  Callbacks = {c1, c2}
  None = None
  MAX_BUF_MSG = 2
  ChecksParse = TRUE
  Damages = TRUE
  MaxDatagrams = 3
  MaxInits = 2
SPECIFICATION FairSpec
INVARIANTS
  TypeOK
  NoCallbackAfterDeregister
  CallbackSeesLastStored
  DestroyedIsQuiet
PROPERTIES
  DestroyReturns
\* A behaviour ends after MaxInits lives, or when the port is taken.
CHECK_DEADLOCK FALSE
