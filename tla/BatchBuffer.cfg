\* Any message after any message, a buffer of three slots.
CONSTANTS
  MAX_BUF_MSG = 3
  Messages <- AnyMessage
  Blank <- NoMessage
  MaxArrivals = 6
SPECIFICATION Spec
INVARIANTS
  TypeOK
  DeliveredIsConsecutive
  CompleteBatchDelivered
\* A behaviour ends after MaxArrivals messages.
CHECK_DEADLOCK FALSE
