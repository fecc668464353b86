\* Two faults at any moment among four batches of up to three messages.
CONSTANTS
  MAX_BUF_MSG = 3
  MaxBatches = 4
  MaxFaults = 2
SPECIFICATION Spec
INVARIANTS
  TypeOK
  FaultSpoilsAtMostTwo
  FaultAltersAtMostOne
\* A behaviour ends when the sender has sent all its batches.
CHECK_DEADLOCK FALSE
