\* Everything a client can do with the trip computer, wraps and resets included.
CONSTANTS
  Inputs <- DrivingInputs
  MaxRefreshes = 4
  UNDEFINED = 65535
  UNDEFINED32 = 2147483647
SPECIFICATION Spec
INVARIANTS
  TypeOK
  FuelTakesTime
  ShownAfterThreshold
PROPERTIES
  MovingFilter
\* The process stops when it divides by zero.
CHECK_DEADLOCK FALSE
