\* A standing car with its engine running.
CONSTANTS
  Inputs <- IdlingInputs
  MaxRefreshes = 4
  UNDEFINED = 65535
  UNDEFINED32 = 2147483647
SPECIFICATION Spec
INVARIANTS
  IdlingIsHarmless
CHECK_DEADLOCK FALSE
