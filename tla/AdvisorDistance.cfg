\* The odometer is polled, and published at its own pace.
CONSTANTS
  Levels = {30}
  Rates = {}
  Odometers = {1000}
  Clocks = {1000}
  Thresholds = {}
  Handles = {}
  Segments <- NoSegments
  UnsetLevels = {0}
  MaxPublished = 4
  MaxRefreshes = 5
  UNDEFINED = 65535
  UNDEFINED32 = 2147483647
SPECIFICATION DBusSpec
INVARIANTS
  NoTripLongerThanDriven
CHECK_DEADLOCK FALSE
