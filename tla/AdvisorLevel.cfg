\* A car that drives past the threshold; what is told of its fuel.
CONSTANTS
  Levels = {30}
  Rates = {3000}
  Odometers = {41000}
  Clocks = {41000}
  Thresholds = {}
  Handles = {}
  Segments <- NoSegments
  UnsetLevels = {0}
  MaxPublished = 4
  MaxRefreshes = 3
  UNDEFINED = 65535
  UNDEFINED32 = 2147483647
SPECIFICATION DBusSpec
INVARIANTS
  FuelLevelInTenths
CHECK_DEADLOCK FALSE
