\* Sampling, gaps, the rolling counters and resets; no routes and no settings.
CONSTANTS
  Levels = {30}
  Rates = {3000}
  Odometers = {0, 41000}
  Clocks = {41000, 70000}
  Thresholds = {}
  Handles = {}
  Segments <- NoSegments
  UnsetLevels = {60}
  MaxPublished = 4
  MaxRefreshes = 3
  UNDEFINED = 65535
  UNDEFINED32 = 2147483647
SPECIFICATION MCSpec
INVARIANTS
  TypeOK
  TankDistanceUsesShownLevel
  ToldLevelWasSampled
PROPERTIES
  ImplementsTripMeter
\* A call to the broker that throws ends the process.
CHECK_DEADLOCK FALSE
