\* Settings, routes that come and go, and the warning.
CONSTANTS
  Levels = {5, 30}
  Rates = {}
  Odometers = {}
  Clocks = {}
  Thresholds = {50, 200}
  Handles = {1}
  Segments <- TwoSegments
  UnsetLevels = {60}
  MaxPublished = 2
  MaxRefreshes = 2
  UNDEFINED = 65535
  UNDEFINED32 = 2147483647
SPECIFICATION MCFairSpec
INVARIANTS
  AnswerBelongsTogether
PROPERTIES
  WarningCatchesUp
  RefusalHasConsequences
\* An exception in a timer ends the process.
CHECK_DEADLOCK FALSE
