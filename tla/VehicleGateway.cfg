\* The gateway and its devices: two events of the environment, late answers
\* besides, three turns of the main loop.  The gateway ends when it is told to.
SPECIFICATION FairSpec
CONSTANTS
  Readings <- MCReadings
  Sentences <- MCSentences
  MaxEvents = 2
  MaxCycles = 2
  OPEN_RETRY_MAX = 2
INVARIANTS
  TypeOK
  ValueAnswersItsQuestion
  StaleOnlyByLateAnswers
  WholeSentenceSentAsReceived
  WholeSentenceNeverCrashes
  SentenceSentOnce
PROPERTIES
  MovesOnlyWithFix
  ShutdownCompletes
CHECK_DEADLOCK FALSE
