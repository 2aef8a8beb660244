CONSTANTS
  Concurrency = 2
  MaxTotal = 1
  MaxWaves = 1
SPECIFICATION ScheduledSpec
PROPERTY WavesSettle
CHECK_DEADLOCK FALSE
