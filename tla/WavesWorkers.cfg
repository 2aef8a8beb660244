CONSTANTS
  Concurrency = 2
  MaxTotal = 3
  MaxWaves = 2
SPECIFICATION FairSpec
INVARIANTS TypeOK WithinConcurrency EmittedIsMerged NoneOutlivesItsWave
PROPERTY WavesSettle
CHECK_DEADLOCK FALSE
