SPECIFICATION FairSpec
CONSTANTS
  Attempts = 2
  MaxModels = 2
INVARIANTS
  RecordIsTrue
  FinishedIsStopped
PROPERTIES
  LifecycleEnds
