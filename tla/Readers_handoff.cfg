SPECIFICATION MCSpec
CONSTANTS
  Readers = {r1, r2, r3}
  MaxRequests = 4
  Threads = {t1, t2}
  MaxPublications = 3
  MaxHandles = 2
INVARIANTS
  NoRequestIsLost
  OpenIsASnapshot
  TornOnlyByPublication
PROPERTIES
  ComputedOnce
  EveryRequestEnds
