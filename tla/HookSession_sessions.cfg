SPECIFICATION MCFairSpec
CONSTANTS
  r0 = r0
  r1 = r1
  Ranks = {r0, r1}
  RankZero = r0
  Ordinary = {"on_train_batch_end"}
  Scripts <- MCScripts
  MaxSetups = 2
  Starts = {s1, s2, s3}
INVARIANTS
  LoggingIsOwned
  NothingIsLeft
  MarkerNamesTree
  ReturnedTreeIsComplete
  SettledIsMarked
PROPERTIES
  OnlyACloseTakesAway
  SessionEnds
  ImplementsOneTree
