SPECIFICATION MCRankZeroSpec
CONSTANTS
  r0 = r0
  r1 = r1
  Ranks = {r0, r1}
  RankZero = r0
  Ordinary = {"on_train_batch_end"}
  Scripts <- MCTeardownScript
  MaxSetups = 1
  Starts = {s1}
INVARIANTS
  ExistsForItsScript
