SPECIFICATION FairSpec
CONSTANTS
  c1 = c1
  c2 = c2
  Clients = {c1, c2}
  Injecting = {c1}
  NoHold = NoHold
  MaxAttempts = 2
  MaxLives = 2
INVARIANTS
  RunsOncePerAttempt
  NothingIsLeftBehind
  PushedIsWhole
  StoppedUnderItsHold
PROPERTIES
  CaptureEnds
