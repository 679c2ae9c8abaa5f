SPECIFICATION Spec
CONSTANTS
  Attempts = 2
  MaxModels = 1
INVARIANTS
  RestNeedsNoDebugServer
