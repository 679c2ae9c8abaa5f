SPECIFICATION FairSpec
CONSTANTS
  t1 = t1
  Clients = {t1}
  Kinds = {"hold", "torchlens_capture", "stop", "release_exception"}
  Requests <- MCHasty
  MaxCommands = 2
  MaxEpoch = 0
  MaxStep = 0
  MaxProfileSteps = 1
  BreakOnException = TRUE
  FiniteCheck = TRUE
PROPERTIES
  ImplementsHoldProtocol
  ExceptionIsReleasable
