SPECIFICATION Spec
CONSTANTS
  t1 = t1
  t2 = t2
  Clients = {t1, t2}
  Kinds = {"hold", "torchlens_capture", "profile", "set_dataloader_finite_check"}
  Requests <- MCHasty
  MaxCommands = 2
  MaxEpoch = 0
  MaxStep = 0
  MaxProfileSteps = 2
  BreakOnException = FALSE
  FiniteCheck = TRUE
INVARIANTS
  HeldMeansStopped
  RunningIsTruthful
PROPERTIES
  CancelStopsUntakenCommands
  ServedInSubmissionOrder
SYMMETRY MCSymmetry
