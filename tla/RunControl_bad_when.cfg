SPECIFICATION Spec
CONSTANTS
  t1 = t1
  t2 = t2
  Clients = {t1, t2}
  Kinds = {"checkpoint"}
  Requests <- MCMalformed
  MaxCommands = 2
  MaxEpoch = 1
  MaxStep = 1
  MaxProfileSteps = 1
  BreakOnException = FALSE
  FiniteCheck = FALSE
INVARIANTS
  RequestsCannotAbort
