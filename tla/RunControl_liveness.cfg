SPECIFICATION FairSpec
CONSTANTS
  t1 = t1
  Clients = {t1}
  Kinds = {"hold", "checkpoint"}
  Requests <- MCScheduled
  MaxCommands = 2
  MaxEpoch = 0
  MaxStep = 2
  MaxProfileSteps = 1
  BreakOnException = FALSE
  FiniteCheck = FALSE
PROPERTIES
  NowIsServed
  OverdueStepIsServed
  StaleHeldIsCorrected
