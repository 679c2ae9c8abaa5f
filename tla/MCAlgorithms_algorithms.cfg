SPECIFICATION Spec
CONSTANTS
  Nodes <- MCNodes
  Graphs <- MCGraphs
  Calls <- MCCalls
  TensorArgs <- MCTensorArgs
  Limits <- MCLimits
  Ample <- MCAmple
  Classes <- MCClasses
  InitialModel <- MCModel
  Owned = {"optional"}
  Optimizers <- MCOptimizers
  Requests <- MCRequests
  Rates <- MCRates
  Selectors <- MCSelectors
  NaN <- MCNaN
  Infinity <- MCInfinity
  Unbounded <- MCUnbounded
INVARIANTS
  ValuesStayValid
  TensorsCorrelate
  TruncationIsTold
  AllOrFailed
PROPERTIES
  AnswersAreExact
