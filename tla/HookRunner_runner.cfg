SPECIFICATION FairSpec
CONSTANTS
  Background = {b1}
  Streams = {stdout, stderr}
  Timeout = TRUE
  PipeCapacity = 1
  ReadChunk = 2
  MaxWritten = 3
INVARIANTS
  ResultIsFinal
  OwnGroupIsSignalled
  CooperativeGroupDies
PROPERTIES
  FullPipeDrains
  ReturnsUnlessPipesAreKept
