CONSTANTS
  p1 = p1
  p2 = p2
  e1 = e1
  e2 = e2
  e3 = e3
  e4 = e4
  t1 = t1
  NoTag = NoTag
  NoEvent = NoEvent
  Producers = {p1, p2}
  Script <- MCScript
  Configs <- MCConfigs
  Sync = FALSE
  FallbackInstalled = TRUE
  OverwritableKinds = {"kafka"}
  StallPolicy = "all"
  MaxStalls = 2
SPECIFICATION Spec
INVARIANT FactoryCleansUp
PROPERTY SinkRefined
\* A failed factory, or producers done and brokers drained, ends a behaviour.
CHECK_DEADLOCK FALSE
