SPECIFICATION FairPipelineSpec
CONSTANTS
  a1 = a1
  a2 = a2
  key = key
  Alerts = {a1, a2}
  CoalesceKeys = {key}
  KeyOf <- MCKeyOf
  NumWorkers = 2
  ChanCap = 1
  MaxSetModes = 1
INVARIANTS
  PipelineTypeOK
  CountedOnce
  QuietAfterStop
PROPERTIES
  WorkersHeldOnlyByStop
  StopReturnsOrDeadlocks
  SetModeReturnsUnlessStopping
CHECK_DEADLOCK FALSE
