SPECIFICATION FairPipelineSpec
CONSTANTS
  a1 = a1
  a2 = a2
  key = key
  Alerts = {a1, a2}
  CoalesceKeys = {key}
  KeyOf <- MCKeyOf
  NumWorkers = 1
  ChanCap = 1
  MaxSetModes = 1
PROPERTIES
  StopReturns
CHECK_DEADLOCK FALSE
