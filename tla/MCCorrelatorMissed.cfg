SPECIFICATION CorrelatorSpec
CONSTANTS
  both = both
  either = either
  shell = shell
  net = net
  p1 = p1
  p2 = p2
  cid = cid
  Rules = {both, either}
  Names = {shell, net}
  SignalsOf <- MCSignalsOf
  Logic <- MCLogic
  Span <- MCSpan
  Sources = {p1, p2}
  GroupOf <- MCGroupOf
  MaxWindows = 4
  MaxTime = 3
  MaxSignals = 3
PROPERTIES
  SignalReachesAllRules
CHECK_DEADLOCK FALSE
