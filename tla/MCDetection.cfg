SPECIFICATION MCSpec
CONSTANTS
  both = both
  either = either
  shell = shell
  net = net
  p1 = p1
  p2 = p2
  cid = cid
  Rules = {both, either}
  Names = {shell, net}
  SignalsOf <- MCSignalsOf
  Logic <- MCLogic
  Span <- MCSpan
  Sources = {p1, p2}
  GroupOf <- MCGroupOf
  MaxWindows = 2
  MaxTime = 2
  MaxSignals = 4
  Workers = {w1, w2}
  Events <- MCEvents
  Baseline <- MCBaseline
  Added <- MCAdded
  NoMatch = NoMatch
  MaxReloads = 1
  Samples <- MCSamples
  slack = slack
  generic = generic
  None = None
  Sinks = {slack, generic}
  Slots = {i1, i2}
  RetryCount = 1
  MaxFailures = 2
  Emitted = {a1, a2}
  Configured <- MCConfigured
  Budget = 3
INVARIANTS
  DetectionTypeOK
  FiredOnEvidence
  NoRefire
  CompleteMeansFired
  BucketsFollowLog
  RulesInForceJudged
  MostSevereVerdict
  ParsesAsWritten
  IndexMissesNothing
  EachSinkOnce
PROPERTIES
  RefinesBreaker
  OnlyStaleAnswersClose
SYMMETRY SameSources
CHECK_DEADLOCK FALSE
