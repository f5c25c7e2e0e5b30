SPECIFICATION Spec
CONSTANTS
  init = init
  agent = agent
  victim = victim
  app = app
  system = system
  none = none
  Requests = {r1, r2}
  Workers = 2
  Keys <- MCKeys
  MaxKills = 1
  Window = 1
  MaxTime = 2
  Events <- MCEvents
  Namespaces <- MCNamespaces
  NoNamespace = none
  Protected = {system}
  Labels <- MCLabels
  Pids <- MCPids
  Untouchable = {init}
  Agent = agent
  MaxGen = 1
  PolicyModes = {"enforce"}
  Running0 <- MCRunning0
SYMMETRY Symmetric
INVARIANTS
  TypeOK
  SlidingBudget
  SafetyProtocol
  NeverOutsideEnforce
  WrongVictimOnlyByReuse
  KilledIsGone
  EverySignalAudited
PROPERTIES
  SimulateDrains
CHECK_DEADLOCK FALSE
