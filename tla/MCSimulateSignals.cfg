SPECIFICATION Spec
CONSTANTS
  init = init
  agent = agent
  victim = victim
  app = app
  system = system
  none = none
  Requests = {r1}
  Workers = 1
  Keys <- MCKeys
  MaxKills = 1
  Window = 1
  MaxTime = 1
  Events <- MCEvents
  Namespaces <- MCNamespaces
  NoNamespace = none
  Protected = {system}
  Labels <- MCLabels
  Pids <- MCPids
  Untouchable = {init}
  Agent = agent
  Running0 <- MCRunning0
  MaxGen = 1
  PolicyModes = {}
PROPERTIES
  SimulateNeverSignals
CHECK_DEADLOCK FALSE
