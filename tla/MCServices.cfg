SPECIFICATION ServicesSpec
CONSTANTS
  init = init
  agent = agent
  victim = victim
  app = app
  system = system
  none = none
  Requests = {r1}
  Workers = 1
  Keys <- MCKeys
  MaxKills = 1
  Window = 1
  MaxTime = 0
  Events <- MCEligible
  Namespaces <- MCNamespaces
  NoNamespace = none
  Protected = {system}
  Labels <- MCLabels
  Pids <- MCPids
  Untouchable = {init}
  Agent = agent
  Running0 <- MCRunning0
  MaxGen = 1
  PolicyModes = {"audit", "enforce", "simulate"}
  slack = slack
  generic = generic
  None = None
  Sinks = {slack, generic}
  Slots = {i1, i2}
  RetryCount = 1
  MaxFailures = 2
  Emitted = {a1, a2}
  Configured <- MCConfigured
  Budget = 2
  Containers = {c1}
  Processes = {p1}
  Nowhere = Nowhere
  Cgroups = {g1}
  NoCgroup = NoCgroup
  QueueCap = 1
  Cancels = TRUE
  MaxMoves = 2
  MaxObjects = 4
  CacheKeys = {k1, k2, k3}
  NoKey = NoKey
  Capacities = {0, 2}
  Categories <- MCCategories
  Updaters = {"enricher"}
  ChannelSize = 1
  MaxLifeCalls = 6
  MaxRecords = 2
INVARIANTS
  ServicesTypeOK
  ListHoldsEntries
  CgroupsLeadBack
PROPERTIES
  TermIsFinal
  AlertsHandedOver
  RegistrySettles
  EnrichmentStops
  LoaderCallsReturn
CHECK_DEADLOCK FALSE
