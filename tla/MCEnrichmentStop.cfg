SPECIFICATION EnrichSpec
CONSTANTS
  Containers = {c1}
  Processes = {p1}
  Nowhere = Nowhere
  Cgroups = {g1}
  NoCgroup = NoCgroup
  QueueCap = 1
  Cancels = FALSE
  MaxMoves = 2
  MaxObjects = 4
PROPERTIES
  StopCompletes
CHECK_DEADLOCK FALSE
