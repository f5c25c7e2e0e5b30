SPECIFICATION NetworkSpec
CONSTANTS
  Modes = {"audit", "enforce"}
  KernelMap = TRUE
  Workers = {w1}
  Callers = {c1}
  Remotes = {1}
  Ports = {4444}
  MetadataIP = 2
  RuleTTL <- MCRuleTTL
  PolicyKeys <- MCPolicyKeys
  PolicyTTLs = {1}
  Lengths = {60}
  Capacity = 1
  MaxTime = 2
CHECK_DEADLOCK FALSE
INVARIANT BlockedIsDropped
