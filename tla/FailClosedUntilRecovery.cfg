SPECIFICATION EngineSpec
CONSTANTS
  slow = slow
  fast = fast
  Profiles = {slow, fast}
  None = None
  Attr <- MCAttr
  Policies <- MCPolicies
  Latencies = {1, 3}
  Bounds = {1, 3}
  PinSeconds = {}
  Cooldown = 1
  MaxTime = 2
  MaxFailures = 2
PROPERTIES
  FailClosedUntilRecovery
CHECK_DEADLOCK FALSE
