SPECIFICATION ConcurrentSpec
CONSTANTS
  slow = slow
  fast = fast
  Profiles = {slow, fast}
  None = None
  Attr <- MCAttr
  Policies <- MCPolicies
  Latencies = {1, 3}
  Bounds = {1, 3}
  PinSeconds = {1}
  Cooldown = 1
  MaxTime = 1
  MaxFailures = 1
INVARIANTS
  EngineTypeOK
  HoldIsRecoverable
  NoEligibleHoldHasNoProfile
  ActiveIsServable
PROPERTIES
  SwitchTargetMeetsPolicy
  EngineImplementsContract
CHECK_DEADLOCK FALSE
