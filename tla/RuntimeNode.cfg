SPECIFICATION NodeLiveSpec
CONSTANTS
  Profiles = {p1, p2}
  None = None
INVARIANTS
  NodeTypeOK
  WorkerHasEngine
  ReportedHoldIsOnTopic
PROPERTIES
  HoldIsAnnounced
  DeactivationCompletes
CHECK_DEADLOCK FALSE
