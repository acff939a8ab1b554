CONSTANTS
  None = None
  Callers = {c1}
  Operations = {"policy", "clear_control_hold"}
SPECIFICATION LiveBridgeSpec
INVARIANTS BridgeTypeOK EndedBridgeIsDisconnected DeadlineIsTheNodes
PROPERTIES LoopIsNeverStuck CallsReturn HoldViewConverges
CHECK_DEADLOCK FALSE
