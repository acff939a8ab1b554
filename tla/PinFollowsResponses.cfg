CONSTANTS
  None = None
  Callers = {c1}
  Operations = {"pin", "clear_pin"}
SPECIFICATION BridgeSpec
PROPERTY PinFollowsResponses
CHECK_DEADLOCK FALSE
