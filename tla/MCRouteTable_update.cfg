\* Routes updated in place.
CONSTANTS
  KeyOfRoute = {1, 2}
  RouteValue <- MCRouteValue
  Request <- MCRequest
  None = None
CHECK_DEADLOCK FALSE
SPECIFICATION TableSpec
INVARIANT NotCorrupted
