\* Two binds of the local file; routes under three keys; two types over xDS.
CONSTANTS
  b1 = b1
  b2 = b2
  a1 = a1
  a2 = a2
  BindName = {b1, b2}
  Address = {a1, a2}
  AddressOf <- MCAddressOf
  BindTask = {k1, k2, k3}
  ListenerKey = {}
  RouteKey = {}
  PolicyName = {p1}
  BackendName = {n1}
  PolicyTarget = {t1}
  Data = {d1}
  TxCapacity = 2
  None = None
  KeyOfRoute = {1, 2, 3}
  RouteValue <- MCRouteValue
  Request <- MCRequest
  Type = {ADDRESS, ADP}
  ResourceName = {r1}
  Value = {v1, bad}
  Invalid = {bad}
  InitialBackoff = 1
  MaxBackoff = 2
  WireCapacity = 2
  Stale = Stale
SPECIFICATION ControlSpec
INVARIANTS ListenersFollowStore  TableSound 
PROPERTIES RemovedStops 
