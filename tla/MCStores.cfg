\* Resources arriving, changing and leaving in any order.
CONSTANTS
  BindName = {b1, b2}
  ListenerKey = {k1, k2}
  RouteKey = {r1, r2}
  PolicyName = {}
  BackendName = {}
  PolicyTarget = {}
  Address = {a1}
  Data = {d1}
  TxCapacity = 1
  Uid = {u1, u2}
  ServiceName = {s1, s2}
  Vip = {v1}
  Ip = {i1}
  None = None
SPECIFICATION StoresSpec
SYMMETRY Symmetry
INVARIANTS StagedItemsWait StoreConsistent
PROPERTIES UpdateKeepsRoutes HealthyEndpointsKept
