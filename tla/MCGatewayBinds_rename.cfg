\* A bind is replaced over xDS by another on the same address.
CONSTANTS
  b1 = b1
  b2 = b2
  a1 = a1
  a2 = a2
  BindName = {b1, b2}
  Address = {a1, a2}
  AddressOf <- MCAddressOf
  BindTask = {k1, k2}
  ListenerKey = {}
  RouteKey = {}
  PolicyName = {}
  BackendName = {}
  PolicyTarget = {}
  Data = {}
  TxCapacity = 2
  None = None
SPECIFICATION GwXdsSpec
INVARIANT BindsServed
