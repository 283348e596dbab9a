\* Two overlapping lookups of one name; two requests for two keys with the same
\* hash.
CONSTANTS
  Name = {n1}
  Caller = {c1, c2}
  Entry = {e1, e2}
  Answer <- MCAnswer
  Task = {t1, t2}
  Key = {k1, k2}
  Hash = {h1}
  HashOf <- MCHashOf
  Conn = {c1, c2}
  StreamLimit = {2}
  None = None
SPECIFICATION UpstreamSpec
INVARIANTS NoLostWakeup 
PROPERTIES CallsReturn UnusedEntriesGo ConnectReturns
