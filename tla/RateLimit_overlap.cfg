SPECIFICATION RequestsSpec
CONSTANTS
  Caller = {c1, c2}
  Capacity = 2
  RefillAmount = 2
  Interval = 1
  TokenSpan = 16
  EndOfTime = 3
INVARIANT RequestRate
CHECK_DEADLOCK FALSE
