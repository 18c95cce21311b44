CONSTANTS
  Workers = {w1}
  NPids = 8
  BufCap = 4
  ResetDupTimeout = 4
  PoolLen = 12
  Nodes = {1}
  Quality = {"good", "weak", "lost"}
  MaxTick = 14

SPECIFICATION Spec

INVARIANT NoDoubleDelivery
