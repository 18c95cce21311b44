CONSTANTS
  Workers = {w1, w2}
  NPids = 8
  BufCap = 2
  ResetDupTimeout = 4
  PoolLen = 100
  Nodes = {1}
  Quality = {"good", "weak", "lost"}
  MaxTick = 8
  NofMutex = 2

SPECIFICATION Spec

INVARIANT NoDoubleDelivery
