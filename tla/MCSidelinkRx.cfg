CONSTANTS
  Workers = {w1}
  NPids = 8
  BufCap = 4
  ResetDupTimeout = 4
  PoolLen = 100
  Nodes = {1, 3}
  Quality = {"good", "weak", "lost"}
  MaxTick = 16

SPECIFICATION Spec

INVARIANT TypeOK
INVARIANT NoDoubleDelivery
PROPERTY DecodableDelivered
