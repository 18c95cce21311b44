CONSTANTS
  Workers = {w1, w2}
  NPids = 2
  BufCap = 1
  ResetDupTimeout = 1
  SiWindowStart = 0
  GrantInput <- MCGrantInput
  MaxGrants = 3
  MaxResets = 1


SPECIFICATION Spec

INVARIANT TypeOK
INVARIANT DecodeUnderLock
INVARIANT BufferOwnership
INVARIANT SoftbufferMatchesTbs
PROPERTY BufferEventuallyReturned
PROPERTY HarqProcessRefinement
