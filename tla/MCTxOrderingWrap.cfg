CONSTANTS
  w1 = w1
  w2 = w2
  Workers = {w1}
  NofMutex = 3
  TtiPeriod = 10

SPECIFICATION Spec

INVARIANT NoChainDeadlock
