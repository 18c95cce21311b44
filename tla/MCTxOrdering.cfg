CONSTANTS
  w1 = w1
  w2 = w2
  Workers <- MCWorkers
  NofMutex = 2
  TtiPeriod = 4

SYMMETRY MCSymmetry

SPECIFICATION Spec

INVARIANT TypeOK
INVARIANT NoChainDeadlock
