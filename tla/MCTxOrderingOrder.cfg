CONSTANTS
  w1 = w1
  w2 = w2
  Workers <- MCWorkers
  NofMutex = 2
  TtiPeriod = 4

SPECIFICATION Spec

PROPERTY TxInOrder
