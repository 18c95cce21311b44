CONSTANTS
  SidelinkId = 1
  RepoRequests <- MCDivZeroRequests
  RepoEdits <- MCEdit5x10
  TbsPerPrb <- MCTbsPerPrb
  SduBytes = 101
  MaxSlot = 6
  MaxRepoPuts = 1
  Stream <- MCNoStream

SPECIFICATION Spec

INVARIANT NoModuloByZero
