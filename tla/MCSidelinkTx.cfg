CONSTANTS
  SidelinkId = 1
  RepoRequests <- MCSearchRequests
  RepoEdits <- MCNoEdits
  TbsPerPrb <- MCTbsPerPrb
  SduBytes = 150
  MaxSlot = 16
  MaxRepoPuts = 2
  Stream <- MCStream

SPECIFICATION Spec

INVARIANT TypeOK
INVARIANT GrantMinimal
INVARIANT RlcNoPacketLost
