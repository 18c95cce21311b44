CONSTANTS
  Workers = {w1, w2}
  NPids = 2
  BufCap = 2
  ResetDupTimeout = 1
  SiWindowStart = 0
  GrantInput <- MCSlGrantInput
  MaxGrants = 2
  MaxResets = 0

SPECIFICATION Spec

INVARIANT SharedStatsCountEverySample
