CONSTANTS
  MaxTbs = 3
  LossyControl = FALSE

SPECIFICATION Spec

INVARIANT TypeOK
INVARIANT TwoGenerationCoverage
