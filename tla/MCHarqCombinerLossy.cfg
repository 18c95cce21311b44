CONSTANTS
  MaxTbs = 3
  LossyControl = TRUE

SPECIFICATION Spec

INVARIANT ReportedDataMatchesSci
