CONSTANTS
  MaxNodes = 3
  MaxEps = 3
  MaxItems = 3
  Late = TRUE
  Partial = FALSE
  Races = {}
  MaxJobs = 2
SPECIFICATION NodeInfoFairSpec
PROPERTY JobEnds
CHECK_DEADLOCK FALSE
