CONSTANTS
  Schemes = {"ok", "bad"}
  Controller = TRUE
  MaxIncl = 2
  MaxLate = 2
SPECIFICATION SecInclFairSpec
INVARIANTS OkMeansVerified
PROPERTY InclusionEnds
CHECK_DEADLOCK FALSE
