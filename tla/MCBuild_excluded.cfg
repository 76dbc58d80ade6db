SPECIFICATION Spec
CONSTANTS
  MaxPrims = 5
  MaxPrimOps = 3
INVARIANT ExcludedOut
CHECK_DEADLOCK FALSE
