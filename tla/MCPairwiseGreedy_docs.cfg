\* The repository's own matrix against the usage line of the docstring.
CONSTANTS
  Value <- RealValue
  FaultTypes <- RealFaultTypes
  TargetTiers <- RealTargetTiers
  Severities <- RealSeverities
SPECIFICATION Spec
INVARIANTS DocumentedPairwiseCount
CHECK_DEADLOCK FALSE
