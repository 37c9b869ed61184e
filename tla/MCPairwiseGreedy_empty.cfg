\* A matrix with an empty severity dimension, which the code does not reject.
CONSTANTS
  Value <- SmallValue
  FaultTypes <- SmallFaultTypes
  TargetTiers <- SmallTargetTiers
  Severities <- EmptySeverities
SPECIFICATION Spec
INVARIANTS CoverageComplete
CHECK_DEADLOCK FALSE
