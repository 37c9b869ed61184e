\* The greedy reduction on the repository's own 11 x 8 x 3 matrix.
CONSTANTS
  Value <- RealValue
  FaultTypes <- RealFaultTypes
  TargetTiers <- RealTargetTiers
  Severities <- RealSeverities
SPECIFICATION Spec
INVARIANTS TypeOK CoverageComplete
PROPERTIES GreedyChoice Termination ImplementsCoveringStrategy
\* pairwise_combinations() returns: its final state has no successor.
CHECK_DEADLOCK FALSE
