---------------------------- MODULE MCGenerator ----------------------------
(***************************************************************************)
(* Generator on the repository's own tables.                               *)
(***************************************************************************)
EXTENDS Generator, MCPairwiseGreedy

(* A table being edited: cpu_stress has lost its "severe" entry.          *)
BrokenParamEntries ==
  [ft \in {RealFaultTypes[x] : x \in 1..11} |->
     IF ft = "cpu_stress" THEN {"mild", "moderate"} ELSE {"mild", "moderate", "severe"}]

(* A sub-matrix of the repository's values, for runs over several         *)
(* invocations: a tier with two selectors and one with one, a restart and *)
(* two other categories, the mildest and the most severe level.           *)
SubFaultTypes == <<"packet_loss", "container_restart", "cpu_stress">>
SubTargetTiers == <<"validator1_bor", "all_both">>
SubSeverities == <<"mild", "severe">>

(* The repository's tables satisfy the naming requirement and have no      *)
(* repeated dimension value, the hypotheses of the proofs of               *)
(* CurrentRunWins and OneFilePerCombination (GeneratorProofs).             *)
ASSUME NamesAssumption == PathsInjective /\ DistinctDims
=============================================================================
