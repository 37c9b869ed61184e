-------------------------- MODULE MCPairwiseGreedy --------------------------
(***************************************************************************)
(* Instances of PairwiseGreedy for TLC.                                    *)
(***************************************************************************)
EXTENDS PairwiseGreedy, ParameterTables

(* The values of a list of lists.                                          *)
ValuesOfAll(ls) == UNION {{l[x] : x \in DOMAIN l} : l \in {ls[y] : y \in DOMAIN ls}}
RealValue == ValuesOfAll(<<RealFaultTypes, RealTargetTiers, RealSeverities>>)

(* A small matrix (3 x 2 x 2).                                             *)
SmallFaultTypes == <<"f1", "f2", "f3">>
SmallTargetTiers == <<"t1", "t2">>
SmallSeverities == <<"s1", "s2">>
SmallValue == ValuesOfAll(<<SmallFaultTypes, SmallTargetTiers, SmallSeverities>>)
EmptySeverities == <<>>

(* The docstring's usage line says `--pairwise` yields "~24 scenarios":    *)
(* when pairwise_combinations() returns on the repository's matrix, the    *)
(* list has at most twice that many combinations.                          *)
DocumentedPairwiseCount == pc = "done" => Len(selected) <= 2 * 24
=============================================================================
