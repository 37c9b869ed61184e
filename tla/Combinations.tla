---------------------------- MODULE Combinations ----------------------------
(***************************************************************************)
(* The parameter matrix of scripts/generate_scenarios.py and the full      *)
(* combinatorial strategy.                                                 *)
(*                                                                         *)
(* The three dimensions are ordered lists: the keys of FAULT_DEFINITIONS,  *)
(* the keys of TARGET_TIERS (dict insertion order) and SEVERITIES.  A      *)
(* combination is the tuple <<fault_type, target_tier, severity>>.         *)
(* full_combinations() is itertools.product over the three lists: the last *)
(* dimension varies fastest.  A pairwise requirement is the tuple          *)
(* <<i, v, j, w>> of the code (dimension i has value v and dimension j has *)
(* value w, i < j); dimensions are numbered 1..3 here, 0..2 in Python.     *)
(***************************************************************************)
EXTENDS Naturals, FiniteSets, Sequences

CONSTANTS
  Value,        \* the universe of dimension values (names)
  FaultTypes,   \* list(FAULT_DEFINITIONS.keys())
  TargetTiers,  \* list(TARGET_TIERS.keys())
  Severities    \* SEVERITIES

(* The dimensions are lists of values; the code checks nothing more (an    *)
(* empty dimension is not rejected), so neither does this assumption.      *)
ASSUME DimsAssumption ==
  /\ FaultTypes \in Seq(Value)
  /\ TargetTiers \in Seq(Value)
  /\ Severities \in Seq(Value)

(* The `dimensions` list of pairwise_combinations().                       *)
Dims == <<FaultTypes, TargetTiers, Severities>>

N == 3

(* Every dimension has at least one value: what the spec's ConfigError     *)
(* would guarantee and the code does not check.                            *)
NonEmptyDims ==
  /\ Len(FaultTypes) > 0
  /\ Len(TargetTiers) > 0
  /\ Len(Severities) > 0

(* No dimension lists a value twice: the first two are the keys of a dict, *)
(* SEVERITIES a literal of three different levels.                         *)
DistinctDims ==
  \A d \in 1..N : \A x, y \in DOMAIN Dims[d] : Dims[d][x] = Dims[d][y] => x = y

Total == Len(FaultTypes) * Len(TargetTiers) * Len(Severities)

(* The k-th element (k \in 1..Total) of itertools.product(F, T, S): the    *)
(* index k - 1 read as a mixed-radix number whose last digit is the        *)
(* severity.                                                               *)
Combo(k) ==
  LET LT == Len(TargetTiers)
      LS == Len(Severities)
  IN  << FaultTypes[((k - 1) \div (LT * LS)) + 1],
         TargetTiers[(((k - 1) \div LS) % LT) + 1],
         Severities[((k - 1) % LS) + 1] >>

(* full_combinations() and all_combos: the list of every combination.      *)
FullCombinations == [k \in 1..Total |-> Combo(k)]

(* The set of combinations all_combos ranges over.                         *)
ComboSet == {FullCombinations[q] : q \in 1..Total}

(* The pairs of dimension indices i < j that the greedy loop ranges over.  *)
DimPairs == {p \in (1..N) \X (1..N) : p[1] < p[2]}

(* The values of dimension i.                                              *)
ValuesOf(i) == {Dims[i][x] : x \in DOMAIN Dims[i]}

(* The set `required` of the code.                                         *)
Required ==
  UNION {{<<p[1], v, p[2], w>> : v \in ValuesOf(p[1]), w \in ValuesOf(p[2])} :
           p \in DimPairs}

(* The pairwise projections of a combination c: (i, c[i], j, c[j]).       *)
PairsOf(c) == {<<p[1], c[p[1]], p[2], c[p[2]]>> : p \in DimPairs}

(* The reference definition of complete 2-way coverage of a list of        *)
(* combinations: every required pair co-occurs in some element.            *)
CoversAllPairs(s) ==
  \A r \in Required : \E m \in 1..Len(s) : r \in PairsOf(s[m])
=============================================================================
