--------------------------- MODULE PairwiseGreedy ---------------------------
(***************************************************************************)
(* The built-in greedy pairwise reduction of pairwise_combinations() in    *)
(* scripts/generate_scenarios.py (the branch taken when allpairspy cannot  *)
(* be imported).  One state per point of control of the Python loop:       *)
(*                                                                         *)
(*   "test"  the `while covered < required` test                           *)
(*   "scan"  the `for combo in all_combos` loop, at position k             *)
(*   "done"  the function has returned `selected`                          *)
(*                                                                         *)
(* The scan is modelled one candidate per step so that the code's own      *)
(* comparison `new > best_new` decides the tie-break.                      *)
(***************************************************************************)
EXTENDS Combinations, Integers

VARIABLES
  covered,    \* the set `covered` of pairwise requirements
  selected,   \* the list `selected`
  bestCombo,  \* best_combo (None is the empty tuple)
  bestNew,    \* best_new
  k,          \* position of the scan in all_combos (1-based)
  pc

vars == <<covered, selected, bestCombo, bestNew, k, pc>>

(* Python's None for best_combo: no combination is the empty tuple.        *)
None == <<>>

(* The number of pairwise projections of combination c not in the set of *)
(* requirements cov.                                                      *)
Gain(c, cov) ==
  Cardinality({p \in DimPairs : <<p[1], c[p[1]], p[2], c[p[2]]>> \notin cov})

(* new = sum(1 for i < j if (i, combo[i], j, combo[j]) not in covered)     *)
NewCount(c) == Gain(c, covered)

Init ==
  /\ covered = {}
  /\ selected = <<>>
  /\ bestCombo = None
  /\ bestNew = -1
  /\ k = 1
  /\ pc = "test"

(* `while covered < required`: a further round while covered is a proper   *)
(* subset of required; best_combo, best_new = None, -1.                   *)
StartRound ==
  /\ pc = "test"
  /\ covered \subseteq Required /\ covered # Required
  /\ bestCombo' = None
  /\ bestNew' = -1
  /\ k' = 1
  /\ pc' = "scan"
  /\ UNCHANGED <<covered, selected>>

(* The loop condition is false: the function returns `selected`.           *)
ExitLoop ==
  /\ pc = "test"
  /\ ~(covered \subseteq Required /\ covered # Required)
  /\ pc' = "done"
  /\ UNCHANGED <<covered, selected, bestCombo, bestNew, k>>

(* Mutant: `new >= best_new`, so the last of the best candidates wins.     *)
ScanComboLastBest ==
  /\ pc = "scan"
  /\ k <= Total
  /\ LET combo == FullCombinations[k]
         new   == NewCount(combo)
     IN  IF new >= bestNew
           THEN bestNew' = new /\ bestCombo' = combo
           ELSE UNCHANGED <<bestNew, bestCombo>>
  /\ k' = k + 1
  /\ UNCHANGED <<covered, selected, pc>>

(* One iteration of `for combo in all_combos`: a strictly larger count     *)
(* replaces the best candidate.                                            *)
ScanCombo ==
  /\ pc = "scan"
  /\ k <= Total
  /\ LET combo == FullCombinations[k]
         new   == NewCount(combo)
     IN  IF new > bestNew
           THEN bestNew' = new /\ bestCombo' = combo
           ELSE UNCHANGED <<bestNew, bestCombo>>
  /\ k' = k + 1
  /\ UNCHANGED <<covered, selected, pc>>

(* A bound on the rounds of the while loop, for TLC: every round adds at    *)
(* least one requirement to covered, so the code never reaches it.        *)
MaxRounds == Cardinality(Required)

(* Mutant: covered is marked with the projections of `combo`, the loop     *)
(* variable left over from the for loop (the last of all_combos), instead *)
(* of best_combo.                                                          *)
EndScanLeakedCombo ==
  /\ pc = "scan"
  /\ k = Total + 1
  /\ Len(selected) < MaxRounds
  /\ IF bestCombo = None \/ bestNew = 0
       THEN /\ pc' = "done"
            /\ UNCHANGED <<covered, selected, bestCombo, bestNew, k>>
       ELSE /\ selected' = Append(selected, bestCombo)
            /\ covered' = covered \cup PairsOf(FullCombinations[Total])
            /\ pc' = "test"
            /\ UNCHANGED <<bestCombo, bestNew, k>>

(* Mutant: the requirement is added as (j, combo[j], i, combo[i]), so      *)
(* covered is no longer a subset of required.                              *)
EndScanSwappedPair ==
  /\ pc = "scan"
  /\ k = Total + 1
  /\ Len(selected) < MaxRounds
  /\ IF bestCombo = None \/ bestNew = 0
       THEN /\ pc' = "done"
            /\ UNCHANGED <<covered, selected, bestCombo, bestNew, k>>
       ELSE /\ selected' = Append(selected, bestCombo)
            /\ covered' = covered \cup
                 {<<p[2], bestCombo[p[2]], p[1], bestCombo[p[1]]>> : p \in DimPairs}
            /\ pc' = "test"
            /\ UNCHANGED <<bestCombo, bestNew, k>>

(* Mutant: covered.add(best_combo), the combination itself instead of its  *)
(* pairwise projections.                                                   *)
EndScanAddsCombo ==
  /\ pc = "scan"
  /\ k = Total + 1
  /\ Len(selected) < MaxRounds
  /\ IF bestCombo = None \/ bestNew = 0
       THEN /\ pc' = "done"
            /\ UNCHANGED <<covered, selected, bestCombo, bestNew, k>>
       ELSE /\ selected' = Append(selected, bestCombo)
            /\ covered' = covered \cup {bestCombo}
            /\ pc' = "test"
            /\ UNCHANGED <<bestCombo, bestNew, k>>

(* Mutant: the break taken on `best_new <= 1` (an off-by-one of the       *)
(* "nothing new" test).                                                    *)
EndScanEarlyBreak ==
  /\ pc = "scan"
  /\ k = Total + 1
  /\ Len(selected) < MaxRounds
  /\ IF bestCombo = None \/ bestNew <= 1
       THEN /\ pc' = "done"
            /\ UNCHANGED <<covered, selected, bestCombo, bestNew, k>>
       ELSE /\ selected' = Append(selected, bestCombo)
            /\ covered' = covered \cup PairsOf(bestCombo)
            /\ pc' = "test"
            /\ UNCHANGED <<bestCombo, bestNew, k>>

(* After the scan: `if best_combo is None or best_new == 0: break`, else   *)
(* selected.append(best_combo) and every pairwise projection of best_combo *)
(* added to covered.  The break is taken only when some dimension is      *)
(* empty (no candidate at all); otherwise an uncovered requirement is a   *)
(* projection of some candidate, whose count is then positive.            *)
EndScan ==
  /\ pc = "scan"
  /\ k = Total + 1
  /\ Len(selected) < MaxRounds
  /\ IF bestCombo = None \/ bestNew = 0
       THEN /\ pc' = "done"
            /\ UNCHANGED <<covered, selected, bestCombo, bestNew, k>>
       ELSE /\ selected' = Append(selected, bestCombo)
            /\ covered' = covered \cup PairsOf(bestCombo)
            /\ pc' = "test"
            /\ UNCHANGED <<bestCombo, bestNew, k>>

Next ==
  \/ StartRound
  \/ ExitLoop
  \/ ScanCombo
  \/ EndScan

(* The function is a sequential loop with no blocking call: as long as it  *)
(* has not returned, it takes its next step.  Once it has returned, no    *)
(* action is enabled: the run of the function really stops.               *)
Spec == Init /\ [][Next]_vars /\ WF_vars(Next)

-----------------------------------------------------------------------------
(* The type invariant.                                                     *)
TypeOK ==
  /\ covered \subseteq (1..N) \X Value \X (1..N) \X Value
  /\ selected \in Seq(Value \X Value \X Value)
  /\ bestCombo \in (Value \X Value \X Value) \cup {None}
  /\ bestNew \in Nat \cup {-1}
  /\ k \in 1..(Total + 1)
  /\ pc \in {"test", "scan", "done"}

(* When pairwise_combinations() returns, its result covers every pair of   *)
(* values of every two dimensions (the docstring's "complete 2-way         *)
(* coverage"), whether the loop ended on its test or on the break.         *)
CoverageComplete == pc = "done" => CoversAllPairs(selected)

(* The canonical greedy choice against the set of covered pairs cov: the   *)
(* first combination, in full enumeration order, that adds the most        *)
(* uncovered pairs.                                                        *)
FirstBest(cov) ==
  FullCombinations[CHOOSE m \in 1..Total :
                     /\ \A q \in 1..Total : Gain(FullCombinations[q], cov)
                                              <= Gain(FullCombinations[m], cov)
                     /\ \A q \in 1..(m - 1) : Gain(FullCombinations[q], cov)
                                                < Gain(FullCombinations[m], cov)]

(* Every round of the while loop appends exactly the combination the      *)
(* spec's tie-break rule names: among all combinations, one adding the    *)
(* most uncovered pairs (at least one), and the first such one in full    *)
(* enumeration order.                                                      *)
GreedyChoice ==
  [][selected' # selected =>
       /\ Gain(FirstBest(covered), covered) > 0
       /\ selected' = Append(selected, FirstBest(covered))]_vars

(* pairwise_combinations() returns: the while loop does not run forever.   *)
Termination == <>(pc = "done")

-----------------------------------------------------------------------------
(* The refinement mapping: the abstract call has returned exactly when the *)
(* loop is at "done", and its result is then `selected`.                   *)
CS == INSTANCE CoveringStrategy
        WITH result   <- IF pc = "done" THEN selected ELSE <<>>,
             returned <- (pc = "done")

(* The built-in greedy loop implements the pairwise contract: it returns, *)
(* and what it returns is a list of combinations of all_combos, none      *)
(* selected twice, covering every required pair.                           *)
ImplementsCoveringStrategy == CS!Spec
=============================================================================
