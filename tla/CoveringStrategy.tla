--------------------------- MODULE CoveringStrategy ---------------------------
(***************************************************************************)
(* What a pairwise strategy promises: the contract pairwise_combinations() *)
(* states in its docstring ("complete 2-way coverage") and that both of    *)
(* its branches (allpairspy and the built-in greedy loop) are held to.     *)
(* One call returns, in one step, a list of combinations of the full       *)
(* domain, none twice, that covers every required pair; and the call does *)
(* return.  Which list, and in which order, is left open.                  *)
(***************************************************************************)
EXTENDS Combinations, Functions

VARIABLES
  result,     \* the returned list (<<>> before the call returns)
  returned    \* the call has returned

absVars == <<result, returned>>

(* A valid answer: drawn from all_combos, without repetition, covering.    *)
IsPairwiseCover(s) ==
  /\ s \in Seq(ComboSet)
  /\ IsInjective(s)
  /\ CoversAllPairs(s)

Init ==
  /\ result = <<>>
  /\ returned = FALSE

(* The call returns some valid answer.                                     *)
Return ==
  /\ ~returned
  /\ returned' = TRUE
  /\ IsPairwiseCover(result')

(* The call eventually returns.                                            *)
Spec == Init /\ [][Return]_absVars /\ <>returned

(* The safety part of the contract alone.                                  *)
SafeSpec == Init /\ [][Return]_absVars
=============================================================================
