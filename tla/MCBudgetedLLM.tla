--------------------------- MODULE MCBudgetedLLM ---------------------------
(***************************************************************************)
(* Instances of BudgetedLLM for TLC: two calls of a stage and one outside  *)
(* of any, one slot.                                                       *)
(***************************************************************************)
EXTENDS BudgetedLLM, TLC

\* The calls of the stage are interchangeable.
Symmetry == Permutations(StageCalls)
=============================================================================
