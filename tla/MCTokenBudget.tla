----------------------------- MODULE MCTokenBudget -----------------------------
(* Small instances of TokenBudget for TLC: candidates are interchangeable.  *)
EXTENDS TokenBudget, TLC

Symmetry == Permutations(Candidates)
===============================================================================
