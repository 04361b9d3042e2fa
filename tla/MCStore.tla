------------------------------ MODULE MCStore ------------------------------
(* APIStore for TLC: four keys and a bound that three small bodies fill.     *)
EXTENDS APIStore, TLC

CONSTANTS k1, k2, k3, k4

FourKeys == {k1, k2, k3, k4}
JustOK == {OK}
SmallSizes == 0..4

Symmetry == Permutations(Keys)
=============================================================================
