------------------------------ MODULE MCRegime ------------------------------
(* Small instances of Regime.                                              *)
EXTENDS Regime, TLC

\* The variables are interchangeable: no definition names or orders them.
VarSymmetry == Permutations(Vars)
=============================================================================
