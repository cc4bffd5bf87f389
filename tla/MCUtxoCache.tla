---------------------------- MODULE MCUtxoCache ----------------------------
(* UtxoCache for TLC: the outputs are interchangeable, and so are the      *)
(* goroutines.                                                             *)
EXTENDS UtxoCache, TLC

MCSymmetry == Permutations(Outs) \cup Permutations(Callers)
=============================================================================
