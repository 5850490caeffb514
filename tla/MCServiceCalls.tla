---------------------------- MODULE MCServiceCalls ----------------------------
(* Instances of ServiceCalls for TLC.                                      *)
EXTENDS ServiceCalls, TLC

Symm == Permutations(Callers)
=============================================================================
