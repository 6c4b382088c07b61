------------------------------ MODULE MCRvtaLog ------------------------------
EXTENDS RvtaLog, TLC

CONSTANTS f1, f2

(* Friend codes are interchangeable. *)
Symmetry == Permutations(FC)
==============================================================================
