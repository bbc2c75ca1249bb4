------------------------------ MODULE MCHosVfs -------------------------------
(* Instances of HosVfs for TLC.  Nothing tells connections apart, and all   *)
(* properties checked are invariants, so their permutations are symmetries. *)
EXTENDS HosVfs, TLC

ConnSymmetry == Permutations(Conns)
=============================================================================
