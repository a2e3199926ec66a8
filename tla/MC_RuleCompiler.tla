--------------------------- MODULE MC_RuleCompiler ---------------------------
(* RuleCompiler for TLC: the VMs are interchangeable model values. *)
EXTENDS RuleCompiler, TLC

VMSymmetry == Permutations(VMs)
=============================================================================
