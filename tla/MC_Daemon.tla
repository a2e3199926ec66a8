------------------------------- MODULE MC_Daemon -------------------------------
EXTENDS Daemon, TLC

(* The invocations are interchangeable. *)
ProcSymmetry == Permutations(Procs)
=============================================================================
