----------------------------- MODULE MC_Listener -----------------------------
(* Listener for TLC: two VMs as model values. *)
EXTENDS Listener
=============================================================================
