--------------------------- MODULE MC_KVPChannel ---------------------------
(* Model-checking instance of KVPChannel: one key, one value, two         *)
(* credentials, one ordinary VIF at device 0.                              *)
EXTENDS KVPChannel

MCKeys == {"k1"}
MCVals == {"v1"}
=============================================================================
