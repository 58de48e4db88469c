----------------------------- MODULE MCMSGBarrier -----------------------------
(* Model-checking instances of MSGBarrier: the constants are in the cfg.     *)
EXTENDS MSGBarrier
==============================================================================
