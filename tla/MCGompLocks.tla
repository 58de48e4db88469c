------------------------------ MODULE MCGompLocks ------------------------------
(***************************************************************************)
(* Model checking of the lock words.                                       *)
(***************************************************************************)
EXTENDS GompLocks

CONSTANTS t1, t2, t3
==============================================================================
