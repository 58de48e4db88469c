-------------------------------- MODULE MCIdle --------------------------------
(***************************************************************************)
(* Three cores that synchronise three times, and stop and wake each other  *)
(* by messages or by events.                                               *)
(***************************************************************************)
EXTENDS Idle
CONSTANTS c1, c2, c3
MCCores == {c1, c2, c3}
=============================================================================
