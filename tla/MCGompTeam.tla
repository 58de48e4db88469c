------------------------------ MODULE MCGompTeam ------------------------------
(***************************************************************************)
(* Model checking of fork and join.                                        *)
(***************************************************************************)
EXTENDS GompTeam
==============================================================================
