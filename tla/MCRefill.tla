------------------------------- MODULE MCRefill -------------------------------
(***************************************************************************)
(* One L3 port with a refill unit, two ports with and without static       *)
(* mapping, and the multiplexer of a shared cache's banks.  The refill     *)
(* unit before several ports is left out: with three cores it delivers     *)
(* wrong words (README, section 4).                                        *)
(***************************************************************************)
EXTENDS Refill

Setup(kind, size, static, ports) ==
  [mux |-> kind, depth |-> size, static |-> static, ports |-> ports]
MCSetups == {Setup("L3", 1, FALSE, 1), Setup("L3", 2, FALSE, 1), Setup("L3", 0, FALSE, 2),
             Setup("L3", 0, TRUE, 2), Setup("miss", 0, FALSE, 1)}
=============================================================================
