-------------------------------- MODULE MCDMA ----------------------------------
(***************************************************************************)
(* Model checking of the DMA: what the program of each core does.          *)
(***************************************************************************)
EXTENDS DMA

Sync == <<FALSE, FALSE, 0>>
Async == <<TRUE, FALSE, 1>>
Sleep == <<FALSE, TRUE, 1>>

\* Core 0 polls for one job; core 1 fills its table with jobs it polls for, jobs it
\* does not wait for and jobs in sleep mode.
TwoModes == [c \in 0 .. 1 |-> IF c = 0 THEN {Sync} ELSE {Sync, Async, Sleep}]
TwoOut == [c \in 0 .. 1 |-> IF c = 0 THEN 1 ELSE 3]
TwoJobs == [c \in 0 .. 1 |-> IF c = 0 THEN 1 ELSE 3]
=============================================================================
