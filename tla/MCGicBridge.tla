---------------------------- MODULE MCGicBridge ----------------------------
(***************************************************************************)
(* An instance of GicBridge for TLC: CPU 1 has an SGI and its timer, and   *)
(* CPU 0 is where the one SPI goes at first.                               *)
(***************************************************************************)
EXTENDS GicBridge

SgiAndTimer == [c \in Cpu |-> IF c = 1 THEN {1, Vtimer} ELSE {}]
Start       == [i \in Intid |-> IF i = 1 THEN 2 ELSE 4]
=============================================================================
