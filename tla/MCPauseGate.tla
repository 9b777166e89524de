---------------------------- MODULE MCPauseGate ----------------------------
(***************************************************************************)
(* Instances of PauseGate for TLC.                                         *)
(***************************************************************************)
EXTENDS PauseGate

CONSTANTS cpu0, cpu1, cpu2

Cpu12 == {cpu1, cpu2}
=============================================================================
