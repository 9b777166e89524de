--------------------------- MODULE MCNvmeHandoff ---------------------------
(***************************************************************************)
(* Instances of NvmeHandoff for TLC.                                       *)
(***************************************************************************)
EXTENDS NvmeHandoff

CONSTANTS cpu0, cpu1, b1, b2

OneSecondary == {cpu1}
Batches2 == {b1, b2}
Batches1 == {b1}
Fua1 == {b1}
=============================================================================
