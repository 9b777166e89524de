-------------------------- MODULE MCNvmeDurability --------------------------
(***************************************************************************)
(* Instances of NvmeDurability for TLC.                                    *)
(***************************************************************************)
EXTENDS NvmeDurability, TLC

CONSTANTS w1, w2

Workers1 == {w1}
Workers2 == {w1, w2}
NoDisk == {}
AllModes == {"ordered", "durable", "fast"}
Disks2 == {1, 2}
OneDisk == {2}
Symmetric == Permutations(Workers2)
=============================================================================
