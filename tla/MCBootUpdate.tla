---------------------------- MODULE MCBootUpdate ----------------------------
(* Devices on which the failsafe update is model-checked. *)
EXTENDS BootUpdateInv

CONSTANTS mmcblk0, sda, sdb, tz, abl

\* eMMC: one device lists every partition.
EmmcLuns == <<mmcblk0>>
EmmcLunOf == [p \in {tz, abl} |-> mmcblk0]

\* UFS with the boot images on two LUNs.
UfsLuns == <<sda, sdb>>
UfsLunOf == [p \in {tz, abl} |-> IF p = tz THEN sda ELSE sdb]

\* UFS with one LUN of boot images.
UfsOneLun == <<sda>>
UfsOneLunOf == [p \in {tz} |-> sda]

=============================================================================
