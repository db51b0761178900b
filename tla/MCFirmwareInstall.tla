------------------------- MODULE MCFirmwareInstall -------------------------
(* Instances of FirmwareInstall for TLC.                                   *)
EXTENDS FirmwareInstall

CONSTANTS f1, f2, f3

\* one image fills the partition, one ends in its first block, one is too large
MCSize == [f \in Images |-> IF f = f1 THEN 3 ELSE IF f = f2 THEN 2 ELSE 4]
=============================================================================
