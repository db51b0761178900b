----------------------------- MODULE BootTarget -----------------------------
(***************************************************************************)
(* What a firmware update promises, whatever happens during it: the device *)
(* always has a complete image to boot, and that image changes in one step *)
(* from the running firmware to the new one.                               *)
(***************************************************************************)
CONSTANT Images

VARIABLES
  runs,   \* the image that runs, or ran last
  boots   \* the image that the next boot starts

vars == <<runs, boots>>

Init == runs \in Images /\ boots = runs

Install ==
  /\ boots = runs
  /\ boots' \in Images
  /\ UNCHANGED runs

Boot == runs' = boots /\ UNCHANGED boots

Next == Install \/ Boot

Spec == Init /\ [][Next]_vars

=============================================================================
