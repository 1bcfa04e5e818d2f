----------------------------- MODULE SafeUpdate -----------------------------
(***************************************************************************)
(* What updating the bootloader of a device promises: at every moment the  *)
(* device runs a complete version or a complete version is saved.          *)
(***************************************************************************)
CONSTANTS Version, Damaged, Nothing

VARIABLES running,  \* the version in the flash, or Damaged
          saved     \* the version in the rollback archive, or Nothing

Init == running \in Version /\ saved = Nothing

(* The archive is given up or replaced only while the device runs.         *)
Drop == running # Damaged /\ saved' = Nothing /\ UNCHANGED running
Save == running # Damaged /\ saved' = running /\ UNCHANGED running

(* The flash is taken apart only under the cover of an archive.            *)
Damage == saved # Nothing /\ running' = Damaged /\ UNCHANGED saved

(* A new version, or by a rollback the saved one, is in place.             *)
Install == saved # Nothing /\ running' \in Version /\ UNCHANGED saved

Next == Drop \/ Save \/ Damage \/ Install

Spec == Init /\ [][Next]_<<running, saved>>
=============================================================================
