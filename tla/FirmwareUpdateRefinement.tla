---------------------- MODULE FirmwareUpdateRefinement ----------------------
(* FirmwareUpdate, used with backups and as its messages advise, implements*)
(* the promise of SafeUpdate.                                              *)
EXTENDS FirmwareUpdate

CONSTANT Damaged

ASSUME DamagedAssumption == Damaged \notin Versions

(* The versions whose boot partitions a content holds, and one of them.    *)
HeldBy(f) == {v \in Versions : /\ Len(Image[v]) = ReadLen
                               /\ \A a \in Boot : f[a] = Image[v][a]}
VersionOf(f) == CHOOSE v \in HeldBy(f) : TRUE

running == IF Whole(flash) THEN VersionOf(flash) ELSE Damaged
saved == IF tar.state = "full" THEN VersionOf(tar.uboot) ELSE NoVersion

Safe == INSTANCE SafeUpdate WITH Version <- Versions, Nothing <- NoVersion

(* The tool never takes the bootloader apart without a complete archive of *)
(* a complete bootloader, and never replaces that archive meanwhile.       *)
ImplementsSafeUpdate == Safe!Spec
=============================================================================
