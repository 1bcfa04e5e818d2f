---------------------------- MODULE MCEioManager ----------------------------
(* Instances of EioManager: a flash of two firmware blocks, one reserved   *)
(* block and one certificate block.                                        *)
EXTENDS EioManager, TLC

CONSTANTS cli, web, cfg1, cfg2, refused, raises

MCErased == "ff"
MCGarbage == "heap"
MCNoise == "noise"
MCOld == <<"fw", "old", "calib", "cert">>
MCNew == <<"fw", "new", "blank", "cert2">>
MCBad == <<"fw", "bit", "blank", "cert2">>
MCImages == {MCOld, MCNew, MCBad}
MCStock == {MCNew, MCBad}
MCSymmetry == Permutations({cfg1, cfg2})
=============================================================================
