-------------------------- MODULE MCFirmwareUpdate --------------------------
(* Instances of FirmwareUpdate: two boot blocks, one block per environment *)
(* copy and one unused block; the packages share the first boot block,     *)
(* and "short" is v2 without the rest.                                     *)
EXTENDS FirmwareUpdateRefinement

CONSTANTS v1, v2, short

MCErased == <<"ff">>
MCBad == <<"bad">>
MCNoise == <<<<"n1">>, <<"n2">>>>
MCImage == [v \in Versions |->
  CASE v = v1 -> <<<<"spl">>, <<"b1">>, <<"ff">>, <<"ff">>>>
    [] v = v2 -> <<<<"spl">>, <<"b2">>, <<"ff">>, <<"ff">>>>
    [] OTHER  -> <<<<"spl">>, <<"b2">>, <<"ff">>>>]
MCEnvBin == [t \in [base : Versions, kept : Kept] |->
  [a \in {EnvLo} |-> <<"env", t.base, t.kept>>]]
MCData == {<<"ff">>, <<"bad">>, <<"n1">>, <<"n2">>, <<"spl">>, <<"b1">>, <<"b2">>}
            \cup {<<"env", v, k>> : v \in Versions, k \in Kept}

(* A second invocation is a rollback.                                      *)
ThenRollback == runs = 2 => cmd.mode = "rollback"
=============================================================================
