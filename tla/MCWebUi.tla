------------------------------- MODULE MCWebUi -------------------------------
(* Two slots, one module, and one that only another client sets and the    *)
(* page cannot read.                                                       *)
EXTENDS WebUi

McFiles == {<<"None", "good">>}
McOthers == {<<"odd", "None">>}
=============================================================================
