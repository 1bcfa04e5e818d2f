------------------------------ MODULE ConfText ------------------------------
(***************************************************************************)
(* What the module pages of the configuration web UI have in common: the   *)
(* converter between the texts shown and the codes of a configuration, and *)
(* the three kinds of entries.                                             *)
(*                                                                         *)
(* A mapping is a sequence of pairs <<text, code>>.  A text is named by its*)
(* key in lib/uiString.                                                    *)
(***************************************************************************)
EXTENDS Integers, Sequences, FiniteSets

Error == "ERROR!"     \* what yamlToUi returns when nothing matches
NoCode == -1          \* what uiToYaml returns then

Texts(m) == {m[i][1] : i \in DOMAIN m}
Codes(m) == {m[i][2] : i \in DOMAIN m}

First(S) == CHOOSE i \in S : \A j \in S : i <= j

(* Mutant: the last pair that matches is taken.                            *)
YamlToUiLast(m, code) ==
  LET hit == {i \in DOMAIN m : m[i][2] = code}
  IN IF hit = {} THEN Error ELSE m[CHOOSE i \in hit : \A j \in hit : j <= i][1]

(* The first pair that matches.                                            *)
UiToYaml(m, text) ==
  LET hit == {i \in DOMAIN m : m[i][1] = text}
  IN IF hit = {} THEN NoCode ELSE m[First(hit)][2]

YamlToUi(m, code) ==
  LET hit == {i \in DOMAIN m : m[i][2] = code}
  IN IF hit = {} THEN Error ELSE m[First(hit)][1]

-----------------------------------------------------------------------------
(* CheckConfig: an effect clears the entry when it becomes disabled, and   *)
(* when it is mounted disabled; not when a new value comes to an entry that*)
(* is disabled already.                                                    *)

(* Mutant: the effect is gone.                                             *)
NoEffect(value, was, is, mounts) == value

CheckEffect(value, was, is, mounts) == value /\ ~(is /\ (mounts \/ ~was))

(* SliderConfig: how a number lies to the entry's bounds.  "frac" is a     *)
(* number between them that is not whole, "over" one above the entry's     *)
(* maximum that the device still takes.                                    *)
SliderValues == {"low", "min", "mid", "frac", "max", "over", "high"}
Dragged == {"min", "mid", "max"}

(* Mutant: leaving the field corrects only a number that is too small.     *)
ClampLow(v) == IF v = "low" THEN "min" ELSE v

Clamp(v) == CASE v = "low" -> "min" [] v \in {"over", "high"} -> "max" [] OTHER -> v
=============================================================================
