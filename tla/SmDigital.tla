------------------------------ MODULE SmDigital ------------------------------
(***************************************************************************)
(* The pages of the digital modules: SM 1221 (inputs), SM 1223 (inputs and *)
(* relay outputs) and SM SENS DI (nothing to set).                         *)
(***************************************************************************)
EXTENDS ConfText

CONSTANT DqChannels   \* relay outputs of an SM 1223; 8 and 16 in the code

Sm1221Mlfb == "6ES7221-1BF32-0XB0"
SmSensMlfb == "6ES7647-0CM00-1AA2"
Sm1223Mlfb == {"6ES7223-1QH32-0XB0", "6ES7223-1PL32-0XB0"}

ASSUME DqAssumption == DqChannels \in [Sm1223Mlfb -> Nat]

TimeMapping == <<<<"TIME_2", 2>>, <<"TIME_3", 3>>, <<"TIME_4", 4>>, <<"TIME_5", 5>>,
                 <<"TIME_6", 6>>, <<"TIME_7", 7>>, <<"TIME_9", 9>>>>
BehaviorMapping == <<<<"DISCONN_2", 2>>, <<"DISCONN_3", 3>>>>
SubstituteMapping == <<<<TRUE, 1>>, <<FALSE, 0>>>>

(* The groups of inputs that share a filter time.                          *)
DiGroups(m) ==
  {"ch0_3", "ch4_7"} \union (IF m = "6ES7223-1PL32-0XB0" THEN {"ch8_11", "ch12_15"} ELSE {})

(* Mutant: the substitute values are those of a new module.                *)
Sm1223ToUIAllOn(y) ==
  [mlfb |-> y.mlfb,
   di |-> [g \in DiGroups(y.mlfb) |-> YamlToUi(TimeMapping, y.di[g])],
   dq |-> [behavior_with_OD |-> YamlToUi(BehaviorMapping, y.dq.behavior_with_OD),
           substitute |-> [i \in 0..(DqChannels[y.mlfb] - 1) |-> TRUE]]]

-----------------------------------------------------------------------------
Sm1221Default ==
  [mlfb |-> Sm1221Mlfb, di |-> [g \in DiGroups(Sm1221Mlfb) |-> "TIME_3"]]

Sm1221Conf ==
  [mlfb : {Sm1221Mlfb}, di : [DiGroups(Sm1221Mlfb) -> Texts(TimeMapping)]]

Sm1221ToUI(y) ==
  [mlfb |-> y.mlfb, di |-> [g \in DiGroups(y.mlfb) |-> YamlToUi(TimeMapping, y.di[g])]]

Sm1221ToDevice(c) ==
  [mlfb |-> c.mlfb, di |-> [g \in DiGroups(c.mlfb) |-> UiToYaml(TimeMapping, c.di[g])]]

SmSensDefault == [mlfb |-> SmSensMlfb]
SmSensToUI(y) == [mlfb |-> y.mlfb]
SmSensToDevice(c) == [mlfb |-> c.mlfb]

-----------------------------------------------------------------------------
Sm1223Default(m) ==
  [mlfb |-> m, di |-> [g \in DiGroups(m) |-> "TIME_3"],
   dq |-> [behavior_with_OD |-> "DISCONN_2",
           substitute |-> [i \in 0..(DqChannels[m] - 1) |-> TRUE]]]

Sm1223Conf(m) ==
  [mlfb : {m}, di : [DiGroups(m) -> Texts(TimeMapping)],
   dq : [behavior_with_OD : Texts(BehaviorMapping),
         substitute : [0..(DqChannels[m] - 1) -> BOOLEAN]]]

Sm1223ToUI(y) ==
  [mlfb |-> y.mlfb,
   di |-> [g \in DiGroups(y.mlfb) |-> YamlToUi(TimeMapping, y.di[g])],
   dq |-> [behavior_with_OD |-> YamlToUi(BehaviorMapping, y.dq.behavior_with_OD),
           substitute |-> [i \in 0..(DqChannels[y.mlfb] - 1) |->
                             YamlToUi(SubstituteMapping, y.dq.substitute[i])]]]

(* Also the substitute values that the behavior does not ask for.          *)
Sm1223ToDevice(c) ==
  [mlfb |-> c.mlfb,
   di |-> [g \in DiGroups(c.mlfb) |-> UiToYaml(TimeMapping, c.di[g])],
   dq |-> [behavior_with_OD |-> UiToYaml(BehaviorMapping, c.dq.behavior_with_OD),
           substitute |-> [i \in 0..(DqChannels[c.mlfb] - 1) |->
                             UiToYaml(SubstituteMapping, c.dq.substitute[i])]]]

(* onChangeBehaviorWithOD, onChangeChSubstitute; the check boxes are shown *)
(* for one of the behaviors only.                                          *)
Sm1223WithBehavior(c, value) == [c EXCEPT !.dq.behavior_with_OD = value]
Sm1223WithSubstitute(c, i, value) == [c EXCEPT !.dq.substitute[i] = value]
SubstituteShown(c) == c.dq.behavior_with_OD = "DISCONN_3"

-----------------------------------------------------------------------------
(* What the schemas of the server take.                                    *)
DiAccepted(y) == DOMAIN y.di = DiGroups(y.mlfb) /\ \A g \in DOMAIN y.di : y.di[g] \in Codes(TimeMapping)

Sm1223Accepted(y) ==
  /\ DiAccepted(y)
  /\ y.dq.behavior_with_OD \in {2, 3}
  /\ DOMAIN y.dq.substitute \subseteq 0..(DqChannels[y.mlfb] - 1)
  /\ \A i \in DOMAIN y.dq.substitute : y.dq.substitute[i] \in {0, 1}
  /\ y.dq.behavior_with_OD = 3 => DOMAIN y.dq.substitute = 0..(DqChannels[y.mlfb] - 1)
=============================================================================
