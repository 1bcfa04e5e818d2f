------------------------------ MODULE SlotPanel ------------------------------
(***************************************************************************)
(* One slot of the extended-IO configuration in the web UI: the module     *)
(* chosen, its page, what the user does there, and the configurations that *)
(* are loaded into the slot from the device or from a file.                *)
(***************************************************************************)
EXTENDS SmAnalogInput, SmRtd, SmDigital, SmEnergyMeter

CONSTANTS Modules,        \* the modules the user tries
          Tried,          \* the texts the user tries
          Clicked,        \* the check boxes the user tries
          Typed,          \* the numbers the user types
          DeviceConfigs   \* the device configurations that are loaded

None == [mlfb |-> "None"]

ModuleTypes == AiMlfb \union RtdMlfb \union Sm1223Mlfb \union {Sm1221Mlfb, SmSensMlfb, EmMlfb}

ASSUME PanelAssumption ==
  /\ Modules \subseteq ModuleTypes \union {"None"}
  /\ Typed \subseteq SliderValues

VARIABLES conf,     \* the slot's configuration in the UI
          shown,    \* the slot's tab is open
          typing,   \* the number entry that has the focus: <<field, channel>>
          loaded    \* history: what kind of configuration was loaded last

vars == <<conf, shown, typing, loaded>>

-----------------------------------------------------------------------------
(* onChangeModSelect.                                                      *)
Default(m) ==
  CASE m \in AiMlfb -> AiDefault(m) [] m \in RtdMlfb -> RtdDefault(m)
    [] m \in Sm1223Mlfb -> Sm1223Default(m) [] m = Sm1221Mlfb -> Sm1221Default
    [] m = SmSensMlfb -> SmSensDefault [] m = EmMlfb -> EmDefault [] OTHER -> None

(* One slot of importYamlConfig and of exportYamlConfig.                   *)
ToUI(y) ==
  CASE y.mlfb \in AiMlfb -> AiToUI(y) [] y.mlfb \in RtdMlfb -> RtdToUI(y)
    [] y.mlfb \in Sm1223Mlfb -> Sm1223ToUI(y) [] y.mlfb = Sm1221Mlfb -> Sm1221ToUI(y)
    [] y.mlfb = SmSensMlfb -> SmSensToUI(y) [] y.mlfb = EmMlfb -> EmToUI(y) [] OTHER -> None

ToDevice(c) ==
  CASE c.mlfb \in AiMlfb -> AiToDevice(c) [] c.mlfb \in RtdMlfb -> RtdToDevice(c)
    [] c.mlfb \in Sm1223Mlfb -> Sm1223ToDevice(c) [] c.mlfb = Sm1221Mlfb -> Sm1221ToDevice(c)
    [] c.mlfb = SmSensMlfb -> SmSensToDevice(c) [] c.mlfb = EmMlfb -> EmToDevice(c)
    [] OTHER -> [mlfb |-> "NA"]

Accepted(y) ==
  CASE y.mlfb \in AiMlfb -> AiAccepted(y) [] y.mlfb \in RtdMlfb -> RtdAccepted(y)
    [] y.mlfb \in Sm1223Mlfb -> Sm1223Accepted(y) [] y.mlfb = Sm1221Mlfb -> DiAccepted(y)
    [] y.mlfb = EmMlfb -> EmAccepted(y) [] OTHER -> y.mlfb \in {SmSensMlfb, "NA"}

(* The page rendered, and the effects of its check boxes.                  *)
Effects(old, c, mounts) ==
  CASE c.mlfb \in AiMlfb -> AiEffects(old, c, mounts)
    [] c.mlfb \in RtdMlfb -> RtdEffects(old, c, mounts)
    [] c.mlfb = EmMlfb -> EmEffects(old, c, mounts)
    [] OTHER -> c

NothingDisabled(c) ==
  CASE c.mlfb \in AiMlfb -> \A i \in DOMAIN c.channels : AiNothingDisabled(c.channels[i])
    [] c.mlfb \in RtdMlfb -> \A i \in DOMAIN c.channels : RtdNothingDisabled(c.channels[i])
    [] c.mlfb = EmMlfb -> EmNothingDisabled(c)
    [] OTHER -> TRUE

OffButDirection(c) == IF c.mlfb = EmMlfb THEN EmOthersOff(c) ELSE NothingDisabled(c)

-----------------------------------------------------------------------------
Init == conf = None /\ shown = FALSE /\ typing = {} /\ loaded = "no"

(* A click somewhere takes the focus from the number entry first.          *)
ChangeModule(m) ==
  /\ shown /\ typing = {} /\ m # conf.mlfb
  /\ conf' = Effects(Default(m), Default(m), TRUE)
  /\ loaded' = "no"
  /\ UNCHANGED <<shown, typing>>

OpenTab ==
  /\ ~shown
  /\ shown' = TRUE
  /\ conf' = Effects(conf, conf, TRUE)
  /\ UNCHANGED <<typing, loaded>>

CloseTab ==
  /\ shown /\ typing = {}
  /\ shown' = FALSE
  /\ UNCHANGED <<conf, typing, loaded>>

(* A configuration that sets disabled entries, that leaves open which range*)
(* is meant, or whose page offers more than the device has.  Pages make the*)
(* last two themselves: an RTD channel that is switched off, a meter of    *)
(* version 32 or of connection type 0B or 10.                              *)
Wild(y) ==
  \/ ~OffButDirection(ToUI(y))
  \/ y.mlfb \in RtdMlfb /\ \E i \in DOMAIN y.channels : y.channels[i].type = 0
  \/ y.mlfb = EmMlfb /\ VariantsTaken(y.module_version, y.con_type) # Codes(VariantMapping)

(* The conversion throws when a channel is missing, which the server takes *)
(* for relay outputs with the behavior that needs no substitute values.    *)
Importable(y) ==
  /\ y.mlfb \in AiMlfb => 0..(AiChannels[y.mlfb] - 1) \subseteq DOMAIN y.channels
  /\ y.mlfb \in RtdMlfb => 0..(RtdChannels[y.mlfb] - 1) \subseteq DOMAIN y.channels
  /\ y.mlfb \in Sm1223Mlfb => 0..(DqChannels[y.mlfb] - 1) \subseteq DOMAIN y.dq.substitute
  /\ y.mlfb = EmMlfb => EmChannels \subseteq DOMAIN y.channels

(* The answer of /retrieve, or a file that was read; the page stays mounted*)
(* when the module is the same.                                            *)
Load(y) ==
  LET new == ToUI(y)
      remounts == new.mlfb # conf.mlfb
  IN /\ Importable(y)
     /\ conf' = IF shown THEN Effects(IF remounts THEN new ELSE conf, new, remounts) ELSE new
     /\ typing' = IF remounts THEN {} ELSE typing
     /\ loaded' = IF ~Accepted(y) THEN "bad" ELSE IF Wild(y) THEN "wild" ELSE "tame"
     /\ UNCHANGED shown

-----------------------------------------------------------------------------
(* The user changes an entry.                                              *)
Edit(new) ==
  /\ shown /\ typing = {}
  /\ conf' = Effects(conf, new, FALSE)
  /\ UNCHANGED <<shown, typing, loaded>>

(* What the user picks from a selection: another text than the one shown.  *)
Options(selection, value) == (Tried \intersect selection) \ {value}

(* Entries that AI and RTD modules share.                                  *)
ChangeIntegTime ==
  /\ conf.mlfb \in AiMlfb \union RtdMlfb
  /\ \E t \in Options(Texts(AiMapping.integ_time), conf.integ_time) :
       Edit([conf EXCEPT !.integ_time = t])

ChangePowerAlarm ==
  /\ conf.mlfb \in AiMlfb \union RtdMlfb /\ "power_alarm" \in Clicked
  /\ Edit([conf EXCEPT !.power_alarm = ~@])

ChangeSmooth ==
  /\ conf.mlfb \in AiMlfb \union RtdMlfb
  /\ \E i \in DOMAIN conf.channels :
       /\ conf.mlfb \in RtdMlfb => ~RtdOffDisabled(conf.channels[i])
       /\ \E t \in Options(Texts(AiMapping.smooth), conf.channels[i].smooth) :
            Edit([conf EXCEPT !.channels[i].smooth = t])

AiChangeType ==
  /\ conf.mlfb \in AiMlfb
  /\ \E i \in DOMAIN conf.channels :
       /\ AiTypeOffered(i)
       /\ \E t \in Options(Texts(AiMapping.type), conf.channels[i].type) :
            Edit(AiWithType(conf, i, t))

AiChangeRange ==
  /\ conf.mlfb \in AiMlfb
  /\ \E i \in DOMAIN conf.channels :
       \E t \in Options(conf.channels[i].ranges, conf.channels[i].range) :
         Edit([conf EXCEPT !.channels[i].range = t])

AiChangeAlarm ==
  /\ conf.mlfb \in AiMlfb
  /\ \E i \in DOMAIN conf.channels :
       LET ch == conf.channels[i]
       IN \/ /\ "open_wire_alarm" \in Clicked /\ ~AiOpenWireDisabled(ch)
             /\ Edit([conf EXCEPT !.channels[i].open_wire_alarm = ~@])
          \/ /\ "overflow_alarm" \in Clicked
             /\ Edit([conf EXCEPT !.channels[i].overflow_alarm = ~@])
          \/ /\ "underflow_alarm" \in Clicked /\ ~AiUnderflowDisabled(ch)
             /\ Edit([conf EXCEPT !.channels[i].underflow_alarm = ~@])

RtdChangeType ==
  /\ conf.mlfb \in RtdMlfb
  /\ \E i \in DOMAIN conf.channels :
       \E t \in Options(Texts(RtdMapping.type), conf.channels[i].type) :
         Edit([conf EXCEPT !.channels[i] = RtdWithType(@, t)])

RtdChangeRange ==
  /\ conf.mlfb \in RtdMlfb
  /\ \E i \in DOMAIN conf.channels :
       /\ ~RtdOffDisabled(conf.channels[i])
       /\ \E t \in Options(conf.channels[i].ranges, conf.channels[i].range) :
            Edit([conf EXCEPT !.channels[i] = RtdWithRange(@, t)])

RtdChangeThermal ==
  /\ conf.mlfb \in RtdMlfb
  /\ \E i \in DOMAIN conf.channels :
       LET ch == conf.channels[i]
       IN /\ ~RtdThermalDisabled(ch)
          /\ \/ \E t \in Options(ch.coeffs, ch.temper_coeff) :
                  Edit([conf EXCEPT !.channels[i].temper_coeff = t])
             \/ \E t \in Options(Texts(RtdMapping.temper_unit), ch.temper_unit) :
                  Edit([conf EXCEPT !.channels[i].temper_unit = t])

RtdChangeAlarm ==
  /\ conf.mlfb \in RtdMlfb
  /\ \E i \in DOMAIN conf.channels :
       LET ch == conf.channels[i]
       IN \/ /\ "open_wire_alarm" \in Clicked /\ ~RtdOffDisabled(ch)
             /\ Edit([conf EXCEPT !.channels[i].open_wire_alarm = ~@])
          \/ /\ "overflow_alarm" \in Clicked /\ ~RtdOffDisabled(ch)
             /\ Edit([conf EXCEPT !.channels[i].overflow_alarm = ~@])
          \/ /\ "underflow_alarm" \in Clicked /\ ~RtdThermalDisabled(ch)
             /\ Edit([conf EXCEPT !.channels[i].underflow_alarm = ~@])

ChangeDelayTime ==
  /\ conf.mlfb \in Sm1223Mlfb \union {Sm1221Mlfb}
  /\ \E g \in DOMAIN conf.di :
       \E t \in Options(Texts(TimeMapping), conf.di[g]) :
         Edit([conf EXCEPT !.di[g] = t])

ChangeBehaviorWithOD ==
  /\ conf.mlfb \in Sm1223Mlfb
  /\ \E t \in Options(Texts(BehaviorMapping), conf.dq.behavior_with_OD) :
       Edit(Sm1223WithBehavior(conf, t))

ChangeChSubstitute ==
  /\ conf.mlfb \in Sm1223Mlfb /\ SubstituteShown(conf) /\ "substitute" \in Clicked
  /\ \E i \in DOMAIN conf.dq.substitute :
       Edit(Sm1223WithSubstitute(conf, i, ~conf.dq.substitute[i]))

-----------------------------------------------------------------------------
(* The energy meter.                                                       *)
EmChangeConType ==
  /\ conf.mlfb = EmMlfb
  /\ \E t \in Options(Texts(ConTypeMapping), conf.con_type) :
       Edit(EmWithConType(conf, t))

EmChangeModule ==
  /\ conf.mlfb = EmMlfb /\ ~ModuleDisabled(conf)
  /\ \/ \E t \in Options(EmVersions, conf.module_version) : Edit(EmWithVersion(conf, t))
     \/ \E t \in Options(conf.variants, conf.data_variant) :
          Edit([conf EXCEPT !.data_variant = t])
     \/ \E t \in Options(Texts(EmRangeMapping), conf.range) :
          Edit([conf EXCEPT !.range = t])
     \/ \E t \in Options(Texts(LineFreqMapping), conf.line_freq) :
          Edit([conf EXCEPT !.line_freq = t])
     \/ \E t \in Options(Texts(PeriodMapping), conf.period_meters) :
          Edit([conf EXCEPT !.period_meters = t])
     \/ "meter_gate" \in Clicked /\ Edit([conf EXCEPT !.meter_gate = ~@])
     \/ "min_max_cal" \in Clicked /\ Edit([conf EXCEPT !.min_max_cal = ~@])
     \/ "diag_line_vol" \in Clicked /\ Edit([conf EXCEPT !.diag_line_vol = ~@])

EmChangeCheck ==
  /\ conf.mlfb = EmMlfb
  /\ \E i \in EmChannels, f \in EmChecks :
       /\ ~EmCheckDisabled(conf, f, i)
       /\ Edit(EmWithCheck(conf, f, i, ~conf.channels[i].check[f]))

EmChangeSecondCur ==
  /\ conf.mlfb = EmMlfb
  /\ \E i \in EmChannels :
       /\ ~SecondCurDisabled(conf, i)
       /\ \E t \in conf.channels[i].second_curs \ {conf.channels[i].ct_second_cur} :
            Edit(EmWithSecondCur(conf, i, t))

SliderEntries == {<<"line_vol_tol", 0>>} \union (EmSliders \X EmChannels)

EmDrag ==
  /\ conf.mlfb = EmMlfb
  /\ \E e \in SliderEntries, v \in Dragged :
       /\ ~EmSliderDisabled(conf, e[1], e[2]) /\ v # EmValue(conf, e[1], e[2])
       /\ Edit(EmWithValue(conf, e[1], e[2], v))

(* A number that is typed takes effect at once; leaving the entry corrects *)
(* it.                                                                     *)
EmType ==
  /\ conf.mlfb = EmMlfb /\ shown
  /\ \E e \in SliderEntries, v \in Typed :
       /\ typing \subseteq {e}
       /\ ~EmSliderDisabled(conf, e[1], e[2]) /\ v # EmValue(conf, e[1], e[2])
       /\ conf' = Effects(conf, EmWithValue(conf, e[1], e[2], v), FALSE)
       /\ typing' = {e}
  /\ UNCHANGED <<shown, loaded>>

EmBlur ==
  /\ \E e \in typing :
       conf' = Effects(conf, EmWithValue(conf, e[1], e[2], Clamp(EmValue(conf, e[1], e[2]))), FALSE)
  /\ typing' = {}
  /\ UNCHANGED <<shown, loaded>>

Next ==
  \/ \E m \in Modules : ChangeModule(m)
  \/ OpenTab
  \/ CloseTab
  \/ \E y \in DeviceConfigs : Load(y)
  \/ ChangeIntegTime
  \/ ChangePowerAlarm
  \/ ChangeSmooth
  \/ AiChangeType
  \/ AiChangeRange
  \/ AiChangeAlarm
  \/ RtdChangeType
  \/ RtdChangeRange
  \/ RtdChangeThermal
  \/ RtdChangeAlarm
  \/ ChangeDelayTime
  \/ ChangeBehaviorWithOD
  \/ ChangeChSubstitute
  \/ EmChangeConType
  \/ EmChangeModule
  \/ EmChangeCheck
  \/ EmChangeSecondCur
  \/ EmDrag
  \/ EmType
  \/ EmBlur

Spec == Init /\ [][Next]_vars

-----------------------------------------------------------------------------
(* The slot holds a configuration of its module, and only an entry of the  *)
(* page that is open has the focus.                                        *)
TypeOK ==
  /\ shown \in BOOLEAN
  /\ loaded \in {"no", "tame", "wild", "bad"}
  /\ typing \subseteq SliderEntries
  /\ typing # {} => shown /\ conf.mlfb = EmMlfb
  /\ loaded # "bad" =>
       CASE conf.mlfb \in AiMlfb -> conf \in AiConf(conf.mlfb)
         [] conf.mlfb \in RtdMlfb -> conf \in RtdConf(conf.mlfb)
         [] conf.mlfb \in Sm1223Mlfb -> conf \in Sm1223Conf(conf.mlfb)
         [] conf.mlfb = Sm1221Mlfb -> conf \in Sm1221Conf
         [] conf.mlfb = EmMlfb -> conf \in EmConf
         [] OTHER -> conf \in {None, SmSensDefault}

(* What the pages let through: a fraction that was typed into a number     *)
(* entry, and what a configuration that was loaded may leave behind: an    *)
(* alarm that is set and disabled, a coefficient that the range of the     *)
(* channel does not have, a variant that the version or the connection type*)
(* does not have.  Schemas mind such an alarm but of a voltage input.      *)
Fraction(c) ==
  c.mlfb = EmMlfb /\ \E e \in SliderEntries : EmValue(c, e[1], e[2]) = "frac"

Leftover(c) ==
  \/ /\ c.mlfb \in AiMlfb
     /\ \E i \in DOMAIN c.channels :
          c.channels[i].type = "TYPE_3" /\ ~AiNothingDisabled(c.channels[i])
  \/ /\ c.mlfb \in RtdMlfb
     /\ \E i \in DOMAIN c.channels : LET ch == c.channels[i] IN
          \/ ~RtdNothingDisabled(ch)
          \/ ch.type \in ThermalTypes /\ ch.temper_coeff \notin TempCoeffs(ch.range)
  \/ c.mlfb = EmMlfb /\ c.data_variant \notin VariantsOf(c.module_version, c.con_type)

(* Of all that is set on the pages, after any configuration that the server*)
(* had taken was retrieved and edited, the server refuses a typed fraction *)
(* and what was left behind, and nothing else: although the pages and the  *)
(* schemas state their rules independently.  A new module, or one retrieved*)
(* without a peculiarity, leaves nothing behind.                           *)
RefusedOnlyForCause ==
  loaded # "bad" /\ typing = {} =>
    /\ Accepted(ToDevice(conf)) <=> ~Fraction(conf) /\ ~Leftover(conf)
    /\ loaded # "wild" => ~Leftover(conf)

(* Every text of the page has a code in the exported configuration, also   *)
(* after odd but legal configurations were edited.                         *)
CodesOf(y) ==
  CASE y.mlfb \in AiMlfb -> {y.integ_time} \union
         UNION {{ch.type, ch.range, ch.smooth} : ch \in {y.channels[i] : i \in DOMAIN y.channels}}
    [] y.mlfb \in RtdMlfb -> {y.integ_time} \union
         UNION {{ch.type, ch.range, ch.smooth, ch.temper_coeff, ch.temper_unit} :
                  ch \in {y.channels[i] : i \in DOMAIN y.channels}}
    [] y.mlfb \in Sm1223Mlfb -> {y.di[g] : g \in DOMAIN y.di} \union {y.dq.behavior_with_OD}
         \union {y.dq.substitute[i] : i \in DOMAIN y.dq.substitute}
    [] y.mlfb = Sm1221Mlfb -> {y.di[g] : g \in DOMAIN y.di}
    [] y.mlfb = EmMlfb -> {y.module_version, y.con_type, y.range, y.line_freq, y.period_meters,
                           y.data_variant} \union {y.channels[i].ct_second_cur : i \in EmChannels}
    [] OTHER -> {}

ExportConvertible == loaded # "bad" => NoCode \notin CodesOf(ToDevice(conf))

(* What was deployed and is retrieved again deploys the same.              *)
DeployedComesBack ==
  LET y == ToDevice(conf) IN Accepted(y) => ToDevice(ToUI(y)) = y

(* What the user set is what is shown after deploying and retrieving; the  *)
(* codes of two thermal ranges are taken for resistances on a channel that *)
(* is off.                                                                 *)
Values(c) ==
  CASE c.mlfb \in AiMlfb -> [c EXCEPT !.channels = [i \in DOMAIN @ |-> [@[i] EXCEPT !.ranges = {}]]]
    [] c.mlfb \in RtdMlfb ->
         [c EXCEPT !.channels = [i \in DOMAIN @ |-> [@[i] EXCEPT !.ranges = {}, !.coeffs = {}]]]
    [] c.mlfb = EmMlfb -> [c EXCEPT !.variants = {},
         !.channels = [i \in DOMAIN @ |-> [@[i] EXCEPT !.second_curs = {}]]]
    [] OTHER -> c

RangeLost(c) ==
  /\ c.mlfb \in RtdMlfb
  /\ \E i \in DOMAIN c.channels :
       c.channels[i].type = "TYPE_0" /\ c.channels[i].range \in {"Thermal_RANGE_2", "Thermal_RANGE_3"}

ShownComesBack ==
  loaded = "no" /\ Accepted(ToDevice(conf)) /\ ~RangeLost(conf) =>
    Values(ToUI(ToDevice(conf))) = Values(conf)

(* A selection always shows one of the texts it offers, although what it   *)
(* offers depends on other entries.                                        *)
ShownIsOffered ==
  loaded = "no" =>
    CASE conf.mlfb \in AiMlfb ->
           \A i \in DOMAIN conf.channels : conf.channels[i].range \in conf.channels[i].ranges
      [] conf.mlfb \in RtdMlfb -> \A i \in DOMAIN conf.channels :
           /\ conf.channels[i].range \in conf.channels[i].ranges
           /\ conf.channels[i].temper_coeff \in conf.channels[i].coeffs
      [] conf.mlfb = EmMlfb ->
           /\ conf.data_variant \in conf.variants
           /\ \A i \in EmChannels : conf.channels[i].ct_second_cur \in conf.channels[i].second_curs
      [] OTHER -> TRUE

(* CheckConfig: "When disabled, the value should be setting to false": on  *)
(* the page of a new module every disabled check box is off.               *)
DisabledFalseByEditing == loaded = "no" => NothingDisabled(conf)

(* Every check box but the direction of the current is off while it is     *)
(* disabled, whatever the user does on a new module: channels go off and on*)
(* again with the type, entries change while their tab is closed.          *)
DisabledOffButDirection == loaded = "no" => OffButDirection(conf)

(* Three channels of a meter that is connected that way share what they    *)
(* are scaled with: channels 1 and 2, which the user cannot set, have the  *)
(* values of channel 0, whatever was set on them before.  The direction of *)
(* the current, a check box, is sometimes switched off instead.            *)
CoupledChannelsFollow ==
  loaded = "no" /\ conf.mlfb = EmMlfb /\ Coupled(conf) =>
    \A i \in EmChannels :
      /\ conf.channels[i].ct_second_cur = conf.channels[0].ct_second_cur
      /\ \A f \in EmSliders \intersect EmCoupledSliders :
           conf.channels[i].slider[f] = conf.channels[0].slider[f]

(* Two analog inputs that share a converter are of one type, as the server *)
(* asks.                                                                   *)
PairsSameType ==
  conf.mlfb \in AiMlfb /\ loaded # "bad" =>
    \A i \in DOMAIN conf.channels :
      AiTypeOffered(i) => conf.channels[i + 1].type = conf.channels[i].type
=============================================================================
