---------------------------- MODULE SmEnergyMeter ----------------------------
(***************************************************************************)
(* The page of the SM 1238 energy meter.  The connection type decides what *)
(* channels are used, what they share and what data variants there are.    *)
(***************************************************************************)
EXTENDS ConfText

CONSTANTS EmChecks,    \* the check boxes of a channel that are followed
          EmSliders    \* the sliders of a channel that are followed

EmMlfb == "6ES7238-5XA32-0XB0"
EmChannels == 0..2

EmCoupledSliders == {"ct_primary_cur", "ll_cur_measure", "vt_prim_vol", "vt_second_vol"}

ASSUME EmAssumption ==
  /\ EmChecks \subseteq {"diag_over_cur", "diag_over_cal", "diag_ll_vol", "diag_under_vol",
       "diag_over_vol", "en_gate_cir_hour_meter", "act_hour_meter", "re_cur_dir"}
  /\ EmSliders \subseteq EmCoupledSliders \union {"over_cur_tol_val", "over_cur_tol_time"}

VersionMapping == <<<<"MOD_VER_32", 32>>, <<"MOD_VER_112", 112>>, <<"MOD_VER_224", 224>>,
                    <<"MOD_VER_225", 225>>, <<"MOD_VER_226", 226>>, <<"MOD_VER_227", 227>>>>
ConTypeMapping == <<<<"CON_TYPE_00", 0>>, <<"CON_TYPE_0B", 11>>, <<"CON_TYPE_0C", 12>>,
                    <<"CON_TYPE_0E", 14>>, <<"CON_TYPE_10", 16>>, <<"CON_TYPE_0F", 15>>>>
EmRangeMapping == <<<<"RANGE_01", 1>>, <<"RANGE_02", 2>>, <<"RANGE_03", 3>>, <<"RANGE_04", 4>>,
                    <<"RANGE_05", 5>>, <<"RANGE_06", 6>>, <<"RANGE_07", 7>>, <<"RANGE_08", 8>>,
                    <<"RANGE_09", 9>>, <<"RANGE_0A", 10>>, <<"RANGE_0B", 11>>, <<"RANGE_0C", 12>>>>
LineFreqMapping == <<<<"LINE_FREQ_1", 1>>, <<"LINE_FREQ_2", 2>>>>
PeriodMapping == <<<<"PERIOD_METERS_0", 0>>, <<"PERIOD_METERS_1", 1>>, <<"PERIOD_METERS_2", 2>>,
                   <<"PERIOD_METERS_3", 3>>, <<"PERIOD_METERS_4", 4>>, <<"PERIOD_METERS_5", 5>>>>
VariantMapping == <<<<"FE", 254>>, <<"FD", 253>>, <<"FC", 252>>, <<"FB", 251>>, <<"FA", 250>>,
                    <<"F9", 249>>, <<"F8", 248>>, <<"F7", 247>>, <<"F6", 246>>, <<"F5", 245>>,
                    <<"F0", 240>>, <<"EF", 239>>, <<"E3", 227>>, <<"E2", 226>>, <<"E1", 225>>,
                    <<"E0", 224>>, <<"9F", 159>>, <<"9E", 158>>, <<"9D", 157>>, <<"9C", 156>>,
                    <<"9B", 155>>, <<"9A", 154>>>>
SecondCurMapping == <<<<"CT_SND_CUR_0", 0>>, <<"CT_SND_CUR_2", 2>>>>

AllVariants == Texts(VariantMapping)
AllSecondCurs == Texts(SecondCurMapping)
EmVersions == {"MOD_VER_32", "MOD_VER_112"}

-----------------------------------------------------------------------------
SliderDefault ==
  [over_cur_tol_val |-> "max", over_cur_tol_time |-> "mid", ct_primary_cur |-> "min",
   ll_cur_measure |-> "mid", vt_second_vol |-> "mid", vt_prim_vol |-> "mid"]

(* "variants" and "second_curs" are the selections of their entries.       *)
EmChannelDefault ==
  [check |-> [f \in EmChecks |-> FALSE], slider |-> [f \in EmSliders |-> SliderDefault[f]],
   ct_second_cur |-> "CT_SND_CUR_0", second_curs |-> AllSecondCurs]

EmDefault ==
  [mlfb |-> EmMlfb, module_version |-> "MOD_VER_112", con_type |-> "CON_TYPE_0C",
   range |-> "RANGE_0A", line_freq |-> "LINE_FREQ_2", period_meters |-> "PERIOD_METERS_0",
   meter_gate |-> FALSE, min_max_cal |-> FALSE, diag_line_vol |-> FALSE,
   line_vol_tol |-> "mid", data_variant |-> "FE", variants |-> AllVariants,
   channels |-> [i \in EmChannels |-> EmChannelDefault]]

EmConf ==
  [mlfb : {EmMlfb}, module_version : Texts(VersionMapping), con_type : Texts(ConTypeMapping),
   range : Texts(EmRangeMapping), line_freq : Texts(LineFreqMapping),
   period_meters : Texts(PeriodMapping), meter_gate : BOOLEAN, min_max_cal : BOOLEAN,
   diag_line_vol : BOOLEAN, line_vol_tol : SliderValues, data_variant : AllVariants,
   variants : SUBSET AllVariants,
   channels : [EmChannels -> [check : [EmChecks -> BOOLEAN], slider : [EmSliders -> SliderValues],
                              ct_second_cur : AllSecondCurs, second_curs : SUBSET AllSecondCurs]]]

(* Both selections are those of a new module, whatever the connection type.*)
EmToUI(y) ==
  [mlfb |-> EmMlfb, module_version |-> YamlToUi(VersionMapping, y.module_version),
   con_type |-> YamlToUi(ConTypeMapping, y.con_type), range |-> YamlToUi(EmRangeMapping, y.range),
   line_freq |-> YamlToUi(LineFreqMapping, y.line_freq),
   period_meters |-> YamlToUi(PeriodMapping, y.period_meters),
   meter_gate |-> y.meter_gate, min_max_cal |-> y.min_max_cal,
   diag_line_vol |-> y.diag_line_vol, line_vol_tol |-> y.line_vol_tol,
   data_variant |-> YamlToUi(VariantMapping, y.data_variant), variants |-> AllVariants,
   channels |-> [i \in EmChannels |->
     [check |-> y.channels[i].check, slider |-> y.channels[i].slider,
      ct_second_cur |-> YamlToUi(SecondCurMapping, y.channels[i].ct_second_cur),
      second_curs |-> AllSecondCurs]]]

EmToDevice(c) ==
  [mlfb |-> c.mlfb, module_version |-> UiToYaml(VersionMapping, c.module_version),
   con_type |-> UiToYaml(ConTypeMapping, c.con_type), range |-> UiToYaml(EmRangeMapping, c.range),
   line_freq |-> UiToYaml(LineFreqMapping, c.line_freq),
   period_meters |-> UiToYaml(PeriodMapping, c.period_meters),
   meter_gate |-> c.meter_gate, min_max_cal |-> c.min_max_cal,
   diag_line_vol |-> c.diag_line_vol, line_vol_tol |-> c.line_vol_tol,
   data_variant |-> UiToYaml(VariantMapping, c.data_variant),
   channels |-> [i \in EmChannels |->
     [check |-> c.channels[i].check, slider |-> c.channels[i].slider,
      ct_second_cur |-> UiToYaml(SecondCurMapping, c.channels[i].ct_second_cur)]]]

-----------------------------------------------------------------------------
(* setDataVariantSelection.                                                *)
VariantsOf(version, con_type) ==
  LET single == [MOD_VER_224 |-> "E0", MOD_VER_225 |-> "E1", MOD_VER_226 |-> "E2",
                 MOD_VER_227 |-> "E3"]
      missing == (IF version = "MOD_VER_32" THEN {"E3"} ELSE {}) \union
                 (CASE con_type = "CON_TYPE_0B" -> {"F7", "F6", "F5", "9D", "9C", "9B", "9A"}
                    [] con_type = "CON_TYPE_10" -> {"F6", "9B", "9A"}
                    [] OTHER -> {})
  IN IF version \in DOMAIN single THEN {single[version]} ELSE AllVariants \ missing

(* Mutant: a variant that is not there any more is kept.                   *)
VariantsOnly(c) == [c EXCEPT !.variants = VariantsOf(c.module_version, c.con_type)]

WithVariants(c) ==
  LET variants == VariantsOf(c.module_version, c.con_type)
  IN [c EXCEPT !.variants = variants,
        !.data_variant = IF c.module_version \notin EmVersions THEN CHOOSE v \in variants : TRUE
                         ELSE IF @ \in variants THEN @ ELSE "FE"]

(* setCtSndCurSelection.                                                   *)
WithSecondCurs(c) ==
  IF c.con_type = "CON_TYPE_0F"
  THEN [c EXCEPT !.channels = [i \in EmChannels |->
          [@[i] EXCEPT !.second_curs = {"CT_SND_CUR_0"}, !.ct_second_cur = "CT_SND_CUR_0"]]]
  ELSE [c EXCEPT !.channels = [i \in EmChannels |-> [@[i] EXCEPT !.second_curs = AllSecondCurs]]]

Coupled(c) == c.con_type = "CON_TYPE_0E"

WithCoupledFields(c) ==
  [c EXCEPT !.channels = [i \in EmChannels |->
     [c.channels[i] EXCEPT
       !.slider = [f \in EmSliders |-> c.channels[IF f \in EmCoupledSliders THEN 0 ELSE i].slider[f]],
       !.check = [f \in EmChecks |-> c.channels[IF f = "re_cur_dir" THEN 0 ELSE i].check[f]],
       !.ct_second_cur = c.channels[0].ct_second_cur]]]

(* Mutant: the channels are not made equal when they become coupled.       *)
EmWithConTypeOnly(c, type) == WithSecondCurs(WithVariants([c EXCEPT !.con_type = type]))

EmWithConType(c, type) ==
  LET new == WithSecondCurs(WithVariants([c EXCEPT !.con_type = type]))
  IN IF Coupled(new) THEN WithCoupledFields(new) ELSE new

EmWithVersion(c, version) == WithVariants([c EXCEPT !.module_version = version])

(* The update handlers: channels 1 and 2 take what channel 0 was given.    *)
Follows(c, i) == IF Coupled(c) /\ i = 0 THEN EmChannels ELSE {i}

EmValue(c, f, i) == IF f = "line_vol_tol" THEN c.line_vol_tol ELSE c.channels[i].slider[f]

EmWithValue(c, f, i, v) ==
  IF f = "line_vol_tol" THEN [c EXCEPT !.line_vol_tol = v]
  ELSE [c EXCEPT !.channels = [j \in EmChannels |->
         IF j = i \/ (f \in EmCoupledSliders /\ j \in Follows(c, i))
         THEN [@[j] EXCEPT !.slider[f] = v] ELSE @[j]]]

EmWithCheck(c, f, i, v) ==
  [c EXCEPT !.channels = [j \in EmChannels |->
     IF j = i \/ (f = "re_cur_dir" /\ j \in Follows(c, i))
     THEN [@[j] EXCEPT !.check[f] = v] ELSE @[j]]]

EmWithSecondCur(c, i, v) ==
  [c EXCEPT !.channels = [j \in EmChannels |->
     IF j \in Follows(c, i) THEN [@[j] EXCEPT !.ct_second_cur = v] ELSE @[j]]]

-----------------------------------------------------------------------------
(* With no connection type everything else is disabled; the other types    *)
(* leave channels out, or have them follow channel 0.                      *)
ModuleDisabled(c) == c.con_type = "CON_TYPE_00"

ChannelDisabled(c, i) ==
  \/ c.con_type = "CON_TYPE_00"
  \/ c.con_type = "CON_TYPE_0B" /\ i \in {1, 2}
  \/ c.con_type = "CON_TYPE_10" /\ i = 2

CoupledDisabled(c, i) == ChannelDisabled(c, i) \/ (Coupled(c) /\ i > 0)
SecondCurDisabled(c, i) == CoupledDisabled(c, i) \/ c.con_type = "CON_TYPE_0F"

EmCheckDisabled(c, f, i) ==
  IF f = "re_cur_dir" THEN CoupledDisabled(c, i) ELSE ChannelDisabled(c, i)

EmSliderDisabled(c, f, i) ==
  CASE f = "line_vol_tol" -> ModuleDisabled(c)
    [] f \in EmCoupledSliders -> CoupledDisabled(c, i)
    [] OTHER -> ChannelDisabled(c, i)

EmDisabledOff(c, f) ==
  \A i \in EmChannels : EmCheckDisabled(c, f, i) => ~c.channels[i].check[f]

EmModuleOff(c) == ModuleDisabled(c) => ~c.meter_gate /\ ~c.min_max_cal /\ ~c.diag_line_vol

EmNothingDisabled(c) == EmModuleOff(c) /\ \A f \in EmChecks : EmDisabledOff(c, f)

(* All but the direction of the current, with which channels 1 and 2 follow*)
(* channel 0 although theirs is disabled.                                  *)
EmOthersOff(c) == EmModuleOff(c) /\ \A f \in EmChecks \ {"re_cur_dir"} : EmDisabledOff(c, f)

EmEffects(old, c, mounts) ==
  LET Module(value) == CheckEffect(value, ModuleDisabled(old), ModuleDisabled(c), mounts)
  IN [c EXCEPT
       !.meter_gate = Module(@), !.min_max_cal = Module(@), !.diag_line_vol = Module(@),
       !.channels = [i \in EmChannels |->
         [c.channels[i] EXCEPT !.check = [f \in EmChecks |->
            CheckEffect(c.channels[i].check[f], EmCheckDisabled(old, f, i),
                        EmCheckDisabled(c, f, i), mounts)]]]]

-----------------------------------------------------------------------------
(* What the schema of the server takes: it has other bounds for one field. *)
VariantsTaken(version, con_type) ==
  LET one   == {254, 253, 252, 251, 250, 249, 248, 240, 239, 226, 225, 224, 159, 158}
      two   == one \union {247, 245, 157, 156}
      three == two \union {246, 155, 154}
  IN (CASE con_type = 11 -> one [] con_type = 16 -> two [] OTHER -> three)
       \union (IF version = 112 THEN {227} ELSE {})

SliderTaken(f, v) == v \in {"min", "mid", "max"} \/ (f = "vt_second_vol" /\ v = "over")

EmAccepted(y) ==
  /\ y.module_version \in {32, 112}
  /\ y.con_type \in {0, 11, 12, 14, 15, 16} /\ y.range \in 1..12
  /\ y.line_freq \in {1, 2} /\ y.period_meters \in 0..5
  /\ {y.meter_gate, y.min_max_cal, y.diag_line_vol} \subseteq BOOLEAN
  /\ SliderTaken("line_vol_tol", y.line_vol_tol)
  /\ y.data_variant \in VariantsTaken(y.module_version, y.con_type)
  /\ DOMAIN y.channels = EmChannels
  /\ \A i \in EmChannels :
       /\ y.channels[i].check \in [EmChecks -> BOOLEAN]
       /\ y.channels[i].slider \in [EmSliders -> SliderValues]
       /\ y.channels[i].ct_second_cur \in IF y.con_type = 15 THEN {0} ELSE {0, 2}
       /\ \A f \in EmSliders : SliderTaken(f, y.channels[i].slider[f])
=============================================================================
