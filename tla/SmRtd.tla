------------------------------- MODULE SmRtd -------------------------------
(***************************************************************************)
(* The page of the SM 1231 RTD modules.  The type of a channel decides what*)
(* ranges there are, the range of a thermal resistor what temperature      *)
(* coefficients there are.                                                 *)
(***************************************************************************)
EXTENDS ConfText

CONSTANT RtdChannels   \* channels of either module; 4 and 8 in the code

RtdMlfb == {"6ES7231-5PD32-0XB0", "6ES7231-5PF32-0XB0"}

ASSUME RtdAssumption == RtdChannels \in [RtdMlfb -> Nat]

ResistanceRanges ==
  <<<<"Resistance_RANGE_1", 1>>, <<"Resistance_RANGE_2", 2>>, <<"Resistance_RANGE_3", 3>>>>

ThermalRanges ==
  <<<<"Thermal_RANGE_0", 0>>, <<"Thermal_RANGE_2", 2>>, <<"Thermal_RANGE_3", 3>>,
    <<"Thermal_RANGE_4", 4>>, <<"Thermal_RANGE_5", 5>>, <<"Thermal_RANGE_6", 6>>,
    <<"Thermal_RANGE_11", 11>>, <<"Thermal_RANGE_12", 12>>, <<"Thermal_RANGE_15", 15>>,
    <<"Thermal_RANGE_16", 16>>, <<"Thermal_RANGE_18", 18>>, <<"Thermal_RANGE_20", 20>>,
    <<"Thermal_RANGE_22", 22>>, <<"Thermal_RANGE_24", 24>>, <<"Thermal_RANGE_26", 26>>,
    <<"Thermal_RANGE_28", 28>>>>

(* Mutant: a deactivated channel is taken for a thermal resistor.          *)
RtdRangesThermal ==
  [resistance |-> ResistanceRanges, thermal |-> ThermalRanges, deactivated |-> ThermalRanges]

(* The codes 2 and 3 stand for two ranges each when the channel is off.    *)
RtdRanges ==
  [resistance |-> ResistanceRanges, thermal |-> ThermalRanges,
   deactivated |-> ResistanceRanges \o ThermalRanges]

RtdMapping ==
  [type |-> <<<<"TYPE_0", 0>>, <<"TYPE_4", 4>>, <<"TYPE_5", 5>>, <<"TYPE_6", 6>>,
              <<"TYPE_7", 7>>, <<"TYPE_8", 8>>, <<"TYPE_9", 9>>>>,
   range |-> RtdRanges,
   integ_time |-> <<<<"INT_TIME_0", 0>>, <<"INT_TIME_1", 1>>,
                    <<"INT_TIME_2", 2>>, <<"INT_TIME_3", 3>>>>,
   smooth |-> <<<<"SMOOTH_0", 0>>, <<"SMOOTH_1", 1>>, <<"SMOOTH_2", 2>>, <<"SMOOTH_3", 3>>>>,
   temper_coeff |-> <<<<"TEMP_COEFF_0", 0>>, <<"TEMP_COEFF_1", 1>>, <<"TEMP_COEFF_2", 2>>,
     <<"TEMP_COEFF_3", 3>>, <<"TEMP_COEFF_5", 5>>, <<"TEMP_COEFF_7", 7>>,
     <<"TEMP_COEFF_8", 8>>, <<"TEMP_COEFF_9", 9>>, <<"TEMP_COEFF_10", 10>>,
     <<"TEMP_COEFF_11", 11>>, <<"TEMP_COEFF_12", 12>>, <<"TEMP_COEFF_13", 13>>>>,
   temper_unit |-> <<<<"TEMP_UNIT_0", 0>>, <<"TEMP_UNIT_1", 1>>>>]

ResistanceTypes == {"TYPE_4", "TYPE_5", "TYPE_6"}
ThermalTypes == {"TYPE_7", "TYPE_8", "TYPE_9"}

RangeScenario(type) == CASE type \in ResistanceTypes -> "resistance"
                         [] type = "TYPE_0" -> "deactivated"
                         [] OTHER -> "thermal"

-----------------------------------------------------------------------------
(* decideTempCoeffSelection.                                               *)
TempCoeffs(range) ==
  CASE range = "Thermal_RANGE_0" -> {"TEMP_COEFF_0"}
    [] range \in {"Thermal_RANGE_2", "Thermal_RANGE_4"} ->
         {"TEMP_COEFF_0", "TEMP_COEFF_1", "TEMP_COEFF_2", "TEMP_COEFF_3", "TEMP_COEFF_5"}
    [] range = "Thermal_RANGE_3" -> {"TEMP_COEFF_7", "TEMP_COEFF_8", "TEMP_COEFF_9"}
    [] range \in {"Thermal_RANGE_5", "Thermal_RANGE_11"} ->
         {"TEMP_COEFF_0", "TEMP_COEFF_1", "TEMP_COEFF_2", "TEMP_COEFF_3"}
    [] range \in {"Thermal_RANGE_6", "Thermal_RANGE_12", "Thermal_RANGE_16",
                  "Thermal_RANGE_18"} -> {"TEMP_COEFF_8", "TEMP_COEFF_9"}
    [] range = "Thermal_RANGE_15" -> {"TEMP_COEFF_11", "TEMP_COEFF_12", "TEMP_COEFF_13"}
    [] range \in {"Thermal_RANGE_20", "Thermal_RANGE_22"} -> {"TEMP_COEFF_0", "TEMP_COEFF_5"}
    [] range \in {"Thermal_RANGE_24", "Thermal_RANGE_26"} -> {"TEMP_COEFF_11", "TEMP_COEFF_13"}
    [] range = "Thermal_RANGE_28" -> {"TEMP_COEFF_10"}

TempCoeffDefault(range) ==
  CASE range \in {"Thermal_RANGE_3", "Thermal_RANGE_6", "Thermal_RANGE_12",
                  "Thermal_RANGE_16", "Thermal_RANGE_18"} -> "TEMP_COEFF_9"
    [] range = "Thermal_RANGE_15" -> "TEMP_COEFF_12"
    [] range \in {"Thermal_RANGE_20", "Thermal_RANGE_22"} -> "TEMP_COEFF_5"
    [] range \in {"Thermal_RANGE_24", "Thermal_RANGE_26"} -> "TEMP_COEFF_11"
    [] range = "Thermal_RANGE_28" -> "TEMP_COEFF_10"
    [] OTHER -> "TEMP_COEFF_0"

(* "ranges" and "coeffs" are the selections of the two entries.            *)
RtdChannelDefault ==
  [type |-> "TYPE_7", range |-> "Thermal_RANGE_0", ranges |-> Texts(ThermalRanges),
   temper_coeff |-> "TEMP_COEFF_0", coeffs |-> {"TEMP_COEFF_0"},
   temper_unit |-> "TEMP_UNIT_0", smooth |-> "SMOOTH_1", open_wire_alarm |-> TRUE,
   overflow_alarm |-> TRUE, underflow_alarm |-> TRUE]

RtdDefault(m) ==
  [mlfb |-> m, power_alarm |-> TRUE, integ_time |-> "INT_TIME_2",
   channels |-> [i \in 0..(RtdChannels[m] - 1) |-> RtdChannelDefault]]

RtdConf(m) ==
  [mlfb : {m}, power_alarm : BOOLEAN, integ_time : Texts(RtdMapping.integ_time),
   channels : [0..(RtdChannels[m] - 1) ->
     [type : Texts(RtdMapping.type), range : Texts(RtdMapping.range.deactivated),
      ranges : {Texts(ResistanceRanges), Texts(ThermalRanges)},
      temper_coeff : Texts(RtdMapping.temper_coeff),
      coeffs : {TempCoeffs(r) : r \in Texts(ThermalRanges)},
      temper_unit : Texts(RtdMapping.temper_unit), smooth : Texts(RtdMapping.smooth),
      open_wire_alarm : BOOLEAN, overflow_alarm : BOOLEAN, underflow_alarm : BOOLEAN]]]

-----------------------------------------------------------------------------
(* Only the selections of a thermal or a resistance channel are set anew.  *)
RtdToUI(y) ==
  [mlfb |-> y.mlfb, power_alarm |-> y.power_alarm,
   integ_time |-> YamlToUi(RtdMapping.integ_time, y.integ_time),
   channels |-> [i \in 0..(RtdChannels[y.mlfb] - 1) |->
     LET ch    == y.channels[i]
         type  == YamlToUi(RtdMapping.type, ch.type)
         range == YamlToUi(RtdMapping.range[RangeScenario(type)], ch.range)
     IN [type |-> type, range |-> range,
         ranges |-> IF type \in ResistanceTypes THEN Texts(ResistanceRanges)
                                                ELSE Texts(ThermalRanges),
         temper_coeff |-> YamlToUi(RtdMapping.temper_coeff, ch.temper_coeff),
         coeffs |-> IF type \in ThermalTypes THEN TempCoeffs(range)
                                             ELSE RtdChannelDefault.coeffs,
         temper_unit |-> YamlToUi(RtdMapping.temper_unit, ch.temper_unit),
         smooth |-> YamlToUi(RtdMapping.smooth, ch.smooth),
         open_wire_alarm |-> ch.open_wire_alarm, overflow_alarm |-> ch.overflow_alarm,
         underflow_alarm |-> ch.underflow_alarm]]]

RtdToDevice(c) ==
  [mlfb |-> c.mlfb, power_alarm |-> c.power_alarm,
   integ_time |-> UiToYaml(RtdMapping.integ_time, c.integ_time),
   channels |-> [i \in 0..(RtdChannels[c.mlfb] - 1) |->
     LET ch == c.channels[i]
     IN [type |-> UiToYaml(RtdMapping.type, ch.type),
         range |-> UiToYaml(RtdMapping.range[RangeScenario(ch.type)], ch.range),
         temper_coeff |-> UiToYaml(RtdMapping.temper_coeff, ch.temper_coeff),
         temper_unit |-> UiToYaml(RtdMapping.temper_unit, ch.temper_unit),
         smooth |-> UiToYaml(RtdMapping.smooth, ch.smooth),
         open_wire_alarm |-> ch.open_wire_alarm, overflow_alarm |-> ch.overflow_alarm,
         underflow_alarm |-> ch.underflow_alarm]]]

-----------------------------------------------------------------------------
(* The entries of one channel.  updateChannelTempCoeff: the coefficient is *)
(* corrected when the new range does not have it.                          *)
WithTempCoeffs(ch) ==
  LET coeffs == TempCoeffs(ch.range)
  IN [ch EXCEPT !.coeffs = coeffs,
                !.temper_coeff = IF @ \in coeffs THEN @ ELSE TempCoeffDefault(ch.range)]

RtdWithRange(ch, range) ==
  IF ch.type \in ThermalTypes THEN WithTempCoeffs([ch EXCEPT !.range = range])
                              ELSE [ch EXCEPT !.range = range]

(* Mutant: the range is kept, whatever the new type.                       *)
RtdWithTypeAlone(ch, type) ==
  [ch EXCEPT !.type = type,
             !.ranges = CASE type \in ResistanceTypes -> Texts(ResistanceRanges)
                          [] type \in ThermalTypes -> Texts(ThermalRanges)
                          [] OTHER -> @]

(* updateChannelRange: the range is reset when the new type does not have  *)
(* it, and with it the coefficients; a deactivated channel keeps both.     *)
RtdWithType(ch, type) ==
  CASE type \in ResistanceTypes ->
         [ch EXCEPT !.type = type, !.ranges = Texts(ResistanceRanges),
                    !.range = IF @ \in Texts(ResistanceRanges) THEN @ ELSE "Resistance_RANGE_1"]
    [] type \in ThermalTypes ->
         LET new == [ch EXCEPT !.type = type, !.ranges = Texts(ThermalRanges)]
         IN IF ch.range \in Texts(ThermalRanges) THEN new
            ELSE WithTempCoeffs([new EXCEPT !.range = "Thermal_RANGE_0"])
    [] OTHER -> [ch EXCEPT !.type = type]

(* The range, the smoothing and two of the alarms are disabled on a channel*)
(* that is off; the coefficient, the unit and the underflow alarm also for *)
(* a resistance.                                                           *)
RtdOffDisabled(ch) == ch.type = "TYPE_0"
RtdThermalDisabled(ch) == ch.type \in ResistanceTypes \union {"TYPE_0"}

RtdNothingDisabled(ch) ==
  /\ RtdOffDisabled(ch) => ~ch.open_wire_alarm /\ ~ch.overflow_alarm
  /\ RtdThermalDisabled(ch) => ~ch.underflow_alarm

RtdEffects(old, c, mounts) ==
  [c EXCEPT !.channels = [i \in DOMAIN @ |->
    LET was == old.channels[i]
        is  == c.channels[i]
        Off(value) == CheckEffect(value, RtdOffDisabled(was), RtdOffDisabled(is), mounts)
    IN [is EXCEPT
         !.open_wire_alarm = Off(@), !.overflow_alarm = Off(@),
         !.underflow_alarm = CheckEffect(@, RtdThermalDisabled(was),
                                         RtdThermalDisabled(is), mounts)]]]

-----------------------------------------------------------------------------
(* What the schema of the server takes.                                    *)
RangesTaken == {0, 2, 3, 4, 5, 6, 11, 12, 15, 16, 18, 20, 22, 24, 26, 28}

CoeffsTaken(range) ==
  CASE range = 0 -> {0}
    [] range \in {2, 4} -> {0, 1, 2, 3, 5}
    [] range = 3 -> {7, 8, 9}
    [] range \in {5, 11} -> {0, 1, 2, 3}
    [] range \in {6, 12, 16, 18} -> {8, 9}
    [] range = 15 -> {11, 12, 13}
    [] range \in {20, 22} -> {0, 5}
    [] range \in {24, 26} -> {11, 13}
    [] range = 28 -> {10}

RtdChannelAccepted(ch) ==
  /\ ch.smooth \in 0..3 /\ ch.temper_unit \in 0..1
  /\ ch.temper_coeff \in 0..3 \union {5} \union 7..13
  /\ {ch.open_wire_alarm, ch.overflow_alarm, ch.underflow_alarm} \subseteq BOOLEAN
  /\ \/ /\ ch.type = 0
        /\ ch.range \in RangesTaken \union {1}
        /\ ~ch.open_wire_alarm /\ ~ch.overflow_alarm /\ ~ch.underflow_alarm
     \/ ch.type \in 4..6 /\ ch.range \in 1..3 /\ ~ch.underflow_alarm
     \/ /\ ch.type \in 7..9
        /\ ch.range \in RangesTaken /\ ch.temper_coeff \in CoeffsTaken(ch.range)

RtdAccepted(y) ==
  /\ y.integ_time \in 0..3 /\ y.power_alarm \in BOOLEAN
  /\ DOMAIN y.channels = 0..(RtdChannels[y.mlfb] - 1)
  /\ \A i \in DOMAIN y.channels : RtdChannelAccepted(y.channels[i])
=============================================================================
