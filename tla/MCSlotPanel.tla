---------------------------- MODULE MCSlotPanel ----------------------------
(* The modules of one slot on small instances: two analog inputs, one RTD  *)
(* channel, two outputs, and the three channels of the energy meter.       *)
EXTENDS SlotPanel

McAiChannels  == [m \in AiMlfb |-> 2]
McRtdChannels == [m \in RtdMlfb |-> 1]
McDqChannels  == [m \in Sm1223Mlfb |-> 2]

Ai  == "6ES7231-4HD32-0XB0"
Rtd == "6ES7231-5PD32-0XB0"
Dq  == "6ES7223-1QH32-0XB0"

McModules == {"None", Ai, "6ES7231-4HF32-0XB0", Rtd, Dq, "6ES7223-1PL32-0XB0",
              Sm1221Mlfb, SmSensMlfb, EmMlfb}

McTried ==
  {"TYPE_1", "TYPE_3", "RANGE_2", "RANGE_3", "RANGE_7", "RANGE_9", "INT_TIME_2", "INT_TIME_3",
   "TYPE_0", "TYPE_4", "TYPE_7", "Resistance_RANGE_1", "Resistance_RANGE_2", "Resistance_RANGE_3",
   "Thermal_RANGE_0", "Thermal_RANGE_2", "Thermal_RANGE_3", "Thermal_RANGE_4", "Thermal_RANGE_6",
   "Thermal_RANGE_15", "Thermal_RANGE_20", "Thermal_RANGE_24", "Thermal_RANGE_28",
   "TEMP_COEFF_0", "TEMP_COEFF_5", "TEMP_COEFF_7", "TEMP_COEFF_8", "TEMP_COEFF_12",
   "TEMP_COEFF_13", "TIME_2", "TIME_3", "DISCONN_2", "DISCONN_3",
   "MOD_VER_32", "MOD_VER_112", "CON_TYPE_00", "CON_TYPE_0B", "CON_TYPE_0C", "CON_TYPE_0E",
   "CON_TYPE_10", "CON_TYPE_0F", "FE", "E3", "F7", "F6",
   "SMOOTH_2", "TEMP_UNIT_1", "RANGE_01", "LINE_FREQ_1", "PERIOD_METERS_1"}

McClicked == {"open_wire_alarm", "underflow_alarm", "overflow_alarm", "power_alarm", "substitute",
              "meter_gate", "min_max_cal", "diag_line_vol"}
McTyped   == {"low", "frac", "over"}

(* Configurations as the device or a file may hold them.                   *)
AiLoop == [ToDevice(Default(Ai)) EXCEPT !.channels = [i \in DOMAIN @ |->
             [@[i] EXCEPT !.type = 3, !.range = 3, !.open_wire_alarm = TRUE, !.underflow_alarm = FALSE]]]
AiOpenVoltage == [ToDevice(Default(Ai)) EXCEPT !.channels[0].open_wire_alarm = TRUE]
AiUnequal == [ToDevice(Default(Ai)) EXCEPT !.channels[1].type = 3, !.channels[1].range = 2]

RtdOffAt(range, coeff) == [ToDevice(Default(Rtd)) EXCEPT !.channels = [i \in DOMAIN @ |->
             [@[i] EXCEPT !.type = 0, !.range = range, !.temper_coeff = coeff,
                !.open_wire_alarm = FALSE, !.overflow_alarm = FALSE, !.underflow_alarm = FALSE]]]

EmWith(version, type, variant) ==
  [ToDevice(EmDefault) EXCEPT !.module_version = version, !.con_type = type, !.data_variant = variant]

McDeviceConfigs ==
  {AiLoop, AiOpenVoltage, AiUnequal, RtdOffAt(1, 0), RtdOffAt(4, 7),
   EmWith(112, 12, 227), EmWith(112, 11, 254), EmWith(224, 12, 224), EmWith(32, 12, 254),
   [EmWith(112, 14, 247) EXCEPT !.channels[1].slider.vt_second_vol = "over"],
   [ToDevice(Default(Dq)) EXCEPT !.dq.substitute[1] = 0],
   [ToDevice(Default(Dq)) EXCEPT !.dq.substitute = <<>>],
   [mlfb |-> "NA"]}

(* At most two entries of the meter differ from a new module's, one where a*)
(* configuration was loaded; coupled channels count once, and an entry that*)
(* depends on nothing differs alone.  Of such entries of the other modules *)
(* one differs, and only in a new module.                                  *)
MeterChanges(c) ==
  Cardinality({p \in EmSliders \X EmChannels :
                 (Coupled(c) => p[2] = 0) /\ c.channels[p[2]].slider[p[1]] # SliderDefault[p[1]]})
  + Cardinality({p \in EmChecks \X EmChannels :
                 (Coupled(c) => p[2] = 0) /\ c.channels[p[2]].check[p[1]]})
  + Cardinality({i \in EmChannels :
                 (Coupled(c) => i = 0) /\ c.channels[i].ct_second_cur # "CT_SND_CUR_0"})
  + 2 * Cardinality({e \in {"meter_gate", "min_max_cal", "diag_line_vol", "range", "line_freq",
                            "period_meters"} : c[e] # EmDefault[e]})
  + (IF c.line_vol_tol # "mid" THEN 1 ELSE 0)

OtherChanges(c, d) ==
  (IF c.power_alarm # d.power_alarm THEN 1 ELSE 0)
  + Cardinality({p \in {"smooth", "overflow_alarm", "temper_unit"} \X DOMAIN c.channels :
                 /\ p[1] \in DOMAIN c.channels[p[2]] /\ c.channels[p[2]].type # "TYPE_0"
                 /\ c.channels[p[2]][p[1]] # d.channels[p[2]][p[1]]})

FewChanges ==
  CASE conf.mlfb = EmMlfb -> MeterChanges(conf) <= (IF loaded = "no" THEN 2 ELSE 1)
    [] conf.mlfb \in AiMlfb \union RtdMlfb ->
         OtherChanges(conf, Default(conf.mlfb)) <= (IF loaded = "no" THEN 1 ELSE 0)
    [] OTHER -> TRUE
=============================================================================
