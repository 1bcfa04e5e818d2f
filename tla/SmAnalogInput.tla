--------------------------- MODULE SmAnalogInput ---------------------------
(***************************************************************************)
(* The page of the SM 1231 analog input modules.  The measurement type is  *)
(* set for two channels at once.                                           *)
(***************************************************************************)
EXTENDS ConfText

CONSTANT AiChannels   \* channels of either module; 4 and 8 in the code

AiMlfb == {"6ES7231-4HD32-0XB0", "6ES7231-4HF32-0XB0"}

ASSUME AiAssumption ==
  /\ AiChannels \in [AiMlfb -> Nat]
  /\ \A m \in AiMlfb : AiChannels[m] % 2 = 0

AiMapping ==
  [type  |-> <<<<"TYPE_1", 1>>, <<"TYPE_3", 3>>>>,
   range |-> <<<<"RANGE_2", 2>>, <<"RANGE_3", 3>>, <<"RANGE_7", 7>>,
               <<"RANGE_8", 8>>, <<"RANGE_9", 9>>>>,
   integ_time |-> <<<<"INT_TIME_0", 0>>, <<"INT_TIME_1", 1>>,
                    <<"INT_TIME_2", 2>>, <<"INT_TIME_3", 3>>>>,
   smooth |-> <<<<"SMOOTH_0", 0>>, <<"SMOOTH_1", 1>>, <<"SMOOTH_2", 2>>, <<"SMOOTH_3", 3>>>>]

AiRangesOfCurrent == {"RANGE_2", "RANGE_3"}
AiRangesOfVoltage == {"RANGE_7", "RANGE_8", "RANGE_9"}
AiRangesOf(type) == IF type = "TYPE_1" THEN AiRangesOfVoltage ELSE AiRangesOfCurrent

(* "ranges" is the selection of the range entry.                           *)
AiChannelDefault ==
  [type |-> "TYPE_1", range |-> "RANGE_9", ranges |-> AiRangesOfVoltage,
   smooth |-> "SMOOTH_1", open_wire_alarm |-> FALSE,
   overflow_alarm |-> TRUE, underflow_alarm |-> TRUE]

AiDefault(m) ==
  [mlfb |-> m, power_alarm |-> TRUE, integ_time |-> "INT_TIME_2",
   channels |-> [i \in 0..(AiChannels[m] - 1) |-> AiChannelDefault]]

AiConf(m) ==
  [mlfb : {m}, power_alarm : BOOLEAN, integ_time : Texts(AiMapping.integ_time),
   channels : [0..(AiChannels[m] - 1) ->
     [type : Texts(AiMapping.type), range : Texts(AiMapping.range),
      ranges : {AiRangesOfCurrent, AiRangesOfVoltage}, smooth : Texts(AiMapping.smooth),
      open_wire_alarm : BOOLEAN, overflow_alarm : BOOLEAN, underflow_alarm : BOOLEAN]]]

-----------------------------------------------------------------------------
AiToUI(y) ==
  [mlfb |-> y.mlfb, power_alarm |-> y.power_alarm,
   integ_time |-> YamlToUi(AiMapping.integ_time, y.integ_time),
   channels |-> [i \in 0..(AiChannels[y.mlfb] - 1) |->
     LET ch == y.channels[i]
         type == YamlToUi(AiMapping.type, ch.type)
     IN [type |-> type, range |-> YamlToUi(AiMapping.range, ch.range),
         ranges |-> AiRangesOf(type), smooth |-> YamlToUi(AiMapping.smooth, ch.smooth),
         open_wire_alarm |-> ch.open_wire_alarm, overflow_alarm |-> ch.overflow_alarm,
         underflow_alarm |-> ch.underflow_alarm]]]

AiToDevice(c) ==
  [mlfb |-> c.mlfb, power_alarm |-> c.power_alarm,
   integ_time |-> UiToYaml(AiMapping.integ_time, c.integ_time),
   channels |-> [i \in 0..(AiChannels[c.mlfb] - 1) |->
     LET ch == c.channels[i]
     IN [type |-> UiToYaml(AiMapping.type, ch.type),
         range |-> UiToYaml(AiMapping.range, ch.range),
         smooth |-> UiToYaml(AiMapping.smooth, ch.smooth),
         open_wire_alarm |-> ch.open_wire_alarm, overflow_alarm |-> ch.overflow_alarm,
         underflow_alarm |-> ch.underflow_alarm]]]

-----------------------------------------------------------------------------
(* The entries.  Mutant: the channel bound to it keeps its type.           *)
AiWithTypeAlone(c, i, type) ==
  LET range == IF type = "TYPE_1" THEN "RANGE_9" ELSE "RANGE_2"
  IN [c EXCEPT !.channels = [j \in DOMAIN @ |->
       IF j = i THEN [@[j] EXCEPT !.type = type, !.range = range, !.ranges = AiRangesOf(type)]
                ELSE @[j]]]

(* A new type resets the range, for the channel and the one bound to it.   *)
AiWithType(c, i, type) ==
  LET range == IF type = "TYPE_1" THEN "RANGE_9" ELSE "RANGE_2"
  IN [c EXCEPT !.channels = [j \in DOMAIN @ |->
       IF j \in {i, i + 1}
       THEN [@[j] EXCEPT !.type = type, !.range = range, !.ranges = AiRangesOf(type)]
       ELSE @[j]]]

AiTypeOffered(i) == i % 2 = 0

AiOpenWireDisabled(ch) == ~(ch.type = "TYPE_3" /\ ch.range = "RANGE_3")
AiUnderflowDisabled(ch) == ch.type = "TYPE_3" /\ ch.range = "RANGE_3"

AiNothingDisabled(ch) ==
  /\ AiOpenWireDisabled(ch) => ~ch.open_wire_alarm
  /\ AiUnderflowDisabled(ch) => ~ch.underflow_alarm

(* The effects of rendering c where old was rendered before.               *)
AiEffects(old, c, mounts) ==
  [c EXCEPT !.channels = [i \in DOMAIN @ |->
    LET was == old.channels[i]
        is  == c.channels[i]
    IN [is EXCEPT
         !.open_wire_alarm = CheckEffect(@, AiOpenWireDisabled(was),
                                         AiOpenWireDisabled(is), mounts),
         !.underflow_alarm = CheckEffect(@, AiUnderflowDisabled(was),
                                         AiUnderflowDisabled(is), mounts)]]]

-----------------------------------------------------------------------------
(* What the server takes: the schema, and the rule about bound channels.   *)
AiAccepted(y) ==
  /\ y.integ_time \in 0..3 /\ y.power_alarm \in BOOLEAN
  /\ DOMAIN y.channels = 0..(AiChannels[y.mlfb] - 1)
  /\ \A i \in DOMAIN y.channels :
       LET ch == y.channels[i]
       IN /\ ch.type \in {1, 3} /\ ch.smooth \in 0..3
          /\ {ch.open_wire_alarm, ch.overflow_alarm, ch.underflow_alarm} \subseteq BOOLEAN
          /\ ch.range \in IF ch.type = 1 THEN {7, 8, 9} ELSE {2, 3}
          /\ ch.range = 2 => ~ch.open_wire_alarm
          /\ ch.range = 3 => ~ch.underflow_alarm
  /\ \A i \in DOMAIN y.channels : i % 2 = 0 => y.channels[i].type = y.channels[i + 1].type
=============================================================================
