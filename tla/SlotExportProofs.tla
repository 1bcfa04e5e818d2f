-------------------------- MODULE SlotExportProofs --------------------------
(* The conversions of a slot: what is shown has a code, what is deployed   *)
(* comes back, and what the server refuses has one of the named causes, for*)
(* any number of channels and any configurations loaded.                   *)
EXTENDS SlotPanelProofs

(* No text is there twice, and no code is the one for a missing text.      *)
TextsDiffer(m) == \A i, j \in DOMAIN m : m[i][1] = m[j][1] => i = j
CodesDiffer(m) == \A i, j \in DOMAIN m : m[i][2] = m[j][2] => i = j

Convertible(m) == DOMAIN m \in SUBSET Nat /\ TextsDiffer(m) /\ NoCode \notin Codes(m)

LEMMA UiToYamlFound ==
  ASSUME NEW m, DOMAIN m \in SUBSET Nat, NEW text \in Texts(m)
  PROVE  \E i \in DOMAIN m : m[i][1] = text /\ UiToYaml(m, text) = m[i][2]
<1> DEFINE hit == {i \in DOMAIN m : m[i][1] = text}
<1>1. hit \in SUBSET Nat /\ hit # {}
  BY DEF Texts
<1>2. First(hit) \in hit
  <2> HIDE DEF hit
  <2> QED
    BY <1>1, FirstIn
<1> QED
  BY <1>1, <1>2 DEF UiToYaml

LEMMA TextHasCode ==
  ASSUME NEW m, Convertible(m), NEW text \in Texts(m)
  PROVE  UiToYaml(m, text) \in Codes(m) \ {NoCode}
BY UiToYamlFound DEF Convertible, Codes

(* There and back again, from a code and from a text.                      *)
LEMMA CodeReturns ==
  ASSUME NEW m, Convertible(m), NEW code \in Codes(m)
  PROVE  UiToYaml(m, YamlToUi(m, code)) = code
<1>1. PICK i \in DOMAIN m : m[i][2] = code /\ YamlToUi(m, code) = m[i][1]
  BY YamlToUiFound DEF Convertible
<1>2. m[i][1] \in Texts(m)
  BY DEF Texts
<1>3. PICK j \in DOMAIN m : m[j][1] = m[i][1] /\ UiToYaml(m, m[i][1]) = m[j][2]
  BY <1>2, UiToYamlFound DEF Convertible
<1> QED
  BY <1>1, <1>3 DEF Convertible, TextsDiffer

LEMMA TextReturns ==
  ASSUME NEW m, Convertible(m), CodesDiffer(m), NEW text \in Texts(m)
  PROVE  YamlToUi(m, UiToYaml(m, text)) = text
<1>1. PICK i \in DOMAIN m : m[i][1] = text /\ UiToYaml(m, text) = m[i][2]
  BY UiToYamlFound DEF Convertible
<1>2. m[i][2] \in Codes(m)
  BY DEF Codes
<1>3. PICK j \in DOMAIN m : m[j][2] = m[i][2] /\ YamlToUi(m, m[i][2]) = m[j][1]
  BY <1>2, YamlToUiFound DEF Convertible
<1> QED
  BY <1>1, <1>3 DEF CodesDiffer

-----------------------------------------------------------------------------
LEMMA AiConvertible ==
  \A f \in {"type", "range", "integ_time", "smooth"} :
    Convertible(AiMapping[f]) /\ CodesDiffer(AiMapping[f])
<1>1. Convertible(AiMapping.type) /\ CodesDiffer(AiMapping.type)
  BY AiTables DEF AiMapping, Convertible, TextsDiffer, CodesDiffer, NoCode
<1>2. Convertible(AiMapping.range) /\ CodesDiffer(AiMapping.range)
  BY AiTables DEF AiMapping, Convertible, TextsDiffer, CodesDiffer, NoCode
<1>3. Convertible(AiMapping.integ_time) /\ CodesDiffer(AiMapping.integ_time)
  BY AiTables DEF AiMapping, Convertible, TextsDiffer, CodesDiffer, NoCode
<1>4. Convertible(AiMapping.smooth) /\ CodesDiffer(AiMapping.smooth)
  BY AiTables DEF AiMapping, Convertible, TextsDiffer, CodesDiffer, NoCode
<1> QED
  BY <1>1, <1>2, <1>3, <1>4

LEMMA RtdConvertible ==
  /\ \A f \in {"type", "integ_time", "smooth", "temper_coeff", "temper_unit"} :
       Convertible(RtdMapping[f]) /\ CodesDiffer(RtdMapping[f])
  /\ Convertible(ResistanceRanges) /\ CodesDiffer(ResistanceRanges)
  /\ Convertible(ThermalRanges) /\ CodesDiffer(ThermalRanges)
<1>1. Convertible(RtdMapping.type) /\ CodesDiffer(RtdMapping.type)
  BY RtdTables DEF RtdMapping, Convertible, TextsDiffer, CodesDiffer, NoCode
<1>2. Convertible(RtdMapping.integ_time) /\ CodesDiffer(RtdMapping.integ_time)
  BY RtdTables DEF RtdMapping, Convertible, TextsDiffer, CodesDiffer, NoCode
<1>3. Convertible(RtdMapping.smooth) /\ CodesDiffer(RtdMapping.smooth)
  BY RtdTables DEF RtdMapping, Convertible, TextsDiffer, CodesDiffer, NoCode
<1>4. Convertible(RtdMapping.temper_coeff) /\ CodesDiffer(RtdMapping.temper_coeff)
  BY CoeffTable DEF RtdMapping, Convertible, TextsDiffer, CodesDiffer, NoCode
<1>5. Convertible(RtdMapping.temper_unit) /\ CodesDiffer(RtdMapping.temper_unit)
  BY RtdTables DEF RtdMapping, Convertible, TextsDiffer, CodesDiffer, NoCode
<1>6. Convertible(ResistanceRanges) /\ CodesDiffer(ResistanceRanges)
  BY RangeTables DEF ResistanceRanges, Convertible, TextsDiffer, CodesDiffer, NoCode
<1>7. Convertible(ThermalRanges) /\ CodesDiffer(ThermalRanges)
  BY RangeTables DEF ThermalRanges, Convertible, TextsDiffer, CodesDiffer, NoCode, RangesTaken
<1> QED
  BY <1>1, <1>2, <1>3, <1>4, <1>5, <1>6, <1>7

(* The ranges of a channel that is off: both tables, one after the other.  *)
LEMMA DeactivatedConvertible == Convertible(RtdRanges.deactivated)
<1> DEFINE d == RtdRanges.deactivated
<1>1. /\ DOMAIN d = 1..19 /\ NoCode \notin Codes(d)
      /\ \A i \in 1..3 : d[i] = ResistanceRanges[i]
      /\ \A i \in 4..19 : i - 3 \in 1..16 /\ d[i] = ThermalRanges[i - 3]
  <2>1. \A i \in 4..19 : i - 3 \in 1..16 /\ (i - 3) + 3 = i
    OBVIOUS
  <2> QED
    BY <2>1, Deactivated DEF RangesTaken, NoCode
<1>2. \A i \in 1..3 : ResistanceRanges[i][1] \notin Texts(ThermalRanges)
  BY ThermalTexts DEF ResistanceRanges
<1>3. \A i \in 1..16 : ThermalRanges[i][1] \in Texts(ThermalRanges)
  BY RangeTables DEF Texts
<1>4. TextsDiffer(ResistanceRanges) /\ TextsDiffer(ThermalRanges)
  BY RtdConvertible DEF Convertible
<1> HIDE DEF d
<1>5. ASSUME NEW i \in 1..19, NEW j \in 1..19, d[i][1] = d[j][1]
      PROVE  i = j
  <2>1. CASE i \in 1..3 /\ j \in 1..3
    BY <1>1, <1>4, <1>5, <2>1, RangeTables DEF TextsDiffer
  <2>2. CASE i \in 4..19 /\ j \in 4..19
    <3>1. i - 3 = j - 3
      BY <1>1, <1>4, <1>5, <2>2, RangeTables DEF TextsDiffer
    <3> QED
      BY <3>1
  <2>3. CASE i \in 1..3 /\ j \in 4..19
    BY <1>1, <1>2, <1>3, <1>5, <2>3
  <2>4. CASE i \in 4..19 /\ j \in 1..3
    BY <1>1, <1>2, <1>3, <1>5, <2>4
  <2> QED
    BY <2>1, <2>2, <2>3, <2>4
<1>6. Convertible(d)
  BY <1>1, <1>5 DEF Convertible, TextsDiffer
<1> QED
  BY <1>6 DEF d

LEMMA DigitalConvertible ==
  /\ Convertible(TimeMapping) /\ CodesDiffer(TimeMapping)
  /\ Convertible(BehaviorMapping) /\ CodesDiffer(BehaviorMapping)
  /\ Convertible(SubstituteMapping) /\ CodesDiffer(SubstituteMapping)
<1>1. Convertible(TimeMapping) /\ CodesDiffer(TimeMapping)
  BY DigitalTables DEF TimeMapping, Convertible, TextsDiffer, CodesDiffer, NoCode, Codes
<1>2. Convertible(BehaviorMapping) /\ CodesDiffer(BehaviorMapping)
  BY DigitalTables DEF BehaviorMapping, Convertible, TextsDiffer, CodesDiffer, NoCode
<1>3. Convertible(SubstituteMapping) /\ CodesDiffer(SubstituteMapping)
  <2>1. /\ SubstituteMapping[1] = <<TRUE, 1>> /\ SubstituteMapping[2] = <<FALSE, 0>>
    BY DEF SubstituteMapping
  <2>2. <<TRUE, 1>>[1] # <<FALSE, 0>>[1]
    BY Zenon
  <2>3. SubstituteMapping[1][1] # SubstituteMapping[2][1]
    BY <2>1, <2>2, Zenon
  <2>4. \A i, j \in 1..2 : i = j \/ (i = 1 /\ j = 2) \/ (i = 2 /\ j = 1)
    OBVIOUS
  <2>5. TextsDiffer(SubstituteMapping)
    BY <2>3, <2>4, DigitalTables DEF TextsDiffer
  <2>6. SubstituteMapping[1][2] = 1 /\ SubstituteMapping[2][2] = 0
    BY <2>1
  <2>7. CodesDiffer(SubstituteMapping)
    BY <2>4, <2>6, DigitalTables DEF CodesDiffer
  <2> QED
    BY <2>5, <2>7, DigitalTables DEF Convertible, NoCode
<1> QED
  BY <1>1, <1>2, <1>3

LEMMA SubstituteBoth == BOOLEAN \subseteq Texts(SubstituteMapping)
<1>1. /\ SubstituteMapping[1] = <<TRUE, 1>> /\ SubstituteMapping[2] = <<FALSE, 0>>
  BY DEF SubstituteMapping
<1>2. <<TRUE, 1>>[1] = TRUE /\ <<FALSE, 0>>[1] = FALSE
  BY Zenon
<1>3. SubstituteMapping[1][1] = TRUE /\ SubstituteMapping[2][1] = FALSE
  BY <1>1, <1>2, Zenon
<1>4. 1 \in DOMAIN SubstituteMapping /\ 2 \in DOMAIN SubstituteMapping
  BY DigitalTables
<1>5. TRUE \in Texts(SubstituteMapping) /\ FALSE \in Texts(SubstituteMapping)
  BY <1>3, <1>4, Zenon DEF Texts
<1> QED
  BY <1>5

LEMMA EmConvertible ==
  \A m \in {VersionMapping, ConTypeMapping, EmRangeMapping, LineFreqMapping, PeriodMapping,
            VariantMapping, SecondCurMapping} : Convertible(m) /\ CodesDiffer(m)
<1>1. Convertible(VersionMapping) /\ CodesDiffer(VersionMapping)
  BY EmTables DEF VersionMapping, Convertible, TextsDiffer, CodesDiffer, NoCode, Codes
<1>2. Convertible(ConTypeMapping) /\ CodesDiffer(ConTypeMapping)
  BY EmTables DEF ConTypeMapping, Convertible, TextsDiffer, CodesDiffer, NoCode
<1>3. Convertible(EmRangeMapping) /\ CodesDiffer(EmRangeMapping)
  BY EmTables DEF EmRangeMapping, Convertible, TextsDiffer, CodesDiffer, NoCode
<1>4. Convertible(LineFreqMapping) /\ CodesDiffer(LineFreqMapping)
  BY EmTables DEF LineFreqMapping, Convertible, TextsDiffer, CodesDiffer, NoCode
<1>5. Convertible(PeriodMapping) /\ CodesDiffer(PeriodMapping)
  BY EmTables DEF PeriodMapping, Convertible, TextsDiffer, CodesDiffer, NoCode
<1>6. Convertible(VariantMapping) /\ CodesDiffer(VariantMapping)
  BY VariantTable DEF VariantMapping, Convertible, TextsDiffer, CodesDiffer, NoCode, Codes
<1>7. Convertible(SecondCurMapping) /\ CodesDiffer(SecondCurMapping)
  BY EmTables DEF SecondCurMapping, Convertible, TextsDiffer, CodesDiffer, NoCode
<1> QED
  BY <1>1, <1>2, <1>3, <1>4, <1>5, <1>6, <1>7

-----------------------------------------------------------------------------
(* What was exported and taken, imported and exported again.               *)
LEMMA AiComesBack ==
  ASSUME NEW c, c.mlfb \in AiMlfb, AiAccepted(AiToDevice(c))
  PROVE  AiToDevice(AiToUI(AiToDevice(c))) = AiToDevice(c)
<1> DEFINE y == AiToDevice(c)
           I == 0..(AiChannels[y.mlfb] - 1)
           u == AiToUI(y)
<1>1. /\ y = [mlfb |-> y.mlfb, power_alarm |-> y.power_alarm, integ_time |-> y.integ_time,
               channels |-> y.channels]
      /\ y.channels = [i \in I |->
           [type |-> y.channels[i].type, range |-> y.channels[i].range,
            smooth |-> y.channels[i].smooth, open_wire_alarm |-> y.channels[i].open_wire_alarm,
            overflow_alarm |-> y.channels[i].overflow_alarm,
            underflow_alarm |-> y.channels[i].underflow_alarm]]
  BY DEF AiToDevice
<1> HIDE DEF y
<1>2. /\ u.mlfb = y.mlfb /\ u.power_alarm = y.power_alarm
      /\ u.integ_time = YamlToUi(AiMapping.integ_time, y.integ_time)
      /\ \A i \in I :
           /\ u.channels[i].type = YamlToUi(AiMapping.type, y.channels[i].type)
           /\ u.channels[i].range = YamlToUi(AiMapping.range, y.channels[i].range)
           /\ u.channels[i].smooth = YamlToUi(AiMapping.smooth, y.channels[i].smooth)
           /\ u.channels[i].open_wire_alarm = y.channels[i].open_wire_alarm
           /\ u.channels[i].overflow_alarm = y.channels[i].overflow_alarm
           /\ u.channels[i].underflow_alarm = y.channels[i].underflow_alarm
  BY DEF AiToUI
<1> HIDE DEF u
<1>3. UiToYaml(AiMapping.integ_time, u.integ_time) = y.integ_time
  <2>1. y.integ_time \in Codes(AiMapping.integ_time)
    BY AiTables DEF AiAccepted, y
  <2> QED
    BY <1>2, <2>1, AiConvertible, CodeReturns
<1>4. \A i \in I : /\ UiToYaml(AiMapping.type, u.channels[i].type) = y.channels[i].type
                   /\ UiToYaml(AiMapping.range, u.channels[i].range) = y.channels[i].range
                   /\ UiToYaml(AiMapping.smooth, u.channels[i].smooth) = y.channels[i].smooth
  <2> TAKE i \in I
  <2>1. /\ y.channels[i].type \in Codes(AiMapping.type)
        /\ y.channels[i].range \in Codes(AiMapping.range)
        /\ y.channels[i].smooth \in Codes(AiMapping.smooth)
    BY AiTables DEF AiAccepted, y
  <2> QED
    BY <1>2, <2>1, AiConvertible, CodeReturns
<1>5. AiToDevice(u) = y
  <2>1. AiToDevice(u).channels = [i \in I |->
          [type |-> UiToYaml(AiMapping.type, u.channels[i].type),
           range |-> UiToYaml(AiMapping.range, u.channels[i].range),
           smooth |-> UiToYaml(AiMapping.smooth, u.channels[i].smooth),
           open_wire_alarm |-> u.channels[i].open_wire_alarm,
           overflow_alarm |-> u.channels[i].overflow_alarm,
           underflow_alarm |-> u.channels[i].underflow_alarm]]
    BY <1>2 DEF AiToDevice
  <2>2. AiToDevice(u).channels = y.channels
    BY <1>1, <1>2, <1>4, <2>1
  <2>3. AiToDevice(u) = [mlfb |-> u.mlfb, power_alarm |-> u.power_alarm,
          integ_time |-> UiToYaml(AiMapping.integ_time, u.integ_time),
          channels |-> AiToDevice(u).channels]
    BY DEF AiToDevice
  <2> QED
    BY <1>1, <1>2, <1>3, <2>2, <2>3
<1> QED
  BY <1>5 DEF u, y

(* The table that the type of a channel selects.                           *)
LEMMA RangeTable ==
  /\ RtdMapping.range[RangeScenario("TYPE_0")] = RtdRanges.deactivated
  /\ \A t \in ResistanceTypes : RtdMapping.range[RangeScenario(t)] = ResistanceRanges
  /\ \A t \in ThermalTypes : RtdMapping.range[RangeScenario(t)] = ThermalRanges
<1>1. /\ RangeScenario("TYPE_0") = "deactivated"
      /\ \A t \in ResistanceTypes : RangeScenario(t) = "resistance"
      /\ \A t \in ThermalTypes : RangeScenario(t) = "thermal"
  BY DEF RangeScenario, ResistanceTypes, ThermalTypes
<1>2. RtdMapping.range = RtdRanges
  BY DEF RtdMapping
<1>3. RtdRanges.resistance = ResistanceRanges /\ RtdRanges.thermal = ThermalRanges
  BY DEF RtdRanges
<1> QED
  BY <1>1, <1>2, <1>3

LEMMA RtdRangeComesBack ==
  ASSUME NEW ch, RtdChannelAccepted(ch)
  PROVE  LET type  == YamlToUi(RtdMapping.type, ch.type)
             table == RtdMapping.range[RangeScenario(type)]
         IN UiToYaml(table, YamlToUi(table, ch.range)) = ch.range
<1> DEFINE type == YamlToUi(RtdMapping.type, ch.type)
           table == RtdMapping.range[RangeScenario(type)]
<1>1. Convertible(table) /\ ch.range \in Codes(table)
  <2>1. CASE ch.type = 0 /\ ch.range \in RangesTaken \union {1}
    <3>1. type = "TYPE_0"
      BY <2>1, RtdTypeOf
    <3> QED
      BY <2>1, <3>1, RangeTable, Deactivated, DeactivatedConvertible
  <2>2. CASE ch.type \in 4..6 /\ ch.range \in 1..3
    <3>1. type \in ResistanceTypes
      BY <2>2, RtdTypeOf
    <3> QED
      BY <2>2, <3>1, RangeTable, RangeTables, RtdConvertible
  <2>3. CASE ch.type \in 7..9 /\ ch.range \in RangesTaken
    <3>1. type \in ThermalTypes
      BY <2>3, RtdTypeOf
    <3> QED
      BY <2>3, <3>1, RangeTable, RangeTables, RtdConvertible
  <2> QED
    BY <2>1, <2>2, <2>3 DEF RtdChannelAccepted
<1> HIDE DEF table
<1> QED
  BY <1>1, CodeReturns DEF table

LEMMA RtdComesBack ==
  ASSUME NEW c, c.mlfb \in RtdMlfb, RtdAccepted(RtdToDevice(c))
  PROVE  RtdToDevice(RtdToUI(RtdToDevice(c))) = RtdToDevice(c)
<1> DEFINE y == RtdToDevice(c)
           I == 0..(RtdChannels[y.mlfb] - 1)
           u == RtdToUI(y)
<1>1. /\ y = [mlfb |-> y.mlfb, power_alarm |-> y.power_alarm, integ_time |-> y.integ_time,
               channels |-> y.channels]
      /\ y.channels = [i \in I |->
           [type |-> y.channels[i].type, range |-> y.channels[i].range,
            temper_coeff |-> y.channels[i].temper_coeff, temper_unit |-> y.channels[i].temper_unit,
            smooth |-> y.channels[i].smooth, open_wire_alarm |-> y.channels[i].open_wire_alarm,
            overflow_alarm |-> y.channels[i].overflow_alarm,
            underflow_alarm |-> y.channels[i].underflow_alarm]]
  BY DEF RtdToDevice
<1> HIDE DEF y
<1>2. /\ u.mlfb = y.mlfb /\ u.power_alarm = y.power_alarm
      /\ u.integ_time = YamlToUi(RtdMapping.integ_time, y.integ_time)
      /\ \A i \in I :
           /\ u.channels[i].type = YamlToUi(RtdMapping.type, y.channels[i].type)
           /\ u.channels[i].range = YamlToUi(RtdMapping.range[RangeScenario(u.channels[i].type)],
                                             y.channels[i].range)
           /\ u.channels[i].temper_coeff = YamlToUi(RtdMapping.temper_coeff, y.channels[i].temper_coeff)
           /\ u.channels[i].temper_unit = YamlToUi(RtdMapping.temper_unit, y.channels[i].temper_unit)
           /\ u.channels[i].smooth = YamlToUi(RtdMapping.smooth, y.channels[i].smooth)
           /\ u.channels[i].open_wire_alarm = y.channels[i].open_wire_alarm
           /\ u.channels[i].overflow_alarm = y.channels[i].overflow_alarm
           /\ u.channels[i].underflow_alarm = y.channels[i].underflow_alarm
  BY DEF RtdToUI
<1> HIDE DEF u
<1>3. UiToYaml(RtdMapping.integ_time, u.integ_time) = y.integ_time
  <2>1. y.integ_time \in Codes(RtdMapping.integ_time)
    BY RtdTables DEF RtdAccepted, y
  <2> QED
    BY <1>2, <2>1, RtdConvertible, CodeReturns
<1>4. \A i \in I :
        /\ UiToYaml(RtdMapping.type, u.channels[i].type) = y.channels[i].type
        /\ UiToYaml(RtdMapping.range[RangeScenario(u.channels[i].type)], u.channels[i].range)
             = y.channels[i].range
        /\ UiToYaml(RtdMapping.temper_coeff, u.channels[i].temper_coeff) = y.channels[i].temper_coeff
        /\ UiToYaml(RtdMapping.temper_unit, u.channels[i].temper_unit) = y.channels[i].temper_unit
        /\ UiToYaml(RtdMapping.smooth, u.channels[i].smooth) = y.channels[i].smooth
  <2> TAKE i \in I
  <2>1. RtdChannelAccepted(y.channels[i])
    BY DEF RtdAccepted, y
  <2>2. /\ y.channels[i].type \in Codes(RtdMapping.type)
        /\ y.channels[i].temper_coeff \in Codes(RtdMapping.temper_coeff)
        /\ y.channels[i].temper_unit \in Codes(RtdMapping.temper_unit)
        /\ y.channels[i].smooth \in Codes(RtdMapping.smooth)
    BY <2>1, RtdTables, CoeffTable DEF RtdChannelAccepted
  <2>3. UiToYaml(RtdMapping.range[RangeScenario(u.channels[i].type)], u.channels[i].range)
          = y.channels[i].range
    BY <1>2, <2>1, RtdRangeComesBack
  <2> QED
    BY <1>2, <2>2, <2>3, RtdConvertible, CodeReturns
<1>5. RtdToDevice(u) = y
  <2>1. RtdToDevice(u).channels = [i \in I |->
          [type |-> UiToYaml(RtdMapping.type, u.channels[i].type),
           range |-> UiToYaml(RtdMapping.range[RangeScenario(u.channels[i].type)], u.channels[i].range),
           temper_coeff |-> UiToYaml(RtdMapping.temper_coeff, u.channels[i].temper_coeff),
           temper_unit |-> UiToYaml(RtdMapping.temper_unit, u.channels[i].temper_unit),
           smooth |-> UiToYaml(RtdMapping.smooth, u.channels[i].smooth),
           open_wire_alarm |-> u.channels[i].open_wire_alarm,
           overflow_alarm |-> u.channels[i].overflow_alarm,
           underflow_alarm |-> u.channels[i].underflow_alarm]]
    BY <1>2 DEF RtdToDevice
  <2>2. RtdToDevice(u).channels = y.channels
    BY <1>1, <1>2, <1>4, <2>1
  <2>3. RtdToDevice(u) = [mlfb |-> u.mlfb, power_alarm |-> u.power_alarm,
          integ_time |-> UiToYaml(RtdMapping.integ_time, u.integ_time),
          channels |-> RtdToDevice(u).channels]
    BY DEF RtdToDevice
  <2> QED
    BY <1>1, <1>2, <1>3, <2>2, <2>3
<1> QED
  BY <1>5 DEF u, y

LEMMA DigitalComesBack ==
  ASSUME NEW c
  PROVE  /\ c.mlfb = Sm1221Mlfb /\ DiAccepted(Sm1221ToDevice(c)) =>
              Sm1221ToDevice(Sm1221ToUI(Sm1221ToDevice(c))) = Sm1221ToDevice(c)
         /\ c.mlfb \in Sm1223Mlfb /\ Sm1223Accepted(Sm1223ToDevice(c)) =>
              Sm1223ToDevice(Sm1223ToUI(Sm1223ToDevice(c))) = Sm1223ToDevice(c)
<1>1. ASSUME DiAccepted(Sm1221ToDevice(c))
      PROVE  Sm1221ToDevice(Sm1221ToUI(Sm1221ToDevice(c))) = Sm1221ToDevice(c)
  <2> DEFINE y == Sm1221ToDevice(c)
             u == Sm1221ToUI(y)
  <2>1. y = [mlfb |-> y.mlfb, di |-> y.di] /\ y.di = [g \in DiGroups(y.mlfb) |-> y.di[g]]
    BY DEF Sm1221ToDevice
  <2>2. \A g \in DiGroups(y.mlfb) : UiToYaml(TimeMapping, YamlToUi(TimeMapping, y.di[g])) = y.di[g]
    BY <1>1, DigitalConvertible, CodeReturns DEF DiAccepted
  <2> HIDE DEF y
  <2>3. /\ u.mlfb = y.mlfb
        /\ \A g \in DiGroups(y.mlfb) : u.di[g] = YamlToUi(TimeMapping, y.di[g])
    BY DEF Sm1221ToUI
  <2> HIDE DEF u
  <2>4. Sm1221ToDevice(u) = y
    BY <2>1, <2>2, <2>3 DEF Sm1221ToDevice
  <2> QED
    BY <2>4 DEF u, y
<1>2. ASSUME Sm1223Accepted(Sm1223ToDevice(c))
      PROVE  Sm1223ToDevice(Sm1223ToUI(Sm1223ToDevice(c))) = Sm1223ToDevice(c)
  <2> DEFINE y == Sm1223ToDevice(c)
             I == 0..(DqChannels[y.mlfb] - 1)
             u == Sm1223ToUI(y)
  <2>1. /\ y = [mlfb |-> y.mlfb, di |-> y.di, dq |-> y.dq]
        /\ y.di = [g \in DiGroups(y.mlfb) |-> y.di[g]]
        /\ y.dq = [behavior_with_OD |-> y.dq.behavior_with_OD, substitute |-> y.dq.substitute]
        /\ y.dq.substitute = [i \in I |-> y.dq.substitute[i]]
    BY DEF Sm1223ToDevice
  <2>2. \A g \in DiGroups(y.mlfb) : UiToYaml(TimeMapping, YamlToUi(TimeMapping, y.di[g])) = y.di[g]
    BY <1>2, DigitalConvertible, CodeReturns DEF Sm1223Accepted, DiAccepted
  <2>3. UiToYaml(BehaviorMapping, YamlToUi(BehaviorMapping, y.dq.behavior_with_OD))
          = y.dq.behavior_with_OD
    BY <1>2, DigitalTables, DigitalConvertible, CodeReturns DEF Sm1223Accepted
  <2>4. \A i \in I : UiToYaml(SubstituteMapping, YamlToUi(SubstituteMapping, y.dq.substitute[i]))
                       = y.dq.substitute[i]
    <3>1. \A i \in I : y.dq.substitute[i] \in Codes(SubstituteMapping)
      BY <1>2, <2>1, DigitalTables DEF Sm1223Accepted
    <3> QED
      BY <3>1, DigitalConvertible, CodeReturns
  <2> HIDE DEF y
  <2>5. /\ u.mlfb = y.mlfb
        /\ \A g \in DiGroups(y.mlfb) : u.di[g] = YamlToUi(TimeMapping, y.di[g])
        /\ u.dq.behavior_with_OD = YamlToUi(BehaviorMapping, y.dq.behavior_with_OD)
        /\ \A i \in I : u.dq.substitute[i] = YamlToUi(SubstituteMapping, y.dq.substitute[i])
    BY DEF Sm1223ToUI
  <2> HIDE DEF u
  <2>6. Sm1223ToDevice(u) = y
    <3>1. [g \in DiGroups(y.mlfb) |-> UiToYaml(TimeMapping, u.di[g])] = y.di
      BY <2>1, <2>2, <2>5
    <3>2. [i \in I |-> UiToYaml(SubstituteMapping, u.dq.substitute[i])] = y.dq.substitute
      BY <2>1, <2>4, <2>5
    <3>3. UiToYaml(BehaviorMapping, u.dq.behavior_with_OD) = y.dq.behavior_with_OD
      BY <2>3, <2>5
    <3>4. Sm1223ToDevice(u) = [mlfb |-> y.mlfb, di |-> y.di,
            dq |-> [behavior_with_OD |-> y.dq.behavior_with_OD, substitute |-> y.dq.substitute]]
      BY <2>5, <3>1, <3>2, <3>3 DEF Sm1223ToDevice
    <3> QED
      BY <2>1, <3>4
  <2> QED
    BY <2>6 DEF u, y
<1> QED
  BY <1>1, <1>2

LEMMA EmComesBack ==
  ASSUME NEW c, c.mlfb = EmMlfb, EmAccepted(EmToDevice(c))
  PROVE  EmToDevice(EmToUI(EmToDevice(c))) = EmToDevice(c)
<1> DEFINE y == EmToDevice(c)
           u == EmToUI(y)
           current(i) == UiToYaml(SecondCurMapping, u.channels[i].ct_second_cur)
<1>1. /\ y.mlfb = EmMlfb
      /\ y = [mlfb |-> y.mlfb, module_version |-> y.module_version, con_type |-> y.con_type,
               range |-> y.range, line_freq |-> y.line_freq, period_meters |-> y.period_meters,
               meter_gate |-> y.meter_gate, min_max_cal |-> y.min_max_cal,
               diag_line_vol |-> y.diag_line_vol, line_vol_tol |-> y.line_vol_tol,
               data_variant |-> y.data_variant, channels |-> y.channels]
      /\ y.channels = [i \in EmChannels |->
           [check |-> y.channels[i].check, slider |-> y.channels[i].slider,
            ct_second_cur |-> y.channels[i].ct_second_cur]]
  BY DEF EmToDevice
<1>2. /\ y.module_version \in Codes(VersionMapping) /\ y.con_type \in Codes(ConTypeMapping)
      /\ y.range \in Codes(EmRangeMapping) /\ y.line_freq \in Codes(LineFreqMapping)
      /\ y.period_meters \in Codes(PeriodMapping) /\ y.data_variant \in Codes(VariantMapping)
      /\ \A i \in EmChannels : y.channels[i].ct_second_cur \in Codes(SecondCurMapping)
  <2> HIDE DEF y
  <2>1. y.module_version \in Int /\ y.con_type \in Int
    BY DEF EmAccepted, y
  <2> QED
    BY <2>1, EmTables, VariantTable DEF EmAccepted, y
<1> HIDE DEF y
<1>3. /\ u.mlfb = y.mlfb /\ u.meter_gate = y.meter_gate /\ u.min_max_cal = y.min_max_cal
      /\ u.diag_line_vol = y.diag_line_vol /\ u.line_vol_tol = y.line_vol_tol
      /\ u.module_version = YamlToUi(VersionMapping, y.module_version)
      /\ u.con_type = YamlToUi(ConTypeMapping, y.con_type)
      /\ u.range = YamlToUi(EmRangeMapping, y.range)
      /\ u.line_freq = YamlToUi(LineFreqMapping, y.line_freq)
      /\ u.period_meters = YamlToUi(PeriodMapping, y.period_meters)
      /\ u.data_variant = YamlToUi(VariantMapping, y.data_variant)
      /\ \A i \in EmChannels :
           /\ u.channels[i].check = y.channels[i].check
           /\ u.channels[i].slider = y.channels[i].slider
           /\ u.channels[i].ct_second_cur = YamlToUi(SecondCurMapping, y.channels[i].ct_second_cur)
  BY <1>1 DEF EmToUI
<1> HIDE DEF u
<1>4. /\ UiToYaml(VersionMapping, u.module_version) = y.module_version
      /\ UiToYaml(ConTypeMapping, u.con_type) = y.con_type
      /\ UiToYaml(EmRangeMapping, u.range) = y.range
      /\ UiToYaml(LineFreqMapping, u.line_freq) = y.line_freq
      /\ UiToYaml(PeriodMapping, u.period_meters) = y.period_meters
      /\ UiToYaml(VariantMapping, u.data_variant) = y.data_variant
  BY <1>2, <1>3, EmConvertible, CodeReturns
<1>5. \A i \in EmChannels : current(i) = y.channels[i].ct_second_cur
  BY <1>2, <1>3, EmConvertible, CodeReturns
<1>6. [i \in EmChannels |-> [check |-> u.channels[i].check, slider |-> u.channels[i].slider,
                             ct_second_cur |-> current(i)]] = y.channels
  BY <1>1, <1>3, <1>5
<1>7. EmToDevice(u) = y
  BY <1>1, <1>3, <1>4, <1>6 DEF EmToDevice
<1> QED
  BY <1>7 DEF u, y

(* What was deployed and is retrieved again deploys the same: of any list  *)
(* of values, even of one that no page shows.                              *)
LEMMA ComesBack ==
  ASSUME NEW c, Accepted(ToDevice(c))
  PROVE  ToDevice(ToUI(ToDevice(c))) = ToDevice(c)
<1> DEFINE y == ToDevice(c)
<1>1. CASE c.mlfb \in AiMlfb
  <2>1. y = AiToDevice(c)
    BY <1>1, Families DEF ToDevice
  <2>2. y.mlfb = c.mlfb
    BY <2>1 DEF AiToDevice
  <2> HIDE DEF y
  <2>3. ToUI(y) = AiToUI(y) /\ Accepted(y) = AiAccepted(y) /\ AiToUI(y).mlfb = y.mlfb
    BY <1>1, <2>2, Families DEF ToUI, Accepted, AiToUI
  <2>4. ToDevice(AiToUI(y)) = AiToDevice(AiToUI(y))
    BY <1>1, <2>2, <2>3, Families DEF ToDevice
  <2> QED
    BY <1>1, <2>1, <2>3, <2>4, AiComesBack DEF y
<1>2. CASE c.mlfb \in RtdMlfb
  <2>1. y = RtdToDevice(c)
    BY <1>2, Families DEF ToDevice
  <2>2. y.mlfb = c.mlfb
    BY <2>1 DEF RtdToDevice
  <2> HIDE DEF y
  <2>3. ToUI(y) = RtdToUI(y) /\ Accepted(y) = RtdAccepted(y) /\ RtdToUI(y).mlfb = y.mlfb
    BY <1>2, <2>2, Families DEF ToUI, Accepted, RtdToUI
  <2>4. ToDevice(RtdToUI(y)) = RtdToDevice(RtdToUI(y))
    BY <1>2, <2>2, <2>3, Families DEF ToDevice
  <2> QED
    BY <1>2, <2>1, <2>3, <2>4, RtdComesBack DEF y
<1>3. CASE c.mlfb \in Sm1223Mlfb
  <2>1. y = Sm1223ToDevice(c)
    BY <1>3, Families DEF ToDevice
  <2>2. y.mlfb = c.mlfb
    BY <2>1 DEF Sm1223ToDevice
  <2> HIDE DEF y
  <2>3. ToUI(y) = Sm1223ToUI(y) /\ Accepted(y) = Sm1223Accepted(y) /\ Sm1223ToUI(y).mlfb = y.mlfb
    BY <1>3, <2>2, Families DEF ToUI, Accepted, Sm1223ToUI
  <2>4. ToDevice(Sm1223ToUI(y)) = Sm1223ToDevice(Sm1223ToUI(y))
    BY <1>3, <2>2, <2>3, Families DEF ToDevice
  <2> QED
    BY <1>3, <2>1, <2>3, <2>4, DigitalComesBack DEF y
<1>4. CASE c.mlfb = Sm1221Mlfb
  <2>1. y = Sm1221ToDevice(c)
    BY <1>4, Families DEF ToDevice
  <2>2. y.mlfb = c.mlfb
    BY <2>1 DEF Sm1221ToDevice
  <2> HIDE DEF y
  <2>3. ToUI(y) = Sm1221ToUI(y) /\ Accepted(y) = DiAccepted(y) /\ Sm1221ToUI(y).mlfb = y.mlfb
    BY <1>4, <2>2, Families DEF ToUI, Accepted, Sm1221ToUI
  <2>4. ToDevice(Sm1221ToUI(y)) = Sm1221ToDevice(Sm1221ToUI(y))
    BY <1>4, <2>2, <2>3, Families DEF ToDevice
  <2> QED
    BY <1>4, <2>1, <2>3, <2>4, DigitalComesBack DEF y
<1>5. CASE c.mlfb = EmMlfb
  <2>1. y = EmToDevice(c)
    BY <1>5, Families DEF ToDevice
  <2>2. y.mlfb = c.mlfb
    BY <2>1 DEF EmToDevice
  <2> HIDE DEF y
  <2>3. ToUI(y) = EmToUI(y) /\ Accepted(y) = EmAccepted(y) /\ EmToUI(y).mlfb = EmMlfb
    BY <1>5, <2>2, Families DEF ToUI, Accepted, EmToUI
  <2>4. ToDevice(EmToUI(y)) = EmToDevice(EmToUI(y))
    BY <2>3, Families DEF ToDevice
  <2> QED
    BY <1>5, <2>1, <2>3, <2>4, EmComesBack DEF y
<1>6. CASE c.mlfb = SmSensMlfb
  <2>1. y = [mlfb |-> SmSensMlfb]
    BY <1>6, Families DEF ToDevice, SmSensToDevice
  <2>2. ToUI(y) = [mlfb |-> SmSensMlfb]
    BY <2>1, Families DEF ToUI, SmSensToUI
  <2> QED
    BY <2>1, <2>2, Families DEF ToDevice, SmSensToDevice
<1>7. CASE c.mlfb \notin ModuleTypes
  <2>1. y = [mlfb |-> "NA"]
    BY <1>7 DEF ToDevice, ModuleTypes
  <2>2. "NA" \notin ModuleTypes
    BY DEF ModuleTypes, AiMlfb, RtdMlfb, Sm1223Mlfb, Sm1221Mlfb, SmSensMlfb, EmMlfb
  <2>3. ToUI(y) = None
    BY <2>1, <2>2, ToUIMlfb
  <2>4. ToDevice(None) = [mlfb |-> "NA"]
    BY Families DEF ToDevice, None
  <2> QED
    BY <2>1, <2>3, <2>4
<1> QED
  BY <1>1, <1>2, <1>3, <1>4, <1>5, <1>6, <1>7 DEF ModuleTypes

(* Deploying what was retrieved changes nothing on the device.             *)
THEOREM DeployedIsRetrieved == Spec => []DeployedComesBack
<1>1. DeployedComesBack
  BY ComesBack DEF DeployedComesBack
<1> QED
  BY <1>1, PTL

-----------------------------------------------------------------------------
(* Every text of a typed slot is one of its mapping.                       *)
LEMMA AiHasCodes ==
  ASSUME NEW c, c.mlfb \in AiMlfb, c \in AiConf(c.mlfb)
  PROVE  NoCode \notin CodesOf(AiToDevice(c))
<1> DEFINE y == AiToDevice(c)
           I == 0..(AiChannels[c.mlfb] - 1)
<1>1. /\ y.mlfb = c.mlfb /\ DOMAIN y.channels = I
      /\ y.integ_time = UiToYaml(AiMapping.integ_time, c.integ_time)
      /\ \A i \in I : /\ y.channels[i].type = UiToYaml(AiMapping.type, c.channels[i].type)
                       /\ y.channels[i].range = UiToYaml(AiMapping.range, c.channels[i].range)
                       /\ y.channels[i].smooth = UiToYaml(AiMapping.smooth, c.channels[i].smooth)
  BY DEF AiToDevice
<1> HIDE DEF y
<1>2. /\ c.integ_time \in Texts(AiMapping.integ_time)
      /\ \A i \in I : c.channels[i] \in AiChannelType
  BY DEF AiConf, AiChannelType
<1>3. y.integ_time # NoCode
  BY <1>1, <1>2, AiConvertible, TextHasCode
<1>4. \A i \in I : NoCode \notin {y.channels[i].type, y.channels[i].range, y.channels[i].smooth}
  BY <1>1, <1>2, AiConvertible, TextHasCode DEF AiChannelType
<1> QED
  BY <1>1, <1>3, <1>4, Families DEF CodesOf, y

LEMMA RtdHasCodes ==
  ASSUME NEW c, c.mlfb \in RtdMlfb, c \in RtdSlot(c.mlfb)
  PROVE  NoCode \notin CodesOf(RtdToDevice(c))
<1> DEFINE y == RtdToDevice(c)
           I == 0..(RtdChannels[c.mlfb] - 1)
<1>1. /\ y.mlfb = c.mlfb /\ DOMAIN y.channels = I
      /\ y.integ_time = UiToYaml(RtdMapping.integ_time, c.integ_time)
      /\ \A i \in I :
           /\ y.channels[i].type = UiToYaml(RtdMapping.type, c.channels[i].type)
           /\ y.channels[i].range = UiToYaml(RtdMapping.range[RangeScenario(c.channels[i].type)],
                                             c.channels[i].range)
           /\ y.channels[i].temper_coeff = UiToYaml(RtdMapping.temper_coeff, c.channels[i].temper_coeff)
           /\ y.channels[i].temper_unit = UiToYaml(RtdMapping.temper_unit, c.channels[i].temper_unit)
           /\ y.channels[i].smooth = UiToYaml(RtdMapping.smooth, c.channels[i].smooth)
  BY DEF RtdToDevice
<1> HIDE DEF y
<1>2. /\ c.integ_time \in Texts(RtdMapping.integ_time)
      /\ \A i \in I : c.channels[i] \in RtdChannel
  BY RtdChannelFacts DEF RtdSlot, RtdConf
<1>3. y.integ_time # NoCode
  BY <1>1, <1>2, RtdConvertible, TextHasCode
<1>4. \A i \in I : NoCode \notin {y.channels[i].type, y.channels[i].range, y.channels[i].smooth,
                                 y.channels[i].temper_coeff, y.channels[i].temper_unit}
  <2> TAKE i \in I
  <2> DEFINE ch == c.channels[i]
  <2>1. /\ ch.type \in Texts(RtdMapping.type) /\ ch.smooth \in Texts(RtdMapping.smooth)
        /\ ch.temper_coeff \in Texts(RtdMapping.temper_coeff)
        /\ ch.temper_unit \in Texts(RtdMapping.temper_unit)
    BY <1>2 DEF RtdChannel, RtdChannelType
  <2>2. LET table == RtdMapping.range[RangeScenario(ch.type)]
        IN Convertible(table) /\ ch.range \in Texts(table)
    <3>1. CASE ch.type = "TYPE_0"
      BY <1>2, <3>1, RangeTable, DeactivatedConvertible DEF RtdChannel, RtdChannelType, RtdMapping
    <3>2. CASE ch.type \in ResistanceTypes
      BY <1>2, <3>2, RangeTable, RtdConvertible DEF RtdChannel
    <3>3. CASE ch.type \in ThermalTypes
      BY <1>2, <3>3, RangeTable, RtdConvertible DEF RtdChannel
    <3> QED
      BY <2>1, <3>1, <3>2, <3>3, RtdTables
  <2> QED
    BY <1>1, <2>1, <2>2, RtdConvertible, TextHasCode
<1> QED
  BY <1>1, <1>3, <1>4, Families DEF CodesOf, y

LEMMA DigitalHasCodes ==
  ASSUME NEW c
  PROVE  /\ c \in Sm1221Conf => NoCode \notin CodesOf(Sm1221ToDevice(c))
         /\ c.mlfb \in Sm1223Mlfb /\ c \in Sm1223Conf(c.mlfb) =>
              NoCode \notin CodesOf(Sm1223ToDevice(c))
<1>1. ASSUME c \in Sm1221Conf
      PROVE  NoCode \notin CodesOf(Sm1221ToDevice(c))
  <2> DEFINE y == Sm1221ToDevice(c)
  <2>1. /\ y.mlfb = Sm1221Mlfb /\ DOMAIN y.di = DiGroups(Sm1221Mlfb)
        /\ \A g \in DOMAIN y.di : y.di[g] = UiToYaml(TimeMapping, c.di[g])
    BY <1>1 DEF Sm1221ToDevice, Sm1221Conf
  <2> HIDE DEF y
  <2>2. \A g \in DOMAIN y.di : y.di[g] # NoCode
    BY <1>1, <2>1, DigitalConvertible, TextHasCode DEF Sm1221Conf
  <2> QED
    BY <2>1, <2>2, Families DEF CodesOf, y
<1>2. ASSUME c.mlfb \in Sm1223Mlfb, c \in Sm1223Conf(c.mlfb)
      PROVE  NoCode \notin CodesOf(Sm1223ToDevice(c))
  <2> DEFINE y == Sm1223ToDevice(c)
  <2>1. /\ y.mlfb = c.mlfb /\ DOMAIN y.di = DiGroups(c.mlfb)
        /\ DOMAIN y.dq.substitute = 0..(DqChannels[c.mlfb] - 1)
        /\ \A g \in DOMAIN y.di : y.di[g] = UiToYaml(TimeMapping, c.di[g])
        /\ y.dq.behavior_with_OD = UiToYaml(BehaviorMapping, c.dq.behavior_with_OD)
        /\ \A i \in DOMAIN y.dq.substitute :
             y.dq.substitute[i] = UiToYaml(SubstituteMapping, c.dq.substitute[i])
    BY DEF Sm1223ToDevice
  <2> HIDE DEF y
  <2>2. \A g \in DOMAIN y.di : y.di[g] # NoCode
    BY <1>2, <2>1, DigitalConvertible, TextHasCode DEF Sm1223Conf
  <2>3. y.dq.behavior_with_OD # NoCode
    BY <1>2, <2>1, DigitalConvertible, TextHasCode DEF Sm1223Conf
  <2>4. \A i \in DOMAIN y.dq.substitute : y.dq.substitute[i] # NoCode
    <3>1. \A i \in DOMAIN y.dq.substitute : c.dq.substitute[i] \in Texts(SubstituteMapping)
      BY <1>2, <2>1, SubstituteBoth DEF Sm1223Conf
    <3> QED
      BY <2>1, <3>1, DigitalConvertible, TextHasCode
  <2> QED
    BY <1>2, <2>1, <2>2, <2>3, <2>4, Families DEF CodesOf, y
<1> QED
  BY <1>1, <1>2

LEMMA EmHasCodes ==
  ASSUME NEW c \in EmConf
  PROVE  NoCode \notin CodesOf(EmToDevice(c))
<1> DEFINE y == EmToDevice(c)
<1>1. /\ y.mlfb = EmMlfb
      /\ y.module_version = UiToYaml(VersionMapping, c.module_version)
      /\ y.con_type = UiToYaml(ConTypeMapping, c.con_type)
      /\ y.range = UiToYaml(EmRangeMapping, c.range)
      /\ y.line_freq = UiToYaml(LineFreqMapping, c.line_freq)
      /\ y.period_meters = UiToYaml(PeriodMapping, c.period_meters)
      /\ y.data_variant = UiToYaml(VariantMapping, c.data_variant)
      /\ \A i \in EmChannels : y.channels[i].ct_second_cur = UiToYaml(SecondCurMapping, c.channels[i].ct_second_cur)
  BY DEF EmToDevice, EmConf
<1> HIDE DEF y
<1>2. NoCode \notin {y.module_version, y.con_type, y.range, y.line_freq, y.period_meters, y.data_variant}
  BY <1>1, EmConvertible, TextHasCode DEF EmConf, AllVariants
<1>3. \A i \in EmChannels : y.channels[i].ct_second_cur # NoCode
  BY <1>1, EmConvertible, TextHasCode DEF EmConf, AllSecondCurs
<1> QED
  BY <1>1, <1>2, <1>3, Families DEF CodesOf, y

(* What a page holds can be exported, also after odd configurations were   *)
(* loaded and edited.                                                      *)
THEOREM TextsHaveCodes == Spec => []ExportConvertible
<1>1. PanelInv => ExportConvertible
  <2> SUFFICES ASSUME SlotTyped(conf)
               PROVE  NoCode \notin CodesOf(ToDevice(conf))
    BY DEF PanelInv, ExportConvertible
  <2>1. CASE conf.mlfb \in AiMlfb
    BY <2>1, AiHasCodes, Families DEF ToDevice, SlotTyped
  <2>2. CASE conf.mlfb \in RtdMlfb
    BY <2>2, RtdHasCodes, Families DEF ToDevice, SlotTyped
  <2>3. CASE conf.mlfb \in Sm1223Mlfb
    BY <2>3, DigitalHasCodes, Families DEF ToDevice, SlotTyped
  <2>4. CASE conf.mlfb = Sm1221Mlfb
    BY <2>4, DigitalHasCodes, Families DEF ToDevice, SlotTyped
  <2>5. CASE conf.mlfb = EmMlfb
    BY <2>5, EmHasCodes, Families DEF ToDevice, SlotTyped
  <2>6. CASE conf.mlfb \notin ModuleTypes \ {SmSensMlfb}
    <3>1. \/ ToDevice(conf) = [mlfb |-> SmSensMlfb]
          \/ ToDevice(conf) = [mlfb |-> "NA"]
      BY <2>6, Families DEF ToDevice, ModuleTypes, SmSensToDevice
    <3>2. {SmSensMlfb, "NA"} \intersect (ModuleTypes \ {SmSensMlfb}) = {}
      BY DEF ModuleTypes, AiMlfb, RtdMlfb, Sm1223Mlfb, Sm1221Mlfb, SmSensMlfb, EmMlfb
    <3>3. CodesOf(ToDevice(conf)) = {}
      BY <3>1, <3>2, Families DEF CodesOf, ModuleTypes
    <3> QED
      BY <3>3
  <2> QED
    BY <2>1, <2>2, <2>3, <2>4, <2>5, <2>6 DEF ModuleTypes
<1> QED
  BY <1>1, PagesKeepTheirRules, PTL

-----------------------------------------------------------------------------
(* What was set, exported, taken and imported again is what was set.       *)
LEMMA AiSetComesBack ==
  ASSUME NEW c, c.mlfb \in AiMlfb, c \in AiConf(c.mlfb), AiAccepted(AiToDevice(c))
  PROVE  Values(AiToUI(AiToDevice(c))) = Values(c)
<1> DEFINE m == c.mlfb
           I == 0..(AiChannels[m] - 1)
           y == AiToDevice(c)
           u == AiToUI(y)
           Set(ch) == [type |-> ch.type, range |-> ch.range, ranges |-> {}, smooth |-> ch.smooth,
                       open_wire_alarm |-> ch.open_wire_alarm, overflow_alarm |-> ch.overflow_alarm,
                       underflow_alarm |-> ch.underflow_alarm]
<1>1. ASSUME NEW d, d.mlfb = m, d \in AiConf(m)
      PROVE  Values(d) = [mlfb |-> m, power_alarm |-> d.power_alarm, integ_time |-> d.integ_time,
                          channels |-> [i \in I |-> Set(d.channels[i])]]
  <2>1. /\ d = [mlfb |-> m, power_alarm |-> d.power_alarm, integ_time |-> d.integ_time,
                channels |-> d.channels]
        /\ DOMAIN d.channels = I /\ \A i \in I : d.channels[i] \in AiChannelType
    BY <1>1 DEF AiConf, AiChannelType
  <2>2. \A ch \in AiChannelType : [ch EXCEPT !.ranges = {}] = Set(ch)
    BY DEF AiChannelType
  <2> HIDE DEF Set
  <2>3. Values(d) = [d EXCEPT !.channels =
                      [i \in DOMAIN d.channels |-> [d.channels[i] EXCEPT !.ranges = {}]]]
    BY <1>1, <2>1, Families DEF Values
  <2>4. [i \in DOMAIN d.channels |-> [d.channels[i] EXCEPT !.ranges = {}]]
          = [i \in I |-> Set(d.channels[i])]
    BY <2>1, <2>2
  <2>5. \A chs : [d EXCEPT !.channels = chs] =
          [mlfb |-> m, power_alarm |-> d.power_alarm, integ_time |-> d.integ_time, channels |-> chs]
    BY <1>1 DEF AiConf
  <2> QED
    BY <2>3, <2>4, <2>5
<1>2. y.mlfb = m /\ u.mlfb = m
  BY DEF AiToDevice, AiToUI
<1>3. u \in AiConf(m)
  BY <1>2, AiLoaded
<1>4. /\ u.power_alarm = c.power_alarm
      /\ u.integ_time = YamlToUi(AiMapping.integ_time, UiToYaml(AiMapping.integ_time, c.integ_time))
      /\ \A i \in I :
           /\ u.channels[i].type = YamlToUi(AiMapping.type, UiToYaml(AiMapping.type, c.channels[i].type))
           /\ u.channels[i].range = YamlToUi(AiMapping.range, UiToYaml(AiMapping.range, c.channels[i].range))
           /\ u.channels[i].smooth = YamlToUi(AiMapping.smooth, UiToYaml(AiMapping.smooth, c.channels[i].smooth))
           /\ u.channels[i].open_wire_alarm = c.channels[i].open_wire_alarm
           /\ u.channels[i].overflow_alarm = c.channels[i].overflow_alarm
           /\ u.channels[i].underflow_alarm = c.channels[i].underflow_alarm
  BY DEF AiToDevice, AiToUI
<1> HIDE DEF u
<1>5. u.integ_time = c.integ_time
  BY <1>4, AiConvertible, TextReturns DEF AiConf
<1>6. \A i \in I : Set(u.channels[i]) = Set(c.channels[i])
  <2> TAKE i \in I
  <2>1. c.channels[i] \in AiChannelType
    BY DEF AiConf, AiChannelType
  <2> QED
    BY <1>4, <2>1, AiConvertible, TextReturns DEF AiChannelType
<1>7. [i \in I |-> Set(u.channels[i])] = [i \in I |-> Set(c.channels[i])]
  BY <1>6
<1>8. Values(u) = Values(c)
  <2> HIDE DEF Set
  <2> QED
    BY <1>1, <1>2, <1>3, <1>4, <1>5, <1>7
<1> QED
  BY <1>8 DEF u

(* A channel that is off finds its range again, but for the two codes that *)
(* stand for a resistance and for a thermal element.                       *)
LEMMA OffRangeReturns ==
  ASSUME NEW r \in Texts(RtdRanges.deactivated), r \notin {"Thermal_RANGE_2", "Thermal_RANGE_3"}
  PROVE  YamlToUi(RtdRanges.deactivated, UiToYaml(RtdRanges.deactivated, r)) = r
<1> DEFINE d == RtdRanges.deactivated
           code == UiToYaml(d, r)
           hit == {j \in DOMAIN d : d[j][2] = code}
           f == First(hit)
<1>1. /\ DOMAIN d = 1..19
      /\ \A i \in 1..3 : d[i] = ResistanceRanges[i]
      /\ \A i \in 4..19 : i - 3 \in 1..16 /\ d[i] = ThermalRanges[i - 3]
  <2>1. \A i \in 4..19 : i - 3 \in 1..16 /\ (i - 3) + 3 = i
    OBVIOUS
  <2> QED
    BY <2>1, Deactivated
<1> HIDE DEF d
<1>2. PICK i \in 1..19 : d[i][1] = r /\ code = d[i][2]
  BY <1>1, UiToYamlFound DEF d
<1> HIDE DEF code
<1>3. f \in 1..19 /\ d[f][2] = d[i][2] /\ f <= i
  <2>1. hit \in SUBSET Nat /\ i \in hit
    BY <1>1, <1>2
  <2>2. f \in hit /\ f <= i
    <3> HIDE DEF hit
    <3> QED
      BY <2>1, FirstIn
  <2> HIDE DEF f
  <2> QED
    BY <1>1, <1>2, <2>2
<1>4. YamlToUi(d, code) = d[f][1]
  <2>1. i \in hit
    BY <1>1, <1>2
  <2> QED
    BY <2>1 DEF YamlToUi
<1> HIDE DEF f
<1>5. \A j \in 1..3 : ResistanceRanges[j][2] = j
  BY DEF ResistanceRanges
<1>6. \A j \in 1..16 : ThermalRanges[j][2] \in 1..3 =>
         ThermalRanges[j][1] \in {"Thermal_RANGE_2", "Thermal_RANGE_3"}
  BY DEF ThermalRanges
<1>7. f = i
  <2>1. CASE i \in 1..3
    <3>1. f \in 1..3
      BY <1>3, <2>1
    <3> QED
      BY <1>1, <1>3, <1>5, <2>1, <3>1
  <2>2. CASE i \in 4..19
    <3>1. i - 3 \in 1..16 /\ d[i] = ThermalRanges[i - 3] /\ d[i][2] \notin 1..3
      BY <1>1, <1>2, <1>6, <2>2
    <3>2. f \in 4..19
      BY <1>1, <1>3, <1>5, <3>1
    <3>3. f - 3 = i - 3
      BY <1>1, <1>3, <3>1, <3>2, RtdConvertible, RangeTables DEF CodesDiffer
    <3> QED
      BY <3>2, <3>3
  <2> QED
    BY <2>1, <2>2
<1> QED
  BY <1>2, <1>4, <1>7 DEF d, code

LEMMA RtdSetComesBack ==
  ASSUME NEW c, c.mlfb \in RtdMlfb, c \in RtdSlot(c.mlfb), RtdAccepted(RtdToDevice(c)), ~RangeLost(c)
  PROVE  Values(RtdToUI(RtdToDevice(c))) = Values(c)
<1> DEFINE m == c.mlfb
           I == 0..(RtdChannels[m] - 1)
           y == RtdToDevice(c)
           u == RtdToUI(y)
           Set(ch) == [type |-> ch.type, range |-> ch.range, ranges |-> {},
                       temper_coeff |-> ch.temper_coeff, coeffs |-> {},
                       temper_unit |-> ch.temper_unit, smooth |-> ch.smooth,
                       open_wire_alarm |-> ch.open_wire_alarm, overflow_alarm |-> ch.overflow_alarm,
                       underflow_alarm |-> ch.underflow_alarm]
<1>1. ASSUME NEW d, d.mlfb = m, d \in RtdSlot(m)
      PROVE  Values(d) = [mlfb |-> m, power_alarm |-> d.power_alarm, integ_time |-> d.integ_time,
                          channels |-> [i \in I |-> Set(d.channels[i])]]
  <2>1. DOMAIN d.channels = I /\ \A i \in I : d.channels[i] \in RtdChannelType
    BY <1>1, RtdChannelFacts DEF RtdChannel
  <2>2. \A ch \in RtdChannelType : [ch EXCEPT !.ranges = {}, !.coeffs = {}] = Set(ch)
    <3> TAKE ch \in RtdChannelType
    <3> DEFINE e == [ch EXCEPT !.ranges = {}, !.coeffs = {}]
    <3>1. e \in [type : Texts(RtdMapping.type), range : Texts(RtdMapping.range.deactivated),
                 ranges : {{}}, temper_coeff : Texts(RtdMapping.temper_coeff), coeffs : {{}},
                 temper_unit : Texts(RtdMapping.temper_unit), smooth : Texts(RtdMapping.smooth),
                 open_wire_alarm : BOOLEAN, overflow_alarm : BOOLEAN, underflow_alarm : BOOLEAN]
      BY DEF RtdChannelType
    <3>2. /\ e.type = ch.type /\ e.range = ch.range /\ e.temper_coeff = ch.temper_coeff
          /\ e.temper_unit = ch.temper_unit /\ e.smooth = ch.smooth
          /\ e.open_wire_alarm = ch.open_wire_alarm /\ e.overflow_alarm = ch.overflow_alarm
          /\ e.underflow_alarm = ch.underflow_alarm
      BY DEF RtdChannelType
    <3> HIDE DEF e
    <3>3. e = Set(ch)
      BY <3>1, <3>2
    <3> QED
      BY <3>3 DEF e
  <2> HIDE DEF Set
  <2>3. Values(d) = [d EXCEPT !.channels =
                      [i \in DOMAIN d.channels |-> [d.channels[i] EXCEPT !.ranges = {}, !.coeffs = {}]]]
    BY <1>1, <2>1, Families DEF Values
  <2>4. [i \in DOMAIN d.channels |-> [d.channels[i] EXCEPT !.ranges = {}, !.coeffs = {}]]
          = [i \in I |-> Set(d.channels[i])]
    BY <2>1, <2>2
  <2>5. \A chs : [d EXCEPT !.channels = chs] =
          [mlfb |-> m, power_alarm |-> d.power_alarm, integ_time |-> d.integ_time, channels |-> chs]
    BY <1>1 DEF RtdSlot, RtdConf
  <2> QED
    BY <2>3, <2>4, <2>5
<1>2. y.mlfb = m /\ u.mlfb = m
  BY DEF RtdToDevice, RtdToUI
<1>3. u \in RtdSlot(m)
  BY <1>2, RtdLoaded
<1>4. /\ u.power_alarm = c.power_alarm
      /\ u.integ_time = YamlToUi(RtdMapping.integ_time, UiToYaml(RtdMapping.integ_time, c.integ_time))
  BY DEF RtdToDevice, RtdToUI
<1>5. \A i \in I :
        /\ u.channels[i].type = YamlToUi(RtdMapping.type, UiToYaml(RtdMapping.type, c.channels[i].type))
        /\ u.channels[i].range = YamlToUi(RtdMapping.range[RangeScenario(u.channels[i].type)],
             UiToYaml(RtdMapping.range[RangeScenario(c.channels[i].type)], c.channels[i].range))
        /\ u.channels[i].temper_coeff =
             YamlToUi(RtdMapping.temper_coeff, UiToYaml(RtdMapping.temper_coeff, c.channels[i].temper_coeff))
        /\ u.channels[i].temper_unit =
             YamlToUi(RtdMapping.temper_unit, UiToYaml(RtdMapping.temper_unit, c.channels[i].temper_unit))
        /\ u.channels[i].smooth = YamlToUi(RtdMapping.smooth, UiToYaml(RtdMapping.smooth, c.channels[i].smooth))
        /\ u.channels[i].open_wire_alarm = c.channels[i].open_wire_alarm
        /\ u.channels[i].overflow_alarm = c.channels[i].overflow_alarm
        /\ u.channels[i].underflow_alarm = c.channels[i].underflow_alarm
  <2>1. \A i \in I :
          /\ y.channels[i].type = UiToYaml(RtdMapping.type, c.channels[i].type)
          /\ y.channels[i].range = UiToYaml(RtdMapping.range[RangeScenario(c.channels[i].type)],
                                            c.channels[i].range)
          /\ y.channels[i].temper_coeff = UiToYaml(RtdMapping.temper_coeff, c.channels[i].temper_coeff)
          /\ y.channels[i].temper_unit = UiToYaml(RtdMapping.temper_unit, c.channels[i].temper_unit)
          /\ y.channels[i].smooth = UiToYaml(RtdMapping.smooth, c.channels[i].smooth)
          /\ y.channels[i].open_wire_alarm = c.channels[i].open_wire_alarm
          /\ y.channels[i].overflow_alarm = c.channels[i].overflow_alarm
          /\ y.channels[i].underflow_alarm = c.channels[i].underflow_alarm
    BY DEF RtdToDevice
  <2> HIDE DEF y
  <2>2. \A i \in I :
          /\ u.channels[i].type = YamlToUi(RtdMapping.type, y.channels[i].type)
          /\ u.channels[i].range = YamlToUi(RtdMapping.range[RangeScenario(u.channels[i].type)],
                                            y.channels[i].range)
          /\ u.channels[i].temper_coeff = YamlToUi(RtdMapping.temper_coeff, y.channels[i].temper_coeff)
          /\ u.channels[i].temper_unit = YamlToUi(RtdMapping.temper_unit, y.channels[i].temper_unit)
          /\ u.channels[i].smooth = YamlToUi(RtdMapping.smooth, y.channels[i].smooth)
          /\ u.channels[i].open_wire_alarm = y.channels[i].open_wire_alarm
          /\ u.channels[i].overflow_alarm = y.channels[i].overflow_alarm
          /\ u.channels[i].underflow_alarm = y.channels[i].underflow_alarm
    BY <1>2 DEF RtdToUI
  <2> HIDE DEF u
  <2> QED
    BY <2>1, <2>2
<1> HIDE DEF u
<1>6. u.integ_time = c.integ_time
  BY <1>4, RtdConvertible, TextReturns DEF RtdSlot, RtdConf
<1>7. \A i \in I : Set(u.channels[i]) = Set(c.channels[i])
  <2> TAKE i \in I
  <2> DEFINE ch == c.channels[i]
             table == RtdMapping.range[RangeScenario(ch.type)]
  <2>1. ch \in RtdChannel /\ i \in DOMAIN c.channels
    BY RtdChannelFacts
  <2> HIDE DEF ch
  <2>2. /\ u.channels[i].type = ch.type /\ u.channels[i].temper_coeff = ch.temper_coeff
        /\ u.channels[i].temper_unit = ch.temper_unit /\ u.channels[i].smooth = ch.smooth
    BY <1>5, <2>1, RtdConvertible, TextReturns DEF RtdChannel, RtdChannelType, ch
  <2>3. YamlToUi(table, UiToYaml(table, ch.range)) = ch.range
    <3>1. CASE ch.type = "TYPE_0"
      <4>1. ch.range \in Texts(RtdRanges.deactivated)
        BY <2>1 DEF RtdChannel, RtdChannelType, RtdMapping
      <4>2. ch.range \notin {"Thermal_RANGE_2", "Thermal_RANGE_3"}
        BY <2>1, <3>1 DEF RangeLost, ch
      <4>3. table = RtdRanges.deactivated
        BY <3>1, RangeTable
      <4> QED
        BY <4>1, <4>2, <4>3, OffRangeReturns
    <3>2. CASE ch.type \in ResistanceTypes
      BY <2>1, <3>2, RangeTable, RtdConvertible, TextReturns DEF RtdChannel
    <3>3. CASE ch.type \in ThermalTypes
      BY <2>1, <3>3, RangeTable, RtdConvertible, TextReturns DEF RtdChannel
    <3> QED
      BY <2>1, <3>1, <3>2, <3>3, RtdTables DEF RtdChannel, RtdChannelType
  <2> HIDE DEF table
  <2>4. u.channels[i].range = ch.range
    BY <1>5, <2>2, <2>3 DEF ch, table
  <2> QED
    BY <1>5, <2>2, <2>4 DEF ch
<1>8. [i \in I |-> Set(u.channels[i])] = [i \in I |-> Set(c.channels[i])]
  BY <1>7
<1>9. Values(u) = Values(c)
  <2> HIDE DEF Set
  <2> QED
    BY <1>1, <1>2, <1>3, <1>4, <1>6, <1>8
<1> QED
  BY <1>9 DEF u

LEMMA DigitalSetComesBack ==
  ASSUME NEW c
  PROVE  /\ c \in Sm1221Conf => Sm1221ToUI(Sm1221ToDevice(c)) = c
         /\ c.mlfb \in Sm1223Mlfb /\ c \in Sm1223Conf(c.mlfb) => Sm1223ToUI(Sm1223ToDevice(c)) = c
<1> DEFINE Time(t) == YamlToUi(TimeMapping, UiToYaml(TimeMapping, t))
<1>1. ASSUME c \in Sm1221Conf
      PROVE  Sm1221ToUI(Sm1221ToDevice(c)) = c
  <2>1. Sm1221ToUI(Sm1221ToDevice(c)) = [mlfb |-> c.mlfb, di |-> [g \in DiGroups(c.mlfb) |-> Time(c.di[g])]]
    BY DEF Sm1221ToUI, Sm1221ToDevice
  <2>2. \A g \in DiGroups(c.mlfb) : Time(c.di[g]) = c.di[g]
    BY <1>1, DigitalConvertible, TextReturns DEF Sm1221Conf
  <2> HIDE DEF Time
  <2> QED
    BY <1>1, <2>1, <2>2 DEF Sm1221Conf
<1>2. ASSUME c.mlfb \in Sm1223Mlfb, c \in Sm1223Conf(c.mlfb)
      PROVE  Sm1223ToUI(Sm1223ToDevice(c)) = c
  <2> DEFINE I == 0..(DqChannels[c.mlfb] - 1)
             Sub(v) == YamlToUi(SubstituteMapping, UiToYaml(SubstituteMapping, v))
             Od(t) == YamlToUi(BehaviorMapping, UiToYaml(BehaviorMapping, t))
  <2>1. Sm1223ToUI(Sm1223ToDevice(c)) =
          [mlfb |-> c.mlfb, di |-> [g \in DiGroups(c.mlfb) |-> Time(c.di[g])],
           dq |-> [behavior_with_OD |-> Od(c.dq.behavior_with_OD),
                   substitute |-> [i \in I |-> Sub(c.dq.substitute[i])]]]
    BY DEF Sm1223ToUI, Sm1223ToDevice
  <2>2. \A g \in DiGroups(c.mlfb) : Time(c.di[g]) = c.di[g]
    BY <1>2, DigitalConvertible, TextReturns DEF Sm1223Conf
  <2>3. Od(c.dq.behavior_with_OD) = c.dq.behavior_with_OD
    BY <1>2, DigitalConvertible, TextReturns DEF Sm1223Conf
  <2>4. \A i \in I : Sub(c.dq.substitute[i]) = c.dq.substitute[i]
    <3>1. \A i \in I : c.dq.substitute[i] \in Texts(SubstituteMapping)
      BY <1>2, SubstituteBoth DEF Sm1223Conf
    <3> QED
      BY <3>1, DigitalConvertible, TextReturns
  <2> HIDE DEF Time, Sub, Od
  <2>5. [g \in DiGroups(c.mlfb) |-> Time(c.di[g])] = c.di
    BY <1>2, <2>2 DEF Sm1223Conf
  <2>6. [i \in I |-> Sub(c.dq.substitute[i])] = c.dq.substitute
    BY <1>2, <2>4 DEF Sm1223Conf
  <2> QED
    BY <1>2, <2>1, <2>3, <2>5, <2>6 DEF Sm1223Conf
<1> QED
  BY <1>1, <1>2

LEMMA EmSetComesBack ==
  ASSUME NEW c \in EmConf, EmAccepted(EmToDevice(c))
  PROVE  Values(EmToUI(EmToDevice(c))) = Values(c)
<1> DEFINE u == EmToUI(EmToDevice(c))
           Set(ch) == [check |-> ch.check, slider |-> ch.slider, ct_second_cur |-> ch.ct_second_cur,
                       second_curs |-> {}]
<1>1. ASSUME NEW d \in EmConf
      PROVE  Values(d) = [mlfb |-> EmMlfb, module_version |-> d.module_version, con_type |-> d.con_type,
               range |-> d.range, line_freq |-> d.line_freq, period_meters |-> d.period_meters,
               meter_gate |-> d.meter_gate, min_max_cal |-> d.min_max_cal,
               diag_line_vol |-> d.diag_line_vol, line_vol_tol |-> d.line_vol_tol,
               data_variant |-> d.data_variant, variants |-> {},
               channels |-> [i \in EmChannels |-> Set(d.channels[i])]]
  <2>1. /\ d.mlfb = EmMlfb /\ DOMAIN d.channels = EmChannels
        /\ \A i \in EmChannels : d.channels[i] \in EmChannelType
    BY DEF EmConf, EmChannelType
  <2>2. \A ch \in EmChannelType : [ch EXCEPT !.second_curs = {}] = Set(ch)
    BY DEF EmChannelType
  <2> HIDE DEF Set
  <2>3. Values(d) = [d EXCEPT !.variants = {}, !.channels =
                      [i \in DOMAIN d.channels |-> [d.channels[i] EXCEPT !.second_curs = {}]]]
    BY <2>1, Families DEF Values
  <2>4. [i \in DOMAIN d.channels |-> [d.channels[i] EXCEPT !.second_curs = {}]]
          = [i \in EmChannels |-> Set(d.channels[i])]
    BY <2>1, <2>2
  <2>5. \A chs : [d EXCEPT !.variants = {}, !.channels = chs] =
          [mlfb |-> EmMlfb, module_version |-> d.module_version, con_type |-> d.con_type,
           range |-> d.range, line_freq |-> d.line_freq, period_meters |-> d.period_meters,
           meter_gate |-> d.meter_gate, min_max_cal |-> d.min_max_cal,
           diag_line_vol |-> d.diag_line_vol, line_vol_tol |-> d.line_vol_tol,
           data_variant |-> d.data_variant, variants |-> {}, channels |-> chs]
    <3> TAKE chs
    <3> DEFINE e == [d EXCEPT !.variants = {}, !.channels = chs]
    <3>1. e \in [mlfb : {EmMlfb}, module_version : Texts(VersionMapping), con_type : Texts(ConTypeMapping),
                 range : Texts(EmRangeMapping), line_freq : Texts(LineFreqMapping),
                 period_meters : Texts(PeriodMapping), meter_gate : BOOLEAN, min_max_cal : BOOLEAN,
                 diag_line_vol : BOOLEAN, line_vol_tol : SliderValues, data_variant : AllVariants,
                 variants : {{}}, channels : {chs}]
      BY DEF EmConf
    <3>2. /\ e.module_version = d.module_version /\ e.con_type = d.con_type /\ e.range = d.range
          /\ e.line_freq = d.line_freq /\ e.period_meters = d.period_meters
          /\ e.meter_gate = d.meter_gate /\ e.min_max_cal = d.min_max_cal
          /\ e.diag_line_vol = d.diag_line_vol /\ e.line_vol_tol = d.line_vol_tol
          /\ e.data_variant = d.data_variant
      BY DEF EmConf
    <3> HIDE DEF e
    <3>3. e = [mlfb |-> EmMlfb, module_version |-> d.module_version, con_type |-> d.con_type,
               range |-> d.range, line_freq |-> d.line_freq, period_meters |-> d.period_meters,
               meter_gate |-> d.meter_gate, min_max_cal |-> d.min_max_cal,
               diag_line_vol |-> d.diag_line_vol, line_vol_tol |-> d.line_vol_tol,
               data_variant |-> d.data_variant, variants |-> {}, channels |-> chs]
      BY <3>1, <3>2
    <3> QED
      BY <3>3 DEF e
  <2> QED
    BY <2>3, <2>4, <2>5
<1>2. u \in EmConf
  BY EmLoaded
<1>3. /\ u.meter_gate = c.meter_gate /\ u.min_max_cal = c.min_max_cal
      /\ u.diag_line_vol = c.diag_line_vol /\ u.line_vol_tol = c.line_vol_tol
      /\ u.module_version = YamlToUi(VersionMapping, UiToYaml(VersionMapping, c.module_version))
      /\ u.con_type = YamlToUi(ConTypeMapping, UiToYaml(ConTypeMapping, c.con_type))
      /\ u.range = YamlToUi(EmRangeMapping, UiToYaml(EmRangeMapping, c.range))
      /\ u.line_freq = YamlToUi(LineFreqMapping, UiToYaml(LineFreqMapping, c.line_freq))
      /\ u.period_meters = YamlToUi(PeriodMapping, UiToYaml(PeriodMapping, c.period_meters))
      /\ u.data_variant = YamlToUi(VariantMapping, UiToYaml(VariantMapping, c.data_variant))
      /\ \A i \in EmChannels :
           /\ u.channels[i].check = c.channels[i].check
           /\ u.channels[i].slider = c.channels[i].slider
           /\ u.channels[i].ct_second_cur =
                YamlToUi(SecondCurMapping, UiToYaml(SecondCurMapping, c.channels[i].ct_second_cur))
  BY DEF EmToUI, EmToDevice
<1> HIDE DEF u
<1>4. /\ u.module_version = c.module_version /\ u.con_type = c.con_type /\ u.range = c.range
      /\ u.line_freq = c.line_freq /\ u.period_meters = c.period_meters
      /\ u.data_variant = c.data_variant
  BY <1>3, EmConvertible, TextReturns DEF EmConf, AllVariants
<1>5. \A i \in EmChannels : u.channels[i].ct_second_cur = c.channels[i].ct_second_cur
  BY <1>3, EmConvertible, TextReturns DEF EmConf, AllSecondCurs
<1>6. [i \in EmChannels |-> Set(u.channels[i])] = [i \in EmChannels |-> Set(c.channels[i])]
  BY <1>3, <1>5
<1>7. Values(u) = Values(c)
  <2> HIDE DEF Set
  <2> QED
    BY <1>1, <1>2, <1>3, <1>4, <1>6
<1> QED
  BY <1>7 DEF u

(* What was set on the page of a new module is what is shown after it was  *)
(* deployed and retrieved, but for the two ranges of a channel that is off.*)
THEOREM SetIsRetrieved == Spec => []ShownComesBack
<1>1. PanelInv => ShownComesBack
  <2> SUFFICES ASSUME SlotTyped(conf), Accepted(ToDevice(conf)), ~RangeLost(conf)
               PROVE  Values(ToUI(ToDevice(conf))) = Values(conf)
    BY DEF PanelInv, ShownComesBack
  <2> DEFINE y == ToDevice(conf)
  <2>1. CASE conf.mlfb \in AiMlfb
    <3>1. y = AiToDevice(conf) /\ AiToDevice(conf).mlfb = conf.mlfb
      BY <2>1, Families DEF ToDevice, AiToDevice
    <3>2. ToUI(y) = AiToUI(AiToDevice(conf)) /\ AiAccepted(AiToDevice(conf))
      BY <2>1, <3>1, Families DEF ToUI, Accepted
    <3> QED
      BY <2>1, <3>1, <3>2, AiSetComesBack DEF SlotTyped
  <2>2. CASE conf.mlfb \in RtdMlfb
    <3>1. y = RtdToDevice(conf) /\ RtdToDevice(conf).mlfb = conf.mlfb
      BY <2>2, Families DEF ToDevice, RtdToDevice
    <3>2. ToUI(y) = RtdToUI(RtdToDevice(conf)) /\ RtdAccepted(RtdToDevice(conf))
      BY <2>2, <3>1, Families DEF ToUI, Accepted
    <3> QED
      BY <2>2, <3>1, <3>2, RtdSetComesBack DEF SlotTyped
  <2>3. CASE conf.mlfb \in Sm1223Mlfb
    <3>1. y = Sm1223ToDevice(conf) /\ Sm1223ToDevice(conf).mlfb = conf.mlfb
      BY <2>3, Families DEF ToDevice, Sm1223ToDevice
    <3>2. ToUI(y) = Sm1223ToUI(Sm1223ToDevice(conf))
      BY <2>3, <3>1, Families DEF ToUI
    <3> QED
      BY <2>3, <3>1, <3>2, DigitalSetComesBack DEF SlotTyped
  <2>4. CASE conf.mlfb = Sm1221Mlfb
    <3>1. y = Sm1221ToDevice(conf) /\ Sm1221ToDevice(conf).mlfb = conf.mlfb
      BY <2>4, Families DEF ToDevice, Sm1221ToDevice
    <3>2. ToUI(y) = Sm1221ToUI(Sm1221ToDevice(conf))
      BY <2>4, <3>1, Families DEF ToUI
    <3> QED
      BY <2>4, <3>1, <3>2, DigitalSetComesBack DEF SlotTyped
  <2>5. CASE conf.mlfb = EmMlfb
    <3>1. y = EmToDevice(conf) /\ EmToDevice(conf).mlfb = conf.mlfb
      BY <2>5, Families DEF ToDevice, EmToDevice
    <3>2. ToUI(y) = EmToUI(EmToDevice(conf)) /\ EmAccepted(EmToDevice(conf))
      BY <2>5, <3>1, Families DEF ToUI, Accepted
    <3> QED
      BY <2>5, <3>1, <3>2, EmSetComesBack DEF SlotTyped
  <2>6. CASE conf.mlfb \notin ModuleTypes \ {SmSensMlfb}
    <3>1. "NA" \notin ModuleTypes
      BY DEF ModuleTypes, AiMlfb, RtdMlfb, Sm1223Mlfb, Sm1221Mlfb, SmSensMlfb, EmMlfb
    <3>2. CASE conf = SmSensDefault
      BY <3>2, Families DEF ToDevice, ToUI, SmSensDefault, SmSensToDevice, SmSensToUI
    <3>3. CASE conf = None
      <4>1. y = [mlfb |-> "NA"]
        BY <3>3, Families DEF ToDevice, None
      <4> QED
        BY <3>1, <3>3, <4>1, ToUIMlfb
    <3> QED
      BY <2>6, <3>2, <3>3 DEF SlotTyped
  <2> QED
    BY <2>1, <2>2, <2>3, <2>4, <2>5, <2>6 DEF ModuleTypes
<1> QED
  BY <1>1, PagesKeepTheirRules, PTL

-----------------------------------------------------------------------------
(* What the schemas take of what the pages hold.                           *)
LEMMA AiCodeOf ==
  /\ UiToYaml(AiMapping.type, "TYPE_1") = 1 /\ UiToYaml(AiMapping.type, "TYPE_3") = 3
  /\ \A r \in AiRangesOfVoltage : UiToYaml(AiMapping.range, r) \in {7, 8, 9}
  /\ \A r \in AiRangesOfCurrent : UiToYaml(AiMapping.range, r) = IF r = "RANGE_2" THEN 2 ELSE 3
<1> DEFINE t == AiMapping.type
           m == AiMapping.range
<1>1. /\ t[1] = <<"TYPE_1", 1>> /\ t[2] = <<"TYPE_3", 3>>
      /\ \A i \in 1..5 : /\ m[i][1] \in AiRangesOfVoltage => m[i][2] \in {7, 8, 9}
                         /\ m[i][1] = "RANGE_2" => m[i][2] = 2
                         /\ m[i][1] = "RANGE_3" => m[i][2] = 3
  BY DEF AiMapping, AiRangesOfVoltage
<1>2. /\ DOMAIN t = 1..2 /\ DOMAIN m = 1..5 /\ DOMAIN t \in SUBSET Nat /\ DOMAIN m \in SUBSET Nat
      /\ {"TYPE_1", "TYPE_3"} = Texts(t) /\ AiRangesOfVoltage \union AiRangesOfCurrent = Texts(m)
  BY AiTables
<1> HIDE DEF t, m
<1>3. UiToYaml(t, "TYPE_1") = 1
  <2>1. PICK i \in 1..2 : t[i][1] = "TYPE_1" /\ UiToYaml(t, "TYPE_1") = t[i][2]
    BY <1>2, UiToYamlFound
  <2>2. i = 1 \/ i = 2
    OBVIOUS
  <2> QED
    BY <1>1, <2>1, <2>2
<1>4. UiToYaml(t, "TYPE_3") = 3
  <2>1. PICK i \in 1..2 : t[i][1] = "TYPE_3" /\ UiToYaml(t, "TYPE_3") = t[i][2]
    BY <1>2, UiToYamlFound
  <2>2. i = 1 \/ i = 2
    OBVIOUS
  <2> QED
    BY <1>1, <2>1, <2>2
<1>5. ASSUME NEW r \in AiRangesOfVoltage
      PROVE  UiToYaml(m, r) \in {7, 8, 9}
  <2>1. PICK i \in 1..5 : m[i][1] = r /\ UiToYaml(m, r) = m[i][2]
    BY <1>2, UiToYamlFound
  <2> QED
    BY <1>1, <2>1
<1>6. ASSUME NEW r \in AiRangesOfCurrent
      PROVE  UiToYaml(m, r) = IF r = "RANGE_2" THEN 2 ELSE 3
  <2>1. PICK i \in 1..5 : m[i][1] = r /\ UiToYaml(m, r) = m[i][2]
    BY <1>2, UiToYamlFound
  <2> QED
    BY <1>1, <2>1 DEF AiRangesOfCurrent
<1> QED
  BY <1>3, <1>4, <1>5, <1>6 DEF t, m

LEMMA AiIsTaken ==
  ASSUME NEW c, c.mlfb \in AiMlfb, c \in AiConf(c.mlfb), AiPairs(c)
  PROVE  AiAccepted(AiToDevice(c)) <=>
           \A i \in DOMAIN c.channels : c.channels[i].type = "TYPE_3" => AiNothingDisabled(c.channels[i])
<1> DEFINE y == AiToDevice(c)
           I == 0..(AiChannels[c.mlfb] - 1)
<1>1. /\ y.mlfb = c.mlfb /\ DOMAIN y.channels = I /\ y.power_alarm = c.power_alarm
      /\ y.integ_time = UiToYaml(AiMapping.integ_time, c.integ_time)
      /\ \A i \in I :
           /\ y.channels[i].type = UiToYaml(AiMapping.type, c.channels[i].type)
           /\ y.channels[i].range = UiToYaml(AiMapping.range, c.channels[i].range)
           /\ y.channels[i].smooth = UiToYaml(AiMapping.smooth, c.channels[i].smooth)
           /\ y.channels[i].open_wire_alarm = c.channels[i].open_wire_alarm
           /\ y.channels[i].overflow_alarm = c.channels[i].overflow_alarm
           /\ y.channels[i].underflow_alarm = c.channels[i].underflow_alarm
  BY DEF AiToDevice
<1> HIDE DEF y
<1>2. /\ c.integ_time \in Texts(AiMapping.integ_time) /\ c.power_alarm \in BOOLEAN
      /\ DOMAIN c.channels = I /\ \A i \in I : c.channels[i] \in AiChannelType
  BY DEF AiConf, AiChannelType
<1>3. y.integ_time \in 0..3
  BY <1>1, <1>2, AiConvertible, AiTables, TextHasCode
<1>4. ASSUME NEW i \in I
      PROVE  LET ch == y.channels[i]
             IN /\ ch.type \in {1, 3} /\ ch.smooth \in 0..3
                /\ {ch.open_wire_alarm, ch.overflow_alarm, ch.underflow_alarm} \subseteq BOOLEAN
                /\ ch.range \in IF ch.type = 1 THEN {7, 8, 9} ELSE {2, 3}
                /\ (ch.range = 2 => ~ch.open_wire_alarm) /\ (ch.range = 3 => ~ch.underflow_alarm) <=>
                     (c.channels[i].type = "TYPE_3" => AiNothingDisabled(c.channels[i]))
  <2> DEFINE ch == c.channels[i]
  <2>1. /\ ch \in AiChannelType /\ ch.range \in AiRangesOf(ch.type)
    BY <1>2 DEF AiPairs
  <2>2. y.channels[i].smooth \in 0..3
    BY <1>1, <2>1, AiConvertible, AiTables, TextHasCode DEF AiChannelType
  <2>3. {ch.open_wire_alarm, ch.overflow_alarm, ch.underflow_alarm} \subseteq BOOLEAN
    BY <2>1 DEF AiChannelType
  <2>4. ch.type \in {"TYPE_1", "TYPE_3"}
    BY <2>1, AiTables DEF AiChannelType
  <2> HIDE DEF ch
  <2>5. CASE ch.type = "TYPE_1"
    <3>1. y.channels[i].type = 1 /\ y.channels[i].range \in {7, 8, 9}
      BY <1>1, <2>1, <2>5, AiCodeOf DEF AiRangesOf, ch
    <3> QED
      BY <1>1, <2>2, <2>3, <2>5, <3>1 DEF ch
  <2>6. CASE ch.type = "TYPE_3"
    <3>1. y.channels[i].type = 3 /\ ch.range \in {"RANGE_2", "RANGE_3"}
      BY <1>1, <2>1, <2>6, AiCodeOf DEF AiRangesOf, AiRangesOfCurrent, ch
    <3>2. CASE ch.range = "RANGE_2"
      <4>1. y.channels[i].range = 2
        BY <1>1, <3>2, AiCodeOf DEF AiRangesOfCurrent, ch
      <4>2. AiNothingDisabled(ch) <=> ~ch.open_wire_alarm
        BY <2>3, <3>2 DEF AiNothingDisabled, AiOpenWireDisabled, AiUnderflowDisabled
      <4> QED
        BY <1>1, <2>2, <2>3, <2>6, <3>1, <4>1, <4>2 DEF ch
    <3>3. CASE ch.range = "RANGE_3"
      <4>1. y.channels[i].range = 3
        BY <1>1, <3>3, AiCodeOf DEF AiRangesOfCurrent, ch
      <4>2. AiNothingDisabled(ch) <=> ~ch.underflow_alarm
        BY <2>3, <2>6, <3>3 DEF AiNothingDisabled, AiOpenWireDisabled, AiUnderflowDisabled
      <4> QED
        BY <1>1, <2>2, <2>3, <2>6, <3>1, <4>1, <4>2 DEF ch
    <3> QED
      BY <3>1, <3>2, <3>3
  <2> QED
    BY <2>4, <2>5, <2>6
<1>5. ASSUME NEW i \in I, i % 2 = 0
      PROVE  y.channels[i].type = y.channels[i + 1].type
  <2>1. i + 1 \in I /\ c.channels[i + 1].type = c.channels[i].type
    BY <1>2, <1>5, EvenChannels DEF AiTypeOffered, AiPairs
  <2> QED
    BY <1>1, <2>1
<1>6. AiAccepted(y) <=>
        \A i \in I : c.channels[i].type = "TYPE_3" => AiNothingDisabled(c.channels[i])
  <2> DEFINE Alarms(i) == c.channels[i].type = "TYPE_3" => AiNothingDisabled(c.channels[i])
             Mind(ch) == (ch.range = 2 => ~ch.open_wire_alarm) /\ (ch.range = 3 => ~ch.underflow_alarm)
             Rest(ch) == /\ ch.type \in {1, 3} /\ ch.smooth \in 0..3
                         /\ {ch.open_wire_alarm, ch.overflow_alarm, ch.underflow_alarm} \subseteq BOOLEAN
                         /\ ch.range \in IF ch.type = 1 THEN {7, 8, 9} ELSE {2, 3}
  <2>1. \A i \in I : Rest(y.channels[i]) /\ (Mind(y.channels[i]) <=> Alarms(i))
    BY <1>4
  <2>2. AiAccepted(y) <=> \A i \in I : Rest(y.channels[i]) /\ Mind(y.channels[i])
    BY <1>1, <1>2, <1>3, <1>5 DEF AiAccepted
  <2> HIDE DEF Rest, Mind, Alarms
  <2>3. AiAccepted(y) <=> \A i \in I : Alarms(i)
    BY <2>1, <2>2
  <2> QED
    BY <2>3 DEF Alarms
<1> QED
  BY <1>2, <1>6 DEF y

LEMMA RtdCodeOf ==
  ASSUME NEW t \in Texts(RtdMapping.type)
  PROVE  LET code == UiToYaml(RtdMapping.type, t)
         IN /\ t = "TYPE_0" => code = 0
            /\ t \in ResistanceTypes => code \in 4..6
            /\ t \in ThermalTypes => code \in 7..9
<1> DEFINE m == RtdMapping.type
<1>1. \A i \in 1..7 : /\ m[i][1] = "TYPE_0" => m[i][2] = 0
                      /\ m[i][1] \in ResistanceTypes => m[i][2] \in 4..6
                      /\ m[i][1] \in ThermalTypes => m[i][2] \in 7..9
  BY DEF RtdMapping, ResistanceTypes, ThermalTypes
<1>2. DOMAIN m = 1..7 /\ DOMAIN m \in SUBSET Nat /\ t \in Texts(m)
  BY RtdTables
<1> HIDE DEF m
<1>3. PICK i \in 1..7 : m[i][1] = t /\ UiToYaml(m, t) = m[i][2]
  BY <1>2, UiToYamlFound
<1> QED
  BY <1>1, <1>3 DEF m

(* What a channel that was loaded may fail to keep.                        *)
RtdKeeps(ch) ==
  /\ RtdNothingDisabled(ch)
  /\ ch.type \in ThermalTypes => ch.temper_coeff \in TempCoeffs(ch.range)

LEMMA RtdIsTaken ==
  ASSUME NEW c, c.mlfb \in RtdMlfb, c \in RtdSlot(c.mlfb)
  PROVE  RtdAccepted(RtdToDevice(c)) <=> \A i \in DOMAIN c.channels : RtdKeeps(c.channels[i])
<1> DEFINE y == RtdToDevice(c)
           I == 0..(RtdChannels[c.mlfb] - 1)
<1>1. /\ y.mlfb = c.mlfb /\ DOMAIN y.channels = I /\ y.power_alarm = c.power_alarm
      /\ y.integ_time = UiToYaml(RtdMapping.integ_time, c.integ_time)
      /\ \A i \in I :
           /\ y.channels[i].type = UiToYaml(RtdMapping.type, c.channels[i].type)
           /\ y.channels[i].range = UiToYaml(RtdMapping.range[RangeScenario(c.channels[i].type)],
                                             c.channels[i].range)
           /\ y.channels[i].temper_coeff = UiToYaml(RtdMapping.temper_coeff, c.channels[i].temper_coeff)
           /\ y.channels[i].temper_unit = UiToYaml(RtdMapping.temper_unit, c.channels[i].temper_unit)
           /\ y.channels[i].smooth = UiToYaml(RtdMapping.smooth, c.channels[i].smooth)
           /\ y.channels[i].open_wire_alarm = c.channels[i].open_wire_alarm
           /\ y.channels[i].overflow_alarm = c.channels[i].overflow_alarm
           /\ y.channels[i].underflow_alarm = c.channels[i].underflow_alarm
  BY DEF RtdToDevice
<1> HIDE DEF y
<1>2. /\ c.integ_time \in Texts(RtdMapping.integ_time) /\ c.power_alarm \in BOOLEAN
      /\ DOMAIN c.channels = I /\ \A i \in I : c.channels[i] \in RtdChannel
  BY RtdChannelFacts DEF RtdSlot, RtdConf
<1>3. y.integ_time \in 0..3
  BY <1>1, <1>2, RtdConvertible, RtdTables, TextHasCode
<1>4. ASSUME NEW i \in I
      PROVE  RtdChannelAccepted(y.channels[i]) <=> RtdKeeps(c.channels[i])
  <2> DEFINE ch == c.channels[i]
             d == y.channels[i]
             table == RtdMapping.range[RangeScenario(ch.type)]
  <2>1. ch \in RtdChannel
    BY <1>2
  <2>2. /\ d.type = UiToYaml(RtdMapping.type, ch.type) /\ d.range = UiToYaml(table, ch.range)
        /\ d.temper_coeff = UiToYaml(RtdMapping.temper_coeff, ch.temper_coeff)
        /\ d.temper_unit = UiToYaml(RtdMapping.temper_unit, ch.temper_unit)
        /\ d.smooth = UiToYaml(RtdMapping.smooth, ch.smooth)
        /\ d.open_wire_alarm = ch.open_wire_alarm /\ d.overflow_alarm = ch.overflow_alarm
        /\ d.underflow_alarm = ch.underflow_alarm
    BY <1>1
  <2> HIDE DEF ch, d, table
  <2>3. /\ ch.type \in Texts(RtdMapping.type) /\ ch.smooth \in Texts(RtdMapping.smooth)
        /\ ch.temper_coeff \in Texts(RtdMapping.temper_coeff)
        /\ ch.temper_unit \in Texts(RtdMapping.temper_unit)
        /\ ch.range \in Texts(RtdRanges.deactivated)
        /\ {ch.open_wire_alarm, ch.overflow_alarm, ch.underflow_alarm} \subseteq BOOLEAN
    BY <2>1 DEF RtdChannel, RtdChannelType, RtdMapping
  <2>4. /\ d.smooth \in 0..3 /\ d.temper_unit \in 0..1
        /\ d.temper_coeff \in 0..3 \union {5} \union 7..13
        /\ {d.open_wire_alarm, d.overflow_alarm, d.underflow_alarm} \subseteq BOOLEAN
    <3>1. d.smooth \in 0..3 /\ d.temper_unit \in 0..1
      BY <2>2, <2>3, RtdConvertible, RtdTables, TextHasCode
    <3>2. d.temper_coeff \in 0..3 \union {5} \union 7..13
      BY <2>2, <2>3, RtdConvertible, CoeffTable, TextHasCode
    <3> QED
      BY <2>2, <2>3, <3>1, <3>2
  <2>5. CASE ch.type = "TYPE_0"
    <3>1. d.type = 0
      BY <2>2, <2>3, <2>5, RtdCodeOf
    <3>2. d.range \in RangesTaken \union {1}
      BY <2>2, <2>3, <2>5, RangeTable, DeactivatedConvertible, Deactivated, TextHasCode DEF table
    <3>3. RtdKeeps(ch) <=> ~d.open_wire_alarm /\ ~d.overflow_alarm /\ ~d.underflow_alarm
      BY <2>2, <2>5 DEF RtdKeeps, RtdNothingDisabled, RtdOffDisabled, RtdThermalDisabled, ThermalTypes
    <3>4. RtdChannelAccepted(d) <=> ~d.open_wire_alarm /\ ~d.overflow_alarm /\ ~d.underflow_alarm
      BY <2>4, <3>1, <3>2 DEF RtdChannelAccepted
    <3> QED
      BY <3>3, <3>4 DEF d, ch
  <2>6. CASE ch.type \in ResistanceTypes
    <3>1. d.type \in 4..6
      BY <2>2, <2>3, <2>6, RtdCodeOf
    <3>2. d.range \in 1..3
      <4>1. ch.range \in Texts(ResistanceRanges) /\ table = ResistanceRanges
        BY <2>1, <2>6, RangeTable DEF RtdChannel, table
      <4> QED
        BY <2>2, <4>1, RtdConvertible, RangeTables, TextHasCode
    <3>3. RtdKeeps(ch) <=> ~d.underflow_alarm
      BY <2>2, <2>6 DEF RtdKeeps, RtdNothingDisabled, RtdOffDisabled, RtdThermalDisabled,
                        ResistanceTypes, ThermalTypes
    <3>4. RtdChannelAccepted(d) <=> ~d.underflow_alarm
      BY <2>4, <3>1, <3>2 DEF RtdChannelAccepted
    <3> QED
      BY <3>3, <3>4 DEF d, ch
  <2>7. CASE ch.type \in ThermalTypes
    <3>1. d.type \in 7..9
      BY <2>2, <2>3, <2>7, RtdCodeOf
    <3>2. ch.range \in Texts(ThermalRanges) /\ table = ThermalRanges
      BY <2>1, <2>7, RangeTable DEF RtdChannel, table
    <3>3. d.range \in RangesTaken
      BY <2>2, <3>2, RtdConvertible, RangeTables, TextHasCode
    <3>4. d.temper_coeff \in CoeffsTaken(d.range) <=> ch.temper_coeff \in TempCoeffs(ch.range)
      <4>1. PICK k \in 1..16 : ThermalRanges[k][1] = ch.range /\ d.range = ThermalRanges[k][2]
        BY <2>2, <3>2, RangeTables, UiToYamlFound
      <4>2. PICK j \in 1..12 : /\ RtdMapping.temper_coeff[j][1] = ch.temper_coeff
                               /\ d.temper_coeff = RtdMapping.temper_coeff[j][2]
        BY <2>2, <2>3, CoeffTable, UiToYamlFound
      <4> QED
        BY <4>1, <4>2, CoeffsAgree
    <3>5. RtdNothingDisabled(ch)
      BY <2>7 DEF RtdNothingDisabled, RtdOffDisabled, RtdThermalDisabled, ResistanceTypes, ThermalTypes
    <3>6. RtdChannelAccepted(d) <=> d.temper_coeff \in CoeffsTaken(d.range)
      BY <2>4, <3>1, <3>3 DEF RtdChannelAccepted
    <3> QED
      BY <2>7, <3>4, <3>5, <3>6 DEF RtdKeeps, d, ch
  <2> QED
    BY <2>3, <2>5, <2>6, <2>7, RtdTables
<1>5. RtdAccepted(y) <=> \A i \in I : RtdChannelAccepted(y.channels[i])
  BY <1>1, <1>2, <1>3 DEF RtdAccepted
<1>6. RtdAccepted(y) <=> \A i \in I : RtdKeeps(c.channels[i])
  BY <1>4, <1>5
<1> QED
  BY <1>2, <1>6 DEF y

LEMMA DigitalIsTaken ==
  ASSUME NEW c
  PROVE  /\ c \in Sm1221Conf => DiAccepted(Sm1221ToDevice(c))
         /\ c.mlfb \in Sm1223Mlfb /\ c \in Sm1223Conf(c.mlfb) => Sm1223Accepted(Sm1223ToDevice(c))
<1>1. ASSUME c \in Sm1221Conf
      PROVE  DiAccepted(Sm1221ToDevice(c))
  <2> DEFINE y == Sm1221ToDevice(c)
  <2>1. /\ y.mlfb = Sm1221Mlfb /\ DOMAIN y.di = DiGroups(Sm1221Mlfb)
        /\ \A g \in DOMAIN y.di : y.di[g] = UiToYaml(TimeMapping, c.di[g])
    BY <1>1 DEF Sm1221ToDevice, Sm1221Conf
  <2> HIDE DEF y
  <2>2. \A g \in DOMAIN y.di : y.di[g] \in Codes(TimeMapping)
    BY <1>1, <2>1, DigitalConvertible, TextHasCode DEF Sm1221Conf
  <2>3. DiAccepted(y)
    BY <2>1, <2>2 DEF DiAccepted
  <2> QED
    BY <2>3 DEF y
<1>2. ASSUME c.mlfb \in Sm1223Mlfb, c \in Sm1223Conf(c.mlfb)
      PROVE  Sm1223Accepted(Sm1223ToDevice(c))
  <2> DEFINE y == Sm1223ToDevice(c)
             I == 0..(DqChannels[c.mlfb] - 1)
  <2>1. /\ y.mlfb = c.mlfb /\ DOMAIN y.di = DiGroups(c.mlfb) /\ DOMAIN y.dq.substitute = I
        /\ \A g \in DOMAIN y.di : y.di[g] = UiToYaml(TimeMapping, c.di[g])
        /\ y.dq.behavior_with_OD = UiToYaml(BehaviorMapping, c.dq.behavior_with_OD)
        /\ \A i \in I : y.dq.substitute[i] = UiToYaml(SubstituteMapping, c.dq.substitute[i])
    BY DEF Sm1223ToDevice
  <2> HIDE DEF y
  <2>2. \A g \in DOMAIN y.di : y.di[g] \in Codes(TimeMapping)
    BY <1>2, <2>1, DigitalConvertible, TextHasCode DEF Sm1223Conf
  <2>3. y.dq.behavior_with_OD \in {2, 3}
    BY <1>2, <2>1, DigitalConvertible, DigitalTables, TextHasCode DEF Sm1223Conf
  <2>4. \A i \in I : y.dq.substitute[i] \in {0, 1}
    <3>1. \A i \in I : c.dq.substitute[i] \in Texts(SubstituteMapping)
      BY <1>2, SubstituteBoth DEF Sm1223Conf
    <3> QED
      BY <2>1, <3>1, DigitalConvertible, DigitalTables, TextHasCode
  <2>5. Sm1223Accepted(y)
    BY <2>1, <2>2, <2>3, <2>4 DEF Sm1223Accepted, DiAccepted
  <2> QED
    BY <2>5 DEF y
<1> QED
  BY <1>1, <1>2

(* The variants that the page leaves out for a connection type are those   *)
(* that the schema does.                                                   *)
LEMMA VariantsAgree ==
  ASSUME NEW v \in EmVersions, NEW t \in Texts(ConTypeMapping), NEW variant \in AllVariants
  PROVE  UiToYaml(VariantMapping, variant) \in
           VariantsTaken(UiToYaml(VersionMapping, v), UiToYaml(ConTypeMapping, t)) <=>
         variant \in VariantsOf(v, t)
<1> DEFINE code == UiToYaml(VariantMapping, variant)
           vcode == UiToYaml(VersionMapping, v)
           tcode == UiToYaml(ConTypeMapping, t)
<1>1. variant \in VariantsOf(v, t) <=>
        /\ v = "MOD_VER_32" => variant # "E3"
        /\ t = "CON_TYPE_0B" => variant \notin {"F7", "F6", "F5", "9D", "9C", "9B", "9A"}
        /\ t = "CON_TYPE_10" => variant \notin {"F6", "9B", "9A"}
  BY DEF VariantsOf, EmVersions
<1>2. /\ \A k \in 1..22 : /\ VariantMapping[k][2] = 227 <=> VariantMapping[k][1] = "E3"
                          /\ VariantMapping[k][2] \in {247, 246, 245, 157, 156, 155, 154} <=>
                               VariantMapping[k][1] \in {"F7", "F6", "F5", "9D", "9C", "9B", "9A"}
                          /\ VariantMapping[k][2] \in {246, 155, 154} <=>
                               VariantMapping[k][1] \in {"F6", "9B", "9A"}
  BY DEF VariantMapping
<1>3. PICK k \in 1..22 : VariantMapping[k][1] = variant /\ code = VariantMapping[k][2]
  BY <1>1, VariantTable, UiToYamlFound DEF AllVariants
<1>4. code \in 154..159 \union 224..227 \union {239, 240} \union 245..254
  <2>1. code \in Codes(VariantMapping)
    BY <1>3, VariantTable DEF Codes
  <2>2. Codes(VariantMapping) = 154..159 \union 224..227 \union {239, 240} \union 245..254
    BY DEF VariantMapping, Codes
  <2> QED
    BY <2>1, <2>2
<1>5. vcode \in {32, 112} /\ (vcode = 32 <=> v = "MOD_VER_32")
  <2>1. \A j \in 1..6 : /\ VersionMapping[j][1] = "MOD_VER_32" => VersionMapping[j][2] = 32
                        /\ VersionMapping[j][1] = "MOD_VER_112" => VersionMapping[j][2] = 112
    BY DEF VersionMapping
  <2>2. PICK j \in 1..6 : VersionMapping[j][1] = v /\ vcode = VersionMapping[j][2]
    BY EmTables, UiToYamlFound
  <2> HIDE DEF vcode
  <2> QED
    BY <2>1, <2>2 DEF EmVersions
<1>6. (tcode = 11 <=> t = "CON_TYPE_0B") /\ (tcode = 16 <=> t = "CON_TYPE_10")
  <2>1. \A j \in 1..6 : /\ ConTypeMapping[j][2] = 11 <=> ConTypeMapping[j][1] = "CON_TYPE_0B"
                        /\ ConTypeMapping[j][2] = 16 <=> ConTypeMapping[j][1] = "CON_TYPE_10"
    BY DEF ConTypeMapping
  <2>2. PICK j \in 1..6 : ConTypeMapping[j][1] = t /\ tcode = ConTypeMapping[j][2]
    BY EmTables, UiToYamlFound
  <2> HIDE DEF tcode
  <2> QED
    BY <2>1, <2>2
<1> HIDE DEF code, vcode, tcode
<1>7. variant \in VariantsOf(v, t) <=>
        /\ vcode # 112 => code # 227
        /\ tcode = 11 => code \notin {247, 246, 245, 157, 156, 155, 154}
        /\ tcode = 16 => code \notin {246, 155, 154}
  BY <1>1, <1>2, <1>3, <1>5, <1>6
<1>8. code \in VariantsTaken(vcode, tcode) <=>
        /\ vcode # 112 => code # 227
        /\ tcode = 11 => code \notin {247, 246, 245, 157, 156, 155, 154}
        /\ tcode = 16 => code \notin {246, 155, 154}
  BY <1>4 DEF VariantsTaken
<1>9. code \in VariantsTaken(vcode, tcode) <=> variant \in VariantsOf(v, t)
  BY <1>7, <1>8
<1> QED
  BY <1>9 DEF code, vcode, tcode

LEMMA EmIsTaken ==
  ASSUME NEW c \in EmConf, EmBase(c), EmInBounds(c)
  PROVE  EmAccepted(EmToDevice(c)) <=>
           /\ \A e \in SliderEntries : EmValue(c, e[1], e[2]) # "frac"
           /\ c.data_variant \in VariantsOf(c.module_version, c.con_type)
<1> DEFINE y == EmToDevice(c)
<1>1. /\ y.module_version = UiToYaml(VersionMapping, c.module_version)
      /\ y.con_type = UiToYaml(ConTypeMapping, c.con_type)
      /\ y.range = UiToYaml(EmRangeMapping, c.range)
      /\ y.line_freq = UiToYaml(LineFreqMapping, c.line_freq)
      /\ y.period_meters = UiToYaml(PeriodMapping, c.period_meters)
      /\ y.data_variant = UiToYaml(VariantMapping, c.data_variant)
      /\ y.meter_gate = c.meter_gate /\ y.min_max_cal = c.min_max_cal
      /\ y.diag_line_vol = c.diag_line_vol /\ y.line_vol_tol = c.line_vol_tol
      /\ DOMAIN y.channels = EmChannels
      /\ \A i \in EmChannels :
           /\ y.channels[i].check = c.channels[i].check /\ y.channels[i].slider = c.channels[i].slider
           /\ y.channels[i].ct_second_cur = UiToYaml(SecondCurMapping, c.channels[i].ct_second_cur)
  BY DEF EmToDevice
<1> HIDE DEF y
<1>2. y.module_version \in {32, 112}
  <2>1. \A j \in 1..6 : VersionMapping[j][1] \in EmVersions => VersionMapping[j][2] \in {32, 112}
    BY DEF VersionMapping, EmVersions
  <2>2. c.module_version \in EmVersions /\ EmVersions \subseteq Texts(VersionMapping)
    BY EmTables DEF EmBase
  <2>3. PICK j \in 1..6 : /\ VersionMapping[j][1] = c.module_version
                          /\ UiToYaml(VersionMapping, c.module_version) = VersionMapping[j][2]
    BY <2>2, EmTables, UiToYamlFound
  <2> QED
    BY <1>1, <2>1, <2>2, <2>3
<1>3. /\ y.con_type \in {0, 11, 12, 14, 15, 16} /\ y.range \in 1..12
      /\ y.line_freq \in {1, 2} /\ y.period_meters \in 0..5
  BY <1>1, EmConvertible, EmTables, TextHasCode DEF EmConf
<1>4. y.data_variant \in VariantsTaken(y.module_version, y.con_type) <=>
        c.data_variant \in VariantsOf(c.module_version, c.con_type)
  <2>1. /\ c.module_version \in EmVersions /\ c.con_type \in Texts(ConTypeMapping)
        /\ c.data_variant \in AllVariants
    BY DEF EmBase, EmConf
  <2> QED
    BY <1>1, <2>1, VariantsAgree
<1>5. ASSUME NEW f, NEW v, NumberTaken(f, v)
      PROVE  SliderTaken(f, v) <=> v # "frac"
  BY <1>5 DEF NumberTaken, SliderTaken
<1>6. SliderTaken("line_vol_tol", y.line_vol_tol) <=> EmValue(c, "line_vol_tol", 0) # "frac"
  BY <1>1, <1>5 DEF EmInBounds, EmValue
<1>7. ASSUME NEW i \in EmChannels
      PROVE  /\ y.channels[i].check \in [EmChecks -> BOOLEAN]
             /\ y.channels[i].slider \in [EmSliders -> SliderValues]
             /\ y.channels[i].ct_second_cur \in IF y.con_type = 15 THEN {0} ELSE {0, 2}
             /\ \A f \in EmSliders : SliderTaken(f, y.channels[i].slider[f]) <=>
                                       EmValue(c, f, i) # "frac"
  <2> DEFINE ch == c.channels[i]
  <2>1. ch \in EmChannelType
    BY EmFacts
  <2>2. ch.check \in [EmChecks -> BOOLEAN] /\ ch.slider \in [EmSliders -> SliderValues]
    BY <2>1 DEF EmChannelType
  <2>3. ASSUME NEW f \in EmSliders
        PROVE  SliderTaken(f, ch.slider[f]) <=> EmValue(c, f, i) # "frac"
    <3>1. f # "line_vol_tol"
      BY EmAssumption DEF EmCoupledSliders
    <3>2. EmValue(c, f, i) = ch.slider[f]
      BY <3>1 DEF EmValue
    <3> QED
      BY <1>5, <3>2 DEF EmInBounds
  <2>4. UiToYaml(SecondCurMapping, ch.ct_second_cur) \in {0, 2}
    BY <2>1, EmConvertible, EmTables, TextHasCode DEF EmChannelType, AllSecondCurs
  <2>5. y.con_type = 15 => c.con_type = "CON_TYPE_0F"
    <3>1. \A j \in 1..6 : ConTypeMapping[j][2] = 15 => ConTypeMapping[j][1] = "CON_TYPE_0F"
      BY DEF ConTypeMapping
    <3>2. c.con_type \in Texts(ConTypeMapping)
      BY DEF EmConf
    <3>3. PICK j \in 1..6 : /\ ConTypeMapping[j][1] = c.con_type
                            /\ UiToYaml(ConTypeMapping, c.con_type) = ConTypeMapping[j][2]
      BY <3>2, EmTables, UiToYamlFound
    <3> QED
      BY <1>1, <3>1, <3>3
  <2>6. UiToYaml(SecondCurMapping, "CT_SND_CUR_0") = 0
    <3>1. \A j \in 1..2 : SecondCurMapping[j][1] = "CT_SND_CUR_0" => SecondCurMapping[j][2] = 0
      BY DEF SecondCurMapping
    <3>2. PICK j \in 1..2 : /\ SecondCurMapping[j][1] = "CT_SND_CUR_0"
                            /\ UiToYaml(SecondCurMapping, "CT_SND_CUR_0") = SecondCurMapping[j][2]
      BY EmTables, UiToYamlFound DEF AllSecondCurs
    <3> QED
      BY <3>1, <3>2
  <2>7. y.con_type = 15 => UiToYaml(SecondCurMapping, ch.ct_second_cur) = 0
    BY <2>5, <2>6 DEF EmBase
  <2> QED
    BY <1>1, <2>2, <2>3, <2>4, <2>7
<1>8. {y.meter_gate, y.min_max_cal, y.diag_line_vol} \subseteq BOOLEAN
  BY <1>1 DEF EmConf
<1>9. EmAccepted(y) <=>
        /\ SliderTaken("line_vol_tol", y.line_vol_tol)
        /\ y.data_variant \in VariantsTaken(y.module_version, y.con_type)
        /\ \A i \in EmChannels, f \in EmSliders : SliderTaken(f, y.channels[i].slider[f])
  BY <1>1, <1>2, <1>3, <1>7, <1>8 DEF EmAccepted
<1>10. (\A e \in SliderEntries : EmValue(c, e[1], e[2]) # "frac") <=>
         /\ EmValue(c, "line_vol_tol", 0) # "frac"
         /\ \A i \in EmChannels, f \in EmSliders : EmValue(c, f, i) # "frac"
  <2>1. ASSUME EmValue(c, "line_vol_tol", 0) # "frac",
               \A i \in EmChannels, f \in EmSliders : EmValue(c, f, i) # "frac",
               NEW e \in SliderEntries
        PROVE  EmValue(c, e[1], e[2]) # "frac"
    <3>1. e = <<"line_vol_tol", 0>> \/ e \in EmSliders \X EmChannels
      BY DEF SliderEntries
    <3> QED
      BY <2>1, <3>1
  <2>2. /\ <<"line_vol_tol", 0>> \in SliderEntries
        /\ \A i \in EmChannels, f \in EmSliders : <<f, i>> \in SliderEntries
    BY DEF SliderEntries
  <2>3. ASSUME \A e \in SliderEntries : EmValue(c, e[1], e[2]) # "frac"
        PROVE  /\ EmValue(c, "line_vol_tol", 0) # "frac"
               /\ \A i \in EmChannels, f \in EmSliders : EmValue(c, f, i) # "frac"
    <3>1. EmValue(c, "line_vol_tol", 0) # "frac"
      BY <2>2, <2>3
    <3>2. ASSUME NEW i \in EmChannels, NEW f \in EmSliders
          PROVE  EmValue(c, f, i) # "frac"
      BY <2>2, <2>3
    <3> QED
      BY <3>1, <3>2
  <2> QED
    BY <2>1, <2>3
<1>11. EmAccepted(y) <=>
         /\ \A e \in SliderEntries : EmValue(c, e[1], e[2]) # "frac"
         /\ c.data_variant \in VariantsOf(c.module_version, c.con_type)
  BY <1>4, <1>6, <1>7, <1>9, <1>10
<1> QED
  BY <1>11 DEF y

(* A configuration that keeps the rules of the pages has nothing left over.*)
LEMMA RulesLeaveNothing ==
  ASSUME NEW c, SlotTyped(c), SlotRules(c)
  PROVE  ~Leftover(c)
<1>1. CASE c.mlfb \in AiMlfb
  BY <1>1, Families DEF Leftover, SlotRules, AiRules
<1>2. CASE c.mlfb \in RtdMlfb
  <2>1. ASSUME NEW i \in DOMAIN c.channels
        PROVE  RtdKeeps(c.channels[i])
    <3> DEFINE ch == c.channels[i]
    <3>1. ch \in RtdChannel /\ RtdCoeffs(ch) /\ RtdNothingDisabled(ch)
      BY <1>2, <2>1, RtdChannelFacts DEF SlotTyped, SlotRules, RtdRules, RtdAllCoeffs, RtdNothing
    <3> HIDE DEF ch
    <3>2. ch.type \in ThermalTypes => ch.range \in Texts(ThermalRanges)
      BY <3>1 DEF RtdChannel
    <3> QED
      BY <3>1, <3>2 DEF RtdKeeps, RtdCoeffs, ch
  <2> QED
    BY <1>2, <2>1, Families DEF Leftover, RtdKeeps
<1>3. CASE c.mlfb = EmMlfb
  BY <1>3, Families DEF Leftover, SlotRules, EmRules, EmOffers
<1> QED
  BY <1>1, <1>2, <1>3 DEF Leftover

(* For any module and any edits, after any configuration that the server   *)
(* had taken: what is deployed when nothing is being typed is refused when *)
(* a fraction was typed or something was left behind by what was loaded,   *)
(* and for no other reason; new modules leave nothing behind.              *)
THEOREM RefusalHasCause == Spec => []RefusedOnlyForCause
<1>1. PanelInv => RefusedOnlyForCause
  <2> SUFFICES ASSUME PanelInv, loaded # "bad", typing = {}
               PROVE  /\ Accepted(ToDevice(conf)) <=> ~Fraction(conf) /\ ~Leftover(conf)
                      /\ loaded # "wild" => ~Leftover(conf)
    BY DEF RefusedOnlyForCause
  <2> USE DEF PanelInv
  <2>1. /\ SlotTyped(conf) /\ Numbers(conf, {})
        /\ loaded # "wild" => SlotRules(conf)
    OBVIOUS
  <2>2. loaded # "wild" => ~Leftover(conf)
    BY <2>1, RulesLeaveNothing
  <2>3. Accepted(ToDevice(conf)) <=> ~Fraction(conf) /\ ~Leftover(conf)
    <3>1. CASE conf.mlfb \in AiMlfb
      <4>1. ToDevice(conf) = AiToDevice(conf) /\ AiToDevice(conf).mlfb = conf.mlfb
        BY <3>1, Families DEF ToDevice, AiToDevice
      <4>2. Accepted(ToDevice(conf)) <=> AiAccepted(AiToDevice(conf))
        BY <3>1, <4>1, Families DEF Accepted
      <4>3. ~Fraction(conf) /\ (~Leftover(conf) <=>
              \A i \in DOMAIN conf.channels :
                conf.channels[i].type = "TYPE_3" => AiNothingDisabled(conf.channels[i]))
        BY <3>1, Families DEF Fraction, Leftover
      <4> QED
        BY <2>1, <3>1, <4>2, <4>3, AiIsTaken DEF SlotTyped
    <3>2. CASE conf.mlfb \in RtdMlfb
      <4>1. ToDevice(conf) = RtdToDevice(conf) /\ RtdToDevice(conf).mlfb = conf.mlfb
        BY <3>2, Families DEF ToDevice, RtdToDevice
      <4>2. Accepted(ToDevice(conf)) <=> RtdAccepted(RtdToDevice(conf))
        BY <3>2, <4>1, Families DEF Accepted
      <4>3. ~Fraction(conf) /\ (~Leftover(conf) <=>
              \A i \in DOMAIN conf.channels : RtdKeeps(conf.channels[i]))
        BY <3>2, Families DEF Fraction, Leftover, RtdKeeps
      <4> QED
        BY <2>1, <3>2, <4>2, <4>3, RtdIsTaken DEF SlotTyped
    <3>3. CASE conf.mlfb = EmMlfb
      <4>1. ToDevice(conf) = EmToDevice(conf) /\ EmToDevice(conf).mlfb = conf.mlfb
        BY <3>3, Families DEF ToDevice, EmToDevice
      <4>2. Accepted(ToDevice(conf)) <=> EmAccepted(EmToDevice(conf))
        BY <3>3, <4>1, Families DEF Accepted
      <4>3. /\ ~Fraction(conf) <=> \A e \in SliderEntries : EmValue(conf, e[1], e[2]) # "frac"
            /\ ~Leftover(conf) <=>
                 conf.data_variant \in VariantsOf(conf.module_version, conf.con_type)
        BY <3>3, Families DEF Fraction, Leftover
      <4>4. conf \in EmConf /\ EmBase(conf) /\ EmInBounds(conf)
        BY <2>1, <3>3, NumbersInBounds DEF SlotTyped
      <4> QED
        BY <4>2, <4>3, <4>4, EmIsTaken
    <3>4. CASE conf.mlfb \notin AiMlfb \union RtdMlfb \union {EmMlfb}
      <4>1. ~Fraction(conf) /\ ~Leftover(conf)
        BY <3>4 DEF Fraction, Leftover
      <4>2. Accepted(ToDevice(conf))
        <5>1. CASE conf.mlfb \in Sm1223Mlfb
          <6>1. ToDevice(conf) = Sm1223ToDevice(conf) /\ Sm1223ToDevice(conf).mlfb = conf.mlfb
            BY <5>1, Families DEF ToDevice, Sm1223ToDevice
          <6>2. Sm1223Accepted(Sm1223ToDevice(conf))
            BY <2>1, <5>1, DigitalIsTaken DEF SlotTyped
          <6> QED
            BY <5>1, <6>1, <6>2, Families DEF Accepted
        <5>2. CASE conf.mlfb = Sm1221Mlfb
          <6>1. ToDevice(conf) = Sm1221ToDevice(conf) /\ Sm1221ToDevice(conf).mlfb = conf.mlfb
            BY <5>2, Families DEF ToDevice, Sm1221ToDevice
          <6>2. DiAccepted(Sm1221ToDevice(conf))
            BY <2>1, <5>2, DigitalIsTaken DEF SlotTyped
          <6> QED
            BY <5>2, <6>1, <6>2, Families DEF Accepted
        <5>3. CASE conf.mlfb \notin ModuleTypes \ {SmSensMlfb}
          <6>1. ToDevice(conf).mlfb \in {SmSensMlfb, "NA"}
            BY <2>1, <5>3, Families DEF ToDevice, ModuleTypes, SmSensToDevice, SlotTyped,
                                        SmSensDefault, None
          <6>2. {SmSensMlfb, "NA"} \intersect (ModuleTypes \ {SmSensMlfb}) = {}
            BY DEF ModuleTypes, AiMlfb, RtdMlfb, Sm1223Mlfb, Sm1221Mlfb, SmSensMlfb, EmMlfb
          <6> QED
            BY <6>1, <6>2, Families DEF Accepted, ModuleTypes
        <5> QED
          BY <3>4, <5>1, <5>2, <5>3 DEF ModuleTypes
      <4> QED
        BY <4>1, <4>2
    <3> QED
      BY <3>1, <3>2, <3>3, <3>4
  <2> QED
    BY <2>2, <2>3
<1> QED
  BY <1>1, PagesKeepTheirRules, PTL
=============================================================================
