--------------------------- MODULE SlotPanelProofs ---------------------------
(* Type correctness and the rules between the entries of a slot, for any   *)
(* number of channels and any configurations that are loaded.              *)
EXTENDS SlotPanel, SequenceTheorems, WellFoundedInduction, TLAPS

LEMMA FirstIn ==
  ASSUME NEW S \in SUBSET Nat, S # {}
  PROVE  First(S) \in S /\ \A i \in S : First(S) <= i
<1> DEFINE R == OpToRel(<, Nat)
<1>1. PICK x \in S : \A y \in S : ~(<<y, x>> \in R)
  <2>1. IsWellFoundedOn(R, Nat)
    BY NatLessThanWellFounded
  <2> HIDE DEF R
  <2> QED
    BY <2>1, WFMin
<1>2. \A y \in S : x <= y
  <2> SUFFICES ASSUME NEW y \in S PROVE x <= y
    OBVIOUS
  <2>1. ~(y < x)
    BY <1>1 DEF OpToRel
  <2> QED
    BY <2>1
<1> QED
  BY <1>2 DEF First

LEMMA YamlToUiFound ==
  ASSUME NEW m, DOMAIN m \in SUBSET Nat, NEW code \in Codes(m)
  PROVE  \E i \in DOMAIN m : m[i][2] = code /\ YamlToUi(m, code) = m[i][1]
<1> DEFINE hit == {i \in DOMAIN m : m[i][2] = code}
<1>1. hit \in SUBSET Nat /\ hit # {}
  BY DEF Codes
<1>2. First(hit) \in hit
  <2> HIDE DEF hit
  <2> QED
    BY <1>1, FirstIn
<1> QED
  BY <1>1, <1>2 DEF YamlToUi

LEMMA YamlToUiTyped ==
  ASSUME NEW m, DOMAIN m \in SUBSET Nat, NEW code \in Codes(m)
  PROVE  YamlToUi(m, code) \in Texts(m)
BY YamlToUiFound DEF Texts

LEMMA AiTables ==
  /\ DOMAIN AiMapping.type = 1..2 /\ Codes(AiMapping.type) = {1, 3}
  /\ Texts(AiMapping.type) = {"TYPE_1", "TYPE_3"}
  /\ DOMAIN AiMapping.range = 1..5 /\ Codes(AiMapping.range) = {2, 3, 7, 8, 9}
  /\ Texts(AiMapping.range) = AiRangesOfCurrent \union AiRangesOfVoltage
  /\ DOMAIN AiMapping.integ_time = 1..4 /\ Codes(AiMapping.integ_time) = 0..3
  /\ DOMAIN AiMapping.smooth = 1..4 /\ Codes(AiMapping.smooth) = 0..3
BY DEF AiMapping, Codes, Texts, AiRangesOfCurrent, AiRangesOfVoltage

LEMMA RtdTables ==
  /\ DOMAIN RtdMapping.type = 1..7 /\ Codes(RtdMapping.type) = {0} \union 4..9
  /\ Texts(RtdMapping.type) = {"TYPE_0"} \union ResistanceTypes \union ThermalTypes
  /\ DOMAIN RtdMapping.integ_time = 1..4 /\ Codes(RtdMapping.integ_time) = 0..3
  /\ DOMAIN RtdMapping.smooth = 1..4 /\ Codes(RtdMapping.smooth) = 0..3
  /\ Texts(RtdMapping.integ_time) = Texts(AiMapping.integ_time)
  /\ Texts(RtdMapping.smooth) = Texts(AiMapping.smooth)
  /\ DOMAIN RtdMapping.temper_unit = 1..2 /\ Codes(RtdMapping.temper_unit) = 0..1
<1>1. /\ DOMAIN RtdMapping.type = 1..7 /\ Codes(RtdMapping.type) = {0} \union 4..9
      /\ Texts(RtdMapping.type) = {"TYPE_0"} \union ResistanceTypes \union ThermalTypes
  BY DEF RtdMapping, Codes, Texts, ResistanceTypes, ThermalTypes
<1>2. /\ DOMAIN RtdMapping.integ_time = 1..4 /\ Codes(RtdMapping.integ_time) = 0..3
      /\ DOMAIN RtdMapping.smooth = 1..4 /\ Codes(RtdMapping.smooth) = 0..3
  BY DEF RtdMapping, Codes
<1>3. /\ Texts(RtdMapping.integ_time) = Texts(AiMapping.integ_time)
      /\ Texts(RtdMapping.smooth) = Texts(AiMapping.smooth)
  BY DEF RtdMapping, AiMapping
<1>4. DOMAIN RtdMapping.temper_unit = 1..2 /\ Codes(RtdMapping.temper_unit) = 0..1
  BY DEF RtdMapping, Codes
<1> QED
  BY <1>1, <1>2, <1>3, <1>4

LEMMA CoeffTable ==
  /\ DOMAIN RtdMapping.temper_coeff = 1..12
  /\ Codes(RtdMapping.temper_coeff) = 0..3 \union {5} \union 7..13
BY DEF RtdMapping, Codes

LEMMA RangeTables ==
  /\ DOMAIN ResistanceRanges = 1..3 /\ Codes(ResistanceRanges) = 1..3
  /\ DOMAIN ThermalRanges = 1..16 /\ Codes(ThermalRanges) = RangesTaken
  /\ "Resistance_RANGE_1" \in Texts(ResistanceRanges)
  /\ "Thermal_RANGE_0" \in Texts(ThermalRanges)
<1>1. DOMAIN ResistanceRanges = 1..3 /\ Codes(ResistanceRanges) = 1..3
  BY DEF ResistanceRanges, Codes
<1>2. DOMAIN ThermalRanges = 1..16 /\ Codes(ThermalRanges) = RangesTaken
  BY DEF ThermalRanges, Codes, RangesTaken
<1>3. "Resistance_RANGE_1" \in Texts(ResistanceRanges)
  BY DEF ResistanceRanges, Texts
<1>4. "Thermal_RANGE_0" \in Texts(ThermalRanges)
  BY DEF ThermalRanges, Texts
<1> QED
  BY <1>1, <1>2, <1>3, <1>4

LEMMA Deactivated ==
  /\ DOMAIN RtdRanges.deactivated = 1..19
  /\ Codes(RtdRanges.deactivated) = RangesTaken \union {1}
  /\ Texts(RtdRanges.deactivated) = Texts(ResistanceRanges) \union Texts(ThermalRanges)
  /\ \A i \in 1..3 : RtdRanges.deactivated[i] = ResistanceRanges[i]
  /\ \A i \in 1..16 : RtdRanges.deactivated[i + 3] = ThermalRanges[i]
<1> DEFINE d == ResistanceRanges \o ThermalRanges
           S == {ResistanceRanges[i] : i \in 1..3} \union {ThermalRanges[i] : i \in 1..16}
<1>1. ResistanceRanges \in Seq(S) /\ Len(ResistanceRanges) = 3
  BY DEF ResistanceRanges
<1>2. ThermalRanges \in Seq(S) /\ Len(ThermalRanges) = 16
  BY DEF ThermalRanges
<1>3. /\ DOMAIN d = 1..19
      /\ \A i \in 1..3 : d[i] = ResistanceRanges[i]
      /\ \A i \in 1..16 : d[i + 3] = ThermalRanges[i]
  <2> HIDE DEF S
  <2>1. /\ d \in Seq(S) /\ Len(d) = Len(ResistanceRanges) + Len(ThermalRanges)
        /\ \A i \in 1..Len(ResistanceRanges) + Len(ThermalRanges) :
             d[i] = IF i <= Len(ResistanceRanges) THEN ResistanceRanges[i]
                    ELSE ThermalRanges[i - Len(ResistanceRanges)]
    BY <1>1, <1>2, ConcatProperties
  <2> HIDE DEF d
  <2>2. Len(d) = 19 /\ DOMAIN d = 1..19
    BY <1>1, <1>2, <2>1
  <2>3. \A i \in 1..3 : d[i] = ResistanceRanges[i]
    BY <1>1, <1>2, <2>1
  <2>4. \A i \in 1..16 : d[i + 3] = ThermalRanges[i]
    <3> TAKE i \in 1..16
    <3>1. i + 3 \in 1..19 /\ ~(i + 3 <= 3) /\ (i + 3) - 3 = i
      OBVIOUS
    <3>2. \A j \in 1..3 + 16 : ~(j <= 3) => d[j] = ThermalRanges[j - 3]
      <4>1. \A j \in 1..Len(ResistanceRanges) + Len(ThermalRanges) :
              ~(j <= Len(ResistanceRanges)) => d[j] = ThermalRanges[j - Len(ResistanceRanges)]
        BY <2>1
      <4>2. Len(ResistanceRanges) = 3 /\ Len(ThermalRanges) = 16
        BY <1>1, <1>2
      <4> QED
        BY <4>1, <4>2
    <3>3. d[i + 3] = ThermalRanges[(i + 3) - 3]
      BY <3>1, <3>2
    <3> QED
      BY <3>1, <3>3
  <2> QED
    BY <2>2, <2>3, <2>4
<1>4. \A i \in 1..19 : i \in 1..3 \/ (i - 3 \in 1..16 /\ i = (i - 3) + 3)
  OBVIOUS
<1>5. RtdRanges.deactivated = d
  BY DEF RtdRanges
<1> HIDE DEF d
<1>6. Codes(d) = Codes(ResistanceRanges) \union Codes(ThermalRanges)
  BY <1>1, <1>3, <1>4, RangeTables DEF Codes
<1>7. Texts(d) = Texts(ResistanceRanges) \union Texts(ThermalRanges)
  BY <1>1, <1>3, <1>4, RangeTables DEF Texts
<1>8. Codes(ResistanceRanges) \union Codes(ThermalRanges) = RangesTaken \union {1}
  BY RangeTables DEF RangesTaken
<1> QED
  BY <1>3, <1>5, <1>6, <1>7, <1>8

LEMMA RangesApart == Texts(ResistanceRanges) \intersect Texts(ThermalRanges) = {}
<1>1. \A i \in 1..3, j \in 1..16 : ResistanceRanges[i][1] # ThermalRanges[j][1]
  BY DEF ResistanceRanges, ThermalRanges
<1> QED
  BY <1>1, RangeTables DEF Texts

LEMMA ThermalTexts ==
  Texts(ThermalRanges) =
    {"Thermal_RANGE_0", "Thermal_RANGE_2", "Thermal_RANGE_3", "Thermal_RANGE_4",
     "Thermal_RANGE_5", "Thermal_RANGE_6", "Thermal_RANGE_11", "Thermal_RANGE_12",
     "Thermal_RANGE_15", "Thermal_RANGE_16", "Thermal_RANGE_18", "Thermal_RANGE_20",
     "Thermal_RANGE_22", "Thermal_RANGE_24", "Thermal_RANGE_26", "Thermal_RANGE_28"}
BY DEF ThermalRanges, Texts

(* Every coefficient that a range offers has a code, and the default of a  *)
(* range is among those that it offers.                                    *)
LEMMA CoeffsOffered ==
  ASSUME NEW r \in Texts(ThermalRanges)
  PROVE  TempCoeffs(r) \subseteq Texts(RtdMapping.temper_coeff) /\ TempCoeffDefault(r) \in TempCoeffs(r)
<1>1. Texts(RtdMapping.temper_coeff) =
        {"TEMP_COEFF_0", "TEMP_COEFF_1", "TEMP_COEFF_2", "TEMP_COEFF_3", "TEMP_COEFF_5",
         "TEMP_COEFF_7", "TEMP_COEFF_8", "TEMP_COEFF_9", "TEMP_COEFF_10", "TEMP_COEFF_11",
         "TEMP_COEFF_12", "TEMP_COEFF_13"}
  BY DEF RtdMapping, Texts
<1>2. TempCoeffDefault(r) \in TempCoeffs(r)
  BY ThermalTexts DEF TempCoeffs, TempCoeffDefault
<1>3. TempCoeffs(r) \subseteq Texts(RtdMapping.temper_coeff)
  BY <1>1, ThermalTexts DEF TempCoeffs
<1> QED
  BY <1>2, <1>3

LEMMA EmTables ==
  /\ DOMAIN VersionMapping = 1..6 /\ {32, 112} \subseteq Codes(VersionMapping)
  /\ EmVersions \subseteq Texts(VersionMapping)
  /\ DOMAIN ConTypeMapping = 1..6 /\ Codes(ConTypeMapping) = {0, 11, 12, 14, 15, 16}
  /\ DOMAIN EmRangeMapping = 1..12 /\ Codes(EmRangeMapping) = 1..12
  /\ DOMAIN LineFreqMapping = 1..2 /\ Codes(LineFreqMapping) = 1..2
  /\ DOMAIN PeriodMapping = 1..6 /\ Codes(PeriodMapping) = 0..5
  /\ DOMAIN SecondCurMapping = 1..2 /\ Codes(SecondCurMapping) = {0, 2}
  /\ AllSecondCurs = {"CT_SND_CUR_0", "CT_SND_CUR_2"}
<1>1. /\ DOMAIN VersionMapping = 1..6 /\ {32, 112} \subseteq Codes(VersionMapping)
      /\ EmVersions \subseteq Texts(VersionMapping)
  BY DEF VersionMapping, Codes, Texts, EmVersions
<1>2. DOMAIN ConTypeMapping = 1..6 /\ Codes(ConTypeMapping) = {0, 11, 12, 14, 15, 16}
  BY DEF ConTypeMapping, Codes
<1>3. DOMAIN EmRangeMapping = 1..12 /\ Codes(EmRangeMapping) = 1..12
  BY DEF EmRangeMapping, Codes
<1>4. /\ DOMAIN LineFreqMapping = 1..2 /\ Codes(LineFreqMapping) = 1..2
      /\ DOMAIN PeriodMapping = 1..6 /\ Codes(PeriodMapping) = 0..5
  BY DEF LineFreqMapping, PeriodMapping, Codes
<1>5. /\ DOMAIN SecondCurMapping = 1..2 /\ Codes(SecondCurMapping) = {0, 2}
      /\ AllSecondCurs = {"CT_SND_CUR_0", "CT_SND_CUR_2"}
  BY DEF SecondCurMapping, AllSecondCurs, Codes, Texts
<1> QED
  BY <1>1, <1>2, <1>3, <1>4, <1>5

LEMMA VariantTable ==
  /\ DOMAIN VariantMapping = 1..22
  /\ \A v, t \in Int : VariantsTaken(v, t) \subseteq Codes(VariantMapping)
  /\ {"FE", "E0", "E1", "E2", "E3"} \subseteq AllVariants
<1>1. DOMAIN VariantMapping = 1..22
  BY DEF VariantMapping
<1>2. Codes(VariantMapping) = 154..159 \union 224..227 \union {239, 240} \union 245..254
  BY DEF VariantMapping, Codes
<1>3. {"FE", "E0", "E1", "E2", "E3"} \subseteq AllVariants
  BY DEF VariantMapping, AllVariants, Texts
<1> QED
  BY <1>1, <1>2, <1>3 DEF VariantsTaken

-----------------------------------------------------------------------------
(* Analog inputs.  The rules of a page that was only edited, and what an   *)
(* edit keeps so that the effects that follow restore them.                *)
AiChannelType ==
  [type : Texts(AiMapping.type), range : Texts(AiMapping.range),
   ranges : {AiRangesOfCurrent, AiRangesOfVoltage}, smooth : Texts(AiMapping.smooth),
   open_wire_alarm : BOOLEAN, overflow_alarm : BOOLEAN, underflow_alarm : BOOLEAN]

AiRanges(c) == \A i \in DOMAIN c.channels : c.channels[i].range \in c.channels[i].ranges

AiRules(c) == AiRanges(c) /\ \A i \in DOMAIN c.channels : AiNothingDisabled(c.channels[i])

AiPairs(c) ==
  \A i \in DOMAIN c.channels :
    /\ c.channels[i].ranges = AiRangesOf(c.channels[i].type)
    /\ c.channels[i].range \in c.channels[i].ranges
    /\ AiTypeOffered(i) => c.channels[i + 1].type = c.channels[i].type

AiKept(old, c) ==
  \A i \in DOMAIN c.channels :
    /\ AiOpenWireDisabled(old.channels[i]) => ~c.channels[i].open_wire_alarm
    /\ AiUnderflowDisabled(old.channels[i]) => ~c.channels[i].underflow_alarm

AiEdited(old, c) ==
  /\ c \in AiConf(old.mlfb)
  /\ AiPairs(old) => AiPairs(c)
  /\ AiRules(old) => AiRanges(c) /\ AiKept(old, c)

LEMMA EvenChannels ==
  ASSUME NEW m \in AiMlfb, NEW i \in 0..(AiChannels[m] - 1), AiTypeOffered(i)
  PROVE  i + 1 \in 0..(AiChannels[m] - 1)
<1>1. AiChannels[m] \in Nat /\ AiChannels[m] % 2 = 0
  BY AiAssumption
<1>2. i % 2 = 0 /\ i \in Nat
  BY DEF AiTypeOffered
<1>3. \A n, k \in Nat : n % 2 = 0 /\ k % 2 = 0 /\ k < n => k + 1 < n
  OBVIOUS
<1> QED
  BY <1>1, <1>2, <1>3

LEMMA AiRendered ==
  ASSUME NEW m \in AiMlfb, NEW c \in AiConf(m), NEW old, NEW mounts \in BOOLEAN
  PROVE  LET e == AiEffects(old, c, mounts)
         IN /\ e \in AiConf(m)
            /\ AiPairs(c) => AiPairs(e)
            /\ (AiRanges(c) /\ (mounts \/ AiKept(old, c))) \/ AiRules(c) => AiRules(e)
<1> DEFINE e == AiEffects(old, c, mounts)
<1>1. e \in AiConf(m)
  <2>1. \A i \in 0..(AiChannels[m] - 1) :
          LET was == old.channels[i]
              is  == c.channels[i]
              new == [is EXCEPT
                 !.open_wire_alarm = CheckEffect(@, AiOpenWireDisabled(was),
                                                 AiOpenWireDisabled(is), mounts),
                 !.underflow_alarm = CheckEffect(@, AiUnderflowDisabled(was),
                                                 AiUnderflowDisabled(is), mounts)]
          IN new \in AiChannelType
    <3> TAKE i \in 0..(AiChannels[m] - 1)
    <3>1. c.channels[i] \in AiChannelType
      BY DEF AiConf, AiChannelType
    <3> QED
      BY <3>1 DEF AiChannelType, CheckEffect
  <2> QED
    BY <2>1 DEF AiEffects, AiConf, AiChannelType
<1>2. /\ DOMAIN e.channels = DOMAIN c.channels
      /\ \A i \in DOMAIN c.channels :
           /\ e.channels[i].type = c.channels[i].type
           /\ e.channels[i].range = c.channels[i].range
           /\ e.channels[i].ranges = c.channels[i].ranges
           /\ e.channels[i].open_wire_alarm =
                CheckEffect(c.channels[i].open_wire_alarm, AiOpenWireDisabled(old.channels[i]),
                            AiOpenWireDisabled(c.channels[i]), mounts)
           /\ e.channels[i].underflow_alarm =
                CheckEffect(c.channels[i].underflow_alarm, AiUnderflowDisabled(old.channels[i]),
                            AiUnderflowDisabled(c.channels[i]), mounts)
  BY DEF AiEffects, AiConf
<1>3. DOMAIN c.channels = 0..(AiChannels[m] - 1)
  BY DEF AiConf
<1> HIDE DEF e
<1>4. AiPairs(c) => AiPairs(e)
  <2>1. \A i \in DOMAIN c.channels : AiTypeOffered(i) => i + 1 \in DOMAIN c.channels
    BY <1>3, EvenChannels
  <2> QED
    BY <1>2, <2>1 DEF AiPairs
<1>5. (AiRanges(c) /\ (mounts \/ AiKept(old, c))) \/ AiRules(c) => AiRules(e)
  BY <1>2 DEF AiRanges, AiRules, AiKept, AiNothingDisabled, AiOpenWireDisabled, AiUnderflowDisabled,
     CheckEffect
<1> QED
  BY <1>1, <1>4, <1>5 DEF e

(* Every edit of the page is one of these.                                 *)
LEMMA AiEditsModule ==
  ASSUME NEW m \in AiMlfb, NEW c \in AiConf(m)
  PROVE  /\ \A t \in Texts(AiMapping.integ_time) : AiEdited(c, [c EXCEPT !.integ_time = t])
         /\ AiEdited(c, [c EXCEPT !.power_alarm = ~@])
BY DEF AiConf, AiEdited, AiPairs, AiRules, AiRanges, AiKept, AiNothingDisabled

LEMMA AiChannelFacts ==
  ASSUME NEW m \in AiMlfb, NEW c \in AiConf(m)
  PROVE  /\ c.mlfb = m /\ DOMAIN c.channels = 0..(AiChannels[m] - 1)
         /\ \A i \in DOMAIN c.channels : c.channels[i] \in AiChannelType
         /\ \A i \in DOMAIN c.channels : AiTypeOffered(i) => i + 1 \in DOMAIN c.channels
<1>1. c.mlfb = m /\ c.channels \in [0..(AiChannels[m] - 1) -> AiChannelType]
  BY DEF AiConf, AiChannelType
<1>2. \A i \in 0..(AiChannels[m] - 1) : AiTypeOffered(i) => i + 1 \in 0..(AiChannels[m] - 1)
  BY EvenChannels
<1> QED
  BY <1>1, <1>2

LEMMA AiWithChannels ==
  ASSUME NEW m \in AiMlfb, NEW c \in AiConf(m),
         NEW chs, chs = [i \in DOMAIN c.channels |-> chs[i]],
         \A i \in DOMAIN c.channels : chs[i] \in AiChannelType
  PROVE  [c EXCEPT !.channels = chs] \in AiConf(c.mlfb) /\ [c EXCEPT !.channels = chs].channels = chs
<1>1. chs \in [0..(AiChannels[m] - 1) -> AiChannelType]
  BY AiChannelFacts
<1> QED
  BY <1>1 DEF AiConf, AiChannelType

(* An edit of one channel that leaves its type alone.                      *)
LEMMA AiEditsChannel ==
  ASSUME NEW m \in AiMlfb, NEW c \in AiConf(m), NEW i \in DOMAIN c.channels,
         NEW ch \in AiChannelType, ch.type = c.channels[i].type,
         ch.ranges = c.channels[i].ranges, ch.range \in ch.ranges \/ ch.range = c.channels[i].range,
         AiOpenWireDisabled(c.channels[i]) => ch.open_wire_alarm = c.channels[i].open_wire_alarm,
         AiUnderflowDisabled(c.channels[i]) => ch.underflow_alarm = c.channels[i].underflow_alarm
  PROVE  AiEdited(c, [c EXCEPT !.channels[i] = ch])
<1> DEFINE chs == [c.channels EXCEPT ![i] = ch]
           new == [c EXCEPT !.channels = chs]
<1>1. /\ DOMAIN chs = DOMAIN c.channels /\ chs = [j \in DOMAIN c.channels |-> chs[j]]
      /\ \A j \in DOMAIN c.channels : chs[j] \in AiChannelType
  BY AiChannelFacts
<1>2. new \in AiConf(c.mlfb) /\ new.channels = chs
  <2> HIDE DEF chs
  <2> QED
    BY <1>1, AiWithChannels
<1>3. chs[i] = ch /\ \A j \in DOMAIN c.channels : j # i => chs[j] = c.channels[j]
  OBVIOUS
<1>4. [c EXCEPT !.channels[i] = ch] = new
  BY DEF AiConf
<1> HIDE DEF chs, new
<1>5. AiPairs(c) => AiPairs(new)
  <2>1. \A j \in DOMAIN c.channels :
          /\ chs[j].type = c.channels[j].type /\ chs[j].ranges = c.channels[j].ranges
          /\ chs[j].range \in chs[j].ranges \/ chs[j].range = c.channels[j].range
    BY <1>3
  <2>2. \A j \in DOMAIN c.channels : AiTypeOffered(j) => j + 1 \in DOMAIN c.channels
    BY AiChannelFacts
  <2> QED
    BY <1>1, <1>2, <2>1, <2>2 DEF AiPairs
<1>6. AiRules(c) => AiRanges(new) /\ AiKept(c, new)
  BY <1>1, <1>2, <1>3 DEF AiRules, AiRanges, AiKept, AiNothingDisabled
<1> QED
  BY <1>2, <1>4, <1>5, <1>6 DEF AiEdited

LEMMA AiEditsType ==
  ASSUME NEW m \in AiMlfb, NEW c \in AiConf(m), NEW i \in DOMAIN c.channels, AiTypeOffered(i),
         NEW t \in Texts(AiMapping.type)
  PROVE  AiEdited(c, AiWithType(c, i, t))
<1> DEFINE range == IF t = "TYPE_1" THEN "RANGE_9" ELSE "RANGE_2"
           chs == [j \in DOMAIN c.channels |->
                     IF j \in {i, i + 1}
                     THEN [c.channels[j] EXCEPT !.type = t, !.range = range, !.ranges = AiRangesOf(t)]
                     ELSE c.channels[j]]
           new == AiWithType(c, i, t)
<1>1. /\ t \in Texts(AiMapping.type) /\ range \in Texts(AiMapping.range) /\ range \in AiRangesOf(t)
      /\ AiRangesOf(t) \in {AiRangesOfCurrent, AiRangesOfVoltage}
  BY AiTables DEF AiRangesOf, AiRangesOfCurrent, AiRangesOfVoltage
<1> HIDE DEF range
<1>2. \A j \in DOMAIN c.channels :
        /\ chs[j] \in AiChannelType
        /\ j \in {i, i + 1} => chs[j].type = t /\ chs[j].range = range /\ chs[j].ranges = AiRangesOf(t)
        /\ j \notin {i, i + 1} => chs[j] = c.channels[j]
        /\ chs[j].open_wire_alarm = c.channels[j].open_wire_alarm
        /\ chs[j].underflow_alarm = c.channels[j].underflow_alarm
  <2> TAKE j \in DOMAIN c.channels
  <2>1. c.channels[j] \in AiChannelType
    BY AiChannelFacts
  <2> QED
    BY <1>1, <2>1 DEF AiChannelType
<1>3. DOMAIN chs = DOMAIN c.channels
  OBVIOUS
<1>4. new = [c EXCEPT !.channels = chs]
  BY DEF AiWithType, range
<1> HIDE DEF chs, new
<1>5. chs = [j \in DOMAIN c.channels |-> chs[j]]
  BY DEF chs
<1>6. new \in AiConf(c.mlfb) /\ new.channels = chs
  BY <1>2, <1>4, <1>5, AiWithChannels
<1>7. AiPairs(c) => AiPairs(new)
  <2>5. AiPairs(c) => \A j \in DOMAIN c.channels : chs[j].range \in chs[j].ranges
    BY <1>1, <1>2 DEF AiPairs
  <2> SUFFICES ASSUME AiPairs(c), NEW j \in DOMAIN c.channels, AiTypeOffered(j)
               PROVE  chs[j + 1].type = chs[j].type
    BY <1>2, <1>3, <1>6, <2>5 DEF AiPairs
  <2>1. j + 1 \in DOMAIN c.channels /\ j \in Nat /\ i \in Nat
    <3>1. DOMAIN c.channels = 0..(AiChannels[m] - 1) /\ j + 1 \in DOMAIN c.channels
      BY AiChannelFacts
    <3> QED
      BY <3>1, AiAssumption
  <2>2. j + 1 # i
    BY <2>1 DEF AiTypeOffered
  <2>3. CASE j = i
    BY <1>2, <2>1, <2>3
  <2>4. CASE j # i
    <3>1. j \notin {i, i + 1} /\ j + 1 \notin {i, i + 1}
      BY <2>1, <2>2, <2>4 DEF AiTypeOffered
    <3> QED
      BY <1>2, <2>1, <3>1 DEF AiPairs
  <2> QED
    BY <2>3, <2>4
<1>8. AiRules(c) => AiRanges(new) /\ AiKept(c, new)
  BY <1>1, <1>2, <1>3, <1>6 DEF AiRules, AiRanges, AiKept, AiNothingDisabled
<1> QED
  BY <1>6, <1>7, <1>8 DEF AiEdited, new

LEMMA AiNew ==
  ASSUME NEW m \in AiMlfb
  PROVE  AiDefault(m) \in AiConf(m) /\ AiPairs(AiDefault(m)) /\ AiRanges(AiDefault(m))
<1>1. AiChannelDefault \in AiChannelType
  BY AiTables DEF AiChannelDefault, AiChannelType, AiRangesOfVoltage, AiMapping, Texts
<1>2. "INT_TIME_2" \in Texts(AiMapping.integ_time)
  BY DEF AiMapping, Texts
<1>3. AiDefault(m) \in AiConf(m)
  BY <1>1, <1>2 DEF AiDefault, AiConf, AiChannelType
<1>4. AiChannelDefault.range \in AiChannelDefault.ranges
  BY DEF AiChannelDefault, AiRangesOfVoltage
<1>6. AiChannelDefault.ranges = AiRangesOf(AiChannelDefault.type)
  BY DEF AiChannelDefault, AiRangesOf
<1>5. \A i \in 0..(AiChannels[m] - 1) : AiTypeOffered(i) => i + 1 \in 0..(AiChannels[m] - 1)
  BY EvenChannels
<1> QED
  BY <1>3, <1>4, <1>5, <1>6 DEF AiDefault, AiPairs, AiRanges

LEMMA AiTypeOf ==
  /\ YamlToUi(AiMapping.type, 1) = "TYPE_1"
  /\ YamlToUi(AiMapping.type, 3) = "TYPE_3"
<1> DEFINE m == AiMapping.type
<1>1. \A i \in 1..2 : /\ m[i][2] = 1 => m[i][1] = "TYPE_1"
                      /\ m[i][2] = 3 => m[i][1] = "TYPE_3"
  BY DEF AiMapping
<1>2. DOMAIN m = 1..2 /\ DOMAIN m \in SUBSET Nat /\ Codes(m) = {1, 3}
  BY AiTables
<1> HIDE DEF m
<1>3. YamlToUi(m, 1) = "TYPE_1"
  <2>1. PICK i \in 1..2 : m[i][2] = 1 /\ YamlToUi(m, 1) = m[i][1]
    BY <1>2, YamlToUiFound
  <2> QED
    BY <1>1, <2>1
<1>4. YamlToUi(m, 3) = "TYPE_3"
  <2>1. PICK i \in 1..2 : m[i][2] = 3 /\ YamlToUi(m, 3) = m[i][1]
    BY <1>2, YamlToUiFound
  <2> QED
    BY <1>1, <2>1
<1> QED
  BY <1>3, <1>4 DEF m

LEMMA AiRangeOf ==
  ASSUME NEW code \in {2, 3, 7, 8, 9}
  PROVE  /\ code \in {7, 8, 9} => YamlToUi(AiMapping.range, code) \in AiRangesOfVoltage
         /\ code \in {2, 3} => YamlToUi(AiMapping.range, code) \in AiRangesOfCurrent
<1> DEFINE m == AiMapping.range
<1>1. \A i \in 1..5 : /\ m[i][2] \in {7, 8, 9} => m[i][1] \in AiRangesOfVoltage
                      /\ m[i][2] \in {2, 3} => m[i][1] \in AiRangesOfCurrent
  BY DEF AiMapping, AiRangesOfVoltage, AiRangesOfCurrent
<1>2. DOMAIN m = 1..5 /\ DOMAIN m \in SUBSET Nat /\ Codes(m) = {2, 3, 7, 8, 9}
  BY AiTables
<1> HIDE DEF m
<1>3. PICK i \in 1..5 : m[i][2] = code /\ YamlToUi(m, code) = m[i][1]
  BY <1>2, YamlToUiFound
<1>4. /\ code \in {7, 8, 9} => YamlToUi(m, code) \in AiRangesOfVoltage
      /\ code \in {2, 3} => YamlToUi(m, code) \in AiRangesOfCurrent
  BY <1>1, <1>3
<1> QED
  BY <1>4 DEF m

LEMMA AiTame ==
  ASSUME NEW y, y.mlfb \in AiMlfb, AiAccepted(y)
  PROVE  AiRanges(AiToUI(y))
<1> DEFINE u == AiToUI(y)
<1>1. ASSUME NEW i \in 0..(AiChannels[y.mlfb] - 1)
      PROVE  u.channels[i].range \in u.channels[i].ranges
  <2> DEFINE ch == y.channels[i]
  <2>1. ch.type \in {1, 3} /\ ch.range \in IF ch.type = 1 THEN {7, 8, 9} ELSE {2, 3}
    BY DEF AiAccepted
  <2>2. /\ u.channels[i].range = YamlToUi(AiMapping.range, ch.range)
        /\ u.channels[i].ranges = AiRangesOf(YamlToUi(AiMapping.type, ch.type))
    BY DEF AiToUI
  <2> HIDE DEF ch, u
  <2>3. CASE ch.type = 1 /\ ch.range \in {7, 8, 9}
    BY <2>2, <2>3, AiTypeOf, AiRangeOf DEF AiRangesOf
  <2>4. CASE ch.type = 3 /\ ch.range \in {2, 3}
    BY <2>2, <2>4, AiTypeOf, AiRangeOf DEF AiRangesOf
  <2> QED
    BY <2>1, <2>3, <2>4
<1>2. DOMAIN u.channels = 0..(AiChannels[y.mlfb] - 1)
  BY DEF AiToUI
<1> HIDE DEF u
<1> QED
  BY <1>1, <1>2 DEF AiRanges, u

LEMMA AiLoaded ==
  ASSUME NEW y, y.mlfb \in AiMlfb, AiAccepted(y)
  PROVE  AiToUI(y) \in AiConf(y.mlfb) /\ AiPairs(AiToUI(y))
<1> DEFINE m == y.mlfb
           u == AiToUI(y)
<1>1. \A i \in 0..(AiChannels[m] - 1) : u.channels[i] \in AiChannelType
  <2> TAKE i \in 0..(AiChannels[m] - 1)
  <2>1. /\ y.channels[i].type \in Codes(AiMapping.type)
        /\ y.channels[i].range \in Codes(AiMapping.range)
        /\ y.channels[i].smooth \in Codes(AiMapping.smooth)
        /\ y.channels[i].open_wire_alarm \in BOOLEAN
        /\ y.channels[i].overflow_alarm \in BOOLEAN
        /\ y.channels[i].underflow_alarm \in BOOLEAN
    BY AiTables DEF AiAccepted
  <2>2. /\ YamlToUi(AiMapping.type, y.channels[i].type) \in Texts(AiMapping.type)
        /\ YamlToUi(AiMapping.range, y.channels[i].range) \in Texts(AiMapping.range)
        /\ YamlToUi(AiMapping.smooth, y.channels[i].smooth) \in Texts(AiMapping.smooth)
    BY <2>1, AiTables, YamlToUiTyped
  <2> QED
    BY <2>1, <2>2 DEF AiToUI, AiChannelType, AiRangesOf
<1>2. YamlToUi(AiMapping.integ_time, y.integ_time) \in Texts(AiMapping.integ_time)
  BY AiTables, YamlToUiTyped DEF AiAccepted
<1>3. u \in AiConf(m)
  BY <1>1, <1>2 DEF AiToUI, AiConf, AiChannelType, AiAccepted
<1>4. AiPairs(u)
  <2>1. \A i \in 0..(AiChannels[m] - 1) : AiTypeOffered(i) => i + 1 \in 0..(AiChannels[m] - 1)
    BY EvenChannels
  <2>2. \A i \in 0..(AiChannels[m] - 1) :
          /\ u.channels[i].type = YamlToUi(AiMapping.type, y.channels[i].type)
          /\ u.channels[i].ranges = AiRangesOf(u.channels[i].type)
    BY DEF AiToUI
  <2>3. DOMAIN u.channels = 0..(AiChannels[m] - 1)
    BY DEF AiToUI
  <2>4. \A i \in 0..(AiChannels[m] - 1) :
          AiTypeOffered(i) => y.channels[i].type = y.channels[i + 1].type
    BY DEF AiAccepted, AiTypeOffered
  <2>5. AiRanges(u)
    BY AiTame
  <2> HIDE DEF u
  <2> QED
    BY <2>1, <2>2, <2>3, <2>4, <2>5 DEF AiPairs, AiRanges
<1> QED
  BY <1>3, <1>4

-----------------------------------------------------------------------------
(* Resistance thermometers.                                                *)
RtdChannelType ==
  [type : Texts(RtdMapping.type), range : Texts(RtdMapping.range.deactivated),
   ranges : {Texts(ResistanceRanges), Texts(ThermalRanges)},
   temper_coeff : Texts(RtdMapping.temper_coeff),
   coeffs : {TempCoeffs(r) : r \in Texts(ThermalRanges)},
   temper_unit : Texts(RtdMapping.temper_unit), smooth : Texts(RtdMapping.smooth),
   open_wire_alarm : BOOLEAN, overflow_alarm : BOOLEAN, underflow_alarm : BOOLEAN]

RtdChannel ==
  {ch \in RtdChannelType :
     /\ ch.type \in ResistanceTypes =>
          ch.ranges = Texts(ResistanceRanges) /\ ch.range \in Texts(ResistanceRanges)
     /\ ch.type \in ThermalTypes =>
          ch.ranges = Texts(ThermalRanges) /\ ch.range \in Texts(ThermalRanges)}

RtdSlot(m) == {c \in RtdConf(m) : \A i \in DOMAIN c.channels : c.channels[i] \in RtdChannel}

RtdOffered(ch) == ch.range \in ch.ranges /\ ch.temper_coeff \in ch.coeffs

RtdCoeffs(ch) ==
  ch.range \in Texts(ThermalRanges) => ch.coeffs = TempCoeffs(ch.range) /\ ch.temper_coeff \in ch.coeffs

RtdAllOffered(c) == \A i \in DOMAIN c.channels : RtdOffered(c.channels[i])
RtdAllCoeffs(c) == \A i \in DOMAIN c.channels : RtdCoeffs(c.channels[i])
RtdNothing(c) == \A i \in DOMAIN c.channels : RtdNothingDisabled(c.channels[i])

RtdRules(c) == RtdAllCoeffs(c) /\ RtdNothing(c)

RtdKept(old, c) ==
  \A i \in DOMAIN c.channels :
    /\ RtdOffDisabled(old.channels[i]) => ~c.channels[i].open_wire_alarm /\ ~c.channels[i].overflow_alarm
    /\ RtdThermalDisabled(old.channels[i]) => ~c.channels[i].underflow_alarm

RtdEdited(old, c) ==
  /\ c \in RtdSlot(old.mlfb)
  /\ RtdAllOffered(old) => RtdAllOffered(c)
  /\ RtdAllCoeffs(old) => RtdAllCoeffs(c)
  /\ RtdNothing(old) => RtdKept(old, c)

LEMMA RtdRendered ==
  ASSUME NEW m \in RtdMlfb, NEW c \in RtdSlot(m), NEW old, NEW mounts \in BOOLEAN
  PROVE  LET e == RtdEffects(old, c, mounts)
         IN /\ e \in RtdSlot(m)
            /\ RtdAllOffered(c) => RtdAllOffered(e)
            /\ RtdAllCoeffs(c) => RtdAllCoeffs(e)
            /\ mounts \/ RtdKept(old, c) \/ RtdNothing(c) => RtdNothing(e)
<1> DEFINE e == RtdEffects(old, c, mounts)
           Off(i, value) == CheckEffect(value, RtdOffDisabled(old.channels[i]),
                                        RtdOffDisabled(c.channels[i]), mounts)
           new(i) == [c.channels[i] EXCEPT
                        !.open_wire_alarm = Off(i, @), !.overflow_alarm = Off(i, @),
                        !.underflow_alarm = CheckEffect(@, RtdThermalDisabled(old.channels[i]),
                                                        RtdThermalDisabled(c.channels[i]), mounts)]
<1>1. /\ c \in RtdConf(m)
      /\ \A i \in DOMAIN c.channels : c.channels[i] \in RtdChannel /\ c.channels[i] \in RtdChannelType
  BY DEF RtdSlot, RtdChannel
<1>2. \A i \in DOMAIN c.channels : new(i) \in RtdChannelType
  <2> TAKE i \in DOMAIN c.channels
  <2> DEFINE ch == c.channels[i]
             off == CheckEffect(ch.underflow_alarm, RtdThermalDisabled(old.channels[i]),
                                RtdThermalDisabled(ch), mounts)
  <2>1. /\ ch.open_wire_alarm \in BOOLEAN /\ ch.overflow_alarm \in BOOLEAN
        /\ ch.underflow_alarm \in BOOLEAN
    BY <1>1 DEF RtdChannelType
  <2>2. \A value \in BOOLEAN : Off(i, value) \in BOOLEAN
    BY DEF CheckEffect
  <2>3. off \in BOOLEAN
    BY <2>1 DEF CheckEffect
  <2> HIDE DEF Off, off
  <2>4. [ch EXCEPT !.open_wire_alarm = Off(i, ch.open_wire_alarm),
                   !.overflow_alarm = Off(i, ch.overflow_alarm), !.underflow_alarm = off]
          \in RtdChannelType
    BY <1>1, <2>1, <2>2, <2>3 DEF RtdChannelType
  <2> QED
    BY <2>4 DEF off, Off
<1>3. e \in RtdConf(m)
  BY <1>1, <1>2 DEF RtdEffects, RtdConf, RtdChannelType
<1>4. /\ DOMAIN e.channels = DOMAIN c.channels
      /\ \A i \in DOMAIN c.channels : e.channels[i] = new(i)
  BY <1>1 DEF RtdEffects, RtdConf
<1>5. \A i \in DOMAIN c.channels :
        /\ new(i).type = c.channels[i].type
        /\ new(i).range = c.channels[i].range /\ new(i).ranges = c.channels[i].ranges
        /\ new(i).temper_coeff = c.channels[i].temper_coeff /\ new(i).coeffs = c.channels[i].coeffs
        /\ new(i).open_wire_alarm = Off(i, c.channels[i].open_wire_alarm)
        /\ new(i).overflow_alarm = Off(i, c.channels[i].overflow_alarm)
        /\ new(i).underflow_alarm = CheckEffect(c.channels[i].underflow_alarm,
             RtdThermalDisabled(old.channels[i]), RtdThermalDisabled(c.channels[i]), mounts)
  BY <1>1 DEF RtdChannelType
<1> HIDE DEF e, new
<1>6. /\ RtdAllOffered(c) => RtdAllOffered(e)
      /\ RtdAllCoeffs(c) => RtdAllCoeffs(e)
  BY <1>4, <1>5 DEF RtdAllOffered, RtdOffered, RtdAllCoeffs, RtdCoeffs
<1>7. mounts \/ RtdKept(old, c) \/ RtdNothing(c) => RtdNothing(e)
  <2> SUFFICES ASSUME mounts \/ RtdKept(old, c) \/ RtdNothing(c), NEW i \in DOMAIN c.channels
               PROVE  RtdNothingDisabled(new(i))
    BY <1>4 DEF RtdNothing
  <2>1. /\ RtdOffDisabled(new(i)) <=> RtdOffDisabled(c.channels[i])
        /\ RtdThermalDisabled(new(i)) <=> RtdThermalDisabled(c.channels[i])
    BY <1>5 DEF RtdOffDisabled, RtdThermalDisabled
  <2>2. RtdOffDisabled(c.channels[i]) => ~new(i).open_wire_alarm /\ ~new(i).overflow_alarm
    BY <1>5 DEF RtdKept, RtdNothing, RtdNothingDisabled, CheckEffect
  <2>3. RtdThermalDisabled(c.channels[i]) => ~new(i).underflow_alarm
    BY <1>5 DEF RtdKept, RtdNothing, RtdNothingDisabled, CheckEffect
  <2> QED
    BY <2>1, <2>2, <2>3 DEF RtdNothingDisabled
<1>8. e \in RtdSlot(m)
  BY <1>1, <1>2, <1>3, <1>4, <1>5 DEF RtdSlot, RtdChannel
<1> QED
  BY <1>6, <1>7, <1>8 DEF e

LEMMA RtdChannelFacts ==
  ASSUME NEW m \in RtdMlfb, NEW c \in RtdSlot(m)
  PROVE  /\ c.mlfb = m /\ DOMAIN c.channels = 0..(RtdChannels[m] - 1)
         /\ \A i \in DOMAIN c.channels : c.channels[i] \in RtdChannel
BY DEF RtdConf, RtdSlot

LEMMA RtdEditsModule ==
  ASSUME NEW m \in RtdMlfb, NEW c \in RtdSlot(m)
  PROVE  /\ \A t \in Texts(RtdMapping.integ_time) : RtdEdited(c, [c EXCEPT !.integ_time = t])
         /\ RtdEdited(c, [c EXCEPT !.power_alarm = ~@])
BY DEF RtdConf, RtdSlot, RtdEdited, RtdAllOffered, RtdAllCoeffs, RtdNothing, RtdKept,
   RtdNothingDisabled

KeepsOffers(new, ch) ==
  (RtdOffered(ch) => RtdOffered(new)) /\ (RtdCoeffs(ch) => RtdCoeffs(new))

LEMMA RtdEditsChannel ==
  ASSUME NEW m \in RtdMlfb, NEW c \in RtdSlot(m), NEW i \in DOMAIN c.channels,
         NEW ch \in RtdChannel, KeepsOffers(ch, c.channels[i]),
         RtdOffDisabled(c.channels[i]) => /\ ch.open_wire_alarm = c.channels[i].open_wire_alarm
                                          /\ ch.overflow_alarm = c.channels[i].overflow_alarm,
         RtdThermalDisabled(c.channels[i]) => ch.underflow_alarm = c.channels[i].underflow_alarm
  PROVE  RtdEdited(c, [c EXCEPT !.channels[i] = ch])
<1> DEFINE chs == [c.channels EXCEPT ![i] = ch]
           new == [c EXCEPT !.channels = chs]
<1>1. DOMAIN chs = DOMAIN c.channels /\ chs[i] = ch
  OBVIOUS
<1>2. \A j \in DOMAIN c.channels : j # i => chs[j] = c.channels[j]
  OBVIOUS
<1>3. \A j \in DOMAIN c.channels : chs[j] \in RtdChannel
  BY RtdChannelFacts
<1>4. chs = [j \in DOMAIN c.channels |-> chs[j]]
  OBVIOUS
<1>5. [c EXCEPT !.channels[i] = ch] = new
  BY DEF RtdConf, RtdSlot
<1> HIDE DEF chs
<1>6. chs \in [0..(RtdChannels[m] - 1) -> RtdChannelType]
  BY <1>3, <1>4, RtdChannelFacts DEF RtdChannel
<1>7. new \in RtdSlot(c.mlfb) /\ new.channels = chs
  <2>1. new \in RtdConf(c.mlfb) /\ new.channels = chs
    BY <1>6 DEF RtdConf, RtdSlot, RtdChannelType
  <2> QED
    BY <1>1, <1>3, <2>1 DEF RtdSlot
<1> HIDE DEF new
<1>8. /\ RtdAllOffered(c) => RtdAllOffered(new)
      /\ RtdAllCoeffs(c) => RtdAllCoeffs(new)
  BY <1>1, <1>2, <1>7 DEF KeepsOffers, RtdAllOffered, RtdAllCoeffs
<1>9. RtdNothing(c) => RtdKept(c, new)
  BY <1>1, <1>2, <1>7 DEF RtdNothing, RtdKept, RtdNothingDisabled
<1> QED
  BY <1>5, <1>7, <1>8, <1>9 DEF RtdEdited

(* The handlers of one channel: what they return is a channel, shows only  *)
(* what it offers, and has the alarms it had.                              *)
SameAlarms(new, ch) ==
  /\ new.open_wire_alarm = ch.open_wire_alarm /\ new.overflow_alarm = ch.overflow_alarm
  /\ new.underflow_alarm = ch.underflow_alarm

LEMMA NewCoeffs ==
  ASSUME NEW ch \in RtdChannel, ch.range \in Texts(ThermalRanges)
  PROVE  LET new == WithTempCoeffs(ch)
         IN /\ new \in RtdChannel /\ SameAlarms(new, ch) /\ new.temper_coeff \in new.coeffs
            /\ new.coeffs = TempCoeffs(ch.range)
            /\ new.range = ch.range /\ new.ranges = ch.ranges
<1> DEFINE coeffs == TempCoeffs(ch.range)
           coeff == IF ch.temper_coeff \in coeffs THEN ch.temper_coeff ELSE TempCoeffDefault(ch.range)
           new == [ch EXCEPT !.coeffs = coeffs, !.temper_coeff = coeff]
<1>1. coeffs \in {TempCoeffs(r) : r \in Texts(ThermalRanges)}
  OBVIOUS
<1>2. coeff \in coeffs /\ coeff \in Texts(RtdMapping.temper_coeff)
  BY CoeffsOffered
<1>3. WithTempCoeffs(ch) = new
  BY DEF WithTempCoeffs, RtdChannel, RtdChannelType
<1> HIDE DEF coeffs, coeff
<1>4. new \in RtdChannelType
  BY <1>1, <1>2 DEF RtdChannel, RtdChannelType
<1>5. /\ new.type = ch.type /\ new.range = ch.range /\ new.ranges = ch.ranges
      /\ new.coeffs = coeffs /\ new.temper_coeff = coeff /\ SameAlarms(new, ch)
  BY DEF RtdChannel, RtdChannelType, SameAlarms
<1> HIDE DEF new
<1> QED
  BY <1>2, <1>3, <1>4, <1>5 DEF RtdChannel, coeffs

LEMMA RtdTypes == Texts(RtdMapping.type) = {"TYPE_0"} \union ResistanceTypes \union ThermalTypes
<1>1. DOMAIN RtdMapping.type = 1..7
  BY RtdTables
<1>2. /\ RtdMapping.type[1][1] = "TYPE_0" /\ RtdMapping.type[2][1] = "TYPE_4"
      /\ RtdMapping.type[3][1] = "TYPE_5" /\ RtdMapping.type[4][1] = "TYPE_6"
      /\ RtdMapping.type[5][1] = "TYPE_7" /\ RtdMapping.type[6][1] = "TYPE_8"
      /\ RtdMapping.type[7][1] = "TYPE_9"
  BY DEF RtdMapping
<1>3. \A i : i \in 1..7 <=> i \in {1, 2, 3, 4, 5, 6, 7}
  OBVIOUS
<1> QED
  BY <1>1, <1>2, <1>3 DEF Texts, ResistanceTypes, ThermalTypes

LEMMA RtdEditsRange ==
  ASSUME NEW ch \in RtdChannel, ~RtdOffDisabled(ch), NEW t \in ch.ranges
  PROVE  LET new == RtdWithRange(ch, t)
         IN new \in RtdChannel /\ SameAlarms(new, ch) /\ KeepsOffers(new, ch)
<1> DEFINE with == [ch EXCEPT !.range = t]
<1>1. t \in Texts(RtdMapping.range.deactivated)
  BY Deactivated DEF RtdChannel, RtdChannelType, RtdMapping
<1>2. with \in RtdChannelType /\ SameAlarms(with, ch) /\ with.range = t
  BY <1>1 DEF RtdChannel, RtdChannelType, SameAlarms
<1>3. /\ with.type = ch.type /\ with.ranges = ch.ranges
      /\ with.temper_coeff = ch.temper_coeff /\ with.coeffs = ch.coeffs
  BY DEF RtdChannel, RtdChannelType
<1> HIDE DEF with
<1>4. with \in RtdChannel
  BY <1>2, <1>3 DEF RtdChannel
<1>5. CASE ch.type \in ThermalTypes
  <2>1. t \in Texts(ThermalRanges) /\ RtdWithRange(ch, t) = WithTempCoeffs(with)
    BY <1>5 DEF RtdChannel, RtdWithRange, with
  <2> QED
    BY <1>2, <1>3, <1>4, <2>1, NewCoeffs DEF KeepsOffers, RtdOffered, RtdCoeffs, SameAlarms
<1>6. CASE ch.type \notin ThermalTypes
  <2>1. RtdWithRange(ch, t) = with
    BY <1>6 DEF RtdWithRange, with
  <2>2. ch.type \in ResistanceTypes
    BY <1>6, RtdTypes DEF RtdOffDisabled, RtdChannel, RtdChannelType
  <2>3. t \notin Texts(ThermalRanges)
    BY <2>2, RangesApart DEF RtdChannel
  <2> QED
    BY <1>2, <1>3, <1>4, <2>1, <2>3 DEF KeepsOffers, RtdOffered, RtdCoeffs
<1> QED
  BY <1>5, <1>6

LEMMA RtdEditsType ==
  ASSUME NEW ch \in RtdChannel, NEW t \in Texts(RtdMapping.type)
  PROVE  LET new == RtdWithType(ch, t)
         IN new \in RtdChannel /\ SameAlarms(new, ch) /\ KeepsOffers(new, ch)
<1>1. CASE t \in ResistanceTypes
  <2> DEFINE range == IF ch.range \in Texts(ResistanceRanges) THEN ch.range ELSE "Resistance_RANGE_1"
             with == [ch EXCEPT !.type = t, !.ranges = Texts(ResistanceRanges), !.range = range]
  <2>1. t \notin ThermalTypes
    BY <1>1 DEF ResistanceTypes, ThermalTypes
  <2>2. RtdWithType(ch, t) = with
    <3>1. RtdWithType(ch, t) =
            [ch EXCEPT !.type = t, !.ranges = Texts(ResistanceRanges),
               !.range = IF @ \in Texts(ResistanceRanges) THEN @ ELSE "Resistance_RANGE_1"]
      BY <1>1, <2>1 DEF RtdWithType
    <3>2. ch \in RtdChannelType
      BY DEF RtdChannel
    <3> QED
      BY <3>1, <3>2 DEF RtdChannelType
  <2>3. range \in Texts(ResistanceRanges) /\ range \in Texts(RtdMapping.range.deactivated)
    BY RangeTables, Deactivated DEF RtdMapping
  <2> HIDE DEF range
  <2>4. /\ with \in RtdChannelType /\ with.type = t
        /\ with.ranges = Texts(ResistanceRanges) /\ with.range \in Texts(ResistanceRanges)
    BY <2>3 DEF RtdChannel, RtdChannelType
  <2>5. SameAlarms(with, ch) /\ (RtdOffered(ch) => RtdOffered(with))
    BY <2>3 DEF RtdChannel, RtdChannelType, SameAlarms, RtdOffered
  <2>6. RtdCoeffs(with)
    BY <2>4, RangesApart DEF RtdCoeffs
  <2> QED
    BY <2>1, <2>2, <2>4, <2>5, <2>6 DEF RtdChannel, KeepsOffers
<1>2. CASE t \in ThermalTypes
  <2> DEFINE with == [ch EXCEPT !.type = t, !.ranges = Texts(ThermalRanges)]
             zero == [with EXCEPT !.range = "Thermal_RANGE_0"]
  <2>1. RtdWithType(ch, t) = IF ch.range \in Texts(ThermalRanges) THEN with ELSE WithTempCoeffs(zero)
    <3>1. t \notin ResistanceTypes
      BY <1>2 DEF ResistanceTypes, ThermalTypes
    <3> QED
      BY <1>2, <3>1 DEF RtdWithType
  <2>2. /\ with \in RtdChannelType /\ with.ranges = Texts(ThermalRanges) /\ with.range = ch.range
        /\ SameAlarms(with, ch) /\ with.temper_coeff = ch.temper_coeff /\ with.coeffs = ch.coeffs
    BY DEF RtdChannel, RtdChannelType, SameAlarms
  <2>3. "Thermal_RANGE_0" \in Texts(ThermalRanges) /\ "Thermal_RANGE_0" \in Texts(RtdMapping.range.deactivated)
    BY RangeTables, Deactivated DEF RtdMapping
  <2> HIDE DEF with
  <2>4. /\ zero \in RtdChannelType /\ zero.ranges = Texts(ThermalRanges) /\ zero.range = "Thermal_RANGE_0"
        /\ SameAlarms(zero, ch)
    BY <2>2, <2>3 DEF RtdChannelType, SameAlarms
  <2> HIDE DEF zero
  <2>5. with.type = t /\ zero.type = t /\ t \notin ResistanceTypes
    BY <1>2, <2>2 DEF with, zero, RtdChannel, RtdChannelType, ResistanceTypes, ThermalTypes
  <2>6. zero \in RtdChannel /\ (ch.range \in Texts(ThermalRanges) => with \in RtdChannel)
    BY <2>2, <2>3, <2>4, <2>5 DEF RtdChannel
  <2>7. CASE ch.range \in Texts(ThermalRanges)
    BY <2>1, <2>2, <2>6, <2>7 DEF KeepsOffers, RtdOffered, RtdCoeffs
  <2>8. CASE ch.range \notin Texts(ThermalRanges)
    BY <2>1, <2>3, <2>4, <2>6, <2>8, NewCoeffs DEF KeepsOffers, RtdOffered, RtdCoeffs, SameAlarms
  <2> QED
    BY <2>7, <2>8
<1>3. CASE t \notin ResistanceTypes \union ThermalTypes
  <2> DEFINE with == [ch EXCEPT !.type = t]
  <2>1. RtdWithType(ch, t) = with
    BY <1>3 DEF RtdWithType
  <2>2. with \in RtdChannelType /\ with.type = t
    BY DEF RtdChannel, RtdChannelType
  <2>3. SameAlarms(with, ch) /\ KeepsOffers(with, ch)
    BY DEF RtdChannel, RtdChannelType, SameAlarms, KeepsOffers, RtdOffered, RtdCoeffs
  <2> QED
    BY <1>3, <2>1, <2>2, <2>3 DEF RtdChannel
<1> QED
  BY <1>1, <1>2, <1>3

LEMMA RtdNew ==
  ASSUME NEW m \in RtdMlfb
  PROVE  /\ RtdDefault(m) \in RtdSlot(m)
         /\ RtdAllOffered(RtdDefault(m)) /\ RtdAllCoeffs(RtdDefault(m))
<1> DEFINE d == RtdChannelDefault
<1>1. /\ "TYPE_7" \in Texts(RtdMapping.type) /\ "TEMP_COEFF_0" \in Texts(RtdMapping.temper_coeff)
      /\ "TEMP_UNIT_0" \in Texts(RtdMapping.temper_unit) /\ "SMOOTH_1" \in Texts(RtdMapping.smooth)
      /\ "INT_TIME_2" \in Texts(RtdMapping.integ_time)
  BY DEF RtdMapping, Texts
<1>2. /\ "Thermal_RANGE_0" \in Texts(ThermalRanges)
      /\ "Thermal_RANGE_0" \in Texts(RtdMapping.range.deactivated)
      /\ TempCoeffs("Thermal_RANGE_0") = {"TEMP_COEFF_0"}
  BY RangeTables, Deactivated DEF RtdMapping, TempCoeffs
<1>3. d \in RtdChannelType /\ RtdOffered(d) /\ RtdCoeffs(d)
  BY <1>1, <1>2 DEF RtdChannelDefault, RtdChannelType, RtdOffered, RtdCoeffs
<1>4. d \in RtdChannel
  BY <1>2, <1>3 DEF RtdChannel, RtdChannelDefault, ResistanceTypes
<1> HIDE DEF d
<1>5. RtdDefault(m) \in RtdConf(m)
  BY <1>1, <1>3 DEF RtdDefault, RtdConf, RtdChannelType, d
<1>6. \A i \in DOMAIN RtdDefault(m).channels : RtdDefault(m).channels[i] = d
  BY DEF RtdDefault, d
<1> QED
  BY <1>3, <1>4, <1>5, <1>6 DEF RtdSlot, RtdAllOffered, RtdAllCoeffs

LEMMA RtdTypeOf ==
  ASSUME NEW code \in {0} \union 4..9
  PROVE  LET t == YamlToUi(RtdMapping.type, code)
         IN /\ t \in Texts(RtdMapping.type)
            /\ code = 0 => t = "TYPE_0"
            /\ code \in 4..6 => t \in ResistanceTypes
            /\ code \in 7..9 => t \in ThermalTypes
<1>1. \A i \in 1..7 : LET t == RtdMapping.type[i][1]
                          k == RtdMapping.type[i][2]
                      IN /\ k = 0 => t = "TYPE_0"
                         /\ k \in 4..6 => t \in ResistanceTypes
                         /\ k \in 7..9 => t \in ThermalTypes
  BY DEF RtdMapping, ResistanceTypes, ThermalTypes
<1>2. /\ DOMAIN RtdMapping.type = 1..7 /\ code \in Codes(RtdMapping.type)
      /\ DOMAIN RtdMapping.type \in SUBSET Nat
  BY RtdTables
<1> QED
  BY <1>1, <1>2, YamlToUiFound, YamlToUiTyped

LEMMA RtdLoadedChannel ==
  ASSUME NEW y, y.mlfb \in RtdMlfb, RtdAccepted(y), NEW i \in 0..(RtdChannels[y.mlfb] - 1)
  PROVE  RtdToUI(y).channels[i] \in RtdChannel
<1> DEFINE ch == y.channels[i]
           type == YamlToUi(RtdMapping.type, ch.type)
           table == RtdMapping.range[RangeScenario(type)]
           range == YamlToUi(table, ch.range)
           ranges == IF type \in ResistanceTypes THEN Texts(ResistanceRanges) ELSE Texts(ThermalRanges)
           coeffs == IF type \in ThermalTypes THEN TempCoeffs(range) ELSE RtdChannelDefault.coeffs
<1>1. RtdChannelAccepted(ch)
  BY DEF RtdAccepted
<1>2. RtdToUI(y).channels[i] =
        [type |-> type, range |-> range, ranges |-> ranges,
         temper_coeff |-> YamlToUi(RtdMapping.temper_coeff, ch.temper_coeff), coeffs |-> coeffs,
         temper_unit |-> YamlToUi(RtdMapping.temper_unit, ch.temper_unit),
         smooth |-> YamlToUi(RtdMapping.smooth, ch.smooth),
         open_wire_alarm |-> ch.open_wire_alarm, overflow_alarm |-> ch.overflow_alarm,
         underflow_alarm |-> ch.underflow_alarm]
  BY DEF RtdToUI
<1> HIDE DEF ch
<1>3. /\ ch.open_wire_alarm \in BOOLEAN /\ ch.overflow_alarm \in BOOLEAN /\ ch.underflow_alarm \in BOOLEAN
      /\ YamlToUi(RtdMapping.temper_unit, ch.temper_unit) \in Texts(RtdMapping.temper_unit)
      /\ YamlToUi(RtdMapping.smooth, ch.smooth) \in Texts(RtdMapping.smooth)
      /\ YamlToUi(RtdMapping.temper_coeff, ch.temper_coeff) \in Texts(RtdMapping.temper_coeff)
  BY <1>1, RtdTables, CoeffTable, YamlToUiTyped DEF RtdChannelAccepted
<1>4. \/ ch.type = 0 /\ ch.range \in RangesTaken \union {1}
      \/ ch.type \in 4..6 /\ ch.range \in 1..3
      \/ ch.type \in 7..9 /\ ch.range \in RangesTaken
  BY <1>1 DEF RtdChannelAccepted
<1>5. /\ type \in Texts(RtdMapping.type) /\ range \in Texts(RtdMapping.range.deactivated)
      /\ type \in ThermalTypes => range \in Texts(ThermalRanges) /\ type \notin ResistanceTypes
      /\ type \in ResistanceTypes => range \in Texts(ResistanceRanges)
  <2>0. RtdMapping.range = RtdRanges
    BY DEF RtdMapping
  <2>1. CASE ch.type = 0 /\ ch.range \in RangesTaken \union {1}
    <3>1. type = "TYPE_0" /\ type \in Texts(RtdMapping.type)
      BY <2>1, RtdTypeOf
    <3>2. /\ type \notin ThermalTypes \union ResistanceTypes
          /\ table = RtdMapping.range.deactivated
      BY <3>1 DEF RangeScenario, ResistanceTypes, ThermalTypes
    <3> QED
      BY <2>0, <2>1, <3>1, <3>2, Deactivated, YamlToUiTyped
  <2>2. CASE ch.type \in 4..6 /\ ch.range \in 1..3
    <3>1. type \in ResistanceTypes /\ type \in Texts(RtdMapping.type)
      BY <2>2, RtdTypeOf
    <3>2. type \notin ThermalTypes /\ type # "TYPE_0"
      BY <3>1 DEF ResistanceTypes, ThermalTypes
    <3>3. table = ResistanceRanges
      BY <2>0, <3>1, <3>2 DEF RangeScenario, RtdRanges
    <3> QED
      BY <2>0, <2>2, <3>1, <3>2, <3>3, RangeTables, Deactivated, YamlToUiTyped
  <2>3. CASE ch.type \in 7..9 /\ ch.range \in RangesTaken
    <3>1. type \in ThermalTypes /\ type \in Texts(RtdMapping.type)
      BY <2>3, RtdTypeOf
    <3>2. type \notin ResistanceTypes /\ type # "TYPE_0"
      BY <3>1 DEF ResistanceTypes, ThermalTypes
    <3>3. table = ThermalRanges
      BY <2>0, <3>2 DEF RangeScenario, RtdRanges
    <3> QED
      BY <2>0, <2>3, <3>1, <3>2, <3>3, RangeTables, Deactivated, YamlToUiTyped
  <2> QED
    BY <1>4, <2>1, <2>2, <2>3
<1>6. TempCoeffs("Thermal_RANGE_0") = RtdChannelDefault.coeffs /\ "Thermal_RANGE_0" \in Texts(ThermalRanges)
  BY RangeTables DEF TempCoeffs, RtdChannelDefault
<1> HIDE DEF type, range
<1>7. coeffs \in {TempCoeffs(r) : r \in Texts(ThermalRanges)}
  BY <1>5, <1>6
<1>8. /\ ranges \in {Texts(ResistanceRanges), Texts(ThermalRanges)}
      /\ type \in ThermalTypes => ranges = Texts(ThermalRanges)
      /\ type \in ResistanceTypes => ranges = Texts(ResistanceRanges)
  BY <1>5
<1> HIDE DEF ranges, coeffs
<1> QED
  BY <1>2, <1>3, <1>5, <1>7, <1>8 DEF RtdChannel, RtdChannelType

LEMMA RtdLoaded ==
  ASSUME NEW y, y.mlfb \in RtdMlfb, RtdAccepted(y)
  PROVE  RtdToUI(y) \in RtdSlot(y.mlfb)
<1>1. YamlToUi(RtdMapping.integ_time, y.integ_time) \in Texts(RtdMapping.integ_time)
  BY RtdTables, YamlToUiTyped DEF RtdAccepted
<1>2. \A i \in 0..(RtdChannels[y.mlfb] - 1) : RtdToUI(y).channels[i] \in RtdChannel
  BY RtdLoadedChannel
<1>3. RtdToUI(y) = [mlfb |-> y.mlfb, power_alarm |-> y.power_alarm,
                    integ_time |-> YamlToUi(RtdMapping.integ_time, y.integ_time),
                    channels |-> [i \in 0..(RtdChannels[y.mlfb] - 1) |-> RtdToUI(y).channels[i]]]
  BY DEF RtdToUI
<1>4. RtdToUI(y) \in RtdConf(y.mlfb)
  BY <1>1, <1>2, <1>3 DEF RtdAccepted, RtdConf, RtdChannel, RtdChannelType
<1>5. DOMAIN RtdToUI(y).channels = 0..(RtdChannels[y.mlfb] - 1)
  BY DEF RtdToUI
<1> QED
  BY <1>2, <1>4, <1>5 DEF RtdSlot

-----------------------------------------------------------------------------
(* Digital modules: nothing on their pages depends on anything else.       *)
LEMMA DigitalTables ==
  /\ DOMAIN TimeMapping = 1..7 /\ "TIME_3" \in Texts(TimeMapping)
  /\ DOMAIN BehaviorMapping = 1..2 /\ Codes(BehaviorMapping) = {2, 3}
  /\ "DISCONN_2" \in Texts(BehaviorMapping)
  /\ DOMAIN SubstituteMapping = 1..2 /\ Codes(SubstituteMapping) = {0, 1}
<1>1. DOMAIN TimeMapping = 1..7 /\ "TIME_3" \in Texts(TimeMapping)
  BY DEF TimeMapping, Texts
<1>2. /\ DOMAIN BehaviorMapping = 1..2 /\ Codes(BehaviorMapping) = {2, 3}
      /\ "DISCONN_2" \in Texts(BehaviorMapping)
  BY DEF BehaviorMapping, Codes, Texts
<1>3. DOMAIN SubstituteMapping = 1..2 /\ Codes(SubstituteMapping) = {0, 1}
  BY DEF SubstituteMapping, Codes
<1> QED
  BY <1>1, <1>2, <1>3

LEMMA SubstituteTexts == \A i \in 1..2 : SubstituteMapping[i][1] \in BOOLEAN
<1>1. SubstituteMapping[1] = <<TRUE, 1>> /\ SubstituteMapping[2] = <<FALSE, 0>>
  BY DEF SubstituteMapping
<1>2. <<TRUE, 1>>[1] = TRUE /\ <<FALSE, 0>>[1] = FALSE
  BY Zenon
<1>3. SubstituteMapping[1][1] \in BOOLEAN /\ SubstituteMapping[2][1] \in BOOLEAN
  BY <1>1, <1>2, Zenon
<1> QED
  BY <1>3

LEMMA DigitalNew ==
  /\ Sm1221Default \in Sm1221Conf
  /\ \A m \in Sm1223Mlfb : Sm1223Default(m) \in Sm1223Conf(m)
<1>1. Sm1221Default \in Sm1221Conf
  BY DigitalTables DEF Sm1221Default, Sm1221Conf
<1>2. \A m \in Sm1223Mlfb : Sm1223Default(m) \in Sm1223Conf(m)
  BY DigitalTables DEF Sm1223Default, Sm1223Conf
<1> QED
  BY <1>1, <1>2

LEMMA DigitalLoaded ==
  ASSUME NEW y, Importable(y)
  PROVE  /\ y.mlfb = Sm1221Mlfb /\ DiAccepted(y) => Sm1221ToUI(y) \in Sm1221Conf
         /\ y.mlfb \in Sm1223Mlfb /\ Sm1223Accepted(y) => Sm1223ToUI(y) \in Sm1223Conf(y.mlfb)
<1>1. DOMAIN TimeMapping \in SUBSET Nat /\ DOMAIN BehaviorMapping \in SUBSET Nat
      /\ DOMAIN SubstituteMapping \in SUBSET Nat
  BY DigitalTables
<1>2. ASSUME DiAccepted(y), NEW g \in DiGroups(y.mlfb)
      PROVE  YamlToUi(TimeMapping, y.di[g]) \in Texts(TimeMapping)
  BY <1>1, <1>2, YamlToUiTyped DEF DiAccepted
<1>3. ASSUME y.mlfb = Sm1221Mlfb, DiAccepted(y)
      PROVE  Sm1221ToUI(y) \in Sm1221Conf
  BY <1>2, <1>3 DEF Sm1221ToUI, Sm1221Conf
<1>4. ASSUME y.mlfb \in Sm1223Mlfb, Sm1223Accepted(y)
      PROVE  Sm1223ToUI(y) \in Sm1223Conf(y.mlfb)
  <2>1. \A g \in DiGroups(y.mlfb) : YamlToUi(TimeMapping, y.di[g]) \in Texts(TimeMapping)
    BY <1>2, <1>4 DEF Sm1223Accepted
  <2>2. YamlToUi(BehaviorMapping, y.dq.behavior_with_OD) \in Texts(BehaviorMapping)
    BY <1>1, <1>4, DigitalTables, YamlToUiTyped DEF Sm1223Accepted
  <2>3. \A i \in 0..(DqChannels[y.mlfb] - 1) :
          YamlToUi(SubstituteMapping, y.dq.substitute[i]) \in BOOLEAN
    <3> TAKE i \in 0..(DqChannels[y.mlfb] - 1)
    <3>1. y.dq.substitute[i] \in Codes(SubstituteMapping)
      BY <1>4, DigitalTables DEF Sm1223Accepted, Importable
    <3> QED
      BY <1>1, <3>1, DigitalTables, SubstituteTexts, YamlToUiFound
  <2> QED
    BY <2>1, <2>2, <2>3 DEF Sm1223ToUI, Sm1223Conf
<1> QED
  BY <1>3, <1>4

LEMMA DigitalEdits ==
  /\ \A c \in Sm1221Conf, t \in Texts(TimeMapping) :
       \A g \in DOMAIN c.di : [c EXCEPT !.di[g] = t] \in Sm1221Conf
  /\ \A m \in Sm1223Mlfb : \A c \in Sm1223Conf(m) :
       /\ \A t \in Texts(TimeMapping), g \in DOMAIN c.di : [c EXCEPT !.di[g] = t] \in Sm1223Conf(m)
       /\ \A t \in Texts(BehaviorMapping) : Sm1223WithBehavior(c, t) \in Sm1223Conf(m)
       /\ \A i \in DOMAIN c.dq.substitute :
            Sm1223WithSubstitute(c, i, ~c.dq.substitute[i]) \in Sm1223Conf(m)
<1>1. \A c \in Sm1221Conf, t \in Texts(TimeMapping) :
       \A g \in DOMAIN c.di : [c EXCEPT !.di[g] = t] \in Sm1221Conf
  BY DEF Sm1221Conf
<1>2. ASSUME NEW m \in Sm1223Mlfb, NEW c \in Sm1223Conf(m)
      PROVE  \A t \in Texts(TimeMapping), g \in DOMAIN c.di : [c EXCEPT !.di[g] = t] \in Sm1223Conf(m)
  BY <1>2 DEF Sm1223Conf
<1>3. ASSUME NEW m \in Sm1223Mlfb, NEW c \in Sm1223Conf(m)
      PROVE  \A t \in Texts(BehaviorMapping) : Sm1223WithBehavior(c, t) \in Sm1223Conf(m)
  BY <1>3 DEF Sm1223Conf, Sm1223WithBehavior
<1>4. ASSUME NEW m \in Sm1223Mlfb, NEW c \in Sm1223Conf(m), NEW i \in DOMAIN c.dq.substitute
      PROVE  Sm1223WithSubstitute(c, i, ~c.dq.substitute[i]) \in Sm1223Conf(m)
  BY <1>4 DEF Sm1223Conf, Sm1223WithSubstitute
<1> QED
  BY <1>1, <1>2, <1>3, <1>4

-----------------------------------------------------------------------------
(* The energy meter.                                                       *)
EmChannelType ==
  [check : [EmChecks -> BOOLEAN], slider : [EmSliders -> SliderValues],
   ct_second_cur : AllSecondCurs, second_curs : SUBSET AllSecondCurs]

EmFollow(chs) ==
  \A i \in EmChannels :
    /\ chs[i].ct_second_cur = chs[0].ct_second_cur
    /\ \A f \in EmSliders \intersect EmCoupledSliders : chs[i].slider[f] = chs[0].slider[f]

EmCurs(chs) ==
  \A i \in EmChannels :
    chs[i].ct_second_cur \in chs[i].second_curs /\ chs[i].second_curs = chs[0].second_curs

EmBase(c) ==
  /\ c.module_version \in EmVersions /\ EmCurs(c.channels)
  /\ c.con_type = "CON_TYPE_0F" => \A i \in EmChannels : c.channels[i].ct_second_cur = "CT_SND_CUR_0"

EmOffers(c) ==
  /\ EmBase(c)
  /\ c.variants = VariantsOf(c.module_version, c.con_type) /\ c.data_variant \in c.variants

EmFollows(c) == Coupled(c) => EmFollow(c.channels)

EmRules(c) == EmOffers(c) /\ EmOthersOff(c)

EmChecksKept(old, c) ==
  \A i \in EmChannels, f \in EmChecks \ {"re_cur_dir"} :
    EmCheckDisabled(old, f, i) => ~c.channels[i].check[f]

EmKept(old, c) ==
  /\ ModuleDisabled(old) => ~c.meter_gate /\ ~c.min_max_cal /\ ~c.diag_line_vol
  /\ EmChecksKept(old, c)

EmSet(old, c) ==
  /\ c \in EmConf
  /\ EmBase(old) => EmBase(c)
  /\ EmOffers(old) => EmOffers(c)
  /\ EmOthersOff(old) => EmKept(old, c)

EmEdited(old, c) == EmSet(old, c) /\ (EmFollows(old) => EmFollows(c))

(* The numbers of the meter; a fraction is within the bounds.              *)
NumberTaken(f, v) == SliderTaken(f, v) \/ v = "frac"

EmInBounds(c) ==
  /\ NumberTaken("line_vol_tol", c.line_vol_tol)
  /\ \A i \in EmChannels, f \in EmSliders : NumberTaken(f, c.channels[i].slider[f])

(* A number that is typed into a field, and with it the numbers that      *)
(* follow it, may be any; every other one is not out of its bounds.        *)
Focused(c, focus) ==
  {e \in SliderEntries : \E t \in focus :
     e[1] = t[1] /\ (e[2] = t[2] \/ (e[1] \in EmCoupledSliders /\ e[2] \in Follows(c, t[2])))}

Numbers(c, focus) ==
  c.mlfb = EmMlfb =>
    \A e \in SliderEntries : e \in Focused(c, focus) \/ NumberTaken(e[1], EmValue(c, e[1], e[2]))

(* What is edited otherwise than by typing.                                *)
EmPicked(old, c) == EmEdited(old, c) /\ (EmInBounds(old) => EmInBounds(c))

LEMMA EmFacts ==
  ASSUME NEW c \in EmConf
  PROVE  /\ c.mlfb = EmMlfb /\ DOMAIN c.channels = EmChannels
         /\ \A i \in EmChannels : c.channels[i] \in EmChannelType
         /\ 0 \in EmChannels
BY DEF EmConf, EmChannelType, EmChannels

LEMMA EmWithChannels ==
  ASSUME NEW c \in EmConf, NEW chs \in [EmChannels -> EmChannelType]
  PROVE  LET new == [c EXCEPT !.channels = chs]
         IN /\ new \in EmConf /\ new.channels = chs
            /\ \A f \in {"con_type", "module_version", "data_variant", "variants", "meter_gate",
                         "min_max_cal", "diag_line_vol", "line_vol_tol"} : new[f] = c[f]
BY DEF EmConf, EmChannelType

LEMMA EmRendered ==
  ASSUME NEW c \in EmConf, NEW old, NEW mounts \in BOOLEAN
  PROVE  LET e == EmEffects(old, c, mounts)
         IN /\ e \in EmConf
            /\ EmBase(c) => EmBase(e)
            /\ EmOffers(c) => EmOffers(e)
            /\ EmFollows(c) => EmFollows(e)
            /\ mounts \/ EmKept(old, c) \/ EmOthersOff(c) => EmOthersOff(e)
            /\ e.con_type = c.con_type /\ e.line_vol_tol = c.line_vol_tol
            /\ \A i \in EmChannels : e.channels[i].slider = c.channels[i].slider
<1> DEFINE Module(value) == CheckEffect(value, ModuleDisabled(old), ModuleDisabled(c), mounts)
           check(i) == [f \in EmChecks |->
                          CheckEffect(c.channels[i].check[f], EmCheckDisabled(old, f, i),
                                      EmCheckDisabled(c, f, i), mounts)]
           chs == [i \in EmChannels |-> [c.channels[i] EXCEPT !.check = check(i)]]
           gates == [c EXCEPT !.meter_gate = Module(@), !.min_max_cal = Module(@),
                              !.diag_line_vol = Module(@)]
           e == EmEffects(old, c, mounts)
<1>1. \A i \in EmChannels : check(i) \in [EmChecks -> BOOLEAN]
  BY EmFacts DEF EmChannelType, CheckEffect
<1>2. e = [gates EXCEPT !.channels = chs]
  BY DEF EmEffects
<1> HIDE DEF check, e
<1>3. /\ chs \in [EmChannels -> EmChannelType]
      /\ \A i \in EmChannels :
           /\ chs[i].check = check(i) /\ chs[i].slider = c.channels[i].slider
           /\ chs[i].ct_second_cur = c.channels[i].ct_second_cur
           /\ chs[i].second_curs = c.channels[i].second_curs
  <2>1. ASSUME NEW i \in EmChannels
        PROVE  /\ chs[i] \in EmChannelType
               /\ chs[i].check = check(i) /\ chs[i].slider = c.channels[i].slider
               /\ chs[i].ct_second_cur = c.channels[i].ct_second_cur
               /\ chs[i].second_curs = c.channels[i].second_curs
    <3>1. c.channels[i] \in EmChannelType /\ check(i) \in [EmChecks -> BOOLEAN]
      BY <1>1, EmFacts
    <3> QED
      BY <3>1 DEF EmChannelType
  <2>2. chs = [i \in EmChannels |-> chs[i]]
    OBVIOUS
  <2> HIDE DEF chs
  <2> QED
    BY <2>1, <2>2
<1>4. /\ gates \in EmConf /\ gates.con_type = c.con_type
      /\ gates.module_version = c.module_version /\ gates.data_variant = c.data_variant
      /\ gates.variants = c.variants /\ gates.line_vol_tol = c.line_vol_tol
      /\ gates.meter_gate = Module(c.meter_gate) /\ gates.min_max_cal = Module(c.min_max_cal)
      /\ gates.diag_line_vol = Module(c.diag_line_vol)
  BY DEF EmConf, CheckEffect
<1> HIDE DEF chs, gates
<1>5. /\ e \in EmConf /\ e.channels = chs
      /\ \A f \in {"con_type", "module_version", "data_variant", "variants", "meter_gate",
                   "min_max_cal", "diag_line_vol", "line_vol_tol"} : e[f] = gates[f]
  BY <1>2, <1>3, <1>4, EmWithChannels
<1>6. /\ e.con_type = c.con_type /\ e.meter_gate = Module(c.meter_gate)
      /\ e.min_max_cal = Module(c.min_max_cal) /\ e.diag_line_vol = Module(c.diag_line_vol)
  BY <1>4, <1>5
<1>9. EmBase(c) => EmBase(e)
  BY <1>3, <1>4, <1>5, EmFacts DEF EmBase, EmCurs
<1>7. (EmOffers(c) => EmOffers(e)) /\ (EmFollows(c) => EmFollows(e))
  BY <1>3, <1>4, <1>5, <1>9, EmFacts DEF EmOffers, EmFollows, EmFollow, Coupled
<1>8. ASSUME mounts \/ EmKept(old, c) \/ EmOthersOff(c)
      PROVE  EmOthersOff(e)
  <2>1. ModuleDisabled(e) => ~e.meter_gate /\ ~e.min_max_cal /\ ~e.diag_line_vol
    BY <1>6, <1>8 DEF ModuleDisabled, EmKept, EmOthersOff, EmModuleOff, EmDisabledOff, CheckEffect
  <2>2. \A i \in EmChannels, f \in EmChecks : EmCheckDisabled(e, f, i) <=> EmCheckDisabled(c, f, i)
    BY <1>6 DEF EmCheckDisabled, CoupledDisabled, ChannelDisabled, Coupled
  <2>3. \A i \in EmChannels, f \in EmChecks \ {"re_cur_dir"} :
          EmCheckDisabled(c, f, i) => ~check(i)[f]
    BY <1>8 DEF EmKept, EmChecksKept, EmOthersOff, EmModuleOff, EmDisabledOff, CheckEffect, check
  <2> QED
    BY <1>3, <1>5, <2>1, <2>2, <2>3 DEF EmOthersOff, EmModuleOff, EmDisabledOff
<1> QED
  BY <1>3, <1>4, <1>5, <1>7, <1>8, <1>9 DEF e

(* An edit of entries of the channels.                                     *)
LEMMA EmEditsChannels ==
  ASSUME NEW c \in EmConf, NEW chs \in [EmChannels -> EmChannelType],
         EmCurs(c.channels) => EmCurs(chs),
         c.con_type = "CON_TYPE_0F" =>
           \A i \in EmChannels : chs[i].ct_second_cur = c.channels[i].ct_second_cur,
         \A i \in EmChannels, f \in EmChecks \ {"re_cur_dir"} :
           EmCheckDisabled(c, f, i) => chs[i].check[f] = c.channels[i].check[f]
  PROVE  LET new == [c EXCEPT !.channels = chs]
         IN /\ EmSet(c, new)
            /\ (Coupled(c) /\ EmFollow(c.channels) => EmFollow(chs)) => EmEdited(c, new)
            /\ (\A i \in EmChannels : chs[i].slider = c.channels[i].slider) =>
                 (EmInBounds(c) => EmInBounds(new))
<1> DEFINE new == [c EXCEPT !.channels = chs]
<1>1. /\ new \in EmConf /\ new.channels = chs
      /\ \A f \in {"con_type", "module_version", "data_variant", "variants", "meter_gate",
                   "min_max_cal", "diag_line_vol", "line_vol_tol"} : new[f] = c[f]
  BY EmWithChannels
<1> HIDE DEF new
<1>2. (EmBase(c) => EmBase(new)) /\ (EmOffers(c) => EmOffers(new))
  BY <1>1 DEF EmOffers, EmBase
<1>3. EmOthersOff(c) => EmKept(c, new)
  BY <1>1 DEF EmOthersOff, EmModuleOff, EmDisabledOff, EmKept, EmChecksKept
<1>4. (Coupled(c) /\ EmFollow(c.channels) => EmFollow(chs)) => (EmFollows(c) => EmFollows(new))
  BY <1>1 DEF EmFollows, Coupled
<1>5. (\A i \in EmChannels : chs[i].slider = c.channels[i].slider) =>
        (EmInBounds(c) => EmInBounds(new))
  BY <1>1 DEF EmInBounds
<1> QED
  BY <1>1, <1>2, <1>3, <1>4, <1>5 DEF EmEdited, EmSet, new

LEMMA EmEditsValue ==
  ASSUME NEW c \in EmConf, NEW e \in SliderEntries, NEW v \in SliderValues
  PROVE  LET new == EmWithValue(c, e[1], e[2], v)
         IN /\ EmSet(c, new)
            /\ ~EmSliderDisabled(c, e[1], e[2]) => EmEdited(c, new)
            /\ \A g \in SliderEntries :
                 EmValue(new, g[1], g[2]) = IF g \in Focused(c, {e}) THEN v ELSE EmValue(c, g[1], g[2])
<1>1. CASE e[1] = "line_vol_tol"
  <2> DEFINE new == [c EXCEPT !.line_vol_tol = v]
  <2>1. /\ new \in EmConf /\ new.line_vol_tol = v /\ new.channels = c.channels
        /\ \A f \in {"con_type", "module_version", "data_variant", "variants", "meter_gate",
                     "min_max_cal", "diag_line_vol"} : new[f] = c[f]
    BY DEF EmConf
  <2>2. EmWithValue(c, e[1], e[2], v) = new
    BY <1>1 DEF EmWithValue
  <2> HIDE DEF new
  <2>3. EmEdited(c, new)
    BY <2>1 DEF EmEdited, EmSet, EmOffers, EmBase, EmFollows, EmOthersOff, EmModuleOff, EmDisabledOff, EmKept, EmChecksKept, Coupled
  <2>4. \A g \in SliderEntries :
          EmValue(new, g[1], g[2]) = IF g \in Focused(c, {e}) THEN v ELSE EmValue(c, g[1], g[2])
    <3>1. "line_vol_tol" \notin EmSliders
      BY EmAssumption DEF EmCoupledSliders
    <3>2. \A g \in SliderEntries : g[1] = "line_vol_tol" <=> g \in Focused(c, {e})
      BY <1>1, <3>1 DEF SliderEntries, Focused
    <3> QED
      BY <2>1, <3>2 DEF EmValue
  <2> QED
    BY <2>2, <2>3, <2>4 DEF EmEdited
<1>2. CASE e[1] # "line_vol_tol"
  <2> DEFINE f == e[1]
             i == e[2]
             new(j) == IF j = i \/ (f \in EmCoupledSliders /\ j \in Follows(c, i))
                       THEN [c.channels[j] EXCEPT !.slider[f] = v] ELSE c.channels[j]
             chs == [j \in EmChannels |-> new(j)]
  <2>1. f \in EmSliders /\ i \in EmChannels
    BY <1>2 DEF SliderEntries
  <2>2. EmWithValue(c, f, i, v) = [c EXCEPT !.channels = chs]
    BY <1>2 DEF EmWithValue
  <2>3. \A j \in EmChannels :
          /\ new(j) \in EmChannelType /\ new(j).check = c.channels[j].check
          /\ new(j).ct_second_cur = c.channels[j].ct_second_cur
          /\ new(j).second_curs = c.channels[j].second_curs
          /\ \A g \in EmSliders \ {f} : new(j).slider[g] = c.channels[j].slider[g]
          /\ new(j).slider[f] = IF j = i \/ (f \in EmCoupledSliders /\ j \in Follows(c, i))
                                THEN v ELSE c.channels[j].slider[f]
    <3> TAKE j \in EmChannels
    <3>1. c.channels[j] \in EmChannelType
      BY EmFacts
    <3> QED
      BY <2>1, <3>1 DEF EmChannelType
  <2> HIDE DEF new
  <2>4. chs \in [EmChannels -> EmChannelType] /\ \A j \in EmChannels : chs[j] = new(j)
    BY <2>3
  <2> HIDE DEF chs
  <2>5. EmCurs(c.channels) => EmCurs(chs)
    BY <2>3, <2>4, EmFacts DEF EmCurs
  <2>6. ASSUME Coupled(c), EmFollow(c.channels), ~EmSliderDisabled(c, f, i)
        PROVE  EmFollow(chs)
    <3>1. f \in EmCoupledSliders => i = 0
      BY <1>2, <2>1, <2>6 DEF EmSliderDisabled, CoupledDisabled, EmChannels
    <3>2. f \in EmCoupledSliders => \A j \in EmChannels : chs[j].slider[f] = v
      BY <2>3, <2>4, <2>6, <3>1 DEF Follows
    <3> QED
      BY <2>3, <2>4, <2>6, <3>2, EmFacts DEF EmFollow
  <2> DEFINE with == [c EXCEPT !.channels = chs]
  <2>7. EmSet(c, with) /\ (~EmSliderDisabled(c, f, i) => EmEdited(c, with))
    <3>1. \A j \in EmChannels, g \in EmChecks \ {"re_cur_dir"} :
            EmCheckDisabled(c, g, j) => chs[j].check[g] = c.channels[j].check[g]
      BY <2>3, <2>4
    <3>2. \A j \in EmChannels : chs[j].ct_second_cur = c.channels[j].ct_second_cur
      BY <2>3, <2>4
    <3> QED
      BY <2>4, <2>5, <2>6, <3>1, <3>2, EmEditsChannels
  <2>8. \A g \in SliderEntries :
          EmValue(with, g[1], g[2]) = IF g \in Focused(c, {e}) THEN v ELSE EmValue(c, g[1], g[2])
    <3>1. with.channels = chs /\ with.line_vol_tol = c.line_vol_tol
      BY <2>4, EmWithChannels
    <3> HIDE DEF with
    <3> SUFFICES ASSUME NEW g \in SliderEntries
                 PROVE  EmValue(with, g[1], g[2]) =
                          IF g \in Focused(c, {e}) THEN v ELSE EmValue(c, g[1], g[2])
      OBVIOUS
    <3>2. "line_vol_tol" \notin EmSliders
      BY EmAssumption DEF EmCoupledSliders
    <3>3. g \in Focused(c, {e}) <=> g[1] = f /\ (g[2] = i \/ (f \in EmCoupledSliders /\ g[2] \in Follows(c, i)))
      BY DEF Focused
    <3>4. CASE g[1] = "line_vol_tol"
      BY <1>2, <3>1, <3>3, <3>4 DEF EmValue
    <3>5. CASE g[1] # "line_vol_tol"
      <4>1. g[1] \in EmSliders /\ g[2] \in EmChannels
        BY <3>5 DEF SliderEntries
      <4>2. EmValue(with, g[1], g[2]) = new(g[2]).slider[g[1]]
        BY <2>4, <3>1, <3>5, <4>1 DEF EmValue
      <4>3. EmValue(c, g[1], g[2]) = c.channels[g[2]].slider[g[1]]
        BY <3>5 DEF EmValue
      <4>4. CASE g[1] = f
        BY <2>3, <3>3, <4>1, <4>2, <4>3, <4>4
      <4>5. CASE g[1] # f
        BY <2>3, <3>3, <4>1, <4>2, <4>3, <4>5
      <4> QED
        BY <4>4, <4>5
    <3> QED
      BY <3>4, <3>5
  <2> HIDE DEF with
  <2>9. EmWithValue(c, f, i, v) = with
    BY <2>2 DEF with
  <2> QED
    BY <2>7, <2>8, <2>9
<1> QED
  BY <1>1, <1>2

LEMMA EmEditsCheck ==
  ASSUME NEW c \in EmConf, NEW i \in EmChannels, NEW f \in EmChecks, ~EmCheckDisabled(c, f, i),
         NEW v \in BOOLEAN
  PROVE  EmPicked(c, EmWithCheck(c, f, i, v))
<1> DEFINE new(j) == IF j = i \/ (f = "re_cur_dir" /\ j \in Follows(c, i))
                     THEN [c.channels[j] EXCEPT !.check[f] = v] ELSE c.channels[j]
           chs == [j \in EmChannels |-> new(j)]
<1>1. EmWithCheck(c, f, i, v) = [c EXCEPT !.channels = chs]
  BY DEF EmWithCheck
<1>2. \A j \in EmChannels :
        /\ new(j) \in EmChannelType /\ new(j).slider = c.channels[j].slider
        /\ new(j).ct_second_cur = c.channels[j].ct_second_cur
        /\ new(j).second_curs = c.channels[j].second_curs
        /\ \A g \in EmChecks \ {f} : new(j).check[g] = c.channels[j].check[g]
        /\ f # "re_cur_dir" /\ j # i => new(j) = c.channels[j]
  <2> TAKE j \in EmChannels
  <2>1. c.channels[j] \in EmChannelType
    BY EmFacts
  <2> QED
    BY <2>1 DEF EmChannelType
<1> HIDE DEF new
<1>3. chs \in [EmChannels -> EmChannelType] /\ \A j \in EmChannels : chs[j] = new(j)
  BY <1>2
<1> HIDE DEF chs
<1>4. (EmCurs(c.channels) => EmCurs(chs)) /\ (EmFollow(c.channels) => EmFollow(chs))
  BY <1>2, <1>3, EmFacts DEF EmCurs, EmFollow
<1>5. \A j \in EmChannels, g \in EmChecks \ {"re_cur_dir"} :
        EmCheckDisabled(c, g, j) => chs[j].check[g] = c.channels[j].check[g]
  BY <1>2, <1>3
<1>6. \A j \in EmChannels : /\ chs[j].slider = c.channels[j].slider
                            /\ chs[j].ct_second_cur = c.channels[j].ct_second_cur
  BY <1>2, <1>3
<1> QED
  BY <1>1, <1>3, <1>4, <1>5, <1>6, EmEditsChannels DEF EmPicked

LEMMA EmEditsSecondCur ==
  ASSUME NEW c \in EmConf, NEW i \in EmChannels, ~SecondCurDisabled(c, i),
         NEW v \in c.channels[i].second_curs
  PROVE  EmPicked(c, EmWithSecondCur(c, i, v))
<1> DEFINE new(j) == IF j \in Follows(c, i) THEN [c.channels[j] EXCEPT !.ct_second_cur = v]
                                             ELSE c.channels[j]
           chs == [j \in EmChannels |-> new(j)]
<1>1. EmWithSecondCur(c, i, v) = [c EXCEPT !.channels = chs]
  BY DEF EmWithSecondCur
<1>2. v \in AllSecondCurs
  BY EmFacts DEF EmChannelType
<1>3. \A j \in EmChannels :
        /\ new(j) \in EmChannelType /\ new(j).slider = c.channels[j].slider
        /\ new(j).check = c.channels[j].check
        /\ new(j).ct_second_cur = IF j \in Follows(c, i) THEN v ELSE c.channels[j].ct_second_cur
        /\ new(j).second_curs = c.channels[j].second_curs
  <2> TAKE j \in EmChannels
  <2>1. c.channels[j] \in EmChannelType
    BY EmFacts
  <2> QED
    BY <1>2, <2>1 DEF EmChannelType
<1> HIDE DEF new
<1>4. chs \in [EmChannels -> EmChannelType] /\ \A j \in EmChannels : chs[j] = new(j)
  BY <1>3
<1> HIDE DEF chs
<1>5. EmCurs(c.channels) => EmCurs(chs)
  BY <1>3, <1>4, EmFacts DEF EmCurs
<1>6. ASSUME Coupled(c), EmFollow(c.channels)
      PROVE  EmFollow(chs)
  <2>1. i = 0 /\ Follows(c, i) = EmChannels
    BY <1>6 DEF SecondCurDisabled, CoupledDisabled, EmChannels, Follows
  <2> QED
    BY <1>3, <1>4, <1>6, <2>1, EmFacts DEF EmFollow
<1>7. c.con_type # "CON_TYPE_0F"
  BY DEF SecondCurDisabled
<1> QED
  BY <1>1, <1>3, <1>4, <1>5, <1>6, <1>7, EmEditsChannels DEF EmPicked

(* The selection of the variants always has one for the version; the ones  *)
(* for the versions in use have the default.                               *)
LEMMA VariantsOffered ==
  ASSUME NEW v, NEW t
  PROVE  /\ VariantsOf(v, t) \in SUBSET AllVariants /\ VariantsOf(v, t) # {}
         /\ v \in EmVersions => "FE" \in VariantsOf(v, t)
<1>1. {"FE", "E0", "E1", "E2", "E3"} \subseteq AllVariants
  BY VariantTable
<1> QED
  BY <1>1 DEF VariantsOf, EmVersions

LEMMA NewVariants ==
  ASSUME NEW c \in EmConf
  PROVE  LET new == WithVariants(c)
         IN /\ new \in EmConf
            /\ new.module_version \in EmVersions => new.data_variant \in new.variants
            /\ new.variants = VariantsOf(c.module_version, c.con_type)
            /\ \A f \in {"con_type", "module_version", "meter_gate", "min_max_cal",
                         "diag_line_vol", "line_vol_tol", "channels"} : new[f] = c[f]
<1> DEFINE variants == VariantsOf(c.module_version, c.con_type)
           variant == IF c.module_version \notin EmVersions THEN CHOOSE v \in variants : TRUE
                      ELSE IF c.data_variant \in variants THEN c.data_variant ELSE "FE"
<1>1. WithVariants(c) = [c EXCEPT !.variants = variants, !.data_variant = variant]
  BY DEF WithVariants
<1>2. /\ variants \in SUBSET AllVariants /\ variant \in AllVariants
      /\ c.module_version \in EmVersions => variant \in variants
  BY VariantsOffered
<1> HIDE DEF variants, variant
<1> DEFINE new == [c EXCEPT !.variants = variants, !.data_variant = variant]
<1>3. new \in EmConf
  BY <1>2 DEF EmConf
<1>4. /\ new.variants = variants /\ new.data_variant = variant
      /\ new.module_version = c.module_version
  BY DEF EmConf
<1>5. \A f \in {"con_type", "module_version", "meter_gate", "min_max_cal", "diag_line_vol",
               "line_vol_tol", "channels"} : new[f] = c[f]
  BY DEF EmConf
<1> HIDE DEF new
<1> QED
  BY <1>1, <1>2, <1>3, <1>4, <1>5 DEF new, variants

LEMMA EmEditsVersion ==
  ASSUME NEW c \in EmConf, ~ModuleDisabled(c), NEW t \in EmVersions
  PROVE  EmPicked(c, EmWithVersion(c, t))
<1> DEFINE fields == {"con_type", "meter_gate", "min_max_cal", "diag_line_vol", "line_vol_tol", "channels"}
           with == [c EXCEPT !.module_version = t]
           new == WithVariants(with)
<1>1. /\ with \in EmConf /\ with.module_version = t
      /\ \A f \in fields : with[f] = c[f]
  BY EmTables DEF EmConf
<1> HIDE DEF with
<1>2. /\ new \in EmConf /\ new.module_version = t /\ new.data_variant \in new.variants
      /\ new.variants = VariantsOf(t, c.con_type)
      /\ \A f \in fields : new[f] = c[f]
  BY <1>1, NewVariants
<1>3. new = EmWithVersion(c, t)
  BY DEF with, EmWithVersion
<1> HIDE DEF new
<1>4. (EmBase(c) => EmBase(new)) /\ (EmOffers(c) => EmOffers(new)) /\ (EmOthersOff(c) => EmKept(c, new))
  BY <1>2 DEF EmOffers, EmBase, EmKept, EmChecksKept, EmOthersOff, EmModuleOff, EmDisabledOff
<1>5. (EmFollows(c) => EmFollows(new)) /\ (EmInBounds(c) => EmInBounds(new))
  BY <1>2 DEF EmFollows, Coupled, EmInBounds
<1> QED
  BY <1>2, <1>3, <1>4, <1>5 DEF EmPicked, EmEdited, EmSet

(* Which secondary currents a channel offers, once the connection type is  *)
(* set; channels that become coupled take the values of channel 0.         *)
LEMMA NewSecondCurs ==
  ASSUME NEW c \in EmConf
  PROVE  LET new == WithSecondCurs(c)
         IN /\ new \in EmConf /\ EmCurs(new.channels)
            /\ \A f \in {"con_type", "module_version", "data_variant", "variants", "meter_gate",
                         "min_max_cal", "diag_line_vol", "line_vol_tol"} : new[f] = c[f]
            /\ \A i \in EmChannels : /\ new.channels[i].check = c.channels[i].check
                                    /\ new.channels[i].slider = c.channels[i].slider
            /\ c.con_type = "CON_TYPE_0F" =>
                 \A i \in EmChannels : new.channels[i].ct_second_cur = "CT_SND_CUR_0"
<1> DEFINE none(i) == [c.channels[i] EXCEPT !.second_curs = {"CT_SND_CUR_0"},
                                            !.ct_second_cur = "CT_SND_CUR_0"]
           all(i) == [c.channels[i] EXCEPT !.second_curs = AllSecondCurs]
           chs == [i \in EmChannels |-> IF c.con_type = "CON_TYPE_0F" THEN none(i) ELSE all(i)]
<1>1. WithSecondCurs(c) = [c EXCEPT !.channels = chs]
  BY DEF WithSecondCurs
<1>2. \A i \in EmChannels :
        /\ none(i) \in EmChannelType /\ none(i).check = c.channels[i].check
        /\ none(i).slider = c.channels[i].slider /\ all(i).slider = c.channels[i].slider
        /\ none(i).second_curs = {"CT_SND_CUR_0"} /\ none(i).ct_second_cur = "CT_SND_CUR_0"
        /\ all(i) \in EmChannelType /\ all(i).check = c.channels[i].check
        /\ all(i).second_curs = AllSecondCurs /\ all(i).ct_second_cur \in AllSecondCurs
  <2> TAKE i \in EmChannels
  <2>1. c.channels[i] \in EmChannelType
    BY EmFacts
  <2>2. "CT_SND_CUR_0" \in AllSecondCurs
    BY EmTables
  <2> QED
    BY <2>1, <2>2 DEF EmChannelType
<1> HIDE DEF none, all
<1>3. /\ chs \in [EmChannels -> EmChannelType] /\ EmCurs(chs)
      /\ \A i \in EmChannels : chs[i].check = c.channels[i].check /\ chs[i].slider = c.channels[i].slider
      /\ c.con_type = "CON_TYPE_0F" => \A i \in EmChannels : chs[i].ct_second_cur = "CT_SND_CUR_0"
  <2>1. \A i \in EmChannels : chs[i] = IF c.con_type = "CON_TYPE_0F" THEN none(i) ELSE all(i)
    OBVIOUS
  <2>2. chs \in [EmChannels -> EmChannelType]
    BY <1>2
  <2>3. 0 \in EmChannels
    BY EmFacts
  <2> HIDE DEF chs
  <2>4. CASE c.con_type = "CON_TYPE_0F"
    <3>1. \A i \in EmChannels : chs[i] = none(i)
      BY <2>1, <2>4
    <3>2. EmCurs(chs)
      BY <1>2, <2>3, <3>1 DEF EmCurs
    <3> QED
      BY <1>2, <2>2, <2>4, <3>1, <3>2
  <2>5. CASE c.con_type # "CON_TYPE_0F"
    <3>1. \A i \in EmChannels : chs[i] = all(i)
      BY <2>1, <2>5
    <3>2. EmCurs(chs)
      BY <1>2, <2>3, <3>1 DEF EmCurs
    <3> QED
      BY <1>2, <2>2, <2>5, <3>1, <3>2
  <2> QED
    BY <2>4, <2>5
<1> HIDE DEF chs
<1> QED
  BY <1>1, <1>3, EmWithChannels

LEMMA NewCoupled ==
  ASSUME NEW c \in EmConf
  PROVE  LET new == WithCoupledFields(c)
         IN /\ new \in EmConf /\ EmFollow(new.channels)
            /\ EmCurs(c.channels) => EmCurs(new.channels)
            /\ EmInBounds(c) => EmInBounds(new)
            /\ \A f \in {"con_type", "module_version", "data_variant", "variants", "meter_gate",
                         "min_max_cal", "diag_line_vol", "line_vol_tol"} : new[f] = c[f]
            /\ \A i \in EmChannels, f \in EmChecks \ {"re_cur_dir"} :
                 new.channels[i].check[f] = c.channels[i].check[f]
<1> DEFINE slider(i) ==
             [f \in EmSliders |-> c.channels[IF f \in EmCoupledSliders THEN 0 ELSE i].slider[f]]
           check(i) == [f \in EmChecks |-> c.channels[IF f = "re_cur_dir" THEN 0 ELSE i].check[f]]
           new(i) == [c.channels[i] EXCEPT !.slider = slider(i), !.check = check(i),
                                           !.ct_second_cur = c.channels[0].ct_second_cur]
           chs == [i \in EmChannels |-> new(i)]
<1>1. WithCoupledFields(c) = [c EXCEPT !.channels = chs]
  BY DEF WithCoupledFields
<1>2. \A i \in EmChannels :
        /\ slider(i) \in [EmSliders -> SliderValues] /\ check(i) \in [EmChecks -> BOOLEAN]
        /\ \A f \in EmSliders \intersect EmCoupledSliders : slider(i)[f] = c.channels[0].slider[f]
        /\ \A f \in EmSliders : \E j \in EmChannels : slider(i)[f] = c.channels[j].slider[f]
        /\ \A f \in EmChecks \ {"re_cur_dir"} : check(i)[f] = c.channels[i].check[f]
  BY EmFacts DEF EmChannelType
<1> HIDE DEF slider, check
<1>3. \A i \in EmChannels :
        /\ new(i) \in EmChannelType /\ new(i).slider = slider(i) /\ new(i).check = check(i)
        /\ new(i).ct_second_cur = c.channels[0].ct_second_cur
        /\ new(i).second_curs = c.channels[i].second_curs
  <2> TAKE i \in EmChannels
  <2>1. c.channels[i] \in EmChannelType /\ c.channels[0] \in EmChannelType
    BY EmFacts
  <2> QED
    BY <1>2, <2>1 DEF EmChannelType
<1> HIDE DEF new
<1>4. chs \in [EmChannels -> EmChannelType] /\ \A i \in EmChannels : chs[i] = new(i)
  BY <1>3
<1> HIDE DEF chs
<1>5. EmFollow(chs) /\ (EmCurs(c.channels) => EmCurs(chs))
  BY <1>2, <1>3, <1>4, EmFacts DEF EmFollow, EmCurs
<1>6. \A i \in EmChannels, f \in EmChecks \ {"re_cur_dir"} :
        chs[i].check[f] = c.channels[i].check[f]
  BY <1>2, <1>3, <1>4
<1>7. \A i \in EmChannels, f \in EmSliders : \E j \in EmChannels : chs[i].slider[f] = c.channels[j].slider[f]
  <2> TAKE i \in EmChannels, f \in EmSliders
  <2>1. \E j \in EmChannels : slider(i)[f] = c.channels[j].slider[f]
    BY <1>2
  <2>2. chs[i].slider = slider(i)
    BY <1>3, <1>4
  <2> QED
    BY <2>1, <2>2
<1> DEFINE with == [c EXCEPT !.channels = chs]
<1>8. /\ with \in EmConf /\ with.channels = chs
      /\ \A f \in {"con_type", "module_version", "data_variant", "variants", "meter_gate",
                   "min_max_cal", "diag_line_vol", "line_vol_tol"} : with[f] = c[f]
  BY <1>4, EmWithChannels
<1> HIDE DEF with
<1>9. EmInBounds(c) => EmInBounds(with)
  BY <1>7, <1>8 DEF EmInBounds
<1> QED
  BY <1>1, <1>5, <1>6, <1>8, <1>9 DEF with

LEMMA EmEditsConType ==
  ASSUME NEW c \in EmConf, NEW t \in Texts(ConTypeMapping)
  PROVE  EmPicked(c, EmWithConType(c, t))
<1> DEFINE fields == {"module_version", "meter_gate", "min_max_cal", "diag_line_vol", "line_vol_tol"}
           offers(d) == /\ c.module_version \in EmVersions => d.data_variant \in d.variants
                        /\ d.variants = VariantsOf(d.module_version, t)
           with == [c EXCEPT !.con_type = t]
           one == WithVariants(with)
           two == WithSecondCurs(one)
           new == EmWithConType(c, t)
<1>1. /\ with \in EmConf /\ with.con_type = t /\ with.channels = c.channels
      /\ \A f \in fields : with[f] = c[f]
  BY DEF EmConf
<1> HIDE DEF with
<1>2. /\ one \in EmConf /\ one.con_type = t /\ one.channels = c.channels
      /\ \A f \in fields : one[f] = c[f]
      /\ offers(one)
  BY <1>1, NewVariants
<1> HIDE DEF one
<1>3. /\ two \in EmConf /\ two.con_type = t /\ EmCurs(two.channels)
      /\ \A f \in fields : two[f] = c[f]
      /\ offers(two)
      /\ \A i \in EmChannels : /\ two.channels[i].check = c.channels[i].check
                              /\ two.channels[i].slider = c.channels[i].slider
      /\ t = "CON_TYPE_0F" => \A i \in EmChannels : two.channels[i].ct_second_cur = "CT_SND_CUR_0"
  BY <1>2, NewSecondCurs
<1>4. new = IF Coupled(two) THEN WithCoupledFields(two) ELSE two
  BY DEF EmWithConType, two, one, with
<1> HIDE DEF two, new
<1>5. EmInBounds(c) => EmInBounds(two)
  BY <1>3 DEF EmInBounds
<1>6. /\ new \in EmConf /\ new.con_type = t /\ EmCurs(new.channels)
      /\ Coupled(new) => EmFollow(new.channels)
      /\ EmInBounds(c) => EmInBounds(new)
      /\ \A f \in fields : new[f] = c[f]
      /\ offers(new)
      /\ \A i \in EmChannels, f \in EmChecks \ {"re_cur_dir"} :
           new.channels[i].check[f] = c.channels[i].check[f]
      /\ t = "CON_TYPE_0F" => \A i \in EmChannels : new.channels[i].ct_second_cur = "CT_SND_CUR_0"
  <2>1. CASE Coupled(two)
    <3>1. t # "CON_TYPE_0F"
      BY <1>3, <2>1 DEF Coupled
    <3> QED
      BY <1>3, <1>4, <1>5, <2>1, <3>1, NewCoupled
  <2>2. CASE ~Coupled(two)
    BY <1>3, <1>4, <1>5, <2>2
  <2> QED
    BY <2>1, <2>2
<1>7. (EmBase(c) => EmBase(new)) /\ (EmOffers(c) => EmOffers(new))
  BY <1>6 DEF EmOffers, EmBase
<1>8. (EmFollows(c) => EmFollows(new)) /\ (EmOthersOff(c) => EmKept(c, new))
  BY <1>6 DEF EmFollows, EmKept, EmChecksKept, EmOthersOff, EmModuleOff, EmDisabledOff
<1> QED
  BY <1>6, <1>7, <1>8 DEF EmPicked, EmEdited, EmSet, new

LEMMA EmEditsModule ==
  ASSUME NEW c \in EmConf, ~ModuleDisabled(c)
  PROVE  /\ \A t \in c.variants : EmPicked(c, [c EXCEPT !.data_variant = t])
         /\ \A t \in Texts(EmRangeMapping) : EmPicked(c, [c EXCEPT !.range = t])
         /\ \A t \in Texts(LineFreqMapping) : EmPicked(c, [c EXCEPT !.line_freq = t])
         /\ \A t \in Texts(PeriodMapping) : EmPicked(c, [c EXCEPT !.period_meters = t])
         /\ EmPicked(c, [c EXCEPT !.meter_gate = ~@])
         /\ EmPicked(c, [c EXCEPT !.min_max_cal = ~@])
         /\ EmPicked(c, [c EXCEPT !.diag_line_vol = ~@])
<1>1. ASSUME NEW new \in EmConf, new.channels = c.channels, new.con_type = c.con_type,
             new.module_version = c.module_version, new.variants = c.variants,
             new.line_vol_tol = c.line_vol_tol,
             new.data_variant \in c.variants \/ new.data_variant = c.data_variant
      PROVE  EmPicked(c, new)
  BY <1>1 DEF EmPicked, EmEdited, EmSet, EmOffers, EmBase, EmFollows, EmKept, EmChecksKept, EmOthersOff, EmModuleOff, EmDisabledOff,
     Coupled, EmInBounds
<1>2. \A t \in c.variants : EmPicked(c, [c EXCEPT !.data_variant = t])
  <2> TAKE t \in c.variants
  <2> DEFINE new == [c EXCEPT !.data_variant = t]
  <2>1. /\ new \in EmConf /\ new.channels = c.channels /\ new.con_type = c.con_type
        /\ new.module_version = c.module_version /\ new.variants = c.variants /\ new.line_vol_tol = c.line_vol_tol
        /\ new.data_variant = t
    BY DEF EmConf
  <2> HIDE DEF new
  <2> QED
    BY <1>1, <2>1 DEF new
<1>3. /\ \A t \in Texts(EmRangeMapping) : EmPicked(c, [c EXCEPT !.range = t])
      /\ \A t \in Texts(LineFreqMapping) : EmPicked(c, [c EXCEPT !.line_freq = t])
      /\ \A t \in Texts(PeriodMapping) : EmPicked(c, [c EXCEPT !.period_meters = t])
  <2>1. ASSUME NEW t \in Texts(EmRangeMapping)
        PROVE  EmPicked(c, [c EXCEPT !.range = t])
    <3> DEFINE new == [c EXCEPT !.range = t]
    <3>1. /\ new \in EmConf /\ new.channels = c.channels /\ new.con_type = c.con_type
          /\ new.module_version = c.module_version /\ new.variants = c.variants /\ new.line_vol_tol = c.line_vol_tol
          /\ new.data_variant = c.data_variant
      BY DEF EmConf
    <3> HIDE DEF new
    <3> QED
      BY <1>1, <3>1 DEF new
  <2>2. ASSUME NEW t \in Texts(LineFreqMapping)
        PROVE  EmPicked(c, [c EXCEPT !.line_freq = t])
    <3> DEFINE new == [c EXCEPT !.line_freq = t]
    <3>1. /\ new \in EmConf /\ new.channels = c.channels /\ new.con_type = c.con_type
          /\ new.module_version = c.module_version /\ new.variants = c.variants /\ new.line_vol_tol = c.line_vol_tol
          /\ new.data_variant = c.data_variant
      BY DEF EmConf
    <3> HIDE DEF new
    <3> QED
      BY <1>1, <3>1 DEF new
  <2>3. ASSUME NEW t \in Texts(PeriodMapping)
        PROVE  EmPicked(c, [c EXCEPT !.period_meters = t])
    <3> DEFINE new == [c EXCEPT !.period_meters = t]
    <3>1. /\ new \in EmConf /\ new.channels = c.channels /\ new.con_type = c.con_type
          /\ new.module_version = c.module_version /\ new.variants = c.variants /\ new.line_vol_tol = c.line_vol_tol
          /\ new.data_variant = c.data_variant
      BY DEF EmConf
    <3> HIDE DEF new
    <3> QED
      BY <1>1, <3>1 DEF new
  <2> QED
    BY <2>1, <2>2, <2>3
<1>4. EmPicked(c, [c EXCEPT !.meter_gate = ~@])
  <2> DEFINE new == [c EXCEPT !.meter_gate = ~@]
  <2>1. /\ new \in EmConf /\ new.channels = c.channels /\ new.con_type = c.con_type
        /\ new.module_version = c.module_version /\ new.variants = c.variants /\ new.line_vol_tol = c.line_vol_tol
        /\ new.data_variant = c.data_variant
    BY DEF EmConf
  <2> HIDE DEF new
  <2> QED
    BY <1>1, <2>1 DEF new
<1>5. EmPicked(c, [c EXCEPT !.min_max_cal = ~@])
  <2> DEFINE new == [c EXCEPT !.min_max_cal = ~@]
  <2>1. /\ new \in EmConf /\ new.channels = c.channels /\ new.con_type = c.con_type
        /\ new.module_version = c.module_version /\ new.variants = c.variants /\ new.line_vol_tol = c.line_vol_tol
        /\ new.data_variant = c.data_variant
    BY DEF EmConf
  <2> HIDE DEF new
  <2> QED
    BY <1>1, <2>1 DEF new
<1>6. EmPicked(c, [c EXCEPT !.diag_line_vol = ~@])
  <2> DEFINE new == [c EXCEPT !.diag_line_vol = ~@]
  <2>1. /\ new \in EmConf /\ new.channels = c.channels /\ new.con_type = c.con_type
        /\ new.module_version = c.module_version /\ new.variants = c.variants /\ new.line_vol_tol = c.line_vol_tol
        /\ new.data_variant = c.data_variant
    BY DEF EmConf
  <2> HIDE DEF new
  <2> QED
    BY <1>1, <2>1 DEF new
<1> QED
  BY <1>2, <1>3, <1>4, <1>5, <1>6

LEMMA EmNew ==
  /\ EmDefault \in EmConf /\ EmOffers(EmDefault) /\ EmFollows(EmDefault)
  /\ EmInBounds(EmDefault)
<1>1. /\ "MOD_VER_112" \in Texts(VersionMapping) /\ "CON_TYPE_0C" \in Texts(ConTypeMapping)
      /\ "RANGE_0A" \in Texts(EmRangeMapping) /\ "LINE_FREQ_2" \in Texts(LineFreqMapping)
      /\ "PERIOD_METERS_0" \in Texts(PeriodMapping)
  BY DEF VersionMapping, ConTypeMapping, EmRangeMapping, LineFreqMapping, PeriodMapping, Texts
<1>2. EmSliders \subseteq DOMAIN SliderDefault
  BY EmAssumption DEF SliderDefault, EmCoupledSliders
<1>3. \A f \in DOMAIN SliderDefault : SliderDefault[f] \in SliderValues
  BY DEF SliderDefault, SliderValues
<1>4. EmChannelDefault \in EmChannelType
  BY <1>2, <1>3, EmTables DEF EmChannelDefault, EmChannelType
<1>5. EmDefault \in EmConf
  BY <1>1, <1>4, VariantTable DEF EmDefault, EmConf, EmChannelType, SliderValues
<1>6. VariantsOf("MOD_VER_112", "CON_TYPE_0C") = AllVariants
  BY DEF VariantsOf
<1>7. EmOffers(EmDefault)
  BY <1>6, VariantTable, EmTables DEF EmOffers, EmBase, EmDefault, EmVersions, EmCurs, EmChannelDefault,
     EmChannels
<1>8. EmFollows(EmDefault)
  BY DEF EmFollows, EmDefault, Coupled
<1>9. EmInBounds(EmDefault)
  <2>1. \A f \in EmSliders : SliderDefault[f] \in {"min", "mid", "max"}
    BY <1>2 DEF SliderDefault
  <2> QED
    BY <2>1 DEF EmInBounds, NumberTaken, SliderTaken, EmDefault, EmChannelDefault
<1> QED
  BY <1>5, <1>7, <1>8, <1>9

(* The schema types everything that is shown.                              *)
LEMMA EmLoaded ==
  ASSUME NEW y, EmAccepted(y)
  PROVE  /\ EmToUI(y) \in EmConf /\ EmBase(EmToUI(y))
         /\ \A focus : Numbers(EmToUI(y), focus)
<1> DEFINE u == EmToUI(y)
<1>1. /\ YamlToUi(VersionMapping, y.module_version) \in Texts(VersionMapping)
      /\ YamlToUi(ConTypeMapping, y.con_type) \in Texts(ConTypeMapping)
      /\ YamlToUi(EmRangeMapping, y.range) \in Texts(EmRangeMapping)
      /\ YamlToUi(LineFreqMapping, y.line_freq) \in Texts(LineFreqMapping)
      /\ YamlToUi(PeriodMapping, y.period_meters) \in Texts(PeriodMapping)
  BY EmTables, YamlToUiTyped DEF EmAccepted
<1>2. YamlToUi(VariantMapping, y.data_variant) \in AllVariants
  <2>1. y.module_version \in Int /\ y.con_type \in Int
    BY DEF EmAccepted
  <2> QED
    BY <2>1, VariantTable, YamlToUiTyped DEF EmAccepted, AllVariants
<1>3. \A i \in EmChannels :
        [check |-> y.channels[i].check, slider |-> y.channels[i].slider,
         ct_second_cur |-> YamlToUi(SecondCurMapping, y.channels[i].ct_second_cur),
         second_curs |-> AllSecondCurs] \in EmChannelType
  <2> TAKE i \in EmChannels
  <2>1. y.channels[i].ct_second_cur \in Codes(SecondCurMapping)
    BY EmTables DEF EmAccepted
  <2>2. YamlToUi(SecondCurMapping, y.channels[i].ct_second_cur) \in AllSecondCurs
    BY <2>1, EmTables, YamlToUiTyped DEF AllSecondCurs
  <2> QED
    BY <2>2 DEF EmAccepted, EmChannelType
<1>4. y.meter_gate \in BOOLEAN /\ y.min_max_cal \in BOOLEAN /\ y.diag_line_vol \in BOOLEAN
  BY DEF EmAccepted
<1>5. y.line_vol_tol \in SliderValues
  BY DEF EmAccepted, SliderTaken, SliderValues
<1>6. u \in EmConf
  BY <1>1, <1>2, <1>3, <1>4, <1>5 DEF EmToUI, EmConf, EmChannelType
<1>7. u.module_version \in EmVersions
  <2>2. y.module_version \in {32, 112}
    BY DEF EmAccepted
  <2>1. PICK k \in 1..6 : /\ VersionMapping[k][2] = y.module_version
                          /\ u.module_version = VersionMapping[k][1]
    BY <2>2, EmTables, YamlToUiFound DEF EmToUI
  <2> QED
    BY <2>1, <2>2 DEF VersionMapping, EmVersions
<1>8. ASSUME u.con_type = "CON_TYPE_0F", NEW i \in EmChannels
      PROVE  u.channels[i].ct_second_cur = "CT_SND_CUR_0"
  <2>5. y.con_type \in Codes(ConTypeMapping)
    BY EmTables DEF EmAccepted
  <2>1. PICK k \in 1..6 : ConTypeMapping[k][2] = y.con_type /\ u.con_type = ConTypeMapping[k][1]
    BY <2>5, EmTables, YamlToUiFound DEF EmToUI
  <2>2. y.con_type = 15
    BY <1>8, <2>1 DEF ConTypeMapping
  <2>3. y.channels[i].ct_second_cur = 0
    BY <2>2 DEF EmAccepted
  <2>4. \E l \in 1..2 : /\ SecondCurMapping[l][2] = 0
                        /\ u.channels[i].ct_second_cur = SecondCurMapping[l][1]
    BY <2>3, EmTables, YamlToUiFound DEF EmToUI
  <2> QED
    BY <2>4 DEF SecondCurMapping
<1>9. \A i \in EmChannels : u.channels[i].second_curs = AllSecondCurs
  BY DEF EmToUI
<1>10. /\ SliderTaken("line_vol_tol", u.line_vol_tol)
       /\ \A i \in EmChannels, f \in EmSliders : SliderTaken(f, u.channels[i].slider[f])
  BY DEF EmToUI, EmAccepted
<1> HIDE DEF u
<1>11. EmCurs(u.channels)
  BY <1>6, <1>9, EmFacts DEF EmCurs, EmChannelType
<1>12. EmBase(u)
  BY <1>7, <1>8, <1>11 DEF EmBase
<1>13. \A focus : Numbers(u, focus)
  BY <1>10 DEF Numbers, NumberTaken, SliderEntries, EmValue
<1> QED
  BY <1>6, <1>12, <1>13 DEF u

-----------------------------------------------------------------------------
(* The slot.  A module is of one family, and its page that of the family.  *)
SlotTyped(c) ==
  /\ c.mlfb \in AiMlfb => c \in AiConf(c.mlfb) /\ AiPairs(c)
  /\ c.mlfb \in RtdMlfb => c \in RtdSlot(c.mlfb)
  /\ c.mlfb \in Sm1223Mlfb => c \in Sm1223Conf(c.mlfb)
  /\ c.mlfb = Sm1221Mlfb => c \in Sm1221Conf
  /\ c.mlfb = EmMlfb => c \in EmConf /\ EmBase(c)
  /\ c.mlfb \notin ModuleTypes \ {SmSensMlfb} => c \in {None, SmSensDefault}

SlotOffers(c) ==
  /\ c.mlfb \in AiMlfb => AiRanges(c)
  /\ c.mlfb \in RtdMlfb => RtdAllCoeffs(c)
  /\ c.mlfb = EmMlfb => EmOffers(c)

SlotRules(c) ==
  /\ c.mlfb \in AiMlfb => AiRules(c)
  /\ c.mlfb \in RtdMlfb => RtdRules(c)
  /\ c.mlfb = EmMlfb => EmRules(c)

SlotShown(c) ==
  /\ c.mlfb \in RtdMlfb => RtdAllOffered(c)
  /\ c.mlfb = EmMlfb => EmFollows(c)

HasEffects == AiMlfb \union RtdMlfb \union {EmMlfb}

Edited(old, c) ==
  /\ c.mlfb = old.mlfb
  /\ old.mlfb \in AiMlfb => AiEdited(old, c)
  /\ old.mlfb \in RtdMlfb => RtdEdited(old, c)
  /\ old.mlfb = EmMlfb => EmSet(old, c)
  /\ old.mlfb \notin HasEffects => SlotTyped(c)

Picked(old, c) ==
  /\ Edited(old, c)
  /\ SlotShown(old) => SlotShown(c)
  /\ Numbers(old, {}) => Numbers(c, {})

(* Why an edit keeps the rules, of a new module and of what was retrieved  *)
(* with no peculiarities: the effects have cleared what cannot be set, and *)
(* only the number that is being typed may be out of its bounds.  The last *)
(* line is what the coupled channels of a new module rest on.              *)
PanelInv ==
  /\ shown \in BOOLEAN
  /\ loaded \in {"no", "tame", "wild", "bad"}
  /\ typing \subseteq SliderEntries
  /\ typing # {} => shown /\ conf.mlfb = EmMlfb
  /\ \A e, f \in typing : e = f
  /\ "mlfb" \in DOMAIN conf
  /\ loaded # "bad" => SlotTyped(conf) /\ Numbers(conf, typing)
  /\ loaded \in {"no", "tame"} => SlotRules(conf)
  /\ loaded = "no" => SlotShown(conf) /\ \A e \in typing : ~EmSliderDisabled(conf, e[1], e[2])

LEMMA Families ==
  /\ AiMlfb \intersect (RtdMlfb \union Sm1223Mlfb) = {} /\ RtdMlfb \intersect Sm1223Mlfb = {}
  /\ {Sm1221Mlfb, SmSensMlfb, EmMlfb, "None"} \intersect (AiMlfb \union RtdMlfb \union Sm1223Mlfb) = {}
  /\ Sm1221Mlfb \notin {SmSensMlfb, EmMlfb, "None"} /\ SmSensMlfb \notin {EmMlfb, "None"}
  /\ EmMlfb # "None"
BY DEF AiMlfb, RtdMlfb, Sm1223Mlfb, Sm1221Mlfb, SmSensMlfb, EmMlfb

LEMMA EffectsOf ==
  ASSUME NEW old, NEW c, NEW mounts
  PROVE  /\ c.mlfb \in AiMlfb => Effects(old, c, mounts) = AiEffects(old, c, mounts)
         /\ c.mlfb \in RtdMlfb => Effects(old, c, mounts) = RtdEffects(old, c, mounts)
         /\ c.mlfb = EmMlfb => Effects(old, c, mounts) = EmEffects(old, c, mounts)
         /\ c.mlfb \notin HasEffects => Effects(old, c, mounts) = c
<1>1. ASSUME c.mlfb \in AiMlfb
      PROVE  Effects(old, c, mounts) = AiEffects(old, c, mounts)
  BY <1>1, Families DEF Effects
<1>2. ASSUME c.mlfb \in RtdMlfb
      PROVE  Effects(old, c, mounts) = RtdEffects(old, c, mounts)
  BY <1>2, Families DEF Effects
<1>3. ASSUME c.mlfb = EmMlfb
      PROVE  Effects(old, c, mounts) = EmEffects(old, c, mounts)
  BY <1>3, Families DEF Effects
<1>4. ASSUME c.mlfb \notin HasEffects
      PROVE  Effects(old, c, mounts) = c
  BY <1>4, Families DEF Effects, HasEffects
<1> QED
  BY <1>1, <1>2, <1>3, <1>4

LEMMA EffectsMlfb ==
  ASSUME NEW old, NEW c, NEW mounts, "mlfb" \in DOMAIN c
  PROVE  /\ "mlfb" \in DOMAIN Effects(old, c, mounts)
         /\ Effects(old, c, mounts).mlfb = c.mlfb
<1>1. /\ "mlfb" \in DOMAIN AiEffects(old, c, mounts)
      /\ AiEffects(old, c, mounts).mlfb = c.mlfb
  BY DEF AiEffects
<1>2. /\ "mlfb" \in DOMAIN RtdEffects(old, c, mounts)
      /\ RtdEffects(old, c, mounts).mlfb = c.mlfb
  BY DEF RtdEffects
<1>3. /\ "mlfb" \in DOMAIN EmEffects(old, c, mounts)
      /\ EmEffects(old, c, mounts).mlfb = c.mlfb
  BY DEF EmEffects
<1> QED
  BY <1>1, <1>2, <1>3, EffectsOf DEF HasEffects

LEMMA TypedMlfb ==
  ASSUME NEW c, SlotTyped(c)
  PROVE  "mlfb" \in DOMAIN c
BY DEF SlotTyped, AiConf, RtdSlot, RtdConf, Sm1223Conf, Sm1221Conf, EmConf, None, SmSensDefault,
   ModuleTypes

(* Of the numbers, rendering changes none.                                 *)
LEMMA NumbersInBounds ==
  ASSUME NEW c, c.mlfb = EmMlfb
  PROVE  Numbers(c, {}) <=> EmInBounds(c)
<1>1. "line_vol_tol" \notin EmSliders
  BY EmAssumption DEF EmCoupledSliders
<1>2. Focused(c, {}) = {}
  BY DEF Focused
<1>3. ASSUME EmInBounds(c)
      PROVE  Numbers(c, {})
  BY <1>3 DEF Numbers, EmInBounds, EmValue, SliderEntries
<1>4. ASSUME Numbers(c, {})
      PROVE  EmInBounds(c)
  <2>1. \A e \in SliderEntries : NumberTaken(e[1], EmValue(c, e[1], e[2]))
    BY <1>2, <1>4 DEF Numbers
  <2>2. NumberTaken("line_vol_tol", c.line_vol_tol)
    <3>1. <<"line_vol_tol", 0>> \in SliderEntries
      BY DEF SliderEntries
    <3> QED
      BY <2>1, <3>1 DEF EmValue
  <2>3. ASSUME NEW i \in EmChannels, NEW f \in EmSliders
        PROVE  NumberTaken(f, c.channels[i].slider[f])
    <3>1. <<f, i>> \in SliderEntries /\ f # "line_vol_tol"
      BY <1>1 DEF SliderEntries
    <3> QED
      BY <2>1, <3>1 DEF EmValue
  <2> QED
    BY <2>2, <2>3 DEF EmInBounds
<1> QED
  BY <1>3, <1>4

LEMMA SameNumbers ==
  ASSUME NEW c, NEW e, e.con_type = c.con_type, e.line_vol_tol = c.line_vol_tol,
         \A i \in EmChannels : e.channels[i].slider = c.channels[i].slider,
         c.mlfb = EmMlfb, NEW focus, Numbers(c, focus)
  PROVE  Numbers(e, focus)
<1>1. \A i : Follows(e, i) = Follows(c, i)
  BY DEF Follows, Coupled
<1>2. Focused(e, focus) = Focused(c, focus)
  BY <1>1 DEF Focused
<1>3. \A g \in SliderEntries : EmValue(e, g[1], g[2]) = EmValue(c, g[1], g[2])
  BY DEF EmValue, SliderEntries
<1> QED
  BY <1>2, <1>3 DEF Numbers

(* A page that is mounted, or rendered after an edit.                      *)
LEMMA Rendered ==
  ASSUME NEW c, SlotTyped(c), NEW old, NEW mounts \in BOOLEAN
  PROVE  LET e == Effects(old, c, mounts)
         IN /\ SlotTyped(e) /\ e.mlfb = c.mlfb
            /\ mounts /\ SlotOffers(c) => SlotRules(e)
            /\ SlotRules(c) => SlotRules(e)
            /\ SlotShown(c) => SlotShown(e)
            /\ \A focus : Numbers(c, focus) => Numbers(e, focus)
<1> DEFINE e == Effects(old, c, mounts)
<1>1. e.mlfb = c.mlfb
  BY EffectsMlfb, TypedMlfb
<1>2. CASE c.mlfb \in AiMlfb
  <2>1. e = AiEffects(old, c, mounts) /\ c \in AiConf(c.mlfb) /\ AiPairs(c)
    BY <1>2, EffectsOf DEF SlotTyped
  <2> HIDE DEF e
  <2>2. /\ e \in AiConf(c.mlfb) /\ AiPairs(e)
        /\ (mounts /\ AiRanges(c)) \/ AiRules(c) => AiRules(e)
    BY <1>2, <2>1, AiRendered
  <2>3. SlotTyped(e)
    BY <1>1, <1>2, <2>2, Families DEF SlotTyped, ModuleTypes
  <2>4. (mounts /\ SlotOffers(c)) \/ SlotRules(c) => SlotRules(e)
    BY <1>1, <1>2, <2>2, Families DEF SlotOffers, SlotRules
  <2>5. SlotShown(e) /\ \A focus : Numbers(e, focus)
    BY <1>1, <1>2, Families DEF SlotShown, Numbers
  <2> QED
    BY <1>1, <2>3, <2>4, <2>5 DEF e
<1>3. CASE c.mlfb \in RtdMlfb
  <2>1. e = RtdEffects(old, c, mounts) /\ c \in RtdSlot(c.mlfb)
    BY <1>3, EffectsOf DEF SlotTyped
  <2> HIDE DEF e
  <2>2. /\ e \in RtdSlot(c.mlfb)
        /\ (mounts /\ RtdAllCoeffs(c)) \/ RtdRules(c) => RtdRules(e)
        /\ RtdAllOffered(c) => RtdAllOffered(e)
    BY <1>3, <2>1, RtdRendered DEF RtdRules
  <2>3. SlotTyped(e)
    BY <1>1, <1>3, <2>2, Families DEF SlotTyped, ModuleTypes
  <2>4. (mounts /\ SlotOffers(c)) \/ SlotRules(c) => SlotRules(e)
    BY <1>1, <1>3, <2>2, Families DEF SlotOffers, SlotRules
  <2>5. (SlotShown(c) => SlotShown(e)) /\ \A focus : Numbers(e, focus)
    BY <1>1, <1>3, <2>2, Families DEF SlotShown, Numbers
  <2> QED
    BY <1>1, <2>3, <2>4, <2>5 DEF e
<1>4. CASE c.mlfb = EmMlfb
  <2>1. e = EmEffects(old, c, mounts) /\ c \in EmConf /\ EmBase(c)
    BY <1>4, EffectsOf DEF SlotTyped
  <2> HIDE DEF e
  <2>2. /\ e \in EmConf /\ EmBase(e)
        /\ (mounts /\ EmOffers(c)) \/ EmRules(c) => EmRules(e)
        /\ EmFollows(c) => EmFollows(e)
        /\ e.con_type = c.con_type /\ e.line_vol_tol = c.line_vol_tol
        /\ \A i \in EmChannels : e.channels[i].slider = c.channels[i].slider
    BY <2>1, EmRendered DEF EmRules
  <2>3. SlotTyped(e)
    BY <1>1, <1>4, <2>2, Families DEF SlotTyped, ModuleTypes
  <2>4. (mounts /\ SlotOffers(c)) \/ SlotRules(c) => SlotRules(e)
    BY <1>1, <1>4, <2>2, Families DEF SlotOffers, SlotRules
  <2>5. SlotShown(c) => SlotShown(e)
    BY <1>1, <1>4, <2>2, Families DEF SlotShown
  <2>6. \A focus : Numbers(c, focus) => Numbers(e, focus)
    BY <1>4, <2>2, SameNumbers
  <2> QED
    BY <1>1, <2>3, <2>4, <2>5, <2>6 DEF e
<1>5. CASE c.mlfb \notin HasEffects
  <2>1. e = c
    BY <1>5, EffectsOf
  <2> HIDE DEF e
  <2>2. SlotRules(c)
    BY <1>5 DEF HasEffects, SlotRules
  <2> QED
    BY <2>1, <2>2 DEF e
<1> QED
  BY <1>2, <1>3, <1>4, <1>5 DEF HasEffects

LEMMA EditRendered ==
  ASSUME NEW old, SlotTyped(old), NEW c, Edited(old, c)
  PROVE  LET e == Effects(old, c, FALSE)
         IN /\ SlotTyped(e) /\ e.mlfb = c.mlfb
            /\ SlotRules(old) => SlotRules(e)
            /\ SlotShown(c) => SlotShown(e)
            /\ \A focus : Numbers(c, focus) => Numbers(e, focus)
<1>1. SlotTyped(c)
  <2>1. CASE c.mlfb \in AiMlfb
    <3>1. AiEdited(old, c)
      BY <2>1 DEF Edited
    <3>2. AiPairs(old)
      BY <2>1 DEF Edited, SlotTyped
    <3>3. c \in AiConf(c.mlfb) /\ AiPairs(c)
      BY <3>1, <3>2 DEF AiEdited, Edited
    <3> QED
      BY <2>1, <3>3, Families DEF SlotTyped, ModuleTypes
  <2>2. CASE c.mlfb \in RtdMlfb
    BY <2>2, Families DEF Edited, RtdEdited, SlotTyped, ModuleTypes
  <2>3. CASE c.mlfb = EmMlfb
    BY <2>3, Families DEF Edited, EmSet, SlotTyped, ModuleTypes
  <2>4. CASE c.mlfb \notin HasEffects
    BY <2>4 DEF Edited
  <2> QED
    BY <2>1, <2>2, <2>3, <2>4 DEF HasEffects
<1> DEFINE e == Effects(old, c, FALSE)
<1>2. /\ SlotTyped(e) /\ e.mlfb = c.mlfb
      /\ SlotShown(c) => SlotShown(e)
      /\ \A focus : Numbers(c, focus) => Numbers(e, focus)
  BY <1>1, Rendered
<1>3. ASSUME c.mlfb \in AiMlfb, AiRules(old)
      PROVE  AiRules(e)
  <2>1. c \in AiConf(c.mlfb) /\ AiRanges(c) /\ AiKept(old, c)
    BY <1>3 DEF Edited, AiEdited
  <2>2. AiRules(AiEffects(old, c, FALSE))
    BY <1>3, <2>1, AiRendered
  <2>3. \A d : Effects(old, c, d) = AiEffects(old, c, d)
    BY <1>3, EffectsOf
  <2> QED
    BY <2>2, <2>3
<1>4. ASSUME c.mlfb \in RtdMlfb, RtdRules(old)
      PROVE  RtdRules(e)
  <2>1. c \in RtdSlot(c.mlfb) /\ RtdAllCoeffs(c) /\ RtdKept(old, c)
    BY <1>4 DEF Edited, RtdEdited, RtdRules
  <2>2. RtdRules(RtdEffects(old, c, FALSE))
    BY <1>4, <2>1, RtdRendered DEF RtdRules
  <2>3. \A d : Effects(old, c, d) = RtdEffects(old, c, d)
    BY <1>4, EffectsOf
  <2> QED
    BY <2>2, <2>3
<1>5. ASSUME c.mlfb = EmMlfb, EmRules(old)
      PROVE  EmRules(e)
  <2>1. c \in EmConf /\ EmOffers(c) /\ EmKept(old, c)
    BY <1>5 DEF Edited, EmSet, EmRules
  <2>2. EmRules(EmEffects(old, c, FALSE))
    BY <2>1, EmRendered DEF EmRules
  <2>3. \A d : Effects(old, c, d) = EmEffects(old, c, d)
    BY <1>5, EffectsOf
  <2> QED
    BY <2>2, <2>3
<1> HIDE DEF e
<1>6. SlotRules(old) => SlotRules(e)
  BY <1>2, <1>3, <1>4, <1>5 DEF SlotRules, Edited
<1> QED
  BY <1>2, <1>6 DEF e

LEMMA NewModule ==
  ASSUME NEW m \in ModuleTypes \union {"None"}
  PROVE  /\ SlotTyped(Default(m)) /\ SlotOffers(Default(m)) /\ SlotShown(Default(m))
         /\ Numbers(Default(m), {})
<1>1. CASE m \in AiMlfb
  <2>1. Default(m) = AiDefault(m) /\ AiDefault(m).mlfb = m
    BY <1>1, Families DEF Default, AiDefault
  <2>2. AiDefault(m) \in AiConf(m) /\ AiPairs(AiDefault(m)) /\ AiRanges(AiDefault(m))
    BY <1>1, AiNew
  <2> QED
    BY <1>1, <2>1, <2>2, Families DEF SlotTyped, SlotOffers, SlotShown, Numbers, ModuleTypes
<1>2. CASE m \in RtdMlfb
  <2>1. Default(m) = RtdDefault(m) /\ RtdDefault(m).mlfb = m
    BY <1>2, Families DEF Default, RtdDefault
  <2>2. /\ RtdDefault(m) \in RtdSlot(m)
        /\ RtdAllOffered(RtdDefault(m)) /\ RtdAllCoeffs(RtdDefault(m))
    BY <1>2, RtdNew
  <2> QED
    BY <1>2, <2>1, <2>2, Families DEF SlotTyped, SlotOffers, SlotShown, Numbers, ModuleTypes
<1>3. CASE m \in Sm1223Mlfb
  <2>1. Default(m) = Sm1223Default(m) /\ Sm1223Default(m).mlfb = m
    BY <1>3, Families DEF Default, Sm1223Default
  <2> QED
    BY <1>3, <2>1, DigitalNew, Families DEF SlotTyped, SlotOffers, SlotShown, Numbers, ModuleTypes
<1>4. CASE m = Sm1221Mlfb
  <2>1. Default(m) = Sm1221Default /\ Sm1221Default.mlfb = m
    BY <1>4, Families DEF Default, Sm1221Default
  <2> QED
    BY <1>4, <2>1, DigitalNew, Families DEF SlotTyped, SlotOffers, SlotShown, Numbers, ModuleTypes
<1>5. CASE m = EmMlfb
  <2>1. Default(m) = EmDefault /\ EmDefault.mlfb = m
    BY <1>5, Families DEF Default, EmDefault
  <2> QED
    BY <1>5, <2>1, EmNew, NumbersInBounds, Families DEF SlotTyped, SlotOffers, SlotShown, ModuleTypes,
       EmOffers
<1>6. CASE m \in {"None", SmSensMlfb}
  <2>1. Default(m) \in {None, SmSensDefault} /\ Default(m).mlfb = m
    <3>1. CASE m = SmSensMlfb
      BY <3>1, Families DEF Default, SmSensDefault
    <3>2. CASE m = "None"
      BY <3>2, Families DEF Default, None
    <3> QED
      BY <1>6, <3>1, <3>2
  <2> QED
    BY <1>6, <2>1, Families DEF SlotTyped, SlotOffers, SlotShown, Numbers
<1> QED
  BY <1>1, <1>2, <1>3, <1>4, <1>5, <1>6 DEF ModuleTypes

LEMMA ToUIMlfb ==
  ASSUME NEW y
  PROVE  /\ "mlfb" \in DOMAIN ToUI(y)
         /\ y.mlfb \in ModuleTypes => ToUI(y).mlfb = y.mlfb
         /\ y.mlfb \notin ModuleTypes => ToUI(y) = None
<1>1. ASSUME y.mlfb \notin ModuleTypes
      PROVE  ToUI(y) = None
  BY <1>1 DEF ToUI, ModuleTypes
<1>2. ASSUME y.mlfb \in ModuleTypes
      PROVE  "mlfb" \in DOMAIN ToUI(y) /\ ToUI(y).mlfb = y.mlfb
  <2>1. CASE y.mlfb \in AiMlfb
    BY <2>1, Families DEF ToUI, AiToUI
  <2>2. CASE y.mlfb \in RtdMlfb
    BY <2>2, Families DEF ToUI, RtdToUI
  <2>3. CASE y.mlfb \in Sm1223Mlfb
    BY <2>3, Families DEF ToUI, Sm1223ToUI
  <2>4. CASE y.mlfb = Sm1221Mlfb
    BY <2>4, Families DEF ToUI, Sm1221ToUI
  <2>5. CASE y.mlfb = SmSensMlfb
    BY <2>5, Families DEF ToUI, SmSensToUI
  <2>6. CASE y.mlfb = EmMlfb
    BY <2>6, Families DEF ToUI, EmToUI
  <2> QED
    BY <1>2, <2>1, <2>2, <2>3, <2>4, <2>5, <2>6 DEF ModuleTypes
<1> QED
  BY <1>1, <1>2 DEF None

(* What is retrieved with no peculiarities follows the rules of the pages: *)
(* the schemas state them with the codes.                                  *)

(* The page and the schema have the same coefficients for a range.         *)
LEMMA CoeffsAgree ==
  \A i \in 1..16, j \in 1..12 :
    RtdMapping.temper_coeff[j][2] \in CoeffsTaken(ThermalRanges[i][2]) <=>
      RtdMapping.temper_coeff[j][1] \in TempCoeffs(ThermalRanges[i][1])
<1> DEFINE m == RtdMapping.temper_coeff
<1>1. /\ m[1] = <<"TEMP_COEFF_0", 0>> /\ m[2] = <<"TEMP_COEFF_1", 1>>
      /\ m[3] = <<"TEMP_COEFF_2", 2>> /\ m[4] = <<"TEMP_COEFF_3", 3>>
      /\ m[5] = <<"TEMP_COEFF_5", 5>> /\ m[6] = <<"TEMP_COEFF_7", 7>>
      /\ m[7] = <<"TEMP_COEFF_8", 8>> /\ m[8] = <<"TEMP_COEFF_9", 9>>
      /\ m[9] = <<"TEMP_COEFF_10", 10>> /\ m[10] = <<"TEMP_COEFF_11", 11>>
      /\ m[11] = <<"TEMP_COEFF_12", 12>> /\ m[12] = <<"TEMP_COEFF_13", 13>>
  BY DEF RtdMapping
<1> HIDE DEF m
<1>2. ASSUME NEW j \in 1..12
      PROVE  /\ m[j][1] = "TEMP_COEFF_0" <=> m[j][2] = 0
             /\ m[j][1] = "TEMP_COEFF_1" <=> m[j][2] = 1
             /\ m[j][1] = "TEMP_COEFF_2" <=> m[j][2] = 2
             /\ m[j][1] = "TEMP_COEFF_3" <=> m[j][2] = 3
             /\ m[j][1] = "TEMP_COEFF_5" <=> m[j][2] = 5
             /\ m[j][1] = "TEMP_COEFF_7" <=> m[j][2] = 7
             /\ m[j][1] = "TEMP_COEFF_8" <=> m[j][2] = 8
             /\ m[j][1] = "TEMP_COEFF_9" <=> m[j][2] = 9
             /\ m[j][1] = "TEMP_COEFF_10" <=> m[j][2] = 10
             /\ m[j][1] = "TEMP_COEFF_11" <=> m[j][2] = 11
             /\ m[j][1] = "TEMP_COEFF_12" <=> m[j][2] = 12
             /\ m[j][1] = "TEMP_COEFF_13" <=> m[j][2] = 13
  BY <1>1
<1>3. ASSUME NEW i \in 1..16, NEW j \in 1..12
      PROVE  m[j][2] \in CoeffsTaken(ThermalRanges[i][2]) <=> m[j][1] \in TempCoeffs(ThermalRanges[i][1])
  BY <1>2 DEF ThermalRanges, CoeffsTaken, TempCoeffs
<1> QED
  BY <1>3 DEF m

LEMMA RtdTame ==
  ASSUME NEW y, y.mlfb \in RtdMlfb, RtdAccepted(y),
         \A i \in DOMAIN y.channels : y.channels[i].type # 0
  PROVE  RtdAllCoeffs(RtdToUI(y))
<1> DEFINE u == RtdToUI(y)
<1>1. ASSUME NEW i \in 0..(RtdChannels[y.mlfb] - 1)
      PROVE  RtdCoeffs(u.channels[i])
  <2> DEFINE ch == y.channels[i]
             type == YamlToUi(RtdMapping.type, ch.type)
             range == YamlToUi(RtdMapping.range[RangeScenario(type)], ch.range)
             coeff == YamlToUi(RtdMapping.temper_coeff, ch.temper_coeff)
  <2>1. RtdChannelAccepted(ch) /\ ch.type # 0
    BY DEF RtdAccepted
  <2>2. /\ u.channels[i].type = type /\ u.channels[i].range = range
        /\ u.channels[i].coeffs = IF type \in ThermalTypes THEN TempCoeffs(range)
                                  ELSE RtdChannelDefault.coeffs
        /\ u.channels[i].temper_coeff = coeff
    BY DEF RtdToUI
  <2>3. u.channels[i] \in RtdChannel
    BY RtdLoadedChannel
  <2> HIDE DEF ch, u
  <2>4. CASE ch.type \in 4..6
    <3>1. type \in ResistanceTypes
      BY <2>4, RtdTypeOf
    <3>2. range \notin Texts(ThermalRanges)
      BY <2>2, <2>3, <3>1, RangesApart DEF RtdChannel
    <3> QED
      BY <2>2, <3>2 DEF RtdCoeffs
  <2>5. CASE ch.type \in 7..9 /\ ch.range \in RangesTaken /\ ch.temper_coeff \in CoeffsTaken(ch.range)
    <3>1. type \in ThermalTypes
      BY <2>5, RtdTypeOf
    <3>2. RtdMapping.range[RangeScenario(type)] = ThermalRanges
      BY <3>1 DEF RangeScenario, ResistanceTypes, ThermalTypes, RtdMapping, RtdRanges
    <3>3. PICK k \in 1..16 : ThermalRanges[k][2] = ch.range /\ range = ThermalRanges[k][1]
      BY <2>5, <3>2, RangeTables, YamlToUiFound
    <3>4. ch.temper_coeff \in Codes(RtdMapping.temper_coeff)
      BY <2>1, CoeffTable DEF RtdChannelAccepted
    <3>5. PICK j \in 1..12 : /\ RtdMapping.temper_coeff[j][2] = ch.temper_coeff
                             /\ coeff = RtdMapping.temper_coeff[j][1]
      BY <3>4, CoeffTable, YamlToUiFound
    <3> HIDE DEF type, range, coeff
    <3>6. coeff \in TempCoeffs(range)
      BY <2>5, <3>3, <3>5, CoeffsAgree
    <3> QED
      BY <2>2, <3>1, <3>6 DEF RtdCoeffs
  <2> QED
    BY <2>1, <2>4, <2>5 DEF RtdChannelAccepted
<1>2. DOMAIN u.channels = 0..(RtdChannels[y.mlfb] - 1)
  BY DEF RtdToUI
<1> HIDE DEF u
<1> QED
  BY <1>1, <1>2 DEF RtdAllCoeffs, u

LEMMA EmTame ==
  ASSUME NEW y, EmAccepted(y), VariantsTaken(y.module_version, y.con_type) = Codes(VariantMapping)
  PROVE  EmOffers(EmToUI(y))
<1> DEFINE u == EmToUI(y)
<1>1. y.module_version = 112 /\ y.con_type \notin {11, 16} /\ y.con_type \in {0, 12, 14, 15}
  <2>1. 227 \in Codes(VariantMapping) /\ 246 \in Codes(VariantMapping)
    BY DEF VariantMapping, Codes
  <2> QED
    BY <2>1 DEF VariantsTaken, EmAccepted
<1>2. u.module_version = "MOD_VER_112"
  <2>1. \E i \in 1..6 : VersionMapping[i][2] = 112 /\ u.module_version = VersionMapping[i][1]
    BY <1>1, EmTables, YamlToUiFound DEF EmToUI
  <2> QED
    BY <2>1 DEF VersionMapping
<1>3. PICK k \in 1..6 : ConTypeMapping[k][2] = y.con_type /\ u.con_type = ConTypeMapping[k][1]
  BY <1>1, EmTables, YamlToUiFound DEF EmToUI
<1>4. u.con_type \notin {"CON_TYPE_0B", "CON_TYPE_10"}
  BY <1>1, <1>3 DEF ConTypeMapping
<1>5. VariantsOf(u.module_version, u.con_type) = AllVariants
  BY <1>2, <1>4 DEF VariantsOf
<1>6. u \in EmConf /\ u.variants = AllVariants /\ EmBase(u)
  BY EmLoaded DEF EmToUI
<1> HIDE DEF u
<1> QED
  BY <1>5, <1>6 DEF EmOffers, EmConf, u

LEMMA Tame ==
  ASSUME NEW y, Accepted(y), ~Wild(y)
  PROVE  SlotRules(ToUI(y))
<1>1. /\ ToUI(y).mlfb # EmMlfb => NothingDisabled(ToUI(y))
      /\ ToUI(y).mlfb = EmMlfb => EmOthersOff(ToUI(y))
  BY DEF Wild, OffButDirection
<1>2. CASE y.mlfb \in AiMlfb
  <2>1. ToUI(y) = AiToUI(y) /\ Accepted(y) = AiAccepted(y) /\ ToUI(y).mlfb = y.mlfb
    BY <1>2, ToUIMlfb, Families DEF ToUI, Accepted, ModuleTypes
  <2>2. AiRanges(ToUI(y))
    BY <1>2, <2>1, AiTame
  <2>3. \A i \in DOMAIN ToUI(y).channels : AiNothingDisabled(ToUI(y).channels[i])
    BY <1>1, <1>2, <2>1, Families DEF NothingDisabled
  <2> QED
    BY <1>2, <2>1, <2>2, <2>3, Families DEF SlotRules, AiRules
<1>3. CASE y.mlfb \in RtdMlfb
  <2>1. ToUI(y) = RtdToUI(y) /\ Accepted(y) = RtdAccepted(y) /\ ToUI(y).mlfb = y.mlfb
    BY <1>3, ToUIMlfb, Families DEF ToUI, Accepted, ModuleTypes
  <2>2. \A i \in DOMAIN y.channels : y.channels[i].type # 0
    BY <1>3 DEF Wild
  <2>3. RtdAllCoeffs(ToUI(y))
    BY <1>3, <2>1, <2>2, RtdTame
  <2>4. \A i \in DOMAIN ToUI(y).channels : RtdNothingDisabled(ToUI(y).channels[i])
    BY <1>1, <1>3, <2>1, Families DEF NothingDisabled
  <2> QED
    BY <1>3, <2>1, <2>3, <2>4, Families DEF SlotRules, RtdRules, RtdNothing
<1>4. CASE y.mlfb = EmMlfb
  <2>1. ToUI(y) = EmToUI(y) /\ Accepted(y) = EmAccepted(y) /\ ToUI(y).mlfb = y.mlfb
    BY <1>4, ToUIMlfb, Families DEF ToUI, Accepted, ModuleTypes
  <2>2. VariantsTaken(y.module_version, y.con_type) = Codes(VariantMapping)
    BY <1>4 DEF Wild
  <2>3. EmOffers(ToUI(y))
    BY <2>1, <2>2, EmTame
  <2>4. EmOthersOff(ToUI(y))
    BY <1>1, <1>4, <2>1
  <2> QED
    BY <1>4, <2>1, <2>3, <2>4, Families DEF SlotRules, EmRules
<1>5. CASE y.mlfb \notin HasEffects
  <2>1. ToUI(y).mlfb \notin HasEffects
    <3>1. CASE y.mlfb \in ModuleTypes
      BY <1>5, <3>1, ToUIMlfb
    <3>2. CASE y.mlfb \notin ModuleTypes
      BY <3>2, ToUIMlfb, Families DEF None, HasEffects
    <3> QED
      BY <3>1, <3>2
  <2> QED
    BY <2>1 DEF HasEffects, SlotRules
<1> QED
  BY <1>2, <1>3, <1>4, <1>5 DEF HasEffects

(* Whatever the schema of its module takes is a configuration of the page. *)
LEMMA Imported ==
  ASSUME NEW y, Accepted(y), Importable(y)
  PROVE  SlotTyped(ToUI(y)) /\ \A focus : Numbers(ToUI(y), focus)
<1>1. CASE y.mlfb \in AiMlfb
  <2>1. ToUI(y) = AiToUI(y) /\ Accepted(y) = AiAccepted(y)
    BY <1>1, Families DEF ToUI, Accepted
  <2>2. AiToUI(y) \in AiConf(y.mlfb) /\ AiPairs(AiToUI(y)) /\ ToUI(y).mlfb = y.mlfb
    BY <1>1, <2>1, AiLoaded, ToUIMlfb DEF ModuleTypes
  <2> QED
    BY <1>1, <2>1, <2>2, Families DEF SlotTyped, Numbers, ModuleTypes
<1>2. CASE y.mlfb \in RtdMlfb
  <2>1. ToUI(y) = RtdToUI(y) /\ Accepted(y) = RtdAccepted(y)
    BY <1>2, Families DEF ToUI, Accepted
  <2>2. RtdToUI(y) \in RtdSlot(y.mlfb) /\ ToUI(y).mlfb = y.mlfb
    BY <1>2, <2>1, RtdLoaded, ToUIMlfb DEF ModuleTypes
  <2> QED
    BY <1>2, <2>1, <2>2, Families DEF SlotTyped, Numbers, ModuleTypes
<1>3. CASE y.mlfb \in Sm1223Mlfb
  <2>1. ToUI(y) = Sm1223ToUI(y) /\ Accepted(y) = Sm1223Accepted(y)
    BY <1>3, Families DEF ToUI, Accepted
  <2>2. Sm1223ToUI(y) \in Sm1223Conf(y.mlfb) /\ ToUI(y).mlfb = y.mlfb
    BY <1>3, <2>1, DigitalLoaded, ToUIMlfb DEF ModuleTypes
  <2> QED
    BY <1>3, <2>1, <2>2, Families DEF SlotTyped, Numbers, ModuleTypes
<1>4. CASE y.mlfb = Sm1221Mlfb
  <2>1. ToUI(y) = Sm1221ToUI(y) /\ Accepted(y) = DiAccepted(y)
    BY <1>4, Families DEF ToUI, Accepted
  <2>2. Sm1221ToUI(y) \in Sm1221Conf /\ ToUI(y).mlfb = y.mlfb
    BY <1>4, <2>1, DigitalLoaded, ToUIMlfb DEF ModuleTypes
  <2> QED
    BY <1>4, <2>1, <2>2, Families DEF SlotTyped, Numbers, ModuleTypes
<1>5. CASE y.mlfb = EmMlfb
  <2>1. ToUI(y) = EmToUI(y) /\ Accepted(y) = EmAccepted(y)
    BY <1>5, Families DEF ToUI, Accepted
  <2>2. /\ EmToUI(y) \in EmConf /\ EmBase(EmToUI(y)) /\ ToUI(y).mlfb = y.mlfb
        /\ \A focus : Numbers(EmToUI(y), focus)
    BY <1>5, <2>1, EmLoaded, ToUIMlfb DEF ModuleTypes
  <2> QED
    BY <1>5, <2>1, <2>2, Families DEF SlotTyped, ModuleTypes
<1>6. CASE y.mlfb = SmSensMlfb
  <2>1. ToUI(y) = SmSensDefault
    BY <1>6, Families DEF ToUI, SmSensToUI, SmSensDefault
  <2> QED
    BY <2>1, Families DEF SlotTyped, Numbers, SmSensDefault
<1>7. CASE y.mlfb \notin ModuleTypes
  <2>1. ToUI(y) = None /\ None.mlfb = "None"
    BY <1>7, ToUIMlfb DEF None
  <2> QED
    BY <2>1, Families DEF SlotTyped, Numbers
<1> QED
  BY <1>1, <1>2, <1>3, <1>4, <1>5, <1>6, <1>7 DEF ModuleTypes

-----------------------------------------------------------------------------
(* The steps.                                                              *)
LEMMA FamilyEdit ==
  ASSUME NEW old, SlotTyped(old), NEW new,
         \/ old.mlfb \in AiMlfb /\ AiEdited(old, new)
         \/ old.mlfb \in RtdMlfb /\ RtdEdited(old, new)
         \/ old.mlfb = EmMlfb /\ EmPicked(old, new)
         \/ old.mlfb \in Sm1223Mlfb /\ new \in Sm1223Conf(old.mlfb)
         \/ old.mlfb = Sm1221Mlfb /\ new \in Sm1221Conf
  PROVE  Picked(old, new)
<1>1. CASE old.mlfb \in AiMlfb /\ AiEdited(old, new)
  <2>1. new.mlfb = old.mlfb
    BY <1>1 DEF AiEdited, AiConf
  <2> QED
    BY <1>1, <2>1, Families DEF Picked, Edited, HasEffects, SlotShown, Numbers
<1>2. CASE old.mlfb \in RtdMlfb /\ RtdEdited(old, new)
  <2>1. new.mlfb = old.mlfb
    BY <1>2 DEF RtdEdited, RtdSlot, RtdConf
  <2>2. RtdAllOffered(old) => RtdAllOffered(new)
    BY <1>2 DEF RtdEdited
  <2> QED
    BY <1>2, <2>1, <2>2, Families DEF Picked, Edited, HasEffects, SlotShown, Numbers
<1>3. CASE old.mlfb = EmMlfb /\ EmPicked(old, new)
  <2>1. new.mlfb = old.mlfb /\ EmSet(old, new)
    BY <1>3 DEF EmPicked, EmEdited, EmSet, EmConf
  <2>2. EmFollows(old) => EmFollows(new)
    BY <1>3 DEF EmPicked, EmEdited
  <2>3. Numbers(old, {}) => Numbers(new, {})
    BY <1>3, <2>1, NumbersInBounds DEF EmPicked
  <2> QED
    BY <1>3, <2>1, <2>2, <2>3, Families DEF Picked, Edited, HasEffects, SlotShown
<1>4. CASE old.mlfb \in Sm1223Mlfb /\ new \in Sm1223Conf(old.mlfb)
  <2>1. new.mlfb = old.mlfb
    BY <1>4 DEF Sm1223Conf
  <2> QED
    BY <1>4, <2>1, Families DEF Picked, Edited, HasEffects, SlotTyped, ModuleTypes, SlotShown, Numbers
<1>5. CASE old.mlfb = Sm1221Mlfb /\ new \in Sm1221Conf
  <2>1. new.mlfb = old.mlfb
    BY <1>5 DEF Sm1221Conf
  <2> QED
    BY <1>5, <2>1, Families DEF Picked, Edited, HasEffects, SlotTyped, ModuleTypes, SlotShown, Numbers
<1> QED
  BY <1>1, <1>2, <1>3, <1>4, <1>5

LEMMA AnEdit ==
  ASSUME PanelInv, NEW new, Edit(new), "mlfb" \in DOMAIN new,
         loaded # "bad" => Picked(conf, new)
  PROVE  PanelInv'
<1>1. /\ conf' = Effects(conf, new, FALSE) /\ shown' = shown /\ typing = {} /\ typing' = {}
      /\ loaded' = loaded
  BY DEF Edit
<1>2. "mlfb" \in DOMAIN conf'
  BY <1>1, EffectsMlfb
<1>3. ASSUME loaded # "bad"
      PROVE  /\ SlotTyped(conf') /\ (SlotRules(conf) => SlotRules(conf'))
             /\ SlotShown(conf) => SlotShown(conf')
             /\ Numbers(conf, {}) => Numbers(conf', {})
  BY <1>1, <1>3, EditRendered DEF PanelInv, Picked
<1> QED
  BY <1>1, <1>2, <1>3 DEF PanelInv

(* Whether a number can be set depends on the connection type alone.       *)
LEMMA ValueKeepsType ==
  ASSUME NEW c \in EmConf, NEW f, NEW i, NEW v
  PROVE  LET e == Effects(c, EmWithValue(c, f, i, v), FALSE)
         IN \A g, j : EmSliderDisabled(e, g, j) <=> EmSliderDisabled(c, g, j)
<1> DEFINE new == EmWithValue(c, f, i, v)
           e == Effects(c, new, FALSE)
<1>1. new.con_type = c.con_type /\ new.mlfb = EmMlfb /\ "con_type" \in DOMAIN new
  BY DEF EmWithValue, EmConf
<1> HIDE DEF new
<1>2. \A d : Effects(c, new, d) = EmEffects(c, new, d)
  BY <1>1, EffectsOf
<1>3. e.con_type = c.con_type
  BY <1>1, <1>2 DEF EmEffects
<1> HIDE DEF e
<1>4. \A g, j : EmSliderDisabled(e, g, j) <=> EmSliderDisabled(c, g, j)
  BY <1>3 DEF EmSliderDisabled, CoupledDisabled, ChannelDisabled, ModuleDisabled, Coupled
<1> QED
  BY <1>4 DEF e, new

LEMMA ModuleChanged ==
  ASSUME PanelInv, NEW m \in Modules, ChangeModule(m)
  PROVE  PanelInv'
<1> DEFINE new == Default(m)
<1>1. SlotTyped(new) /\ SlotOffers(new) /\ SlotShown(new) /\ Numbers(new, {})
  BY PanelAssumption, NewModule
<1>2. /\ conf' = Effects(new, new, TRUE) /\ loaded' = "no" /\ shown' = shown
      /\ typing' = {}
  BY DEF ChangeModule
<1> HIDE DEF new
<1>3. SlotTyped(conf') /\ SlotRules(conf') /\ SlotShown(conf') /\ Numbers(conf', {})
  BY <1>1, <1>2, Rendered
<1> QED
  BY <1>2, <1>3, TypedMlfb DEF PanelInv

LEMMA TabOpened ==
  ASSUME PanelInv, OpenTab
  PROVE  PanelInv'
<1>1. /\ conf' = Effects(conf, conf, TRUE) /\ loaded' = loaded /\ shown' = TRUE
      /\ typing = {} /\ typing' = {}
  BY DEF OpenTab, PanelInv
<1>2. "mlfb" \in DOMAIN conf'
  BY <1>1, EffectsMlfb DEF PanelInv
<1>3. ASSUME loaded # "bad"
      PROVE  /\ SlotTyped(conf') /\ (SlotRules(conf) => SlotRules(conf'))
             /\ SlotShown(conf) => SlotShown(conf')
             /\ Numbers(conf, {}) => Numbers(conf', {})
  BY <1>1, <1>3, Rendered DEF PanelInv
<1> QED
  BY <1>1, <1>2, <1>3 DEF PanelInv

LEMMA Retrieved ==
  ASSUME PanelInv, NEW y, Load(y)
  PROVE  PanelInv'
<1> DEFINE new == ToUI(y)
           remounts == new.mlfb # conf.mlfb
           old == IF remounts THEN new ELSE conf
<1>1. /\ Importable(y) /\ shown' = shown
      /\ conf' = IF shown THEN Effects(old, new, remounts) ELSE new
      /\ typing' = IF remounts THEN {} ELSE typing
      /\ loaded' \in {"tame", "wild", "bad"} /\ (loaded' # "bad" => Accepted(y))
      /\ loaded' = "tame" => ~Wild(y)
  BY DEF Load
<1>2. "mlfb" \in DOMAIN new
  BY ToUIMlfb
<1>3. Accepted(y) => SlotTyped(new) /\ \A focus : Numbers(new, focus)
  BY <1>1, Imported
<1>4. loaded' = "tame" => SlotRules(new)
  BY <1>1, Tame
<1> HIDE DEF new, old
<1>5. "mlfb" \in DOMAIN conf' /\ conf'.mlfb = new.mlfb
  BY <1>1, <1>2, EffectsMlfb
<1>6. ASSUME Accepted(y)
      PROVE  /\ SlotTyped(conf') /\ (SlotRules(new) => SlotRules(conf'))
             /\ \A focus : Numbers(conf', focus)
  BY <1>1, <1>3, <1>6, Rendered
<1>7. loaded' # "no" /\ shown' \in BOOLEAN /\ typing' \subseteq SliderEntries
  BY <1>1 DEF PanelInv
<1>8. /\ typing' # {} => shown' /\ conf'.mlfb = EmMlfb
      /\ \A e, f \in typing' : e = f
  BY <1>1, <1>5 DEF PanelInv
<1> QED
  BY <1>1, <1>4, <1>5, <1>6, <1>7, <1>8 DEF PanelInv

-----------------------------------------------------------------------------
(* The entries that AI and RTD pages share.                                *)
LEMMA SharedEntries ==
  ASSUME PanelInv, ChangeIntegTime \/ ChangePowerAlarm \/ ChangeSmooth
  PROVE  PanelInv'
<1>1. CASE ChangeIntegTime
  <2>1. PICK t \in Texts(AiMapping.integ_time) : Edit([conf EXCEPT !.integ_time = t])
    BY <1>1 DEF ChangeIntegTime, Options
  <2>2. ASSUME loaded # "bad"
        PROVE  Picked(conf, [conf EXCEPT !.integ_time = t])
    <3>1. CASE conf.mlfb \in AiMlfb
      BY <2>2, <3>1, AiEditsModule, FamilyEdit DEF PanelInv, SlotTyped
    <3>2. CASE conf.mlfb \in RtdMlfb
      BY <2>2, <3>2, RtdTables, RtdEditsModule, FamilyEdit DEF PanelInv, SlotTyped
    <3> QED
      BY <1>1, <3>1, <3>2 DEF ChangeIntegTime
  <2>3. "mlfb" \in DOMAIN [conf EXCEPT !.integ_time = t]
    BY DEF PanelInv
  <2> QED
    BY <2>1, <2>2, <2>3, AnEdit
<1>2. CASE ChangePowerAlarm
  <2> DEFINE new == [conf EXCEPT !.power_alarm = ~@]
  <2>1. Edit(new)
    BY <1>2 DEF ChangePowerAlarm
  <2>2. ASSUME loaded # "bad"
        PROVE  Picked(conf, new)
    <3>1. CASE conf.mlfb \in AiMlfb
      <4>1. AiEdited(conf, new)
        BY <2>2, <3>1, AiEditsModule DEF PanelInv, SlotTyped
      <4> QED
        BY <2>2, <3>1, <4>1, FamilyEdit DEF PanelInv
    <3>2. CASE conf.mlfb \in RtdMlfb
      <4>1. RtdEdited(conf, new)
        BY <2>2, <3>2, RtdEditsModule DEF PanelInv, SlotTyped
      <4> QED
        BY <2>2, <3>2, <4>1, FamilyEdit DEF PanelInv
    <3> QED
      BY <1>2, <3>1, <3>2 DEF ChangePowerAlarm
  <2>3. "mlfb" \in DOMAIN new
    BY DEF PanelInv
  <2> QED
    BY <2>1, <2>2, <2>3, AnEdit
<1>3. CASE ChangeSmooth
  <2>1. PICK i \in DOMAIN conf.channels, t \in Texts(AiMapping.smooth) :
          Edit([conf EXCEPT !.channels[i].smooth = t])
    BY <1>3 DEF ChangeSmooth, Options
  <2> DEFINE ch == [conf.channels[i] EXCEPT !.smooth = t]
             new == [conf EXCEPT !.channels[i] = ch]
  <2>2. Edit(new)
    BY <2>1
  <2>3. ASSUME loaded # "bad"
        PROVE  Picked(conf, new)
    <3>1. ASSUME conf.mlfb \in AiMlfb
          PROVE  AiEdited(conf, new)
      <4>1. conf \in AiConf(conf.mlfb) /\ conf.channels[i] \in AiChannelType
        BY <2>3, <3>1, AiChannelFacts DEF PanelInv, SlotTyped
      <4>2. /\ ch \in AiChannelType /\ ch.type = conf.channels[i].type
            /\ ch.range = conf.channels[i].range /\ ch.ranges = conf.channels[i].ranges
            /\ ch.open_wire_alarm = conf.channels[i].open_wire_alarm
            /\ ch.underflow_alarm = conf.channels[i].underflow_alarm
        BY <4>1 DEF AiChannelType
      <4> HIDE DEF ch
      <4> QED
        BY <3>1, <4>1, <4>2, AiEditsChannel
    <3>2. ASSUME conf.mlfb \in RtdMlfb
          PROVE  RtdEdited(conf, new)
      <4>1. conf \in RtdSlot(conf.mlfb) /\ conf.channels[i] \in RtdChannel
        BY <2>3, <3>2, RtdChannelFacts DEF PanelInv, SlotTyped
      <4>2. /\ ch \in RtdChannel /\ KeepsOffers(ch, conf.channels[i])
            /\ ch.open_wire_alarm = conf.channels[i].open_wire_alarm
            /\ ch.overflow_alarm = conf.channels[i].overflow_alarm
            /\ ch.underflow_alarm = conf.channels[i].underflow_alarm
        BY <4>1, RtdTables DEF RtdChannel, RtdChannelType, KeepsOffers, RtdOffered, RtdCoeffs
      <4> HIDE DEF ch
      <4> QED
        BY <3>2, <4>1, <4>2, RtdEditsChannel
    <3> HIDE DEF new
    <3> QED
      BY <1>3, <2>3, <3>1, <3>2, FamilyEdit DEF ChangeSmooth, PanelInv
  <2>4. "mlfb" \in DOMAIN new
    BY DEF PanelInv
  <2> HIDE DEF new
  <2> QED
    BY <2>2, <2>3, <2>4, AnEdit
<1> QED
  BY <1>1, <1>2, <1>3

LEMMA AiEntries ==
  ASSUME PanelInv, AiChangeType \/ AiChangeRange \/ AiChangeAlarm
  PROVE  PanelInv'
<1>1. conf.mlfb \in AiMlfb
  BY DEF AiChangeType, AiChangeRange, AiChangeAlarm
<1>2. ASSUME loaded # "bad"
      PROVE  /\ conf \in AiConf(conf.mlfb)
             /\ \A i \in DOMAIN conf.channels : conf.channels[i] \in AiChannelType
  BY <1>1, <1>2, AiChannelFacts DEF PanelInv, SlotTyped
<1>3. ASSUME NEW new, Edit(new), "mlfb" \in DOMAIN new, loaded # "bad" => AiEdited(conf, new)
      PROVE  PanelInv'
  BY <1>1, <1>3, AnEdit, FamilyEdit DEF PanelInv
<1>4. CASE AiChangeType
  <2>1. PICK i \in DOMAIN conf.channels, t \in Texts(AiMapping.type) :
          AiTypeOffered(i) /\ Edit(AiWithType(conf, i, t))
    BY <1>4 DEF AiChangeType, Options
  <2>2. "mlfb" \in DOMAIN AiWithType(conf, i, t)
    BY DEF PanelInv, AiWithType
  <2>3. loaded # "bad" => AiEdited(conf, AiWithType(conf, i, t))
    BY <1>1, <1>2, <2>1, AiEditsType
  <2> QED
    BY <1>3, <2>1, <2>2, <2>3
<1>5. ASSUME NEW i \in DOMAIN conf.channels, NEW ch, Edit([conf EXCEPT !.channels[i] = ch]),
             loaded # "bad" =>
               /\ ch \in AiChannelType /\ ch.type = conf.channels[i].type
               /\ ch.ranges = conf.channels[i].ranges
               /\ ch.range \in ch.ranges \/ ch.range = conf.channels[i].range
               /\ AiOpenWireDisabled(conf.channels[i]) =>
                    ch.open_wire_alarm = conf.channels[i].open_wire_alarm
               /\ AiUnderflowDisabled(conf.channels[i]) =>
                    ch.underflow_alarm = conf.channels[i].underflow_alarm
      PROVE  PanelInv'
  <2>1. "mlfb" \in DOMAIN [conf EXCEPT !.channels[i] = ch]
    BY DEF PanelInv
  <2>2. loaded # "bad" => AiEdited(conf, [conf EXCEPT !.channels[i] = ch])
    BY <1>1, <1>2, <1>5, AiEditsChannel
  <2> QED
    BY <1>3, <1>5, <2>1, <2>2
<1>6. CASE AiChangeRange
  <2>1. PICK i \in DOMAIN conf.channels :
          \E t \in conf.channels[i].ranges : Edit([conf EXCEPT !.channels[i].range = t])
    BY <1>6 DEF AiChangeRange, Options
  <2>2. PICK t \in conf.channels[i].ranges : Edit([conf EXCEPT !.channels[i].range = t])
    BY <2>1
  <2> DEFINE ch == [conf.channels[i] EXCEPT !.range = t]
  <2>3. ASSUME loaded # "bad"
        PROVE  /\ ch \in AiChannelType /\ ch.type = conf.channels[i].type
               /\ ch.range \in ch.ranges /\ ch.ranges = conf.channels[i].ranges
               /\ ch.open_wire_alarm = conf.channels[i].open_wire_alarm
               /\ ch.underflow_alarm = conf.channels[i].underflow_alarm
    BY <1>2, <2>2, <2>3, AiTables DEF AiChannelType
  <2>4. Edit([conf EXCEPT !.channels[i] = ch])
    BY <2>2
  <2> HIDE DEF ch
  <2> QED
    BY <1>5, <2>3, <2>4
<1>7. CASE AiChangeAlarm
  <2>1. PICK i \in DOMAIN conf.channels :
          \/ /\ ~AiOpenWireDisabled(conf.channels[i])
             /\ Edit([conf EXCEPT !.channels[i].open_wire_alarm = ~@])
          \/ Edit([conf EXCEPT !.channels[i].overflow_alarm = ~@])
          \/ /\ ~AiUnderflowDisabled(conf.channels[i])
             /\ Edit([conf EXCEPT !.channels[i].underflow_alarm = ~@])
    BY <1>7 DEF AiChangeAlarm
  <2> DEFINE was == conf.channels[i]
             open == [was EXCEPT !.open_wire_alarm = ~@]
             over == [was EXCEPT !.overflow_alarm = ~@]
             under == [was EXCEPT !.underflow_alarm = ~@]
  <2>2. ASSUME loaded # "bad", NEW ch \in {open, over, under}
        PROVE  /\ ch \in AiChannelType /\ ch.type = was.type
               /\ ch.range = was.range /\ ch.ranges = was.ranges
               /\ ch # open => ch.open_wire_alarm = was.open_wire_alarm
               /\ ch # under => ch.underflow_alarm = was.underflow_alarm
    BY <1>2, <2>2 DEF AiChannelType
  <2>3. \/ ~AiOpenWireDisabled(was) /\ Edit([conf EXCEPT !.channels[i] = open])
        \/ Edit([conf EXCEPT !.channels[i] = over])
        \/ ~AiUnderflowDisabled(was) /\ Edit([conf EXCEPT !.channels[i] = under])
    BY <2>1
  <2>4. ASSUME loaded # "bad"
        PROVE  over.open_wire_alarm = was.open_wire_alarm /\ under.open_wire_alarm = was.open_wire_alarm
               /\ over.underflow_alarm = was.underflow_alarm
               /\ open.underflow_alarm = was.underflow_alarm
    BY <1>2, <2>4 DEF AiChannelType
  <2> HIDE DEF open, over, under
  <2>5. CASE ~AiOpenWireDisabled(was) /\ Edit([conf EXCEPT !.channels[i] = open])
    BY <1>5, <2>2, <2>4, <2>5
  <2>6. CASE Edit([conf EXCEPT !.channels[i] = over])
    BY <1>5, <2>2, <2>4, <2>6
  <2>7. CASE ~AiUnderflowDisabled(was) /\ Edit([conf EXCEPT !.channels[i] = under])
    BY <1>5, <2>2, <2>4, <2>7
  <2> QED
    BY <2>3, <2>5, <2>6, <2>7
<1> QED
  BY <1>4, <1>6, <1>7

LEMMA RtdEntries ==
  ASSUME PanelInv, RtdChangeType \/ RtdChangeRange \/ RtdChangeThermal \/ RtdChangeAlarm
  PROVE  PanelInv'
<1>1. conf.mlfb \in RtdMlfb
  BY DEF RtdChangeType, RtdChangeRange, RtdChangeThermal, RtdChangeAlarm
<1>2. ASSUME loaded # "bad"
      PROVE  /\ conf \in RtdSlot(conf.mlfb)
             /\ \A i \in DOMAIN conf.channels : conf.channels[i] \in RtdChannel
  BY <1>1, <1>2, RtdChannelFacts DEF PanelInv, SlotTyped
<1>3. ASSUME NEW i \in DOMAIN conf.channels, NEW ch, Edit([conf EXCEPT !.channels[i] = ch]),
             loaded # "bad" =>
               /\ ch \in RtdChannel /\ KeepsOffers(ch, conf.channels[i])
               /\ RtdOffDisabled(conf.channels[i]) =>
                    /\ ch.open_wire_alarm = conf.channels[i].open_wire_alarm
                    /\ ch.overflow_alarm = conf.channels[i].overflow_alarm
               /\ RtdThermalDisabled(conf.channels[i]) =>
                    ch.underflow_alarm = conf.channels[i].underflow_alarm
      PROVE  PanelInv'
  <2>1. "mlfb" \in DOMAIN [conf EXCEPT !.channels[i] = ch]
    BY DEF PanelInv
  <2>2. loaded # "bad" => RtdEdited(conf, [conf EXCEPT !.channels[i] = ch])
    BY <1>1, <1>2, <1>3, RtdEditsChannel
  <2>3. loaded # "bad" => Picked(conf, [conf EXCEPT !.channels[i] = ch])
    BY <1>1, <2>2, FamilyEdit DEF PanelInv
  <2> QED
    BY <1>3, <2>1, <2>3, AnEdit
<1>4. CASE RtdChangeType
  <2>1. PICK i \in DOMAIN conf.channels, t \in Texts(RtdMapping.type) :
          Edit([conf EXCEPT !.channels[i] = RtdWithType(@, t)])
    BY <1>4 DEF RtdChangeType, Options
  <2> DEFINE ch == RtdWithType(conf.channels[i], t)
  <2>2. ASSUME loaded # "bad"
        PROVE  /\ ch \in RtdChannel /\ KeepsOffers(ch, conf.channels[i])
               /\ SameAlarms(ch, conf.channels[i])
    BY <1>2, <2>2, RtdEditsType
  <2>3. Edit([conf EXCEPT !.channels[i] = ch])
    BY <2>1
  <2> HIDE DEF ch
  <2> QED
    BY <1>3, <2>2, <2>3 DEF SameAlarms
<1>5. CASE RtdChangeRange
  <2>1. PICK i \in DOMAIN conf.channels :
          /\ ~RtdOffDisabled(conf.channels[i])
          /\ \E t \in conf.channels[i].ranges :
               Edit([conf EXCEPT !.channels[i] = RtdWithRange(@, t)])
    BY <1>5 DEF RtdChangeRange, Options
  <2>2. PICK t \in conf.channels[i].ranges : Edit([conf EXCEPT !.channels[i] = RtdWithRange(@, t)])
    BY <2>1
  <2> DEFINE ch == RtdWithRange(conf.channels[i], t)
  <2>3. ASSUME loaded # "bad"
        PROVE  /\ ch \in RtdChannel /\ KeepsOffers(ch, conf.channels[i])
               /\ SameAlarms(ch, conf.channels[i])
    BY <1>2, <2>1, <2>2, <2>3, RtdEditsRange
  <2>4. Edit([conf EXCEPT !.channels[i] = ch])
    BY <2>2
  <2> HIDE DEF ch
  <2> QED
    BY <1>3, <2>3, <2>4 DEF SameAlarms
<1>6. CASE RtdChangeThermal
  <2>1. PICK i \in DOMAIN conf.channels :
          \/ \E t \in conf.channels[i].coeffs : Edit([conf EXCEPT !.channels[i].temper_coeff = t])
          \/ \E t \in Texts(RtdMapping.temper_unit) :
               Edit([conf EXCEPT !.channels[i].temper_unit = t])
    BY <1>6 DEF RtdChangeThermal, Options
  <2>2. CASE \E t \in conf.channels[i].coeffs : Edit([conf EXCEPT !.channels[i].temper_coeff = t])
    <3>1. PICK t \in conf.channels[i].coeffs : Edit([conf EXCEPT !.channels[i].temper_coeff = t])
      BY <2>2
    <3> DEFINE ch == [conf.channels[i] EXCEPT !.temper_coeff = t]
    <3>2. ASSUME loaded # "bad"
          PROVE  /\ ch \in RtdChannel /\ KeepsOffers(ch, conf.channels[i])
                 /\ SameAlarms(ch, conf.channels[i])
      <4>1. PICK r \in Texts(ThermalRanges) : conf.channels[i].coeffs = TempCoeffs(r)
        BY <1>2, <3>2 DEF RtdChannel, RtdChannelType
      <4>2. t \in Texts(RtdMapping.temper_coeff)
        BY <4>1, <3>1, CoeffsOffered
      <4> QED
        BY <1>2, <3>1, <3>2, <4>2 DEF RtdChannel, RtdChannelType, KeepsOffers, RtdOffered, RtdCoeffs,
           SameAlarms
    <3>3. Edit([conf EXCEPT !.channels[i] = ch])
      BY <3>1
    <3> HIDE DEF ch
    <3> QED
      BY <1>3, <3>2, <3>3 DEF SameAlarms
  <2>3. CASE \E t \in Texts(RtdMapping.temper_unit) :
               Edit([conf EXCEPT !.channels[i].temper_unit = t])
    <3>1. PICK t \in Texts(RtdMapping.temper_unit) :
            Edit([conf EXCEPT !.channels[i].temper_unit = t])
      BY <2>3
    <3> DEFINE ch == [conf.channels[i] EXCEPT !.temper_unit = t]
    <3>2. ASSUME loaded # "bad"
          PROVE  /\ ch \in RtdChannel /\ KeepsOffers(ch, conf.channels[i])
                 /\ SameAlarms(ch, conf.channels[i])
      BY <1>2, <3>1, <3>2 DEF RtdChannel, RtdChannelType, KeepsOffers, RtdOffered, RtdCoeffs,
           SameAlarms
    <3>3. Edit([conf EXCEPT !.channels[i] = ch])
      BY <3>1
    <3> HIDE DEF ch
    <3> QED
      BY <1>3, <3>2, <3>3 DEF SameAlarms
  <2> QED
    BY <2>1, <2>2, <2>3
<1>7. CASE RtdChangeAlarm
  <2>1. PICK i \in DOMAIN conf.channels :
          \/ /\ ~RtdOffDisabled(conf.channels[i])
             /\ Edit([conf EXCEPT !.channels[i].open_wire_alarm = ~@])
          \/ /\ ~RtdOffDisabled(conf.channels[i])
             /\ Edit([conf EXCEPT !.channels[i].overflow_alarm = ~@])
          \/ /\ ~RtdThermalDisabled(conf.channels[i])
             /\ Edit([conf EXCEPT !.channels[i].underflow_alarm = ~@])
    BY <1>7 DEF RtdChangeAlarm
  <2> DEFINE was == conf.channels[i]
             open == [was EXCEPT !.open_wire_alarm = ~@]
             over == [was EXCEPT !.overflow_alarm = ~@]
             under == [was EXCEPT !.underflow_alarm = ~@]
  <2>2. ASSUME loaded # "bad", NEW ch \in {open, over, under}
        PROVE  ch \in RtdChannel /\ KeepsOffers(ch, was)
    BY <1>2, <2>2 DEF RtdChannel, RtdChannelType, KeepsOffers, RtdOffered, RtdCoeffs
  <2>3. \/ ~RtdOffDisabled(was) /\ Edit([conf EXCEPT !.channels[i] = open])
        \/ ~RtdOffDisabled(was) /\ Edit([conf EXCEPT !.channels[i] = over])
        \/ ~RtdThermalDisabled(was) /\ Edit([conf EXCEPT !.channels[i] = under])
    BY <2>1
  <2>4. ASSUME loaded # "bad"
        PROVE  /\ open.underflow_alarm = was.underflow_alarm
               /\ over.underflow_alarm = was.underflow_alarm
               /\ under.open_wire_alarm = was.open_wire_alarm
               /\ under.overflow_alarm = was.overflow_alarm
    BY <1>2, <2>4 DEF RtdChannel, RtdChannelType
  <2> HIDE DEF open, over, under
  <2>5. CASE ~RtdOffDisabled(was) /\ Edit([conf EXCEPT !.channels[i] = open])
    BY <1>3, <2>2, <2>4, <2>5
  <2>6. CASE ~RtdOffDisabled(was) /\ Edit([conf EXCEPT !.channels[i] = over])
    BY <1>3, <2>2, <2>4, <2>6
  <2>7. CASE ~RtdThermalDisabled(was) /\ Edit([conf EXCEPT !.channels[i] = under])
    BY <1>3, <2>2, <2>4, <2>7
  <2> QED
    BY <2>3, <2>5, <2>6, <2>7
<1> QED
  BY <1>4, <1>5, <1>6, <1>7

LEMMA DigitalEntries ==
  ASSUME PanelInv, ChangeDelayTime \/ ChangeBehaviorWithOD \/ ChangeChSubstitute
  PROVE  PanelInv'
<1>1. ASSUME NEW new, Edit(new), "mlfb" \in DOMAIN new,
             loaded # "bad" => \/ conf.mlfb \in Sm1223Mlfb /\ new \in Sm1223Conf(conf.mlfb)
                               \/ conf.mlfb = Sm1221Mlfb /\ new \in Sm1221Conf
      PROVE  PanelInv'
  BY <1>1, FamilyEdit, AnEdit DEF PanelInv
<1>2. CASE ChangeDelayTime
  <2>1. PICK g \in DOMAIN conf.di, t \in Texts(TimeMapping) : Edit([conf EXCEPT !.di[g] = t])
    BY <1>2 DEF ChangeDelayTime, Options
  <2>2. "mlfb" \in DOMAIN [conf EXCEPT !.di[g] = t]
    BY DEF PanelInv
  <2>3. loaded # "bad" =>
          \/ conf.mlfb \in Sm1223Mlfb /\ [conf EXCEPT !.di[g] = t] \in Sm1223Conf(conf.mlfb)
          \/ conf.mlfb = Sm1221Mlfb /\ [conf EXCEPT !.di[g] = t] \in Sm1221Conf
    BY <1>2, DigitalEdits DEF PanelInv, SlotTyped, ChangeDelayTime
  <2> QED
    BY <1>1, <2>1, <2>2, <2>3
<1>3. CASE ChangeBehaviorWithOD
  <2>1. PICK t \in Texts(BehaviorMapping) : Edit(Sm1223WithBehavior(conf, t))
    BY <1>3 DEF ChangeBehaviorWithOD, Options
  <2>2. "mlfb" \in DOMAIN Sm1223WithBehavior(conf, t)
    BY DEF PanelInv, Sm1223WithBehavior
  <2>3. loaded # "bad" =>
          conf.mlfb \in Sm1223Mlfb /\ Sm1223WithBehavior(conf, t) \in Sm1223Conf(conf.mlfb)
    BY <1>3, DigitalEdits DEF PanelInv, SlotTyped, ChangeBehaviorWithOD
  <2> QED
    BY <1>1, <2>1, <2>2, <2>3
<1>4. CASE ChangeChSubstitute
  <2>1. PICK i \in DOMAIN conf.dq.substitute :
          Edit(Sm1223WithSubstitute(conf, i, ~conf.dq.substitute[i]))
    BY <1>4 DEF ChangeChSubstitute
  <2> DEFINE new == Sm1223WithSubstitute(conf, i, ~conf.dq.substitute[i])
  <2>2. "mlfb" \in DOMAIN new
    BY DEF PanelInv, Sm1223WithSubstitute
  <2>3. loaded # "bad" => conf.mlfb \in Sm1223Mlfb /\ new \in Sm1223Conf(conf.mlfb)
    BY <1>4, DigitalEdits DEF PanelInv, SlotTyped, ChangeChSubstitute
  <2> HIDE DEF new
  <2>4. Edit(new)
    BY <2>1 DEF new
  <2> QED
    BY <1>1, <2>2, <2>3, <2>4
<1> QED
  BY <1>2, <1>3, <1>4

LEMMA EmDragged ==
  ASSUME NEW c \in EmConf, NEW e \in SliderEntries, NEW v \in Dragged,
         ~EmSliderDisabled(c, e[1], e[2])
  PROVE  EmPicked(c, EmWithValue(c, e[1], e[2], v))
<1> DEFINE new == EmWithValue(c, e[1], e[2], v)
<1>1. v \in SliderValues /\ \A f : NumberTaken(f, v)
  BY DEF Dragged, SliderValues, NumberTaken, SliderTaken
<1>2. /\ EmEdited(c, new)
      /\ \A g \in SliderEntries :
           EmValue(new, g[1], g[2]) = v \/ EmValue(new, g[1], g[2]) = EmValue(c, g[1], g[2])
  BY <1>1, EmEditsValue
<1> HIDE DEF new
<1>3. c.mlfb = EmMlfb /\ new.mlfb = EmMlfb
  BY <1>2 DEF EmEdited, EmSet, EmConf
<1>4. Focused(c, {}) = {} /\ Focused(new, {}) = {}
  BY DEF Focused
<1>5. Numbers(c, {}) => Numbers(new, {})
  BY <1>1, <1>2, <1>3, <1>4 DEF Numbers
<1>6. EmInBounds(c) => EmInBounds(new)
  BY <1>3, <1>5, NumbersInBounds
<1> QED
  BY <1>2, <1>6 DEF EmPicked, new

LEMMA EmEntries ==
  ASSUME PanelInv, EmChangeConType \/ EmChangeModule \/ EmChangeCheck \/ EmChangeSecondCur \/ EmDrag
  PROVE  PanelInv'
<1>1. conf.mlfb = EmMlfb
  BY DEF EmChangeConType, EmChangeModule, EmChangeCheck, EmChangeSecondCur, EmDrag
<1>2. loaded # "bad" => conf \in EmConf /\ EmBase(conf)
  BY <1>1 DEF PanelInv, SlotTyped
<1>3. ASSUME NEW new, Edit(new), "mlfb" \in DOMAIN new, loaded # "bad" => EmPicked(conf, new)
      PROVE  PanelInv'
  BY <1>1, <1>3, AnEdit, FamilyEdit DEF PanelInv
<1>4. CASE EmChangeConType
  <2>1. PICK t \in Texts(ConTypeMapping) : Edit(EmWithConType(conf, t))
    BY <1>4 DEF EmChangeConType, Options
  <2>2. "mlfb" \in DOMAIN EmWithConType(conf, t)
    BY DEF PanelInv, EmWithConType, WithCoupledFields, WithSecondCurs, WithVariants
  <2>3. loaded # "bad" => EmPicked(conf, EmWithConType(conf, t))
    BY <1>2, EmEditsConType
  <2> QED
    BY <1>3, <2>1, <2>2, <2>3
<1>5. CASE EmChangeModule
  <2>1. \/ \E t \in EmVersions : Edit(EmWithVersion(conf, t))
        \/ \E t \in conf.variants : Edit([conf EXCEPT !.data_variant = t])
        \/ \E t \in Texts(EmRangeMapping) : Edit([conf EXCEPT !.range = t])
        \/ \E t \in Texts(LineFreqMapping) : Edit([conf EXCEPT !.line_freq = t])
        \/ \E t \in Texts(PeriodMapping) : Edit([conf EXCEPT !.period_meters = t])
        \/ Edit([conf EXCEPT !.meter_gate = ~@])
        \/ Edit([conf EXCEPT !.min_max_cal = ~@])
        \/ Edit([conf EXCEPT !.diag_line_vol = ~@])
    BY <1>5 DEF EmChangeModule, Options
  <2>2. ASSUME NEW t \in EmVersions, Edit(EmWithVersion(conf, t))
        PROVE  PanelInv'
    <3>1. loaded # "bad" => EmPicked(conf, EmWithVersion(conf, t))
      BY <1>2, <1>5, EmEditsVersion DEF EmChangeModule
    <3>2. "mlfb" \in DOMAIN EmWithVersion(conf, t)
      BY DEF PanelInv, EmWithVersion, WithVariants
    <3> QED
      BY <1>3, <2>2, <3>1, <3>2
  <2>3. ASSUME NEW t \in conf.variants, Edit([conf EXCEPT !.data_variant = t])
        PROVE  PanelInv'
    <3>1. loaded # "bad" => EmPicked(conf, [conf EXCEPT !.data_variant = t])
      BY <1>2, <1>5, EmEditsModule DEF EmChangeModule
    <3>2. "mlfb" \in DOMAIN [conf EXCEPT !.data_variant = t]
      BY DEF PanelInv
    <3> QED
      BY <1>3, <2>3, <3>1, <3>2
  <2>4. ASSUME NEW t \in Texts(EmRangeMapping), Edit([conf EXCEPT !.range = t])
        PROVE  PanelInv'
    <3>1. loaded # "bad" => EmPicked(conf, [conf EXCEPT !.range = t])
      BY <1>2, <1>5, EmEditsModule DEF EmChangeModule
    <3>2. "mlfb" \in DOMAIN [conf EXCEPT !.range = t]
      BY DEF PanelInv
    <3> QED
      BY <1>3, <2>4, <3>1, <3>2
  <2>5. ASSUME NEW t \in Texts(LineFreqMapping), Edit([conf EXCEPT !.line_freq = t])
        PROVE  PanelInv'
    <3>1. loaded # "bad" => EmPicked(conf, [conf EXCEPT !.line_freq = t])
      BY <1>2, <1>5, EmEditsModule DEF EmChangeModule
    <3>2. "mlfb" \in DOMAIN [conf EXCEPT !.line_freq = t]
      BY DEF PanelInv
    <3> QED
      BY <1>3, <2>5, <3>1, <3>2
  <2>6. ASSUME NEW t \in Texts(PeriodMapping), Edit([conf EXCEPT !.period_meters = t])
        PROVE  PanelInv'
    <3>1. loaded # "bad" => EmPicked(conf, [conf EXCEPT !.period_meters = t])
      BY <1>2, <1>5, EmEditsModule DEF EmChangeModule
    <3>2. "mlfb" \in DOMAIN [conf EXCEPT !.period_meters = t]
      BY DEF PanelInv
    <3> QED
      BY <1>3, <2>6, <3>1, <3>2
  <2>7. CASE Edit([conf EXCEPT !.meter_gate = ~@])
    <3>1. loaded # "bad" => EmPicked(conf, [conf EXCEPT !.meter_gate = ~@])
      BY <1>2, <1>5, EmEditsModule DEF EmChangeModule
    <3> DEFINE new == [conf EXCEPT !.meter_gate = ~@]
    <3>2. "mlfb" \in DOMAIN new
      BY DEF PanelInv
    <3> QED
      BY <1>3, <2>7, <3>1, <3>2
  <2>8. CASE Edit([conf EXCEPT !.min_max_cal = ~@])
    <3>1. loaded # "bad" => EmPicked(conf, [conf EXCEPT !.min_max_cal = ~@])
      BY <1>2, <1>5, EmEditsModule DEF EmChangeModule
    <3> DEFINE new == [conf EXCEPT !.min_max_cal = ~@]
    <3>2. "mlfb" \in DOMAIN new
      BY DEF PanelInv
    <3> QED
      BY <1>3, <2>8, <3>1, <3>2
  <2>9. CASE Edit([conf EXCEPT !.diag_line_vol = ~@])
    <3>1. loaded # "bad" => EmPicked(conf, [conf EXCEPT !.diag_line_vol = ~@])
      BY <1>2, <1>5, EmEditsModule DEF EmChangeModule
    <3> DEFINE new == [conf EXCEPT !.diag_line_vol = ~@]
    <3>2. "mlfb" \in DOMAIN new
      BY DEF PanelInv
    <3> QED
      BY <1>3, <2>9, <3>1, <3>2
  <2> QED
    BY <2>1, <2>2, <2>3, <2>4, <2>5, <2>6, <2>7, <2>8, <2>9
<1>6. CASE EmChangeCheck
  <2>1. PICK i \in EmChannels, f \in EmChecks :
          ~EmCheckDisabled(conf, f, i) /\ Edit(EmWithCheck(conf, f, i, ~conf.channels[i].check[f]))
    BY <1>6 DEF EmChangeCheck
  <2> DEFINE v == ~conf.channels[i].check[f]
  <2>2. "mlfb" \in DOMAIN EmWithCheck(conf, f, i, v)
    BY DEF PanelInv, EmWithCheck
  <2>3. v \in BOOLEAN
    OBVIOUS
  <2> HIDE DEF v
  <2>4. loaded # "bad" => EmPicked(conf, EmWithCheck(conf, f, i, v))
    BY <1>2, <2>1, <2>3, EmEditsCheck
  <2>5. Edit(EmWithCheck(conf, f, i, v))
    BY <2>1 DEF v
  <2> QED
    BY <1>3, <2>2, <2>4, <2>5
<1>7. CASE EmChangeSecondCur
  <2>1. PICK i \in EmChannels :
          /\ ~SecondCurDisabled(conf, i)
          /\ \E t \in conf.channels[i].second_curs : Edit(EmWithSecondCur(conf, i, t))
    BY <1>7 DEF EmChangeSecondCur
  <2>2. PICK t \in conf.channels[i].second_curs : Edit(EmWithSecondCur(conf, i, t))
    BY <2>1
  <2>3. "mlfb" \in DOMAIN EmWithSecondCur(conf, i, t)
    BY DEF PanelInv, EmWithSecondCur
  <2>4. loaded # "bad" => EmPicked(conf, EmWithSecondCur(conf, i, t))
    BY <1>2, <2>1, EmEditsSecondCur
  <2> QED
    BY <1>3, <2>2, <2>3, <2>4
<1>8. CASE EmDrag
  <2>1. PICK e \in SliderEntries, v \in Dragged :
          ~EmSliderDisabled(conf, e[1], e[2]) /\ Edit(EmWithValue(conf, e[1], e[2], v))
    BY <1>8 DEF EmDrag
  <2>2. "mlfb" \in DOMAIN EmWithValue(conf, e[1], e[2], v)
    BY DEF PanelInv, EmWithValue
  <2>3. loaded # "bad" => EmPicked(conf, EmWithValue(conf, e[1], e[2], v))
    BY <1>2, <2>1, EmDragged
  <2> QED
    BY <1>3, <2>1, <2>2, <2>3
<1> QED
  BY <1>4, <1>5, <1>6, <1>7, <1>8

(* What a number entry that has the focus does, and what leaving it does:  *)
(* of a new module only that entry changes, as it is one that can be set;  *)
(* of what was retrieved it may be one that is disabled since, then the    *)
(* rules still hold.                                                       *)
LEMMA NumberSet ==
  ASSUME NEW c \in EmConf, EmBase(c), NEW e \in SliderEntries, NEW v \in SliderValues
  PROVE  LET new == EmWithValue(c, e[1], e[2], v)
             d   == Effects(c, new, FALSE)
         IN /\ SlotTyped(d) /\ d.mlfb = EmMlfb
            /\ SlotRules(c) => SlotRules(d)
            /\ ~EmSliderDisabled(c, e[1], e[2]) /\ SlotShown(c) => SlotShown(d)
            /\ Numbers(c, {}) \/ Numbers(c, {e}) => Numbers(d, {e})
            /\ (Numbers(c, {e}) /\ \A f : NumberTaken(f, v)) => Numbers(d, {})
<1> DEFINE new == EmWithValue(c, e[1], e[2], v)
           d   == Effects(c, new, FALSE)
<1>1. /\ EmSet(c, new)
      /\ ~EmSliderDisabled(c, e[1], e[2]) => EmEdited(c, new)
      /\ \A g \in SliderEntries :
           EmValue(new, g[1], g[2]) = IF g \in Focused(c, {e}) THEN v ELSE EmValue(c, g[1], g[2])
  BY EmEditsValue
<1>2. new.con_type = c.con_type
  BY DEF EmWithValue, EmConf
<1> HIDE DEF new
<1>3. c.mlfb = EmMlfb /\ new.mlfb = EmMlfb /\ SlotTyped(c)
  BY <1>1, Families DEF EmSet, EmConf, SlotTyped, ModuleTypes
<1>4. Edited(c, new)
  BY <1>1, <1>3, Families DEF Edited, HasEffects
<1>5. ~EmSliderDisabled(c, e[1], e[2]) /\ SlotShown(c) => SlotShown(new)
  BY <1>1, <1>3, Families DEF SlotShown, EmEdited
<1>6. /\ \A i : Follows(new, i) = Follows(c, i)
      /\ Focused(c, {}) = {}
  BY <1>2 DEF Follows, Coupled, Focused
<1>7. Focused(new, {e}) = Focused(c, {e})
  BY <1>6 DEF Focused
<1>8. Numbers(c, {}) \/ Numbers(c, {e}) => Numbers(new, {e})
  BY <1>1, <1>3, <1>6, <1>7 DEF Numbers
<1>9. (Numbers(c, {e}) /\ \A f : NumberTaken(f, v)) => Numbers(new, {})
  BY <1>1, <1>3, <1>6 DEF Numbers
<1>10. /\ SlotTyped(d) /\ d.mlfb = new.mlfb
       /\ SlotRules(c) => SlotRules(d)
       /\ SlotShown(new) => SlotShown(d)
       /\ \A focus : Numbers(new, focus) => Numbers(d, focus)
  BY <1>3, <1>4, EditRendered
<1> HIDE DEF d
<1> QED
  BY <1>3, <1>5, <1>8, <1>9, <1>10 DEF d, new

LEMMA NumberEntries ==
  ASSUME PanelInv, EmType \/ EmBlur
  PROVE  PanelInv'
<1>1. CASE EmType
  <2>1. PICK e \in SliderEntries, v \in Typed :
          /\ typing \subseteq {e} /\ ~EmSliderDisabled(conf, e[1], e[2])
          /\ conf' = Effects(conf, EmWithValue(conf, e[1], e[2], v), FALSE)
          /\ typing' = {e}
    BY <1>1 DEF EmType
  <2>2. conf.mlfb = EmMlfb /\ shown /\ shown' = shown /\ loaded' = loaded
    BY <1>1 DEF EmType
  <2> DEFINE new == EmWithValue(conf, e[1], e[2], v)
  <2>3. "mlfb" \in DOMAIN new /\ new.mlfb = conf.mlfb
    BY DEF PanelInv, EmWithValue
  <2> HIDE DEF new
  <2>4. conf' = Effects(conf, new, FALSE)
    BY <2>1 DEF new
  <2>5. "mlfb" \in DOMAIN conf' /\ conf'.mlfb = EmMlfb
    BY <2>2, <2>3, <2>4, EffectsMlfb
  <2>6. v \in SliderValues /\ (typing = {} \/ typing = {e})
    BY <2>1, PanelAssumption
  <2>7. loaded # "bad" => conf \in EmConf /\ EmBase(conf)
    BY <2>2 DEF PanelInv, SlotTyped
  <2>8. ASSUME loaded # "bad"
        PROVE  /\ SlotTyped(conf')
               /\ SlotRules(conf) => SlotRules(conf')
               /\ SlotShown(conf) => SlotShown(conf')
               /\ Numbers(conf, {}) \/ Numbers(conf, {e}) => Numbers(conf', {e})
    BY <2>1, <2>4, <2>6, <2>7, <2>8, NumberSet DEF new
  <2>9. loaded # "bad" => ~EmSliderDisabled(conf', e[1], e[2])
    BY <2>1, <2>7, ValueKeepsType
  <2> QED
    BY <2>1, <2>2, <2>5, <2>6, <2>8, <2>9 DEF PanelInv
<1>2. CASE EmBlur
  <2>1. PICK e \in typing :
          conf' = Effects(conf, EmWithValue(conf, e[1], e[2], Clamp(EmValue(conf, e[1], e[2]))), FALSE)
    BY <1>2 DEF EmBlur
  <2>2. /\ typing' = {} /\ shown' = shown /\ loaded' = loaded /\ e \in SliderEntries
        /\ conf.mlfb = EmMlfb /\ typing = {e}
    BY <1>2 DEF EmBlur, PanelInv
  <2> DEFINE v == Clamp(EmValue(conf, e[1], e[2]))
             new == EmWithValue(conf, e[1], e[2], v)
  <2>3. "mlfb" \in DOMAIN new
    BY DEF PanelInv, EmWithValue
  <2>4. "mlfb" \in DOMAIN conf'
    BY <2>1, <2>3, EffectsMlfb
  <2>5. ASSUME loaded # "bad"
        PROVE  /\ SlotTyped(conf')
               /\ SlotRules(conf) => SlotRules(conf')
               /\ ~EmSliderDisabled(conf, e[1], e[2]) /\ SlotShown(conf) => SlotShown(conf')
               /\ Numbers(conf, {e}) => Numbers(conf', {})
    <3>1. conf \in EmConf /\ EmBase(conf)
      BY <2>2, <2>5 DEF PanelInv, SlotTyped
    <3>2. EmValue(conf, e[1], e[2]) \in SliderValues
      <4>1. CASE e[1] = "line_vol_tol"
        BY <3>1, <4>1 DEF EmValue, EmConf
      <4>2. CASE e[1] # "line_vol_tol"
        <5>1. e[1] \in EmSliders /\ e[2] \in EmChannels
          BY <2>2, <4>2 DEF SliderEntries
        <5>2. conf.channels[e[2]] \in EmChannelType
          BY <3>1, <5>1, EmFacts
        <5> QED
          BY <4>2, <5>1, <5>2 DEF EmValue, EmChannelType
      <4> QED
        BY <4>1, <4>2
    <3>3. v \in {"min", "mid", "frac", "max"}
      BY <3>2 DEF Clamp, SliderValues
    <3>4. v \in SliderValues /\ \A f : NumberTaken(f, v)
      BY <3>3 DEF SliderValues, NumberTaken, SliderTaken
    <3> HIDE DEF v
    <3>5. conf' = Effects(conf, EmWithValue(conf, e[1], e[2], v), FALSE)
      BY <2>1 DEF v
    <3> QED
      BY <2>2, <3>1, <3>4, <3>5, NumberSet
  <2> QED
    BY <2>2, <2>4, <2>5 DEF PanelInv
<1> QED
  BY <1>1, <1>2

(* Every page keeps its rules, by whatever the user does on it.            *)
THEOREM PagesKeepTheirRules == Spec => []PanelInv
<1>1. Init => PanelInv
  <2> SUFFICES ASSUME Init
               PROVE  PanelInv
    OBVIOUS
  <2>1. conf = None /\ conf.mlfb = "None" /\ "mlfb" \in DOMAIN conf
    BY DEF Init, None
  <2>2. /\ SlotTyped(conf) /\ SlotRules(conf) /\ SlotShown(conf)
        /\ \A focus : Numbers(conf, focus)
    BY <2>1, Families DEF SlotTyped, SlotRules, SlotShown, Numbers
  <2> QED
    BY <2>1, <2>2 DEF Init, PanelInv
<1>2. PanelInv /\ [Next]_vars => PanelInv'
  <2> SUFFICES ASSUME PanelInv, [Next]_vars
               PROVE  PanelInv'
    OBVIOUS
  <2>1. CASE \E m \in Modules : ChangeModule(m)
    BY <2>1, ModuleChanged
  <2>2. CASE OpenTab
    BY <2>2, TabOpened
  <2>3. CASE CloseTab
    BY <2>3 DEF CloseTab, PanelInv
  <2>4. CASE \E y \in DeviceConfigs : Load(y)
    BY <2>4, Retrieved
  <2>5. CASE ChangeIntegTime \/ ChangePowerAlarm \/ ChangeSmooth
    BY <2>5, SharedEntries
  <2>6. CASE AiChangeType \/ AiChangeRange \/ AiChangeAlarm
    BY <2>6, AiEntries
  <2>7. CASE RtdChangeType \/ RtdChangeRange \/ RtdChangeThermal \/ RtdChangeAlarm
    BY <2>7, RtdEntries
  <2>8. CASE ChangeDelayTime \/ ChangeBehaviorWithOD \/ ChangeChSubstitute
    BY <2>8, DigitalEntries
  <2>9. CASE EmChangeConType \/ EmChangeModule \/ EmChangeCheck \/ EmChangeSecondCur \/ EmDrag
    BY <2>9, EmEntries
  <2>10. CASE EmType \/ EmBlur
    BY <2>10, NumberEntries
  <2>11. CASE UNCHANGED vars
    BY <2>11 DEF vars, PanelInv
  <2> QED
    BY <2>1, <2>2, <2>3, <2>4, <2>5, <2>6, <2>7, <2>8, <2>9, <2>10, <2>11 DEF Next
<1> QED
  BY <1>1, <1>2, PTL DEF Spec

(* The slot holds a configuration of its module, whatever the user does    *)
(* and whatever the schema took is loaded.                                 *)
THEOREM TypeCorrect == Spec => []TypeOK
<1>1. PanelInv => TypeOK
  <2> SUFFICES ASSUME PanelInv
               PROVE  TypeOK
    OBVIOUS
  <2> DEFINE OfItsModule == CASE conf.mlfb \in AiMlfb -> conf \in AiConf(conf.mlfb)
                         [] conf.mlfb \in RtdMlfb -> conf \in RtdConf(conf.mlfb)
                         [] conf.mlfb \in Sm1223Mlfb -> conf \in Sm1223Conf(conf.mlfb)
                         [] conf.mlfb = Sm1221Mlfb -> conf \in Sm1221Conf
                         [] conf.mlfb = EmMlfb -> conf \in EmConf
                         [] OTHER -> conf \in {None, SmSensDefault}
  <2>1. ASSUME SlotTyped(conf)
        PROVE  OfItsModule
    <3>1. CASE conf.mlfb \in AiMlfb
      BY <2>1, <3>1, Families DEF SlotTyped
    <3>2. CASE conf.mlfb \in RtdMlfb
      BY <2>1, <3>2, Families DEF SlotTyped, RtdSlot
    <3>3. CASE conf.mlfb \in Sm1223Mlfb
      BY <2>1, <3>3, Families DEF SlotTyped
    <3>4. CASE conf.mlfb = Sm1221Mlfb
      BY <2>1, <3>4, Families DEF SlotTyped
    <3>5. CASE conf.mlfb = EmMlfb
      BY <2>1, <3>5, Families DEF SlotTyped
    <3>6. CASE conf.mlfb \notin ModuleTypes \ {SmSensMlfb}
      BY <2>1, <3>6, Families DEF SlotTyped, ModuleTypes
    <3> QED
      BY <3>1, <3>2, <3>3, <3>4, <3>5, <3>6 DEF ModuleTypes
  <2> HIDE DEF OfItsModule
  <2>2. loaded # "bad" => OfItsModule
    BY <2>1 DEF PanelInv
  <2> QED
    BY <2>2 DEF PanelInv, TypeOK, OfItsModule
<1> QED
  BY <1>1, PagesKeepTheirRules, PTL

(* Two analog inputs that share a converter are of one type, also in what  *)
(* was loaded and edited since.                                            *)
THEOREM SharedConverter == Spec => []PairsSameType
<1>1. PanelInv => PairsSameType
  BY DEF PanelInv, SlotTyped, AiPairs, PairsSameType
<1> QED
  BY <1>1, PagesKeepTheirRules, PTL

(* On the page of a new module a check box that is disabled is off, but    *)
(* the direction of the current, whatever was edited before.               *)
THEOREM DisabledIsOff == Spec => []DisabledOffButDirection
<1>1. PanelInv => DisabledOffButDirection
  <2> SUFFICES ASSUME PanelInv, loaded = "no"
               PROVE  OffButDirection(conf)
    BY DEF DisabledOffButDirection
  <2>1. SlotRules(conf)
    BY DEF PanelInv
  <2>2. CASE conf.mlfb \in AiMlfb
    BY <2>1, <2>2, Families DEF SlotRules, AiRules, OffButDirection, NothingDisabled
  <2>3. CASE conf.mlfb \in RtdMlfb
    BY <2>1, <2>3, Families DEF SlotRules, RtdRules, RtdNothing, OffButDirection, NothingDisabled
  <2>4. CASE conf.mlfb = EmMlfb
    BY <2>1, <2>4, Families DEF SlotRules, EmRules, OffButDirection
  <2>5. CASE conf.mlfb \notin HasEffects
    BY <2>5 DEF OffButDirection, NothingDisabled, HasEffects
  <2> QED
    BY <2>2, <2>3, <2>4, <2>5 DEF HasEffects
<1> QED
  BY <1>1, PagesKeepTheirRules, PTL

(* On the page of a new module a selection shows one of its texts.         *)
THEOREM SelectionsOfferWhatTheyShow == Spec => []ShownIsOffered
<1>1. PanelInv => ShownIsOffered
  <2> SUFFICES ASSUME PanelInv, loaded = "no"
               PROVE  ShownIsOffered
    BY DEF ShownIsOffered
  <2>1. SlotRules(conf) /\ SlotShown(conf)
    BY DEF PanelInv
  <2>2. CASE conf.mlfb \in AiMlfb
    BY <2>1, <2>2, Families DEF SlotRules, AiRules, AiRanges, ShownIsOffered
  <2>3. CASE conf.mlfb \in RtdMlfb
    BY <2>1, <2>3, Families DEF SlotShown, RtdAllOffered, RtdOffered, ShownIsOffered
  <2>4. CASE conf.mlfb = EmMlfb
    BY <2>1, <2>4, Families DEF SlotRules, EmRules, EmOffers, EmBase, EmCurs, ShownIsOffered
  <2>5. CASE conf.mlfb \notin HasEffects
    BY <2>5 DEF ShownIsOffered, HasEffects
  <2> QED
    BY <2>2, <2>3, <2>4, <2>5 DEF HasEffects
<1> QED
  BY <1>1, PagesKeepTheirRules, PTL

(* The channels of a meter that are coupled have the values of channel 0.  *)
THEOREM ChannelsFollow == Spec => []CoupledChannelsFollow
<1>1. PanelInv => CoupledChannelsFollow
  BY DEF PanelInv, SlotShown, EmFollows, EmFollow, CoupledChannelsFollow
<1> QED
  BY <1>1, PagesKeepTheirRules, PTL
=============================================================================
