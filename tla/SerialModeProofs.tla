---------------------------- MODULE SerialModeProofs ----------------------------
(***************************************************************************)
(* Proofs about SerialMode, for any number of processes and calls, any     *)
(* command lines and any times the controller may hold.                    *)
(***************************************************************************)
EXTENDS SerialMode, TLAPS

-----------------------------------------------------------------------------
(* The configurations the program computes.                                *)
LEMMA Bits ==
  ASSUME NEW c \in Conf
  PROVE  /\ c.pin \in {0, 1} /\ c.logic \in {0, 1} /\ c.latch \in {0, 1}
         /\ c.setup \in 0..255 /\ c.hold \in 0..255
BY DEF Conf

LEMMA Arguments ==
  ASSUME NEW l \in CommandLines
  PROVE  /\ l.mode \in Modes \cup {NoMode, "unknown"} /\ l.term \in {0, 1}
         /\ l.setup \in Nat /\ l.hold \in Nat
<1>1. Times \subseteq Nat
    BY DEF Times
<1>2. l.mode \in Modes \cup {NoMode, "unknown"} /\ l.term \in {0, 1}
      /\ l.setup \in Times /\ l.hold \in Times
    BY DEF CommandLines
<1> QED
    BY <1>1, <1>2

LEMMA NoCallType == NoCall \in CommandLines
<1>1. 0 \in Times
    BY DEF Times
<1> QED
    BY <1>1 DEF NoCall, CommandLines

LEMMA ChecksumType ==
  ASSUME NEW c \in Conf
  PROVE  Checksum(c) \in (0..254) \X (0..254)
<1>1. /\ c.pin \in Int /\ c.logic \in Int /\ c.latch \in Int
      /\ c.setup \in Int /\ c.hold \in Int
    BY Bits
<1>2. /\ 16 * c.pin + c.logic + 32 * c.latch + c.setup + c.hold \in Int
      /\ 76 * 16 * c.pin + 75 * c.logic + 89 * 32 * c.latch + 6 * c.setup + 4 * c.hold \in Int
    BY <1>1
<1> QED
    BY <1>2 DEF Checksum

(* The record with two of its fields replaced, which is what every change  *)
(* of the configuration is.                                                *)
LEMMA PinAndLatch ==
  ASSUME NEW c \in Conf, NEW p \in {0, 1}, NEW t \in {0, 1},
         NEW d, d = [c EXCEPT !.pin = p, !.latch = t]
  PROVE  /\ d \in Conf /\ d.pin = p /\ d.latch = t
         /\ d.setup = c.setup /\ d.hold = c.hold
<1>1. d = [pin |-> p, logic |-> c.logic, latch |-> t, setup |-> c.setup, hold |-> c.hold]
    BY DEF Conf
<1> QED
    BY <1>1, Bits DEF Conf

LEMMA PinAndLogic ==
  ASSUME NEW c \in Conf, NEW p \in {0, 1}, NEW l \in {0, 1},
         NEW d, d = [c EXCEPT !.pin = p, !.logic = l]
  PROVE  /\ d \in Conf /\ d.pin = p /\ d.latch = c.latch
         /\ d.setup = c.setup /\ d.hold = c.hold
<1>1. d = [pin |-> p, logic |-> l, latch |-> c.latch, setup |-> c.setup, hold |-> c.hold]
    BY DEF Conf
<1> QED
    BY <1>1, Bits DEF Conf

(* What setting a mode does, board by board.                               *)
LEMMA SwitchTo ==
  ASSUME NEW c \in Conf, NEW m \in Modes
  PROVE  /\ board = "basic" =>
              SwitchMode(c, m) = [c EXCEPT !.pin = IF m \in {"rs485", "rs422"} THEN 1 ELSE 0,
                                           !.latch = IF m = "rs422" THEN 1 ELSE 0]
         /\ board # "basic" =>
              /\ m = "rs232" => SwitchMode(c, m) = [c EXCEPT !.pin = 0, !.latch = 0]
              /\ m = "rs422" => SwitchMode(c, m) = [c EXCEPT !.pin = 0, !.latch = 1]
              /\ m = "rs485" => SwitchMode(c, m) = [c EXCEPT !.pin = 1, !.logic = 1]
<1>1. m # NoMode
    BY DEF Modes, NoMode
<1>2. board = "basic" => SwitchMode(c, m) = SwitchUart(c, m)
    BY <1>1 DEF SwitchMode
<1>3. board # "basic" => SwitchMode(c, m) = SwitchBridge(c, m)
    BY <1>1 DEF SwitchMode
<1> QED
    BY <1>2, <1>3 DEF SwitchUart, SwitchBridge

LEMMA PreProcessType ==
  ASSUME NEW c \in Conf
  PROVE  /\ PreProcess(c) \in Conf
         /\ PreProcess(c).pin = c.pin /\ PreProcess(c).latch = c.latch
         /\ \/ PreProcess(c) = c
            \/ /\ 0 \in {c.setup, c.hold}
               /\ PreProcess(c).setup = 5 /\ PreProcess(c).hold = 5
<1>1. CASE board # "basic" /\ 0 \in {c.setup, c.hold}
    <2>1. PreProcess(c) = [c EXCEPT !.setup = 5, !.hold = 5]
        BY <1>1 DEF PreProcess
    <2>2. PreProcess(c) = [pin |-> c.pin, logic |-> c.logic, latch |-> c.latch,
                           setup |-> 5, hold |-> 5]
        BY <2>1 DEF Conf
    <2> QED
        BY <1>1, <2>2, Bits DEF Conf
<1>2. CASE ~(board # "basic" /\ 0 \in {c.setup, c.hold})
    BY <1>2 DEF PreProcess
<1> QED
    BY <1>1, <1>2

(* A mode that was set is the mode that is read, and the times are kept.   *)
LEMMA SwitchSets ==
  ASSUME NEW c \in Conf, NEW m \in Modes
  PROVE  /\ SwitchMode(c, m) \in Conf
         /\ SwitchMode(c, m).setup = c.setup /\ SwitchMode(c, m).hold = c.hold
         /\ ModeOf(SwitchMode(c, m)) = m
<1> DEFINE d == SwitchMode(c, m)
<1>1. CASE board = "basic"
    <2> DEFINE p == IF m \in {"rs485", "rs422"} THEN 1 ELSE 0
               t == IF m = "rs422" THEN 1 ELSE 0
    <2>1. d = [c EXCEPT !.pin = p, !.latch = t]
        BY <1>1, SwitchTo, Zenon
    <2>2. p \in {0, 1} /\ t \in {0, 1}
        OBVIOUS
    <2>3. (p = 0 => m = "rs232") /\ (p = 1 /\ t = 1 => m = "rs422") /\ (p = 1 /\ t # 1 => m = "rs485")
        BY DEF Modes
    <2> HIDE DEF d, p, t
    <2>4. d \in Conf /\ d.pin = p /\ d.latch = t /\ d.setup = c.setup /\ d.hold = c.hold
        BY <2>1, <2>2, PinAndLatch, Zenon
    <2>5. ModeOf(d) = m
        BY <1>1, <2>2, <2>3, <2>4 DEF ModeOf
    <2> QED
        BY <2>4, <2>5 DEF d
<1>2. CASE board # "basic"
    <2>1. CASE m = "rs232"
        <3>1. d = [c EXCEPT !.pin = 0, !.latch = 0]
            BY <1>2, <2>1, SwitchTo, Zenon
        <3> HIDE DEF d
        <3>2. d \in Conf /\ d.pin = 0 /\ d.latch = 0 /\ d.setup = c.setup /\ d.hold = c.hold
            BY <3>1, PinAndLatch, Zenon
        <3>3. ModeOf(d) = m
            BY <1>2, <2>1, <3>2 DEF ModeOf
        <3> QED
            BY <3>2, <3>3 DEF d
    <2>2. CASE m = "rs422"
        <3>1. d = [c EXCEPT !.pin = 0, !.latch = 1]
            BY <1>2, <2>2, SwitchTo, Zenon
        <3> HIDE DEF d
        <3>2. d \in Conf /\ d.pin = 0 /\ d.latch = 1 /\ d.setup = c.setup /\ d.hold = c.hold
            BY <3>1, PinAndLatch, Zenon
        <3>3. ModeOf(d) = m
            BY <1>2, <2>2, <3>2 DEF ModeOf
        <3> QED
            BY <3>2, <3>3 DEF d
    <2>3. CASE m = "rs485"
        <3>1. d = [c EXCEPT !.pin = 1, !.logic = 1]
            BY <1>2, <2>3, SwitchTo, Zenon
        <3> HIDE DEF d
        <3>2. d \in Conf /\ d.pin = 1 /\ d.setup = c.setup /\ d.hold = c.hold
            BY <3>1, PinAndLogic, Zenon
        <3>3. ModeOf(d) = m
            BY <1>2, <2>3, <3>2 DEF ModeOf
        <3> QED
            BY <3>2, <3>3 DEF d
    <2> QED
        BY <2>1, <2>2, <2>3 DEF Modes
<1> QED
    BY <1>1, <1>2

(* Any other name clears the flags of the UART, and changes nothing in the *)
(* bridge; without a name nothing is changed.                              *)
LEMMA SwitchType ==
  ASSUME NEW c \in Conf, NEW m \in Modes \cup {NoMode, "unknown"}
  PROVE  /\ SwitchMode(c, m) \in Conf
         /\ SwitchMode(c, m).setup = c.setup /\ SwitchMode(c, m).hold = c.hold
         /\ m = NoMode => SwitchMode(c, m) = c
<1>1. CASE m = NoMode
    BY <1>1 DEF SwitchMode
<1>2. CASE m \in Modes
    BY <1>2, SwitchSets DEF Modes, NoMode
<1>3. CASE m = "unknown" /\ board = "basic"
    <2> DEFINE d == SwitchMode(c, m)
    <2>1. d = [c EXCEPT !.pin = 0, !.latch = 0]
        BY <1>3 DEF SwitchMode, SwitchUart, NoMode
    <2> HIDE DEF d
    <2>2. d \in Conf /\ d.setup = c.setup /\ d.hold = c.hold
        BY <2>1, PinAndLatch, Zenon
    <2> QED
        BY <1>3, <2>2 DEF d, NoMode
<1>4. CASE m = "unknown" /\ board # "basic"
    BY <1>4 DEF SwitchMode, SwitchBridge, NoMode
<1> QED
    BY <1>1, <1>2, <1>3, <1>4

LEMMA SetTimesType ==
  ASSUME NEW c \in Conf, NEW l \in CommandLines
  PROVE  /\ SetTimes(c, l) \in Conf
         /\ SetTimes(c, l).pin = c.pin /\ SetTimes(c, l).latch = c.latch
         /\ ModeOf(SetTimes(c, l)) = ModeOf(c)
         /\ l.setup = 0 /\ l.hold = 0 => SetTimes(c, l) = c
<1>1. CASE board = "basic"
    BY <1>1 DEF SetTimes
<1>2. CASE board # "basic"
    <2> DEFINE s == IF l.setup = 0 THEN c.setup ELSE l.setup % 256
               h == IF l.hold = 0 THEN c.hold ELSE l.hold % 256
               d == SetTimes(c, l)
    <2>1. s \in 0..255 /\ h \in 0..255
        BY Arguments, Bits
    <2>2. d = [c EXCEPT !.setup = s, !.hold = h]
        BY <1>2 DEF SetTimes
    <2>3. l.setup = 0 /\ l.hold = 0 => s = c.setup /\ h = c.hold
        OBVIOUS
    <2> HIDE DEF s, h, d
    <2>4. d = [pin |-> c.pin, logic |-> c.logic, latch |-> c.latch, setup |-> s, hold |-> h]
        BY <2>2 DEF Conf
    <2>5. d \in Conf /\ d.pin = c.pin /\ d.latch = c.latch
        BY <2>1, <2>4, Bits DEF Conf
    <2>6. l.setup = 0 /\ l.hold = 0 => d = c
        BY <2>2, <2>3 DEF Conf
    <2> QED
        BY <2>5, <2>6 DEF d, ModeOf
<1> QED
    BY <1>1, <1>2

LEMMA ConfiguredType ==
  ASSUME NEW c \in Conf, NEW l \in CommandLines
  PROVE  /\ Configured(c, l) \in Conf
         /\ l.mode \in Modes => ModeOf(Configured(c, l)) = l.mode
         /\ l.mode = NoMode => ModeOf(Configured(c, l)) = ModeOf(c)
<1>0. l.mode \in Modes \cup {NoMode, "unknown"}
    BY Arguments
<1>1. PreProcess(c) \in Conf /\ ModeOf(PreProcess(c)) = ModeOf(c)
    BY PreProcessType DEF ModeOf
<1>2. SwitchMode(PreProcess(c), l.mode) \in Conf
    BY <1>0, <1>1, SwitchType
<1>3. l.mode \in Modes => ModeOf(SwitchMode(PreProcess(c), l.mode)) = l.mode
    BY <1>1, SwitchSets
<1>4. l.mode = NoMode => SwitchMode(PreProcess(c), l.mode) = PreProcess(c)
    BY <1>0, <1>1, SwitchType
<1> QED
    BY <1>1, <1>2, <1>3, <1>4, SetTimesType DEF Configured

LEMMA Quotient ==
  ASSUME NEW a \in Int, NEW b \in Int, a % 255 = b % 255
  PROVE  \E k \in Int : a - b = 255 * k
OBVIOUS

(* Two configurations with the same checksum, of which one was made of the *)
(* other by setting a mode, differ in nothing that selects the mode: a     *)
(* write that is left out loses times at most.                             *)
LEMMA Collision ==
  ASSUME NEW c \in Conf, NEW d \in Conf,
         \/ d.setup = c.setup /\ d.hold = c.hold
         \/ d.setup = 5 /\ d.hold = 5 /\ 0 \in {c.setup, c.hold},
         Checksum(c) = Checksum(d)
  PROVE  d.pin = c.pin /\ d.latch = c.latch
<1> DEFINE p == c.pin     q == d.pin
           l == c.logic   m == d.logic
           t == c.latch   u == d.latch
           s == c.setup   r == d.setup
           h == c.hold    g == d.hold
<1>1. p \in {0, 1} /\ l \in {0, 1} /\ t \in {0, 1} /\ q \in {0, 1} /\ m \in {0, 1} /\ u \in {0, 1}
    BY Bits
<1>2. s \in 0..255 /\ h \in 0..255 /\ r \in 0..255 /\ g \in 0..255
    BY Bits
<1>3. \/ r = s /\ g = h
      \/ r = 5 /\ g = 5 /\ (s = 0 \/ h = 0)
    OBVIOUS
<1>4. (16 * p + l + 32 * t + s + h) % 255 = (16 * q + m + 32 * u + r + g) % 255
    BY DEF Checksum
<1>5. (76 * 16 * p + 75 * l + 89 * 32 * t + 6 * s + 4 * h) % 255
        = (76 * 16 * q + 75 * m + 89 * 32 * u + 6 * r + 4 * g) % 255
    BY DEF Checksum
<1>6. SUFFICES p = q /\ t = u
    OBVIOUS
<1> HIDE DEF p, q, l, m, t, u, s, r, h, g
<1>7. PICK k \in Int : (16 * p + l + 32 * t + s + h) - (16 * q + m + 32 * u + r + g) = 255 * k
    BY <1>1, <1>2, <1>4, Quotient
<1>8. PICK n \in Int : (76 * 16 * p + 75 * l + 89 * 32 * t + 6 * s + 4 * h)
                        - (76 * 16 * q + 75 * m + 89 * 32 * u + 6 * r + 4 * g) = 255 * n
    <2> DEFINE a == 76 * 16 * p + 75 * l + 89 * 32 * t + 6 * s + 4 * h
               b == 76 * 16 * q + 75 * m + 89 * 32 * u + 6 * r + 4 * g
    <2>1. a \in Int /\ b \in Int
        BY <1>1, <1>2
    <2>2. a % 255 = b % 255
        BY <1>5
    <2> HIDE DEF a, b
    <2>3. \E n \in Int : a - b = 255 * n
        BY <2>1, <2>2, Quotient
    <2> QED
        BY <2>3 DEF a, b
<1>9. CASE r = s /\ g = h
    BY <1>1, <1>2, <1>7, <1>9
<1>10. CASE r = 5 /\ g = 5 /\ s = 0
    BY <1>1, <1>2, <1>7, <1>8, <1>10, SMTT(60)
<1>11. CASE r = 5 /\ g = 5 /\ h = 0
    BY <1>1, <1>2, <1>7, <1>8, <1>11
<1> QED
    BY <1>3, <1>9, <1>10, <1>11

-----------------------------------------------------------------------------
(* Type correctness, the end of a call first.                              *)
ProcessTypes ==
  /\ pc \in [Callers -> Places]
  /\ call \in [Callers -> CommandLines] /\ image \in [Callers -> Conf]
  /\ sum \in [Callers -> (0..254) \X (0..254)]
  /\ clean \in BOOLEAN /\ asked \in Promises /\ left \in BOOLEAN
  /\ \A p \in Callers : At(p, "off") => call[p] = NoCall
  /\ \A p \in Callers : pc[p] \in {"enable", "mode0", "mode1"} => call[p].mode \in Modes

DeviceTypes ==
  /\ board \in Boards /\ conf \in Conf /\ running \in Conf
  /\ pins \in [PinNames -> {-1, 0, 1}]
  /\ calls \in 0..MaxCalls

LEMMA Asked ==
  ASSUME NEW l \in CommandLines, l.mode # "unknown", NEW k \in Promises
  PROVE  [mode |-> IF l.mode = NoMode THEN k.mode ELSE l.mode, term |-> l.term] \in Promises
BY DEF CommandLines, Promises

LEMMA EndType ==
  ASSUME ProcessTypes, NEW p \in Callers, NEW ok, End(p, ok), conf' \in Conf
  PROVE  ProcessTypes'
<1>1. pc' \in [Callers -> Places]
    BY DEF End, Goto, ProcessTypes, Places
<1>2. call' \in [Callers -> CommandLines]
    BY NoCallType DEF End, ProcessTypes
<1>3. image' \in [Callers -> Conf] /\ sum' \in [Callers -> (0..254) \X (0..254)]
    BY DEF End, ProcessTypes
<1>4. clean' \in BOOLEAN
    BY DEF End
<1>5. asked' \in Promises
    <2>1. call[p] \in CommandLines /\ asked \in Promises
        BY DEF ProcessTypes
    <2>2. CASE ~clean' \/ call[p].mode = "unknown"
        BY <2>2 DEF End, Nothing, Promises
    <2>3. CASE ~(~clean' \/ call[p].mode = "unknown")
        <3>1. asked' = [mode |-> IF call[p].mode = NoMode THEN asked.mode ELSE call[p].mode,
                        term |-> call[p].term]
            BY <2>3 DEF End
        <3> QED
            BY <3>1, <2>1, <2>3, Asked
    <2> QED
        BY <2>2, <2>3
<1>8. left' \in BOOLEAN
    BY DEF End, ProcessTypes
<1>6. \A q \in Callers : At(q, "off")' => call'[q] = NoCall
    BY DEF End, Goto, At, ProcessTypes
<1>7. \A q \in Callers : pc'[q] \in {"enable", "mode0", "mode1"} => call'[q].mode \in Modes
    BY DEF End, Goto, ProcessTypes
<1> QED
    BY <1>1, <1>2, <1>3, <1>4, <1>5, <1>6, <1>7, <1>8 DEF ProcessTypes

(* A step of a process that goes on.                                       *)
LEMMA GoType ==
  ASSUME ProcessTypes, NEW p \in Callers, UNCHANGED <<call, image, sum, asked, left>>,
         clean' \in BOOLEAN, NEW l \in Places \ {"off"}, Goto(p, l),
         l \in {"enable", "mode0", "mode1"} => call[p].mode \in Modes
  PROVE  ProcessTypes'
<1>1. pc' \in [Callers -> Places]
    BY DEF Goto, ProcessTypes
<1>2. \A q \in Callers : At(q, "off")' => call'[q] = NoCall
    BY DEF Goto, At, ProcessTypes
<1>3. \A q \in Callers : pc'[q] \in {"enable", "mode0", "mode1"} => call'[q].mode \in Modes
    BY DEF Goto, ProcessTypes
<1> QED
    BY <1>1, <1>2, <1>3 DEF ProcessTypes

LEMMA PinType ==
  ASSUME DeviceTypes, ProcessTypes, NEW pin \in PinNames, NEW v \in {0, 1},
         SetPin(pin, v), UNCHANGED <<board, conf, running, calls>>
  PROVE  DeviceTypes' /\ clean' \in BOOLEAN
<1>1. pins' \in [PinNames -> {-1, 0, 1}]
    BY DEF SetPin, DeviceTypes
<1> QED
    BY <1>1 DEF SetPin, DeviceTypes, ProcessTypes

LEMMA SerialTypeInit == Init => TypeOK
<1> SUFFICES ASSUME Init PROVE TypeOK
    OBVIOUS
<1>1. conf \in Conf
    <2>1. PICK t \in Stored : <<conf.setup, conf.hold>> = t
        BY DEF Init
    <2>2. conf.setup \in 0..255 /\ conf.hold \in 0..255
        BY <2>1, SerialAssumption
    <2> QED
        BY <2>2 DEF Init, Conf
<1>2. <<0, 0>> \in (0..254) \X (0..254) /\ 0 \in 0..MaxCalls
    BY SerialAssumption
<1> QED
    BY <1>1, <1>2, NoCallType DEF Init, TypeOK, At, Places, Nothing, Promises

LEMMA SerialTypeStep == TypeOK /\ [Next]_vars => TypeOK'
<1> SUFFICES ASSUME ProcessTypes, DeviceTypes, [Next]_vars PROVE ProcessTypes' /\ DeviceTypes'
    BY DEF TypeOK, ProcessTypes, DeviceTypes
<1>1. ASSUME UNCHANGED <<board, conf, running, pins, calls>> PROVE DeviceTypes'
    BY <1>1 DEF DeviceTypes
<1>2. ASSUME NEW p \in Callers, NEW l \in Calls, Start(p, l) PROVE ProcessTypes' /\ DeviceTypes'
    <2>1. l \in CommandLines
        BY SerialAssumption
    <2>2. pc' \in [Callers -> Places]
          /\ call' \in [Callers -> CommandLines]
        BY <1>2, <2>1 DEF Start, Goto, ProcessTypes, Places
    <2>6. clean' \in BOOLEAN
        BY <1>2 DEF Start, AllOff
    <2>3. \A q \in Callers : At(q, "off")' => call'[q] = NoCall
        BY <1>2 DEF Start, Goto, At, ProcessTypes
    <2>4. \A q \in Callers : pc'[q] \in {"enable", "mode0", "mode1"} => call'[q].mode \in Modes
        BY <1>2 DEF Start, Goto, ProcessTypes
    <2>5. calls' \in 0..MaxCalls
        BY <1>2, SerialAssumption DEF Start, DeviceTypes
    <2> QED
        BY <1>2, <2>2, <2>3, <2>4, <2>5, <2>6 DEF Start, ProcessTypes, DeviceTypes, deviceVars
<1>3. ASSUME NEW p \in Callers, ReadConfig(p) PROVE ProcessTypes' /\ DeviceTypes'
    <2>1. DeviceTypes'
        BY <1>3, <1>1 DEF ReadConfig, InitFails, deviceVars
    <2>2. CASE InitFails(p)
        <3>1. conf' \in Conf
            BY <2>1 DEF DeviceTypes
        <3> QED
            BY <2>1, <2>2, <3>1, EndType DEF InitFails
    <2>3. CASE /\ image' = [image EXCEPT ![p] = Configured(conf, call[p])]
               /\ sum' = [sum EXCEPT ![p] = Checksum(conf)]
               /\ Goto(p, IF call[p].mode \in Modes THEN "enable" ELSE "term")
               /\ UNCHANGED <<call, clean, asked, left>>
        <3>1. Configured(conf, call[p]) \in Conf /\ Checksum(conf) \in (0..254) \X (0..254)
            BY ConfiguredType, ChecksumType DEF ProcessTypes, DeviceTypes
        <3>2. image' \in [Callers -> Conf] /\ sum' \in [Callers -> (0..254) \X (0..254)]
            BY <2>3, <3>1 DEF ProcessTypes
        <3>3. pc' \in [Callers -> Places]
            BY <2>3 DEF Goto, ProcessTypes, Places
        <3>4. \A q \in Callers : At(q, "off")' => call'[q] = NoCall
            BY <2>3 DEF Goto, At, ProcessTypes
        <3>5. \A q \in Callers : pc'[q] \in {"enable", "mode0", "mode1"} => call'[q].mode \in Modes
            BY <2>3 DEF Goto, ProcessTypes
        <3> QED
            BY <2>1, <2>3, <3>2, <3>3, <3>4, <3>5 DEF ProcessTypes
    <2> QED
        BY <1>3, <2>2, <2>3 DEF ReadConfig, auxVars
<1>13. ASSUME NEW p \in Callers, EnableTransceiver(p) PROVE ProcessTypes' /\ DeviceTypes'
    <2>1. DeviceTypes' /\ clean' \in BOOLEAN
        BY <1>13, PinType DEF EnableTransceiver, PinNames
    <2>2. call[p].mode \in Modes
        BY <1>13 DEF EnableTransceiver, At, ProcessTypes
    <2> QED
        BY <1>13, <2>1, <2>2, GoType DEF EnableTransceiver, Places
<1>4. ASSUME NEW p \in Callers, SetMode0(p) PROVE ProcessTypes' /\ DeviceTypes'
    <2>1. DeviceTypes' /\ clean' \in BOOLEAN
        BY <1>4, PinType DEF SetMode0, PinNames
    <2>2. call[p].mode \in Modes
        BY <1>4 DEF SetMode0, At, ProcessTypes
    <2> QED
        BY <1>4, <2>1, <2>2, GoType DEF SetMode0, Places
<1>5. ASSUME NEW p \in Callers, SetMode1(p) PROVE ProcessTypes' /\ DeviceTypes'
    <2>1. DeviceTypes' /\ clean' \in BOOLEAN
        BY <1>5, PinType DEF SetMode1, PinNames
    <2> QED
        BY <1>5, <2>1, GoType DEF SetMode1, Places
<1>6. ASSUME NEW p \in Callers, SetTermination(p) PROVE ProcessTypes' /\ DeviceTypes'
    <2>1. call[p].term \in {0, 1}
        BY Arguments DEF ProcessTypes
    <2>2. DeviceTypes' /\ clean' \in BOOLEAN
        BY <1>6, <2>1, PinType DEF SetTermination, PinNames
    <2> QED
        BY <1>6, <2>2, GoType DEF SetTermination, Places
<1>7. ASSUME NEW p \in Callers, Release(p) PROVE ProcessTypes' /\ DeviceTypes'
    <2>1. conf' \in {conf, image[p]} /\ UNCHANGED <<board, running, pins, calls>>
        BY <1>7 DEF Release
    <2>2. conf' \in Conf /\ DeviceTypes'
        BY <2>1 DEF ProcessTypes, DeviceTypes
    <2>3. \/ End(p, FALSE)
          \/ Goto(p, "reset") /\ UNCHANGED <<call, image, sum, clean, asked, left>>
        BY <1>7 DEF Release, auxVars
    <2>4. clean \in BOOLEAN
        BY DEF ProcessTypes
    <2> QED
        BY <2>2, <2>3, <2>4, EndType, GoType DEF Places
<1>8. ASSUME NEW p \in Callers, Reset(p) PROVE ProcessTypes' /\ DeviceTypes'
    <2>1. CASE UNCHANGED deviceVars /\ End(p, TRUE)
        <3>1. conf' \in Conf /\ DeviceTypes'
            BY <1>8, <2>1, <1>1 DEF Reset, deviceVars, DeviceTypes
        <3> QED
            BY <2>1, <3>1, EndType
    <2>2. CASE Goto(p, "letgo") /\ SetPin("reset", 0)
               /\ UNCHANGED <<conf, running, call, image, sum, asked, left>>
        <3>1. DeviceTypes' /\ clean' \in BOOLEAN
            BY <1>8, <2>2, PinType DEF Reset, PinNames
        <3> QED
            BY <2>2, <3>1, GoType DEF Places
    <2> QED
        BY <1>8, <2>1, <2>2 DEF Reset
<1>14. ASSUME NEW p \in Callers, LetGo(p) PROVE ProcessTypes' /\ DeviceTypes'
    <2>1. pins' \in [PinNames -> {-1, 0, 1}]
        BY <1>14 DEF LetGo, DeviceTypes
    <2>2. running' \in Conf /\ conf' \in Conf /\ UNCHANGED <<board, conf, calls>>
        BY <1>14 DEF LetGo, DeviceTypes
    <2>3. DeviceTypes'
        BY <2>1, <2>2 DEF DeviceTypes
    <2> QED
        BY <1>14, <2>2, <2>3, EndType DEF LetGo
<1>9. ASSUME NEW p \in Callers, ReleaseUart(p) PROVE ProcessTypes' /\ DeviceTypes'
    <2>1. image[p] \in Conf
        BY DEF ProcessTypes
    <2>2. conf' \in Conf /\ running' \in Conf /\ UNCHANGED <<board, pins, calls>>
        BY <1>9, <2>1 DEF ReleaseUart, DeviceTypes
    <2>3. DeviceTypes'
        BY <2>2 DEF DeviceTypes
    <2> QED
        BY <1>9, <2>2, <2>3, EndType DEF ReleaseUart
<1>10. ASSUME NEW p \in Callers, Kill(p) PROVE ProcessTypes' /\ DeviceTypes'
    <2>1. conf' \in Conf /\ DeviceTypes'
        BY <1>10, <1>1 DEF Kill, deviceVars, DeviceTypes
    <2> QED
        BY <1>10, <2>1, EndType DEF Kill
<1>11. CASE PowerCycle
    <2>1. conf' \in Conf
        BY <1>11 DEF PowerCycle, DeviceTypes, Conf
    <2>2. <<0, 0>> \in (0..254) \X (0..254)
        OBVIOUS
    <2> QED
        BY <1>11, <2>1, <2>2, NoCallType DEF PowerCycle, ProcessTypes, DeviceTypes, At, Places,
               Nothing, Promises
<1>12. CASE UNCHANGED vars
    BY <1>12 DEF vars, deviceVars, processVars, auxVars, ProcessTypes, DeviceTypes, At
<1> QED
    BY <1>2, <1>3, <1>4, <1>5, <1>6, <1>7, <1>8, <1>9, <1>10, <1>11, <1>12, <1>13, <1>14
    DEF Next, Process

(* Controller, transceiver and processes stay in their states.             *)
THEOREM SerialTypeCorrect == Spec => []TypeOK
BY SerialTypeInit, SerialTypeStep, PTL DEF Spec

-----------------------------------------------------------------------------
(* What the only call of a clean stretch has reached so far.  A call that  *)
(* sets no mode works on the mode set before it; the others have their mode*)
(* in the image at once, in the transceiver before the image is written,   *)
(* and in the controller after that, unless the write was left out by a    *)
(* call that sets a time.                                                  *)
Reached(p) ==
  /\ call[p].mode = NoMode /\ asked.mode # NoMode =>
       (ModeOf(conf) = asked.mode \/ left) /\ Switched(asked.mode)
  /\ pc[p] \in {"mode0", "mode1"} => pins.enable = 1
  /\ At(p, "mode1") => pins.mode0 = IF call[p].mode = "rs485" THEN 0 ELSE 1
  /\ pc[p] \in {"term", "release", "reset", "letgo"} /\ call[p].mode \in Modes =>
       Switched(call[p].mode)
  /\ pc[p] \in {"release", "reset", "letgo"} => pins.term = call[p].term
  /\ pc[p] \in {"enable", "mode0", "mode1", "term", "release"} =>
       image[p] = Configured(conf, call[p]) /\ sum[p] = Checksum(conf)
  /\ pc[p] \in {"reset", "letgo"} /\ call[p].mode \in Modes =>
       \/ ModeOf(conf) = call[p].mode
       \/ image[p] # conf /\ {call[p].setup, call[p].hold} # {0}
  /\ At(p, "letgo") => pins.reset = 0

(* As long as nothing went wrong one process runs, and it is on its way.   *)
ModeInv ==
  /\ clean => \A p, q \in Callers : ~At(p, "off") /\ ~At(q, "off") => p = q
  /\ clean => \A p \in Callers : ~At(p, "off") => Reached(p)
  /\ ModeInForce

LEMMA ModeInit == Init => ModeInv
<1> SUFFICES ASSUME Init PROVE ModeInv
    OBVIOUS
<1>1. \A p \in Callers : At(p, "off")
    BY DEF Init, At
<1>2. asked.mode = NoMode
    BY DEF Init, Nothing
<1> QED
    BY <1>1, <1>2 DEF ModeInv, ModeInForce

(* A call that ends after an error promises nothing.                       *)
LEMMA EndInError ==
  ASSUME NEW p \in Callers, NEW ok, End(p, ok), ~(clean /\ ok)
  PROVE  ModeInv'
<1>1. ~clean' /\ asked' = Nothing
    BY DEF End
<1> QED
    BY <1>1 DEF ModeInv, ModeInForce, Nothing

(* After a call that ends cleanly nothing runs.                            *)
LEMMA EndClean ==
  ASSUME ProcessTypes, ModeInv, clean, NEW p \in Callers, ~At(p, "off"), NEW ok, End(p, ok),
         ModeInForce'
  PROVE  ModeInv'
<1>1. \A q \in Callers : pc'[q] = "off"
    <2> SUFFICES ASSUME NEW q \in Callers PROVE pc'[q] = "off"
        OBVIOUS
    <2>1. q = p \/ pc[q] = "off"
        BY DEF ModeInv, At
    <2> QED
        BY <2>1 DEF End, Goto, ProcessTypes
<1> QED
    BY <1>1 DEF ModeInv, At

LEMMA GoesOn ==
  ASSUME ProcessTypes, ModeInv, NEW p \in Callers, ~At(p, "off"),
         NEW l \in Places \ {"off"}, Goto(p, l),
         clean' => clean, clean' => Reached(p)'
  PROVE  ModeInv'
<1>1. pc'[p] = l /\ l # "off"
    BY DEF Goto, ProcessTypes
<1>2. ModeInForce'
    BY <1>1 DEF ModeInForce, AllOff
<1>3. \A q \in Callers : q # p => pc'[q] = pc[q]
    BY DEF Goto, ProcessTypes
<1>4. ASSUME clean', NEW q \in Callers, pc'[q] # "off" PROVE q = p
    BY <1>3, <1>4 DEF ModeInv, At
<1> QED
    BY <1>2, <1>4 DEF ModeInv, At

(* The mode a clean call leaves behind.                                    *)
LEMMA Answered ==
  ASSUME ProcessTypes, NEW p \in Callers, End(p, TRUE), board' = board,
         pins'.enable = pins.enable, pins'.mode0 = pins.mode0, pins'.mode1 = pins.mode1,
         pins'.term = call[p].term,
         call[p].mode \in Modes =>
           /\ Switched(call[p].mode)
           /\ \/ ModeOf(conf') = call[p].mode
              \/ image[p] # conf' /\ {call[p].setup, call[p].hold} # {0},
         call[p].mode = NoMode /\ asked.mode # NoMode =>
           (ModeOf(conf') = asked.mode \/ left) /\ Switched(asked.mode),
         board # "pg1" => running' = conf'
  PROVE  ModeInForce'
<1> SUFFICES ASSUME asked'.mode # NoMode
             PROVE  /\ ModeOf(conf)' = asked'.mode \/ left'
                    /\ Switched(asked.mode)' /\ pins'.term = asked'.term
    BY DEF ModeInForce
<1>0. /\ call[p] \in CommandLines /\ asked \in Promises
      /\ call[p].mode \in Modes \cup {NoMode, "unknown"}
    BY Arguments DEF ProcessTypes
<1>1. clean' /\ call[p].mode # "unknown"
    BY DEF End, Nothing
<1>2. ModeOf(conf)' = ModeOf(conf')
    BY DEF ModeOf
<1>5. asked' = [mode |-> IF call[p].mode = NoMode THEN asked.mode ELSE call[p].mode,
                term |-> call[p].term]
    BY <1>1 DEF End
<1>6. asked'.term = call[p].term
    BY <1>5
<1>3. CASE call[p].mode = NoMode
    <2>1. asked'.mode = asked.mode
        BY <1>3, <1>5
    <2>2. left' = left
        BY <1>1, <1>3 DEF End, ProcessTypes
    <2> QED
        BY <1>2, <1>3, <1>6, <2>1, <2>2 DEF Switched
<1>4. CASE call[p].mode \in Modes
    <2>1. call[p].mode # NoMode
        BY <1>4 DEF NoMode, Modes
    <2>2. asked'.mode = call[p].mode
        BY <2>1, <1>5
    <2>3. left' = (image[p] # conf' /\ {call[p].setup, call[p].hold} # {0})
        BY <1>1, <2>1 DEF End
    <2> QED
        BY <1>2, <1>4, <1>6, <2>2, <2>3 DEF Switched
<1> QED
    BY <1>0, <1>1, <1>3, <1>4

(* What a call that sets no time computes keeps the times or replaces both *)
(* by the default, which makes the checksums of Collision.                 *)
LEMMA LeftOut ==
  ASSUME NEW c \in Conf, NEW l \in CommandLines, l.mode \in Modes,
         l.setup = 0, l.hold = 0, Checksum(Configured(c, l)) = Checksum(c)
  PROVE  ModeOf(c) = l.mode
<1> DEFINE d == Configured(c, l)
<1>1. d \in Conf /\ ModeOf(d) = l.mode
    BY ConfiguredType
<1>2. /\ PreProcess(c) \in Conf
      /\ \/ PreProcess(c) = c
         \/ /\ 0 \in {c.setup, c.hold}
            /\ PreProcess(c).setup = 5 /\ PreProcess(c).hold = 5
    BY PreProcessType
<1>3. /\ SwitchMode(PreProcess(c), l.mode) \in Conf
      /\ SwitchMode(PreProcess(c), l.mode).setup = PreProcess(c).setup
      /\ SwitchMode(PreProcess(c), l.mode).hold = PreProcess(c).hold
    BY <1>2, SwitchType
<1>4. d = SwitchMode(PreProcess(c), l.mode)
    BY <1>3, SetTimesType DEF Configured
<1>5. \/ d.setup = c.setup /\ d.hold = c.hold
      \/ d.setup = 5 /\ d.hold = 5 /\ 0 \in {c.setup, c.hold}
    BY <1>2, <1>3, <1>4
<1> HIDE DEF d
<1>6. Checksum(c) = Checksum(d)
    BY DEF d
<1>7. d.pin = c.pin /\ d.latch = c.latch
    BY <1>1, <1>5, <1>6, Collision
<1> QED
    BY <1>1, <1>7 DEF ModeOf

LEMMA ModeStep == TypeOK /\ ModeInv /\ [Next]_vars => ModeInv'
<1> SUFFICES ASSUME ProcessTypes, DeviceTypes, ModeInv, [Next]_vars PROVE ModeInv'
    BY DEF TypeOK, ProcessTypes, DeviceTypes
<1>0. \A p \in Callers : /\ call[p] \in CommandLines
                         /\ call[p].mode \in Modes \cup {NoMode, "unknown"}
    BY Arguments DEF ProcessTypes
<1>1. ASSUME NEW p \in Callers, NEW l \in Calls, Start(p, l) PROVE ModeInv'
    <2>1. pc'[p] = "init" /\ \A q \in Callers : q # p => pc'[q] = pc[q]
        BY <1>1 DEF Start, Goto, ProcessTypes
    <2>2. ModeInForce'
        BY <2>1 DEF ModeInForce, AllOff
    <2>3. clean' => \A q \in Callers : pc'[q] # "off" => q = p
        BY <1>1, <2>1 DEF Start, AllOff
    <2>4. clean' => Reached(p)'
        <3> SUFFICES ASSUME clean', call'[p].mode = NoMode, asked'.mode # NoMode
                     PROVE  (ModeOf(conf)' = asked'.mode \/ left') /\ Switched(asked.mode)'
            BY <2>1 DEF Reached, At
        <3>1. AllOff /\ UNCHANGED <<board, conf, pins, asked, left>>
            BY <1>1 DEF Start, deviceVars
        <3>2. (ModeOf(conf) = asked.mode \/ left) /\ Switched(asked.mode)
            BY <3>1 DEF ModeInv, ModeInForce
        <3> QED
            BY <3>1, <3>2 DEF ModeOf, Switched
    <2> QED
        BY <2>2, <2>3, <2>4 DEF ModeInv, At
<1>2. ASSUME NEW p \in Callers, ReadConfig(p) PROVE ModeInv'
    <2>1. CASE InitFails(p)
        BY <2>1, EndInError DEF InitFails
    <2>2. CASE /\ image' = [image EXCEPT ![p] = Configured(conf, call[p])]
               /\ sum' = [sum EXCEPT ![p] = Checksum(conf)]
               /\ Goto(p, IF call[p].mode \in Modes THEN "enable" ELSE "term")
               /\ UNCHANGED <<board, deviceVars, call, auxVars>>
        <3>1. image'[p] = Configured(conf, call[p]) /\ sum'[p] = Checksum(conf)
            BY <2>2 DEF ProcessTypes
        <3>2. PICK l \in {"enable", "term"} : Goto(p, l) /\ (l = "enable" <=> call[p].mode \in Modes)
            BY <2>2
        <3>3. pc'[p] = l /\ ~At(p, "off")
            BY <1>2, <3>2 DEF ReadConfig, At, Goto, ProcessTypes
        <3>4. UNCHANGED <<board, conf, running, pins, call, clean, asked, left>>
            BY <2>2 DEF deviceVars, auxVars
        <3>5. ASSUME clean' PROVE Reached(p)'
            <4>1. Reached(p)
                BY <3>3, <3>4, <3>5 DEF ModeInv
            <4>2. call[p].mode = NoMode /\ asked.mode # NoMode =>
                    (ModeOf(conf) = asked.mode \/ left) /\ Switched(asked.mode)
                BY <4>1 DEF Reached
            <4>3. (call[p].mode = NoMode /\ asked.mode # NoMode =>
                    (ModeOf(conf) = asked.mode \/ left) /\ Switched(asked.mode))'
                BY <4>2, <3>4 DEF ModeOf, Switched
            <4>4. image'[p] = Configured(conf, call[p])' /\ sum'[p] = Checksum(conf)'
                BY <3>1, <3>4 DEF Configured, SetTimes, SwitchMode, SwitchUart, SwitchBridge,
                                  PreProcess, Checksum
            <4> QED
                BY <3>2, <3>3, <3>4, <4>3, <4>4 DEF Reached, At
        <3> QED
            BY <3>2, <3>3, <3>4, <3>5, GoesOn DEF Places
    <2> QED
        BY <1>2, <2>1, <2>2 DEF ReadConfig
<1>3. ASSUME NEW p \in Callers, ~At(p, "off"), clean,
             UNCHANGED <<board, conf, call, image, sum, asked, left>>
      PROVE  /\ call[p].mode = NoMode /\ asked.mode # NoMode =>
                  (ModeOf(conf)' = asked'.mode \/ left') /\ Switched(asked.mode)
             /\ pc[p] \in {"enable", "mode0", "mode1", "term", "release"} =>
                  image'[p] = Configured(conf, call[p])' /\ sum'[p] = Checksum(conf)'
    <2>1. Reached(p)
        BY <1>3 DEF ModeInv
    <2>2. call[p].mode = NoMode /\ asked.mode # NoMode =>
            (ModeOf(conf) = asked.mode \/ left) /\ Switched(asked.mode)
        BY <2>1 DEF Reached
    <2>3. pc[p] \in {"enable", "mode0", "mode1", "term", "release"} =>
            image[p] = Configured(conf, call[p]) /\ sum[p] = Checksum(conf)
        BY <2>1 DEF Reached
    <2>4. ModeOf(conf)' = ModeOf(conf)
        BY <1>3 DEF ModeOf
    <2>5. Configured(conf, call[p])' = Configured(conf, call[p]) /\ Checksum(conf)' = Checksum(conf)
        BY <1>3 DEF Configured, SetTimes, SwitchMode, SwitchUart, SwitchBridge, PreProcess, Checksum
    <2> QED
        BY <1>3, <2>2, <2>3, <2>4, <2>5
<1>13. ASSUME NEW p \in Callers, EnableTransceiver(p) PROVE ModeInv'
    <2>1. At(p, "enable") /\ ~At(p, "off") /\ call[p].mode \in Modes /\ Goto(p, "mode0")
          /\ UNCHANGED <<board, conf, running, call, image, sum, asked, left>>
        BY <1>13 DEF EnableTransceiver, At, ProcessTypes
    <2>2. pc'[p] = "mode0"
        BY <2>1 DEF Goto, ProcessTypes
    <2>3. (~clean') \/ (clean' = clean /\ pins'.enable = 1)
        BY <1>13 DEF EnableTransceiver, SetPin, DeviceTypes, PinNames
    <2>4. call[p].mode # NoMode
        BY <2>1 DEF Modes, NoMode
    <2>5. ASSUME clean' PROVE Reached(p)'
        <3>1. image'[p] = Configured(conf, call[p])' /\ sum'[p] = Checksum(conf)'
            BY <1>3, <2>1, <2>3, <2>5 DEF At
        <3> QED
            BY <2>1, <2>2, <2>3, <2>4, <2>5, <3>1 DEF Reached, At
    <2> QED
        BY <2>1, <2>3, <2>5, GoesOn DEF Places
<1>4. ASSUME NEW p \in Callers, SetMode0(p) PROVE ModeInv'
    <2>1. At(p, "mode0") /\ ~At(p, "off") /\ call[p].mode \in Modes /\ Goto(p, "mode1")
          /\ UNCHANGED <<board, conf, running, call, image, sum, asked, left>>
        BY <1>4 DEF SetMode0, At, ProcessTypes
    <2>2. pc'[p] = "mode1"
        BY <2>1 DEF Goto, ProcessTypes
    <2>3. (~clean') \/ (clean' = clean /\ pins'.enable = pins.enable
                        /\ pins'.mode0 = IF call[p].mode = "rs485" THEN 0 ELSE 1)
        BY <1>4 DEF SetMode0, SetPin, DeviceTypes, PinNames
    <2>4. call[p].mode # NoMode
        BY <2>1 DEF Modes, NoMode
    <2>5. ASSUME clean' PROVE Reached(p)'
        <3>1. image'[p] = Configured(conf, call[p])' /\ sum'[p] = Checksum(conf)'
            BY <1>3, <2>1, <2>3, <2>5 DEF At
        <3>2. pins.enable = 1
            BY <2>1, <2>3, <2>5 DEF ModeInv, Reached, At
        <3> QED
            BY <2>1, <2>2, <2>3, <2>4, <2>5, <3>1, <3>2 DEF Reached, At
    <2> QED
        BY <2>1, <2>3, <2>5, GoesOn DEF Places
<1>5. ASSUME NEW p \in Callers, SetMode1(p) PROVE ModeInv'
    <2>1. At(p, "mode1") /\ ~At(p, "off") /\ call[p].mode \in Modes /\ Goto(p, "term")
          /\ UNCHANGED <<board, conf, running, call, image, sum, asked, left>>
        BY <1>5 DEF SetMode1, At, ProcessTypes
    <2>2. pc'[p] = "term"
        BY <2>1 DEF Goto, ProcessTypes
    <2>3. (~clean') \/ (clean' = clean /\ pins'.enable = pins.enable
                        /\ pins'.mode0 = pins.mode0
                        /\ pins'.mode1 = IF call[p].mode = "rs232" THEN 0 ELSE 1)
        BY <1>5 DEF SetMode1, SetPin, DeviceTypes, PinNames
    <2>4. call[p].mode # NoMode
        BY <2>1 DEF Modes, NoMode
    <2>5. ASSUME clean' PROVE Reached(p)'
        <3>1. image'[p] = Configured(conf, call[p])' /\ sum'[p] = Checksum(conf)'
            BY <1>3, <2>1, <2>3, <2>5 DEF At
        <3>2. pins.enable = 1 /\ pins.mode0 = IF call[p].mode = "rs485" THEN 0 ELSE 1
            BY <2>1, <2>3, <2>5 DEF ModeInv, Reached, At
        <3>3. Switched(call[p].mode)'
            BY <2>1, <2>3, <2>5, <3>2 DEF Switched
        <3> QED
            BY <2>1, <2>2, <2>4, <3>1, <3>3 DEF Reached, At
    <2> QED
        BY <2>1, <2>3, <2>5, GoesOn DEF Places
<1>6. ASSUME NEW p \in Callers, SetTermination(p) PROVE ModeInv'
    <2>1. At(p, "term") /\ ~At(p, "off") /\ Goto(p, "release")
          /\ UNCHANGED <<board, conf, running, call, image, sum, asked, left>>
        BY <1>6 DEF SetTermination, At
    <2>2. pc'[p] = "release"
        BY <2>1 DEF Goto, ProcessTypes
    <2>3. (~clean') \/ (clean' = clean /\ pins'.enable = pins.enable
                        /\ pins'.mode0 = pins.mode0 /\ pins'.mode1 = pins.mode1
                        /\ pins'.term = call[p].term)
        BY <1>6 DEF SetTermination, SetPin, DeviceTypes, PinNames
    <2>5. ASSUME clean' PROVE Reached(p)'
        <3>1. /\ call[p].mode = NoMode /\ asked.mode # NoMode =>
                   (ModeOf(conf)' = asked'.mode \/ left') /\ Switched(asked.mode)
              /\ image'[p] = Configured(conf, call[p])' /\ sum'[p] = Checksum(conf)'
            BY <1>3, <2>1, <2>3, <2>5 DEF At
        <3>2. call[p].mode \in Modes => Switched(call[p].mode)
            BY <2>1, <2>3, <2>5 DEF ModeInv, Reached, At
        <3>3. call[p].mode \in Modes => Switched(call[p].mode)'
            BY <2>1, <2>3, <2>5, <3>2 DEF Switched
        <3>4. call[p].mode = NoMode /\ asked.mode # NoMode =>
                (ModeOf(conf)' = asked'.mode \/ left') /\ Switched(asked.mode)'
            BY <2>1, <2>3, <2>5, <3>1 DEF Switched
        <3> QED
            BY <2>1, <2>2, <2>3, <2>5, <3>1, <3>3, <3>4 DEF Reached, At
    <2> QED
        BY <2>1, <2>3, <2>5, GoesOn DEF Places
<1>7. ASSUME NEW p \in Callers, Release(p) PROVE ModeInv'
    <2>0. At(p, "release") /\ ~At(p, "off") /\ UNCHANGED <<board, pins>>
        BY <1>7 DEF Release, At
    <2>1. CASE End(p, FALSE)
        BY <2>1, EndInError
    <2>2. CASE /\ \/ Checksum(image[p]) = sum[p] /\ conf' = conf
                  \/ conf' = image[p]
               /\ Goto(p, "reset")
               /\ UNCHANGED <<running, pins, call, image, sum, clean, asked, left>>
        <3>1. pc'[p] = "reset"
            BY <2>2 DEF Goto, ProcessTypes
        <3>2. ASSUME clean' PROVE Reached(p)'
            <4>1. Reached(p)
                BY <2>0, <2>2, <3>2 DEF ModeInv
            <4>2. image[p] = Configured(conf, call[p]) /\ sum[p] = Checksum(conf)
                BY <2>0, <4>1 DEF Reached, At
            <4>3. image[p] \in Conf /\ conf \in Conf
                BY DEF ProcessTypes, DeviceTypes
            <4>4. /\ call[p].mode \in Modes => ModeOf(image[p]) = call[p].mode
                  /\ call[p].mode = NoMode => ModeOf(image[p]) = ModeOf(conf)
                BY <1>0, <4>2, <4>3, ConfiguredType
            <4>5. conf' \in {conf, image[p]} /\ ModeOf(conf)' = ModeOf(conf')
                BY <2>0, <2>2 DEF ModeOf
            <4>6. (call[p].mode = NoMode /\ asked.mode # NoMode =>
                     (ModeOf(conf) = asked.mode \/ left) /\ Switched(asked.mode))'
                BY <4>1, <4>4, <4>5, <2>2 DEF Reached, Switched
            <4>7. call[p].mode \in Modes => Switched(call[p].mode)'
                BY <2>0, <2>2, <4>1 DEF Reached, Switched, At
            <4>8. pins.term = call[p].term
                BY <2>0, <4>1 DEF Reached, At
            <4>9. ASSUME call[p].mode \in Modes,
                         image[p] = conf' \/ {call[p].setup, call[p].hold} = {0}
                  PROVE  ModeOf(conf)' = call[p].mode
                <5>1. CASE image[p] = conf'
                    BY <4>4, <4>5, <4>9, <5>1
                <5>2. CASE conf' = conf /\ Checksum(image[p]) = sum[p]
                           /\ call[p].setup = 0 /\ call[p].hold = 0
                    BY <1>0, <4>2, <4>3, <4>5, <4>9, <5>2, LeftOut
                <5> QED
                    BY <2>2, <4>9, <5>1, <5>2
            <4> QED
                BY <2>2, <3>1, <4>6, <4>7, <4>8, <4>9 DEF Reached, At
        <3> QED
            BY <2>0, <2>2, <3>2, GoesOn DEF Places
    <2> QED
        BY <1>7, <2>1, <2>2 DEF Release, auxVars
<1>15. ASSUME NEW p \in Callers, clean, ~At(p, "off"), pc[p] \in {"reset", "letgo"}
       PROVE  /\ call[p].mode \in Modes =>
                   /\ Switched(call[p].mode)
                   /\ \/ ModeOf(conf) = call[p].mode
                      \/ image[p] # conf /\ {call[p].setup, call[p].hold} # {0}
              /\ call[p].mode = NoMode /\ asked.mode # NoMode =>
                   (ModeOf(conf) = asked.mode \/ left) /\ Switched(asked.mode)
              /\ pins.term = call[p].term
              /\ At(p, "letgo") => pins.reset = 0
    BY <1>15 DEF ModeInv, Reached
<1>8. ASSUME NEW p \in Callers, Reset(p) PROVE ModeInv'
    <2>0. At(p, "reset") /\ ~At(p, "off") /\ pc[p] \in {"reset", "letgo"} /\ UNCHANGED board
        BY <1>8 DEF Reset, At
    <2>1. CASE board = "pg1" /\ UNCHANGED deviceVars /\ End(p, TRUE) /\ ~clean
        BY <2>1, EndInError
    <2>2. CASE board = "pg1" /\ UNCHANGED deviceVars /\ End(p, TRUE) /\ clean
        <3>1. conf' = conf /\ pins' = pins
            BY <2>2 DEF deviceVars
        <3>2. ModeInForce'
            BY <1>15, <2>0, <2>2, <3>1, Answered
        <3> QED
            BY <2>0, <2>2, <3>2, EndClean
    <2>3. CASE Goto(p, "letgo") /\ SetPin("reset", 0)
               /\ UNCHANGED <<conf, running, call, image, sum, asked, left>>
        <3>1. pc'[p] = "letgo"
            BY <2>3 DEF Goto, ProcessTypes
        <3>2. (~clean') \/ (/\ clean' = clean /\ pins'.enable = pins.enable
                            /\ pins'.mode0 = pins.mode0 /\ pins'.mode1 = pins.mode1
                            /\ pins'.term = pins.term /\ pins'.reset = 0)
            BY <2>3 DEF SetPin, DeviceTypes, PinNames
        <3>3. ASSUME clean' PROVE Reached(p)'
            <4>1. ModeOf(conf)' = ModeOf(conf)
                BY <2>0, <2>3 DEF ModeOf
            <4>2. call[p].mode \in Modes =>
                    /\ Switched(call[p].mode)'
                    /\ (\/ ModeOf(conf) = call[p].mode
                        \/ image[p] # conf /\ {call[p].setup, call[p].hold} # {0})'
                BY <1>15, <2>0, <2>3, <3>2, <3>3, <4>1 DEF Switched
            <4>3. (call[p].mode = NoMode /\ asked.mode # NoMode =>
                     (ModeOf(conf) = asked.mode \/ left) /\ Switched(asked.mode))'
                BY <1>15, <2>0, <2>3, <3>2, <3>3, <4>1 DEF Switched
            <4>4. (pins.term = call[p].term)' /\ (pins.reset = 0)'
                BY <1>15, <2>0, <2>3, <3>2, <3>3
            <4> QED
                BY <2>3, <3>1, <4>2, <4>3, <4>4 DEF Reached, At
        <3> QED
            BY <2>0, <2>3, <3>2, <3>3, GoesOn DEF Places
    <2> QED
        BY <1>8, <2>1, <2>2, <2>3 DEF Reset
<1>14. ASSUME NEW p \in Callers, LetGo(p) PROVE ModeInv'
    <2>0. /\ At(p, "letgo") /\ ~At(p, "off") /\ pc[p] \in {"reset", "letgo"}
          /\ UNCHANGED <<board, conf>>
        BY <1>14 DEF LetGo, At
    <2>1. CASE End(p, FALSE)
        BY <2>1, EndInError
    <2>2. CASE End(p, TRUE) /\ ~clean
        BY <2>2, EndInError
    <2>3. CASE /\ End(p, TRUE) /\ clean /\ pins' = [pins EXCEPT !.reset = 1]
               /\ running' = IF OnBus THEN running ELSE conf
        <3>1. /\ pins'.enable = pins.enable /\ pins'.mode0 = pins.mode0
              /\ pins'.mode1 = pins.mode1 /\ pins'.term = pins.term
            BY <2>3 DEF DeviceTypes, PinNames
        <3>2. running' = conf'
            BY <1>15, <2>0, <2>3 DEF OnBus
        <3>3. ModeInForce'
            BY <1>15, <2>0, <2>3, <3>1, <3>2, Answered
        <3> QED
            BY <2>0, <2>3, <3>3, EndClean
    <2> QED
        BY <1>14, <2>1, <2>2, <2>3 DEF LetGo
<1>9. ASSUME NEW p \in Callers, ReleaseUart(p) PROVE ModeInv'
    <2>0. At(p, "release") /\ ~At(p, "off") /\ UNCHANGED <<board, pins>>
        BY <1>9 DEF ReleaseUart, At
    <2>1. CASE End(p, FALSE)
        BY <2>1, EndInError
    <2>2. CASE End(p, TRUE) /\ ~clean
        BY <2>2, EndInError
    <2>3. CASE End(p, TRUE) /\ clean /\ conf' = image[p] /\ running' = image[p]
        <3>1. Reached(p)
            BY <2>0, <2>3 DEF ModeInv
        <3>2. image[p] = Configured(conf, call[p]) /\ conf \in Conf
            BY <2>0, <3>1 DEF Reached, At, DeviceTypes
        <3>3. /\ call[p].mode \in Modes => ModeOf(conf') = call[p].mode
              /\ call[p].mode = NoMode => ModeOf(conf') = ModeOf(conf)
            BY <1>0, <2>3, <3>2, ConfiguredType
        <3>4. call[p].mode \in Modes => ModeOf(conf') = call[p].mode /\ Switched(call[p].mode)
            BY <2>0, <3>1, <3>3 DEF Reached, At
        <3>5. call[p].mode = NoMode /\ asked.mode # NoMode =>
                (ModeOf(conf') = asked.mode \/ left) /\ Switched(asked.mode)
            BY <3>1, <3>3 DEF Reached
        <3>6. pins.term = call[p].term
            BY <2>0, <3>1 DEF Reached, At
        <3>7. ModeInForce'
            BY <2>0, <2>3, <3>4, <3>5, <3>6, Answered
        <3> QED
            BY <2>0, <2>3, <3>7, EndClean
    <2> QED
        BY <1>9, <2>1, <2>2, <2>3 DEF ReleaseUart
<1>10. ASSUME NEW p \in Callers, Kill(p) PROVE ModeInv'
    BY <1>10, EndInError DEF Kill
<1>11. CASE PowerCycle
    BY <1>11 DEF PowerCycle, ModeInv, ModeInForce, Nothing
<1>12. CASE UNCHANGED vars
    <2>1. UNCHANGED <<board, conf, running, pins, pc, call, image, sum, clean, asked, left>>
        BY <1>12 DEF vars, deviceVars, processVars, auxVars
    <2>2. ModeOf(conf)' = ModeOf(conf)
        BY <2>1 DEF ModeOf
    <2>3. ModeInForce'
        BY <2>1, <2>2 DEF ModeInv, ModeInForce, AllOff, Switched
    <2>4. ASSUME clean', NEW p \in Callers, pc'[p] # "off" PROVE Reached(p)'
        <3>1. Reached(p)
            BY <2>1, <2>4 DEF ModeInv, At
        <3>2. Configured(conf, call[p])' = Configured(conf, call[p])
              /\ Checksum(conf)' = Checksum(conf)
            BY <2>1 DEF Configured, SetTimes, SwitchMode, SwitchUart, SwitchBridge, PreProcess,
                        Checksum
        <3> QED
            BY <2>1, <2>2, <3>1, <3>2 DEF Reached, At, Switched
    <2> QED
        BY <2>1, <2>3, <2>4 DEF ModeInv, At
<1> QED
    BY <1>1, <1>2, <1>4, <1>5, <1>6, <1>7, <1>8, <1>9, <1>10, <1>11, <1>12, <1>13, <1>14
    DEF Next, Process

(* After a call that met no error and was alone, the transceiver is in the *)
(* mode asked for last, and so is the controller unless that call set a    *)
(* time and its write was left out; a call without times loses nothing     *)
(* when two checksums agree, whatever the calls before it left behind.     *)
THEOREM LastModeInForce == Spec => []ModeInForce
<1>1. Init => TypeOK /\ ModeInv
    BY SerialTypeInit, ModeInit
<1>2. TypeOK /\ ModeInv /\ [Next]_vars => (TypeOK /\ ModeInv)'
    BY SerialTypeStep, ModeStep
<1>3. TypeOK /\ ModeInv => ModeInForce
    BY DEF ModeInv
<1> QED
    BY <1>1, <1>2, <1>3, PTL DEF Spec

(* The times of what a call that sets none computes.                       *)
LEMMA TimesComputed ==
  ASSUME NEW c \in Conf, NEW l \in CommandLines, {l.setup, l.hold} = {0},
         0 \notin {c.setup, c.hold}
  PROVE  Configured(c, l).setup = c.setup /\ Configured(c, l).hold = c.hold
<1>1. PreProcess(c) = c
    BY PreProcessType
<1>2. /\ SwitchMode(c, l.mode) \in Conf
      /\ SwitchMode(c, l.mode).setup = c.setup /\ SwitchMode(c, l.mode).hold = c.hold
    BY SwitchType, Arguments
<1>3. l.setup = 0 /\ l.hold = 0
    OBVIOUS
<1>4. Configured(c, l) = SwitchMode(c, l.mode)
    BY <1>1, <1>2, <1>3, SetTimesType DEF Configured
<1> QED
    BY <1>2, <1>4

KeepTimes ==
  \/ <<conf'.setup, conf'.hold>> = <<conf.setup, conf.hold>>
  \/ 0 \in {conf.setup, conf.hold} \/ ~clean
  \/ \E p \in Callers : At(p, "release") /\ {call[p].setup, call[p].hold} # {0}

LEMMA TimesStep == TypeOK /\ ModeInv /\ [Next]_vars => KeepTimes
<1> SUFFICES ASSUME ProcessTypes, DeviceTypes, ModeInv, [Next]_vars,
                    0 \notin {conf.setup, conf.hold}, clean, conf' # conf,
                    \A p \in Callers : At(p, "release") => {call[p].setup, call[p].hold} = {0}
             PROVE  conf'.setup = conf.setup /\ conf'.hold = conf.hold
    BY DEF TypeOK, ProcessTypes, DeviceTypes, KeepTimes
<1>1. \/ \E p \in Callers : At(p, "release") /\ conf' = image[p]
      \/ PowerCycle
    BY DEF Next, Start, Process, ReadConfig, InitFails, EnableTransceiver, SetMode0, SetMode1,
       SetTermination, Release, Reset, LetGo, ReleaseUart, Kill, deviceVars, vars
<1>2. ASSUME NEW p \in Callers, At(p, "release"), conf' = image[p]
      PROVE  conf'.setup = conf.setup /\ conf'.hold = conf.hold
    <2>1. image[p] = Configured(conf, call[p])
        BY <1>2 DEF ModeInv, Reached, At
    <2>2. conf \in Conf /\ call[p] \in CommandLines
        BY DEF DeviceTypes, ProcessTypes
    <2> QED
        BY <1>2, <2>1, <2>2, TimesComputed
<1>3. CASE PowerCycle
    BY <1>3 DEF PowerCycle, DeviceTypes, Conf
<1> QED
    BY <1>1, <1>2, <1>3

(* A call that sets no time changes none, unless one was zero or another   *)
(* call overlaps it: neither switching a mode, nor a write that is left out*)
(* or fails, nor a power cycle touches the times.                          *)
THEOREM TimesAreKept == Spec => TimesKept
<1>1. Init => TypeOK /\ ModeInv
    BY SerialTypeInit, ModeInit
<1>2. TypeOK /\ ModeInv /\ [Next]_vars => (TypeOK /\ ModeInv)'
    BY SerialTypeStep, ModeStep
<1>3. TypeOK /\ ModeInv /\ [Next]_vars => [KeepTimes]_vars
    BY TimesStep
<1> QED
    BY <1>1, <1>2, <1>3, PTL DEF Spec, TimesKept, KeepTimes
=============================================================================
