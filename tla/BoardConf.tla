------------------------------- MODULE BoardConf -------------------------------
(***************************************************************************)
(* The board configuration: one JSON file that holds the mode of the serial*)
(* port and the function of every Arduino pin, the set-up tool whose COM   *)
(* menu and Arduino menu each keep a copy of the whole file, and the boot  *)
(* service that applies the file.  Pin operations run in threads that the  *)
(* tool waits for, three seconds at most.                                  *)
(***************************************************************************)
EXTENDS Integers, Sequences, FiniteSets

CONSTANTS
  PinMap,    \* Arduino_pinmux_map: for each pin its functions but GPIO
  Gpio,      \* directions and pull modes of a pin used as GPIO
  Input,     \* the default among them
  Advanced,  \* the board type starts with "IOT2050 Advanced"
  Threads,   \* threads of pin operations that may be alive at once
  Faults,    \* what may go wrong
  MaxOps,    \* bound on operations of the user
  MaxBoots   \* bound on boots

Modes == {"RS232", "RS485", "RS422"}
Broken == [init |-> "none"]
AllFaults == {"mraa", "slow", "serial", "power"}

Pin == DOMAIN PinMap
Fn == UNION {PinMap[p] : p \in Pin}

ASSUME BoardAssumption ==
  /\ Pin \subseteq 0..19 /\ \A p, q \in Pin : p # q => PinMap[p] \cap PinMap[q] = {}
  /\ Input \in Gpio /\ Gpio \cap Fn = {} /\ Advanced \in BOOLEAN
  /\ Faults \subseteq AllFaults /\ MaxOps \in Nat /\ MaxBoots \in Nat \ {0}

VARIABLES
  file,    \* board-configuration.json
  boot,    \* the boot service: "serial", "pins", "done", "died"
  next,    \* the next pin it looks at
  bconf,   \* its copy of the file
  ui,      \* the tool: "closed", "menu", "times" or "call"
  com,     \* the copy of the COM menu
  ard,     \* the copy of the Arduino menu
  want,    \* mode and terminator selected in the COM menu
  jobs,    \* per thread: the calls it still has to make, of the first one
           \* what is left of its steps
  pins,    \* function of each pin
  serial,  \* mode and termination of the serial port
  ops, boots, \* bounds
  clean,   \* auxiliary: no error and no overlap since the boot, and the
           \* tool was opened after the boot service had ended
  excused, \* auxiliary: why file and pins may differ since the boot: it
           \* could not restore the file ("boot"), or the COM menu has
           \* saved another pin configuration than the Arduino menu's ("stale")
  chosen   \* auxiliary: the mode the user selected last

toolVars == <<ui, com, ard, want, jobs>>
bootVars == <<boot, next, bconf>>
vars == <<file, bootVars, toolVars, pins, serial, ops, boots, clean, excused, chosen>>

Group(name) ==
  LET all == CASE name = "UART" -> {"UART_RX", "UART_TX", "UART_CTS", "UART_RTS"}
               [] name = "data" -> {"UART_RX", "UART_TX"}
               [] name = "flow" -> {"UART_CTS", "UART_RTS"}
               [] name = "SPI"  -> {"SPI_SS", "SPI_MOSI", "SPI_MISO", "SPI_SCK"}
               [] name = "I2C"  -> {"I2C_SDA", "I2C_SCL"}
               [] name = "PWM"  -> {"PWM_4", "PWM_5", "PWM_6", "PWM_7", "PWM_8", "PWM_9"}
               [] name = "ADC"  -> {"ADC_0", "ADC_1", "ADC_2", "ADC_3", "ADC_4", "ADC_5"}
  IN all \cap Fn

(* The shipped Arduino_pinmux_map: every function belongs to a group, no   *)
(* pin serves two of the buses, and the member by which the boot service   *)
(* restores a group is on the lowest pin of the group.  GPIO functions have*)
(* names of their own.                                                     *)
Bus == Group("UART") \cup Group("SPI") \cup Group("I2C")
LeadsFrom(f, F) ==
  \A p, q \in Pin : f \in PinMap[p] /\ PinMap[q] \cap F # {} => p <= q

ASSUME PinoutAssumption ==
  /\ Fn \subseteq Bus \cup Group("PWM") \cup Group("ADC")
  /\ \A p \in Pin : \A f, g \in PinMap[p] \cap Bus : f = g
  /\ Gpio \cap {"I2C_SDA", "SPI_SS", "UART_RX", "UART_TX", "UART_CTS"} = {}
  /\ LeadsFrom("I2C_SDA", Group("I2C")) /\ LeadsFrom("SPI_SS", Group("SPI"))
  /\ LeadsFrom("UART_RX", Group("data")) /\ LeadsFrom("UART_CTS", Group("flow"))

(* Functions given to the pins that have them; a map put over another.     *)
To(F) == [p \in {q \in Pin : PinMap[q] \cap F # {}} |-> CHOOSE f \in F : f \in PinMap[p]]
Over(f, g) == [p \in Pin |-> IF p \in DOMAIN g THEN g[p] ELSE f[p]]

AllInputs == [p \in Pin |-> Input]
Shipped == [init |-> "RS232", current |-> "RS232", term |-> "off", mux |-> AllInputs]
NoWant == [mode |-> "none", term |-> "off"]

Init ==
  /\ file = Shipped /\ boot = "serial" /\ next = 0 /\ bconf = Shipped
  /\ ui = "closed" /\ com = Shipped /\ ard = Shipped /\ want = NoWant
  /\ jobs = [t \in Threads |-> <<>>]
  /\ pins = AllInputs /\ serial = NoWant
  /\ ops = 0 /\ boots = 1 /\ clean = TRUE /\ excused = {} /\ chosen = "RS232"

Idle == \A t \in Threads : jobs[t] = <<>>
Fault(f) == f \in Faults /\ clean' = FALSE

-----------------------------------------------------------------------------
(* The boot service.  RS232 is never terminated; the exit code of          *)
(* switchserialmode is not looked at.                                      *)
InitExternalSerialMode ==
  /\ boot = "serial" /\ boot' = "pins" /\ next' = 0
  /\ bconf' = [bconf EXCEPT !.current = bconf.init]
  /\ file' = IF bconf.init # bconf.current THEN bconf' ELSE file
  /\ \/ serial' = [mode |-> bconf.init,
                   term |-> IF bconf.init = "RS232" THEN "off" ELSE bconf.term]
        /\ UNCHANGED clean
     \/ Fault("serial") /\ UNCHANGED serial
  /\ UNCHANGED <<toolVars, pins, ops, boots, excused, chosen>>

(* Groups of which the boot service finds the member it acts upon.         *)
Restorable(m) ==
  LET has(f) == \E p \in Pin : m[p] = f
  IN /\ has("I2C_SCL") => has("I2C_SDA")
     /\ (\E f \in Group("SPI") : has(f)) => has("SPI_SS")
     /\ has("UART_TX") => has("UART_RX")
     /\ has("UART_RTS") => has("UART_CTS")
     /\ has("UART_CTS") => has("UART_RX") /\ has("UART_TX")

(* setPinmux: one member of a group switches the pins of the whole group,  *)
(* the others are passed over.                                             *)
Restored(p, f) ==
  CASE f \in Gpio \cup Group("ADC") \cup Group("PWM") -> [q \in {p} |-> f]
    [] f = "I2C_SDA" -> To(Group("I2C"))
    [] f = "SPI_SS" -> To(Group("SPI"))
    [] f = "UART_RX" -> To(Group("data"))
    [] f = "UART_CTS" -> To(Group("UART"))
    [] OTHER -> <<>>

(* Mutant: the pins are set in the opposite order.                         *)
InitArduinoPinDown ==
  /\ boot = "pins" /\ next <= 19
  /\ LET todo == {p \in Pin : 19 - p >= next}
     IN IF todo = {} THEN next' = 20 /\ UNCHANGED <<boot, pins, clean>>
        ELSE \E p \in todo :
               /\ \A q \in todo : p >= q
               /\ \/ pins' = Over(pins, Restored(p, bconf.mux[p]))
                     /\ next' = 20 - p /\ UNCHANGED <<boot, clean>>
                  \/ Fault("mraa") /\ boot' = "died" /\ UNCHANGED <<next, pins>>
  /\ UNCHANGED <<file, bconf, toolVars, serial, ops, boots, excused, chosen>>

(* initAruinoPins, in the order of the pins; an exception ends the program.*)
InitArduinoPin ==
  /\ boot = "pins" /\ next <= 19
  /\ LET todo == {p \in Pin : p >= next}
     IN IF todo = {} THEN next' = 20 /\ UNCHANGED <<boot, pins, clean>>
        ELSE \E p \in todo :
               /\ \A q \in todo : p <= q
               /\ \/ pins' = Over(pins, Restored(p, bconf.mux[p]))
                     /\ next' = p + 1 /\ UNCHANGED <<boot, clean>>
                  \/ Fault("mraa") /\ boot' = "died" /\ UNCHANGED <<next, pins>>
  /\ UNCHANGED <<file, bconf, toolVars, serial, ops, boots, excused, chosen>>

BootDone ==
  /\ boot = "pins" /\ next = 20 /\ boot' = "done"
  /\ excused' = excused \cup IF Restorable(bconf.mux) THEN {} ELSE {"boot"}
  /\ UNCHANGED <<file, next, bconf, toolVars, pins, serial, ops, boots, clean, chosen>>

-----------------------------------------------------------------------------
(* The tool.  Entering the Peripherals menu reads the file twice; a file   *)
(* that cannot be parsed ends the tool.                                    *)
Open ==
  /\ ui = "closed" /\ file # Broken /\ Idle
  /\ ui' = "menu" /\ com' = file /\ ard' = file
  /\ clean' = (clean /\ boot = "done")
  /\ UNCHANGED <<file, bootVars, want, jobs, pins, serial, ops, boots, excused, chosen>>

(* Leaving the tool ends its daemon threads with it; leaving the menu while*)
(* one is alive is not told apart from that.                               *)
Close ==
  /\ ui = "menu" /\ ui' = "closed"
  /\ jobs' = [t \in Threads |-> <<>>] /\ clean' = (clean /\ Idle)
  /\ UNCHANGED <<file, bootVars, com, ard, want, pins, serial, ops, boots, excused, chosen>>

UserActs == ui = "menu" /\ ops < MaxOps /\ ops' = ops + 1

(* saveConfig of the COM menu: its whole copy, with the pins as they were  *)
(* when the menus were opened.                                             *)
ComSaves ==
  /\ file' = com'
  /\ excused' = excused \cup IF com.mux = ard.mux THEN {} ELSE {"stale"}

(* RS232: no question.  Otherwise selectTerminate saves the terminator at  *)
(* once; on an advanced board the times of RS485 are asked for next.       *)
SelectRs232 ==
  /\ UserActs /\ ui' = "call" /\ want' = [mode |-> "RS232", term |-> "off"]
  /\ com' = [com EXCEPT !.init = "RS232", !.current = "RS232"] /\ ComSaves
  /\ chosen' = "RS232"
  /\ UNCHANGED <<bootVars, ard, jobs, pins, serial, boots, clean>>

SelectTerminate(m, t) ==
  /\ UserActs /\ m # "RS232" /\ want' = [mode |-> m, term |-> t]
  /\ com' = [com EXCEPT !.term = t] /\ ComSaves /\ ui' = "times"
  /\ UNCHANGED <<bootVars, ard, jobs, pins, serial, boots, clean, chosen>>

(* Cancelling takes nothing back.                                          *)
CancelTimes ==
  /\ ui = "times" /\ Advanced /\ want.mode = "RS485"
  /\ ui' = "menu" /\ want' = NoWant
  /\ UNCHANGED <<file, bootVars, com, ard, jobs, pins, serial, ops, boots, clean, excused, chosen>>

(* Mutant: the current mode is forgotten.                                  *)
SaveModeInitOnly ==
  /\ ui = "times" /\ ui' = "call"
  /\ com' = [com EXCEPT !.init = want.mode] /\ ComSaves
  /\ chosen' = want.mode
  /\ UNCHANGED <<bootVars, ard, want, jobs, pins, serial, ops, boots, clean>>

(* serialModeSelection: saved first, then switched.                        *)
SaveMode ==
  /\ ui = "times" /\ ui' = "call"
  /\ com' = [com EXCEPT !.init = want.mode, !.current = want.mode] /\ ComSaves
  /\ chosen' = want.mode
  /\ UNCHANGED <<bootVars, ard, want, jobs, pins, serial, ops, boots, clean>>

CallSwitch ==
  /\ ui = "call" /\ ui' = "menu" /\ want' = NoWant
  /\ \/ serial' = want /\ UNCHANGED clean
     \/ Fault("serial") /\ UNCHANGED serial
  /\ UNCHANGED <<file, bootVars, com, ard, jobs, pins, ops, boots, excused, chosen>>

-----------------------------------------------------------------------------
(* Pin operations as sequences of calls, each a sequence of steps on copy, *)
(* pins and file.                                                          *)
Copy(w) == [do |-> "copy", map |-> w]
Mraa(w) == [do |-> "mraa", map |-> w]
Save == [do |-> "save", map |-> <<>>]
SaveConfig == <<Save>>

Enable(F) == <<Mraa(To(F)), Copy(To(F))>>
SetGpio(p, g) == <<Copy([q \in {p} |-> g]), Mraa([q \in {p} |-> g])>>

(* The pins that could have one of some functions, in ascending order.     *)
Ascending(S) ==
  CHOOSE s \in [1..Cardinality(S) -> S] : \A i, j \in DOMAIN s : i < j => s[i] < s[j]
PinsOf(F) == Ascending({p \in Pin : PinMap[p] \cap F # {}})

(* resetPinDefault: every pin that could have the function, whatever it is *)
(* used for.                                                               *)
ResetPinDefault(F) == [i \in DOMAIN PinsOf(F) |-> SetGpio(PinsOf(F)[i], Input)]

GpioButtonOk(p, g) == <<SetGpio(p, g), SaveConfig>>

(* arduinoI2cChoice, arduinoSpiChoice.                                     *)
BusChoice(name, choice) ==
  LET F == Group(name)
      on == \A p \in Pin : PinMap[p] \cap F # {} => ard.mux[p] \in F
  IN (IF choice = "enable" THEN <<Enable(F)>>
      ELSE IF on THEN ResetPinDefault(F) ELSE <<>>) \o <<SaveConfig>>

UartButtonOk(sel) ==
  (IF "data" \notin sel THEN ResetPinDefault(Group("UART"))
   ELSE IF "flow" \in sel THEN <<Enable(Group("UART"))>>
   ELSE <<Enable(Group("data"))>> \o ResetPinDefault(Group("flow"))) \o <<SaveConfig>>

(* Mutant: the pins of a box that is not ticked are left as they are.      *)
ButtonOkKeeps(name, sel) ==
  LET ps == PinsOf(Group(name))
  IN [i \in DOMAIN ps |-> IF PinMap[ps[i]] \cap sel # {} THEN Enable(PinMap[ps[i]] \cap sel)
                          ELSE <<Mraa([p \in {ps[i]} |-> Input])>>]
     \o <<SaveConfig>>

(* pwmButtonOkProcess, adcButtonOkProcess: one box after the other, which *)
(* is the order of their pins.                                             *)
ButtonOk(name, sel) ==
  LET ps == PinsOf(Group(name))
  IN [i \in DOMAIN ps |-> IF PinMap[ps[i]] \cap sel # {} THEN Enable(PinMap[ps[i]] \cap sel)
                          ELSE SetGpio(ps[i], Input)]
     \o <<SaveConfig>>

Operations ==
  {GpioButtonOk(p, g) : p \in Pin, g \in Gpio}
  \cup {BusChoice(n, c) : n \in {"I2C", "SPI"}, c \in {"enable", "disable"}}
  \cup {UartButtonOk(sel) : sel \in SUBSET {"data", "flow"}}
  \cup {ButtonOk("PWM", sel) : sel \in SUBSET Group("PWM")}
  \cup {ButtonOk("ADC", sel) : sel \in SUBSET Group("ADC")}

(* threadDecorator: the user gets on when the thread has ended, or after   *)
(* three seconds ("slow").                                                 *)
PinOperation(t) ==
  /\ UserActs /\ jobs[t] = <<>> /\ (Idle \/ "slow" \in Faults)
  /\ \E prog \in Operations : jobs' = [jobs EXCEPT ![t] = prog]
  /\ clean' = (clean /\ Idle)
  /\ UNCHANGED <<file, bootVars, ui, com, ard, want, pins, serial, boots, excused, chosen>>

(* What a thread has to do when it has done its next step.                 *)
Rest(calls) ==
  IF Len(Head(calls)) = 1 THEN Tail(calls) ELSE <<Tail(Head(calls))>> \o Tail(calls)

(* An exception ends the thread before it saves.                           *)
Step(t) ==
  /\ jobs[t] # <<>>
  /\ LET s == Head(Head(jobs[t])) IN
       \/ /\ jobs' = [jobs EXCEPT ![t] = Rest(@)] /\ UNCHANGED clean
          /\ ard' = IF s.do = "copy" THEN [ard EXCEPT !.mux = Over(@, s.map)] ELSE ard
          /\ pins' = IF s.do = "mraa" THEN Over(pins, s.map) ELSE pins
          /\ file' = IF s.do = "save" THEN ard ELSE file
       \/ /\ s.do = "mraa" /\ Fault("mraa")
          /\ jobs' = [jobs EXCEPT ![t] = <<>>] /\ UNCHANGED <<file, ard, pins>>
  /\ UNCHANGED <<bootVars, ui, com, want, serial, ops, boots, excused, chosen>>

-----------------------------------------------------------------------------
Saving == ui = "times" \/ \E t \in Threads : jobs[t] # <<>> /\ Head(jobs[t]) = SaveConfig

(* Power off and on.  A file that is being written is lost; without it the *)
(* boot service ends before it has done anything.                          *)
PowerCycle ==
  /\ boots < MaxBoots /\ boots' = boots + 1
  /\ file' = file \/ ("power" \in Faults /\ Saving /\ file' = Broken)
  /\ boot' = IF file' = Broken THEN "died" ELSE "serial"
  /\ next' = 0 /\ bconf' = IF file' = Broken THEN bconf ELSE file'
  /\ ui' = "closed" /\ want' = NoWant /\ jobs' = [t \in Threads |-> <<>>]
  /\ pins' = AllInputs /\ serial' = NoWant /\ clean' = TRUE /\ excused' = {}
  /\ UNCHANGED <<com, ard, ops, chosen>>

Next ==
  \/ InitExternalSerialMode \/ InitArduinoPin \/ BootDone
  \/ Open \/ Close \/ SelectRs232 \/ CancelTimes \/ SaveMode \/ CallSwitch
  \/ (\E m \in Modes, t \in {"on", "off"} : SelectTerminate(m, t))
  \/ (\E t \in Threads : Step(t) \/ PinOperation(t))
  \/ PowerCycle

Spec == Init /\ [][Next]_vars
-----------------------------------------------------------------------------
Functions == Gpio \cup Fn
Contents == [init : Modes, current : Modes, term : {"on", "off"}, mux : [Pin -> Functions]]

(* The states of file, copies and pins.  A pin never has a function it     *)
(* cannot have, and the mode shown as current is the one for the next boot.*)
TypeOK ==
  /\ \A c \in {com, ard, bconf} \cup ({file} \ {Broken}) :
       /\ c \in Contents /\ c.init = c.current
       /\ \A p \in Pin : c.mux[p] \in Gpio \cup PinMap[p]
  /\ \A p \in Pin : pins[p] \in Gpio \cup PinMap[p]
  /\ boot \in {"serial", "pins", "done", "died"} /\ next \in 0..20
  /\ ui \in {"closed", "menu", "times", "call"}
  /\ {want.mode, serial.mode, chosen} \subseteq Modes \cup {"none"}
  /\ want.mode = "none" <=> ui \in {"closed", "menu"}
  /\ \A t \in Threads : \A i \in DOMAIN jobs[t] : \A k \in DOMAIN jobs[t][i] :
       /\ jobs[t][i][k].do \in {"copy", "mraa", "save"}
       /\ \A p \in DOMAIN jobs[t][i][k].map : jobs[t][i][k].map[p] \in Functions
  /\ ops \in 0..MaxOps /\ boots \in 1..MaxBoots /\ clean \in BOOLEAN
  /\ excused \subseteq {"boot", "stale"}

(* What the Arduino menu shows is what the pins are set to, after any      *)
(* sequence of operations on pins with several functions, enabled and      *)
(* disabled over each other, and any number of boots between them: as long *)
(* as no call of mraa failed and no operation overlapped another, the last *)
(* boot found a file it could restore, and the COM menu has not saved its  *)
(* old copy over a later pin operation.                                    *)
PinsAsShown == clean /\ excused = {} /\ ui # "closed" /\ Idle => ard.mux = pins

(* A boot without errors puts every pin and the serial port into the state *)
(* that the file describes, also pins taken out of a group that is still   *)
(* enabled; only groups without their first member stay out.               *)
BootRestores ==
  [][boot = "pins" /\ boot' = "done" /\ clean =>
       /\ Restorable(bconf.mux) => pins = bconf.mux
       /\ serial = [mode |-> bconf.init,
                    term |-> IF bconf.init = "RS232" THEN "off" ELSE bconf.term]]_vars

(* "You need to power cycle the device for the changes to take effect":    *)
(* after a power cycle the serial port is in the mode selected last.       *)
SelectedAfterPowerCycle ==
  [][boot = "pins" /\ boot' = "done" /\ clean => serial.mode = chosen]_vars
=============================================================================
