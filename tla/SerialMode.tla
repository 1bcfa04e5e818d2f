------------------------------ MODULE SerialMode ------------------------------
(***************************************************************************)
(* switchserialmode: one call reads the configuration of the UART bridge   *)
(* (CP2102N) or UART (OMAP), changes it in memory, switches the            *)
(* transceiver pin by pin and writes the configuration back at the end.    *)
(* Several calls may overlap: the boot service, the set-up tool, a shell.  *)
(***************************************************************************)
EXTENDS Integers, FiniteSets

CONSTANTS
  Callers,   \* processes that may run the program
  Boards,    \* of "basic", "advanced", "pg1"
  Calls,     \* command lines
  Stored,    \* <<set-up, hold>> times the controller may hold at first
  Faults,    \* what may go wrong
  MaxCalls   \* bound on the number of calls

NoMode == "none"
Modes == {"rs232", "rs422", "rs485"}
AllFaults == {"usb", "gpio", "kill", "power"}

(* -m (or a name the program does not know), -s, -o, -t.                   *)
Times == 0..65535
CommandLines == [mode : Modes \cup {NoMode, "unknown"}, setup : Times, hold : Times,
                 term : {0, 1}]
NoCall == [mode |-> NoMode, setup |-> 0, hold |-> 0, term |-> 0]

(* What there is to rely upon after calls: a mode and the termination.     *)
Promises == [mode : Modes \cup {NoMode}, term : {0, 1}]
Nothing == [mode |-> NoMode, term |-> 0]

ASSUME SerialAssumption ==
  /\ Boards \subseteq {"basic", "advanced", "pg1"}
  /\ Calls \subseteq CommandLines
  /\ Stored \subseteq (0..255) \X (0..255)
  /\ Faults \subseteq AllFaults /\ MaxCalls \in Nat

VARIABLES
  board,    \* get_board_type
  conf,     \* the configuration the controller keeps
  running,  \* the one it works with since its last reset
  pins,     \* the GPIO lines; -1: not driven since power-up
  pc,       \* per caller: where its process is
  call,     \* per caller: its command line
  image,    \* per caller: deviceConf / r485Conf in its memory
  sum,      \* per caller: confCheckSum
  calls,    \* calls so far
  clean,    \* auxiliary: this call met no error, and no other overlaps it
  asked,    \* auxiliary: what the clean calls since the last other one asked for
  left      \* auxiliary: the last of them that set a mode set a time too, and
            \* its write was left out

deviceVars  == <<conf, running, pins>>
processVars == <<pc, call, image, sum>>
auxVars     == <<clean, asked, left>>
vars == <<board, deviceVars, processVars, calls, auxVars>>

(* The transceiver's lines, and the reset line of the controller.          *)
PinNames == {"enable", "mode0", "mode1", "term", "reset"}

(* The bits and bytes the program changes.  CP2102N: pin in RS485 mode,    *)
(* logic, reset latch; OMAP: pin is SER_RS485_ENABLED, latch is            *)
(* SER_RS485_RX_DURING_TX.  All others stay as they are.                   *)
Conf == [pin : {0, 1}, logic : {0, 1}, latch : {0, 1}, setup : 0..255, hold : 0..255]

(* print_cfg, ttyuart_print_mode.                                          *)
ModeOf(c) ==
  IF board = "basic"
  THEN IF c.pin = 0 THEN "rs232" ELSE IF c.latch = 1 THEN "rs422" ELSE "rs485"
  ELSE IF c.pin = 1 THEN "rs485" ELSE IF c.latch = 1 THEN "rs422" ELSE "rs232"

(* fletcher16: both sums modulo 255, up to the part of the bytes that never*)
(* change; a byte's weight in the second is its distance from the end.     *)
Checksum(c) == <<(16 * c.pin + c.logic + 32 * c.latch + c.setup + c.hold) % 255,
                 (76 * 16 * c.pin + 75 * c.logic + 89 * 32 * c.latch
                    + 6 * c.setup + 4 * c.hold) % 255>>

(* cp2102n_pre_process: a time that is zero replaces both by the default.  *)
PreProcess(c) ==
  IF board # "basic" /\ 0 \in {c.setup, c.hold}
  THEN [c EXCEPT !.setup = 5, !.hold = 5] ELSE c

(* ttyuart_switch_mode: the flags are cleared for every name.              *)
SwitchUart(c, m) == [c EXCEPT !.pin = IF m \in {"rs485", "rs422"} THEN 1 ELSE 0,
                              !.latch = IF m = "rs422" THEN 1 ELSE 0]

(* Mutant: rs232 leaves the reset latch alone.                             *)
SwitchBridgeKeepsLatch(c, m) ==
  CASE m = "rs232" -> [c EXCEPT !.pin = 0]
    [] m = "rs422" -> [c EXCEPT !.pin = 0, !.latch = 1]
    [] m = "rs485" -> [c EXCEPT !.pin = 1, !.logic = 1]
    [] OTHER -> c

(* cp2102n_switch_mode: rs485 leaves the latch alone.                      *)
SwitchBridge(c, m) ==
  CASE m = "rs232" -> [c EXCEPT !.pin = 0, !.latch = 0]
    [] m = "rs422" -> [c EXCEPT !.pin = 0, !.latch = 1]
    [] m = "rs485" -> [c EXCEPT !.pin = 1, !.logic = 1]
    [] OTHER -> c

SwitchMode(c, m) == IF m = NoMode THEN c
                    ELSE IF board = "basic" THEN SwitchUart(c, m) ELSE SwitchBridge(c, m)

(* The times pass through a parameter of type uint8_t; zero means not set. *)
SetTimes(c, l) ==
  IF board = "basic" THEN c
  ELSE [c EXCEPT !.setup = IF l.setup = 0 THEN @ ELSE l.setup % 256,
                 !.hold  = IF l.hold = 0 THEN @ ELSE l.hold % 256]

(* Mutant: both times are replaced whenever a mode is set.                 *)
ConfiguredAfresh(c, l) ==
  SetTimes(SwitchMode(IF l.mode = NoMode THEN c ELSE [c EXCEPT !.setup = 5, !.hold = 5],
                      l.mode), l)

Configured(c, l) == SetTimes(SwitchMode(PreProcess(c), l.mode), l)

Init ==
  /\ board \in Boards
  /\ conf \in [pin : {0}, logic : {0}, latch : {0},
               setup : {t[1] : t \in Stored}, hold : {t[2] : t \in Stored}]
  /\ <<conf.setup, conf.hold>> \in Stored
  /\ running = conf /\ pins = [n \in PinNames |-> -1]
  /\ pc = [p \in Callers |-> "off"] /\ call = [p \in Callers |-> NoCall]
  /\ image = [p \in Callers |-> conf] /\ sum = [p \in Callers |-> <<0, 0>>]
  /\ calls = 0 /\ clean = TRUE /\ asked = Nothing /\ left = FALSE

-----------------------------------------------------------------------------
At(p, l) == pc[p] = l
Goto(p, l) == pc' = [pc EXCEPT ![p] = l]
AllOff == \A p \in Callers : pc[p] = "off"

(* The call is over.  After a clean one the mode it set is asked for; after*)
(* any other one, or one with an unknown mode name, nothing can be relied  *)
(* upon.                                                                   *)
End(p, ok) ==
  /\ Goto(p, "off")
  /\ call' = [call EXCEPT ![p] = NoCall]
  /\ image' = [image EXCEPT ![p] = conf'] /\ sum' = [sum EXCEPT ![p] = <<0, 0>>]
  /\ clean' = (clean /\ ok)
  /\ asked' = IF ~clean' \/ call[p].mode = "unknown" THEN Nothing
              ELSE [mode |-> IF call[p].mode = NoMode THEN asked.mode ELSE call[p].mode,
                    term |-> call[p].term]
  /\ left' = /\ clean' /\ call[p].mode # "unknown"
             /\ IF call[p].mode = NoMode THEN left
                ELSE image[p] # conf' /\ {call[p].setup, call[p].hold} # {0}

Start(p, l) ==
  /\ At(p, "off") /\ calls < MaxCalls /\ calls' = calls + 1
  /\ Goto(p, "init") /\ call' = [call EXCEPT ![p] = l] /\ clean' = AllOff
  /\ UNCHANGED <<board, deviceVars, image, sum, asked, left>>

(* A controller that is held in reset is not on the bus.                   *)
OnBus == pins.reset # 0

(* The device cannot be found, opened or read: exit code 1.                *)
InitFails(p) == ("usb" \in Faults \/ ~OnBus) /\ UNCHANGED deviceVars /\ End(p, FALSE)

(* Mutant: the transceiver is switched also without a mode.                *)
ReadConfigSwitches(p) ==
  /\ At(p, "init")
  /\ \/ /\ OnBus
        /\ image' = [image EXCEPT ![p] = Configured(conf, call[p])]
        /\ sum' = [sum EXCEPT ![p] = Checksum(conf)]
        /\ Goto(p, "enable")
        /\ UNCHANGED <<deviceVars, call, auxVars>>
     \/ InitFails(p)
  /\ UNCHANGED <<board, calls>>

(* init_ops reads the configuration, main() changes it in memory.          *)
ReadConfig(p) ==
  /\ At(p, "init")
  /\ \/ /\ OnBus
        /\ image' = [image EXCEPT ![p] = Configured(conf, call[p])]
        /\ sum' = [sum EXCEPT ![p] = Checksum(conf)]
        /\ Goto(p, IF call[p].mode \in Modes THEN "enable" ELSE "term")
        /\ UNCHANGED <<deviceVars, call, auxVars>>
     \/ InitFails(p)
  /\ UNCHANGED <<board, calls>>

(* gpio_set: an error is printed and forgotten.                            *)
SetPin(pin, value) ==
  \/ pins' = [pins EXCEPT ![pin] = value] /\ UNCHANGED clean
  \/ "gpio" \in Faults /\ clean' = FALSE /\ UNCHANGED pins

(* sp339e_switch_mode: three lines one after the other.                    *)
EnableTransceiver(p) ==
  /\ At(p, "enable") /\ Goto(p, "mode0")
  /\ SetPin("enable", 1)
  /\ UNCHANGED <<board, conf, running, call, image, sum, calls, asked, left>>

SetMode0(p) ==
  /\ At(p, "mode0") /\ Goto(p, "mode1")
  /\ SetPin("mode0", IF call[p].mode = "rs485" THEN 0 ELSE 1)
  /\ UNCHANGED <<board, conf, running, call, image, sum, calls, asked, left>>

SetMode1(p) ==
  /\ At(p, "mode1") /\ Goto(p, "term")
  /\ SetPin("mode1", IF call[p].mode = "rs232" THEN 0 ELSE 1)
  /\ UNCHANGED <<board, conf, running, call, image, sum, calls, asked, left>>

(* Without -t every call switches the termination off.                     *)
SetTermination(p) ==
  /\ At(p, "term") /\ Goto(p, "release")
  /\ SetPin("term", call[p].term)
  /\ UNCHANGED <<board, conf, running, call, image, sum, calls, asked, left>>

(* Nothing is written when the checksum is the old one, and that is no     *)
(* error; a failed write is one, and the controller is not reset then.     *)
Release(p) ==
  /\ At(p, "release") /\ board # "basic"
  /\ \/ /\ IF Checksum(image[p]) = sum[p] THEN conf' = conf
           ELSE OnBus /\ conf' = image[p]
        /\ Goto(p, "reset")
        /\ UNCHANGED <<running, pins, call, image, sum, auxVars>>
     \/ /\ Checksum(image[p]) # sum[p] /\ UNCHANGED <<running, pins>>
        /\ \/ "usb" \in Faults /\ OnBus /\ conf' \in {conf, image[p]}
           \/ ~OnBus /\ conf' = conf
        /\ End(p, FALSE)
  /\ UNCHANGED <<board, calls>>

(* cp2102n_hardware_reset: not on a PG1 board, whose pin is not connected. *)
Reset(p) ==
  /\ At(p, "reset")
  /\ \/ board = "pg1" /\ UNCHANGED deviceVars /\ End(p, TRUE)
     \/ /\ board # "pg1" /\ Goto(p, "letgo") /\ SetPin("reset", 0)
        /\ UNCHANGED <<conf, running, call, image, sum, asked, left>>
  /\ UNCHANGED <<board, calls>>

(* The controller starts with what it has stored.                          *)
LetGo(p) ==
  /\ At(p, "letgo") /\ UNCHANGED conf
  /\ \/ /\ pins' = [pins EXCEPT !.reset = 1]
        /\ running' = IF OnBus THEN running ELSE conf
        /\ End(p, TRUE)
     \/ "gpio" \in Faults /\ UNCHANGED <<pins, running>> /\ End(p, FALSE)
  /\ UNCHANGED <<board, calls>>

ReleaseUart(p) ==
  /\ At(p, "release") /\ board = "basic" /\ UNCHANGED pins
  /\ \/ conf' = image[p] /\ running' = image[p] /\ End(p, TRUE)
     \/ "usb" \in Faults /\ UNCHANGED <<conf, running>> /\ End(p, FALSE)
  /\ UNCHANGED <<board, calls>>

-----------------------------------------------------------------------------
Kill(p) ==
  /\ "kill" \in Faults /\ ~At(p, "off")
  /\ UNCHANGED deviceVars /\ End(p, FALSE)
  /\ UNCHANGED <<board, calls>>

(* The bridge keeps its configuration, the UART and the pins do not.       *)
PowerCycle ==
  /\ "power" \in Faults
  /\ conf' = IF board = "basic" THEN [conf EXCEPT !.pin = 0, !.latch = 0] ELSE conf
  /\ running' = conf' /\ pins' = [n \in PinNames |-> -1]
  /\ pc' = [p \in Callers |-> "off"] /\ call' = [p \in Callers |-> NoCall]
  /\ image' = [p \in Callers |-> conf'] /\ sum' = [p \in Callers |-> <<0, 0>>]
  /\ clean' = FALSE /\ asked' = Nothing /\ left' = FALSE
  /\ UNCHANGED <<board, calls>>

Process(p) == \/ ReadConfig(p) \/ EnableTransceiver(p) \/ SetMode0(p) \/ SetMode1(p)
              \/ SetTermination(p) \/ Release(p) \/ Reset(p) \/ LetGo(p) \/ ReleaseUart(p)

Next == \/ \E p \in Callers : (\E l \in Calls : Start(p, l)) \/ Process(p) \/ Kill(p)
        \/ PowerCycle

Spec == Init /\ [][Next]_vars

-----------------------------------------------------------------------------
Places == {"off", "init", "enable", "mode0", "mode1", "term", "release", "reset", "letgo"}

(* Controller, transceiver and processes; a process that does not run holds*)
(* no command line.                                                        *)
TypeOK ==
  /\ board \in Boards /\ conf \in Conf /\ running \in Conf
  /\ pins \in [PinNames -> {-1, 0, 1}] /\ pc \in [Callers -> Places]
  /\ call \in [Callers -> CommandLines] /\ image \in [Callers -> Conf]
  /\ sum \in [Callers -> (0..254) \X (0..254)]
  /\ calls \in 0..MaxCalls /\ clean \in BOOLEAN /\ asked \in Promises /\ left \in BOOLEAN
  /\ \A p \in Callers : At(p, "off") => call[p] = NoCall
  /\ \A p \in Callers : pc[p] \in {"enable", "mode0", "mode1"} => call[p].mode \in Modes

(* The mode the transceiver is in.                                         *)
Switched(m) ==
  /\ pins.enable = 1
  /\ pins.mode0 = IF m = "rs485" THEN 0 ELSE 1
  /\ pins.mode1 = IF m = "rs232" THEN 0 ELSE 1

(* After a call that met no error and was alone, the transceiver is in the *)
(* mode that was asked for last, the termination is as in the last call,   *)
(* the controller works with what it has stored (on PG1 boards after the   *)
(* next power cycle), and that is the mode asked for, whatever earlier     *)
(* calls, failed or overlapping, left behind.  One call is excepted from   *)
(* the last point: the one that sets a time along with the mode and whose  *)
(* write was left out because the two checksums agree.                     *)
ModeInForce ==
  AllOff /\ asked.mode # NoMode =>
    /\ Switched(asked.mode) /\ pins.term = asked.term
    /\ board # "pg1" => running = conf
    /\ ModeOf(conf) = asked.mode \/ left

(* A call that sets no time changes none, unless one of them was zero; only*)
(* a call that overlaps another one may write back times it read before.   *)
TimesKept ==
  [][\/ <<conf'.setup, conf'.hold>> = <<conf.setup, conf.hold>>
     \/ 0 \in {conf.setup, conf.hold} \/ ~clean
     \/ \E p \in Callers : At(p, "release") /\ {call[p].setup, call[p].hold} # {0}]_vars
=============================================================================
