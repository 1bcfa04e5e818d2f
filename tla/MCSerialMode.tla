---------------------------- MODULE MCSerialMode ----------------------------
(* An instance of SerialMode.  From set-up 5, hold 48 and RS232, a call for*)
(* RS485 with set-up 31, hold 5 has the checksum of what is stored; 256    *)
(* is stored as 0.                                                         *)
EXTENDS SerialMode, TLC

CONSTANTS p1, p2

MCCall(m, s, h, t) == [mode |-> m, setup |-> s, hold |-> h, term |-> t]
MCStored == {<<5, 48>>}
MCColliding == MCCall("rs485", 31, 5, 1)
MCCalls == {MCCall(m, 0, 0, 0) : m \in {"rs232", "rs485", "unknown"}}
           \cup {MCColliding, MCCall("rs422", 0, 0, 1), MCCall(NoMode, 256, 9, 0)}

(* The processes are alike; no property names one.                         *)
MCSymmetry == Permutations(Callers)
=============================================================================
