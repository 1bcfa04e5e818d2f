------------------------------ MODULE EventLog ------------------------------
(***************************************************************************)
(* What recording events promises: an event that happened is copied to the *)
(* log at most as often as it happened, and the log never loses an entry.  *)
(***************************************************************************)
EXTENDS Naturals

CONSTANT Event

VARIABLES happened,  \* how often each event happened
          recorded   \* how often each event is in the log

Init == happened = [e \in Event |-> 0] /\ recorded = [e \in Event |-> 0]

Happen(e) == /\ happened' = [happened EXCEPT ![e] = @ + 1]
             /\ UNCHANGED recorded

Record(e) == /\ recorded[e] < happened[e]
             /\ recorded' = [recorded EXCEPT ![e] = @ + 1]
             /\ UNCHANGED happened

Next == \E e \in Event : Happen(e) \/ Record(e)

Spec == Init /\ [][Next]_<<happened, recorded>>
=============================================================================
