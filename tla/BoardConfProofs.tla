---------------------------- MODULE BoardConfProofs ----------------------------
(***************************************************************************)
(* Proofs about BoardConf, for every pinmux map in which each function     *)
(* belongs to one pin, any number of threads, operations and boots, and any*)
(* faults.                                                                 *)
(***************************************************************************)
EXTENDS BoardConf, SequenceTheorems, FiniteSetTheorems, WellFoundedInduction, TLAPS

-----------------------------------------------------------------------------
(* A finite set of numbers can be listed in ascending order, so Ascending  *)
(* is a list of its elements.                                              *)
LEMMA LeastIn ==
  ASSUME NEW S \in SUBSET Nat, S # {}
  PROVE  \E x \in S : \A y \in S : x <= y
<1> DEFINE R == OpToRel(<, Nat)
<1>1. PICK x \in S : \A y \in S : ~(<<y, x>> \in R)
  <2>1. IsWellFoundedOn(R, Nat)
    BY NatLessThanWellFounded
  <2> HIDE DEF R
  <2> QED
    BY <2>1, WFMin
<1>2. \A y \in S : x <= y
  <2> SUFFICES ASSUME NEW y \in S PROVE x <= y
    OBVIOUS
  <2>1. ~(y < x)
    BY <1>1 DEF OpToRel
  <2> QED
    BY <2>1
<1> QED
  BY <1>2

Lists(S, n) == {s \in [1..n -> S] : \A i, j \in DOMAIN s : i < j => s[i] < s[j]}

(* The least element, then the list of the others.                         *)
LEMMA ListedFromLeast ==
  ASSUME NEW S \in SUBSET Nat, NEW n \in Nat, NEW x \in S, \A y \in S : x <= y,
         NEW s \in Lists(S \ {x}, n)
  PROVE  Lists(S, n + 1) # {}
<1> DEFINE l == [i \in 1..(n + 1) |-> IF i = 1 THEN x ELSE s[i - 1]]
<1>1. s \in [1..n -> S \ {x}] /\ \A i, j \in 1..n : i < j => s[i] < s[j]
  BY DEF Lists
<1>2. \A i \in 1..(n + 1) : i # 1 => i - 1 \in 1..n
  OBVIOUS
<1>3. l \in [1..(n + 1) -> S]
  BY <1>1, <1>2
<1>4. ASSUME NEW i \in 1..(n + 1), NEW j \in 1..(n + 1), i < j
      PROVE  l[i] < l[j]
  <2>1. j # 1 /\ j - 1 \in 1..n /\ l[j] = s[j - 1] /\ s[j - 1] \in S \ {x}
    BY <1>1, <1>2, <1>4
  <2>2. CASE i = 1
    <3>1. x <= s[j - 1] /\ x # s[j - 1] /\ x \in Nat /\ s[j - 1] \in Nat
      BY <2>1
    <3> QED
      BY <2>1, <2>2, <3>1
  <2>3. CASE i # 1
    <3>1. i - 1 \in 1..n /\ i - 1 < j - 1 /\ l[i] = s[i - 1]
      BY <1>2, <1>4, <2>3
    <3> QED
      BY <1>1, <2>1, <3>1
  <2> QED
    BY <2>2, <2>3
<1> QED
  BY <1>3, <1>4 DEF Lists

LEMMA Listed ==
  ASSUME NEW S \in SUBSET (0..19)
  PROVE  Cardinality(S) \in Nat /\ Lists(S, Cardinality(S)) # {}
<1> DEFINE bad == {n \in Nat : \E T \in SUBSET (0..19) : Cardinality(T) = n /\ Lists(T, n) = {}}
<1>1. \A T \in SUBSET (0..19) : IsFiniteSet(T) /\ Cardinality(T) \in Nat
  <2>1. IsFiniteSet(0..19)
    BY FS_Interval, 0 \in Int, 19 \in Int
  <2>2. \A T \in SUBSET (0..19) : IsFiniteSet(T)
    BY <2>1, FS_Subset
  <2> QED
    BY <2>2, FS_CardinalityType
<1>2. bad = {}
  <2> SUFFICES ASSUME bad # {} PROVE FALSE
    OBVIOUS
  <2>1. PICK n \in bad : \A m \in bad : n <= m
    <3> HIDE DEF bad
    <3>1. bad \in SUBSET Nat
      BY DEF bad
    <3> QED
      BY <3>1, LeastIn
  <2>2. PICK T \in SUBSET (0..19) : Cardinality(T) = n /\ Lists(T, n) = {}
    OBVIOUS
  <2>3. CASE T = {}
    <3>1. n = 0
      BY <2>2, <2>3, FS_EmptySet
    <3>2. <<>> \in Lists(T, 0)
      BY DEF Lists
    <3> QED
      BY <2>2, <3>1, <3>2
  <2>4. CASE T # {}
    <3>1. PICK x \in T : \A y \in T : x <= y
      BY <2>4, LeastIn, 0..19 \subseteq Nat
    <3>2. T \ {x} \in SUBSET (0..19) /\ Cardinality(T \ {x}) = n - 1
      BY <1>1, <2>2, FS_RemoveElement
    <3>3. n - 1 \in Nat /\ n - 1 \notin bad
      BY <1>1, <2>1, <3>2
    <3>4. Lists(T \ {x}, n - 1) # {}
      BY <3>2, <3>3
    <3>5. PICK s : s \in Lists(T \ {x}, n - 1)
      BY <3>4
    <3>6. Lists(T, (n - 1) + 1) # {}
      <4>1. T \in SUBSET Nat
        OBVIOUS
      <4> QED
        BY <3>1, <3>3, <3>5, <4>1, ListedFromLeast
    <3> QED
      BY <2>2, <3>3, <3>6
  <2> QED
    BY <2>3, <2>4
<1> QED
  BY <1>1, <1>2

LEMMA AscendingList ==
  ASSUME NEW S \in SUBSET (0..19)
  PROVE  /\ Ascending(S) \in Seq(S) /\ DOMAIN Ascending(S) = 1..Len(Ascending(S))
         /\ \A i \in DOMAIN Ascending(S) : Ascending(S)[i] \in S
<1>1. Cardinality(S) \in Nat /\ Lists(S, Cardinality(S)) # {}
  BY Listed
<1>2. Ascending(S) \in Lists(S, Cardinality(S))
  BY <1>1 DEF Ascending, Lists
<1>3. Ascending(S) \in [1..Cardinality(S) -> S]
  BY <1>2 DEF Lists
<1> QED
  BY <1>1, <1>3

-----------------------------------------------------------------------------
(* What is put on the pins: functions they can have.                       *)
Can(p) == Gpio \cup PinMap[p]
Settings == {m \in [Pin -> Functions] : \A p \in Pin : m[p] \in Can(p)}
Maps == {w \in UNION {[D -> Functions] : D \in SUBSET Pin} : \A p \in DOMAIN w : w[p] \in Can(p)}

LEMMA FunctionsOfPin ==
  ASSUME NEW p \in Pin
  PROVE  /\ PinMap[p] \subseteq Fn /\ Can(p) \subseteq Functions /\ p \in 0..19
         /\ Input \in Can(p)
BY BoardAssumption DEF Fn, Can, Functions

LEMMA MapDomain ==
  ASSUME NEW w \in Maps
  PROVE  DOMAIN w \subseteq Pin /\ \A p \in DOMAIN w : w[p] \in Can(p)
BY DEF Maps

LEMMA MapOf ==
  ASSUME NEW D \in SUBSET Pin, NEW w, w = [p \in D |-> w[p]], \A p \in D : w[p] \in Can(p)
  PROVE  w \in Maps
<1>1. w \in [D -> Functions]
  BY FunctionsOfPin
<1> QED
  BY <1>1 DEF Maps

LEMMA EmptyMap == <<>> \in Maps
BY DEF Maps

LEMMA OverType ==
  ASSUME NEW f \in Settings, NEW w \in Maps
  PROVE  Over(f, w) \in Settings
<1>1. \A p \in Pin : Over(f, w)[p] \in Can(p) /\ Over(f, w)[p] \in Functions
  BY MapDomain, FunctionsOfPin DEF Settings, Over
<1> QED
  BY <1>1 DEF Settings, Over

LEMMA ToMap ==
  ASSUME NEW F
  PROVE  /\ To(F) \in Maps /\ DOMAIN To(F) = {p \in Pin : PinMap[p] \cap F # {}}
         /\ \A p \in DOMAIN To(F) : To(F)[p] \in PinMap[p] \cap F
<1> DEFINE D == {p \in Pin : PinMap[p] \cap F # {}}
<1>1. DOMAIN To(F) = D /\ To(F) = [p \in D |-> To(F)[p]]
  BY DEF To
<1>2. ASSUME NEW p \in D PROVE To(F)[p] \in PinMap[p] \cap F
  <2>1. To(F)[p] = CHOOSE f \in F : f \in PinMap[p]
    BY DEF To
  <2>2. \E f \in F : f \in PinMap[p]
    OBVIOUS
  <2> QED
    BY <2>1, <2>2
<1>3. To(F) \in Maps
  BY <1>1, <1>2, MapOf DEF Can
<1> QED
  BY <1>1, <1>2, <1>3

LEMMA OnPin ==
  ASSUME NEW p \in Pin, NEW f \in Can(p)
  PROVE  [q \in {p} |-> f] \in Maps
BY MapOf

-----------------------------------------------------------------------------
(* Calls set what the menu shows and what the pins do to the same, in one  *)
(* order or the other; between their two steps half of that is done.       *)
Copying == {<<Copy(w), Mraa(w)>> : w \in Maps}
Enabling == {<<Mraa(w), Copy(w)>> : w \in Maps}
Whole == Copying \cup Enabling \cup {SaveConfig}
Half == {<<Mraa(w)>> : w \in Maps} \cup {<<Copy(w)>> : w \in Maps}

LEMMA CallTypes ==
  /\ \A F : Enable(F) \in Whole
  /\ \A p \in Pin : \A g \in Gpio : SetGpio(p, g) \in Whole
  /\ SaveConfig \in Whole
BY ToMap, OnPin DEF Enable, SetGpio, Whole, Copying, Enabling, Can

LEMMA PinsOfType ==
  ASSUME NEW F
  PROVE  /\ PinsOf(F) \in Seq(Pin) /\ DOMAIN PinsOf(F) = 1..Len(PinsOf(F))
         /\ Len(PinsOf(F)) \in Nat
         /\ \A i \in DOMAIN PinsOf(F) : PinsOf(F)[i] \in Pin
<1> DEFINE S == {p \in Pin : PinMap[p] \cap F # {}}
<1>1. S \in SUBSET (0..19) /\ S \subseteq Pin
  BY BoardAssumption
<1>2. PinsOf(F) = Ascending(S)
  BY DEF PinsOf
<1> HIDE DEF S
<1>3. PinsOf(F) \in Seq(S) /\ DOMAIN PinsOf(F) = 1..Len(PinsOf(F))
  BY <1>1, <1>2, AscendingList
<1>4. PinsOf(F) \in Seq(Pin)
  BY <1>1, <1>3, SeqMonotonic
<1> QED
  BY <1>3, <1>4

LEMMA ResetType ==
  ASSUME NEW F
  PROVE  ResetPinDefault(F) \in Seq(Whole)
<1>1. ResetPinDefault(F) = [i \in 1..Len(PinsOf(F)) |-> SetGpio(PinsOf(F)[i], Input)]
  BY PinsOfType DEF ResetPinDefault
<1>2. \A i \in 1..Len(PinsOf(F)) : SetGpio(PinsOf(F)[i], Input) \in Whole
  BY PinsOfType, CallTypes, BoardAssumption
<1>3. ResetPinDefault(F) \in [1..Len(PinsOf(F)) -> Whole]
  BY <1>1, <1>2
<1> QED
  BY <1>3, PinsOfType

(* Every operation saves last.                                             *)
Complete(s) == s \in Seq(Whole) /\ s # <<>> /\ s[Len(s)] = SaveConfig

LEMMA SavedLast ==
  ASSUME NEW s \in Seq(Whole)
  PROVE  Complete(s \o <<SaveConfig>>)
<1> DEFINE l == s \o <<SaveConfig>>
<1>1. <<SaveConfig>> \in Seq(Whole) /\ Len(<<SaveConfig>>) = 1 /\ <<SaveConfig>>[1] = SaveConfig
  BY CallTypes
<1>2. /\ l \in Seq(Whole) /\ Len(l) = Len(s) + 1
      /\ \A i \in 1..(Len(s) + 1) : l[i] = IF i <= Len(s) THEN s[i] ELSE <<SaveConfig>>[i - Len(s)]
  BY <1>1, ConcatProperties
<1> HIDE DEF l
<1>3. Len(s) \in Nat
  OBVIOUS
<1>4. l # <<>> /\ l[Len(l)] = SaveConfig
  BY <1>1, <1>2, <1>3
<1> QED
  BY <1>2, <1>4 DEF Complete, l

LEMMA BoxesType ==
  ASSUME NEW name, NEW sel
  PROVE  Complete(ButtonOk(name, sel))
<1> DEFINE ps == PinsOf(Group(name))
           boxes == [i \in DOMAIN ps |->
                       IF PinMap[ps[i]] \cap sel # {} THEN Enable(PinMap[ps[i]] \cap sel)
                       ELSE SetGpio(ps[i], Input)]
<1>1. \A i \in DOMAIN ps : boxes[i] \in Whole
  BY PinsOfType, CallTypes, BoardAssumption
<1>2. boxes \in [1..Len(ps) -> Whole] /\ Len(ps) \in Nat
  BY <1>1, PinsOfType
<1>3. boxes \in Seq(Whole)
  BY <1>2
<1>4. ButtonOk(name, sel) = boxes \o <<SaveConfig>>
  BY DEF ButtonOk
<1> HIDE DEF boxes
<1> QED
  BY <1>3, <1>4, SavedLast

LEMMA ProgramTypes ==
  ASSUME NEW prog \in Operations
  PROVE  Complete(prog)
<1>2. \A F : <<Enable(F)>> \in Seq(Whole)
  BY CallTypes
<1>3. \A p \in Pin, g \in Gpio : Complete(GpioButtonOk(p, g))
  BY CallTypes DEF GpioButtonOk, Complete
<1>4. \A n, c : Complete(BusChoice(n, c))
  <2>1. <<>> \in Seq(Whole)
    OBVIOUS
  <2> QED
    BY <1>2, <2>1, ResetType, SavedLast DEF BusChoice
<1>5. \A sel : Complete(UartButtonOk(sel))
  <2>1. <<Enable(Group("data"))>> \o ResetPinDefault(Group("flow")) \in Seq(Whole)
    BY <1>2, ResetType
  <2> QED
    BY <1>2, <2>1, ResetType, SavedLast DEF UartButtonOk
<1>6. \A n, sel : Complete(ButtonOk(n, sel))
  BY BoxesType
<1> QED
  BY <1>3, <1>4, <1>5, <1>6 DEF Operations

(* What a step leaves of a list of calls of which the first may be half    *)
(* done.                                                                   *)
Started ==
  {s \in Seq(Whole \cup Half) :
     /\ \A i \in 2..Len(s) : s[i] \in Whole
     /\ s # <<>> => s[Len(s)] = SaveConfig}

LEMMA CallLengths ==
  /\ \A w \in Maps : /\ Len(<<Copy(w), Mraa(w)>>) = 2 /\ Len(<<Mraa(w), Copy(w)>>) = 2
                      /\ Tail(<<Copy(w), Mraa(w)>>) = <<Mraa(w)>>
                      /\ Tail(<<Mraa(w), Copy(w)>>) = <<Copy(w)>>
                      /\ Len(<<Copy(w)>>) = 1 /\ Len(<<Mraa(w)>>) = 1
  /\ Len(SaveConfig) = 1
BY DEF SaveConfig

LEMMA TailOfCalls ==
  ASSUME NEW s \in Started, s # <<>>
  PROVE  /\ Head(s) \in Whole \cup Half
         /\ Tail(s) \in Started
         /\ Tail(s) # <<>> => Head(Tail(s)) \in Whole
         /\ Tail(s) = <<>> => Head(s) = SaveConfig
         /\ Tail(s) # <<>> =>
              \A c \in Half : /\ <<c>> \o Tail(s) \in Started
                             /\ <<c>> \o Tail(s) # <<>> /\ Head(<<c>> \o Tail(s)) = c
<1>1. s \in Seq(Whole \cup Half) /\ \A i \in 2..Len(s) : s[i] \in Whole
  BY DEF Started
<1>2. /\ Head(s) \in Whole \cup Half /\ Tail(s) \in Seq(Whole \cup Half)
      /\ Len(Tail(s)) = Len(s) - 1 /\ \A i \in 1..Len(Tail(s)) : Tail(s)[i] = s[i + 1]
      /\ Head(s) = s[1]
  BY <1>1, HeadTailProperties
<1>3. Len(s) \in Nat
  BY <1>1
<1>4. \A i \in 1..Len(Tail(s)) : Tail(s)[i] \in Whole
  BY <1>1, <1>2, <1>3
<1>8. s[Len(s)] = SaveConfig
  BY DEF Started
<1>9. Tail(s) # <<>> => Tail(s)[Len(Tail(s))] = SaveConfig
  <2>1. Tail(s) # <<>> => Len(Tail(s)) \in 1..Len(Tail(s))
    BY <1>2
  <2> QED
    BY <1>2, <1>3, <1>8, <2>1
<1>10. Tail(s) = <<>> => Head(s) = SaveConfig
  <2>0. Len(<<>>) = 0
    OBVIOUS
  <2>1. Tail(s) = <<>> => Len(s) = 1
    <3> SUFFICES ASSUME Tail(s) = <<>> PROVE Len(s) = 1
      OBVIOUS
    <3>1. Len(Tail(s)) = 0
      BY <2>0
    <3>2. Len(Tail(s)) = Len(s) - 1
      BY <1>2
    <3>3. \A n \in Nat : n - 1 = 0 => n = 1
      OBVIOUS
    <3>4. Len(s) - 1 = 0
      BY <3>1, <3>2, Zenon
    <3> QED
      BY <1>3, <3>3, <3>4
  <2> QED
    BY <1>2, <1>8, <2>1
<1>5. Tail(s) \in Started
  <2>1. \A i \in 2..Len(Tail(s)) : Tail(s)[i] \in Whole
    BY <1>2, <1>4
  <2> QED
    BY <1>2, <1>9, <2>1 DEF Started
<1>6. Tail(s) # <<>> => Head(Tail(s)) \in Whole
  BY <1>2, <1>3, <1>4
<1>7. ASSUME NEW c \in Half, Tail(s) # <<>>
      PROVE  /\ <<c>> \o Tail(s) \in Started
             /\ <<c>> \o Tail(s) # <<>> /\ Head(<<c>> \o Tail(s)) = c
  <2> DEFINE l == <<c>> \o Tail(s)
  <2>1. <<c>> \in Seq(Whole \cup Half) /\ Len(<<c>>) = 1 /\ <<c>>[1] = c
    OBVIOUS
  <2>2. /\ l \in Seq(Whole \cup Half) /\ Len(l) = 1 + Len(Tail(s))
        /\ \A i \in 1..(1 + Len(Tail(s))) : l[i] = IF i <= 1 THEN <<c>>[i] ELSE Tail(s)[i - 1]
    BY <1>2, <2>1, ConcatProperties
  <2> HIDE DEF l
  <2>3. Len(Tail(s)) \in Nat /\ Len(Tail(s)) # 0
    BY <1>2, <1>7
  <2>4. \A i \in 2..Len(l) : l[i] \in Whole
    BY <1>4, <2>2, <2>3
  <2>5. l # <<>> /\ Head(l) = c
    BY <2>1, <2>2, <2>3
  <2>6. l[Len(l)] = SaveConfig
    BY <1>7, <1>9, <2>2, <2>3
  <2> QED
    BY <2>2, <2>4, <2>5, <2>6 DEF Started, l
<1> QED
  BY <1>2, <1>5, <1>6, <1>7, <1>10

LEMMA RestOfCalls ==
  ASSUME NEW s \in Started, s # <<>>
  PROVE  /\ Rest(s) \in Started
         /\ \A w \in Maps : Head(s) = <<Copy(w), Mraa(w)>> =>
              Rest(s) # <<>> /\ Head(Rest(s)) = <<Mraa(w)>>
         /\ \A w \in Maps : Head(s) = <<Mraa(w), Copy(w)>> =>
              Rest(s) # <<>> /\ Head(Rest(s)) = <<Copy(w)>>
         /\ Head(s) \in Half \cup {SaveConfig} /\ Rest(s) # <<>> =>
              Head(Rest(s)) \in Whole
         /\ Rest(s) = <<>> => Head(s) = SaveConfig
<1>1. ASSUME NEW w \in Maps, Head(s) = <<Copy(w), Mraa(w)>>
      PROVE  Rest(s) \in Started /\ Rest(s) # <<>> /\ Head(Rest(s)) = <<Mraa(w)>>
  <2>1. <<Mraa(w)>> \in Half
    BY DEF Half
  <2>2. Len(Head(s)) = 2 /\ Tail(Head(s)) = <<Mraa(w)>>
    BY <1>1, CallLengths, Zenon
  <2>3. Rest(s) = <<<<Mraa(w)>>>> \o Tail(s)
    <3>1. ~(Len(Head(s)) = 1)
      BY <2>2
    <3> QED
      BY <2>2, <3>1, Zenon DEF Rest
  <2>4. Tail(s) # <<>>
    BY <2>2, CallLengths, TailOfCalls
  <2> QED
    BY <2>1, <2>3, <2>4, TailOfCalls
<1>2. ASSUME NEW w \in Maps, Head(s) = <<Mraa(w), Copy(w)>>
      PROVE  Rest(s) \in Started /\ Rest(s) # <<>> /\ Head(Rest(s)) = <<Copy(w)>>
  <2>1. <<Copy(w)>> \in Half
    BY DEF Half
  <2>2. Len(Head(s)) = 2 /\ Tail(Head(s)) = <<Copy(w)>>
    BY <1>2, CallLengths, Zenon
  <2>3. Rest(s) = <<<<Copy(w)>>>> \o Tail(s)
    <3>1. ~(Len(Head(s)) = 1)
      BY <2>2
    <3> QED
      BY <2>2, <3>1, Zenon DEF Rest
  <2>4. Tail(s) # <<>>
    BY <2>2, CallLengths, TailOfCalls
  <2> QED
    BY <2>1, <2>3, <2>4, TailOfCalls
<1>3. ASSUME Head(s) \in Half \cup {SaveConfig}
      PROVE  /\ Rest(s) \in Started /\ (Rest(s) # <<>> => Head(Rest(s)) \in Whole)
             /\ (Rest(s) = <<>> => Head(s) = SaveConfig)
  <2>1. Len(Head(s)) = 1
    BY <1>3, CallLengths DEF Half
  <2> QED
    BY <2>1, TailOfCalls DEF Rest
<1>4. Head(s) \in Copying \cup Enabling \cup Half \cup {SaveConfig}
  BY TailOfCalls DEF Whole
<1> QED
  BY <1>1, <1>2, <1>3, <1>4 DEF Copying, Enabling

-----------------------------------------------------------------------------
(* The inductive invariant behind TypeOK: what is in the file, in a copy or*)
(* on the pins, and what the threads still have to do.                     *)
Confs == {c \in Contents : c.init = c.current /\ c.mux \in Settings}
Ports == [mode : Modes \cup {"none"}, term : {"on", "off"}]

StoreInv ==
  /\ com \in Confs /\ ard \in Confs /\ bconf \in Confs /\ file \in Confs \cup {Broken}
  /\ pins \in Settings /\ serial \in Ports /\ chosen \in Modes

ToolInv ==
  /\ ui \in {"closed", "menu", "times", "call"} /\ want \in Ports
  /\ want.mode = "none" <=> ui \in {"closed", "menu"}

BootInv == boot \in {"serial", "pins", "done", "died"} /\ next \in 0..20

JobsInv == jobs \in [Threads -> Started]

BoundInv == ops \in 0..MaxOps /\ boots \in 1..MaxBoots /\ clean \in BOOLEAN
            /\ excused \subseteq {"boot", "stale"}

TInv == StoreInv /\ ToolInv /\ BootInv /\ JobsInv /\ BoundInv

LEMMA ConfFields ==
  ASSUME NEW c \in Confs
  PROVE  /\ c.init \in Modes /\ c.current = c.init /\ c.term \in {"on", "off"}
         /\ c.mux \in Settings
         /\ c # Broken
         /\ \A m \in Modes : [c EXCEPT !.init = m, !.current = m] \in Confs
         /\ \A t \in {"on", "off"} : [c EXCEPT !.term = t] \in Confs
         /\ \A x \in Settings : [c EXCEPT !.mux = x] \in Confs
         /\ [c EXCEPT !.current = c.init] = c
<1>1. c \in Contents /\ c.init = c.current /\ c.mux \in Settings
  BY DEF Confs
<1>2. Settings \subseteq [Pin -> Functions]
  BY DEF Settings
<1>3. c # Broken
  <2>1. c.init \in {"RS232", "RS485", "RS422"}
    BY <1>1 DEF Contents, Modes
  <2> QED
    BY <2>1 DEF Broken
<1>4. \A m \in Modes : [c EXCEPT !.init = m, !.current = m] \in Confs
  BY <1>1 DEF Confs, Contents
<1>5. \A t \in {"on", "off"} : [c EXCEPT !.term = t] \in Confs
  BY <1>1 DEF Confs, Contents
<1>6. \A x \in Settings : [c EXCEPT !.mux = x] \in Confs
  BY <1>1, <1>2 DEF Confs, Contents
<1>7. [c EXCEPT !.current = c.init] = c
  BY <1>1 DEF Contents
<1> QED
  BY <1>1, <1>3, <1>4, <1>5, <1>6, <1>7 DEF Contents

LEMMA NoCalls == <<>> \in Started
BY DEF Started

LEMMA AllInputsType == AllInputs \in Settings
BY FunctionsOfPin DEF AllInputs, Settings

LEMMA ShippedType == Shipped \in Confs
BY AllInputsType DEF Shipped, Confs, Contents, Modes, Settings

LEMMA NoWantType == NoWant \in Ports /\ NoWant.mode = "none"
BY DEF NoWant, Ports

LEMMA TInit == Init => TInv
<1> SUFFICES ASSUME Init PROVE TInv
  OBVIOUS
<1>1. StoreInv
  BY AllInputsType, ShippedType, NoWantType DEF Init, StoreInv, Modes
<1>2. ToolInv /\ BootInv /\ JobsInv
  BY NoWantType, NoCalls DEF Init, ToolInv, BootInv, JobsInv
<1>3. BoundInv
  BY BoardAssumption DEF Init, BoundInv
<1> QED
  BY <1>1, <1>2, <1>3 DEF TInv

(* Restored names functions that the pins can have.                        *)
LEMMA RestoredMap ==
  ASSUME NEW p \in Pin, NEW f \in Can(p)
  PROVE  Restored(p, f) \in Maps
<1> QED
  BY EmptyMap, OnPin, ToMap DEF Restored

LEMMA TSerial ==
  ASSUME TInv, InitExternalSerialMode
  PROVE  TInv'
<1>1. bconf' \in Confs /\ file' \in Confs \cup {Broken}
  BY ConfFields DEF TInv, StoreInv, InitExternalSerialMode
<1>2. serial' \in Ports
  <2>1. bconf.init \in Modes /\ bconf.term \in {"on", "off"} /\ serial \in Ports
    BY ConfFields DEF TInv, StoreInv
  <2>2. CASE serial' = [mode |-> bconf.init,
                        term |-> IF bconf.init = "RS232" THEN "off" ELSE bconf.term]
    BY <2>1, <2>2 DEF Ports
  <2>3. CASE UNCHANGED serial
    BY <2>1, <2>3
  <2> QED
    BY <2>2, <2>3 DEF InitExternalSerialMode
<1>3. StoreInv'
  BY <1>1, <1>2 DEF TInv, StoreInv, InitExternalSerialMode, toolVars
<1>4. BoundInv'
  BY DEF TInv, BoundInv, InitExternalSerialMode, Fault
<1> QED
  BY <1>3, <1>4 DEF TInv, ToolInv, BootInv, JobsInv, InitExternalSerialMode, toolVars

LEMMA TPins ==
  ASSUME TInv, InitArduinoPin
  PROVE  TInv'
<1>1. pins' \in Settings /\ next' \in 0..20 /\ boot' \in {"pins", "died"}
  <2> DEFINE todo == {p \in Pin : p >= next}
  <2>1. next \in 0..20 /\ boot = "pins" /\ bconf.mux \in Settings /\ pins \in Settings
    BY ConfFields DEF TInv, BootInv, StoreInv, InitArduinoPin
  <2>2. CASE todo = {}
    BY <2>1, <2>2 DEF InitArduinoPin
  <2>3. CASE todo # {}
    <3>1. PICK p \in todo :
            \/ pins' = Over(pins, Restored(p, bconf.mux[p])) /\ next' = p + 1 /\ UNCHANGED boot
            \/ boot' = "died" /\ UNCHANGED <<next, pins>>
      BY <2>3 DEF InitArduinoPin
    <3>2. p \in 0..19 /\ bconf.mux[p] \in Can(p)
      BY <2>1, FunctionsOfPin DEF Settings
    <3> QED
      BY <2>1, <3>1, <3>2, RestoredMap, OverType
  <2> QED
    BY <2>2, <2>3
<1>2. BoundInv'
  BY DEF TInv, BoundInv, InitArduinoPin, Fault
<1> QED
  BY <1>1, <1>2 DEF TInv, StoreInv, ToolInv, BootInv, JobsInv, InitArduinoPin, toolVars

LEMMA TTool ==
  ASSUME TInv, BootDone \/ Open \/ Close \/ CancelTimes \/ CallSwitch
  PROVE  TInv'
<1>1. CASE BootDone
  BY <1>1 DEF BootDone, TInv, StoreInv, ToolInv, BootInv, JobsInv, BoundInv, toolVars
<1>2. CASE Open
  BY <1>2 DEF Open, TInv, StoreInv, ToolInv, BootInv, JobsInv, BoundInv, bootVars
<1>3. CASE Close
  BY <1>3, NoCalls DEF Close, TInv, StoreInv, ToolInv, BootInv, JobsInv, BoundInv, bootVars
<1>4. CASE CancelTimes
  BY <1>4, NoWantType DEF CancelTimes, TInv, StoreInv, ToolInv, BootInv, JobsInv, BoundInv,
     bootVars
<1>5. CASE CallSwitch
  BY <1>5, NoWantType DEF CallSwitch, TInv, StoreInv, ToolInv, BootInv, JobsInv, BoundInv,
     bootVars, Fault
<1> QED
  BY <1>1, <1>2, <1>3, <1>4, <1>5

LEMMA TSelect ==
  ASSUME TInv,
         SelectRs232 \/ SaveMode \/ (\E m \in Modes, t \in {"on", "off"} : SelectTerminate(m, t))
  PROVE  TInv'
<1>1. CASE SelectRs232
  <2>1. com' \in Confs /\ file' = com' /\ chosen' \in Modes
    BY <1>1, ConfFields DEF SelectRs232, ComSaves, TInv, StoreInv, Modes
  <2>2. want' \in Ports /\ want'.mode = "RS232" /\ ui' = "call"
    BY <1>1 DEF SelectRs232, Ports, Modes
  <2>3. BoundInv'
    BY <1>1, BoardAssumption DEF SelectRs232, ComSaves, UserActs, TInv, BoundInv
  <2> QED
    BY <1>1, <2>1, <2>2, <2>3 DEF SelectRs232, TInv, StoreInv, ToolInv, BootInv, JobsInv, bootVars
<1>2. CASE SaveMode
  <2>1. want.mode \in Modes
    BY <1>2 DEF SaveMode, TInv, ToolInv, Ports
  <2>2. com' \in Confs /\ file' = com' /\ chosen' \in Modes
    BY <1>2, <2>1, ConfFields DEF SaveMode, ComSaves, TInv, StoreInv
  <2> QED
    BY <1>2, <2>1, <2>2 DEF SaveMode, ComSaves, TInv, StoreInv, ToolInv, BootInv, JobsInv, BoundInv,
       bootVars
<1>3. CASE \E m \in Modes, t \in {"on", "off"} : SelectTerminate(m, t)
  <2>1. PICK m \in Modes, t \in {"on", "off"} : SelectTerminate(m, t)
    BY <1>3
  <2>2. com' \in Confs /\ file' = com'
    BY <2>1, ConfFields DEF SelectTerminate, ComSaves, TInv, StoreInv
  <2>3. want' \in Ports /\ want'.mode = m /\ m # "none" /\ ui' = "times"
    BY <2>1 DEF SelectTerminate, Ports, Modes
  <2>4. BoundInv'
    BY <2>1, BoardAssumption DEF SelectTerminate, ComSaves, UserActs, TInv, BoundInv
  <2> QED
    BY <2>1, <2>2, <2>3, <2>4 DEF SelectTerminate, TInv, StoreInv, ToolInv, BootInv, JobsInv,
       bootVars
<1> QED
  BY <1>1, <1>2, <1>3

LEMMA TOperation ==
  ASSUME TInv, NEW t \in Threads, PinOperation(t)
  PROVE  TInv'
<1>1. PICK prog \in Operations : jobs' = [jobs EXCEPT ![t] = prog]
  BY DEF PinOperation
<1>2. prog \in Started
  <2>1. prog \in Seq(Whole) /\ prog # <<>> /\ prog[Len(prog)] = SaveConfig
    BY ProgramTypes DEF Complete
  <2>2. prog \in Seq(Whole \cup Half)
    BY <2>1, SeqMonotonic
  <2>3. \A i \in 2..Len(prog) : prog[i] \in Whole
    BY <2>1
  <2> QED
    BY <2>1, <2>2, <2>3 DEF Started
<1>3. JobsInv'
  BY <1>1, <1>2 DEF TInv, JobsInv
<1>4. BoundInv'
  BY BoardAssumption DEF PinOperation, UserActs, TInv, BoundInv, Idle
<1> QED
  BY <1>3, <1>4 DEF PinOperation, UserActs, TInv, StoreInv, ToolInv, BootInv, bootVars

(* The step that a thread does next.                                       *)
LEMMA NextStep ==
  ASSUME NEW s \in Started, s # <<>>
  PROVE  \/ \E w \in Maps : Head(Head(s)) = Copy(w)
         \/ \E w \in Maps : Head(Head(s)) = Mraa(w)
         \/ Head(Head(s)) = Save
<1>1. Head(s) \in Whole \cup Half
  BY TailOfCalls
<1> QED
  BY <1>1 DEF Whole, Half, Copying, Enabling, SaveConfig

LEMMA TStep ==
  ASSUME TInv, NEW t \in Threads, Step(t)
  PROVE  TInv'
<1> DEFINE s == Head(Head(jobs[t]))
<1>1. jobs[t] \in Started /\ jobs[t] # <<>> /\ jobs \in [Threads -> Started]
  BY DEF TInv, JobsInv, Step
<1>2. jobs' = [jobs EXCEPT ![t] = Rest(jobs[t])] \/ jobs' = [jobs EXCEPT ![t] = <<>>]
  BY DEF Step
<1>3. JobsInv'
  BY <1>1, <1>2, RestOfCalls, NoCalls DEF JobsInv
<1>4. ard' \in Confs /\ pins' \in Settings /\ file' \in Confs \cup {Broken}
  <2>1. CASE UNCHANGED <<file, ard, pins>>
    BY <2>1 DEF TInv, StoreInv
  <2>2. CASE /\ ard' = IF s.do = "copy" THEN [ard EXCEPT !.mux = Over(@, s.map)] ELSE ard
             /\ pins' = IF s.do = "mraa" THEN Over(pins, s.map) ELSE pins
             /\ file' = IF s.do = "save" THEN ard ELSE file
    <3>1. ard \in Confs /\ pins \in Settings /\ file \in Confs \cup {Broken}
      BY DEF TInv, StoreInv
    <3>2. s.do \in {"copy", "mraa"} => s.map \in Maps
      BY <1>1, NextStep DEF Copy, Mraa, Save
    <3> QED
      BY <2>2, <3>1, <3>2, ConfFields, OverType
  <2> QED
    BY <2>1, <2>2 DEF Step
<1>5. BoundInv'
  BY DEF Step, Fault, TInv, BoundInv
<1> QED
  BY <1>3, <1>4, <1>5 DEF Step, TInv, StoreInv, ToolInv, BootInv, bootVars

LEMMA TPower ==
  ASSUME TInv, PowerCycle
  PROVE  TInv'
<1>1. file' \in Confs \cup {Broken} /\ bconf' \in Confs
  BY DEF PowerCycle, TInv, StoreInv
<1>2. BoundInv'
  BY BoardAssumption DEF PowerCycle, TInv, BoundInv
<1> QED
  BY <1>1, <1>2, AllInputsType, NoWantType, NoCalls
  DEF PowerCycle, TInv, StoreInv, ToolInv, BootInv, JobsInv

LEMMA TNext ==
  ASSUME TInv, [Next]_vars
  PROVE  TInv'
<1>1. CASE UNCHANGED vars
  BY <1>1 DEF vars, bootVars, toolVars, TInv, StoreInv, ToolInv, BootInv, JobsInv, BoundInv
<1>2. CASE Next
  BY <1>2, TSerial, TPins, TTool, TSelect, TOperation, TStep, TPower DEF Next
<1> QED
  BY <1>1, <1>2

(* What the steps still to be done hold, as TypeOK states it.              *)
LEMMA JobTypes ==
  ASSUME JobsInv, NEW t \in Threads, NEW i \in DOMAIN jobs[t], NEW k \in DOMAIN jobs[t][i]
  PROVE  /\ jobs[t][i][k].do \in {"copy", "mraa", "save"}
         /\ \A p \in DOMAIN jobs[t][i][k].map : jobs[t][i][k].map[p] \in Functions
<1>1. jobs[t] \in Seq(Whole \cup Half)
  BY DEF JobsInv, Started
<1>2. jobs[t][i] \in Whole \cup Half
  BY <1>1
<1>3. \/ \E w \in Maps : jobs[t][i][k] = Copy(w)
      \/ \E w \in Maps : jobs[t][i][k] = Mraa(w)
      \/ jobs[t][i][k] = Save
  BY <1>2 DEF Whole, Half, Copying, Enabling, SaveConfig
<1>4. \A w \in Maps : \A p \in DOMAIN w : w[p] \in Functions
  BY MapDomain, FunctionsOfPin
<1>5. <<>> \in Maps
  BY EmptyMap
<1> DEFINE s == jobs[t][i][k]
<1>6. s.do \in {"copy", "mraa", "save"} /\ s.map \in Maps
  <2>1. ASSUME NEW w \in Maps, s = Copy(w) \/ s = Mraa(w)
        PROVE  s.do \in {"copy", "mraa", "save"} /\ s.map \in Maps
    BY <2>1 DEF Copy, Mraa
  <2>2. ASSUME s = Save PROVE s.do \in {"copy", "mraa", "save"} /\ s.map \in Maps
    BY <1>5, <2>2 DEF Save
  <2> QED
    BY <1>3, <2>1, <2>2
<1> QED
  BY <1>4, <1>6

LEMMA TImplies == TInv => TypeOK
<1> SUFFICES ASSUME TInv PROVE TypeOK
  OBVIOUS
<1>1. ASSUME NEW c \in {com, ard, bconf} \cup ({file} \ {Broken})
      PROVE  /\ c \in Contents /\ c.init = c.current
             /\ \A p \in Pin : c.mux[p] \in Gpio \cup PinMap[p]
  BY <1>1 DEF TInv, StoreInv, Confs, Settings, Can
<1>2. \A p \in Pin : pins[p] \in Gpio \cup PinMap[p]
  BY DEF TInv, StoreInv, Settings, Can
<1>3. {want.mode, serial.mode, chosen} \subseteq Modes \cup {"none"}
  BY DEF TInv, StoreInv, ToolInv, Ports
<1>4. JobsInv
  BY DEF TInv
<1> QED
  BY <1>1, <1>2, <1>3, <1>4, JobTypes DEF TInv, ToolInv, BootInv, BoundInv, TypeOK

LEMMA TAlways == Spec => []TInv
<1>1. TInv /\ [Next]_vars => TInv'
  BY TNext
<1> QED
  BY <1>1, TInit, PTL DEF Spec

(* File, copies, pins and threads always hold what they can hold: a pin    *)
(* never gets a function that it cannot have, by any sequence of pin       *)
(* operations, boots and faults, and the mode shown as current is the one  *)
(* for the next boot.                                                      *)
THEOREM BoardTypeCorrect == Spec => []TypeOK
BY TAlways, TImplies, PTL

-----------------------------------------------------------------------------
(* BootRestores.  The groups, and the member of each by which the boot     *)
(* service restores it.                                                    *)
LEMMA GroupMembers ==
  /\ Group("UART") = {"UART_RX", "UART_TX", "UART_CTS", "UART_RTS"} \cap Fn
  /\ Group("data") = {"UART_RX", "UART_TX"} \cap Fn
  /\ Group("flow") = {"UART_CTS", "UART_RTS"} \cap Fn
  /\ Group("SPI") = {"SPI_SS", "SPI_MOSI", "SPI_MISO", "SPI_SCK"} \cap Fn
  /\ Group("I2C") = {"I2C_SDA", "I2C_SCL"} \cap Fn
  /\ Group("PWM") = {"PWM_4", "PWM_5", "PWM_6", "PWM_7", "PWM_8", "PWM_9"} \cap Fn
  /\ Group("ADC") = {"ADC_0", "ADC_1", "ADC_2", "ADC_3", "ADC_4", "ADC_5"} \cap Fn
BY DEF Group

Alone == Gpio \cup Group("ADC") \cup Group("PWM")

LEMMA BusOrAlone ==
  ASSUME NEW p \in Pin, NEW f \in Can(p)
  PROVE  /\ f \in Bus <=> f \notin Alone
         /\ f \in Bus => f \in PinMap[p] /\ f \in Fn
<1>1. Bus \cap (Group("ADC") \cup Group("PWM")) = {} /\ Bus \subseteq Fn
  BY GroupMembers DEF Bus
<1>2. f \in Gpio \/ (f \in Fn /\ f \in PinMap[p])
  BY FunctionsOfPin DEF Can
<1> QED
  BY <1>1, <1>2, BoardAssumption, PinoutAssumption DEF Alone

(* The function that restores another one, and what it puts on the pins.   *)
Lead(f) ==
  IF f \in Group("I2C") THEN "I2C_SDA" ELSE IF f \in Group("SPI") THEN "SPI_SS"
  ELSE IF f \in Group("data") THEN "UART_RX" ELSE "UART_CTS"

LEMMA RestoredBy ==
  ASSUME NEW p \in Pin, NEW f \in Can(p)
  PROVE  /\ f \in Alone => Restored(p, f) = [q \in {p} |-> f]
         /\ f = "I2C_SDA" => Restored(p, f) = To(Group("I2C"))
         /\ f = "SPI_SS" => Restored(p, f) = To(Group("SPI"))
         /\ f = "UART_RX" => Restored(p, f) = To(Group("data"))
         /\ f = "UART_CTS" => Restored(p, f) = To(Group("UART"))
         /\ f \notin Alone \cup {"I2C_SDA", "SPI_SS", "UART_RX", "UART_CTS"} =>
              Restored(p, f) = <<>>
<1>1. f \in {"I2C_SDA", "SPI_SS", "UART_RX", "UART_CTS"} => f \notin Alone
  <2>1. \A g \in {"I2C_SDA", "SPI_SS", "UART_RX", "UART_CTS"} : g \in Fn => g \in Bus
    BY GroupMembers DEF Bus
  <2>2. f \in Fn \/ f \in Gpio
    BY FunctionsOfPin DEF Can
  <2>3. {"I2C_SDA", "SPI_SS", "UART_RX", "UART_CTS"} \cap (Group("ADC") \cup Group("PWM")) = {}
    BY GroupMembers
  <2> QED
    BY <2>1, <2>2, <2>3, PinoutAssumption DEF Alone
<1> QED
  BY <1>1 DEF Restored, Alone

(* Pin p restores pin q, and it has been passed.                           *)
Restores(m, p, q) == IF m[q] \in Bus THEN m[p] = Lead(m[q]) ELSE p = q

Settled == \A p, q \in Pin : Restores(bconf.mux, p, q) /\ p < next => pins[q] = bconf.mux[q]

(* Whatever the pin restores besides is either what it should be already or*)
(* a pin that still comes, by the order of the pins.                       *)
LEMMA RestoredRight ==
  ASSUME NEW m \in Settings, Restorable(m), NEW a \in Pin, NEW q \in Pin,
         q \in DOMAIN Restored(a, m[a])
  PROVE  Restored(a, m[a])[q] = m[q] \/ (m[q] \notin Bus /\ a <= q /\ a # q)
<1> DEFINE f == m[a]
           w == Restored(a, f)
<1>1. f \in Can(a) /\ m[q] \in Can(q)
  BY DEF Settings
<1>2. CASE f \in Alone
  <2>1. w = [x \in {a} |-> f]
    BY <1>1, <1>2, RestoredBy
  <2>2. q = a /\ w[q] = f
    BY <2>1
  <2> QED
    BY <2>2
<1>3. ASSUME NEW F, F \subseteq Bus, w = To(F), f \in Bus,
             \A p \in Pin : f \in PinMap[p] /\ PinMap[q] \cap F # {} => p <= q
      PROVE  w[q] = m[q] \/ (m[q] \notin Bus /\ a <= q /\ a # q)
  <2>1. w[q] \in PinMap[q] \cap F
    BY <1>3, ToMap
  <2>2. CASE m[q] \in Bus
    <3>1. m[q] \in PinMap[q] \cap Bus
      BY <1>1, <2>2, BusOrAlone
    <3> QED
      BY <1>3, <2>1, <3>1, PinoutAssumption
  <2>3. CASE m[q] \notin Bus
    <3>1. f \in PinMap[a] /\ a # q
      BY <1>1, <1>3, <2>3, BusOrAlone
    <3> QED
      BY <1>3, <2>1, <2>3, <3>1
  <2> QED
    BY <2>2, <2>3
<1>4. ASSUME f \notin Alone
      PROVE  f \in Bus
  BY <1>1, <1>4, BusOrAlone
<1>5. CASE f = "I2C_SDA" /\ f \notin Alone
  <2>1. w = To(Group("I2C")) /\ f \in Bus
    BY <1>1, <1>4, <1>5, RestoredBy
  <2>2. Group("I2C") \subseteq Bus
    BY GroupMembers DEF Bus
  <2>3. \A p \in Pin : f \in PinMap[p] /\ PinMap[q] \cap Group("I2C") # {} => p <= q
    BY <1>5, PinoutAssumption DEF LeadsFrom
  <2> QED
    BY <1>3, <2>1, <2>2, <2>3
<1>6. CASE f = "SPI_SS" /\ f \notin Alone
  <2>1. w = To(Group("SPI")) /\ f \in Bus
    BY <1>1, <1>4, <1>6, RestoredBy
  <2>2. Group("SPI") \subseteq Bus
    BY GroupMembers DEF Bus
  <2>3. \A p \in Pin : f \in PinMap[p] /\ PinMap[q] \cap Group("SPI") # {} => p <= q
    BY <1>6, PinoutAssumption DEF LeadsFrom
  <2> QED
    BY <1>3, <2>1, <2>2, <2>3
<1>7. CASE f = "UART_RX" /\ f \notin Alone
  <2>1. w = To(Group("data")) /\ f \in Bus
    BY <1>1, <1>4, <1>7, RestoredBy
  <2>2. Group("data") \subseteq Bus
    BY GroupMembers DEF Bus
  <2>3. \A p \in Pin : f \in PinMap[p] /\ PinMap[q] \cap Group("data") # {} => p <= q
    BY <1>7, PinoutAssumption DEF LeadsFrom
  <2> QED
    BY <1>3, <2>1, <2>2, <2>3
<1>8. CASE f = "UART_CTS" /\ f \notin Alone
  <2>1. w = To(Group("UART")) /\ f \in Bus
    BY <1>1, <1>4, <1>8, RestoredBy
  <2>2. w[q] \in PinMap[q] \cap Group("UART")
    BY <2>1, ToMap
  <2>3. CASE PinMap[q] \cap Group("flow") # {}
    <3>1. \A p \in Pin : f \in PinMap[p] => p <= q
      BY <1>8, <2>3, PinoutAssumption DEF LeadsFrom
    <3>2. Group("UART") \subseteq Bus
      BY DEF Bus
    <3> QED
      BY <1>3, <2>1, <3>1, <3>2
  <2>4. CASE PinMap[q] \cap Group("flow") = {}
    <3>1. PICK g \in PinMap[q] : g \in {"UART_RX", "UART_TX"}
      BY <2>2, <2>4, GroupMembers
    <3>2. PICK p \in Pin : m[p] = g
      BY <1>8, <3>1 DEF Restorable
    <3>3. g \in PinMap[p]
      BY <3>1, <3>2, PinoutAssumption DEF Settings, Can
    <3>4. p = q
      BY <3>1, <3>3, BoardAssumption
    <3>5. m[q] \in Bus
      BY <3>1, <3>2, <3>4, FunctionsOfPin, GroupMembers DEF Bus
    <3>6. m[q] \in PinMap[q] \cap Bus /\ w[q] \in PinMap[q] \cap Bus
      BY <1>1, <2>2, <3>5, BusOrAlone DEF Bus
    <3> QED
      BY <3>6, PinoutAssumption
  <2> QED
    BY <2>3, <2>4
<1>9. CASE f \notin Alone \cup {"I2C_SDA", "SPI_SS", "UART_RX", "UART_CTS"}
  <2>1. w = <<>>
    BY <1>1, <1>9, RestoredBy
  <2> QED
    BY <2>1
<1> QED
  BY <1>2, <1>5, <1>6, <1>7, <1>8, <1>9

(* The pin that restores q puts on q what the file says.                   *)
LEMMA RestorerReaches ==
  ASSUME NEW m \in Settings, Restorable(m), NEW a \in Pin, NEW q \in Pin, Restores(m, a, q)
  PROVE  q \in DOMAIN Restored(a, m[a]) /\ Restored(a, m[a])[q] = m[q]
<1>1. m[a] \in Can(a) /\ m[q] \in Can(q)
  BY DEF Settings
<1>2. CASE m[q] \notin Bus
  <2>1. a = q /\ m[a] \in Alone
    BY <1>1, <1>2, BusOrAlone DEF Restores
  <2>2. Restored(a, m[a]) = [x \in {a} |-> m[a]]
    BY <1>1, <2>1, RestoredBy
  <2> QED
    BY <2>1, <2>2
<1>3. CASE m[q] \in Bus
  <2>1. m[q] \in PinMap[q] /\ m[q] \in Fn /\ m[a] = Lead(m[q])
    BY <1>1, <1>3, BusOrAlone DEF Restores
  <2>2. m[a] \in {"I2C_SDA", "SPI_SS", "UART_RX", "UART_CTS"}
    BY <2>1 DEF Lead
  <2>3. m[a] \in Fn
    BY <1>1, <2>2, PinoutAssumption, FunctionsOfPin DEF Can
  <2>4. m[a] \notin Alone
    BY <1>1, <2>2, <2>3, BusOrAlone, GroupMembers DEF Bus
  <2>5. \E F : F \subseteq Bus /\ m[q] \in F /\ Restored(a, m[a]) = To(F)
    <3>1. /\ Group("data") \subseteq Bus /\ Group("UART") \subseteq Bus
          /\ Group("SPI") \subseteq Bus /\ Group("I2C") \subseteq Bus
      BY GroupMembers DEF Bus
    <3>2. CASE m[q] \in Group("I2C")
      BY <1>1, <2>1, <2>4, <3>1, <3>2, RestoredBy DEF Lead
    <3>3. CASE m[q] \in Group("SPI")
      <4>1. m[a] = "SPI_SS"
        BY <2>1, <3>3, GroupMembers DEF Lead
      <4> QED
        BY <1>1, <2>4, <3>1, <3>3, <4>1, RestoredBy
    <3>4. CASE m[q] \in Group("data")
      <4>1. m[a] = "UART_RX"
        BY <2>1, <3>4, GroupMembers DEF Lead
      <4> QED
        BY <1>1, <2>4, <3>1, <3>4, <4>1, RestoredBy
    <3>5. CASE m[q] \in Group("UART") \ Group("data")
      <4>1. m[a] = "UART_CTS"
        BY <2>1, <3>5, GroupMembers DEF Lead
      <4> QED
        BY <1>1, <2>4, <3>1, <3>5, <4>1, RestoredBy
    <3> QED
      BY <1>3, <3>2, <3>3, <3>4, <3>5 DEF Bus
  <2>6. PICK F : F \subseteq Bus /\ m[q] \in F /\ Restored(a, m[a]) = To(F)
    BY <2>5
  <2>7. q \in DOMAIN To(F)
    BY <2>1, <2>6, ToMap
  <2>8. To(F)[q] \in PinMap[q] \cap Bus
    BY <2>6, <2>7, ToMap
  <2> QED
    BY <1>3, <2>1, <2>6, <2>7, <2>8, PinoutAssumption
<1> QED
  BY <1>2, <1>3

(* While an undisturbed boot goes on, nobody uses the tool, the serial port*)
(* is as the file says, and so is every pin whose restorer has been passed.*)
Applied == serial = [mode |-> bconf.init,
                     term |-> IF bconf.init = "RS232" THEN "off" ELSE bconf.term]

RInv ==
  /\ ui = "closed" => Idle
  /\ clean /\ boot \in {"serial", "pins"} => ui = "closed"
  /\ clean /\ boot = "pins" => Applied
  /\ clean /\ boot = "pins" /\ Restorable(bconf.mux) => Settled

LEMMA RInit == Init => RInv
BY DEF Init, RInv, Idle

LEMMA RPins ==
  ASSUME TInv, RInv, InitArduinoPin
  PROVE  RInv'
<1> DEFINE todo == {p \in Pin : p >= next}
           m == bconf.mux
<1>1. /\ boot = "pins" /\ bconf' = bconf /\ UNCHANGED <<ui, jobs, serial>>
      /\ (clean' => clean) /\ m \in Settings /\ pins \in Settings /\ next \in 0..20
  BY ConfFields DEF InitArduinoPin, Fault, toolVars, TInv, StoreInv, BootInv
<1>2. ASSUME clean', boot' = "pins", Restorable(m) PROVE Settled'
  <2> SUFFICES ASSUME NEW p \in Pin, NEW q \in Pin, Restores(m, p, q), p < next'
               PROVE  pins'[q] = m[q]
    BY <1>1 DEF Settled
  <2>1. p < next => pins[q] = m[q]
    BY <1>1, <1>2 DEF RInv, Settled
  <2>2. CASE todo = {}
    <3>1. pins' = pins
      BY <2>2 DEF InitArduinoPin
    <3>2. p < next
      BY <1>1, <2>2, FunctionsOfPin
    <3> QED
      BY <2>1, <3>1, <3>2
  <2>3. CASE todo # {}
    <3>1. PICK a \in todo : /\ \A x \in todo : a <= x
                            /\ pins' = Over(pins, Restored(a, m[a])) /\ next' = a + 1
      BY <1>2, <2>3 DEF InitArduinoPin
    <3>2. a \in 0..19 /\ p \in 0..19 /\ q \in 0..19
      BY FunctionsOfPin
    <3>3. p < next \/ p = a
      BY <1>1, <3>1, <3>2
    <3>4. pins'[q] = IF q \in DOMAIN Restored(a, m[a]) THEN Restored(a, m[a])[q] ELSE pins[q]
      BY <3>1 DEF Over
    <3>5. CASE p = a
      BY <1>1, <1>2, <3>4, <3>5, RestorerReaches
    <3>6. CASE p < next /\ q \in DOMAIN Restored(a, m[a])
      <4>1. ~(m[q] \notin Bus /\ a <= q /\ a # q)
        BY <1>1, <3>1, <3>2, <3>6 DEF Restores
      <4> QED
        BY <1>1, <1>2, <3>4, <3>6, <4>1, RestoredRight
    <3>7. CASE p < next /\ q \notin DOMAIN Restored(a, m[a])
      BY <2>1, <3>4, <3>7
    <3> QED
      BY <3>3, <3>5, <3>6, <3>7
  <2> QED
    BY <2>2, <2>3
<1>3. ui = "closed" => Idle'
  BY <1>1 DEF RInv, Idle
<1>4. clean' => Applied'
  BY <1>1 DEF RInv, Applied
<1>5. clean' => ui' = "closed"
  BY <1>1 DEF RInv
<1> QED
  BY <1>1, <1>2, <1>3, <1>4, <1>5 DEF RInv

(* Steps of the tool: not while an undisturbed boot goes on.               *)
LEMMA RTool ==
  ASSUME TInv, RInv, UNCHANGED bootVars, clean' => clean \/ boot = "done",
         clean /\ boot \in {"serial", "pins"} => ui # "closed",
         ui' = "closed" => Idle', clean' /\ ui = "closed" => boot = "done"
  PROVE  RInv'
BY DEF RInv, bootVars

LEMMA RNext ==
  ASSUME TInv, RInv, [Next]_vars
  PROVE  RInv'
<1>1. CASE UNCHANGED vars
  BY <1>1 DEF vars, bootVars, toolVars, RInv, Idle, Applied, Settled
<1>2. CASE InitExternalSerialMode
  <2>1. /\ boot = "serial" /\ next' = 0 /\ UNCHANGED <<ui, jobs>> /\ (clean' => clean)
        /\ (clean' => serial' = [mode |-> bconf.init,
                                  term |-> IF bconf.init = "RS232" THEN "off" ELSE bconf.term])
    BY <1>2 DEF InitExternalSerialMode, Fault, toolVars
  <2>2. bconf' = bconf
    BY <1>2, ConfFields DEF InitExternalSerialMode, TInv, StoreInv
  <2>3. \A p \in Pin : ~(p < 0)
    BY FunctionsOfPin
  <2> QED
    BY <2>1, <2>2, <2>3 DEF RInv, Idle, Applied, Settled
<1>3. CASE InitArduinoPin
  BY <1>3, RPins
<1>4. CASE BootDone
  BY <1>4 DEF BootDone, RInv, Idle, toolVars
<1>5. CASE Open
  BY <1>5 DEF Open, RInv, bootVars
<1>6. CASE Close
  <2>1. Idle' /\ (clean' => clean)
    BY <1>6 DEF Close, Idle, TInv, BoundInv
  <2> QED
    BY <1>6, <2>1, RTool DEF Close
<1>7. CASE CancelTimes \/ SaveMode \/ CallSwitch
  <2>1. ui # "closed" /\ ui' # "closed" /\ UNCHANGED bootVars /\ (clean' => clean)
    BY <1>7 DEF CancelTimes, SaveMode, CallSwitch, Fault
  <2> QED
    BY <2>1, RTool
<1>8. CASE SelectRs232 \/ (\E m \in Modes, t \in {"on", "off"} : SelectTerminate(m, t))
  <2>1. ui # "closed" /\ ui' # "closed" /\ UNCHANGED bootVars /\ (clean' => clean)
    BY <1>8 DEF SelectRs232, SelectTerminate, UserActs
  <2> QED
    BY <2>1, RTool
<1>9. CASE \E t \in Threads : Step(t) \/ PinOperation(t)
  <2>1. PICK t \in Threads : Step(t) \/ PinOperation(t)
    BY <1>9
  <2>2. ui # "closed" /\ ui' # "closed" /\ UNCHANGED bootVars
    BY <2>1 DEF Step, PinOperation, UserActs, RInv, Idle
  <2>3. clean' => clean
    BY <2>1 DEF Step, PinOperation, Fault
  <2> QED
    BY <2>2, <2>3, RTool
<1>10. CASE PowerCycle
  <2>1. Idle' /\ ui' = "closed" /\ boot' # "pins"
    BY <1>10 DEF PowerCycle, Idle, TInv, JobsInv
  <2> QED
    BY <2>1 DEF RInv
<1> QED
  BY <1>1, <1>2, <1>3, <1>4, <1>5, <1>6, <1>7, <1>8, <1>9, <1>10 DEF Next

(* When every pin has been passed, every pin's restorer has.               *)
LEMMA AllRestored ==
  ASSUME TInv, RInv, clean, BootDone, Restorable(bconf.mux)
  PROVE  pins = bconf.mux
<1> DEFINE m == bconf.mux
<1>1. m \in Settings /\ pins \in Settings /\ next = 20 /\ Settled
  BY ConfFields DEF TInv, StoreInv, BootDone, RInv
<1>2. ASSUME NEW q \in Pin PROVE \E p \in Pin : Restores(m, p, q)
  <2>1. CASE m[q] \notin Bus
    BY <2>1 DEF Restores
  <2>2. CASE m[q] \in Bus
    <3>1. \E p \in Pin : m[p] = Lead(m[q])
      BY <2>2, GroupMembers DEF Lead, Restorable, Bus
    <3> QED
      BY <2>2, <3>1 DEF Restores
  <2> QED
    BY <2>1, <2>2
<1>3. \A q \in Pin : pins[q] = m[q]
  <2> SUFFICES ASSUME NEW q \in Pin PROVE pins[q] = m[q]
    OBVIOUS
  <2>1. PICK p \in Pin : Restores(m, p, q)
    BY <1>2
  <2>2. p < next
    BY <1>1, FunctionsOfPin
  <2> QED
    BY <1>1, <2>1, <2>2 DEF Settled
<1> QED
  BY <1>1, <1>3 DEF Settings

(* A boot without errors puts the serial port and every pin into the state *)
(* the file describes, whatever was enabled and disabled before: although  *)
(* one member of a group switches all of its pins, a pin taken out of the  *)
(* group ends as its own, by the order of the pins in the shipped map.     *)
THEOREM BootAppliesFile == Spec => BootRestores
<1> DEFINE Good == boot = "pins" /\ boot' = "done" /\ clean =>
                     (Restorable(bconf.mux) => pins = bconf.mux) /\ Applied
<1>1. TInv /\ RInv /\ [Next]_vars => RInv'
  BY RNext
<1>2. TInv /\ RInv /\ [Next]_vars => [Good]_vars
  <2> SUFFICES ASSUME TInv, RInv, Next, boot = "pins", boot' = "done", clean
               PROVE  (Restorable(bconf.mux) => pins = bconf.mux) /\ Applied
    OBVIOUS
  <2>1. BootDone
    BY DEF Next, InitExternalSerialMode, InitArduinoPin, Open, Close, SelectRs232, CancelTimes,
       SaveMode, CallSwitch, SelectTerminate, Step, PinOperation, PowerCycle, bootVars
  <2> QED
    BY <2>1, AllRestored DEF RInv
<1>3. Spec => []RInv
  BY <1>1, RInit, TAlways, PTL DEF Spec
<1>4. Spec => [][Good]_vars
  BY <1>2, <1>3, TAlways, PTL DEF Spec
<1> QED
  BY <1>4, PTL DEF BootRestores, Applied

-----------------------------------------------------------------------------
(* PinsAsShown.  As long as nothing failed or overlapped, at most one      *)
(* thread is alive, and the copy of the menu differs from the pins by the  *)
(* half of its call that is still to be done; when the thread has ended the*)
(* file describes the pins, and while the tool is closed it keeps doing so.*)
InStep(c) ==
  \/ c \in Whole /\ ard.mux = pins
  \/ \E w \in Maps : c = <<Mraa(w)>> /\ ard.mux = Over(pins, w)
  \/ \E w \in Maps : c = <<Copy(w)>> /\ pins = Over(ard.mux, w)

AInv ==
  /\ clean /\ ui # "closed" =>
       boot = "done" /\ \A t, u \in Threads : jobs[t] # <<>> /\ jobs[u] # <<>> => t = u
  /\ clean /\ ui # "closed" /\ excused = {} =>
       /\ Idle => ard.mux = pins /\ file.mux = pins
       /\ \A t \in Threads : jobs[t] # <<>> => InStep(Head(jobs[t]))
  /\ clean /\ ui = "closed" =>
       /\ boot \in {"serial", "pins"} => file.mux = bconf.mux
       /\ boot = "done" /\ excused = {} => file.mux = pins

LEMMA SavedInStep == InStep(SaveConfig) => ard.mux = pins
<1>1. ASSUME NEW w \in Maps PROVE SaveConfig # <<Mraa(w)>> /\ SaveConfig # <<Copy(w)>>
  <2>1. Save # Mraa(w) /\ Save # Copy(w)
    <3>1. Save.do = "save" /\ Mraa(w).do = "mraa" /\ Copy(w).do = "copy"
      BY DEF Save, Mraa, Copy
    <3> QED
      BY <3>1
  <2> QED
    BY <2>1 DEF SaveConfig
<1> QED
  BY <1>1 DEF InStep

LEMMA AInit == Init => AInv
BY DEF Init, AInv, Shipped

(* Neither the copy, the pins, the threads nor what the file says of the   *)
(* pins is touched.                                                        *)
LEMMA AUntouched ==
  ASSUME AInv, clean' => clean, excused' = {} => excused = {}, ui' = "closed" <=> ui = "closed",
         UNCHANGED <<ard, pins, jobs, boot, bconf>>,
         excused' = {} /\ ui # "closed" /\ Idle /\ ard.mux = pins /\ file.mux = pins => file'.mux = pins,
         ui = "closed" => file' = file
  PROVE  AInv'
BY DEF AInv, InStep, Idle

LEMMA AOperation ==
  ASSUME TInv, AInv, NEW t \in Threads, PinOperation(t)
  PROVE  AInv'
<1> SUFFICES ASSUME clean'
    PROVE  /\ ui' # "closed" /\ boot' = "done"
           /\ \A u, v \in Threads : jobs'[u] # <<>> /\ jobs'[v] # <<>> => u = v
           /\ ~Idle'
           /\ excused' = {} => \A u \in Threads : jobs'[u] # <<>> => InStep(Head(jobs[u]))'
  BY DEF AInv
<1>1. /\ clean /\ ui # "closed" /\ Idle /\ UNCHANGED <<ui, boot, ard, pins, excused>>
  BY DEF PinOperation, UserActs, bootVars
<1>2. boot = "done" /\ (excused = {} => ard.mux = pins)
  BY <1>1 DEF AInv
<1>3. PICK prog \in Operations : jobs' = [jobs EXCEPT ![t] = prog]
  BY DEF PinOperation
<1>4. prog \in Seq(Whole) /\ prog # <<>>
  BY ProgramTypes DEF Complete
<1>5. jobs'[t] = prog /\ \A u \in Threads \ {t} : jobs'[u] = <<>>
  BY <1>1, <1>3 DEF TInv, JobsInv, Idle
<1>6. Head(prog) \in Whole
  BY <1>4
<1>7. ASSUME excused = {}, NEW u \in Threads, jobs'[u] # <<>> PROVE InStep(Head(jobs[u]))'
  BY <1>1, <1>2, <1>5, <1>6, <1>7 DEF InStep
<1>8. ~Idle'
  BY <1>4, <1>5 DEF Idle
<1> QED
  BY <1>1, <1>2, <1>5, <1>7, <1>8

LEMMA StepInStep ==
  ASSUME TInv, AInv, NEW t \in Threads, Step(t), clean, clean', ui # "closed", excused = {}
  PROVE  /\ Idle' => ard'.mux = pins' /\ file'.mux = pins'
         /\ \A u \in Threads : jobs'[u] # <<>> => InStep(Head(jobs[u]))'
<1> DEFINE c == Head(jobs[t])
           s == Head(Head(jobs[t]))
<1>1. /\ jobs' = [jobs EXCEPT ![t] = Rest(@)]
      /\ ard' = IF s.do = "copy" THEN [ard EXCEPT !.mux = Over(@, s.map)] ELSE ard
      /\ pins' = IF s.do = "mraa" THEN Over(pins, s.map) ELSE pins
      /\ file' = IF s.do = "save" THEN ard ELSE file
  BY DEF Step, Fault
<1>2. /\ \A u \in Threads : jobs[u] # <<>> => u = t
      /\ InStep(c)
  BY <1>1 DEF AInv, Step
<1>3. jobs[t] \in Started /\ jobs[t] # <<>> /\ jobs \in [Threads -> Started]
  BY DEF Step, TInv, JobsInv
<1>4. jobs'[t] = Rest(jobs[t]) /\ \A u \in Threads \ {t} : jobs'[u] = <<>>
  BY <1>1, <1>2, <1>3
<1>5. ard \in Confs /\ pins \in Settings /\ ard.mux \in Settings
  BY ConfFields DEF TInv, StoreInv
<1>6. \A w \in Maps : s = Copy(w) => ard'.mux = Over(ard.mux, w) /\ pins' = pins
  BY <1>1, <1>5 DEF Copy, Confs, Contents
<1>7. \A w \in Maps : s = Mraa(w) => ard' = ard /\ pins' = Over(pins, w)
  BY <1>1 DEF Mraa
<1>8. (Rest(jobs[t]) # <<>> => InStep(Head(jobs[t]))') /\ (Rest(jobs[t]) = <<>> => ard'.mux = pins')
  <2>1. CASE c \in Copying
    <3>1. PICK w \in Maps : c = <<Copy(w), Mraa(w)>>
      BY <2>1 DEF Copying
    <3>2. s = Copy(w) /\ ard.mux = pins
      BY <1>2, <3>1 DEF InStep
    <3>3. Rest(jobs[t]) # <<>> /\ Head(Rest(jobs[t])) = <<Mraa(w)>>
      BY <1>3, <3>1, RestOfCalls
    <3> QED
      BY <1>4, <1>6, <3>2, <3>3 DEF InStep
  <2>2. CASE c \in Enabling
    <3>1. PICK w \in Maps : c = <<Mraa(w), Copy(w)>>
      BY <2>2 DEF Enabling
    <3>2. s = Mraa(w) /\ ard.mux = pins
      BY <1>2, <3>1 DEF InStep
    <3>3. Rest(jobs[t]) # <<>> /\ Head(Rest(jobs[t])) = <<Copy(w)>>
      BY <1>3, <3>1, RestOfCalls
    <3> QED
      BY <1>4, <1>7, <3>2, <3>3 DEF InStep
  <2>3. CASE c \in Half \cup {SaveConfig}
    <3>1. Rest(jobs[t]) # <<>> => Head(Rest(jobs[t])) \in Whole
      BY <1>3, <2>3, RestOfCalls
    <3>2. ard'.mux = pins'
      <4>1. CASE c = SaveConfig
        <5>1. s = Save
          BY <4>1 DEF SaveConfig
        <5>2. ard.mux = pins
          BY <1>2, <4>1, SavedInStep
        <5> QED
          BY <1>1, <5>1, <5>2 DEF Save
      <4>2. CASE \E w \in Maps : c = <<Mraa(w)>> /\ ard.mux = Over(pins, w)
        BY <1>7, <4>2
      <4>3. CASE \E w \in Maps : c = <<Copy(w)>> /\ pins = Over(ard.mux, w)
        BY <1>6, <4>3
      <4>4. CASE c \in Half /\ c \in Whole
        <5>1. Len(c) = 1
          BY <4>4, CallLengths DEF Half
        <5>2. c = SaveConfig
          BY <4>4, <5>1, CallLengths DEF Whole, Copying, Enabling
        <5> QED
          BY <4>1, <5>2
      <4> QED
        BY <1>2, <2>3, <4>1, <4>2, <4>3, <4>4 DEF InStep
    <3> QED
      BY <1>4, <3>1, <3>2 DEF InStep
  <2> QED
    BY <1>3, <2>1, <2>2, <2>3, TailOfCalls DEF Whole
<1>9. Idle' => ard'.mux = pins' /\ file'.mux = pins'
  <2> SUFFICES ASSUME Idle' PROVE ard'.mux = pins' /\ file'.mux = pins'
    OBVIOUS
  <2>1. Rest(jobs[t]) = <<>>
    BY <1>4 DEF Idle
  <2>2. c = SaveConfig
    BY <1>3, <2>1, RestOfCalls
  <2>3. s = Save
    BY <2>2 DEF SaveConfig
  <2>4. file' = ard /\ ard' = ard
    BY <1>1, <2>3 DEF Save
  <2> QED
    BY <1>8, <2>1, <2>4
<1>10. \A u \in Threads : jobs'[u] # <<>> => InStep(Head(jobs[u]))'
  BY <1>4, <1>8
<1> QED
  BY <1>9, <1>10

LEMMA AStep ==
  ASSUME TInv, RInv, AInv, NEW t \in Threads, Step(t)
  PROVE  AInv'
<1>1. CASE ~clean'
  BY <1>1 DEF AInv
<1>2. CASE clean'
  <2>1. clean /\ ui # "closed" /\ UNCHANGED <<ui, boot, excused>> /\ jobs' = [jobs EXCEPT ![t] = Rest(@)]
    BY <1>2 DEF Step, Fault, bootVars, RInv, Idle
  <2>2. boot = "done" /\ \A u \in Threads : jobs[u] # <<>> => u = t
    BY <2>1 DEF AInv, Step
  <2>3. \A u, v \in Threads : jobs'[u] # <<>> /\ jobs'[v] # <<>> => u = v
    BY <2>1, <2>2 DEF TInv, JobsInv
  <2>4. excused = {} => /\ Idle' => ard'.mux = pins' /\ file'.mux = pins'
                        /\ \A u \in Threads : jobs'[u] # <<>> => InStep(Head(jobs[u]))'
    BY <1>2, <2>1, StepInStep
  <2> QED
    BY <2>1, <2>2, <2>3, <2>4 DEF AInv
<1> QED
  BY <1>1, <1>2

LEMMA ANext ==
  ASSUME TInv, RInv, AInv, [Next]_vars
  PROVE  AInv'
<1>1. CASE UNCHANGED vars
  BY <1>1, AUntouched DEF vars, bootVars, toolVars
<1>2. CASE InitExternalSerialMode
  <2>1. /\ boot = "serial" /\ boot' = "pins" /\ UNCHANGED ui /\ (clean' => clean)
        /\ file' = bconf' \/ file' = file
    BY <1>2 DEF InitExternalSerialMode, Fault, toolVars
  <2>2. bconf' = bconf
    BY <1>2, ConfFields DEF InitExternalSerialMode, TInv, StoreInv
  <2> QED
    BY <2>1, <2>2 DEF AInv, RInv
<1>3. CASE InitArduinoPin
  <2>1. boot = "pins" /\ UNCHANGED <<file, bconf, ui>> /\ (clean' => clean /\ boot' = boot)
    BY <1>3 DEF InitArduinoPin, Fault, toolVars
  <2> QED
    BY <2>1 DEF AInv, RInv
<1>4. CASE BootDone
  <2>1. /\ boot = "pins" /\ boot' = "done" /\ UNCHANGED <<file, bconf, pins, ui, clean>>
        /\ (excused' = {} => Restorable(bconf.mux))
    BY <1>4 DEF BootDone, toolVars
  <2>2. clean /\ Restorable(bconf.mux) => pins = bconf.mux
    BY <1>4, AllRestored
  <2> QED
    BY <2>1, <2>2 DEF AInv, RInv
<1>5. CASE Open
  <2>1. /\ Idle /\ Idle' /\ ui = "closed" /\ ui' # "closed" /\ ard' = file
        /\ UNCHANGED <<file, pins, boot, excused, jobs>> /\ (clean' => clean /\ boot = "done")
    BY <1>5 DEF Open, Idle, bootVars
  <2> QED
    BY <2>1 DEF AInv, Idle
<1>6. CASE Close
  <2>1. /\ ui # "closed" /\ ui' = "closed" /\ (clean' => clean /\ Idle)
        /\ UNCHANGED <<file, boot, bconf, pins, excused>>
    BY <1>6 DEF Close, bootVars
  <2> QED
    BY <2>1 DEF AInv
<1>7. CASE PowerCycle
  <2>1. ui' = "closed" /\ (boot' = "died" \/ (boot' = "serial" /\ bconf' = file'))
    BY <1>7 DEF PowerCycle
  <2> QED
    BY <2>1 DEF AInv
<1>8. CASE \/ SelectRs232 \/ SaveMode \/ CallSwitch \/ CancelTimes
           \/ \E m \in Modes, t \in {"on", "off"} : SelectTerminate(m, t)
  <2>1. /\ UNCHANGED <<ard, pins, jobs, boot, bconf>> /\ (clean' => clean)
        /\ ui # "closed" /\ ui' # "closed"
    BY <1>8 DEF SelectRs232, SaveMode, CallSwitch, CancelTimes, SelectTerminate, UserActs,
       bootVars, Fault
  <2>2. /\ excused' = {} => excused = {}
        /\ file' = file \/ (excused' = {} => file'.mux = ard.mux)
    <3>1. CASE CallSwitch \/ CancelTimes
      BY <3>1 DEF CallSwitch, CancelTimes
    <3>2. CASE SelectRs232 \/ SaveMode \/ \E m \in Modes, t \in {"on", "off"} : SelectTerminate(m, t)
      <4>1. ComSaves /\ com'.mux = com.mux
        BY <3>2 DEF SelectRs232, SaveMode, SelectTerminate, TInv, StoreInv, Confs, Contents
      <4> QED
        BY <4>1 DEF ComSaves
    <3> QED
      BY <1>8, <3>1, <3>2
  <2> QED
    BY <2>1, <2>2, AUntouched
<1>9. CASE \E t \in Threads : Step(t) \/ PinOperation(t)
  BY <1>9, AStep, AOperation
<1> QED
  BY <1>1, <1>2, <1>3, <1>4, <1>5, <1>6, <1>7, <1>8, <1>9 DEF Next

(* The Arduino menu shows what the pins are set to, after any sequence of  *)
(* operations that enable and disable functions over each other, any       *)
(* changes of the serial mode between them and any number of boots, whether*)
(* the menu is opened before or after them.  Four things excuse it from    *)
(* that, each until the next boot: mraa failed, an operation overlapped    *)
(* another or the end of the tool, the boot found a group without the      *)
(* member it is restored by, or the COM menu has saved its own copy after  *)
(* the Arduino menu changed a pin.                                         *)
THEOREM ShownIsSet == Spec => []PinsAsShown
<1>1. TInv /\ RInv /\ AInv /\ [Next]_vars => AInv'
  BY ANext
<1>2. AInv => PinsAsShown
  BY DEF AInv, PinsAsShown
<1>3. TInv /\ RInv /\ [Next]_vars => RInv'
  BY RNext
<1>4. Spec => []RInv
  BY <1>3, RInit, TAlways, PTL DEF Spec
<1> QED
  BY <1>1, <1>2, <1>4, AInit, TAlways, PTL DEF Spec
=============================================================================
