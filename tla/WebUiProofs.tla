------------------------------ MODULE WebUiProofs ------------------------------
(***************************************************************************)
(* Proofs about the configuration page, for any number of slots, modules,  *)
(* calls, edits and files.                                                 *)
(***************************************************************************)
EXTENDS WebUi, TLAPS

CallRecords == [op : {"none", "deploy", "retrieve"}, list : Lists,
                at : {"idle", "sent", "ok", "error", "garbled", "lost"}]

(* An empty list is a list, an idle call is a call.                        *)
LEMMA Constants == Empty \in Lists /\ Idle \in CallRecords
BY WebUiAssumption DEF Empty, Idle, Lists, CallRecords

-----------------------------------------------------------------------------
(* Type correctness.  What updateSlot makes of a list is a list.           *)
LEMMA UpdateType ==
  ASSUME NEW l \in Lists, NEW i \in Slots, NEW m \in Modules \union {None}
  PROVE  Update(l, i, m) \in Lists
BY DEF Update, Lists

(* A call whose answer has come is still a call.                           *)
LEMMA AnswerType ==
  ASSUME TypeOK, NEW c \in Calls, NEW list \in Lists,
         NEW at \in {"idle", "sent", "ok", "error", "garbled", "lost"},
         Answer(c, at, list)
  PROVE  call' \in [Calls -> CallRecords]
BY DEF TypeOK, Answer, CallRecords

LEMMA TypeStep == TypeOK /\ [Next]_vars => TypeOK'
<1> SUFFICES ASSUME TypeOK, [Next]_vars PROVE TypeOK'
    OBVIOUS
<1> USE Constants
<1>c. call \in [Calls -> CallRecords]
    BY DEF TypeOK, CallRecords
<1>1. ASSUME NEW i \in Slots, SelectTab(i) PROVE TypeOK'
    BY <1>1 DEF TypeOK, SelectTab, history
<1>2. ASSUME NEW m \in (Modules \ Unreadable) \union {None}, UpdateSlot(m) PROVE TypeOK'
    <2>1. slots' \in Lists /\ view' \in Lists
        BY <1>2, UpdateType DEF TypeOK, UpdateSlot
    <2>2. edits' \in 0..MaxEdits
        BY <1>2, WebUiAssumption DEF TypeOK, UpdateSlot
    <2>3. quiet' \in BOOLEAN
        BY <1>2 DEF UpdateSlot
    <2> QED
        BY <1>2, <2>1, <2>2, <2>3 DEF TypeOK, UpdateSlot
<1>3. ASSUME Render PROVE TypeOK'
    BY <1>3 DEF TypeOK, Render, history
<1>4. ASSUME NEW l \in Files, OpenFile(l) PROVE TypeOK'
    BY <1>4 DEF TypeOK, OpenFile, page
<1>5. ASSUME FileRead PROVE TypeOK'
    <2>1. slots' \in Lists /\ loaded' \in BOOLEAN /\ quiet' \in BOOLEAN
        BY <1>5, WebUiAssumption DEF TypeOK, FileRead, SetLoaded
    <2> QED
        BY <1>5, <2>1 DEF TypeOK, FileRead
<1>6. ASSUME FileMalformed PROVE TypeOK'
    BY <1>6 DEF TypeOK, FileMalformed, page, history
<1>7. ASSUME CloseAlert PROVE TypeOK'
    BY <1>7 DEF TypeOK, CloseAlert, page, history
<1>8. ASSUME NEW c \in Calls, NEW op \in {"deploy", "retrieve"}, Click(c, op) PROVE TypeOK'
    <2>1. call' \in [Calls -> CallRecords]
        <3>1. [op |-> op, at |-> "sent", list |-> IF op = "deploy" THEN view ELSE Empty]
                \in CallRecords
            BY DEF TypeOK, CallRecords
        <3> QED
            BY <1>8, <1>c, <3>1 DEF Click
    <2>2. clicks' \in 0..MaxClicks
        BY <1>8, WebUiAssumption DEF TypeOK, Click
    <2>3. quiet' \in BOOLEAN
        BY <1>8 DEF Click
    <2> QED
        BY <1>8, <2>1, <2>2, <2>3 DEF TypeOK, Click, page, CallRecords
<1>9. ASSUME NEW c \in Calls, Serve(c) PROVE TypeOK'
    <2>1. call' \in [Calls -> CallRecords]
        BY <1>9, AnswerType DEF Serve, ServeDeploy, ServeRetrieve, AnswerAlone, TypeOK
    <2>2. device' \in Lists
        BY <1>9, <1>c DEF TypeOK, Serve, ServeDeploy, ServeRetrieve, CallRecords
    <2> QED
        BY <1>9, <2>1, <2>2
           DEF TypeOK, Serve, ServeDeploy, ServeRetrieve, CallRecords, page, history
<1>10. ASSUME NEW c \in Calls, RouteFails(c) PROVE TypeOK'
    <2>1. call' \in [Calls -> CallRecords]
        BY <1>10, AnswerType DEF RouteFails, AnswerAlone
    <2> QED
        BY <1>10, <2>1 DEF TypeOK, RouteFails, CallRecords, page, history
<1>11. ASSUME NEW c \in Calls, Lose(c) PROVE TypeOK'
    <2>1. [Idle EXCEPT !.at = "lost"] \in CallRecords
        BY DEF Idle, CallRecords
    <2>2. call' \in [Calls -> CallRecords]
        BY <1>11, <1>c, <2>1 DEF Lose
    <2>3. stray' \subseteq Lists
        BY <1>11, <1>c DEF TypeOK, Lose, CallRecords
    <2> QED
        BY <1>11, <2>2, <2>3 DEF TypeOK, Lose, CallRecords, page, history
<1>12. ASSUME NEW c \in Calls, Reply(c) PROVE TypeOK'
    <2>1. call' \in [Calls -> CallRecords]
        BY <1>12, <1>c DEF Reply
    <2>2. slots' \in Lists /\ loaded' \in BOOLEAN
        BY <1>12, <1>c DEF TypeOK, Reply, SetLoaded, CallRecords
    <2> QED
        BY <1>12, <2>1, <2>2 DEF TypeOK, Reply, CallRecords
<1>13. ASSUME NEW c \in Calls, ReplyGarbled(c) PROVE TypeOK'
    <2>1. call' \in [Calls -> CallRecords]
        BY <1>13, <1>c DEF ReplyGarbled
    <2> QED
        BY <1>13, <2>1 DEF TypeOK, ReplyGarbled, CallRecords, page, history
<1>14. ASSUME EiodStopsOrStarts PROVE TypeOK'
    BY <1>14 DEF TypeOK, EiodStopsOrStarts, page, history
<1>15. ASSUME NEW l \in Others, OtherDeploys(l) PROVE TypeOK'
    BY <1>15, WebUiAssumption DEF TypeOK, OtherDeploys, page
<1>16. ASSUME ServeStray PROVE TypeOK'
    BY <1>16 DEF TypeOK, ServeStray, page
<1>17. CASE UNCHANGED vars
    BY <1>17 DEF TypeOK, vars, page, history
<1> QED
    BY <1>1, <1>2, <1>3, <1>4, <1>5, <1>6, <1>7, <1>8, <1>9, <1>10, <1>11, <1>12, <1>13,
       <1>14, <1>15, <1>17, <1>16 DEF Next, CallStep

(* The page's list, its calls and the device's list stay what they are     *)
(* meant to be; an answer without a list never becomes the page's list.    *)
THEOREM PageTypeCorrect == Spec => []TypeOK
<1>1. ASSUME Init PROVE TypeOK
    <2>1. call \in [Calls -> CallRecords]
        BY <1>1, Constants DEF Init
    <2>2. curSlot \in Slots /\ clicks \in 0..MaxClicks /\ edits \in 0..MaxEdits
        BY <1>1, WebUiAssumption DEF Init, Slots
    <2>3. device \in Lists /\ reading \subseteq Files
        BY <1>1 DEF Init
    <2> QED
        BY <1>1, <2>1, <2>2, <2>3, Constants DEF Init, TypeOK, CallRecords
<1> QED
    BY <1>1, TypeStep, PTL DEF Spec

-----------------------------------------------------------------------------
(* Holes.  Until something is loaded the page shows what it has, and the   *)
(* slot in front of the one that is shown holds a module.                  *)
ChosenByHand ==
  ~loaded => view = slots /\ ~HasHole(slots) /\ TabEnabled(slots, curSlot)

(* Choosing or removing a module in such a slot makes no hole.             *)
LEMMA UpdateMakesNoHole ==
  ASSUME NEW l \in Lists, NEW i \in Slots, NEW m \in Modules \union {None},
         ~HasHole(l), TabEnabled(l, i)
  PROVE  ~HasHole(Update(l, i, m)) /\ TabEnabled(Update(l, i, m), i)
<1> DEFINE new == Update(l, i, m)
<1>1. \A j \in Slots : new[j] = IF j = i \/ (m = None /\ j > i) THEN m ELSE l[j]
    BY DEF Update
<1>2. \A a, b \in Slots : a < b /\ l[a] = None => l[b] = None
    BY DEF HasHole
<1>3. i > 1 => i - 1 \in Slots /\ l[i - 1] # None
    BY WebUiAssumption DEF TabEnabled, Slots
<1>4. ASSUME NEW a \in Slots, NEW b \in Slots, a < b, new[a] = None
      PROVE  new[b] = None
    <2>1. CASE m = None
        BY <1>1, <1>2, <1>4, <2>1 DEF Slots
    <2>2. CASE m # None
        <3>1. a # i /\ l[a] = None
            BY <1>1, <1>4, <2>2
        <3>2. b # i
            <4> SUFFICES ASSUME b = i PROVE FALSE
                OBVIOUS
            <4>1. i > 1 /\ a <= i - 1
                BY <1>4 DEF Slots
            <4>2. a = i - 1 \/ a < i - 1
                BY <4>1 DEF Slots
            <4> QED
                BY <1>2, <1>3, <3>1, <4>1, <4>2
        <3> QED
            BY <1>1, <1>2, <1>4, <2>2, <3>1, <3>2
    <2> QED
        BY <2>1, <2>2
<1>5. i > 1 => new[i - 1] # None
    BY <1>1, <1>3 DEF Slots
<1> QED
    BY <1>4, <1>5 DEF HasHole, TabEnabled

LEMMA HoleStep == TypeOK /\ ChosenByHand /\ [Next]_vars => ChosenByHand'
<1> SUFFICES ASSUME TypeOK, ChosenByHand, [Next]_vars, ~loaded' PROVE ChosenByHand'
    BY DEF ChosenByHand
<1>1. ASSUME NEW i \in Slots, SelectTab(i) PROVE ChosenByHand'
    BY <1>1 DEF ChosenByHand, SelectTab, history
<1>2. ASSUME NEW m \in (Modules \ Unreadable) \union {None}, UpdateSlot(m) PROVE ChosenByHand'
    <2>1. ~loaded /\ slots' = Update(slots, curSlot, m) /\ view' = slots' /\ curSlot' = curSlot
        BY <1>2 DEF UpdateSlot, ChosenByHand
    <2>2. ~HasHole(slots') /\ TabEnabled(slots', curSlot')
        BY <2>1, UpdateMakesNoHole DEF TypeOK, ChosenByHand
    <2> QED
        BY <2>1, <2>2 DEF ChosenByHand
<1>3. ASSUME Render PROVE ChosenByHand'
    BY <1>3 DEF ChosenByHand, Render, history
<1>4. ASSUME UNCHANGED <<page, loaded>> PROVE ChosenByHand'
    BY <1>4 DEF ChosenByHand, page
<1>5. ASSUME NEW c \in Calls, Reply(c) PROVE ChosenByHand'
    BY <1>5, <1>4 DEF Reply, SetLoaded, page
<1>6. ASSUME NEW c \in Calls, CallStep(c), ~Reply(c) PROVE ChosenByHand'
    BY <1>6, <1>4 DEF CallStep, Click, Serve, ServeDeploy, ServeRetrieve, RouteFails, Lose,
                      ReplyGarbled, history
<1>7. ~FileRead
    BY DEF FileRead, SetLoaded
<1>8. ASSUME \/ \E l \in Files : OpenFile(l)
             \/ FileMalformed
             \/ CloseAlert
             \/ ServeStray
             \/ EiodStopsOrStarts
             \/ \E l \in Others : OtherDeploys(l)
             \/ UNCHANGED vars
      PROVE ChosenByHand'
    BY <1>8, <1>4 DEF OpenFile, FileMalformed, CloseAlert, ServeStray, EiodStopsOrStarts,
                      OtherDeploys, vars, history
<1> QED
    BY <1>1, <1>2, <1>3, <1>5, <1>6, <1>7, <1>8 DEF Next

(* Only loading a list can bring a hole into the page's list.              *)
THEOREM ChoosingLeavesNoHole == Spec => []HolesOnlyAfterLoading
<1>1. Init => ChosenByHand
    BY DEF Init, ChosenByHand, HasHole, TabEnabled, Empty
<1>2. ChosenByHand => HolesOnlyAfterLoading
    BY DEF ChosenByHand, HolesOnlyAfterLoading
<1> QED
    BY <1>1, <1>2, HoleStep, PageTypeCorrect, PTL DEF Spec

-----------------------------------------------------------------------------
(* Success.  A call that is alone has shown nothing yet; what it carries is*)
(* the list of the page, what it brings is the list of the device.         *)
Alone ==
  \A c, d \in Calls : Outstanding(c) /\ Outstanding(d) => c = d

InFlight(c) ==
  /\ alert # "success" /\ call[c].op \in {"deploy", "retrieve"}
  /\ call[c].op = "deploy" /\ call[c].at = "sent" => call[c].list = slots
  /\ call[c].op = "deploy" /\ call[c].at = "ok" => device = slots
  /\ call[c].op = "retrieve" /\ call[c].at = "ok" => call[c].list = device

LastCallAlone ==
  quiet => /\ Alone
           /\ \A c \in Calls : Outstanding(c) => InFlight(c)
           /\ SuccessMeansInSync

LEMMA SuccessStep == TypeOK /\ LastCallAlone /\ [Next]_vars => LastCallAlone'
<1> SUFFICES ASSUME TypeOK, LastCallAlone, [Next]_vars, quiet' PROVE LastCallAlone'
    BY DEF LastCallAlone
<1> DEFINE Call == [op : {"none", "deploy", "retrieve"}, list : Lists,
                    at : {"idle", "sent", "ok", "error", "garbled", "lost"}]
<1>c. call \in [Calls -> Call]
    BY DEF TypeOK
<1>1. ASSUME UNCHANGED <<slots, call, device, quiet>>, alert' \in {alert, "none"}
      PROVE  LastCallAlone'
    BY <1>1 DEF LastCallAlone, Alone, InFlight, Outstanding, SuccessMeansInSync
<1>2. ASSUME NEW m \in (Modules \ Unreadable) \union {None}, UpdateSlot(m) PROVE FALSE
    BY <1>2 DEF UpdateSlot
<1>3. ASSUME FileRead PROVE FALSE
    BY <1>3 DEF FileRead
<1>4. ASSUME NEW l \in Files, OpenFile(l) PROVE FALSE
    BY <1>4 DEF OpenFile
<1>5. ASSUME NEW l \in Others, OtherDeploys(l) PROVE FALSE
    BY <1>5 DEF OtherDeploys
<1>9. ASSUME ServeStray PROVE FALSE
    BY <1>9 DEF ServeStray
<1>6. ASSUME \/ \E i \in Slots : SelectTab(i)
             \/ Render
             \/ FileMalformed
             \/ CloseAlert
             \/ EiodStopsOrStarts
             \/ UNCHANGED vars
      PROVE LastCallAlone'
    BY <1>6, <1>1 DEF SelectTab, Render, FileMalformed, CloseAlert, EiodStopsOrStarts, vars,
                      page, history
<1>7. ASSUME NEW c \in Calls, NEW op \in {"deploy", "retrieve"}, Click(c, op)
      PROVE  LastCallAlone'
    <2>1. /\ view = slots /\ slots' = slots /\ alert' = "none"
          /\ \A d \in Calls : ~Outstanding(d)
        BY <1>7 DEF Click, page
    <2>2. \A d \in Calls : d # c => call'[d] = call[d]
        BY <1>7, <1>c DEF Click
    <2>3. call'[c] = [op |-> op, at |-> "sent", list |-> IF op = "deploy" THEN view ELSE Empty]
        BY <1>7, <1>c DEF Click
    <2>4. \A d \in Calls : Outstanding(d)' => d = c
        BY <2>1, <2>2 DEF Outstanding
    <2>5. InFlight(c)'
        BY <2>1, <2>3 DEF InFlight
    <2> QED
        BY <2>1, <2>4, <2>5 DEF LastCallAlone, Alone, SuccessMeansInSync
<1>8. ASSUME NEW c \in Calls, Serve(c) \/ RouteFails(c) \/ Lose(c) \/ Reply(c) \/ ReplyGarbled(c)
      PROVE  LastCallAlone'
    <2>1. quiet /\ Outstanding(c) /\ InFlight(c)
        BY <1>8 DEF Serve, ServeDeploy, ServeRetrieve, RouteFails, Lose, Reply, ReplyGarbled,
                    history, Outstanding, LastCallAlone
    <2>2. \A d \in Calls : d # c => ~Outstanding(d) /\ call'[d] = call[d]
        BY <1>8, <1>c, <2>1 DEF LastCallAlone, Alone, Serve, ServeDeploy, ServeRetrieve,
             RouteFails, Lose, Reply, ReplyGarbled, AnswerAlone, Answer
    <2>3. \A d \in Calls : Outstanding(d)' => d = c
        BY <2>2 DEF Outstanding
    <2>4. ASSUME ~Outstanding(c)', alert' = "success" => device' = slots' \/ ~Readable(device')
          PROVE  LastCallAlone'
        BY <2>3, <2>4 DEF LastCallAlone, Alone, SuccessMeansInSync
    <2>5. ASSUME Outstanding(c)', InFlight(c)' PROVE LastCallAlone'
        BY <2>3, <2>5 DEF LastCallAlone, Alone, SuccessMeansInSync
    <2>6. CASE ServeDeploy(c)
        <3>1. UNCHANGED <<slots, alert>> /\ call'[c].op = "deploy"
              /\ call'[c].at \in {"ok", "error"} /\ (call'[c].at = "ok" => device' = slots)
            BY <2>6, <1>c, <2>1 DEF ServeDeploy, AnswerAlone, Answer, InFlight, page
        <3> QED
            BY <2>1, <2>5, <3>1 DEF InFlight, Outstanding
    <2>7. CASE ServeRetrieve(c)
        <3>1. UNCHANGED <<slots, alert, device>> /\ call'[c].op = "retrieve"
              /\ call'[c].at \in {"ok", "error"} /\ (call'[c].at = "ok" => call'[c].list = device)
            BY <2>7, <1>c DEF ServeRetrieve, AnswerAlone, Answer, page
        <3> QED
            BY <2>1, <2>5, <3>1 DEF InFlight, Outstanding
    <2>8. CASE RouteFails(c)
        <3>1. UNCHANGED <<slots, alert, device>> /\ call'[c].at = "garbled"
              /\ call'[c].op = call[c].op
            BY <2>8, <1>c DEF RouteFails, AnswerAlone, Answer, page
        <3> QED
            BY <2>1, <2>5, <3>1 DEF InFlight, Outstanding
    <2>9. CASE Lose(c)
        <3>1. UNCHANGED alert /\ call'[c].at = "lost"
            BY <2>9, <1>c DEF Lose, Idle
        <3> QED
            BY <2>1, <2>4, <3>1 DEF InFlight, Outstanding
    <2>10. CASE Reply(c)
        <3>1. call'[c].at = "idle" /\ UNCHANGED device
            BY <2>10, <1>c DEF Reply, Idle
        <3>2. call[c].op \in {"deploy", "retrieve"} => 
                (alert' = "success" => device' = slots' \/ ~Readable(device'))
            BY <2>10, <2>1, <3>1 DEF Reply, SetLoaded, InFlight
        <3>3. call[c].op # "none"
            BY <2>1 DEF InFlight
        <3> QED
            BY <1>c, <2>4, <3>1, <3>2, <3>3 DEF Outstanding
    <2>11. CASE ReplyGarbled(c)
        <3>1. call'[c].at = "idle" /\ alert' = "error"
            BY <2>11, <1>c DEF ReplyGarbled, Idle
        <3> QED
            BY <2>4, <3>1 DEF Outstanding
    <2> QED
        BY <1>8, <2>6, <2>7, <2>8, <2>9, <2>10, <2>11 DEF Serve
<1> QED
    BY <1>2, <1>3, <1>4, <1>5, <1>6, <1>7, <1>8, <1>9 DEF Next, CallStep

(* An alert that says success, with nothing else having happened since the *)
(* click, means that the device has the list of the page, or one of another*)
(* client that the page cannot read.                                       *)
THEOREM SuccessIsTrue == Spec => []SuccessMeansInSync
<1>1. Init => LastCallAlone
    BY DEF Init, LastCallAlone
<1>2. LastCallAlone => SuccessMeansInSync
    BY DEF LastCallAlone, SuccessMeansInSync
<1> QED
    BY <1>1, <1>2, SuccessStep, PageTypeCorrect, PTL DEF Spec
=============================================================================
