-------------------------------- MODULE WebUi --------------------------------
(***************************************************************************)
(* The configuration page of the extended-IO web UI: the list of slots, its*)
(* tabs, and the calls that deploy the list to the device or retrieve it   *)
(* from there, through the routes of the web server and the gRPC server    *)
(* eiod.  What a slot holds is one of a few values; SlotPanel has the      *)
(* pages, EioManager has eiod.                                             *)
(*                                                                         *)
(* The handlers of the page see the list of the last rendering, "view", and*)
(* edit it in place.                                                       *)
(***************************************************************************)
EXTENDS Integers, Sequences, FiniteSets

CONSTANTS
  NSlots,       \* 6 in the code
  Modules,      \* configured modules
  Refused,      \* those the schemas of eiod refuse
  Unreadable,   \* those of other clients that importYamlConfig throws on
  None,         \* an empty slot
  Calls,        \* calls that may be outstanding at the same time
  Files,        \* lists a file may hold
  Others,       \* lists another client deploys
  MaxClicks,    \* bound on the calls
  MaxEdits      \* bound on the edits

Slots == 1..NSlots
Lists == [Slots -> Modules \union {None}]

ASSUME WebUiAssumption ==
  /\ NSlots \in Nat \ {0} /\ None \notin Modules
  /\ Refused \union Unreadable \subseteq Modules /\ Files \subseteq Lists /\ Others \subseteq Lists
  /\ MaxClicks \in Nat /\ MaxEdits \in Nat

VARIABLES
  slots,     \* configs: the list the page has set last
  view,      \* the list of the last rendering
  curSlot,   \* the tab that is shown
  alert,     \* resultFromIoT: "none", "success" or "error"
  call,      \* per call: what was asked, and where it is
  reading,   \* files being read
  stray,     \* lists of deployments that the page has given up on
  device,    \* the list eiod has written to the device
  eiod,      \* "up" or "down"
  quiet,     \* history: nothing but the last call happened since its click
  loaded,    \* history: the page's list was ever loaded
  clicks, edits

page == <<slots, view, curSlot>>
history == <<quiet, loaded, clicks, edits>>
vars == <<page, alert, call, reading, stray, device, eiod, history>>

Empty == [i \in Slots |-> None]
Idle == [op |-> "none", at |-> "idle", list |-> Empty]

(* A module behind an empty slot.                                          *)
HasHole(l) == \E i, j \in Slots : i < j /\ l[i] = None /\ l[j] # None

(* The schemas, and the hole check of validate_semantic.                   *)
Accepted(l) == ~HasHole(l) /\ \A i \in Slots : l[i] \notin Refused

(* importYamlConfig throws where channels are missing that eiod does not   *)
(* ask for.                                                                *)
Readable(l) == \A i \in Slots : l[i] \notin Unreadable

Init ==
  /\ slots = Empty /\ view = Empty /\ curSlot = 1
  /\ alert = "none" /\ call = [c \in Calls |-> Idle] /\ reading = {}
  /\ stray = {} /\ device \in {l \in Lists : Accepted(l)} /\ eiod = "up"
  /\ quiet = FALSE /\ loaded = FALSE /\ clicks = 0 /\ edits = 0

-----------------------------------------------------------------------------
(* slotDisabledProps.                                                      *)
TabEnabled(l, i) == i > 1 => l[i - 1] # None

SelectTab(i) ==
  /\ TabEnabled(view, i) /\ i # curSlot
  /\ curSlot' = i
  /\ UNCHANGED <<slots, view, alert, call, reading, stray, device, eiod, history>>

(* Mutant: the slots behind an emptied one are kept.                       *)
UpdateAlone(l, i, m) == [l EXCEPT ![i] = m]

(* Emptying a slot empties those behind it.                                *)
Update(l, i, m) == [j \in Slots |-> IF j = i \/ (m = None /\ j > i) THEN m ELSE l[j]]

(* updateSlot, for a module chosen or a setting changed in the slot shown. *)
UpdateSlot(m) ==
  /\ edits < MaxEdits /\ edits' = edits + 1
  /\ slots' = Update(view, curSlot, m) /\ view' = slots'
  /\ quiet' = FALSE
  /\ UNCHANGED <<curSlot, alert, call, reading, stray, device, eiod, loaded, clicks>>

Render ==
  /\ view # slots
  /\ view' = slots
  /\ UNCHANGED <<slots, curSlot, alert, call, reading, stray, device, eiod, history>>

(* setConfigs(importYamlConfig(...)).                                      *)
SetLoaded(l) == slots' = l /\ loaded' = TRUE

(* importConfFile and handleFileChange; the file is read in the background.*)
OpenFile(l) ==
  /\ reading = {}
  /\ reading' = {l} /\ quiet' = FALSE
  /\ UNCHANGED <<page, alert, call, stray, device, eiod, loaded, clicks, edits>>

FileRead ==
  /\ \E l \in reading : Readable(l) /\ SetLoaded(l)
  /\ reading' = {} /\ quiet' = FALSE
  /\ UNCHANGED <<view, curSlot, alert, call, stray, device, eiod, clicks, edits>>

(* YAML.parse or importYamlConfig throws.                                  *)
FileMalformed ==
  /\ reading # {} /\ reading' = {}
  /\ UNCHANGED <<page, alert, call, stray, device, eiod, history>>

CloseAlert ==
  /\ alert # "none" /\ alert' = "none"
  /\ UNCHANGED <<page, call, reading, stray, device, eiod, history>>

-----------------------------------------------------------------------------
Outstanding(c) == call[c].at \in {"sent", "ok", "error", "garbled"}

(* Mutant: the alert of the call before stays.                             *)
ClickQuietly(c, op) ==
  /\ clicks < MaxClicks /\ ~Outstanding(c)
  /\ call' = [call EXCEPT ![c] =
                [op |-> op, at |-> "sent", list |-> IF op = "deploy" THEN view ELSE Empty]]
  /\ quiet' = (view = slots /\ reading = {} /\ \A d \in Calls : ~Outstanding(d))
  /\ clicks' = clicks + 1
  /\ UNCHANGED <<page, alert, reading, stray, device, eiod, loaded, edits>>

(* deployConfToIOT and retrieveConfFromIOT up to the fetch.                *)
Click(c, op) ==
  /\ clicks < MaxClicks /\ ~Outstanding(c)
  /\ alert' = "none"
  /\ call' = [call EXCEPT ![c] =
                [op |-> op, at |-> "sent", list |-> IF op = "deploy" THEN view ELSE Empty]]
  /\ quiet' = (view = slots /\ reading = {} /\ \A d \in Calls : ~Outstanding(d))
  /\ clicks' = clicks + 1
  /\ UNCHANGED <<page, reading, stray, device, eiod, loaded, edits>>

Answer(c, at, list) == call' = [call EXCEPT ![c].at = at, ![c].list = list]
AnswerAlone(c, at) == Answer(c, at, Empty)

(* The route of the web server, and eiod: the list may be refused, the     *)
(* controller's files may fail, eiod may be down, or end before it answers.*)
ServeDeploy(c) ==
  /\ call[c].op = "deploy" /\ call[c].at = "sent"
  /\ \/ /\ eiod = "up" /\ Accepted(call[c].list)
        /\ device' = call[c].list /\ \E at \in {"ok", "error"} : AnswerAlone(c, at)
     \/ UNCHANGED device /\ AnswerAlone(c, "error")
  /\ UNCHANGED <<page, alert, reading, stray, eiod, history>>

ServeRetrieve(c) ==
  /\ call[c].op = "retrieve" /\ call[c].at = "sent"
  /\ \/ eiod = "up" /\ Answer(c, "ok", device)
     \/ AnswerAlone(c, "error")
  /\ UNCHANGED <<page, alert, reading, stray, device, eiod, history>>

Serve(c) == ServeDeploy(c) \/ ServeRetrieve(c)

(* The route itself fails, and answers with something that is no JSON.     *)
RouteFails(c) ==
  /\ call[c].at = "sent" /\ AnswerAlone(c, "garbled")
  /\ UNCHANGED <<page, alert, reading, stray, device, eiod, history>>

(* fetch rejects, before or after the server has acted; nothing handles it.*)
(* A deployment that is under way then is on its way still.                *)
Lose(c) ==
  /\ Outstanding(c)
  /\ call' = [call EXCEPT ![c] = [Idle EXCEPT !.at = "lost"]]
  /\ stray' = IF call[c].op = "deploy" /\ call[c].at = "sent" THEN stray \union {call[c].list}
                                                             ELSE stray
  /\ UNCHANGED <<page, alert, reading, device, eiod, history>>

(* It gets there, or never does.                                           *)
ServeStray ==
  /\ \E l \in stray :
       /\ stray' = stray \ {l}
       /\ \/ eiod = "up" /\ Accepted(l) /\ device' = l
          \/ UNCHANGED device
  /\ quiet' = FALSE
  /\ UNCHANGED <<page, alert, call, reading, eiod, loaded, clicks, edits>>

(* Mutant: what comes without a list is loaded as a list without slots.    *)
ReplyLoadsNothing(c) ==
  /\ call[c].at \in {"ok", "error"}
  /\ alert' = IF call[c].at = "ok" THEN "success" ELSE "error"
  /\ call' = [call EXCEPT ![c] = Idle]
  /\ IF call[c].op = "retrieve" THEN SetLoaded(IF call[c].at = "ok" THEN call[c].list ELSE <<>>)
                                ELSE UNCHANGED <<slots, loaded>>
  /\ UNCHANGED <<view, curSlot, reading, stray, device, eiod, quiet, clicks, edits>>

(* The handlers of response.json(): the alert says what came, and then the *)
(* list of a retrieval replaces the page's, unless importYamlConfig throws,*)
(* as it does when no list came.                                           *)
Reply(c) ==
  /\ call[c].at \in {"ok", "error"}
  /\ alert' = IF call[c].at = "ok" THEN "success" ELSE "error"
  /\ call' = [call EXCEPT ![c] = Idle]
  /\ IF call[c].op = "retrieve" /\ call[c].at = "ok" /\ Readable(call[c].list)
     THEN SetLoaded(call[c].list) ELSE UNCHANGED <<slots, loaded>>
  /\ UNCHANGED <<view, curSlot, reading, stray, device, eiod, quiet, clicks, edits>>

(* Mutant: nothing is said.                                                *)
ReplyGarbledSilently(c) ==
  /\ call[c].at = "garbled"
  /\ call' = [call EXCEPT ![c] = Idle]
  /\ UNCHANGED <<page, alert, reading, stray, device, eiod, history>>

ReplyGarbled(c) ==
  /\ call[c].at = "garbled"
  /\ alert' = "error" /\ call' = [call EXCEPT ![c] = Idle]
  /\ UNCHANGED <<page, reading, stray, device, eiod, history>>

-----------------------------------------------------------------------------
(* eiod ends and is started again; another client deploys a list.          *)
EiodStopsOrStarts ==
  /\ eiod' = IF eiod = "up" THEN "down" ELSE "up"
  /\ UNCHANGED <<page, alert, call, reading, stray, device, history>>

OtherDeploys(l) ==
  /\ eiod = "up" /\ Accepted(l)
  /\ device' = l /\ quiet' = FALSE
  /\ UNCHANGED <<page, alert, call, reading, stray, eiod, loaded, clicks, edits>>

CallStep(c) ==
  \/ \E op \in {"deploy", "retrieve"} : Click(c, op)
  \/ Serve(c)
  \/ RouteFails(c)
  \/ Lose(c)
  \/ Reply(c)
  \/ ReplyGarbled(c)

Next ==
  \/ \E i \in Slots : SelectTab(i)
  \/ \E m \in (Modules \ Unreadable) \union {None} : UpdateSlot(m)
  \/ Render
  \/ \E l \in Files : OpenFile(l)
  \/ FileRead
  \/ FileMalformed
  \/ CloseAlert
  \/ \E c \in Calls : CallStep(c)
  \/ ServeStray
  \/ EiodStopsOrStarts
  \/ \E l \in Others : OtherDeploys(l)

Spec == Init /\ [][Next]_vars

(* The server answers what reaches it, the browser handles what comes back.*)
Fairness == \A c \in Calls : WF_vars(Serve(c) \/ Reply(c) \/ ReplyGarbled(c))

FairSpec == Spec /\ Fairness

-----------------------------------------------------------------------------
TypeOK ==
  /\ slots \in Lists /\ view \in Lists /\ device \in Lists
  /\ curSlot \in Slots /\ alert \in {"none", "success", "error"}
  /\ call \in [Calls -> [op : {"none", "deploy", "retrieve"}, list : Lists,
                         at : {"idle", "sent", "ok", "error", "garbled", "lost"}]]
  /\ reading \subseteq Files /\ stray \subseteq Lists
  /\ eiod \in {"up", "down"} /\ quiet \in BOOLEAN /\ loaded \in BOOLEAN
  /\ clicks \in 0..MaxClicks /\ edits \in 0..MaxEdits

(* Until something is loaded, choosing modules never leaves a hole, which  *)
(* eiod would refuse: a tab opens only behind a module, and emptying a slot*)
(* closes the tabs behind it.  (Afterwards the tab that is shown may be one*)
(* that is disabled, and a module may be chosen there.)                    *)
HolesOnlyAfterLoading == HasHole(slots) => loaded

(* When the alert says that the last call succeeded and nothing else has   *)
(* happened since its click, the device has the list of the page.  Only a  *)
(* list of another client that the page cannot read is said to be retrieved*)
(* and is not.                                                             *)
SuccessMeansInSync ==
  alert = "success" /\ quiet /\ (\A c \in Calls : ~Outstanding(c)) =>
    device = slots \/ ~Readable(device)

(* Whatever the server answers, the user is told, unless the connection    *)
(* breaks.                                                                 *)
Answered == \A c \in Calls : call[c].at = "sent" ~> (alert # "none" \/ call[c].at = "lost")
=============================================================================
