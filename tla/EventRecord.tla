----------------------------- MODULE EventRecord -----------------------------
(***************************************************************************)
(* The event recorder: iot2050-event-serve keeps the log in the journal    *)
(* behind a gRPC server with one worker; iot2050-event-record copies the   *)
(* events of the extended-IO controller (read through iot2050-eiod), the   *)
(* power-up of each boot and the sensor alarms into it.  Any of them may   *)
(* crash, systemd restarts some of them, and the device may reboot.        *)
(***************************************************************************)
EXTENDS Integers, Sequences, FiniteSets

CONSTANTS
  Lines,       \* lines of the controller's event file
  PowerLines,  \* those with "power" in them
  LossLines,   \* those with "power loss" in them
  Sensors,     \* RECORD_SENSOR_EVENTS is set
  BootTimes,   \* what psutil.boot_time() may return
  Faults,      \* what may go wrong
  MaxLines,    \* bound on how often one line happens
  MaxStirs,    \* bound on shakes and openings of the cover
  MaxMishaps,  \* bound on crashes
  MaxBoots     \* bound on boots

AllFaults == {"kill", "serve", "eiod", "late", "file", "dbus", "clock"}

ASSUME EventAssumption ==
  /\ LossLines \subseteq PowerLines /\ PowerLines \subseteq Lines
  /\ Sensors \in BOOLEAN /\ BootTimes # {} /\ Faults \subseteq AllFaults
  /\ {MaxLines, MaxStirs, MaxMishaps} \subseteq Nat /\ MaxBoots \in Nat \ {0}

(* Entries of the log: a controller line, a power-up (its text is the boot *)
(* time, which the kernel derives from the clock), an alarm of a sensor.   *)
LineText(l) == [kind |-> IF l \in PowerLines THEN "power" ELSE "eio", what |-> l]
UpText(b)   == [kind |-> "up", what |-> b]
Tilted      == [kind |-> "tilt", what |-> 0]
Uncovered   == [kind |-> "uncover", what |-> 0]
Texts == {LineText(l) : l \in Lines} \cup {UpText(b) : b \in BootTimes}
         \cup {Tilted, Uncovered}

(* The log entries of an event type: power-ups are of type "power".        *)
OfType(type) == {x \in Texts : x.kind = type \/ (type = "power" /\ x.kind = "up")}

Threads == {"main", "eio", "sensor"}

VARIABLES
  log,      \* how often each text is in the journal
  serve,    \* event-serve: "up" or "down"
  queue,    \* requests its only worker has not handled yet
  unit,     \* event-record: "active", "failed" (restart due), "inactive"
  pc,       \* where each of its threads is
  call,     \* each thread's RPC: "idle", "wait", "error"
  existed,  \* the last list of entries each thread was given
  todo,     \* lines each thread still has to write, with multiplicity
  hasEio,   \* the answer of is_eiod_servers_existed
  seen,     \* is_uncovered
  gaveUp,   \* auxiliary: threads with something left uncopied: eiod was not
            \* found or its file not read, or a call raised
  eiod,     \* "starting", "up", "dead"
  lines,    \* how often each line is in the controller's event file
  cover,    \* the cover is open
  shaken,   \* the device was moved since the last sample
  btime,    \* the boot time as it is computed now
  past,     \* auxiliary: every boot time there has been
  openings, stirs, mishaps, boots   \* what happened so far

recordVars == <<unit, pc, call, existed, todo, hasEio, seen, gaveUp>>
clockVars  == <<btime, past>>
worldVars  == <<eiod, lines, cover, shaken, openings, stirs, mishaps, boots, clockVars>>
vars == <<log, serve, queue, recordVars, worldVars>>

NoLines == [l \in Lines |-> 0]

Init ==
  /\ log = [x \in Texts |-> 0]
  /\ serve = "up" /\ queue = <<>>
  /\ unit = "active" /\ pc = [t \in Threads |-> IF t = "main" THEN "start" ELSE "off"]
  /\ call = [t \in Threads |-> "idle"] /\ existed = [t \in Threads |-> {}]
  /\ todo = [t \in Threads |-> NoLines] /\ hasEio = FALSE /\ seen = FALSE
  /\ gaveUp = {} /\ btime \in BootTimes /\ past = {btime}
  /\ eiod = "starting" /\ lines = NoLines /\ cover = FALSE /\ shaken = FALSE
  /\ openings = 0 /\ stirs = 0 /\ mishaps = 0 /\ boots = 1

At(t, l) == pc[t] = l /\ call[t] = "idle"
Goto(t, l) == pc' = [pc EXCEPT ![t] = l]

-----------------------------------------------------------------------------
(* event-serve: one worker handles the requests in the order of arrival.   *)
(* Mutant: the caller does not wait for the answer.                        *)
SendAsync(t, op, arg) ==
  IF serve = "up"
  THEN queue' = Append(queue, [from |-> t, op |-> op, arg |-> arg]) /\ UNCHANGED call
  ELSE call' = [call EXCEPT ![t] = "error"] /\ UNCHANGED queue

Send(t, op, arg) ==
  IF serve = "up"
  THEN /\ queue' = Append(queue, [from |-> t, op |-> op, arg |-> arg])
       /\ call' = [call EXCEPT ![t] = "wait"]
  ELSE call' = [call EXCEPT ![t] = "error"] /\ UNCHANGED queue

(* A thread leaves something uncopied until the process is started again.  *)
GiveUp(t) == gaveUp' = gaveUp \cup {t}

Quiet == UNCHANGED <<queue, call>>

Effect(r) == IF r.op = "write" THEN log' = [log EXCEPT ![r.arg] = @ + 1]
                               ELSE UNCHANGED log

(* The reply, unless the caller is gone ("orphan").                        *)
Answer(r) ==
  /\ call' = [t \in Threads |-> IF t = r.from THEN "idle" ELSE call[t]]
  /\ existed' = IF r.op = "read" /\ r.from \in Threads
                THEN [existed EXCEPT ![r.from] = {x \in OfType(r.arg) : log[x] > 0}]
                ELSE existed

(* Mutant: the server has several workers.                                 *)
HandleConcurrent ==
  /\ serve = "up" /\ queue # <<>>
  /\ \E i \in DOMAIN queue :
       /\ Effect(queue[i]) /\ Answer(queue[i])
       /\ queue' = SubSeq(queue, 1, i - 1) \o SubSeq(queue, i + 1, Len(queue))
  /\ UNCHANGED <<serve, unit, pc, todo, hasEio, seen, gaveUp, worldVars>>

Handle ==
  /\ serve = "up" /\ queue # <<>>
  /\ Effect(Head(queue)) /\ Answer(Head(queue))
  /\ queue' = Tail(queue)
  /\ UNCHANGED <<serve, unit, pc, todo, hasEio, seen, gaveUp, worldVars>>

-----------------------------------------------------------------------------
(* event_record(): the main thread.                                        *)
StartRecord ==
  /\ unit' = "active" /\ pc' = [t \in Threads |-> IF t = "main" THEN "start" ELSE "off"]
  /\ call' = [t \in Threads |-> "idle"] /\ existed' = [t \in Threads |-> {}]
  /\ todo' = [t \in Threads |-> NoLines] /\ hasEio' = FALSE /\ seen' = FALSE
  /\ gaveUp' = {}

(* The process is gone; requests already with the server stay there.       *)
EndRecord(state) ==
  /\ unit' = state /\ pc' = [t \in Threads |-> "off"]
  /\ call' = [t \in Threads |-> "idle"] /\ existed' = [t \in Threads |-> {}]
  /\ todo' = [t \in Threads |-> NoLines] /\ hasEio' = FALSE /\ seen' = FALSE
  /\ UNCHANGED gaveUp

Orphaned == [i \in DOMAIN queue |-> [queue[i] EXCEPT !.from = "orphan"]]

(* is_grpc_servers_ready, with its time-out: exit code 1.                  *)
WaitServe ==
  /\ At("main", "start")
  /\ \/ serve = "up" /\ Goto("main", "probe")
        /\ UNCHANGED <<unit, call, existed, todo, hasEio, seen, gaveUp>>
     \/ serve = "down" /\ EndRecord("failed")
  /\ UNCHANGED <<log, serve, queue, worldVars>>

(* is_eiod_servers_existed: only a server up within 15 s exists.           *)
ProbeEiod ==
  /\ At("main", "probe")
  /\ \/ eiod = "up" /\ hasEio' = TRUE /\ UNCHANGED gaveUp
     \/ /\ eiod = "dead" \/ (eiod = "starting" /\ "late" \in Faults)
        /\ hasEio' = FALSE /\ gaveUp' = {"main", "eio"}
  /\ Goto("main", "power")
  /\ UNCHANGED <<log, serve, queue, unit, call, existed, todo, seen, worldVars>>

ListPower ==
  /\ At("main", "power")
  /\ Send("main", "read", "power") /\ Goto("main", "up")
  /\ UNCHANGED <<log, serve, unit, existed, todo, hasEio, seen, gaveUp, worldVars>>

(* Mutant: the power-up is written without a look at the list.             *)
RecordUpAlways ==
  /\ At("main", "up")
  /\ Send("main", "write", UpText(btime))
  /\ Goto("main", "losses")
  /\ UNCHANGED <<log, serve, unit, existed, todo, hasEio, seen, gaveUp, worldVars>>

RecordUp ==
  /\ At("main", "up")
  /\ IF UpText(btime) \in existed["main"] THEN Quiet
                                          ELSE Send("main", "write", UpText(btime))
  /\ Goto("main", "losses")
  /\ UNCHANGED <<log, serve, unit, existed, todo, hasEio, seen, gaveUp, worldVars>>

(* Mutant: what is in the log already is written again.                    *)
NewLinesAll(t, wanted) == [l \in Lines |-> IF l \in wanted THEN lines[l] ELSE 0]

(* The lines of the file to be written: of the wanted sort, not in the list*)
(* read before.  The list is not refreshed while they are written.         *)
NewLines(t, wanted) ==
  [l \in Lines |-> IF l \in wanted /\ LineText(l) \notin existed[t] THEN lines[l] ELSE 0]

(* read_eio_event: eiod answers with the file, or with nothing when it     *)
(* cannot read it; an eiod that is gone raises.                            *)
Fetch(t, wanted) ==
  /\ eiod = "up"
  /\ \/ todo' = [todo EXCEPT ![t] = NewLines(t, wanted)]
     \/ "file" \in Faults /\ todo' = [todo EXCEPT ![t] = NoLines]

(* Mutant: lost power is looked for only when the power-up is new.         *)
FetchLossesOnce ==
  /\ At("main", "losses")
  /\ \/ /\ hasEio /\ UpText(btime) \notin existed["main"]
        /\ Fetch("main", LossLines) /\ Goto("main", "loss")
        /\ IF todo'["main"] = NewLines("main", LossLines) THEN UNCHANGED gaveUp
                                                         ELSE GiveUp("main")
     \/ /\ hasEio /\ UpText(btime) \in existed["main"]
        /\ Goto("main", "spawn") /\ UNCHANGED <<todo, gaveUp>>
     \/ /\ ~hasEio \/ eiod # "up"
        /\ GiveUp("main") /\ Goto("main", "spawn") /\ UNCHANGED todo
  /\ UNCHANGED <<log, serve, queue, unit, call, existed, hasEio, seen, worldVars>>

FetchLosses ==
  /\ At("main", "losses")
  /\ \/ /\ hasEio /\ Fetch("main", LossLines) /\ Goto("main", "loss")
        /\ IF todo'["main"] = NewLines("main", LossLines) THEN UNCHANGED gaveUp
                                                         ELSE GiveUp("main")
     \/ /\ ~hasEio \/ eiod # "up"
        /\ GiveUp("main") /\ Goto("main", "spawn") /\ UNCHANGED todo
  /\ UNCHANGED <<log, serve, queue, unit, call, existed, hasEio, seen, worldVars>>

(* One iteration of a loop over the lines; their order does not matter.    *)
WriteLine(t, from, done) ==
  /\ At(t, from)
  /\ \/ \E l \in Lines :
          /\ todo[t][l] > 0
          /\ todo' = [todo EXCEPT ![t][l] = @ - 1]
          /\ Send(t, "write", LineText(l)) /\ UNCHANGED pc
     \/ todo[t] = NoLines /\ Goto(t, done) /\ Quiet /\ UNCHANGED todo
  /\ UNCHANGED <<log, serve, unit, existed, hasEio, seen, gaveUp, worldVars>>

Spawn ==
  /\ At("main", "spawn")
  /\ pc' = [t \in Threads |-> CASE t = "main" -> "join"
              [] t = "eio" -> IF hasEio THEN "list" ELSE "off"
              [] t = "sensor" -> IF Sensors THEN "tilt" ELSE "off"]
  /\ UNCHANGED <<log, serve, queue, unit, call, existed, todo, hasEio, seen, gaveUp, worldVars>>

(* Both joins return when the threads have ended, however they ended, and  *)
(* the process exits with 0: not a failure for Restart=on-failure.         *)
Join ==
  /\ At("main", "join") /\ pc["eio"] = "off" /\ pc["sensor"] = "off"
  /\ EndRecord("inactive")
  /\ UNCHANGED <<log, serve, queue, worldVars>>

(* record_power_events catches the exception of a failed call; in the other*)
(* threads nobody does.                                                    *)
CallFails(t) ==
  /\ call[t] = "error" /\ call' = [call EXCEPT ![t] = "idle"]
  /\ Goto(t, IF t = "main" THEN "spawn" ELSE "off")
  /\ todo' = [todo EXCEPT ![t] = NoLines] /\ GiveUp(t)
  /\ UNCHANGED <<log, serve, queue, unit, existed, hasEio, seen, worldVars>>

-----------------------------------------------------------------------------
(* record_eio_events: every five seconds.                                  *)
ListEio ==
  /\ At("eio", "list")
  /\ Send("eio", "read", "eio") /\ Goto("eio", "fetch")
  /\ UNCHANGED <<log, serve, unit, existed, todo, hasEio, seen, gaveUp, worldVars>>

(* Mutant: the loop ends at the first round without new lines.             *)
FetchEioEnds ==
  /\ At("eio", "fetch")
  /\ \/ /\ Fetch("eio", Lines \ PowerLines)
        /\ Goto("eio", IF todo'["eio"] = NoLines THEN "off" ELSE "record")
        /\ UNCHANGED gaveUp
     \/ eiod # "up" /\ GiveUp("eio") /\ Goto("eio", "off") /\ UNCHANGED todo
  /\ UNCHANGED <<log, serve, queue, unit, call, existed, hasEio, seen, worldVars>>

FetchEio ==
  /\ At("eio", "fetch")
  /\ \/ Fetch("eio", Lines \ PowerLines) /\ Goto("eio", "record") /\ UNCHANGED gaveUp
     \/ eiod # "up" /\ GiveUp("eio") /\ Goto("eio", "off") /\ UNCHANGED todo
  /\ UNCHANGED <<log, serve, queue, unit, call, existed, hasEio, seen, worldVars>>

(* record_sensor_events: two samples of the acceleration, one of the light.*)
SampleTilt ==
  /\ At("sensor", "tilt") /\ Goto("sensor", "cover")
  /\ \/ shaken /\ Send("sensor", "write", Tilted)
     \/ Quiet
  /\ shaken' = FALSE
  /\ UNCHANGED <<log, serve, unit, existed, todo, hasEio, seen, gaveUp,
                 eiod, lines, cover, openings, stirs, mishaps, boots, clockVars>>

(* Mutant: an open cover is reported at every sample.                      *)
SampleCoverLevel ==
  /\ At("sensor", "cover") /\ Goto("sensor", "tilt")
  /\ seen' = cover
  /\ IF cover THEN Send("sensor", "write", Uncovered) ELSE Quiet
  /\ UNCHANGED <<log, serve, unit, existed, todo, hasEio, gaveUp, worldVars>>

SampleCover ==
  /\ At("sensor", "cover") /\ Goto("sensor", "tilt")
  /\ seen' = cover
  /\ IF cover /\ ~seen THEN Send("sensor", "write", Uncovered) ELSE Quiet
  /\ UNCHANGED <<log, serve, unit, existed, todo, hasEio, gaveUp, worldVars>>

(* The proximity service on the D-Bus does not answer.                     *)
SensorFails ==
  /\ "dbus" \in Faults /\ At("sensor", "cover") /\ Goto("sensor", "off")
  /\ UNCHANGED <<log, serve, queue, unit, call, existed, todo, hasEio, seen, gaveUp, worldVars>>

-----------------------------------------------------------------------------
(* systemd, crashes and the device.                                        *)
Mishap == /\ mishaps < MaxMishaps /\ mishaps' = mishaps + 1
          /\ UNCHANGED <<lines, cover, shaken, openings, stirs, boots, clockVars>>

Kill ==
  /\ "kill" \in Faults /\ unit = "active" /\ Mishap
  /\ EndRecord("failed") /\ queue' = Orphaned
  /\ UNCHANGED <<log, serve, eiod>>

RestartRecord ==
  /\ unit = "failed" /\ StartRecord
  /\ UNCHANGED <<log, serve, queue, worldVars>>

(* The request being handled may have taken effect; nobody is answered.    *)
ServeCrash ==
  /\ "serve" \in Faults /\ serve = "up" /\ Mishap
  /\ serve' = "down" /\ queue' = <<>>
  /\ UNCHANGED log \/ (queue # <<>> /\ Effect(Head(queue)))
  /\ call' = [t \in Threads |-> IF call[t] = "wait" THEN "error" ELSE call[t]]
  /\ UNCHANGED <<unit, pc, existed, todo, hasEio, seen, gaveUp, eiod>>

(* Restart=always; Requires= may restart an active event-record with it.   *)
ServeRestart ==
  /\ serve = "down" /\ serve' = "up"
  /\ \/ unit = "active" /\ StartRecord
     \/ UNCHANGED recordVars
  /\ UNCHANGED <<log, queue, worldVars>>

EiodReady ==
  /\ eiod = "starting" /\ eiod' = "up"
  /\ UNCHANGED <<log, serve, queue, recordVars, lines, cover, shaken,
                 openings, stirs, mishaps, boots, clockVars>>

(* iot2050-eiod.service has no Restart=.                                   *)
EiodCrash ==
  /\ "eiod" \in Faults /\ eiod # "dead" /\ Mishap /\ eiod' = "dead"
  /\ UNCHANGED <<log, serve, queue, recordVars>>

Boot ==
  /\ boots < MaxBoots /\ boots' = boots + 1
  /\ serve' = "up" /\ queue' = <<>> /\ StartRecord /\ eiod' = "starting"
  /\ btime' \in BootTimes /\ past' = past \cup {btime'}
  /\ UNCHANGED <<log, lines, cover, shaken, openings, stirs, mishaps>>

(* Someone sets the clock, NTP included: now minus the time since the boot *)
(* is another boot time, an earlier or a later one.                        *)
SetClock ==
  /\ "clock" \in Faults
  /\ btime' \in BootTimes \ {btime} /\ past' = past \cup {btime'}
  /\ UNCHANGED <<log, serve, queue, recordVars, eiod, lines, cover, shaken,
                 openings, stirs, mishaps, boots>>

Happen(l) ==
  /\ lines[l] < MaxLines /\ lines' = [lines EXCEPT ![l] = @ + 1]
  /\ UNCHANGED <<log, serve, queue, recordVars, eiod, cover, shaken,
                 openings, stirs, mishaps, boots, clockVars>>

Stir ==
  /\ Sensors /\ stirs < MaxStirs /\ stirs' = stirs + 1
  /\ \/ shaken' = TRUE /\ UNCHANGED <<cover, openings>>
     \/ /\ cover' = ~cover /\ UNCHANGED shaken
        /\ openings' = IF cover THEN openings ELSE openings + 1
  /\ UNCHANGED <<log, serve, queue, recordVars, eiod, lines, mishaps, boots, clockVars>>

Main == \/ WaitServe \/ ProbeEiod \/ ListPower \/ RecordUp \/ FetchLosses
        \/ WriteLine("main", "loss", "spawn") \/ CallFails("main") \/ Spawn \/ Join
Eio == ListEio \/ FetchEio \/ WriteLine("eio", "record", "list") \/ CallFails("eio")
Sensor == SampleTilt \/ SampleCover \/ SensorFails \/ CallFails("sensor")

Next ==
  \/ Main \/ Eio \/ Sensor \/ Handle
  \/ Kill \/ RestartRecord \/ ServeCrash \/ ServeRestart
  \/ EiodReady \/ EiodCrash \/ Boot \/ SetClock
  \/ (\E l \in Lines : Happen(l)) \/ Stir

Spec == Init /\ [][Next]_vars

(* The copying threads and the server are scheduled (the sensor thread may *)
(* be or not), systemd performs the restarts, and a file that can be read  *)
(* again and again is read at some time.                                   *)
FairSpec ==
  /\ Spec /\ WF_vars(Main) /\ WF_vars(Eio) /\ WF_vars(Handle)
  /\ WF_vars(RestartRecord) /\ WF_vars(ServeRestart) /\ WF_vars(EiodReady)
  /\ \A l \in Lines \ PowerLines : SF_vars(FetchEio /\ todo'["eio"][l] > 0)

-----------------------------------------------------------------------------
Requests == [from : Threads \cup {"orphan"}, op : {"read"}, arg : {"power", "eio"}]
            \cup [from : Threads \cup {"orphan"}, op : {"write"}, arg : Texts]

(* The states of both services; a thread that waits has exactly one request*)
(* with the server, and no other thread has one.                           *)
TypeOK ==
  /\ log \in [Texts -> Nat]
  /\ serve \in {"up", "down"} /\ unit \in {"active", "failed", "inactive"}
  /\ queue \in Seq(Requests)
  /\ pc \in [Threads -> {"off", "start", "probe", "power", "up", "losses", "loss",
               "spawn", "join", "list", "fetch", "record", "tilt", "cover"}]
  /\ call \in [Threads -> {"idle", "wait", "error"}]
  /\ existed \in [Threads -> SUBSET Texts]
  /\ todo \in [Threads -> [Lines -> Nat]] /\ lines \in [Lines -> Nat]
  /\ {hasEio, seen, cover, shaken} \subseteq BOOLEAN
  /\ eiod \in {"starting", "up", "dead"}
  /\ btime \in BootTimes /\ past \subseteq BootTimes /\ gaveUp \subseteq Threads
  /\ {openings, stirs, mishaps} \subseteq Nat /\ boots \in 1..MaxBoots
  /\ \A t \in Threads : (call[t] = "wait") =>
       \E i \in DOMAIN queue : queue[i].from = t
  /\ \A i \in DOMAIN queue : queue[i].from \in Threads => call[queue[i].from] = "wait"
  /\ \A i, j \in DOMAIN queue : queue[i].from = queue[j].from /\ i # j =>
       queue[i].from = "orphan"

(* No event of the controller is in the log more often than it happened,   *)
(* although the copying is restarted at any point, also between a write    *)
(* and its reply, and although equal lines are told apart by nothing.      *)
NoMoreThanHappened == \A l \in Lines : log[LineText(l)] <= lines[l]

(* A power-up text is recorded once at most, however often the recorder and*)
(* the server restart, and only if it was the boot time at some moment: a  *)
(* boot gets a second entry only by the clock being set, one for each time.*)
OnePowerUpPerBootTime ==
  \A b \in BootTimes : log[UpText(b)] <= IF b \in past THEN 1 ELSE 0

(* An opening of the cover is reported once, not at every sample; only a   *)
(* restart of the recorder reports a cover again that is still open.       *)
UncoveredOncePerOpening == log[Uncovered] <= openings + mishaps + boots - 1

(* An event of the controller that is neither a power-up nor a power loss  *)
(* is recorded sooner or later, unless the copying thread was not started  *)
(* for want of eiod or an exception ended it: kills, restarts, reads that  *)
(* fail and rounds without anything new do not lose it.                    *)
EioRecorded ==
  \A l \in Lines \ PowerLines : lines[l] > 0 ~> log[LineText(l)] > 0 \/ "eio" \in gaveUp

(* A power loss the controller knows of when the recorder starts is        *)
(* recorded, also when the recorder is killed on the way, unless eiod was  *)
(* not there, its file was not read, or a call to event-serve raised.      *)
LossRecorded ==
  \A l \in LossLines :
    lines[l] > 0 /\ pc["main"] = "start" ~> log[LineText(l)] > 0 \/ "main" \in gaveUp

Log == INSTANCE EventLog WITH
         Event <- Lines, happened <- lines,
         recorded <- [l \in Lines |-> log[LineText(l)]]

(* The services implement the promise of EventLog.                         *)
ImplementsEventLog == Log!Spec
=============================================================================
