-------------------------- MODULE EventRecordProofs --------------------------
(***************************************************************************)
(* Proofs about EventRecord, for any lines, any faults and any number of   *)
(* events, crashes and boots.                                              *)
(***************************************************************************)
EXTENDS EventRecord, SequenceTheorems, FiniteSetTheorems, TLAPS

-----------------------------------------------------------------------------
(* The texts of the log.                                                   *)
LEMMA LineTexts ==
  ASSUME NEW l \in Lines
  PROVE  /\ LineText(l) \in Texts /\ LineText(l).what = l
         /\ LineText(l).kind = IF l \in PowerLines THEN "power" ELSE "eio"
BY DEF LineText, Texts

LEMMA UpTexts ==
  ASSUME NEW b
  PROVE  /\ UpText(b).kind = "up" /\ UpText(b).what = b
         /\ b \in BootTimes => UpText(b) \in Texts
BY DEF UpText, Texts

LEMMA AlarmTexts ==
  /\ Tilted \in Texts /\ Uncovered \in Texts
  /\ Tilted.kind = "tilt" /\ Uncovered.kind = "uncover"
BY DEF Tilted, Uncovered, Texts

LEMMA Bounds ==
  /\ LossLines \subseteq PowerLines /\ PowerLines \subseteq Lines
  /\ MaxBoots \in Nat
BY EventAssumption

-----------------------------------------------------------------------------
(* Requests, and the queue they wait in.                                   *)
Request(t, op, arg) == [from |-> t, op |-> op, arg |-> arg]

LEMMA ReadRequest ==
  ASSUME NEW t \in Threads, NEW type \in {"power", "eio"}
  PROVE  Request(t, "read", type) \in Requests
BY DEF Request, Requests

LEMMA WriteRequest ==
  ASSUME NEW t \in Threads, NEW x \in Texts
  PROVE  Request(t, "write", x) \in Requests
BY DEF Request, Requests

LEMMA RequestParts ==
  ASSUME NEW r \in Requests
  PROVE  /\ r.from \in Threads \cup {"orphan"} /\ r.op \in {"read", "write"}
         /\ r.op = "write" => r.arg \in Texts
         /\ r.op = "read" => r.arg \in {"power", "eio"}
BY DEF Requests

LEMMA Appended ==
  ASSUME NEW q \in Seq(Requests), NEW r \in Requests
  PROVE  /\ Append(q, r) \in Seq(Requests)
         /\ \A i \in DOMAIN q : i \in DOMAIN Append(q, r) /\ Append(q, r)[i] = q[i]
         /\ Len(q) + 1 \in DOMAIN Append(q, r) /\ Append(q, r)[Len(q) + 1] = r
         /\ \A i \in DOMAIN Append(q, r) : i \in DOMAIN q \/ i = Len(q) + 1
         /\ \A i \in DOMAIN q : i < Len(q) + 1
         /\ Len(q) + 1 \notin DOMAIN q
<1>1. /\ Append(q, r) \in Seq(Requests) /\ Len(Append(q, r)) = Len(q) + 1
      /\ \A i \in 1..Len(q) : Append(q, r)[i] = q[i]
      /\ Append(q, r)[Len(q) + 1] = r
    BY AppendProperties
<1>2. DOMAIN q = 1..Len(q) /\ DOMAIN Append(q, r) = 1..(Len(q) + 1) /\ Len(q) \in Nat
    BY <1>1
<1> QED
    BY <1>1, <1>2

LEMMA Removed ==
  ASSUME NEW q \in Seq(Requests), q # <<>>
  PROVE  /\ Tail(q) \in Seq(Requests) /\ Head(q) \in Requests
         /\ 1 \in DOMAIN q /\ Head(q) = q[1]
         /\ \A i \in DOMAIN Tail(q) :
              i \in Int /\ i + 1 \in DOMAIN q /\ i + 1 # 1 /\ Tail(q)[i] = q[i + 1]
         /\ \A i \in DOMAIN q : i # 1 =>
              i \in Int /\ i > 1 /\ i - 1 \in DOMAIN Tail(q) /\ Tail(q)[i - 1] = q[i]
<1>1. /\ Head(q) \in Requests /\ Head(q) = q[1]
      /\ Tail(q) \in Seq(Requests) /\ Len(Tail(q)) = Len(q) - 1
      /\ \A i \in 1..Len(Tail(q)) : Tail(q)[i] = q[i + 1]
    BY HeadTailProperties
<1>2. DOMAIN q = 1..Len(q) /\ DOMAIN Tail(q) = 1..(Len(q) - 1) /\ Len(q) \in Nat \ {0}
    BY <1>1, EmptySeq
<1>3. \A i \in DOMAIN q : i # 1 => i - 1 \in 1..Len(Tail(q)) /\ (i - 1) + 1 = i
    BY <1>1, <1>2
<1> QED
    BY <1>1, <1>2, <1>3

LEMMA AllOrphans ==
  ASSUME queue \in Seq(Requests)
  PROVE  /\ Orphaned \in Seq(Requests) /\ DOMAIN Orphaned = DOMAIN queue
         /\ \A i \in DOMAIN queue : /\ Orphaned[i].from = "orphan"
                                    /\ Orphaned[i].op = queue[i].op
                                    /\ Orphaned[i].arg = queue[i].arg
<1>1. DOMAIN queue = 1..Len(queue) /\ Len(queue) \in Nat
    OBVIOUS
<1>2. \A i \in 1..Len(queue) : queue[i] \in Requests
    OBVIOUS
<1>3. ASSUME NEW r \in Requests
      PROVE  /\ [r EXCEPT !.from = "orphan"] \in Requests
             /\ [r EXCEPT !.from = "orphan"].from = "orphan"
             /\ [r EXCEPT !.from = "orphan"].op = r.op
             /\ [r EXCEPT !.from = "orphan"].arg = r.arg
    BY DEF Requests
<1>4. Orphaned = [i \in 1..Len(queue) |-> [queue[i] EXCEPT !.from = "orphan"]]
    BY <1>1 DEF Orphaned
<1>5. \A i \in 1..Len(queue) : Orphaned[i] \in Requests
    BY <1>2, <1>3, <1>4
<1>6. Orphaned \in [1..Len(queue) -> Requests]
    BY <1>4, <1>5
<1>7. Orphaned \in Seq(Requests)
    BY <1>1, <1>6, SeqDef
<1>8. \A i \in 1..Len(queue) : /\ Orphaned[i].from = "orphan"
                               /\ Orphaned[i].op = queue[i].op
                               /\ Orphaned[i].arg = queue[i].arg
    BY <1>2, <1>3, <1>4
<1> QED
    BY <1>1, <1>4, <1>7, <1>8

-----------------------------------------------------------------------------
(* The queue and the calls that wait for it.                               *)
QueueInv ==
  /\ serve \in {"up", "down"} /\ queue \in Seq(Requests)
  /\ call \in [Threads -> {"idle", "wait", "error"}]
  /\ \A t \in Threads : call[t] = "wait" => \E i \in DOMAIN queue : queue[i].from = t
  /\ \A i \in DOMAIN queue : queue[i].from \in Threads => call[queue[i].from] = "wait"
  /\ \A i, j \in DOMAIN queue :
       queue[i].from = queue[j].from /\ i # j => queue[i].from = "orphan"
  /\ serve = "down" => queue = <<>>

LEMMA SendQueue ==
  ASSUME QueueInv, NEW t \in Threads, call[t] = "idle", NEW op, NEW arg,
         Request(t, op, arg) \in Requests, Send(t, op, arg), serve' = serve
  PROVE  QueueInv'
<1> DEFINE r == Request(t, op, arg)
<1>0. r.from = t /\ t # "orphan"
    BY DEF Request, Threads
<1>1. CASE serve # "up"
    BY <1>1 DEF Send, QueueInv
<1>2. CASE serve = "up"
    <2>1. queue' = Append(queue, r) /\ call' = [call EXCEPT ![t] = "wait"]
        BY <1>2 DEF Send, Request
    <2> HIDE DEF r
    <2>2. queue \in Seq(Requests)
        BY DEF QueueInv
    <2>3. /\ queue' \in Seq(Requests)
          /\ \A i \in DOMAIN queue : i \in DOMAIN queue' /\ queue'[i] = queue[i]
          /\ Len(queue) + 1 \in DOMAIN queue' /\ queue'[Len(queue) + 1] = r
          /\ \A i \in DOMAIN queue' : i \in DOMAIN queue \/ i = Len(queue) + 1
        BY <2>1, <2>2, Appended DEF r
    <2>4. \A i \in DOMAIN queue : queue[i].from # t
        BY DEF QueueInv
    <2>5. call' \in [Threads -> {"idle", "wait", "error"}]
        BY <2>1 DEF QueueInv
    <2>6. \A u \in Threads : call'[u] = "wait" => \E i \in DOMAIN queue' : queue'[i].from = u
        <3> SUFFICES ASSUME NEW u \in Threads, call'[u] = "wait"
                     PROVE  \E i \in DOMAIN queue' : queue'[i].from = u
            OBVIOUS
        <3>1. CASE u = t
            BY <1>0, <2>3, <3>1
        <3>2. CASE u # t
            <4>1. call[u] = "wait"
                BY <2>1, <3>2 DEF QueueInv
            <4>2. PICK i \in DOMAIN queue : queue[i].from = u
                BY <4>1 DEF QueueInv
            <4> QED
                BY <2>3, <4>2
        <3> QED
            BY <3>1, <3>2
    <2>7. \A i \in DOMAIN queue' : queue'[i].from \in Threads => call'[queue'[i].from] = "wait"
        BY <1>0, <2>1, <2>3, <2>4 DEF QueueInv
    <2>8. \A i, j \in DOMAIN queue' :
            queue'[i].from = queue'[j].from /\ i # j => queue'[i].from = "orphan"
        BY <1>0, <2>3, <2>4 DEF QueueInv
    <2> QED
        BY <1>2, <2>3, <2>5, <2>6, <2>7, <2>8 DEF QueueInv
<1> QED
    BY <1>1, <1>2

LEMMA HandleQueue ==
  ASSUME QueueInv, queue # <<>>, Answer(Head(queue)), queue' = Tail(queue), serve' = serve,
         serve = "up"
  PROVE  QueueInv'
<1> DEFINE r == Head(queue)
<1>1. call' = [t \in Threads |-> IF t = r.from THEN "idle" ELSE call[t]]
    BY DEF Answer
<1> HIDE DEF r
<1>2. queue \in Seq(Requests)
    BY DEF QueueInv
<1>3. /\ queue' \in Seq(Requests)
      /\ 1 \in DOMAIN queue /\ r = queue[1]
      /\ \A i \in DOMAIN queue' : i \in Int /\ i + 1 \in DOMAIN queue /\ i + 1 # 1 /\ queue'[i] = queue[i + 1]
      /\ \A i \in DOMAIN queue : i # 1 =>
           i \in Int /\ i > 1 /\ i - 1 \in DOMAIN queue' /\ queue'[i - 1] = queue[i]
    BY <1>2, Removed DEF r
<1>4. call' \in [Threads -> {"idle", "wait", "error"}]
    BY <1>1 DEF QueueInv
<1>5. \A t \in Threads : call'[t] = "wait" => \E i \in DOMAIN queue' : queue'[i].from = t
    <2> SUFFICES ASSUME NEW t \in Threads, call'[t] = "wait"
                 PROVE  \E i \in DOMAIN queue' : queue'[i].from = t
        OBVIOUS
    <2>1. call[t] = "wait" /\ t # r.from
        BY <1>1
    <2>2. PICK i \in DOMAIN queue : queue[i].from = t
        BY <2>1 DEF QueueInv
    <2>3. i # 1
        BY <1>3, <2>1, <2>2
    <2> QED
        BY <1>3, <2>2, <2>3
<1>6. \A i \in DOMAIN queue' : queue'[i].from \in Threads => call'[queue'[i].from] = "wait"
    <2> SUFFICES ASSUME NEW i \in DOMAIN queue', queue'[i].from \in Threads
                 PROVE  call'[queue'[i].from] = "wait"
        OBVIOUS
    <2>1. i + 1 \in DOMAIN queue /\ i + 1 # 1 /\ queue'[i] = queue[i + 1]
        BY <1>3
    <2>2. queue[i + 1].from # r.from
        BY <1>3, <2>1 DEF QueueInv, Threads
    <2>3. call[queue[i + 1].from] = "wait"
        BY <2>1 DEF QueueInv
    <2> QED
        BY <1>1, <2>1, <2>2, <2>3
<1>7. \A i, j \in DOMAIN queue' :
        queue'[i].from = queue'[j].from /\ i # j => queue'[i].from = "orphan"
    <2> SUFFICES ASSUME NEW i \in DOMAIN queue', NEW j \in DOMAIN queue',
                        queue'[i].from = queue'[j].from, i # j
                 PROVE  queue'[i].from = "orphan"
        OBVIOUS
    <2>1. /\ i + 1 \in DOMAIN queue /\ queue'[i] = queue[i + 1]
          /\ j + 1 \in DOMAIN queue /\ queue'[j] = queue[j + 1] /\ i + 1 # j + 1
        BY <1>3
    <2> QED
        BY <2>1 DEF QueueInv
<1> QED
    BY <1>3, <1>4, <1>5, <1>6, <1>7 DEF QueueInv

(* All requests are gone, and all calls that waited for one.               *)
LEMMA EmptyQueue ==
  ASSUME serve' \in {"up", "down"}, queue' = <<>>,
         call' \in [Threads -> {"idle", "wait", "error"}], \A t \in Threads : call'[t] # "wait"
  PROVE  QueueInv'
<1>1. queue' \in Seq(Requests) /\ DOMAIN queue' = {}
    BY EmptySeq
<1> QED
    BY <1>1 DEF QueueInv

(* Nobody of this process waits.                                           *)
LEMMA OrphanQueue ==
  ASSUME queue \in Seq(Requests), queue' \in {queue, Orphaned},
         \A i \in DOMAIN queue' : queue'[i].from = "orphan",
         serve' \in {"up", "down"}, serve' = "down" => queue' = <<>>,
         call' = [t \in Threads |-> "idle"]
  PROVE  QueueInv'
<1>1. queue' \in Seq(Requests)
    BY AllOrphans
<1> QED
    BY <1>1 DEF QueueInv, Threads

-----------------------------------------------------------------------------
(* The threads: none runs without the process, none waits that does not    *)
(* run, and the copying ones run after the main thread has spawned them.   *)
ThreadInv ==
  /\ unit \in {"active", "failed", "inactive"}
  /\ pc \in [Threads -> {"off", "start", "probe", "power", "up", "losses", "loss",
               "spawn", "join", "list", "fetch", "record", "tilt", "cover"}]
  /\ existed \in [Threads -> SUBSET Texts]
  /\ todo \in [Threads -> [Lines -> Nat]]
  /\ hasEio \in BOOLEAN /\ seen \in BOOLEAN
  /\ unit # "active" => \A t \in Threads : pc[t] = "off"
  /\ \A t \in Threads : pc[t] = "off" => call[t] = "idle"
  /\ pc["main"] \notin {"join", "off"} => pc["eio"] = "off" /\ pc["sensor"] = "off"
  /\ pc["main"] = "join" => call["main"] = "idle"

WorldInv ==
  /\ log \in [Texts -> Nat] /\ lines \in [Lines -> Nat]
  /\ eiod \in {"starting", "up", "dead"} /\ cover \in BOOLEAN /\ shaken \in BOOLEAN
  /\ openings \in Nat /\ stirs \in Nat /\ mishaps \in Nat /\ boots \in 1..MaxBoots
  /\ btime \in BootTimes /\ past \subseteq BootTimes /\ btime \in past

LEMMA NoLinesType == NoLines \in [Lines -> Nat]
BY DEF NoLines

LEMMA ClearedThreads ==
  /\ [t \in Threads |-> {}] \in [Threads -> SUBSET Texts]
  /\ [t \in Threads |-> NoLines] \in [Threads -> [Lines -> Nat]]
BY NoLinesType

LEMMA StartThreads == StartRecord => ThreadInv'
<1> SUFFICES ASSUME StartRecord PROVE ThreadInv'
    OBVIOUS
<1>1. existed' \in [Threads -> SUBSET Texts] /\ todo' \in [Threads -> [Lines -> Nat]]
    BY ClearedThreads DEF StartRecord
<1>2. /\ pc' \in [Threads -> {"off", "start", "probe", "power", "up", "losses", "loss",
                    "spawn", "join", "list", "fetch", "record", "tilt", "cover"}]
      /\ pc'["eio"] = "off" /\ pc'["sensor"] = "off" /\ pc'["main"] = "start"
    BY DEF StartRecord, Threads
<1> QED
    BY <1>1, <1>2 DEF StartRecord, ThreadInv

LEMMA EndThreads ==
  ASSUME NEW state \in {"failed", "inactive"}, EndRecord(state)
  PROVE  ThreadInv'
<1>1. existed' \in [Threads -> SUBSET Texts] /\ todo' \in [Threads -> [Lines -> Nat]]
    BY ClearedThreads DEF EndRecord
<1>2. /\ pc' \in [Threads -> {"off", "start", "probe", "power", "up", "losses", "loss",
                    "spawn", "join", "list", "fetch", "record", "tilt", "cover"}]
      /\ \A t \in Threads : pc'[t] = "off"
      /\ pc'["main"] = "off"
    BY DEF EndRecord, Threads
<1> QED
    BY <1>1, <1>2 DEF EndRecord, ThreadInv

(* A thread that runs goes on; calls of the others stay.                   *)
LEMMA GoThread ==
  ASSUME ThreadInv, NEW t \in Threads, pc[t] # "off", unit' = unit,
         NEW l \in {"off", "start", "probe", "power", "up", "losses", "loss",
                    "spawn", "join", "list", "fetch", "record", "tilt", "cover"}, Goto(t, l),
         call' \in [Threads -> {"idle", "wait", "error"}],
         \A u \in Threads : u # t => call'[u] = call[u],
         l \in {"off", "join"} => call'[t] = "idle",
         t = "main" => l \notin {"off", "join"} /\ pc["main"] # "join",
         existed' \in [Threads -> SUBSET Texts], todo' \in [Threads -> [Lines -> Nat]],
         hasEio' \in BOOLEAN, seen' \in BOOLEAN
  PROVE  ThreadInv'
<1>1. pc' = [pc EXCEPT ![t] = l]
    BY DEF Goto
<1>2. /\ pc' \in [Threads -> {"off", "start", "probe", "power", "up", "losses", "loss",
                    "spawn", "join", "list", "fetch", "record", "tilt", "cover"}]
      /\ pc'[t] = l /\ \A u \in Threads : u # t => pc'[u] = pc[u]
    BY <1>1 DEF ThreadInv
<1>3. unit = "active"
    BY DEF ThreadInv
<1>4. \A u \in Threads : pc'[u] = "off" => call'[u] = "idle"
    BY <1>2 DEF ThreadInv
<1>5. "main" \in Threads /\ "eio" \in Threads /\ "sensor" \in Threads
    BY DEF Threads
<1>6. pc'["main"] \notin {"join", "off"} => pc'["eio"] = "off" /\ pc'["sensor"] = "off"
    <2>1. CASE t = "main"
        <3>1. pc["eio"] = "off" /\ pc["sensor"] = "off"
            BY <2>1 DEF ThreadInv
        <3> QED
            BY <1>2, <1>5, <2>1, <3>1
    <2>2. CASE t # "main"
        <3>1. pc'["main"] = pc["main"]
            BY <1>2, <1>5, <2>2
        <3>2. pc["main"] \in {"join", "off"}
            BY <2>2, <1>5 DEF ThreadInv, Threads
        <3> QED
            BY <3>1, <3>2
    <2> QED
        BY <2>1, <2>2
<1>7. pc'["main"] = "join" => call'["main"] = "idle"
    BY <1>2, <1>5 DEF ThreadInv
<1> QED
    BY <1>2, <1>3, <1>4, <1>6, <1>7 DEF ThreadInv

LEMMA EffectLog ==
  ASSUME WorldInv, NEW r \in Requests, Effect(r)
  PROVE  log' \in [Texts -> Nat]
<1>1. CASE r.op = "write"
    <2>1. r.arg \in Texts
        BY <1>1, RequestParts
    <2>2. log' = [log EXCEPT ![r.arg] = @ + 1]
        BY <1>1 DEF Effect
    <2> QED
        BY <2>1, <2>2 DEF WorldInv
<1>2. CASE r.op # "write"
    BY <1>2 DEF Effect, WorldInv
<1> QED
    BY <1>1, <1>2

TInv == QueueInv /\ ThreadInv /\ WorldInv

LEMMA TypeInit == Init => TInv
<1> SUFFICES ASSUME Init PROVE TInv
    OBVIOUS
<1>1. QueueInv
    <2>1. queue \in Seq(Requests) /\ DOMAIN queue = {}
        BY EmptySeq DEF Init
    <2> QED
        BY <2>1 DEF Init, QueueInv
<1>2. ThreadInv
    <2>1. existed \in [Threads -> SUBSET Texts] /\ todo \in [Threads -> [Lines -> Nat]]
        BY ClearedThreads DEF Init
    <2>2. /\ pc \in [Threads -> {"off", "start", "probe", "power", "up", "losses", "loss",
                       "spawn", "join", "list", "fetch", "record", "tilt", "cover"}]
          /\ pc["eio"] = "off" /\ pc["sensor"] = "off" /\ pc["main"] = "start"
        BY DEF Init, Threads
    <2> QED
        BY <2>1, <2>2 DEF Init, ThreadInv
<1>3. WorldInv
    <2>1. log \in [Texts -> Nat]
        BY DEF Init
    <2>2. lines \in [Lines -> Nat]
        BY NoLinesType DEF Init
    <2>3. boots \in 1..MaxBoots
        BY EventAssumption DEF Init
    <2> QED
        BY <2>1, <2>2, <2>3 DEF Init, WorldInv
<1> QED
    BY <1>1, <1>2, <1>3 DEF TInv

(* A thread sends a request, or the server is not there.                   *)
LEMMA SendType ==
  ASSUME TInv, NEW t \in Threads, call[t] = "idle", NEW op, NEW arg,
         Request(t, op, arg) \in Requests, Send(t, op, arg), UNCHANGED serve
  PROVE  /\ QueueInv' /\ call' \in [Threads -> {"idle", "wait", "error"}]
         /\ \A u \in Threads : u # t => call'[u] = call[u]
<1>1. QueueInv
    BY DEF TInv
<1>2. QueueInv'
    BY <1>1, SendQueue
<1>3. \A u \in Threads : u # t => call'[u] = call[u]
    BY <1>1 DEF Send, QueueInv
<1> QED
    BY <1>2, <1>3 DEF QueueInv

LEMMA KeepQueue == QueueInv /\ UNCHANGED <<serve, queue, call>> => QueueInv'
BY DEF QueueInv

LEMMA KeepWorld == WorldInv /\ UNCHANGED <<log, worldVars>> => WorldInv'
BY DEF WorldInv, worldVars, clockVars

LEMMA KeepThreads == ThreadInv /\ UNCHANGED recordVars => ThreadInv'
BY DEF ThreadInv, recordVars

LEMMA MainType ==
  ASSUME TInv,
         \/ WaitServe \/ ProbeEiod \/ ListPower \/ RecordUp \/ FetchLosses \/ Spawn \/ Join
  PROVE  TInv'
<1>0. /\ QueueInv /\ ThreadInv /\ WorldInv
      /\ "main" \in Threads /\ "eio" \in Threads /\ "sensor" \in Threads
      /\ call \in [Threads -> {"idle", "wait", "error"}]
      /\ existed \in [Threads -> SUBSET Texts] /\ todo \in [Threads -> [Lines -> Nat]]
      /\ hasEio \in BOOLEAN /\ seen \in BOOLEAN
    BY DEF TInv, Threads, QueueInv, ThreadInv
<1>1. CASE WaitServe
    <2>1. WorldInv'
        BY <1>0, <1>1, KeepWorld DEF WaitServe
    <2>2. CASE serve = "up" /\ Goto("main", "probe")
               /\ UNCHANGED <<unit, call, existed, todo, hasEio, seen>>
        <3>1. QueueInv'
            BY <1>0, <1>1, <2>2, KeepQueue DEF WaitServe
        <3>2. pc["main"] = "start"
            BY <1>1 DEF WaitServe, At
        <3>3. ThreadInv'
            BY <1>0, <2>2, <3>2, GoThread
        <3> QED
            BY <2>1, <3>1, <3>3 DEF TInv
    <2>3. CASE serve = "down" /\ EndRecord("failed")
        <3>1. queue' = <<>> /\ serve' = "down"
            BY <1>0, <1>1, <2>3 DEF WaitServe, QueueInv
        <3>2. QueueInv'
            BY <2>3, <3>1, EmptyQueue DEF EndRecord
        <3> QED
            BY <2>1, <2>3, <3>2, EndThreads DEF TInv
    <2> QED
        BY <1>1, <2>2, <2>3 DEF WaitServe
<1>2. CASE ProbeEiod
    <2>1. WorldInv' /\ QueueInv'
        BY <1>0, <1>2, KeepWorld, KeepQueue DEF ProbeEiod
    <2>2. pc["main"] = "probe" /\ Goto("main", "power") /\ hasEio' \in BOOLEAN
        BY <1>2 DEF ProbeEiod, At
    <2>3. UNCHANGED <<unit, call, existed, todo, seen>>
        BY <1>2 DEF ProbeEiod
    <2>4. ThreadInv'
        BY <1>0, <2>2, <2>3, GoThread
    <2> QED
        BY <2>1, <2>4 DEF TInv
<1>3. CASE ListPower
    <2>1. WorldInv'
        BY <1>0, <1>3, KeepWorld DEF ListPower
    <2>2. /\ pc["main"] = "power" /\ call["main"] = "idle" /\ Goto("main", "up")
          /\ Send("main", "read", "power") /\ UNCHANGED <<serve, unit, existed, todo, hasEio, seen>>
        BY <1>3 DEF ListPower, At
    <2>3. /\ QueueInv' /\ call' \in [Threads -> {"idle", "wait", "error"}]
          /\ \A u \in Threads : u # "main" => call'[u] = call[u]
        BY <1>0, <2>2, SendType, ReadRequest
    <2>4. ThreadInv'
        BY <1>0, <2>2, <2>3, GoThread
    <2> QED
        BY <2>1, <2>3, <2>4 DEF TInv
<1>4. CASE RecordUp
    <2>1. WorldInv'
        BY <1>0, <1>4, KeepWorld DEF RecordUp
    <2>2. /\ pc["main"] = "up" /\ call["main"] = "idle" /\ Goto("main", "losses")
          /\ UNCHANGED <<serve, unit, existed, todo, hasEio, seen>>
        BY <1>4 DEF RecordUp, At
    <2>3. /\ QueueInv' /\ call' \in [Threads -> {"idle", "wait", "error"}]
          /\ \A u \in Threads : u # "main" => call'[u] = call[u]
        <3>1. CASE Quiet
            BY <1>0, <2>2, <3>1, KeepQueue DEF Quiet
        <3>2. CASE Send("main", "write", UpText(btime))
            <4>1. UpText(btime) \in Texts
                BY <1>0, UpTexts DEF WorldInv
            <4> QED
                BY <1>0, <2>2, <3>2, <4>1, SendType, WriteRequest
        <3> QED
            BY <1>4, <3>1, <3>2 DEF RecordUp
    <2>4. ThreadInv'
        BY <1>0, <2>2, <2>3, GoThread
    <2> QED
        BY <2>1, <2>3, <2>4 DEF TInv
<1>5. CASE FetchLosses
    <2>1. WorldInv' /\ QueueInv'
        BY <1>0, <1>5, KeepWorld, KeepQueue DEF FetchLosses
    <2>2. pc["main"] = "losses" /\ UNCHANGED <<unit, call, existed, hasEio, seen>>
        BY <1>5 DEF FetchLosses, At
    <2>3. PICK l \in {"loss", "spawn"} : Goto("main", l)
        BY <1>5 DEF FetchLosses
    <2>4. todo' \in [Threads -> [Lines -> Nat]]
        <3>1. NewLines("main", LossLines) \in [Lines -> Nat]
            BY <1>0 DEF NewLines, WorldInv
        <3> QED
            BY <1>0, <1>5, <3>1, NoLinesType DEF FetchLosses, Fetch
    <2>5. ThreadInv'
        BY <1>0, <2>2, <2>3, <2>4, GoThread
    <2> QED
        BY <2>1, <2>5 DEF TInv
<1>6. CASE Spawn
    <2>1. WorldInv' /\ QueueInv'
        BY <1>0, <1>6, KeepWorld, KeepQueue DEF Spawn
    <2>2. /\ pc["main"] = "spawn" /\ call["main"] = "idle"
          /\ UNCHANGED <<unit, call, existed, todo, hasEio, seen>>
        BY <1>6 DEF Spawn, At
    <2>3. /\ pc'["main"] = "join" /\ pc'["eio"] \in {"list", "off"} /\ pc'["sensor"] \in {"tilt", "off"}
          /\ \A t \in Threads : pc'[t] = CASE t = "main" -> "join"
                [] t = "eio" -> IF hasEio THEN "list" ELSE "off"
                [] t = "sensor" -> IF Sensors THEN "tilt" ELSE "off"
        BY <1>0, <1>6 DEF Spawn
    <2>4. pc' \in [Threads -> {"off", "start", "probe", "power", "up", "losses", "loss",
                    "spawn", "join", "list", "fetch", "record", "tilt", "cover"}]
        BY <1>6, <2>3 DEF Spawn, Threads
    <2>5. unit = "active" /\ call["eio"] = "idle" /\ call["sensor"] = "idle"
        BY <1>0, <2>2 DEF ThreadInv
    <2>6. \A t \in Threads : call'[t] = "idle"
        BY <2>2, <2>5 DEF Threads
    <2> QED
        BY <1>0, <2>1, <2>2, <2>3, <2>4, <2>5, <2>6 DEF TInv, ThreadInv
<1>7. CASE Join
    <2>1. WorldInv'
        BY <1>0, <1>7, KeepWorld DEF Join
    <2>2. call["main"] = "idle" /\ call["eio"] = "idle" /\ call["sensor"] = "idle"
        BY <1>0, <1>7 DEF Join, At, ThreadInv
    <2>3. \A t \in Threads : call[t] = "idle"
        BY <2>2 DEF Threads
    <2>4. call' = [t \in Threads |-> "idle"] /\ UNCHANGED <<queue, serve>>
        BY <1>7 DEF Join, EndRecord
    <2>5. call' = call
        BY <1>0, <2>3, <2>4
    <2>6. QueueInv'
        BY <1>0, <2>4, <2>5, KeepQueue
    <2> QED
        BY <1>7, <2>1, <2>6, EndThreads DEF TInv, Join
<1> QED
    BY <1>1, <1>2, <1>3, <1>4, <1>5, <1>6, <1>7

LEMMA WriteLineType ==
  ASSUME TInv, NEW t \in {"main", "eio"}, NEW from, NEW done \in {"spawn", "list"},
         from # "off", from # "join", t = "main" => pc["main"] # "join",
         WriteLine(t, from, done), UNCHANGED worldVars
  PROVE  TInv'
<1>0. /\ QueueInv /\ ThreadInv /\ WorldInv /\ t \in Threads
      /\ call \in [Threads -> {"idle", "wait", "error"}]
      /\ pc \in [Threads -> {"off", "start", "probe", "power", "up", "losses", "loss",
                   "spawn", "join", "list", "fetch", "record", "tilt", "cover"}]
      /\ existed \in [Threads -> SUBSET Texts] /\ todo \in [Threads -> [Lines -> Nat]]
      /\ hasEio \in BOOLEAN /\ seen \in BOOLEAN
    BY DEF TInv, Threads, QueueInv, ThreadInv
<1>1. /\ pc[t] = from /\ call[t] = "idle" /\ UNCHANGED <<log, serve, unit, existed, hasEio, seen>>
    BY DEF WriteLine, At
<1>2. WorldInv'
    BY <1>0, <1>1, KeepWorld
<1>3. CASE \E l \in Lines : /\ todo[t][l] > 0
                            /\ todo' = [todo EXCEPT ![t][l] = @ - 1]
                            /\ Send(t, "write", LineText(l)) /\ UNCHANGED pc
    <2>1. PICK l \in Lines : /\ todo[t][l] > 0
                             /\ todo' = [todo EXCEPT ![t][l] = @ - 1]
                             /\ Send(t, "write", LineText(l)) /\ UNCHANGED pc
        BY <1>3
    <2>2. /\ QueueInv' /\ call' \in [Threads -> {"idle", "wait", "error"}]
          /\ \A u \in Threads : u # t => call'[u] = call[u]
        BY <1>0, <1>1, <2>1, SendType, WriteRequest, LineTexts
    <2>3. todo' \in [Threads -> [Lines -> Nat]]
        <3>1. todo[t][l] - 1 \in Nat
            BY <1>0, <2>1
        <3> QED
            BY <1>0, <2>1, <3>1
    <2>4. Goto(t, from)
        BY <1>0, <1>1, <2>1 DEF Goto
    <2>5. from \in {"off", "start", "probe", "power", "up", "losses", "loss",
                    "spawn", "join", "list", "fetch", "record", "tilt", "cover"}
        BY <1>0, <1>1
    <2>6. ThreadInv'
        BY <1>0, <1>1, <2>2, <2>3, <2>4, <2>5, GoThread
    <2> QED
        BY <1>2, <2>2, <2>6 DEF TInv
<1>4. CASE todo[t] = NoLines /\ Goto(t, done) /\ Quiet /\ UNCHANGED todo
    <2>1. QueueInv'
        BY <1>0, <1>1, <1>4, KeepQueue DEF Quiet
    <2>2. call' = call
        BY <1>4 DEF Quiet
    <2>3. ThreadInv'
        BY <1>0, <1>1, <1>4, <2>2, GoThread
    <2> QED
        BY <1>2, <2>1, <2>3 DEF TInv
<1> QED
    BY <1>3, <1>4 DEF WriteLine

LEMMA CallFailsType ==
  ASSUME TInv, NEW t \in Threads, CallFails(t)
  PROVE  TInv'
<1>0. /\ QueueInv /\ ThreadInv /\ WorldInv
      /\ call \in [Threads -> {"idle", "wait", "error"}]
      /\ existed \in [Threads -> SUBSET Texts] /\ todo \in [Threads -> [Lines -> Nat]]
      /\ hasEio \in BOOLEAN /\ seen \in BOOLEAN
    BY DEF TInv, QueueInv, ThreadInv
<1>1. /\ call[t] = "error" /\ call' = [call EXCEPT ![t] = "idle"]
      /\ UNCHANGED <<log, serve, queue, unit, existed, hasEio, seen, worldVars>>
    BY DEF CallFails
<1>2. WorldInv'
    BY <1>0, <1>1, KeepWorld
<1>3. call' \in [Threads -> {"idle", "wait", "error"}]
      /\ \A u \in Threads : u # t => call'[u] = call[u]
    BY <1>0, <1>1
<1>4. QueueInv'
    BY <1>0, <1>1, <1>3 DEF QueueInv
<1>5. todo' \in [Threads -> [Lines -> Nat]]
    BY <1>0, NoLinesType DEF CallFails
<1>6. PICK l \in {"spawn", "off"} : Goto(t, l) /\ (t = "main" => l = "spawn")
    BY DEF CallFails
<1>7. pc[t] # "off" /\ (t = "main" => pc["main"] # "join")
    BY <1>0, <1>1 DEF ThreadInv
<1>8. ThreadInv'
    BY <1>0, <1>1, <1>3, <1>5, <1>6, <1>7, GoThread
<1> QED
    BY <1>2, <1>4, <1>8 DEF TInv

LEMMA LoopType ==
  ASSUME TInv, ListEio \/ FetchEio \/ SampleTilt \/ SampleCover \/ SensorFails
  PROVE  TInv'
<1>0. /\ QueueInv /\ ThreadInv /\ WorldInv
      /\ "eio" \in Threads /\ "sensor" \in Threads
      /\ call \in [Threads -> {"idle", "wait", "error"}]
      /\ existed \in [Threads -> SUBSET Texts] /\ todo \in [Threads -> [Lines -> Nat]]
      /\ hasEio \in BOOLEAN /\ seen \in BOOLEAN /\ cover \in BOOLEAN
    BY DEF TInv, Threads, QueueInv, ThreadInv, WorldInv
<1>1. CASE ListEio
    <2>1. WorldInv'
        BY <1>0, <1>1, KeepWorld DEF ListEio
    <2>2. /\ pc["eio"] = "list" /\ call["eio"] = "idle" /\ Goto("eio", "fetch")
          /\ Send("eio", "read", "eio") /\ UNCHANGED <<serve, unit, existed, todo, hasEio, seen>>
        BY <1>1 DEF ListEio, At
    <2>3. /\ QueueInv' /\ call' \in [Threads -> {"idle", "wait", "error"}]
          /\ \A u \in Threads : u # "eio" => call'[u] = call[u]
        BY <1>0, <2>2, SendType, ReadRequest
    <2>4. ThreadInv'
        BY <1>0, <2>2, <2>3, GoThread
    <2> QED
        BY <2>1, <2>3, <2>4 DEF TInv
<1>2. CASE FetchEio
    <2>1. WorldInv' /\ QueueInv'
        BY <1>0, <1>2, KeepWorld, KeepQueue DEF FetchEio
    <2>2. pc["eio"] = "fetch" /\ call["eio"] = "idle" /\ UNCHANGED <<unit, call, existed, hasEio, seen>>
        BY <1>2 DEF FetchEio, At
    <2>3. PICK l \in {"record", "off"} : Goto("eio", l)
        BY <1>2 DEF FetchEio
    <2>4. todo' \in [Threads -> [Lines -> Nat]]
        <3>1. NewLines("eio", Lines \ PowerLines) \in [Lines -> Nat]
            BY <1>0 DEF NewLines, WorldInv
        <3> QED
            BY <1>0, <1>2, <3>1, NoLinesType DEF FetchEio, Fetch
    <2>5. ThreadInv'
        BY <1>0, <2>2, <2>3, <2>4, GoThread
    <2> QED
        BY <2>1, <2>5 DEF TInv
<1>3. ASSUME NEW x \in {Tilted, Uncovered}, call["sensor"] = "idle", UNCHANGED serve,
             Send("sensor", "write", x) \/ Quiet
      PROVE  /\ QueueInv' /\ call' \in [Threads -> {"idle", "wait", "error"}]
             /\ \A u \in Threads : u # "sensor" => call'[u] = call[u]
    <2>1. CASE Quiet
        BY <1>0, <1>3, <2>1, KeepQueue DEF Quiet
    <2>2. CASE Send("sensor", "write", x)
        BY <1>0, <1>3, <2>2, SendType, WriteRequest, AlarmTexts
    <2> QED
        BY <1>3, <2>1, <2>2
<1>4. CASE SampleTilt
    <2>1. WorldInv'
        BY <1>0, <1>4 DEF SampleTilt, WorldInv, clockVars
    <2>2. /\ pc["sensor"] = "tilt" /\ call["sensor"] = "idle" /\ Goto("sensor", "cover")
          /\ UNCHANGED <<serve, unit, existed, todo, hasEio, seen>>
        BY <1>4 DEF SampleTilt, At
    <2>3. /\ QueueInv' /\ call' \in [Threads -> {"idle", "wait", "error"}]
          /\ \A u \in Threads : u # "sensor" => call'[u] = call[u]
        BY <1>3, <1>4, <2>2 DEF SampleTilt
    <2>4. ThreadInv'
        BY <1>0, <2>2, <2>3, GoThread
    <2> QED
        BY <2>1, <2>3, <2>4 DEF TInv
<1>5. CASE SampleCover
    <2>1. WorldInv'
        BY <1>0, <1>5, KeepWorld DEF SampleCover
    <2>2. /\ pc["sensor"] = "cover" /\ call["sensor"] = "idle" /\ Goto("sensor", "tilt")
          /\ seen' = cover /\ UNCHANGED <<serve, unit, existed, todo, hasEio>>
        BY <1>5 DEF SampleCover, At
    <2>3. /\ QueueInv' /\ call' \in [Threads -> {"idle", "wait", "error"}]
          /\ \A u \in Threads : u # "sensor" => call'[u] = call[u]
        BY <1>3, <1>5, <2>2 DEF SampleCover
    <2>4. ThreadInv'
        BY <1>0, <2>2, <2>3, GoThread
    <2> QED
        BY <2>1, <2>3, <2>4 DEF TInv
<1>6. CASE SensorFails
    <2>1. WorldInv' /\ QueueInv'
        BY <1>0, <1>6, KeepWorld, KeepQueue DEF SensorFails
    <2>2. /\ pc["sensor"] = "cover" /\ call["sensor"] = "idle" /\ Goto("sensor", "off")
          /\ UNCHANGED <<unit, call, existed, todo, hasEio, seen>>
        BY <1>6 DEF SensorFails, At
    <2>3. ThreadInv'
        BY <1>0, <2>2, GoThread
    <2> QED
        BY <2>1, <2>3 DEF TInv
<1> QED
    BY <1>1, <1>2, <1>4, <1>5, <1>6

LEMMA HandleType == TInv /\ Handle => TInv'
<1> SUFFICES ASSUME TInv, Handle PROVE TInv'
    OBVIOUS
<1> DEFINE r == Head(queue)
<1>1. /\ QueueInv /\ ThreadInv /\ WorldInv /\ queue # <<>> /\ serve = "up" /\ serve' = serve
      /\ Effect(r) /\ Answer(r) /\ queue' = Tail(queue)
      /\ UNCHANGED <<unit, pc, todo, hasEio, seen, worldVars>>
    BY DEF Handle, TInv
<1>2. r \in Requests
    BY <1>1, Removed DEF QueueInv
<1>3. QueueInv'
    BY <1>1, HandleQueue
<1>4. call' = [t \in Threads |-> IF t = r.from THEN "idle" ELSE call[t]]
    BY <1>1 DEF Answer
<1>5. existed' \in [Threads -> SUBSET Texts]
    <2>1. {x \in OfType(r.arg) : log[x] > 0} \subseteq Texts
        BY DEF OfType
    <2>2. existed \in [Threads -> SUBSET Texts]
        BY <1>1 DEF ThreadInv
    <2> QED
        BY <1>1, <2>1, <2>2 DEF Answer
<1> HIDE DEF r
<1>6. \A t \in Threads : pc'[t] = "off" => call'[t] = "idle"
    BY <1>1, <1>4 DEF ThreadInv
<1>7. pc'["main"] = "join" => call'["main"] = "idle"
    BY <1>1, <1>4 DEF ThreadInv, Threads
<1>8. ThreadInv'
    BY <1>1, <1>5, <1>6, <1>7 DEF ThreadInv
<1>9. WorldInv'
    BY <1>1, <1>2, EffectLog DEF WorldInv, worldVars, clockVars
<1> QED
    BY <1>3, <1>8, <1>9 DEF TInv

LEMMA MishapType ==
  ASSUME TInv, Kill \/ RestartRecord \/ ServeCrash \/ ServeRestart \/ EiodReady \/ EiodCrash \/ Boot
  PROVE  TInv'
<1>0. /\ QueueInv /\ ThreadInv /\ WorldInv
      /\ call \in [Threads -> {"idle", "wait", "error"}]
    BY DEF TInv, QueueInv
<1>1. CASE Kill
    <2>1. /\ mishaps' = mishaps + 1 /\ EndRecord("failed") /\ queue' = Orphaned
          /\ UNCHANGED <<log, serve, eiod, lines, cover, shaken, openings, stirs, boots, clockVars>>
        BY <1>1 DEF Kill, Mishap
    <2>2. WorldInv'
        BY <1>0, <2>1 DEF WorldInv, clockVars
    <2>3. DOMAIN queue' = DOMAIN queue /\ \A i \in DOMAIN queue' : queue'[i].from = "orphan"
        BY <1>0, <2>1, AllOrphans DEF QueueInv
    <2>4. serve' = "down" => queue' = <<>>
        <3> SUFFICES ASSUME serve' = "down" PROVE queue' = <<>>
            OBVIOUS
        <3>1. queue = <<>>
            BY <1>0, <2>1 DEF QueueInv
        <3>2. Orphaned \in Seq(Requests) /\ DOMAIN Orphaned = {}
            BY <1>0, <3>1, AllOrphans, EmptySeq DEF QueueInv
        <3> QED
            BY <2>1, <3>2, EmptySeq
    <2>5. QueueInv'
        <3>1. queue \in Seq(Requests) /\ serve' \in {"up", "down"}
            BY <1>0, <2>1 DEF QueueInv
        <3>2. call' = [t \in Threads |-> "idle"]
            BY <2>1 DEF EndRecord
        <3> QED
            BY <2>1, <2>3, <2>4, <3>1, <3>2, OrphanQueue
    <2> QED
        BY <2>1, <2>2, <2>5, EndThreads DEF TInv
<1>2. CASE RestartRecord
    <2>1. StartRecord /\ UNCHANGED <<log, serve, queue, worldVars>> /\ unit = "failed"
        BY <1>2 DEF RestartRecord
    <2>2. \A t \in Threads : call[t] = "idle"
        BY <1>0, <2>1 DEF ThreadInv
    <2>3. call' = call
        BY <1>0, <2>1, <2>2 DEF StartRecord
    <2>4. QueueInv' /\ WorldInv'
        BY <1>0, <2>1, <2>3, KeepQueue, KeepWorld
    <2> QED
        BY <2>1, <2>4, StartThreads DEF TInv
<1>3. CASE ServeCrash
    <2>1. /\ mishaps' = mishaps + 1 /\ serve' = "down" /\ queue' = <<>>
          /\ call' = [t \in Threads |-> IF call[t] = "wait" THEN "error" ELSE call[t]]
          /\ UNCHANGED <<unit, pc, existed, todo, hasEio, seen, eiod, lines, cover, shaken,
                         openings, stirs, boots, clockVars>>
        BY <1>3 DEF ServeCrash, Mishap
    <2>2. log' \in [Texts -> Nat]
        <3>1. CASE UNCHANGED log
            BY <1>0, <3>1 DEF WorldInv
        <3>2. CASE queue # <<>> /\ Effect(Head(queue))
            <4>1. Head(queue) \in Requests
                BY <1>0, <3>2, Removed DEF QueueInv
            <4> QED
                BY <1>0, <3>2, <4>1, EffectLog
        <3> QED
            BY <1>3, <3>1, <3>2 DEF ServeCrash
    <2>3. WorldInv'
        BY <1>0, <2>1, <2>2 DEF WorldInv, clockVars
    <2>4. QueueInv'
        <3>1. call' \in [Threads -> {"idle", "wait", "error"}] /\ \A t \in Threads : call'[t] # "wait"
            BY <1>0, <2>1
        <3> QED
            BY <2>1, <3>1, EmptyQueue
    <2>5. ThreadInv'
        <3>1. \A t \in Threads : call[t] = "idle" => call'[t] = "idle"
            BY <2>1
        <3> QED
            BY <1>0, <2>1, <3>1 DEF ThreadInv, Threads
    <2> QED
        BY <2>3, <2>4, <2>5 DEF TInv
<1>4. CASE ServeRestart
    <2>1. /\ serve = "down" /\ serve' = "up" /\ UNCHANGED <<log, queue, worldVars>>
          /\ queue' = <<>>
        BY <1>0, <1>4 DEF ServeRestart, QueueInv
    <2>2. WorldInv'
        BY <1>0, <2>1, KeepWorld
    <2>3. CASE StartRecord
        <3>1. QueueInv'
            BY <2>1, <2>3, EmptyQueue DEF StartRecord
        <3> QED
            BY <2>2, <2>3, <3>1, StartThreads DEF TInv
    <2>4. CASE UNCHANGED recordVars
        <3>1. QueueInv'
            BY <1>0, <2>1, <2>4 DEF QueueInv, recordVars
        <3> QED
            BY <1>0, <2>2, <2>4, <3>1, KeepThreads DEF TInv
    <2> QED
        BY <1>4, <2>3, <2>4 DEF ServeRestart
<1>5. CASE EiodReady
    <2>1. WorldInv'
        BY <1>0, <1>5 DEF EiodReady, WorldInv, clockVars
    <2>2. QueueInv' /\ ThreadInv'
        BY <1>0, <1>5, KeepQueue, KeepThreads DEF EiodReady, recordVars
    <2> QED
        BY <2>1, <2>2 DEF TInv
<1>6. CASE EiodCrash
    <2>1. WorldInv'
        BY <1>0, <1>6 DEF EiodCrash, Mishap, WorldInv, clockVars
    <2>2. QueueInv' /\ ThreadInv'
        BY <1>0, <1>6, KeepQueue, KeepThreads DEF EiodCrash, recordVars
    <2> QED
        BY <2>1, <2>2 DEF TInv
<1>7. CASE Boot
    <2>1. /\ boots < MaxBoots /\ boots' = boots + 1 /\ serve' = "up" /\ queue' = <<>>
          /\ StartRecord /\ eiod' = "starting"
          /\ btime' \in BootTimes /\ past' = past \cup {btime'}
          /\ UNCHANGED <<log, lines, cover, shaken, openings, stirs, mishaps>>
        BY <1>7 DEF Boot
    <2>2. boots' \in 1..MaxBoots
        BY <1>0, <2>1, Bounds DEF WorldInv
    <2>3. WorldInv'
        BY <1>0, <2>1, <2>2 DEF WorldInv
    <2>4. QueueInv'
        BY <2>1, EmptyQueue DEF StartRecord
    <2> QED
        BY <2>1, <2>3, <2>4, StartThreads DEF TInv
<1> QED
    BY <1>1, <1>2, <1>3, <1>4, <1>5, <1>6, <1>7

LEMMA WorldType ==
  ASSUME TInv, (\E l \in Lines : Happen(l)) \/ Stir \/ SetClock
  PROVE  TInv'
<1>0. QueueInv /\ ThreadInv /\ WorldInv
    BY DEF TInv
<1>1. QueueInv' /\ ThreadInv'
    BY <1>0, KeepQueue, KeepThreads DEF Happen, Stir, SetClock, recordVars
<1>2. CASE \E l \in Lines : Happen(l)
    <2>1. PICK l \in Lines : Happen(l)
        BY <1>2
    <2>2. lines' = [lines EXCEPT ![l] = lines[l] + 1] /\ lines[l] + 1 \in Nat
        BY <1>0, <2>1 DEF Happen, WorldInv
    <2>3. lines' \in [Lines -> Nat]
        BY <1>0, <2>2 DEF WorldInv
    <2> QED
        BY <1>0, <1>1, <2>1, <2>3 DEF TInv, WorldInv, Happen, clockVars
<1>3. CASE Stir
    <2>0. cover \in BOOLEAN /\ shaken \in BOOLEAN /\ openings \in Nat /\ stirs \in Nat
        BY <1>0 DEF WorldInv
    <2>1. cover' \in BOOLEAN /\ shaken' \in BOOLEAN /\ openings' \in Nat /\ stirs' \in Nat
        <3>1. stirs' = stirs + 1
            BY <1>3 DEF Stir
        <3>2. CASE shaken' = TRUE /\ cover' = cover /\ openings' = openings
            BY <2>0, <3>1, <3>2
        <3>3. CASE /\ cover' = ~cover /\ shaken' = shaken
                   /\ openings' = IF cover THEN openings ELSE openings + 1
            <4>1. openings' \in Nat
                BY <2>0, <3>3
            <4>2. cover' \in BOOLEAN
                BY <3>3
            <4> QED
                BY <2>0, <3>1, <3>3, <4>1, <4>2
        <3> QED
            BY <1>3, <3>2, <3>3 DEF Stir
    <2>2. UNCHANGED <<log, eiod, lines, mishaps, boots, clockVars>>
        BY <1>3 DEF Stir
    <2> QED
        BY <1>0, <1>1, <2>1, <2>2 DEF TInv, WorldInv, clockVars
<1>4. CASE SetClock
    <2>1. /\ btime' \in BootTimes /\ past' = past \cup {btime'}
          /\ UNCHANGED <<log, eiod, lines, cover, shaken, openings, stirs, mishaps, boots>>
        BY <1>4 DEF SetClock
    <2> QED
        BY <1>0, <1>1, <2>1 DEF TInv, WorldInv
<1> QED
    BY <1>2, <1>3, <1>4

LEMMA TypeStep == TInv /\ [Next]_vars => TInv'
<1> SUFFICES ASSUME TInv, [Next]_vars PROVE TInv'
    OBVIOUS
<1>1. CASE WriteLine("main", "loss", "spawn")
    <2>1. UNCHANGED worldVars /\ pc["main"] = "loss"
        BY <1>1 DEF WriteLine, At
    <2> QED
        BY <1>1, <2>1, WriteLineType
<1>2. CASE WriteLine("eio", "record", "list")
    <2>1. UNCHANGED worldVars
        BY <1>2 DEF WriteLine
    <2> QED
        BY <1>2, <2>1, WriteLineType
<1>3. CASE \E t \in Threads : CallFails(t)
    BY <1>3, CallFailsType
<1>4. CASE UNCHANGED vars
    <2>1. QueueInv' /\ ThreadInv' /\ WorldInv'
        BY <1>4, KeepQueue, KeepThreads, KeepWorld DEF TInv, vars, recordVars
    <2> QED
        BY <2>1 DEF TInv
<1>5. {"main", "eio", "sensor"} = Threads
    BY DEF Threads
<1> QED
    BY <1>1, <1>2, <1>3, <1>4, <1>5, MainType, LoopType, HandleType, MishapType, WorldType
    DEF Next, Main, Eio, Sensor

LEMMA TypeInductive == Spec => []TInv
BY TypeInit, TypeStep, PTL DEF Spec

LEMMA GivesUp == gaveUp \subseteq Threads /\ [Next]_vars => (gaveUp \subseteq Threads)'
<1> SUFFICES ASSUME gaveUp \subseteq Threads, [Next]_vars PROVE gaveUp' \subseteq Threads
    OBVIOUS
<1>1. {"main", "eio", "sensor"} = Threads
    BY DEF Threads
<1>2. CASE Main
    BY <1>1, <1>2 DEF Main, WaitServe, ProbeEiod, ListPower, RecordUp, FetchLosses, WriteLine,
                      CallFails, Spawn, Join, EndRecord, GiveUp
<1>3. CASE Eio \/ Sensor
    BY <1>1, <1>3 DEF Eio, Sensor, ListEio, FetchEio, WriteLine, CallFails, SampleTilt,
                      SampleCover, SensorFails, GiveUp
<1>4. CASE Handle \/ Kill \/ RestartRecord \/ ServeCrash \/ ServeRestart
    BY <1>4 DEF Handle, Kill, RestartRecord, ServeCrash, ServeRestart, StartRecord, EndRecord,
                recordVars
<1>5. CASE \/ EiodReady \/ EiodCrash \/ Boot \/ SetClock \/ Stir
           \/ (\E l \in Lines : Happen(l)) \/ UNCHANGED vars
    BY <1>5 DEF EiodReady, EiodCrash, Boot, SetClock, Stir, Happen, StartRecord, recordVars, vars
<1> QED
    BY <1>2, <1>3, <1>4, <1>5 DEF Next

(* Both services stay in their states; a thread that waits has exactly one *)
(* request with the server, and no other thread has one.                   *)
THEOREM RecorderTypeCorrect == Spec => []TypeOK
<1>1. TInv /\ gaveUp \subseteq Threads => TypeOK
    <2> SUFFICES ASSUME QueueInv, ThreadInv, WorldInv, gaveUp \subseteq Threads PROVE TypeOK
        BY DEF TInv
    <2>1. {hasEio, seen, cover, shaken} \subseteq BOOLEAN /\ {openings, stirs, mishaps} \subseteq Nat
        BY DEF ThreadInv, WorldInv
    <2> QED
        BY <2>1 DEF QueueInv, ThreadInv, WorldInv, TypeOK
<1>2. Init => gaveUp \subseteq Threads
    BY DEF Init
<1> QED
    BY <1>1, <1>2, TypeInductive, GivesUp, PTL DEF Spec

-----------------------------------------------------------------------------
(* What a queue will write: the log gets one more entry of x for each of   *)
(* its requests to write x.                                                *)
Writes(r, x) == r.op = "write" /\ r.arg = x
Has(q, x) == \E i \in DOMAIN q : Writes(q[i], x)
Once(q, x) == \A i, j \in DOMAIN q : Writes(q[i], x) /\ Writes(q[j], x) => i = j
WrittenBy(q, x, t) == \A i \in DOMAIN q : Writes(q[i], x) => q[i].from = t
OnlyWrites(q, t) == \A i \in DOMAIN q : q[i].from = t => q[i].op = "write"

(* The threads that copy, the type of the entries they look for, and where *)
(* a thread is from its request for their list on until it uses the list.  *)
Copiers == {"main", "eio"}
Type(t) == IF t = "main" THEN "power" ELSE "eio"
Place(t) == IF t = "main" THEN "up" ELSE "fetch"
Owner(l) == IF l \in PowerLines THEN "main" ELSE "eio"

(* The list t waits for will be complete: no entry of its type is behind.  *)
ReadLast(q, t) ==
  \A i \in DOMAIN q : q[i].from = t =>
    /\ q[i].op = "read" /\ q[i].arg = Type(t)
    /\ \A j \in DOMAIN q : j > i => \A x \in OfType(Type(t)) : ~Writes(q[j], x)

LEMMA EmptyWrites ==
  ASSUME NEW q, q = <<>>
  PROVE  /\ \A x : ~Has(q, x) /\ Once(q, x)
         /\ \A x, t : WrittenBy(q, x, t)
         /\ \A t : ReadLast(q, t) /\ OnlyWrites(q, t)
<1>1. DOMAIN q = {}
    BY EmptySeq
<1> QED
    BY <1>1 DEF Has, Once, WrittenBy, ReadLast, OnlyWrites

LEMMA AppendWrites ==
  ASSUME NEW q \in Seq(Requests), NEW r \in Requests
  PROVE  /\ \A x : Has(Append(q, r), x) => Has(q, x) \/ Writes(r, x)
         /\ \A x : Once(q, x) /\ (Writes(r, x) => ~Has(q, x)) => Once(Append(q, r), x)
         /\ \A x, t : WrittenBy(q, x, t) /\ (Writes(r, x) => r.from = t) =>
                        WrittenBy(Append(q, r), x, t)
         /\ \A t : OnlyWrites(q, t) /\ (r.from = t => r.op = "write") =>
                     OnlyWrites(Append(q, r), t)
<1> DEFINE p == Append(q, r)  n == Len(q) + 1
<1>1. /\ \A i \in DOMAIN q : i \in DOMAIN p /\ p[i] = q[i] /\ i < n
      /\ n \in DOMAIN p /\ p[n] = r
      /\ \A i \in DOMAIN p : i \in DOMAIN q \/ i = n
    BY Appended
<1> HIDE DEF p, n
<1>2. \A x : Has(p, x) => Has(q, x) \/ Writes(r, x)
    BY <1>1 DEF Has
<1>3. ASSUME NEW x, Once(q, x), Writes(r, x) => ~Has(q, x)
      PROVE  Once(p, x)
    <2> SUFFICES ASSUME NEW i \in DOMAIN p, NEW j \in DOMAIN p, Writes(p[i], x), Writes(p[j], x)
                 PROVE  i = j
        BY DEF Once
    <2>1. CASE i \in DOMAIN q /\ j \in DOMAIN q
        BY <1>1, <1>3, <2>1 DEF Once
    <2>2. CASE i = n \/ j = n
        BY <1>1, <1>3, <2>2 DEF Has
    <2> QED
        BY <1>1, <2>1, <2>2
<1>4. ASSUME NEW x, NEW t, WrittenBy(q, x, t), Writes(r, x) => r.from = t
      PROVE  WrittenBy(p, x, t)
    BY <1>1, <1>4 DEF WrittenBy
<1>5. ASSUME NEW t, OnlyWrites(q, t), r.from = t => r.op = "write"
      PROVE  OnlyWrites(p, t)
    BY <1>1, <1>5 DEF OnlyWrites
<1> QED
    BY <1>2, <1>3, <1>4, <1>5 DEF p

(* A list stays complete when others send what is not of its type; a list  *)
(* just asked for is complete.                                             *)
LEMMA AppendRead ==
  ASSUME NEW q \in Seq(Requests), NEW r \in Requests, NEW t \in Copiers
  PROVE  /\ /\ ReadLast(q, t) /\ r.from # t
            /\ \A x \in OfType(Type(t)) : ~Writes(r, x)
            => ReadLast(Append(q, r), t)
         /\ /\ \A i \in DOMAIN q : q[i].from # t
            /\ r.op = "read" /\ r.arg = Type(t)
            => ReadLast(Append(q, r), t)
<1> DEFINE p == Append(q, r)  n == Len(q) + 1
<1>1. /\ \A i \in DOMAIN q : i \in DOMAIN p /\ p[i] = q[i] /\ i < n /\ i \in Int
      /\ n \in DOMAIN p /\ p[n] = r /\ n \in Int
      /\ \A i \in DOMAIN p : i \in DOMAIN q \/ i = n
    BY Appended
<1> HIDE DEF p, n
<1>2. ASSUME ReadLast(q, t), r.from # t, \A x \in OfType(Type(t)) : ~Writes(r, x)
      PROVE  ReadLast(p, t)
    <2> SUFFICES ASSUME NEW i \in DOMAIN p, p[i].from = t
                 PROVE  /\ p[i].op = "read" /\ p[i].arg = Type(t)
                        /\ \A j \in DOMAIN p : j > i =>
                             \A x \in OfType(Type(t)) : ~Writes(p[j], x)
        BY DEF ReadLast
    <2>1. i \in DOMAIN q /\ p[i] = q[i]
        BY <1>1, <1>2
    <2>2. /\ q[i].op = "read" /\ q[i].arg = Type(t)
          /\ \A j \in DOMAIN q : j > i => \A x \in OfType(Type(t)) : ~Writes(q[j], x)
        BY <1>2, <2>1 DEF ReadLast
    <2> QED
        BY <1>1, <1>2, <2>1, <2>2
<1>3. ASSUME \A i \in DOMAIN q : q[i].from # t, r.op = "read", r.arg = Type(t)
      PROVE  ReadLast(p, t)
    <2> SUFFICES ASSUME NEW i \in DOMAIN p, p[i].from = t
                 PROVE  /\ p[i].op = "read" /\ p[i].arg = Type(t)
                        /\ \A j \in DOMAIN p : j > i =>
                             \A x \in OfType(Type(t)) : ~Writes(p[j], x)
        BY DEF ReadLast
    <2>1. i = n /\ p[i] = r
        BY <1>1, <1>3
    <2>2. \A j \in DOMAIN p : ~(j > i)
        BY <1>1, <2>1
    <2> QED
        BY <1>3, <2>1, <2>2
<1> QED
    BY <1>2, <1>3 DEF p

LEMMA TailWrites ==
  ASSUME NEW q \in Seq(Requests), q # <<>>
  PROVE  /\ \A x : Has(Tail(q), x) => Has(q, x)
         /\ \A x : Writes(Head(q), x) => Has(q, x)
         /\ \A x : Once(q, x) => Once(Tail(q), x) /\ (Writes(Head(q), x) => ~Has(Tail(q), x))
         /\ \A x, t : WrittenBy(q, x, t) => WrittenBy(Tail(q), x, t)
         /\ \A t : OnlyWrites(q, t) =>
              OnlyWrites(Tail(q), t) /\ (Head(q).from = t => Head(q).op = "write")
         /\ \A t \in Copiers : ReadLast(q, t) => ReadLast(Tail(q), t)
         /\ \A t \in Copiers : ReadLast(q, t) /\ Head(q).from = t =>
              /\ Head(q).op = "read" /\ Head(q).arg = Type(t)
              /\ \A x \in OfType(Type(t)) : ~Has(Tail(q), x)
<1> DEFINE p == Tail(q)  r == Head(q)
<1>1. /\ 1 \in DOMAIN q /\ r = q[1]
      /\ \A i \in DOMAIN p :
           i \in Int /\ i + 1 \in DOMAIN q /\ i + 1 # 1 /\ p[i] = q[i + 1] /\ i + 1 > 1
    <2>1. /\ 1 \in DOMAIN q /\ r = q[1]
          /\ \A i \in DOMAIN p : i \in Int /\ i + 1 \in DOMAIN q /\ i + 1 # 1 /\ p[i] = q[i + 1]
        BY Removed
    <2>2. \A i \in DOMAIN q : i \in Nat \ {0}
        OBVIOUS
    <2> HIDE DEF p, r
    <2>3. \A i \in DOMAIN p : i + 1 > 1
        <3> TAKE i \in DOMAIN p
        <3>1. i + 1 \in Nat \ {0} /\ i + 1 # 1
            BY <2>1, <2>2
        <3> QED
            BY <3>1
    <2> QED
        BY <2>1, <2>3
<1> HIDE DEF p, r
<1>2. \A x : (Has(p, x) => Has(q, x)) /\ (Writes(r, x) => Has(q, x))
    BY <1>1 DEF Has
<1>3. ASSUME NEW x, Once(q, x)
      PROVE  Once(p, x) /\ (Writes(r, x) => ~Has(p, x))
    <2>1. ASSUME NEW i \in DOMAIN p, NEW j \in DOMAIN p, Writes(p[i], x), Writes(p[j], x)
          PROVE  i = j
        <3>1. i + 1 = j + 1
            BY <1>1, <1>3, <2>1 DEF Once
        <3> QED
            BY <1>1, <3>1
    <2>2. ASSUME Writes(r, x), NEW i \in DOMAIN p, Writes(p[i], x)
          PROVE  FALSE
        BY <1>1, <1>3, <2>2 DEF Once
    <2> QED
        BY <2>1, <2>2 DEF Once, Has
<1>4. ASSUME NEW x, NEW t, WrittenBy(q, x, t)
      PROVE  WrittenBy(p, x, t)
    BY <1>1, <1>4 DEF WrittenBy
<1>5. ASSUME NEW t \in Copiers, ReadLast(q, t)
      PROVE  /\ ReadLast(p, t)
             /\ r.from = t => /\ r.op = "read" /\ r.arg = Type(t)
                              /\ \A x \in OfType(Type(t)) : ~Has(p, x)
    <2>1. ASSUME NEW i \in DOMAIN p, p[i].from = t
          PROVE  /\ p[i].op = "read" /\ p[i].arg = Type(t)
                 /\ \A j \in DOMAIN p : j > i => \A x \in OfType(Type(t)) : ~Writes(p[j], x)
        <3>1. /\ q[i + 1].op = "read" /\ q[i + 1].arg = Type(t)
              /\ \A j \in DOMAIN q : j > i + 1 => \A x \in OfType(Type(t)) : ~Writes(q[j], x)
            BY <1>1, <1>5, <2>1 DEF ReadLast
        <3>2. ASSUME NEW j \in DOMAIN p, j > i
              PROVE  \A x \in OfType(Type(t)) : ~Writes(p[j], x)
            <4>1. j + 1 \in DOMAIN q /\ j + 1 > i + 1 /\ p[j] = q[j + 1]
                BY <1>1, <3>2
            <4> QED
                BY <3>1, <4>1
        <3> QED
            BY <1>1, <3>1, <3>2
    <2>2. ASSUME r.from = t
          PROVE  /\ r.op = "read" /\ r.arg = Type(t)
                 /\ \A x \in OfType(Type(t)) : ~Has(p, x)
        <3>1. /\ r.op = "read" /\ r.arg = Type(t)
              /\ \A j \in DOMAIN q : j > 1 => \A x \in OfType(Type(t)) : ~Writes(q[j], x)
            BY <1>1, <1>5, <2>2 DEF ReadLast
        <3> QED
            BY <1>1, <3>1 DEF Has
    <2> QED
        BY <2>1, <2>2 DEF ReadLast
<1>6. ASSUME NEW t, OnlyWrites(q, t)
      PROVE  OnlyWrites(p, t) /\ (r.from = t => r.op = "write")
    BY <1>1, <1>6 DEF OnlyWrites
<1> QED
    BY <1>2, <1>3, <1>4, <1>5, <1>6 DEF p, r

LEMMA OrphanWrites ==
  ASSUME queue \in Seq(Requests)
  PROVE  \A x : (Has(Orphaned, x) => Has(queue, x)) /\ (Once(queue, x) => Once(Orphaned, x))
<1>1. /\ DOMAIN Orphaned = DOMAIN queue
      /\ \A i \in DOMAIN queue : /\ Orphaned[i].op = queue[i].op
                                 /\ Orphaned[i].arg = queue[i].arg
    BY AllOrphans
<1>2. \A i \in DOMAIN queue : \A x : Writes(Orphaned[i], x) <=> Writes(queue[i], x)
    BY <1>1 DEF Writes
<1> QED
    BY <1>1, <1>2 DEF Has, Once

(* What is copied, by whom, and what its type is.                          *)
Copied == {x \in Texts : x.kind \in {"power", "up", "eio"}}

LEMMA CopiedTexts ==
  /\ \A l \in Lines : /\ LineText(l) \in Copied /\ Owner(l) \in Copiers
                      /\ LineText(l) \in OfType(Type(Owner(l)))
                      /\ \A t \in Copiers : t # Owner(l) => LineText(l) \notin OfType(Type(t))
                      /\ \A m \in Lines : LineText(l) = LineText(m) => l = m
  /\ \A b \in BootTimes : /\ UpText(b) \in Copied /\ UpText(b) \in OfType("power")
                            /\ UpText(b) \notin OfType("eio")
                            /\ \A c : UpText(b) = UpText(c) => b = c
  /\ \A l \in Lines, b \in BootTimes : LineText(l) # UpText(b)
  /\ \A x \in {Tilted, Uncovered} : /\ x \in Texts /\ x \notin Copied
                                    /\ \A t \in Copiers : x \notin OfType(Type(t))
<1>1. ASSUME NEW l \in Lines
      PROVE  /\ LineText(l) \in Copied /\ Owner(l) \in Copiers
             /\ LineText(l) \in OfType(Type(Owner(l)))
             /\ \A t \in Copiers : t # Owner(l) => LineText(l) \notin OfType(Type(t))
    BY LineTexts DEF Copied, OfType, Owner, Type, Copiers
<1>2. ASSUME NEW l \in Lines, NEW m \in Lines, LineText(l) = LineText(m)
      PROVE  l = m
    BY <1>2, LineTexts
<1>3. ASSUME NEW b \in BootTimes
      PROVE  /\ UpText(b) \in Copied /\ UpText(b) \in OfType("power")
             /\ UpText(b) \notin OfType("eio") /\ UpText(b).what = b
    BY UpTexts DEF Copied, OfType
<1>4. ASSUME NEW b, NEW c, UpText(b) = UpText(c)
      PROVE  b = c
    BY <1>4, UpTexts
<1>5. \A l \in Lines, b \in BootTimes : LineText(l) # UpText(b)
    BY LineTexts, UpTexts
<1>6. \A x \in {Tilted, Uncovered} : /\ x \in Texts /\ x \notin Copied
                                     /\ \A t \in Copiers : x \notin OfType(Type(t))
    BY AlarmTexts DEF Copied, OfType, Type, Copiers
<1> QED
    BY <1>1, <1>2, <1>3, <1>4, <1>5, <1>6

-----------------------------------------------------------------------------
(* The invariant of the copying.  No text is queued twice; what is in the  *)
(* log, queued and still to be written of a line has happened; nobody else *)
(* has queued a line that a thread will write; and the entries a thread    *)
(* does not find in its list are neither in the log nor in the queue, from *)
(* the request for the list on until the thread decides what to write.     *)
OneWrite == \A x \in Copied : Once(queue, x)

LinesLeft ==
  \A l \in Lines :
    /\ log[LineText(l)] + todo[Owner(l)][l] <= lines[l]
    /\ Has(queue, LineText(l)) => log[LineText(l)] + todo[Owner(l)][l] + 1 <= lines[l]

OwnWrites ==
  \A l \in Lines : todo[Owner(l)][l] > 0 => WrittenBy(queue, LineText(l), Owner(l))

Wanted ==
  \A l \in Lines : /\ todo["main"][l] > 0 => l \in LossLines
                   /\ todo["eio"][l] > 0 => l \notin PowerLines

UpsLeft ==
  \A b \in BootTimes :
    /\ log[UpText(b)] <= IF b \in past THEN 1 ELSE 0
    /\ Has(queue, UpText(b)) => log[UpText(b)] = 0 /\ b \in past

ListComplete ==
  \A t \in Copiers : pc[t] = Place(t) /\ call[t] = "wait" => ReadLast(queue, t)

ListFresh ==
  \A t \in Copiers : pc[t] = Place(t) /\ call[t] = "idle" =>
    \A x \in OfType(Type(t)) : x \notin existed[t] => log[x] = 0 /\ ~Has(queue, x)

LossesFresh ==
  pc["main"] = "losses" =>
    /\ OnlyWrites(queue, "main")
    /\ \A l \in PowerLines :
         LineText(l) \notin existed["main"] => log[LineText(l)] = 0 /\ ~Has(queue, LineText(l))

CopyInv == /\ OneWrite /\ LinesLeft /\ OwnWrites /\ Wanted /\ UpsLeft
           /\ ListComplete /\ ListFresh /\ LossesFresh

(* The values a copier counts with.                                        *)
LEMMA Counts ==
  ASSUME TInv
  PROVE  /\ \A x \in Texts : log[x] \in Nat
         /\ \A t \in Threads, l \in Lines : todo[t][l] \in Nat
         /\ \A l \in Lines : lines[l] \in Nat
         /\ btime \in BootTimes /\ btime \in past /\ boots \in 1..MaxBoots
         /\ queue \in Seq(Requests)
         /\ Copiers \subseteq Threads
         /\ \A l \in Lines : LineText(l) \in Texts /\ Owner(l) \in Copiers
         /\ \A b \in BootTimes : UpText(b) \in Texts
<1>1. /\ \A x \in Texts : log[x] \in Nat
      /\ \A l \in Lines : lines[l] \in Nat
      /\ btime \in BootTimes /\ btime \in past /\ boots \in 1..MaxBoots
    BY DEF TInv, WorldInv
<1>2. \A t \in Threads, l \in Lines : todo[t][l] \in Nat
    BY DEF TInv, ThreadInv
<1>3. queue \in Seq(Requests)
    BY DEF TInv, QueueInv
<1>4. Copiers \subseteq Threads
    BY DEF Copiers, Threads
<1> QED
    BY <1>1, <1>2, <1>3, <1>4, CopiedTexts DEF Copied

LEMMA CopyInit == Init => CopyInv
<1> SUFFICES ASSUME Init PROVE CopyInv
    OBVIOUS
<1>0. TInv
    BY TypeInit
<1>1. /\ \A x : ~Has(queue, x) /\ Once(queue, x)
      /\ \A x, t : WrittenBy(queue, x, t)
    BY EmptyWrites DEF Init
<1>2. /\ \A x \in Texts : log[x] = 0
      /\ \A t \in Threads, l \in Lines : todo[t][l] = 0
      /\ \A l \in Lines : lines[l] = 0
    BY DEF Init, NoLines
<1>3. \A t \in Copiers : pc[t] # Place(t)
    BY DEF Init, Copiers, Place, Threads
<1>4. pc["main"] # "losses" /\ "main" \in Threads /\ "eio" \in Threads
    BY DEF Init, Threads
<1>5. OneWrite /\ OwnWrites
    BY <1>1 DEF OneWrite, OwnWrites
<1>6. LinesLeft
    BY <1>0, <1>1, <1>2, Counts DEF LinesLeft
<1>7. Wanted
    BY <1>2, <1>4 DEF Wanted
<1>8. UpsLeft
    <2>1. \A b \in BootTimes : log[UpText(b)] = 0
        BY <1>0, <1>2, Counts
    <2> QED
        BY <1>1, <2>1 DEF UpsLeft
<1>9. ListComplete /\ ListFresh /\ LossesFresh
    BY <1>3, <1>4 DEF ListComplete, ListFresh, LossesFresh
<1> QED
    BY <1>5, <1>6, <1>7, <1>8, <1>9 DEF CopyInv

(* Nothing is sent, handled or read: what is left to write only shrinks,   *)
(* events only happen, and the lists stay.                                 *)
LEMMA Moves ==
  ASSUME TInv, TInv', CopyInv, UNCHANGED <<log, queue, past, existed>>,
         \A t \in Copiers, l \in Lines : todo'[t][l] <= todo[t][l],
         \A l \in Lines : lines[l] <= lines'[l],
         \A t \in Copiers : pc'[t] = Place(t) /\ call'[t] # "error" =>
           pc[t] = Place(t) /\ call'[t] = call[t],
         pc'["main"] = "losses" =>
           pc["main"] = "losses" \/ (pc["main"] = "up" /\ call["main"] = "idle")
  PROVE  CopyInv'
<1>1. OneWrite' /\ UpsLeft'
    BY DEF CopyInv, OneWrite, UpsLeft
<1>2. "main" \in Copiers /\ "eio" \in Copiers /\ Copiers \subseteq Threads
    BY DEF Copiers, Threads
<1>3. \A t \in Copiers, l \in Lines : todo[t][l] \in Nat /\ todo'[t][l] \in Nat
    BY <1>2 DEF TInv, ThreadInv
<1>4. LinesLeft'
    <2> SUFFICES ASSUME NEW l \in Lines
                 PROVE  /\ log'[LineText(l)] + todo'[Owner(l)][l] <= lines'[l]
                        /\ Has(queue', LineText(l)) =>
                             log'[LineText(l)] + todo'[Owner(l)][l] + 1 <= lines'[l]
        BY DEF LinesLeft
    <2> DEFINE g == log[LineText(l)]  n == todo[Owner(l)][l]  m == lines[l]
               nn == todo'[Owner(l)][l]  mm == lines'[l]
    <2>1. Owner(l) \in Copiers
        BY Counts
    <2>2. g \in Nat /\ n \in Nat /\ m \in Nat /\ nn \in Nat /\ mm \in Nat
        BY <1>3, <2>1, Counts DEF TInv, WorldInv
    <2>3. nn <= n /\ m <= mm
        BY <2>1
    <2>4. g + n <= m /\ (Has(queue, LineText(l)) => g + n + 1 <= m)
        BY DEF CopyInv, LinesLeft
    <2>5. log'[LineText(l)] = g /\ queue' = queue
        OBVIOUS
    <2> HIDE DEF g, n, m, nn, mm
    <2>6. g + nn <= mm /\ (Has(queue, LineText(l)) => g + nn + 1 <= mm)
        BY <2>2, <2>3, <2>4
    <2> QED
        BY <2>5, <2>6 DEF nn, mm
<1>5. \A t \in Copiers, l \in Lines : todo'[t][l] > 0 => todo[t][l] > 0
    BY <1>3
<1>6. OwnWrites' /\ Wanted'
    BY <1>2, <1>5, Counts DEF CopyInv, OwnWrites, Wanted
<1>7. ListComplete'
    BY DEF CopyInv, ListComplete
<1>8. ListFresh'
    BY DEF CopyInv, ListFresh
<1>9. LossesFresh'
    <2>1. CASE pc["main"] = "losses"
        BY <2>1 DEF CopyInv, LossesFresh
    <2>2. CASE pc["main"] = "up" /\ call["main"] = "idle"
        <3>1. \A x \in OfType("power") : x \notin existed["main"] => log[x] = 0 /\ ~Has(queue, x)
            BY <1>2, <2>2 DEF CopyInv, ListFresh, Place, Type
        <3>2. \A l \in PowerLines : LineText(l) \in OfType("power")
            BY CopiedTexts, Bounds DEF Owner, Type
        <3>3. OnlyWrites(queue, "main")
            BY <1>2, <2>2 DEF TInv, QueueInv, OnlyWrites
        <3> QED
            BY <3>1, <3>2, <3>3 DEF LossesFresh
    <2> QED
        BY <2>1, <2>2 DEF LossesFresh
<1> QED
    BY <1>1, <1>4, <1>6, <1>7, <1>8, <1>9 DEF CopyInv

(* The recorder's process ends or starts: it has nothing to write and no   *)
(* list, but its requests may stay with the server.                        *)
LEMMA Cleared ==
  ASSUME TInv, TInv', CopyInv, UNCHANGED <<log, lines>>, past \subseteq past',
         \A t \in Copiers, l \in Lines : todo'[t][l] = 0,
         \A t \in Copiers : pc'[t] # Place(t), pc'["main"] # "losses",
         \A x : (Has(queue', x) => Has(queue, x)) /\ (Once(queue, x) => Once(queue', x))
  PROVE  CopyInv'
<1>1. OneWrite'
    BY DEF CopyInv, OneWrite
<1>2. "main" \in Copiers /\ "eio" \in Copiers /\ Copiers \subseteq Threads
    BY DEF Copiers, Threads
<1>3. LinesLeft'
    <2> SUFFICES ASSUME NEW l \in Lines
                 PROVE  /\ log'[LineText(l)] + todo'[Owner(l)][l] <= lines'[l]
                        /\ Has(queue', LineText(l)) =>
                             log'[LineText(l)] + todo'[Owner(l)][l] + 1 <= lines'[l]
        BY DEF LinesLeft
    <2> DEFINE g == log[LineText(l)]  n == todo[Owner(l)][l]  m == lines[l]
               nn == todo'[Owner(l)][l]
    <2>1. g \in Nat /\ n \in Nat /\ m \in Nat /\ nn = 0
        BY <1>2, Counts
    <2>2. g + n <= m /\ (Has(queue, LineText(l)) => g + n + 1 <= m)
        BY DEF CopyInv, LinesLeft
    <2>3. log'[LineText(l)] = g /\ lines'[l] = m
        OBVIOUS
    <2> HIDE DEF g, n, m, nn
    <2>4. g + nn <= m /\ (Has(queue, LineText(l)) => g + nn + 1 <= m)
        BY <2>1, <2>2
    <2> QED
        BY <2>3, <2>4 DEF nn
<1>4. OwnWrites' /\ Wanted'
    BY <1>2, Counts DEF OwnWrites, Wanted
<1>5. UpsLeft'
    <2> SUFFICES ASSUME NEW b \in BootTimes
                 PROVE  /\ log'[UpText(b)] <= IF b \in past' THEN 1 ELSE 0
                        /\ Has(queue', UpText(b)) => log'[UpText(b)] = 0 /\ b \in past'
        BY DEF UpsLeft
    <2> DEFINE g == log[UpText(b)]
    <2>1. g \in Nat /\ past \subseteq past'
        BY Counts DEF TInv, WorldInv
    <2>2. /\ g <= IF b \in past THEN 1 ELSE 0
          /\ Has(queue, UpText(b)) => g = 0 /\ b \in past
        BY DEF CopyInv, UpsLeft
    <2>3. log'[UpText(b)] = g
        OBVIOUS
    <2> HIDE DEF g
    <2>4. /\ g <= IF b \in past' THEN 1 ELSE 0
          /\ Has(queue, UpText(b)) => g = 0 /\ b \in past'
        BY <2>1, <2>2
    <2> QED
        BY <2>3, <2>4
<1>6. ListComplete' /\ ListFresh' /\ LossesFresh'
    BY DEF ListComplete, ListFresh, LossesFresh
<1> QED
    BY <1>1, <1>3, <1>4, <1>5, <1>6 DEF CopyInv

(* A copier asks for its list.                                             *)
LEMMA Asked ==
  ASSUME TInv, TInv', CopyInv, NEW t \in Copiers, call[t] = "idle", serve = "up",
         Send(t, "read", Type(t)), Goto(t, Place(t)),
         UNCHANGED <<log, existed, todo, lines, past>>
  PROVE  CopyInv'
<1> DEFINE r == Request(t, "read", Type(t))
<1>1. r \in Requests /\ r.from = t /\ r.op = "read" /\ r.arg = Type(t) /\ \A x : ~Writes(r, x)
    BY ReadRequest DEF Request, Requests, Type, Writes, Copiers, Threads
<1>2. queue' = Append(queue, r) /\ call' = [call EXCEPT ![t] = "wait"]
    BY DEF Send, Request
<1>3. pc' = [pc EXCEPT ![t] = Place(t)]
    BY DEF Goto
<1> HIDE DEF r
<1>4. queue \in Seq(Requests) /\ t \in Threads /\ t # "orphan"
    BY Counts DEF Copiers, Threads
<1>5. /\ \A x : Has(queue', x) => Has(queue, x)
      /\ \A x : Once(queue, x) => Once(queue', x)
      /\ \A x, u : WrittenBy(queue, x, u) => WrittenBy(queue', x, u)
    BY <1>1, <1>2, <1>4, AppendWrites
<1>6. \A i \in DOMAIN queue : queue[i].from # t
    BY <1>4 DEF TInv, QueueInv
<1>7. /\ call' \in [Threads -> {"idle", "wait", "error"}]
      /\ \A u \in Threads : u # t => call'[u] = call[u] /\ pc'[u] = pc[u]
      /\ call'[t] = "wait" /\ pc'[t] = Place(t)
    BY <1>2, <1>3, <1>4 DEF TInv, QueueInv, ThreadInv
<1>8. OneWrite' /\ OwnWrites' /\ Wanted'
    BY <1>5 DEF CopyInv, OneWrite, OwnWrites, Wanted
<1>9. LinesLeft' /\ UpsLeft'
    BY <1>5 DEF CopyInv, LinesLeft, UpsLeft
<1>10. ListComplete'
    <2> SUFFICES ASSUME NEW u \in Copiers, pc'[u] = Place(u), call'[u] = "wait"
                 PROVE  ReadLast(queue', u)
        BY DEF ListComplete
    <2>1. CASE u = t
        BY <1>1, <1>2, <1>4, <1>6, <2>1, AppendRead
    <2>2. CASE u # t
        <3>1. ReadLast(queue, u)
            BY <1>7, <2>2, Counts DEF CopyInv, ListComplete
        <3> QED
            BY <1>1, <1>2, <1>4, <2>2, <3>1, AppendRead
    <2> QED
        BY <2>1, <2>2
<1>11. ListFresh'
    BY <1>5, <1>7, Counts DEF CopyInv, ListFresh
<1>12. LossesFresh'
    <2>1. pc'["main"] = "losses" => pc["main"] = "losses"
        BY <1>7 DEF Place, Copiers, Threads
    <2>2. pc'["main"] = "losses" => t # "main"
        BY <1>7 DEF Place
    <2>3. \A u : OnlyWrites(queue, u) /\ t # u => OnlyWrites(queue', u)
        BY <1>1, <1>2, <1>4, AppendWrites
    <2> QED
        BY <1>5, <2>1, <2>2, <2>3 DEF CopyInv, LossesFresh
<1> QED
    BY <1>8, <1>9, <1>10, <1>11, <1>12 DEF CopyInv

(* A thread sends a text to be written: what is copied only when nobody    *)
(* else has sent it, a line from those left, a power-up only for this boot.*)
LEMMA Written ==
  ASSUME TInv, TInv', CopyInv, NEW t \in Threads, call[t] = "idle", serve = "up",
         NEW x \in Texts, Send(t, "write", x),
         UNCHANGED <<log, existed, lines, past>>,
         \A u \in Threads : u # t => pc'[u] = pc[u],
         t \in Copiers => pc'[t] # Place(t),
         t = "main" /\ pc'[t] = "losses" => pc[t] = "up" /\ \A l \in Lines : x # LineText(l),
         \A u \in Copiers : u # t => x \notin OfType(Type(u)),
         x \in Copied => ~Has(queue, x),
         \A u \in Copiers, l \in Lines : todo'[u][l] <= todo[u][l],
         \A l \in Lines : x = LineText(l) => Owner(l) = t /\ todo'[t][l] + 1 <= todo[t][l],
         \A b \in BootTimes : x = UpText(b) => b \in past /\ log[x] = 0
  PROVE  CopyInv'
<1> DEFINE r == Request(t, "write", x)
<1>1. r \in Requests /\ r.from = t /\ \A y : Writes(r, y) <=> y = x
    BY WriteRequest DEF Request, Writes
<1>2. queue' = Append(queue, r) /\ call' = [call EXCEPT ![t] = "wait"]
    BY DEF Send, Request
<1> HIDE DEF r
<1>4. queue \in Seq(Requests) /\ Copiers \subseteq Threads /\ "main" \in Copiers /\ "main" \in Threads
    BY Counts DEF Copiers, Threads
<1>5. /\ \A y : Has(queue', y) => Has(queue, y) \/ y = x
      /\ \A y : Once(queue, y) /\ (y = x => ~Has(queue, y)) => Once(queue', y)
      /\ \A y, u : WrittenBy(queue, y, u) /\ (y = x => t = u) => WrittenBy(queue', y, u)
    BY <1>1, <1>2, <1>4, AppendWrites
<1>6. /\ \A u \in Threads : u # t => call'[u] = call[u] /\ pc'[u] = pc[u]
      /\ call'[t] = "wait"
    BY <1>2, <1>4 DEF TInv, QueueInv
<1>7. OneWrite'
    BY <1>5 DEF CopyInv, OneWrite
<1>8. \A u \in Copiers, l \in Lines : todo[u][l] \in Nat /\ todo'[u][l] \in Nat
    BY <1>4 DEF TInv, ThreadInv
<1>9. LinesLeft'
    <2> SUFFICES ASSUME NEW l \in Lines
                 PROVE  /\ log'[LineText(l)] + todo'[Owner(l)][l] <= lines'[l]
                        /\ Has(queue', LineText(l)) =>
                             log'[LineText(l)] + todo'[Owner(l)][l] + 1 <= lines'[l]
        BY DEF LinesLeft
    <2> DEFINE y == LineText(l)  g == log[LineText(l)]  n == todo[Owner(l)][l]  m == lines[l]
               nn == todo'[Owner(l)][l]
    <2>1. Owner(l) \in Copiers
        BY Counts
    <2>2. g \in Nat /\ n \in Nat /\ m \in Nat /\ nn \in Nat
        BY <1>8, <2>1, Counts
    <2>3. nn <= n /\ (y = x => nn + 1 <= n)
        BY <2>1
    <2>4. g + n <= m /\ (Has(queue, y) => g + n + 1 <= m)
        BY DEF CopyInv, LinesLeft
    <2>5. log'[y] = g /\ lines'[l] = m /\ (Has(queue', y) => Has(queue, y) \/ y = x)
        BY <1>5
    <2> HIDE DEF y, g, n, m, nn
    <2>6. g + nn <= m /\ (Has(queue', y) => g + nn + 1 <= m)
        BY <2>2, <2>3, <2>4, <2>5
    <2> QED
        BY <2>5, <2>6 DEF y, nn
<1>10. \A u \in Copiers, l \in Lines : todo'[u][l] > 0 => todo[u][l] > 0
    BY <1>8
<1>11. OwnWrites'
    <2> SUFFICES ASSUME NEW l \in Lines, todo'[Owner(l)][l] > 0
                 PROVE  WrittenBy(queue', LineText(l), Owner(l))
        BY DEF OwnWrites
    <2>1. Owner(l) \in Copiers
        BY Counts
    <2>2. WrittenBy(queue, LineText(l), Owner(l))
        BY <1>10, <2>1 DEF CopyInv, OwnWrites
    <2> QED
        BY <1>5, <2>2
<1>12. Wanted'
    BY <1>10 DEF CopyInv, Wanted, Copiers
<1>13. UpsLeft'
    BY <1>5 DEF CopyInv, UpsLeft
<1>14. ListComplete'
    <2> SUFFICES ASSUME NEW u \in Copiers, pc'[u] = Place(u), call'[u] = "wait"
                 PROVE  ReadLast(queue', u)
        BY DEF ListComplete
    <2>1. u # t
        OBVIOUS
    <2>2. ReadLast(queue, u)
        BY <1>4, <1>6, <2>1 DEF CopyInv, ListComplete
    <2>3. \A y \in OfType(Type(u)) : ~Writes(r, y)
        BY <1>1, <2>1
    <2> QED
        BY <1>1, <1>2, <1>4, <2>1, <2>2, <2>3, AppendRead
<1>15. ListFresh'
    <2> SUFFICES ASSUME NEW u \in Copiers, pc'[u] = Place(u), call'[u] = "idle",
                        NEW y \in OfType(Type(u)), y \notin existed'[u]
                 PROVE  log'[y] = 0 /\ ~Has(queue', y)
        BY DEF ListFresh
    <2>1. u # t
        OBVIOUS
    <2>2. log[y] = 0 /\ ~Has(queue, y)
        BY <1>4, <1>6, <2>1 DEF CopyInv, ListFresh
    <2>3. y # x
        BY <2>1
    <2> QED
        BY <1>5, <2>2, <2>3
<1>16. LossesFresh'
    <2>0. pc'["main"] = "losses" => OnlyWrites(queue', "main")
        <3>1. r.op = "write"
            BY DEF r, Request
        <3>2. OnlyWrites(queue, "main") => OnlyWrites(queue', "main")
            BY <1>1, <1>2, <1>4, <3>1, AppendWrites
        <3>3. CASE t = "main"
            BY <1>4, <3>2, <3>3 DEF TInv, QueueInv, OnlyWrites
        <3>4. CASE t # "main"
            BY <1>4, <1>6, <3>2, <3>4 DEF CopyInv, LossesFresh
        <3> QED
            BY <3>3, <3>4
    <2> SUFFICES ASSUME pc'["main"] = "losses", NEW l \in PowerLines,
                        LineText(l) \notin existed'["main"]
                 PROVE  log'[LineText(l)] = 0 /\ ~Has(queue', LineText(l))
        BY <2>0 DEF LossesFresh
    <2>1. l \in Lines /\ LineText(l) \in OfType(Type("main"))
        BY Bounds, CopiedTexts DEF Owner
    <2>2. log[LineText(l)] = 0 /\ ~Has(queue, LineText(l)) /\ LineText(l) # x
        <3>1. CASE t = "main"
            <4>1. pc["main"] = "up" /\ call["main"] = "idle" /\ LineText(l) # x
                BY <2>1, <3>1
            <4> QED
                BY <1>4, <2>1, <4>1 DEF CopyInv, ListFresh, Place
        <3>2. CASE t # "main"
            <4>1. pc["main"] = "losses" /\ LineText(l) # x
                BY <1>4, <1>6, <2>1, <3>2
            <4> QED
                BY <4>1 DEF CopyInv, LossesFresh
        <3> QED
            BY <3>1, <3>2
    <2> QED
        BY <1>5, <2>2
<1> QED
    BY <1>7, <1>9, <1>11, <1>12, <1>13, <1>14, <1>15, <1>16 DEF CopyInv

(* A copier decides what to write: lines nobody has recorded or queued.    *)
LEMMA Fetched ==
  ASSUME TInv, TInv', CopyInv, NEW t \in Copiers, NEW wanted \in SUBSET Lines,
         Fetch(t, wanted), UNCHANGED <<log, queue, call, existed, lines, past>>,
         \A u \in Copiers : u # t => pc'[u] = pc[u],
         pc'[t] \notin {"up", "losses", "fetch"},
         \A l \in wanted : Owner(l) = t /\ (t = "main" => l \in LossLines),
         \A l \in wanted : LineText(l) \notin existed[t] =>
           log[LineText(l)] = 0 /\ ~Has(queue, LineText(l))
  PROVE  CopyInv'
<1>1. Copiers \subseteq Threads /\ "main" \in Copiers /\ "eio" \in Copiers
    BY DEF Copiers, Threads
<1>2. \A u \in Copiers, l \in Lines : todo[u][l] \in Nat /\ todo'[u][l] \in Nat
    BY <1>1 DEF TInv, ThreadInv
<1>3. /\ \A u \in Copiers : u # t => todo'[u] = todo[u]
      /\ \A l \in Lines : todo'[t][l] > 0 =>
           /\ l \in wanted /\ LineText(l) \notin existed[t] /\ todo'[t][l] = lines[l]
    <2>1. todo \in [Threads -> [Lines -> Nat]]
        BY DEF TInv, ThreadInv
    <2>2. CASE todo' = [todo EXCEPT ![t] = NewLines(t, wanted)]
        BY <1>1, <2>1, <2>2 DEF NewLines
    <2>3. CASE todo' = [todo EXCEPT ![t] = NoLines]
        BY <1>1, <2>1, <2>3 DEF NoLines
    <2> QED
        BY <2>2, <2>3 DEF Fetch
<1>4. \A l \in Lines : todo'[t][l] > 0 =>
        /\ Owner(l) = t /\ (t = "main" => l \in LossLines) /\ todo'[t][l] = lines[l]
        /\ log[LineText(l)] = 0 /\ ~Has(queue, LineText(l))
    BY <1>3
<1>5. OneWrite' /\ UpsLeft'
    BY DEF CopyInv, OneWrite, UpsLeft
<1>6. LinesLeft'
    <2> SUFFICES ASSUME NEW l \in Lines
                 PROVE  /\ log'[LineText(l)] + todo'[Owner(l)][l] <= lines'[l]
                        /\ Has(queue', LineText(l)) =>
                             log'[LineText(l)] + todo'[Owner(l)][l] + 1 <= lines'[l]
        BY DEF LinesLeft
    <2> DEFINE h == Has(queue, LineText(l))
               g == log[LineText(l)]  n == todo[Owner(l)][l]  m == lines[l]
               nn == todo'[Owner(l)][l]
    <2>1. Owner(l) \in Copiers
        BY Counts
    <2>2. g \in Nat /\ n \in Nat /\ m \in Nat /\ nn \in Nat
        BY <1>1, <1>2, <2>1, Counts
    <2>3. g + n <= m /\ (h => g + n + 1 <= m)
        BY DEF CopyInv, LinesLeft
    <2>4. nn = n \/ nn = 0 \/ (nn = m /\ g = 0 /\ ~h)
        <3>1. CASE Owner(l) # t
            BY <1>3, <2>1, <3>1
        <3>2. CASE Owner(l) = t
            <4>1. CASE todo'[t][l] > 0
                BY <1>4, <3>2, <4>1
            <4>2. CASE ~(todo'[t][l] > 0)
                BY <1>2, <3>2, <4>2
            <4> QED
                BY <4>1, <4>2
        <3> QED
            BY <3>1, <3>2
    <2>5. log'[LineText(l)] = g /\ lines'[l] = m /\ queue' = queue
        OBVIOUS
    <2> HIDE DEF h, g, n, m, nn
    <2>6. g + nn <= m /\ (h => g + nn + 1 <= m)
        BY <2>2, <2>3, <2>4
    <2> QED
        BY <2>5, <2>6 DEF nn, h
<1>7. OwnWrites'
    <2> SUFFICES ASSUME NEW l \in Lines, todo'[Owner(l)][l] > 0
                 PROVE  WrittenBy(queue, LineText(l), Owner(l))
        BY DEF OwnWrites
    <2>1. Owner(l) \in Copiers
        BY Counts
    <2>2. CASE Owner(l) = t
        BY <1>4, <2>2 DEF Has, WrittenBy
    <2>3. CASE Owner(l) # t
        BY <1>3, <2>1, <2>3 DEF CopyInv, OwnWrites
    <2> QED
        BY <2>2, <2>3
<1>8. Wanted'
    <2> SUFFICES ASSUME NEW l \in Lines
                 PROVE  /\ todo'["main"][l] > 0 => l \in LossLines
                        /\ todo'["eio"][l] > 0 => l \notin PowerLines
        BY DEF Wanted
    <2>1. todo'["main"][l] > 0 => l \in LossLines
        BY <1>1, <1>3, <1>4 DEF CopyInv, Wanted
    <2>2. todo'["eio"][l] > 0 => l \notin PowerLines
        BY <1>1, <1>3, <1>4 DEF CopyInv, Wanted, Owner
    <2> QED
        BY <2>1, <2>2
<1>9. pc'[t] # Place(t) /\ (t = "main" => pc'["main"] # "losses")
    BY DEF Place
<1>10. ListComplete' /\ ListFresh' /\ LossesFresh'
    BY <1>1, <1>9 DEF CopyInv, ListComplete, ListFresh, LossesFresh
<1> QED
    BY <1>5, <1>6, <1>7, <1>8, <1>10 DEF CopyInv

(* What a request does to the log.                                         *)
LEMMA EffectEntry ==
  ASSUME TInv, NEW r \in Requests, Effect(r)
  PROVE  \A x \in Texts : log'[x] = IF Writes(r, x) THEN log[x] + 1 ELSE log[x]
<1>1. log \in [Texts -> Nat]
    BY DEF TInv, WorldInv
<1>2. CASE r.op = "write"
    <2>1. log' = [log EXCEPT ![r.arg] = @ + 1] /\ r.arg \in Texts
        BY <1>2, RequestParts DEF Effect
    <2> QED
        BY <1>1, <1>2, <2>1 DEF Writes
<1>3. CASE r.op # "write"
    BY <1>3 DEF Effect, Writes
<1> QED
    BY <1>2, <1>3

(* The first request takes effect and leaves the queue: a copied text is   *)
(* then not queued any more, and an entry that is in neither stays so.     *)
LEMMA EffectCopied ==
  ASSUME TInv, TInv', CopyInv, NEW r, r = Head(queue), queue # <<>>, Effect(r),
         queue' \in {Tail(queue), <<>>}, UNCHANGED <<lines, past, todo>>
  PROVE  /\ OneWrite' /\ LinesLeft' /\ OwnWrites' /\ Wanted' /\ UpsLeft'
         /\ \A x \in Texts : log[x] = 0 /\ ~Has(queue, x) => log'[x] = 0 /\ ~Has(queue', x)
<1>1. queue \in Seq(Requests) /\ Copiers \subseteq Threads
    BY Counts
<1>2. r \in Requests
    BY <1>1, Removed
<1>3. \A x \in Texts : log'[x] = IF Writes(r, x) THEN log[x] + 1 ELSE log[x]
    BY <1>2, EffectEntry
<1>4. /\ \A x : Has(queue', x) => Has(queue, x)
      /\ \A x : Writes(r, x) => Has(queue, x)
      /\ \A x : Once(queue, x) => Once(queue', x) /\ (Writes(r, x) => ~Has(queue', x))
      /\ \A x, t : WrittenBy(queue, x, t) => WrittenBy(queue', x, t)
    <2>1. CASE queue' = Tail(queue)
        BY <1>1, <2>1, TailWrites
    <2>2. CASE queue' = <<>>
        <3>1. \A x : Writes(r, x) => Has(queue, x)
            BY <1>1, TailWrites
        <3>2. /\ \A x : ~Has(queue', x) /\ Once(queue', x)
              /\ \A x, t : WrittenBy(queue', x, t)
            BY <2>2, EmptyWrites
        <3> QED
            BY <3>1, <3>2
    <2> QED
        BY <2>1, <2>2
<1>5. OneWrite' /\ OwnWrites' /\ Wanted'
    BY <1>4 DEF CopyInv, OneWrite, OwnWrites, Wanted
<1>6. LinesLeft'
    <2> SUFFICES ASSUME NEW l \in Lines
                 PROVE  /\ log'[LineText(l)] + todo'[Owner(l)][l] <= lines'[l]
                        /\ Has(queue', LineText(l)) =>
                             log'[LineText(l)] + todo'[Owner(l)][l] + 1 <= lines'[l]
        BY DEF LinesLeft
    <2> DEFINE w == Writes(r, LineText(l))  h == Has(queue, LineText(l))
               hh == Has(queue', LineText(l))
               g == log[LineText(l)]  n == todo[Owner(l)][l]  m == lines[l]
               gg == log'[LineText(l)]
    <2>1. Owner(l) \in Copiers /\ LineText(l) \in Texts
        BY Counts
    <2>2. g \in Nat /\ n \in Nat /\ m \in Nat
        BY <1>1, <2>1, Counts
    <2>3. gg = IF w THEN g + 1 ELSE g
        BY <1>3, <2>1
    <2>4. g + n <= m /\ (h => g + n + 1 <= m)
        BY DEF CopyInv, LinesLeft
    <2>5. (hh => h) /\ (w => h /\ ~hh)
        BY <1>4, CopiedTexts DEF CopyInv, OneWrite
    <2>6. todo'[Owner(l)][l] = n /\ lines'[l] = m
        OBVIOUS
    <2> HIDE DEF w, h, hh, g, n, m, gg
    <2>7. gg + n <= m /\ (hh => gg + n + 1 <= m)
        BY <2>2, <2>3, <2>4, <2>5
    <2> QED
        BY <2>6, <2>7 DEF gg, hh
<1>7. UpsLeft'
    <2> SUFFICES ASSUME NEW b \in BootTimes
                 PROVE  /\ log'[UpText(b)] <= IF b \in past' THEN 1 ELSE 0
                        /\ Has(queue', UpText(b)) => log'[UpText(b)] = 0 /\ b \in past'
        BY DEF UpsLeft
    <2> DEFINE w == Writes(r, UpText(b))  h == Has(queue, UpText(b))  hh == Has(queue', UpText(b))
               g == log[UpText(b)]  gg == log'[UpText(b)]
    <2>1. UpText(b) \in Texts /\ UpText(b) \in Copied
        BY Counts, CopiedTexts
    <2>2. g \in Nat
        BY <2>1, Counts
    <2>3. gg = IF w THEN g + 1 ELSE g
        BY <1>3, <2>1
    <2>4. /\ g <= IF b \in past THEN 1 ELSE 0
          /\ h => g = 0 /\ b \in past
        BY DEF CopyInv, UpsLeft
    <2>5. (hh => h) /\ (w => h /\ ~hh)
        BY <1>4, <2>1 DEF CopyInv, OneWrite
    <2> HIDE DEF w, h, hh, g, gg
    <2>6. /\ gg <= IF b \in past THEN 1 ELSE 0
          /\ hh => gg = 0 /\ b \in past
        BY <2>2, <2>3, <2>4, <2>5
    <2> QED
        BY <2>6 DEF gg, hh
<1>8. \A x \in Texts : log[x] = 0 /\ ~Has(queue, x) => log'[x] = 0 /\ ~Has(queue', x)
    BY <1>3, <1>4
<1> QED
    BY <1>5, <1>6, <1>7, <1>8

LEMMA Handled == TInv /\ TInv' /\ CopyInv /\ Handle => CopyInv'
<1> SUFFICES ASSUME TInv, TInv', CopyInv, Handle PROVE CopyInv'
    OBVIOUS
<1> DEFINE r == Head(queue)
<1>1. /\ queue # <<>> /\ queue' = Tail(queue) /\ Effect(r) /\ Answer(r)
      /\ UNCHANGED <<serve, unit, pc, todo, hasEio, seen, worldVars>>
    BY DEF Handle
<1>2. /\ call' = [t \in Threads |-> IF t = r.from THEN "idle" ELSE call[t]]
      /\ existed' = IF r.op = "read" /\ r.from \in Threads
                    THEN [existed EXCEPT ![r.from] = {x \in OfType(r.arg) : log[x] > 0}]
                    ELSE existed
    BY <1>1 DEF Answer
<1>3. queue \in Seq(Requests) /\ Copiers \subseteq Threads /\ "main" \in Copiers
    BY Counts DEF Copiers
<1>4. /\ OneWrite' /\ LinesLeft' /\ OwnWrites' /\ Wanted' /\ UpsLeft'
      /\ \A x \in Texts : log[x] = 0 /\ ~Has(queue, x) => log'[x] = 0 /\ ~Has(queue', x)
    BY <1>1, EffectCopied DEF worldVars, clockVars
<1>5. /\ \A t \in Copiers : ReadLast(queue, t) => ReadLast(Tail(queue), t)
      /\ \A t \in Copiers : ReadLast(queue, t) /\ r.from = t =>
           /\ r.op = "read" /\ r.arg = Type(t)
           /\ \A x \in OfType(Type(t)) : ~Has(Tail(queue), x)
    BY <1>1, <1>3, TailWrites
<1>6. r \in Requests /\ 1 \in DOMAIN queue /\ r = queue[1]
    BY <1>1, <1>3, Removed
<1>7. \A t \in Threads : t = r.from => call[t] = "wait"
    BY <1>6 DEF TInv, QueueInv
<1>8. r \in Requests => \A x \in Texts : log'[x] = IF Writes(r, x) THEN log[x] + 1 ELSE log[x]
    BY <1>1, EffectEntry
<1>9. existed \in [Threads -> SUBSET Texts] /\ log \in [Texts -> Nat]
    BY DEF TInv, ThreadInv, WorldInv
<1> HIDE DEF r
<1>10. ListComplete'
    BY <1>1, <1>2, <1>3, <1>5 DEF CopyInv, ListComplete
<1>11. ListFresh'
    <2> SUFFICES ASSUME NEW t \in Copiers, pc[t] = Place(t), call'[t] = "idle",
                        NEW x \in OfType(Type(t)), x \notin existed'[t]
                 PROVE  log'[x] = 0 /\ ~Has(queue', x)
        BY <1>1 DEF ListFresh
    <2>1. x \in Texts
        BY DEF OfType
    <2>2. CASE t = r.from
        <3>1. ReadLast(queue, t)
            BY <1>3, <1>7, <2>2 DEF CopyInv, ListComplete
        <3>2. r.op = "read" /\ r.arg = Type(t) /\ ~Has(queue', x)
            BY <1>1, <1>5, <2>2, <3>1
        <3>3. existed'[t] = {y \in OfType(Type(t)) : log[y] > 0}
            BY <1>2, <1>3, <1>9, <2>2, <3>2
        <3>4. ~(log[x] > 0)
            BY <3>3
        <3>5. log'[x] = log[x] /\ log[x] \in Nat
            BY <1>6, <1>8, <1>9, <2>1, <3>2 DEF Writes
        <3> QED
            BY <3>2, <3>4, <3>5
    <2>3. CASE t # r.from
        <3>1. call[t] = "idle" /\ existed'[t] = existed[t]
            BY <1>2, <1>3, <1>9, <2>3
        <3>2. log[x] = 0 /\ ~Has(queue, x)
            BY <3>1 DEF CopyInv, ListFresh
        <3> QED
            BY <1>4, <2>1, <3>2
    <2> QED
        BY <2>2, <2>3
<1>12. LossesFresh'
    <2>0. pc["main"] = "losses" =>
            OnlyWrites(queue', "main") /\ (r.from = "main" => r.op = "write")
        BY <1>1, <1>3, TailWrites DEF CopyInv, LossesFresh, r
    <2> SUFFICES ASSUME pc["main"] = "losses", NEW l \in PowerLines,
                        LineText(l) \notin existed'["main"]
                 PROVE  log'[LineText(l)] = 0 /\ ~Has(queue', LineText(l))
        BY <1>1, <2>0 DEF LossesFresh
    <2>1. LineText(l) \in Texts
        BY Bounds, Counts
    <2>2. existed'["main"] = existed["main"]
        BY <1>2, <1>3, <1>9, <2>0 DEF Threads
    <2>3. log[LineText(l)] = 0 /\ ~Has(queue, LineText(l))
        BY <2>2 DEF CopyInv, LossesFresh
    <2> QED
        BY <1>4, <2>1, <2>3
<1> QED
    BY <1>4, <1>10, <1>11, <1>12 DEF CopyInv

(* The server is lost with its queue; its first request may have been      *)
(* carried out already, and whoever waits learns of nothing.               *)
LEMMA ServerLost == TInv /\ TInv' /\ CopyInv /\ ServeCrash => CopyInv'
<1> SUFFICES ASSUME TInv, TInv', CopyInv, ServeCrash PROVE CopyInv'
    OBVIOUS
<1>1. /\ queue' = <<>> /\ UNCHANGED <<pc, existed, todo, lines, past>>
      /\ log' = log \/ (queue # <<>> /\ Effect(Head(queue)))
      /\ call' = [t \in Threads |-> IF call[t] = "wait" THEN "error" ELSE call[t]]
    BY DEF ServeCrash, Mishap, clockVars
<1>2. /\ \A x : ~Has(queue', x) /\ Once(queue', x)
      /\ \A x, t : WrittenBy(queue', x, t)
      /\ \A t : OnlyWrites(queue', t)
    BY <1>1, EmptyWrites
<1>3. /\ OneWrite' /\ LinesLeft' /\ OwnWrites' /\ Wanted' /\ UpsLeft'
      /\ \A x \in Texts : log[x] = 0 /\ ~Has(queue, x) => log'[x] = 0 /\ ~Has(queue', x)
    <2>1. CASE log' = log
        BY <1>1, <1>2, <2>1
        DEF CopyInv, OneWrite, LinesLeft, OwnWrites, Wanted, UpsLeft
    <2>2. CASE queue # <<>> /\ Effect(Head(queue))
        BY <1>1, <2>2, EffectCopied
    <2> QED
        BY <1>1, <2>1, <2>2
<1>4. \A t \in Copiers : /\ call'[t] # "wait"
                         /\ call'[t] = "idle" => call[t] = "idle"
    BY <1>1, Counts
<1>5. \A t : OfType(t) \subseteq Texts
    BY DEF OfType
<1>6. ListComplete' /\ ListFresh'
    BY <1>1, <1>3, <1>4, <1>5 DEF CopyInv, ListComplete, ListFresh
<1>7. LossesFresh'
    <2>1. \A l \in PowerLines : LineText(l) \in Texts
        BY Bounds, Counts
    <2> QED
        BY <1>1, <1>2, <1>3, <2>1 DEF CopyInv, LossesFresh
<1> QED
    BY <1>3, <1>6, <1>7 DEF CopyInv

-----------------------------------------------------------------------------
(* Every step of the services keeps it.                                    *)
LEMMA SameTodo ==
  ASSUME TInv, todo' = todo
  PROVE  \A t \in Copiers, l \in Lines : todo'[t][l] <= todo[t][l]
BY Counts

LEMMA SameLines ==
  ASSUME TInv, lines' = lines
  PROVE  \A l \in Lines : lines[l] <= lines'[l]
BY Counts

(* One thread goes on, and nothing is sent.                                *)
LEMMA Goes ==
  ASSUME TInv, TInv', CopyInv, NEW t \in Threads, NEW place, Goto(t, place),
         UNCHANGED <<log, queue, past, existed, lines>>,
         \A u \in Threads : u # t => call'[u] = call[u],
         place \in {"up", "fetch"} => call'[t] = "error",
         place = "losses" => t = "main" /\ pc[t] = "up" /\ call[t] = "idle",
         \A u \in Copiers, l \in Lines : todo'[u][l] <= todo[u][l]
  PROVE  CopyInv'
<1>1. pc \in [Threads -> {"off", "start", "probe", "power", "up", "losses", "loss",
                "spawn", "join", "list", "fetch", "record", "tilt", "cover"}]
    BY DEF TInv, ThreadInv
<1>2. pc'[t] = place /\ \A u \in Threads : u # t => pc'[u] = pc[u]
    BY <1>1 DEF Goto
<1>3. Copiers \subseteq Threads /\ "main" \in Threads
    BY DEF Copiers, Threads
<1>4. \A u \in Copiers : pc'[u] = Place(u) /\ call'[u] # "error" =>
        pc[u] = Place(u) /\ call'[u] = call[u]
    <2> TAKE u \in Copiers
    <2>1. CASE u = t
        BY <1>2, <2>1 DEF Place
    <2>2. CASE u # t
        BY <1>2, <1>3, <2>2
    <2> QED
        BY <2>1, <2>2
<1>5. pc'["main"] = "losses" =>
        pc["main"] = "losses" \/ (pc["main"] = "up" /\ call["main"] = "idle")
    BY <1>2, <1>3
<1> QED
    BY <1>4, <1>5, SameLines, Moves

(* The process starts or ends.                                             *)
LEMMA StartsOrEnds ==
  ASSUME TInv, TInv', CopyInv, StartRecord \/ (\E state : EndRecord(state)),
         UNCHANGED <<log, lines>>, past \subseteq past', queue' \in {queue, Orphaned, <<>>}
  PROVE  CopyInv'
<1>1. Copiers \subseteq Threads /\ "main" \in Threads /\ queue \in Seq(Requests)
    BY Counts DEF Threads
<1>2. /\ \A t \in Copiers : pc'[t] # Place(t)
      /\ pc'["main"] # "losses"
      /\ \A t \in Copiers, l \in Lines : todo'[t][l] = 0
    BY <1>1 DEF StartRecord, EndRecord, Place, Copiers, NoLines
<1>3. \A x : (Has(queue', x) => Has(queue, x)) /\ (Once(queue, x) => Once(queue', x))
    <2>1. CASE queue' = queue
        BY <2>1
    <2>2. CASE queue' = Orphaned
        BY <1>1, <2>2, OrphanWrites
    <2>3. CASE queue' = <<>>
        BY <2>3, EmptyWrites
    <2> QED
        BY <2>1, <2>2, <2>3
<1> QED
    BY <1>2, <1>3, Cleared

LEMMA SamePast ==
  ASSUME past' = past
  PROVE  past \subseteq past'
OBVIOUS

LEMMA SendLost ==
  ASSUME TInv, NEW t \in Threads, NEW op, NEW arg, Send(t, op, arg), serve # "up"
  PROVE  /\ queue' = queue /\ call'[t] = "error"
         /\ \A u \in Threads : u # t => call'[u] = call[u]
BY DEF Send, TInv, QueueInv

(* A thread without a call has no request with the server.                 *)
LEMMA NotQueued ==
  ASSUME TInv, CopyInv, NEW t \in Copiers, call[t] = "idle", NEW x, WrittenBy(queue, x, t)
  PROVE  ~Has(queue, x)
BY DEF TInv, QueueInv, WrittenBy, Has, Copiers, Threads

LEMMA MainCopies ==
  ASSUME TInv, TInv', CopyInv,
         \/ WaitServe \/ ProbeEiod \/ ListPower \/ RecordUp \/ FetchLosses \/ Spawn \/ Join
  PROVE  CopyInv'
<1>0. "main" \in Threads /\ "eio" \in Threads /\ "main" \in Copiers /\ Copiers = {"main", "eio"}
    BY DEF Threads, Copiers
<1>1. CASE WaitServe
    <2>1. UNCHANGED <<log, queue, lines, past>>
        BY <1>1 DEF WaitServe, worldVars, clockVars
    <2>2. CASE Goto("main", "probe") /\ UNCHANGED <<call, existed, todo>>
        BY <1>0, <2>1, <2>2, SameTodo, Goes
    <2>3. CASE EndRecord("failed")
        BY <2>1, <2>3, SamePast, StartsOrEnds
    <2> QED
        BY <1>1, <2>2, <2>3 DEF WaitServe
<1>2. CASE ProbeEiod
    <2>1. UNCHANGED <<log, queue, lines, past, call, existed, todo>> /\ Goto("main", "power")
        BY <1>2 DEF ProbeEiod, worldVars, clockVars
    <2> QED
        BY <1>0, <2>1, SameTodo, Goes
<1>3. CASE ListPower
    <2>1. /\ UNCHANGED <<log, serve, lines, past, existed, todo>> /\ Goto("main", "up")
          /\ call["main"] = "idle" /\ Send("main", "read", "power")
        BY <1>3 DEF ListPower, worldVars, clockVars, At
    <2>2. CASE serve = "up"
        BY <1>0, <2>1, <2>2, Asked DEF Type, Place
    <2>3. CASE serve # "up"
        BY <1>0, <2>1, <2>3, SendLost, SameTodo, Goes
    <2> QED
        BY <2>2, <2>3
<1>4. CASE RecordUp
    <2>1. /\ UNCHANGED <<log, serve, lines, past, existed, todo>> /\ Goto("main", "losses")
          /\ call["main"] = "idle" /\ pc["main"] = "up"
        BY <1>4 DEF RecordUp, worldVars, clockVars, At
    <2>2. CASE UpText(btime) \in existed["main"] /\ Quiet
        BY <1>0, <2>1, <2>2, SameTodo, Goes DEF Quiet
    <2>3. CASE UpText(btime) \notin existed["main"] /\ Send("main", "write", UpText(btime))
        <3>1. CASE serve # "up"
            BY <1>0, <2>1, <2>3, <3>1, SendLost, SameTodo, Goes
        <3>2. CASE serve = "up"
            <4> DEFINE x == UpText(btime)
            <4>1. btime \in BootTimes /\ btime \in past
                BY Counts
            <4>2. /\ x \in Texts /\ x \in OfType("power") /\ x \notin OfType("eio")
                  /\ \A l \in Lines : x # LineText(l)
                  /\ \A b \in BootTimes : x = UpText(b) => b \in past
                BY <4>1, Counts, CopiedTexts
            <4>3. log[x] = 0 /\ ~Has(queue, x)
                BY <1>0, <2>1, <2>3, <4>2 DEF CopyInv, ListFresh, Place, Type
            <4>4. pc'["main"] = "losses" /\ \A u \in Threads : u # "main" => pc'[u] = pc[u]
                BY <1>0, <2>1 DEF Goto, TInv, ThreadInv
            <4>5. \A u \in Copiers : u # "main" => x \notin OfType(Type(u))
                BY <1>0, <4>2 DEF Type
            <4>6. Send("main", "write", x)
                BY <2>3
            <4>7. "main" \in Copiers => pc'["main"] # Place("main")
                BY <4>4 DEF Place
            <4> HIDE DEF x
            <4> QED
                BY <1>0, <2>1, <3>2, <4>2, <4>3, <4>4, <4>5, <4>6, <4>7, SameTodo, Written
        <3> QED
            BY <3>1, <3>2
    <2> QED
        BY <1>4, <2>2, <2>3 DEF RecordUp
<1>5. CASE FetchLosses
    <2>1. /\ UNCHANGED <<log, queue, call, existed, lines, past>> /\ pc["main"] = "losses"
        BY <1>5 DEF FetchLosses, worldVars, clockVars, At
    <2>2. CASE Fetch("main", LossLines) /\ Goto("main", "loss")
        <3>1. pc'["main"] = "loss" /\ \A u \in Threads : u # "main" => pc'[u] = pc[u]
            BY <1>0, <2>2 DEF Goto, TInv, ThreadInv
        <3>2. \A l \in LossLines : /\ Owner(l) = "main"
                                   /\ LineText(l) \notin existed["main"] =>
                                        log[LineText(l)] = 0 /\ ~Has(queue, LineText(l))
            BY <2>1, Bounds DEF CopyInv, LossesFresh, Owner
        <3>3. LossLines \in SUBSET Lines
            BY Bounds
        <3> QED
            BY <1>0, <2>1, <2>2, <3>1, <3>2, <3>3, Fetched
    <2>3. CASE Goto("main", "spawn") /\ UNCHANGED todo
        BY <1>0, <2>1, <2>3, SameTodo, Goes
    <2> QED
        BY <1>5, <2>2, <2>3 DEF FetchLosses
<1>6. CASE Spawn
    <2>1. UNCHANGED <<log, queue, call, existed, todo, lines, past>>
        BY <1>6 DEF Spawn, worldVars, clockVars
    <2>2. pc'["main"] = "join" /\ pc'["eio"] \in {"list", "off"}
        BY <1>0, <1>6 DEF Spawn
    <2>3. \A t \in Copiers : pc'[t] # Place(t)
        BY <1>0, <2>2 DEF Place
    <2> QED
        BY <2>1, <2>2, <2>3, SameTodo, SameLines, Moves
<1>7. CASE Join
    <2>1. UNCHANGED <<log, queue, lines, past>> /\ EndRecord("inactive")
        BY <1>7 DEF Join, worldVars, clockVars
    <2> QED
        BY <2>1, SamePast, StartsOrEnds
<1> QED
    BY <1>1, <1>2, <1>3, <1>4, <1>5, <1>6, <1>7

LEMMA WriteLineCopies ==
  ASSUME TInv, TInv', CopyInv, NEW t \in Copiers, NEW from, NEW done,
         <<t, from, done>> \in {<<"main", "loss", "spawn">>, <<"eio", "record", "list">>},
         WriteLine(t, from, done)
  PROVE  CopyInv'
<1>0. /\ t \in Threads /\ Copiers \subseteq Threads
      /\ from # Place(t) /\ from # "losses" /\ done \in {"spawn", "list"}
      /\ pc[t] = from /\ call[t] = "idle"
      /\ UNCHANGED <<log, serve, existed, lines, past>>
    BY DEF WriteLine, worldVars, clockVars, Copiers, Threads, Place, At
<1>1. todo \in [Threads -> [Lines -> Nat]]
    BY DEF TInv, ThreadInv
<1>2. CASE todo[t] = NoLines /\ Goto(t, done) /\ Quiet /\ UNCHANGED todo
    BY <1>0, <1>2, SameTodo, Goes DEF Quiet
<1>3. ASSUME NEW l \in Lines, todo[t][l] > 0, todo' = [todo EXCEPT ![t][l] = @ - 1],
             Send(t, "write", LineText(l)), UNCHANGED pc
      PROVE  CopyInv'
    <2>1. /\ todo'[t][l] + 1 = todo[t][l]
          /\ \A u \in Copiers, m \in Lines : todo'[u][m] <= todo[u][m]
        <3>1. todo[t][l] \in Nat
            BY <1>0, <1>1
        <3>2. todo'[t][l] = todo[t][l] - 1
            BY <1>0, <1>1, <1>3
        <3>3. \A u \in Copiers, m \in Lines : (u # t \/ m # l) => todo'[u][m] = todo[u][m]
            BY <1>0, <1>1, <1>3
        <3>4. \A u \in Copiers, m \in Lines : todo[u][m] \in Nat
            BY <1>0, <1>1
        <3> QED
            BY <3>1, <3>2, <3>3, <3>4
    <2>2. Owner(l) = t
        BY <1>3, Bounds DEF CopyInv, Wanted, Owner, Copiers
    <2>3. CASE serve # "up"
        <3>1. queue' = queue /\ call'[t] = "error" /\ \A u \in Threads : u # t => call'[u] = call[u]
            BY <1>0, <1>3, <2>3, SendLost
        <3>2. \A u \in Copiers : pc'[u] = Place(u) /\ call'[u] # "error" =>
                pc[u] = Place(u) /\ call'[u] = call[u]
            BY <1>0, <1>3, <3>1
        <3> QED
            BY <1>0, <1>3, <2>1, <3>1, <3>2, SameLines, Moves
    <2>4. CASE serve = "up"
        <3> DEFINE x == LineText(l)
        <3>1. /\ x \in Texts
              /\ \A u \in Copiers : u # t => x \notin OfType(Type(u))
              /\ \A m \in Lines : x = LineText(m) => m = l
              /\ \A b \in BootTimes : x # UpText(b)
            BY <2>2, Counts, CopiedTexts
        <3>2. ~Has(queue, x)
            BY <1>0, <1>3, <2>2, NotQueued DEF CopyInv, OwnWrites
        <3>3. \A m \in Lines : x = LineText(m) => Owner(m) = t /\ todo'[t][m] + 1 <= todo[t][m]
            BY <1>1, <1>0, <2>1, <2>2, <3>1
        <3>4. /\ \A u \in Threads : u # t => pc'[u] = pc[u]
              /\ t \in Copiers => pc'[t] # Place(t)
              /\ t = "main" /\ pc'[t] = "losses" => pc[t] = "up" /\ \A m \in Lines : x # LineText(m)
            BY <1>0, <1>3
        <3>5. Send(t, "write", x)
            BY <1>3
        <3> HIDE DEF x
        <3> QED
            BY <1>0, <2>1, <2>4, <3>1, <3>2, <3>3, <3>4, <3>5, Written
    <2> QED
        BY <2>3, <2>4
<1> QED
    BY <1>2, <1>3 DEF WriteLine

LEMMA CallFailsCopies ==
  ASSUME TInv, TInv', CopyInv, NEW t \in Threads, CallFails(t)
  PROVE  CopyInv'
<1> DEFINE place == IF t = "main" THEN "spawn" ELSE "off"
<1>1. /\ UNCHANGED <<log, queue, past, existed, lines>> /\ Goto(t, place)
      /\ todo' = [todo EXCEPT ![t] = NoLines]
    BY DEF CallFails, worldVars, clockVars
<1>2. place \in {"spawn", "off"}
    OBVIOUS
<1> HIDE DEF place
<1>3. todo \in [Threads -> [Lines -> Nat]] /\ Copiers \subseteq Threads
    BY DEF TInv, ThreadInv, Copiers, Threads
<1>4. \A u \in Copiers, l \in Lines : todo'[u][l] <= todo[u][l]
    BY <1>1, <1>3 DEF NoLines
<1>5. \A u \in Threads : u # t => call'[u] = call[u]
    BY DEF CallFails, TInv, QueueInv
<1> QED
    BY <1>1, <1>2, <1>4, <1>5, Goes

(* What the sensors report is not copied from anywhere.                    *)
LEMMA AlarmSent ==
  ASSUME TInv, TInv', CopyInv, NEW x \in {Tilted, Uncovered}, NEW place \in {"tilt", "cover"},
         Goto("sensor", place), call["sensor"] = "idle", Send("sensor", "write", x),
         UNCHANGED <<log, serve, existed, todo, lines, past>>
  PROVE  CopyInv'
<1>0. "sensor" \in Threads /\ "sensor" \notin Copiers /\ "sensor" # "main"
    BY DEF Threads, Copiers
<1>1. CASE serve # "up"
    BY <1>0, <1>1, SendLost, SameTodo, Goes
<1>2. CASE serve = "up"
    <2>1. /\ x \in Texts /\ x \notin Copied
          /\ \A u \in Copiers : x \notin OfType(Type(u))
          /\ \A l \in Lines : x # LineText(l)
          /\ \A b \in BootTimes : x # UpText(b)
        BY CopiedTexts
    <2>2. \A u \in Threads : u # "sensor" => pc'[u] = pc[u]
        BY <1>0 DEF Goto, TInv, ThreadInv
    <2> QED
        BY <1>0, <1>2, <2>1, <2>2, SameTodo, Written
<1> QED
    BY <1>1, <1>2

LEMMA LoopCopies ==
  ASSUME TInv, TInv', CopyInv,
         ListEio \/ FetchEio \/ SampleTilt \/ SampleCover \/ SensorFails
  PROVE  CopyInv'
<1>0. /\ "eio" \in Threads /\ "sensor" \in Threads /\ "eio" \in Copiers
      /\ Copiers = {"main", "eio"}
    BY DEF Threads, Copiers
<1>1. CASE ListEio
    <2>1. /\ UNCHANGED <<log, serve, lines, past, existed, todo>> /\ Goto("eio", "fetch")
          /\ call["eio"] = "idle" /\ Send("eio", "read", "eio")
        BY <1>1 DEF ListEio, worldVars, clockVars, At
    <2>2. CASE serve = "up"
        BY <1>0, <2>1, <2>2, Asked DEF Type, Place
    <2>3. CASE serve # "up"
        BY <1>0, <2>1, <2>3, SendLost, SameTodo, Goes
    <2> QED
        BY <2>2, <2>3
<1>2. CASE FetchEio
    <2>1. /\ UNCHANGED <<log, queue, call, existed, lines, past>>
          /\ pc["eio"] = "fetch" /\ call["eio"] = "idle"
        BY <1>2 DEF FetchEio, worldVars, clockVars, At
    <2>2. CASE Fetch("eio", Lines \ PowerLines) /\ Goto("eio", "record")
        <3>1. pc'["eio"] = "record" /\ \A u \in Threads : u # "eio" => pc'[u] = pc[u]
            BY <1>0, <2>2 DEF Goto, TInv, ThreadInv
        <3>2. \A l \in Lines \ PowerLines :
                /\ Owner(l) = "eio"
                /\ LineText(l) \notin existed["eio"] =>
                     log[LineText(l)] = 0 /\ ~Has(queue, LineText(l))
            <4> TAKE l \in Lines \ PowerLines
            <4>1. Owner(l) = "eio" /\ LineText(l) \in OfType(Type("eio"))
                BY CopiedTexts DEF Owner
            <4> QED
                BY <1>0, <2>1, <4>1 DEF CopyInv, ListFresh, Place
        <3> DEFINE wanted == Lines \ PowerLines
        <3>3. wanted \in SUBSET Lines /\ Fetch("eio", wanted)
            BY <2>2
        <3>4. \A l \in wanted :
                /\ Owner(l) = "eio"
                /\ LineText(l) \notin existed["eio"] =>
                     log[LineText(l)] = 0 /\ ~Has(queue, LineText(l))
            BY <3>2
        <3>5. /\ \A l \in wanted : Owner(l) = "eio" /\ ("eio" = "main" => l \in LossLines)
              /\ \A u \in Copiers : u # "eio" => pc'[u] = pc[u]
              /\ pc'["eio"] \notin {"up", "losses", "fetch"}
            BY <1>0, <3>1, <3>4 DEF Threads
        <3>6. \A l \in wanted : LineText(l) \notin existed["eio"] =>
                log[LineText(l)] = 0 /\ ~Has(queue, LineText(l))
            BY <3>4
        <3> HIDE DEF wanted
        <3> QED
            BY <1>0, <2>1, <3>3, <3>5, <3>6, Fetched
    <2>3. CASE Goto("eio", "off") /\ UNCHANGED todo
        BY <1>0, <2>1, <2>3, SameTodo, Goes
    <2> QED
        BY <1>2, <2>2, <2>3 DEF FetchEio
<1>3. CASE SampleTilt
    <2>1. /\ UNCHANGED <<log, serve, existed, todo, lines, past>> /\ Goto("sensor", "cover")
          /\ call["sensor"] = "idle" /\ (Send("sensor", "write", Tilted) \/ Quiet)
        BY <1>3 DEF SampleTilt, At, clockVars
    <2>2. CASE Send("sensor", "write", Tilted)
        BY <2>1, <2>2, AlarmSent
    <2>3. CASE Quiet
        BY <1>0, <2>1, <2>3, SameTodo, Goes DEF Quiet
    <2> QED
        BY <2>1, <2>2, <2>3
<1>4. CASE SampleCover
    <2>1. /\ UNCHANGED <<log, serve, existed, todo, lines, past>> /\ Goto("sensor", "tilt")
          /\ call["sensor"] = "idle" /\ (Send("sensor", "write", Uncovered) \/ Quiet)
        BY <1>4 DEF SampleCover, At, worldVars, clockVars
    <2>2. CASE Send("sensor", "write", Uncovered)
        BY <2>1, <2>2, AlarmSent
    <2>3. CASE Quiet
        BY <1>0, <2>1, <2>3, SameTodo, Goes DEF Quiet
    <2> QED
        BY <2>1, <2>2, <2>3
<1>5. CASE SensorFails
    <2>1. UNCHANGED <<log, queue, call, existed, todo, lines, past>> /\ Goto("sensor", "off")
        BY <1>5 DEF SensorFails, worldVars, clockVars
    <2> QED
        BY <1>0, <2>1, SameTodo, Goes
<1> QED
    BY <1>1, <1>2, <1>3, <1>4, <1>5

LEMMA MishapCopies ==
  ASSUME TInv, TInv', CopyInv,
         Kill \/ RestartRecord \/ ServeRestart \/ EiodReady \/ EiodCrash \/ Boot
  PROVE  CopyInv'
<1>1. CASE Kill
    <2>1. UNCHANGED <<log, lines, past>> /\ EndRecord("failed") /\ queue' = Orphaned
        BY <1>1 DEF Kill, Mishap, clockVars
    <2> QED
        BY <2>1, SamePast, StartsOrEnds
<1>2. CASE RestartRecord
    <2>1. UNCHANGED <<log, queue, lines, past>> /\ StartRecord
        BY <1>2 DEF RestartRecord, worldVars, clockVars
    <2> QED
        BY <2>1, SamePast, StartsOrEnds
<1>3. CASE ServeRestart
    <2>1. UNCHANGED <<log, queue, lines, past>>
        BY <1>3 DEF ServeRestart, worldVars, clockVars
    <2>2. CASE StartRecord
        BY <2>1, <2>2, SamePast, StartsOrEnds
    <2>3. CASE UNCHANGED recordVars
        <3>1. UNCHANGED <<pc, call, existed, todo>>
            BY <2>3 DEF recordVars
        <3> QED
            BY <2>1, <3>1, SameTodo, SameLines, Moves
    <2> QED
        BY <1>3, <2>2, <2>3 DEF ServeRestart
<1>4. CASE EiodReady \/ EiodCrash
    <2>1. UNCHANGED <<log, queue, lines, past, pc, call, existed, todo>>
        BY <1>4 DEF EiodReady, EiodCrash, Mishap, recordVars, clockVars
    <2> QED
        BY <2>1, SameTodo, SameLines, Moves
<1>5. CASE Boot
    <2>1. UNCHANGED <<log, lines>> /\ queue' = <<>> /\ StartRecord
        BY <1>5 DEF Boot
    <2>2. past \subseteq past'
        BY <1>5 DEF Boot
    <2> QED
        BY <2>1, <2>2, StartsOrEnds
<1> QED
    BY <1>1, <1>2, <1>3, <1>4, <1>5

LEMMA WorldCopies ==
  ASSUME TInv, TInv', CopyInv, (\E l \in Lines : Happen(l)) \/ Stir
  PROVE  CopyInv'
<1>1. UNCHANGED <<log, queue, past, pc, call, existed, todo>>
    BY DEF Happen, Stir, recordVars, clockVars
<1>2. \A l \in Lines : lines[l] <= lines'[l]
    <2>1. CASE Stir
        BY <2>1, SameLines DEF Stir
    <2>2. ASSUME NEW l \in Lines, Happen(l)
          PROVE  \A m \in Lines : lines[m] <= lines'[m]
        <3>1. lines' = [lines EXCEPT ![l] = @ + 1] /\ lines \in [Lines -> Nat]
            BY <2>2 DEF Happen, TInv, WorldInv
        <3> QED
            BY <3>1
    <2> QED
        BY <2>1, <2>2
<1> QED
    BY <1>1, <1>2, SameTodo, Moves

LEMMA ClockCopies ==
  ASSUME TInv, TInv', CopyInv, SetClock
  PROVE  CopyInv'
<1>1. /\ UNCHANGED <<log, queue, lines, pc, call, existed, todo>>
      /\ past \subseteq past'
    BY DEF SetClock, recordVars
<1>2. OneWrite' /\ LinesLeft' /\ OwnWrites' /\ Wanted'
    BY <1>1 DEF CopyInv, OneWrite, LinesLeft, OwnWrites, Wanted
<1>3. UpsLeft'
    <2> SUFFICES ASSUME NEW b \in BootTimes
                 PROVE  /\ log'[UpText(b)] <= IF b \in past' THEN 1 ELSE 0
                        /\ Has(queue', UpText(b)) => log'[UpText(b)] = 0 /\ b \in past'
        BY DEF UpsLeft
    <2>1. log[UpText(b)] \in Nat
        BY Counts
    <2> QED
        BY <1>1, <2>1 DEF CopyInv, UpsLeft
<1>4. ListComplete' /\ ListFresh' /\ LossesFresh'
    BY <1>1 DEF CopyInv, ListComplete, ListFresh, LossesFresh
<1> QED
    BY <1>2, <1>3, <1>4 DEF CopyInv

LEMMA CopyStep == TInv /\ TInv' /\ CopyInv /\ [Next]_vars => CopyInv'
<1> SUFFICES ASSUME TInv, TInv', CopyInv, [Next]_vars PROVE CopyInv'
    OBVIOUS
<1>1. CASE WriteLine("main", "loss", "spawn")
    BY <1>1, WriteLineCopies DEF Copiers
<1>2. CASE WriteLine("eio", "record", "list")
    BY <1>2, WriteLineCopies DEF Copiers
<1>3. CASE \E t \in Threads : CallFails(t)
    BY <1>3, CallFailsCopies
<1>4. CASE UNCHANGED vars
    <2>1. UNCHANGED <<log, queue, lines, past, pc, call, existed, todo>>
        BY <1>4 DEF vars, recordVars, worldVars, clockVars
    <2> QED
        BY <2>1, SameTodo, SameLines, Moves
<1>5. {"main", "eio", "sensor"} = Threads
    BY DEF Threads
<1> QED
    BY <1>1, <1>2, <1>3, <1>4, <1>5, MainCopies, LoopCopies, MishapCopies, WorldCopies,
       ClockCopies, Handled, ServerLost
    DEF Next, Main, Eio, Sensor

LEMMA CopyInductive == Spec => [](TInv /\ CopyInv)
<1>1. Init => TInv /\ CopyInv
    BY TypeInit, CopyInit
<1>2. TInv /\ CopyInv /\ [Next]_vars => (TInv /\ CopyInv)'
    BY TypeStep, CopyStep
<1> QED
    BY <1>1, <1>2, PTL DEF Spec

-----------------------------------------------------------------------------
(* However often the recorder is killed and its copying repeated, a line   *)
(* of the controller is not in the log more often than it happened.        *)
THEOREM NeverTooMany == Spec => []NoMoreThanHappened
<1>1. TInv /\ CopyInv => NoMoreThanHappened
    <2> SUFFICES ASSUME TInv, CopyInv, NEW l \in Lines
                 PROVE  log[LineText(l)] <= lines[l]
        BY DEF NoMoreThanHappened
    <2>1. log[LineText(l)] + todo[Owner(l)][l] <= lines[l]
        BY DEF CopyInv, LinesLeft
    <2>2. log[LineText(l)] \in Nat /\ todo[Owner(l)][l] \in Nat /\ lines[l] \in Nat
        BY Counts
    <2> QED
        BY <2>1, <2>2
<1> QED
    BY <1>1, CopyInductive, PTL

(* A power-up text is in the log once at most, and only if it was the boot *)
(* time at some moment, whenever the clock is set.                         *)
THEOREM OneUpPerBootTime == Spec => []OnePowerUpPerBootTime
<1>1. CopyInv => OnePowerUpPerBootTime
    BY DEF CopyInv, UpsLeft, OnePowerUpPerBootTime
<1> QED
    BY <1>1, CopyInductive, PTL

-----------------------------------------------------------------------------
(* The refinement: lines happen, are recorded one at a time, or nothing of *)
(* the abstract log changes.                                               *)
Recorded == [l \in Lines |-> log[LineText(l)]]

LEMMA LogStep ==
  ASSUME TInv, CopyInv, [Next]_vars
  PROVE  \/ lines' = lines /\ \A x \in Copied : log'[x] = log[x]
         \/ lines' = lines /\ \E y \in Texts :
              /\ Has(queue, y)
              /\ \A x \in Texts : log'[x] = IF x = y THEN log[x] + 1 ELSE log[x]
         \/ /\ log' = log
            /\ \E l \in Lines : lines' = [lines EXCEPT ![l] = @ + 1]
<1>1. CASE \/ Main \/ Eio \/ Sensor \/ Kill \/ RestartRecord \/ ServeRestart
           \/ EiodReady \/ EiodCrash \/ Boot \/ SetClock \/ Stir \/ UNCHANGED vars
    <2>1. log' = log /\ lines' = lines
        <3>1. CASE Main
            BY <3>1 DEF Main, WaitServe, ProbeEiod, ListPower, RecordUp, FetchLosses,
                        WriteLine, CallFails, Spawn, Join, worldVars
        <3>2. CASE Eio \/ Sensor
            BY <3>2 DEF Eio, Sensor, ListEio, FetchEio, WriteLine, CallFails, SampleTilt,
                        SampleCover, SensorFails, worldVars
        <3>3. CASE \/ Kill \/ RestartRecord \/ ServeRestart \/ EiodReady \/ EiodCrash
                   \/ Boot \/ SetClock \/ Stir \/ UNCHANGED vars
            BY <3>3 DEF Kill, RestartRecord, ServeRestart, EiodReady, EiodCrash, Boot, SetClock,
                        Stir, Mishap, vars, worldVars
        <3> QED
            BY <1>1, <3>1, <3>2, <3>3
    <2> QED
        BY <2>1
<1>2. CASE Handle \/ ServeCrash
    <2>1. /\ lines' = lines
          /\ log' = log \/ (queue # <<>> /\ Effect(Head(queue)))
        BY <1>2 DEF Handle, ServeCrash, Mishap, worldVars, clockVars
    <2>2. CASE queue # <<>> /\ Effect(Head(queue))
        <3> DEFINE r == Head(queue)
        <3>1. r \in Requests /\ \A x : Writes(r, x) => Has(queue, x)
            BY <2>2, Counts, Removed, TailWrites
        <3>2. \A x \in Texts : log'[x] = IF Writes(r, x) THEN log[x] + 1 ELSE log[x]
            BY <2>2, <3>1, EffectEntry
        <3> HIDE DEF r
        <3>3. CASE r.op = "write"
            <4>1. r.arg \in Texts /\ \A x : Writes(r, x) <=> x = r.arg
                BY <3>1, <3>3, RequestParts DEF Writes
            <4> QED
                BY <2>1, <3>1, <3>2, <4>1
        <3>4. CASE r.op # "write"
            BY <2>1, <3>2, <3>4 DEF Writes, Copied
        <3> QED
            BY <3>3, <3>4
    <2> QED
        BY <2>1, <2>2
<1>3. CASE \E l \in Lines : Happen(l)
    BY <1>3 DEF Happen
<1> QED
    BY <1>1, <1>2, <1>3 DEF Next

LEMMA RefinesInit == Init => Log!Init
<1> SUFFICES ASSUME Init PROVE Log!Init
    OBVIOUS
<1>1. \A l \in Lines : log[LineText(l)] = 0
    BY CopiedTexts DEF Init, Copied
<1> QED
    BY <1>1 DEF Init, NoLines, Log!Init

LEMMA RefinesStep ==
  TInv /\ CopyInv /\ [Next]_vars => [Log!Next]_<<lines, [l \in Lines |-> log[LineText(l)]]>>
<1> SUFFICES ASSUME TInv, CopyInv, [Next]_vars
             PROVE  [Log!Next]_<<lines, Recorded>>
    BY DEF Recorded
<1>1. \A l \in Lines : LineText(l) \in Texts /\ LineText(l) \in Copied
    BY CopiedTexts DEF Copied
<1>2. CASE lines' = lines /\ \A x \in Copied : log'[x] = log[x]
    BY <1>1, <1>2 DEF Recorded
<1>3. ASSUME lines' = lines, NEW y \in Texts, Has(queue, y),
             \A x \in Texts : log'[x] = IF x = y THEN log[x] + 1 ELSE log[x]
      PROVE  [Log!Next]_<<lines, Recorded>>
    <2>1. CASE \E l \in Lines : y = LineText(l)
        <3>1. PICK l \in Lines : y = LineText(l)
            BY <2>1
        <3>2. \A m \in Lines : LineText(m) = y => m = l
            BY <3>1, CopiedTexts
        <3>3. log[LineText(l)] < lines[l]
            <4> DEFINE g == log[LineText(l)]  n == todo[Owner(l)][l]  m == lines[l]
            <4>1. g + n + 1 <= m
                BY <1>3, <3>1 DEF CopyInv, LinesLeft
            <4>2. g \in Nat /\ n \in Nat /\ m \in Nat
                BY Counts
            <4> HIDE DEF g, n, m
            <4>3. g < m
                BY <4>1, <4>2
            <4> QED
                BY <4>3 DEF g, m
        <3>4. Recorded' = [Recorded EXCEPT ![l] = @ + 1]
            BY <1>1, <1>3, <3>1, <3>2 DEF Recorded
        <3>5. Recorded[l] < lines[l]
            BY <3>3 DEF Recorded
        <3>6. Log!Record(l)
            BY <1>3, <3>4, <3>5 DEF Log!Record, Recorded
        <3> QED
            BY <3>6 DEF Log!Next
    <2>2. CASE \A l \in Lines : y # LineText(l)
        BY <1>1, <1>3, <2>2 DEF Recorded
    <2> QED
        BY <2>1, <2>2
<1>4. ASSUME log' = log, NEW l \in Lines, lines' = [lines EXCEPT ![l] = @ + 1]
      PROVE  [Log!Next]_<<lines, Recorded>>
    <2>1. Log!Happen(l)
        BY <1>4 DEF Log!Happen
    <2> QED
        BY <2>1 DEF Log!Next
<1> QED
    BY <1>2, <1>3, <1>4, LogStep

(* The services implement the log of EventLog: every step of theirs is one *)
(* event, one entry of an event not recorded as often as it happened, or   *)
(* nothing.                                                                *)
THEOREM RecorderImplementsLog == Spec => ImplementsEventLog
<1> QED
    BY RefinesInit, RefinesStep, CopyInductive, PTL DEF Spec, ImplementsEventLog, Log!Spec

-----------------------------------------------------------------------------
(* The reports of an open cover.  One that is queued may be followed by    *)
(* another one of a restarted recorder, so they are counted; the recorder  *)
(* has a further chance while the cover is open and it has not seen that,  *)
(* or will be restarted with a server that is down.                        *)
Reports(q) == {i \in DOMAIN q : Writes(q[i], Uncovered)}

Chance == IF unit # "inactive" /\ cover /\ (~seen \/ serve = "down") THEN 1 ELSE 0

Told == log[Uncovered] + Cardinality(Reports(queue)) + Chance

Happened == openings + mishaps + boots

CoverInv == /\ Told <= Happened - 1
            /\ unit = "failed" => ~seen

LEMMA CountReports ==
  ASSUME NEW q \in Seq(Requests)
  PROVE  IsFiniteSet(Reports(q)) /\ Cardinality(Reports(q)) \in Nat
<1>1. DOMAIN q = 1..Len(q) /\ Len(q) \in Int
    OBVIOUS
<1>2. IsFiniteSet(DOMAIN q)
    BY <1>1, FS_Interval
<1>3. Reports(q) \in SUBSET DOMAIN q
    BY DEF Reports
<1>4. IsFiniteSet(Reports(q))
    BY <1>2, <1>3, FS_Subset
<1> QED
    BY <1>4, FS_CardinalityType

LEMMA EmptyReports ==
  ASSUME NEW q, q = <<>>
  PROVE  Cardinality(Reports(q)) = 0
<1>1. DOMAIN q = {}
    BY EmptySeq
<1>2. Reports(q) = {}
    BY <1>1 DEF Reports
<1> QED
    BY <1>2, FS_EmptySet

LEMMA AppendReports ==
  ASSUME NEW q \in Seq(Requests), NEW r \in Requests
  PROVE  Cardinality(Reports(Append(q, r)))
           <= Cardinality(Reports(q)) + (IF Writes(r, Uncovered) THEN 1 ELSE 0)
<1> DEFINE p == Append(q, r)  n == Len(q) + 1  w == Writes(r, Uncovered)
           S == Reports(q)  T == Reports(p)
<1>1. /\ p \in Seq(Requests)
      /\ \A i \in DOMAIN q : p[i] = q[i]
      /\ p[n] = r
      /\ \A i \in DOMAIN p : i \in DOMAIN q \/ i = n
    BY Appended
<1> HIDE DEF p, n
<1>2. IsFiniteSet(S) /\ Cardinality(S) \in Nat
    BY CountReports
<1>3. T \subseteq IF w THEN S \cup {n} ELSE S
    BY <1>1 DEF Reports
<1> HIDE DEF w, S, T
<1>4. CASE w
    <2>0. /\ IsFiniteSet(S \cup {n})
          /\ Cardinality(S \cup {n}) = IF n \in S THEN Cardinality(S) ELSE Cardinality(S) + 1
        BY <1>2, FS_AddElement
    <2>1. IsFiniteSet(S \cup {n}) /\ Cardinality(S \cup {n}) <= Cardinality(S) + 1
        BY <1>2, <2>0
    <2>2. T \in SUBSET (S \cup {n})
        BY <1>3, <1>4
    <2>3. IsFiniteSet(T) /\ Cardinality(T) <= Cardinality(S \cup {n})
        BY <2>1, <2>2, FS_Subset
    <2>4. Cardinality(T) \in Nat /\ Cardinality(S \cup {n}) \in Nat
        BY <2>1, <2>3, FS_CardinalityType
    <2>5. Cardinality(T) <= Cardinality(S) + 1
        BY <1>2, <2>1, <2>3, <2>4
    <2> QED
        BY <1>4, <2>5 DEF p, w, S, T
<1>5. CASE ~w
    <2>1. T \in SUBSET S
        BY <1>3, <1>5
    <2>2. IsFiniteSet(T) /\ Cardinality(T) <= Cardinality(S)
        BY <1>2, <2>1, FS_Subset
    <2>3. Cardinality(T) <= Cardinality(S) + 0
        BY <1>2, <2>2
    <2> QED
        BY <1>5, <2>3 DEF p, w, S, T
<1> QED
    BY <1>4, <1>5

LEMMA TailReports ==
  ASSUME NEW q \in Seq(Requests), q # <<>>
  PROVE  Cardinality(Reports(Tail(q))) + (IF Writes(Head(q), Uncovered) THEN 1 ELSE 0)
           <= Cardinality(Reports(q))
<1> DEFINE p == Tail(q)  r == Head(q)  w == Writes(r, Uncovered)
           S == Reports(q)  T == Reports(p)
           f == [i \in T |-> i + 1]
<1>1. /\ 1 \in DOMAIN q /\ r = q[1] /\ p \in Seq(Requests)
      /\ \A i \in DOMAIN p : i \in Int /\ i + 1 \in DOMAIN q /\ i + 1 # 1 /\ p[i] = q[i + 1]
    BY Removed
<1> HIDE DEF p, r
<1>2. /\ IsFiniteSet(S) /\ Cardinality(S) \in Nat
      /\ IsFiniteSet(T) /\ Cardinality(T) \in Nat
    BY <1>1, CountReports
<1>3. /\ \A i \in T : i \in Int /\ i + 1 \in S \ {1}
      /\ w => 1 \in S
    BY <1>1 DEF Reports
<1> HIDE DEF w, S, T
<1>4. f \in Injection(T, S \ {1})
    BY <1>3 DEF Injection, IsInjective
<1> HIDE DEF f
<1>5. IsFiniteSet(S \ {1}) /\ Cardinality(S \ {1}) = IF 1 \in S THEN Cardinality(S) - 1
                                                             ELSE Cardinality(S)
    BY <1>2, FS_RemoveElement
<1>6. Cardinality(T) <= Cardinality(S \ {1})
    BY <1>4, <1>5, FS_Injection
<1>7. Cardinality(T) + (IF w THEN 1 ELSE 0) <= Cardinality(S)
    BY <1>2, <1>3, <1>5, <1>6
<1> QED
    BY <1>7 DEF p, r, w, S, T

LEMMA OrphanReports ==
  ASSUME queue \in Seq(Requests)
  PROVE  Reports(Orphaned) = Reports(queue)
<1>1. /\ DOMAIN Orphaned = DOMAIN queue
      /\ \A i \in DOMAIN queue : /\ Orphaned[i].op = queue[i].op
                                 /\ Orphaned[i].arg = queue[i].arg
    BY AllOrphans
<1> QED
    BY <1>1 DEF Reports, Writes

LEMMA CoverCounts ==
  ASSUME TInv
  PROVE  /\ log[Uncovered] \in Nat /\ queue \in Seq(Requests)
         /\ Cardinality(Reports(queue)) \in Nat /\ Chance \in {0, 1}
         /\ openings \in Nat /\ mishaps \in Nat /\ boots \in Nat
<1>1. queue \in Seq(Requests) /\ boots \in Nat
    BY Counts
<1>2. log[Uncovered] \in Nat
    BY Counts, AlarmTexts
<1>3. openings \in Nat /\ mishaps \in Nat
    BY DEF TInv, WorldInv
<1> QED
    BY <1>1, <1>2, <1>3, CountReports DEF Chance

LEMMA CoverSums ==
  /\ TInv => Told \in Nat /\ Happened \in Nat
  /\ TInv' => Told' \in Nat /\ Happened' \in Nat
<1>1. TInv => Told \in Nat /\ Happened \in Nat
    BY CoverCounts DEF Told, Happened
<1>2. ASSUME TInv'
      PROVE  Told' \in Nat /\ Happened' \in Nat
    <2>1. ASSUME NEW x, NEW y, NEW z, log'[Uncovered] = x, Cardinality(Reports(queue')) = y,
                 Chance' = z
          PROVE  Told' = x + y + z
        BY <2>1 DEF Told
    <2>2. log'[Uncovered] \in Nat
        <3>1. log' \in [Texts -> Nat]
            BY <1>2 DEF TInv, WorldInv
        <3> QED
            BY <3>1, AlarmTexts
    <2>3. Cardinality(Reports(queue')) \in Nat
        <3>1. queue' \in Seq(Requests)
            BY <1>2 DEF TInv, QueueInv
        <3> QED
            BY <3>1, CountReports
    <2>4. Chance' \in {0, 1}
        BY DEF Chance
    <2>5. Told' \in Nat
        BY <2>1, <2>2, <2>3, <2>4
    <2>6. ASSUME NEW x, NEW y, NEW z, openings' = x, mishaps' = y, boots' = z
          PROVE  Happened' = x + y + z
        BY <2>6 DEF Happened
    <2>7. openings' \in Nat /\ mishaps' \in Nat /\ boots' \in Nat
        <3>1. openings' \in Nat /\ mishaps' \in Nat /\ boots' \in 1..MaxBoots
            BY <1>2 DEF TInv, WorldInv
        <3> QED
            BY <3>1, Bounds
    <2>8. Happened' \in Nat
        BY <2>6, <2>7
    <2> QED
        BY <2>5, <2>8
<1> QED
    BY <1>1, <1>2

(* A step that adds no more to the reports and the chances than to what    *)
(* has happened.                                                           *)
LEMMA Funded ==
  ASSUME TInv, TInv', CoverInv, NEW d \in {0, 1}, NEW e \in {0, 1},
         log'[Uncovered] + Cardinality(Reports(queue'))
           <= log[Uncovered] + Cardinality(Reports(queue)) + e,
         Chance' + e <= Chance + d,
         Happened' = Happened + d,
         unit' = "failed" => ~seen'
  PROVE  CoverInv'
<1> DEFINE x == log[Uncovered]  y == Cardinality(Reports(queue))  z == Chance
           xx == log'[Uncovered]  yy == Cardinality(Reports(queue'))  zz == Chance'
<1>1. x \in Nat /\ y \in Nat /\ z \in {0, 1} /\ Told = x + y + z
    BY CoverCounts DEF Told
<1>2. xx \in Nat
    <2>1. log' \in [Texts -> Nat]
        BY DEF TInv, WorldInv
    <2> QED
        BY <2>1, AlarmTexts
<1>3. yy \in Nat
    <2>1. queue' \in Seq(Requests)
        BY DEF TInv, QueueInv
    <2> QED
        BY <2>1, CountReports
<1>4. zz \in {0, 1}
    BY DEF Chance
<1>5. \A u, v, w : xx = u /\ yy = v /\ zz = w => Told' = u + v + w
    BY DEF Told
<1>6. xx + yy <= x + y + e /\ zz + e <= z + d
    OBVIOUS
<1> HIDE DEF x, y, z, xx, yy, zz
<1>7. Told' = xx + yy + zz
    BY <1>5
<1>8. Told' <= Told + d
    BY <1>1, <1>2, <1>3, <1>4, <1>6, <1>7
<1>9. Told' <= Happened' - 1
    BY <1>8, CoverSums DEF CoverInv
<1> QED
    BY <1>9 DEF CoverInv

LEMMA SameHappened ==
  TInv /\ UNCHANGED <<openings, mishaps, boots>> => Happened' = Happened + 0
BY CoverCounts DEF Happened

(* Nothing changes that an open cover is about.                            *)
LEMMA Unseen ==
  ASSUME TInv, TInv', CoverInv,
         UNCHANGED <<log, serve, unit, seen, cover, openings, mishaps, boots>>,
         Cardinality(Reports(queue')) <= Cardinality(Reports(queue))
  PROVE  CoverInv'
<1>1. Chance' = Chance
    BY DEF Chance
<1>2. queue' \in Seq(Requests)
    BY DEF TInv, QueueInv
<1>3. Cardinality(Reports(queue')) \in Nat
    BY <1>2, CountReports
<1>4. log'[Uncovered] = log[Uncovered]
    OBVIOUS
<1>5. log'[Uncovered] + Cardinality(Reports(queue'))
        <= log[Uncovered] + Cardinality(Reports(queue)) + 0
    BY <1>3, <1>4, CoverCounts
<1>6. Chance' + 0 <= Chance + 0
    BY <1>1, CoverCounts
<1>7. unit' = "failed" => ~seen'
    BY DEF CoverInv
<1> QED
    BY <1>5, <1>6, <1>7, SameHappened, Funded

LEMMA SendReports ==
  ASSUME TInv, NEW t \in Threads, NEW op, NEW arg, Send(t, op, arg),
         Request(t, op, arg) \in Requests, ~(op = "write" /\ arg = Uncovered)
  PROVE  Cardinality(Reports(queue')) <= Cardinality(Reports(queue))
<1>1. queue \in Seq(Requests) /\ Cardinality(Reports(queue)) \in Nat
    BY CoverCounts
<1>2. CASE serve # "up"
    BY <1>1, <1>2 DEF Send
<1>3. CASE serve = "up"
    <2>1. queue' = Append(queue, Request(t, op, arg))
        BY <1>3 DEF Send, Request
    <2>2. ~Writes(Request(t, op, arg), Uncovered)
        BY DEF Writes, Request
    <2> QED
        BY <1>1, <2>1, <2>2, AppendReports
<1> QED
    BY <1>2, <1>3

LEMMA SameReports ==
  ASSUME TInv, queue' = queue
  PROVE  Cardinality(Reports(queue')) <= Cardinality(Reports(queue))
BY CoverCounts

LEMMA NotACover ==
  /\ \A l \in Lines : LineText(l) # Uncovered
  /\ \A b : UpText(b) # Uncovered
  /\ Tilted # Uncovered
BY LineTexts, UpTexts, AlarmTexts

LEMMA ThreadCover ==
  ASSUME TInv, TInv', CoverInv,
         \/ ProbeEiod \/ ListPower \/ RecordUp \/ FetchLosses \/ Spawn
         \/ WriteLine("main", "loss", "spawn") \/ (\E t \in Threads : CallFails(t))
         \/ ListEio \/ FetchEio \/ WriteLine("eio", "record", "list")
         \/ SampleTilt \/ SensorFails
         \/ EiodReady \/ (\E l \in Lines : Happen(l)) \/ UNCHANGED vars
  PROVE  CoverInv'
<1>0. "main" \in Threads /\ "eio" \in Threads /\ "sensor" \in Threads
    BY DEF Threads
<1>1. CASE \/ ProbeEiod \/ FetchLosses \/ Spawn \/ (\E t \in Threads : CallFails(t))
           \/ FetchEio \/ SensorFails
           \/ EiodReady \/ (\E l \in Lines : Happen(l)) \/ UNCHANGED vars
    <2>1. UNCHANGED <<log, queue, serve, unit, seen, cover, openings, mishaps, boots>>
        BY <1>1 DEF ProbeEiod, FetchLosses, Spawn, CallFails, FetchEio, SensorFails, EiodReady,
                    Happen, vars, worldVars, recordVars
    <2> QED
        BY <2>1, SameReports, Unseen
<1>2. CASE ListPower
    <2>1. /\ UNCHANGED <<log, serve, unit, seen, cover, openings, mishaps, boots>>
          /\ Send("main", "read", "power")
        BY <1>2 DEF ListPower, worldVars, clockVars
    <2> QED
        BY <1>0, <2>1, ReadRequest, SendReports, Unseen
<1>3. CASE ListEio
    <2>1. /\ UNCHANGED <<log, serve, unit, seen, cover, openings, mishaps, boots>>
          /\ Send("eio", "read", "eio")
        BY <1>3 DEF ListEio, worldVars, clockVars
    <2> QED
        BY <1>0, <2>1, ReadRequest, SendReports, Unseen
<1>4. CASE RecordUp
    <2>1. /\ UNCHANGED <<log, serve, unit, seen, cover, openings, mishaps, boots>>
          /\ queue' = queue \/ Send("main", "write", UpText(btime))
        BY <1>4 DEF RecordUp, worldVars, clockVars, Quiet
    <2>2. UpText(btime) \in Texts
        BY Counts
    <2>3. Cardinality(Reports(queue')) <= Cardinality(Reports(queue))
        BY <1>0, <2>1, <2>2, WriteRequest, NotACover, SendReports, SameReports
    <2> QED
        BY <2>1, <2>3, Unseen
<1>5. ASSUME NEW t \in Threads, NEW from, NEW done, WriteLine(t, from, done)
      PROVE  CoverInv'
    <2>1. /\ UNCHANGED <<log, serve, unit, seen, cover, openings, mishaps, boots>>
          /\ queue' = queue \/ \E l \in Lines : Send(t, "write", LineText(l))
        BY <1>5 DEF WriteLine, worldVars, clockVars, Quiet
    <2>2. ASSUME NEW l \in Lines, Send(t, "write", LineText(l))
          PROVE  Cardinality(Reports(queue')) <= Cardinality(Reports(queue))
        BY <2>2, LineTexts, WriteRequest, NotACover, SendReports
    <2>3. Cardinality(Reports(queue')) <= Cardinality(Reports(queue))
        BY <2>1, <2>2, SameReports
    <2> QED
        BY <2>1, <2>3, Unseen
<1>6. CASE SampleTilt
    <2>1. /\ UNCHANGED <<log, serve, unit, seen, cover, openings, mishaps, boots>>
          /\ queue' = queue \/ Send("sensor", "write", Tilted)
        BY <1>6 DEF SampleTilt, Quiet
    <2>2. Cardinality(Reports(queue')) <= Cardinality(Reports(queue))
        BY <1>0, <2>1, AlarmTexts, WriteRequest, NotACover, SendReports, SameReports
    <2> QED
        BY <2>1, <2>2, Unseen
<1> QED
    BY <1>0, <1>1, <1>2, <1>3, <1>4, <1>5, <1>6

(* A report is sent for a chance that is then used up.                     *)
LEMMA SampleCoverFunded ==
  ASSUME TInv, TInv', CoverInv, SampleCover
  PROVE  CoverInv'
<1>1. /\ UNCHANGED <<log, serve, unit, cover, openings, mishaps, boots>> /\ seen' = cover
      /\ pc["sensor"] = "cover" /\ "sensor" \in Threads
    BY DEF SampleCover, worldVars, clockVars, At, Threads
<1>2. unit = "active"
    BY <1>1 DEF TInv, ThreadInv
<1>3. CASE queue' = queue
    <2>1. Chance' <= Chance
        BY <1>1, <1>2 DEF Chance
    <2>2. Chance' \in {0, 1}
        BY DEF Chance
    <2>3. log'[Uncovered] + Cardinality(Reports(queue'))
            <= log[Uncovered] + Cardinality(Reports(queue)) + 0
        BY <1>1, <1>3, CoverCounts
    <2>4. Chance' + 0 <= Chance + 0
        BY <2>1, <2>2, CoverCounts
    <2> QED
        BY <1>1, <1>2, <2>3, <2>4, SameHappened, Funded
<1>4. CASE cover /\ ~seen /\ serve = "up" /\ Send("sensor", "write", Uncovered)
    <2> DEFINE r == Request("sensor", "write", Uncovered)
    <2>1. queue' = Append(queue, r) /\ r \in Requests
        BY <1>1, <1>4, AlarmTexts, WriteRequest DEF Send, Request
    <2> HIDE DEF r
    <2>2. /\ Cardinality(Reports(queue')) <= Cardinality(Reports(queue)) + 1
          /\ Cardinality(Reports(queue')) \in Nat
        <3>1. Cardinality(Reports(queue'))
                <= Cardinality(Reports(queue)) + (IF Writes(r, Uncovered) THEN 1 ELSE 0)
            BY <2>1, CoverCounts, AppendReports
        <3>2. queue' \in Seq(Requests)
            BY DEF TInv, QueueInv
        <3> QED
            BY <3>1, <3>2, CountReports, CoverCounts
    <2>3. Chance' = 0 /\ Chance = 1
        BY <1>1, <1>2, <1>4 DEF Chance
    <2>4. log'[Uncovered] + Cardinality(Reports(queue'))
            <= log[Uncovered] + Cardinality(Reports(queue)) + 1
        BY <1>1, <2>2, CoverCounts
    <2>5. Chance' + 1 <= Chance + 0
        BY <2>3
    <2> QED
        BY <1>1, <1>2, <2>4, <2>5, SameHappened, Funded
<1>5. queue' = queue \/ (cover /\ ~seen /\ serve = "up" /\ Send("sensor", "write", Uncovered))
    BY DEF SampleCover, Send, Quiet
<1> QED
    BY <1>3, <1>4, <1>5

LEMMA MoreChances ==
  /\ Chance' + 0 <= Chance + 1
  /\ Chance' <= Chance => Chance' + 0 <= Chance + 0
<1> DEFINE c == Chance  d == Chance'
<1>1. c \in {0, 1} /\ d \in {0, 1}
    BY DEF Chance
<1> HIDE DEF c, d
<1>2. d + 0 <= c + 1 /\ (d <= c => d + 0 <= c + 0)
    BY <1>1
<1> QED
    BY <1>2 DEF c, d

(* The requests of the server are carried out, or lost.                    *)
LEMMA EffectReports ==
  ASSUME TInv, queue # <<>>, Effect(Head(queue)), queue' \in {Tail(queue), <<>>}
  PROVE  log'[Uncovered] + Cardinality(Reports(queue'))
           <= log[Uncovered] + Cardinality(Reports(queue)) + 0
<1> DEFINE w == Writes(Head(queue), Uncovered)  x == log[Uncovered]  y == Cardinality(Reports(queue))
           t == Cardinality(Reports(Tail(queue)))
<1>1. x \in Nat /\ y \in Nat /\ queue \in Seq(Requests)
    BY CoverCounts
<1>2. Head(queue) \in Requests /\ Tail(queue) \in Seq(Requests)
    BY <1>1, Removed
<1>3. t \in Nat /\ t + (IF w THEN 1 ELSE 0) <= y
    BY <1>1, <1>2, CountReports, TailReports
<1>4. log'[Uncovered] = IF w THEN x + 1 ELSE x
    BY <1>2, EffectEntry, AlarmTexts
<1>5. Cardinality(Reports(queue')) = t \/ Cardinality(Reports(queue')) = 0
    BY EmptyReports
<1> HIDE DEF w, x, y, t
<1>6. log'[Uncovered] + Cardinality(Reports(queue')) <= x + y + 0
    BY <1>1, <1>3, <1>4, <1>5
<1> QED
    BY <1>6 DEF x, y

LEMMA HandleCover ==
  ASSUME TInv, TInv', CoverInv, Handle
  PROVE  CoverInv'
<1>1. /\ queue # <<>> /\ Effect(Head(queue)) /\ queue' = Tail(queue)
      /\ UNCHANGED <<serve, unit, seen, cover, openings, mishaps, boots>>
    BY DEF Handle, worldVars, clockVars
<1>2. log'[Uncovered] + Cardinality(Reports(queue'))
        <= log[Uncovered] + Cardinality(Reports(queue)) + 0
    BY <1>1, EffectReports
<1>3. Chance' = Chance
    BY <1>1 DEF Chance
<1>4. Chance' + 0 <= Chance + 0
    BY <1>3, CoverCounts
<1>5. unit' = "failed" => ~seen'
    BY <1>1 DEF CoverInv
<1> QED
    BY <1>1, <1>2, <1>4, <1>5, SameHappened, Funded

LEMMA CrashCover ==
  ASSUME TInv, TInv', CoverInv, ServeCrash
  PROVE  CoverInv'
<1>1. /\ log' = log \/ (queue # <<>> /\ Effect(Head(queue)))
      /\ queue' = <<>> /\ mishaps' = mishaps + 1
      /\ UNCHANGED <<unit, seen, cover, openings, boots>>
    BY DEF ServeCrash, Mishap
<1>2. log'[Uncovered] + Cardinality(Reports(queue'))
        <= log[Uncovered] + Cardinality(Reports(queue)) + 0
    <2>1. CASE log' = log
        <3>1. Cardinality(Reports(queue')) = 0
            BY <1>1, EmptyReports
        <3> QED
            BY <2>1, <3>1, CoverCounts
    <2>2. CASE queue # <<>> /\ Effect(Head(queue))
        BY <1>1, <2>2, EffectReports
    <2> QED
        BY <1>1, <2>1, <2>2
<1>3. Chance' \in {0, 1}
    BY DEF Chance
<1>4. Chance' + 0 <= Chance + 1
    BY <1>3, CoverCounts
<1>5. Happened' = Happened + 1
    BY <1>1, CoverCounts DEF Happened
<1>6. unit' = "failed" => ~seen'
    BY <1>1 DEF CoverInv
<1> QED
    BY <1>2, <1>4, <1>5, <1>6, Funded

(* The recorder ends and starts: each start is funded by a crash, a boot,  *)
(* or the chance that a server that is down left it.                       *)
LEMMA RestartCover ==
  ASSUME TInv, TInv', CoverInv,
         WaitServe \/ Join \/ Kill \/ RestartRecord \/ ServeRestart \/ Boot
  PROVE  CoverInv'
<1> DEFINE y == Cardinality(Reports(queue))
<1>0. /\ Chance \in {0, 1} /\ Chance' \in {0, 1} /\ log[Uncovered] \in Nat /\ y \in Nat
      /\ queue \in Seq(Requests) /\ "main" \in Threads
    BY CoverCounts DEF Chance, Threads
<1> HIDE DEF y
<1>1. log' = log /\ (Cardinality(Reports(queue')) = y \/ Cardinality(Reports(queue')) = 0)
    <2>1. log' = log /\ queue' \in {queue, Orphaned, <<>>}
        BY DEF WaitServe, Join, Kill, RestartRecord, ServeRestart, Boot
    <2> QED
        BY <1>0, <2>1, OrphanReports, EmptyReports DEF y
<1>2. log'[Uncovered] + Cardinality(Reports(queue'))
        <= log[Uncovered] + Cardinality(Reports(queue)) + 0
    <2>1. log'[Uncovered] + Cardinality(Reports(queue')) <= log[Uncovered] + y + 0
        BY <1>0, <1>1
    <2> QED
        BY <2>1 DEF y
<1>3. CASE Kill \/ Boot
    <2>1. Happened' = Happened + 1
        BY <1>3, CoverCounts DEF Kill, Mishap, Boot, Happened
    <2>2. ~seen'
        BY <1>3 DEF Kill, Boot, EndRecord, StartRecord
    <2>3. Chance' + 0 <= Chance + 1
        BY MoreChances
    <2> QED
        BY <1>2, <2>1, <2>2, <2>3, Funded
<1>4. CASE WaitServe \/ Join \/ RestartRecord \/ ServeRestart
    <2>1. Happened' = Happened + 0
        BY <1>4, SameHappened DEF WaitServe, Join, RestartRecord, ServeRestart, worldVars, clockVars
    <2>2. Chance' <= Chance /\ (unit' = "failed" => ~seen')
        <3>1. CASE WaitServe
            <4>1. unit = "active" /\ UNCHANGED <<serve, cover>>
                BY <1>0, <3>1 DEF WaitServe, At, worldVars, clockVars, TInv, ThreadInv
            <4>2. CASE UNCHANGED <<unit, seen>>
                BY <1>0, <4>1, <4>2 DEF Chance
            <4>3. CASE serve = "down" /\ EndRecord("failed")
                BY <1>0, <4>1, <4>3 DEF Chance, EndRecord
            <4> QED
                BY <3>1, <4>2, <4>3 DEF WaitServe
        <3>2. CASE Join
            <4>1. unit' = "inactive"
                BY <3>2 DEF Join, EndRecord
            <4> QED
                BY <1>0, <4>1 DEF Chance
        <3>3. CASE RestartRecord
            <4>1. /\ unit = "failed" /\ ~seen /\ ~seen' /\ unit' = "active"
                  /\ UNCHANGED <<serve, cover>>
                BY <3>3 DEF RestartRecord, StartRecord, worldVars, clockVars, CoverInv
            <4> QED
                BY <1>0, <4>1 DEF Chance
        <3>4. CASE ServeRestart
            <4>1. /\ serve = "down" /\ serve' = "up" /\ cover' = cover
                  /\ \/ unit = "active" /\ unit' = "active" /\ ~seen'
                     \/ unit' = unit /\ seen' = seen
                BY <3>4 DEF ServeRestart, StartRecord, worldVars, clockVars, recordVars
            <4>2. unit = "failed" => ~seen
                BY DEF CoverInv
            <4> QED
                BY <1>0, <4>1, <4>2 DEF Chance
        <3> QED
            BY <1>4, <3>1, <3>2, <3>3, <3>4
    <2>3. Chance' + 0 <= Chance + 0
        BY <2>2, MoreChances
    <2> QED
        BY <1>2, <2>1, <2>2, <2>3, Funded
<1> QED
    BY <1>3, <1>4

LEMMA WorldCover ==
  ASSUME TInv, TInv', CoverInv, EiodCrash \/ Stir \/ SetClock
  PROVE  CoverInv'
<1>0. Chance \in {0, 1} /\ Chance' \in {0, 1} /\ cover \in BOOLEAN
    BY DEF Chance, TInv, WorldInv
<1>1. UNCHANGED <<log, queue, serve, unit, seen, boots>>
    BY DEF EiodCrash, Mishap, Stir, SetClock, recordVars
<1>2. log'[Uncovered] + Cardinality(Reports(queue'))
        <= log[Uncovered] + Cardinality(Reports(queue)) + 0
    BY <1>1, CoverCounts
<1>3. unit' = "failed" => ~seen'
    BY <1>1 DEF CoverInv
<1>4. CASE EiodCrash \/ (Stir /\ cover' = ~cover /\ ~cover)
    <2>1. Happened' = Happened + 1
        <3>1. CASE EiodCrash
            BY <3>1, CoverCounts DEF EiodCrash, Mishap, Happened
        <3>2. CASE Stir /\ cover' = ~cover /\ ~cover
            <4>1. openings' = openings + 1 /\ mishaps' = mishaps /\ boots' = boots
                BY <3>2 DEF Stir
            <4> QED
                BY <4>1, CoverCounts DEF Happened
        <3> QED
            BY <1>4, <3>1, <3>2
    <2>2. Chance' + 0 <= Chance + 1
        BY MoreChances
    <2> QED
        BY <1>2, <1>3, <2>1, <2>2, Funded
<1>5. CASE SetClock \/ (Stir /\ (cover' = cover \/ (cover' = ~cover /\ cover)))
    <2>1. UNCHANGED <<openings, mishaps, boots>>
        BY <1>0, <1>5 DEF Stir, SetClock
    <2>2. Chance' <= Chance
        BY <1>0, <1>1, <1>5 DEF Chance, SetClock
    <2>3. Chance' + 0 <= Chance + 0
        BY <2>2, MoreChances
    <2> QED
        BY <1>2, <1>3, <2>1, <2>3, SameHappened, Funded
<1> QED
    BY <1>0, <1>4, <1>5 DEF Stir

LEMMA CoverStep == TInv /\ TInv' /\ CoverInv /\ [Next]_vars => CoverInv'
<1>1. {"main", "eio", "sensor"} = Threads
    BY DEF Threads
<1> QED
    BY <1>1, ThreadCover, SampleCoverFunded, HandleCover, CrashCover, RestartCover, WorldCover
    DEF Next, Main, Eio, Sensor

(* An opening of the cover is in the log once, however often it is sampled;*)
(* each crash and each boot may add one report of a cover still open.      *)
THEOREM OneReportPerOpening == Spec => []UncoveredOncePerOpening
<1>1. Init => TInv /\ CoverInv
    <2> SUFFICES ASSUME Init PROVE TInv /\ CoverInv
        OBVIOUS
    <2>1. TInv
        BY TypeInit
    <2>2. log[Uncovered] = 0 /\ Cardinality(Reports(queue)) = 0 /\ Chance = 0
        BY AlarmTexts, EmptyReports DEF Init, Chance
    <2>3. Told = 0 /\ Happened = 1
        BY <2>2 DEF Told, Happened, Init
    <2> QED
        BY <2>1, <2>3 DEF CoverInv, Init
<1>2. TInv /\ CoverInv /\ [Next]_vars => (TInv /\ CoverInv)'
    BY TypeStep, CoverStep
<1>3. TInv /\ CoverInv => UncoveredOncePerOpening
    BY CoverCounts DEF CoverInv, Told, Happened, UncoveredOncePerOpening
<1> QED
    BY <1>1, <1>2, <1>3, PTL DEF Spec
=============================================================================
