---------------------------- MODULE EioManagerProofs ----------------------------
(***************************************************************************)
(* Proofs about EioManager, for any number of clients, any configurations, *)
(* firmware files and layout of the flash.                                 *)
(***************************************************************************)
EXTENDS EioManager, SequenceTheorems, TLAPS

-----------------------------------------------------------------------------
(* The queue.  A request says what its client's user asked for.            *)
Request == [from : Clients, op : {"check", "deploy", "retrieve", "update"},
            arg : Config \cup {NoConfig} \cup Images]

Queued(q, c) == \E i \in DOMAIN q : q[i].from = c
Apart(q) == \A i, j \in DOMAIN q : q[i].from = q[j].from => i = j
Fits(r, j) == /\ r.op = "deploy" => r.arg \in Config /\ j.arg = r.arg
              /\ r.op = "update" => r.arg \in Images

QueueInv ==
  /\ queue \in Seq(Request) /\ Apart(queue)
  /\ client \in [Clients -> {"idle", "checking", "decide", "waiting"}]
  /\ job \in [Clients -> Jobs \cup {NoJob}] /\ made \in [Clients -> 0..MaxRequests]
  /\ eiod \in {"up", "down"} /\ stock \in Images
  /\ \A c \in Clients : client[c] \in {"checking", "waiting"} <=> Queued(queue, c)
  /\ \A i \in DOMAIN queue : Fits(queue[i], job[queue[i].from])
  /\ \A c \in Clients : client[c] # "idle" => job[c] \in Jobs
  /\ eiod = "down" => queue = <<>>

(* A request of a client that has none in the queue.                       *)
LEMMA Joined ==
  ASSUME NEW q \in Seq(Request), NEW r \in Request, ~Queued(q, r.from), Apart(q)
  PROVE  /\ Append(q, r) \in Seq(Request) /\ Apart(Append(q, r))
         /\ \A c : Queued(Append(q, r), c) <=> Queued(q, c) \/ c = r.from
         /\ \A i \in DOMAIN Append(q, r) :
              Append(q, r)[i] = r \/ (i \in DOMAIN q /\ Append(q, r)[i] = q[i])
<1>1. /\ Append(q, r) \in Seq(Request) /\ Len(Append(q, r)) = Len(q) + 1
      /\ \A i \in 1..Len(q) : Append(q, r)[i] = q[i]
      /\ Append(q, r)[Len(q) + 1] = r
    BY AppendProperties
<1>2. DOMAIN q = 1..Len(q) /\ DOMAIN Append(q, r) = 1..(Len(q) + 1) /\ Len(q) \in Nat
    BY <1>1, LenProperties
<1>3. \A i \in DOMAIN Append(q, r) : i = Len(q) + 1 \/ i \in DOMAIN q
    BY <1>2
<1>4. DOMAIN q \subseteq DOMAIN Append(q, r) /\ Len(q) + 1 \in DOMAIN Append(q, r)
    BY <1>2
<1>5. Apart(Append(q, r))
    BY <1>1, <1>2, <1>3 DEF Apart, Queued
<1> QED
    BY <1>1, <1>2, <1>3, <1>4, <1>5 DEF Queued

(* The first request has been answered.                                    *)
LEMMA Served ==
  ASSUME NEW q \in Seq(Request), q # <<>>, Apart(q)
  PROVE  /\ Tail(q) \in Seq(Request) /\ Apart(Tail(q))
         /\ Head(q) \in Request /\ Head(q) = q[1] /\ 1 \in DOMAIN q
         /\ \A c : Queued(Tail(q), c) <=> Queued(q, c) /\ c # Head(q).from
         /\ \A i \in DOMAIN Tail(q) : i + 1 \in DOMAIN q /\ Tail(q)[i] = q[i + 1]
<1>1. /\ Head(q) = q[1] /\ Head(q) \in Request
      /\ Tail(q) \in Seq(Request) /\ Len(Tail(q)) = Len(q) - 1
      /\ \A i \in 1..Len(Tail(q)) : Tail(q)[i] = q[i + 1]
    BY HeadTailProperties
<1>2. DOMAIN q = 1..Len(q) /\ DOMAIN Tail(q) = 1..(Len(q) - 1) /\ Len(q) \in Nat \ {0}
    BY <1>1, LenProperties, EmptySeq
<1>3. \A i \in DOMAIN Tail(q) : i + 1 \in DOMAIN q /\ i + 1 # 1 /\ Tail(q)[i] = q[i + 1]
    BY <1>1, <1>2
<1>4. \A i \in DOMAIN q : i # 1 => i - 1 \in DOMAIN Tail(q) /\ Tail(q)[i - 1] = q[i]
    BY <1>1, <1>2
<1>5. 1 \in DOMAIN q
    BY <1>2
<1>6. Apart(Tail(q))
    <2> SUFFICES ASSUME NEW i \in DOMAIN Tail(q), NEW j \in DOMAIN Tail(q),
                        Tail(q)[i].from = Tail(q)[j].from
                 PROVE  i = j
        BY DEF Apart
    <2>1. i + 1 = j + 1
        BY <1>3 DEF Apart
    <2> QED
        BY <2>1, <1>2
<1>7. ASSUME NEW c, Queued(Tail(q), c) PROVE Queued(q, c) /\ c # Head(q).from
    <2>1. PICK i \in DOMAIN Tail(q) : Tail(q)[i].from = c
        BY <1>7 DEF Queued
    <2> QED
        BY <2>1, <1>1, <1>3, <1>5 DEF Queued, Apart
<1>8. ASSUME NEW c, Queued(q, c), c # Head(q).from PROVE Queued(Tail(q), c)
    <2>1. PICK i \in DOMAIN q : q[i].from = c
        BY <1>8 DEF Queued
    <2>2. i # 1
        BY <2>1, <1>8, <1>1
    <2> QED
        BY <2>1, <2>2, <1>4 DEF Queued
<1> QED
    BY <1>1, <1>3, <1>5, <1>6, <1>7, <1>8

-----------------------------------------------------------------------------
(* What a client sends, and what the worker answers, keeps the queue.      *)
LEMMA JobTypes ==
  ASSUME NEW j \in Jobs
  PROVE  /\ j.op = "deploy" => j.arg \in Config
         /\ j.op = "update" => j.arg \in Images
         /\ j.op = "retrieve" => j.arg = NoConfig
         /\ j.op \in {"deploy", "update", "retrieve", "stock"}
BY DEF Jobs

LEMMA SendType ==
  ASSUME NEW c \in Clients, NEW j \in Jobs, stock \in Images, SendJob(c, j)
  PROVE  \E r \in Request : r.from = c /\ Fits(r, j) /\ queue' = Append(queue, r)
<1>1. CASE j.op = "stock"
    <2> DEFINE r == [from |-> c, op |-> "update", arg |-> stock]
    <2>1. r \in Request /\ r.from = c /\ Fits(r, j)
        BY DEF Request, Fits
    <2> QED
        BY <1>1, <2>1 DEF SendJob, Send
<1>2. CASE j.op # "stock"
    <2> DEFINE r == [from |-> c, op |-> j.op, arg |-> j.arg]
    <2>1. r \in Request /\ r.from = c /\ Fits(r, j)
        BY <1>2, JobTypes DEF Request, Fits
    <2> QED
        BY <1>2, <2>1 DEF SendJob, Send
<1> QED
    BY <1>1, <1>2

(* A client that was not waiting joins the queue.                          *)
LEMMA JoinStep ==
  ASSUME QueueInv, eiod = "up", NEW c \in Clients, client[c] \in {"idle", "decide"},
         NEW j \in Jobs, NEW r \in Request, r.from = c, Fits(r, j),
         NEW s \in {"checking", "waiting"},
         queue' = Append(queue, r), client' = [client EXCEPT ![c] = s],
         job' = [job EXCEPT ![c] = j], made' \in [Clients -> 0..MaxRequests],
         UNCHANGED <<eiod, stock>>
  PROVE  QueueInv'
<1>1. ~Queued(queue, r.from)
    BY DEF QueueInv
<1>2. /\ Append(queue, r) \in Seq(Request) /\ Apart(Append(queue, r))
      /\ \A d : Queued(Append(queue, r), d) <=> Queued(queue, d) \/ d = c
      /\ \A i \in DOMAIN Append(queue, r) :
           Append(queue, r)[i] = r \/ (i \in DOMAIN queue /\ Append(queue, r)[i] = queue[i])
    BY <1>1, Joined DEF QueueInv
<1>3. queue' \in Seq(Request) /\ Apart(queue')
    BY <1>2
<1>4. client' \in [Clients -> {"idle", "checking", "decide", "waiting"}]
    BY DEF QueueInv
<1>5. job' \in [Clients -> Jobs \cup {NoJob}]
    BY DEF QueueInv
<1>6. \A d \in Clients : client'[d] \in {"checking", "waiting"} <=> Queued(queue', d)
    BY <1>2 DEF QueueInv
<1>7. \A i \in DOMAIN queue' : Fits(queue'[i], job'[queue'[i].from])
    <2> SUFFICES ASSUME NEW i \in DOMAIN queue' PROVE Fits(queue'[i], job'[queue'[i].from])
        OBVIOUS
    <2>1. CASE queue'[i] = r
        BY <2>1 DEF QueueInv
    <2>2. CASE i \in DOMAIN queue /\ queue'[i] = queue[i]
        <3>1. queue[i].from # c
            BY <2>2, <1>1 DEF Queued
        <3>2. job'[queue[i].from] = job[queue[i].from]
            BY <3>1 DEF QueueInv
        <3> QED
            BY <2>2, <3>2 DEF QueueInv
    <2> QED
        BY <1>2, <2>1, <2>2
<1>8. \A d \in Clients : client'[d] # "idle" => job'[d] \in Jobs
    BY DEF QueueInv
<1> QED
    BY <1>3, <1>4, <1>5, <1>6, <1>7, <1>8 DEF QueueInv

(* The first request is answered.                                          *)
LEMMA FinishStep ==
  ASSUME QueueInv, queue # <<>>, NEW status, NEW arg, Finish(status, arg),
         UNCHANGED <<eiod, stock>>
  PROVE  QueueInv'
<1> DEFINE c == Head(queue).from
<1>1. /\ Tail(queue) \in Seq(Request) /\ Apart(Tail(queue))
      /\ Head(queue) \in Request /\ Head(queue) = queue[1] /\ 1 \in DOMAIN queue
      /\ \A d : Queued(Tail(queue), d) <=> Queued(queue, d) /\ d # c
      /\ \A i \in DOMAIN Tail(queue) : i + 1 \in DOMAIN queue /\ Tail(queue)[i] = queue[i + 1]
    BY Served DEF QueueInv
<1>2. c \in Clients /\ Queued(queue, c)
    BY <1>1 DEF Request, Queued
<1>3. client[c] \in {"checking", "waiting"}
    BY <1>2 DEF QueueInv
<1>4. /\ queue' = Tail(queue) /\ UNCHANGED <<job, made>>
      /\ client' = [client EXCEPT ![c] = IF client[c] = "checking" THEN "decide" ELSE "idle"]
    BY DEF Finish, Now, QueueInv
<1>5. client' \in [Clients -> {"idle", "checking", "decide", "waiting"}]
    BY <1>4 DEF QueueInv
<1>6. \A d \in Clients : client'[d] \in {"checking", "waiting"} <=> Queued(queue', d)
    BY <1>1, <1>2, <1>4 DEF QueueInv
<1>7. \A d \in Clients : client'[d] # "idle" => job'[d] \in Jobs
    BY <1>3, <1>4 DEF QueueInv
<1>8. \A i \in DOMAIN queue' : Fits(queue'[i], job'[queue'[i].from])
    BY <1>1, <1>4 DEF QueueInv
<1> QED
    BY <1>1, <1>4, <1>5, <1>6, <1>7, <1>8 DEF QueueInv

(* The server ends and takes all requests with it.                         *)
LEMMA StopStep ==
  ASSUME QueueInv, Stop, eiod' \in {"up", "down"}, UNCHANGED stock
  PROVE  QueueInv'
<1>1. queue' = <<>> /\ UNCHANGED <<job, made>> /\ DOMAIN queue' = {}
      /\ client' = [c \in Clients |-> IF client[c] \in {"checking", "waiting"} THEN "idle"
                                                                            ELSE client[c]]
    BY DEF Stop
<1>2. queue' \in Seq(Request) /\ Apart(queue') /\ \A c : ~Queued(queue', c)
    BY <1>1, EmptySeq DEF Apart, Queued
<1>3. client' \in [Clients -> {"idle", "checking", "decide", "waiting"}]
    BY <1>1 DEF QueueInv
<1>4. \A c \in Clients : client'[c] \notin {"checking", "waiting"}
    BY <1>1
<1>5. \A c \in Clients : client'[c] # "idle" => job'[c] \in Jobs
    BY <1>1 DEF QueueInv
<1> QED
    BY <1>1, <1>2, <1>3, <1>4, <1>5 DEF QueueInv

(* A request at the head of the queue stays there when others arrive.      *)
LEMMA HeadStays ==
  ASSUME NEW r \in Request, queue \in Seq(Request), queue # <<>>, queue' = Append(queue, r)
  PROVE  queue' # <<>> /\ Head(queue') = Head(queue)
BY HeadTailAppend, AppendProperties

(* What the clients do: they leave the worker alone.                       *)
KeepsHead == queue # <<>> => queue' # <<>> /\ Head(queue') = Head(queue)
AsksOnly == KeepsHead /\ UNCHANGED <<step, buffer, at, eiod, controlVars, flashVars>>

LEMMA ClientStep ==
  ASSUME QueueInv, NEW c \in Clients, (\E j \in Jobs : Ask(c, j)) \/ Decide(c)
  PROVE  QueueInv' /\ AsksOnly
<1>1. ASSUME NEW j \in Jobs, Ask(c, j) PROVE QueueInv' /\ AsksOnly
    <2>1. /\ client[c] = "idle" /\ eiod = "up" /\ job' = [job EXCEPT ![c] = j]
          /\ UNCHANGED <<eiod, stock>>
          /\ client' = [client EXCEPT ![c] = IF Gated(c, j) THEN "checking" ELSE "waiting"]
        BY <1>1 DEF Ask, flashVars
    <2>2. made' \in [Clients -> 0..MaxRequests]
        BY <1>1, EioAssumption DEF Ask, QueueInv
    <2>3. \E r \in Request : r.from = c /\ Fits(r, j) /\ queue' = Append(queue, r)
        <3>1. CASE Gated(c, j)
            <4> DEFINE r == [from |-> c, op |-> "check", arg |-> NoConfig]
            <4>1. r \in Request /\ r.from = c /\ Fits(r, j)
                BY DEF Request, Fits
            <4>2. queue' = Append(queue, r)
                BY <3>1, <1>1 DEF Ask, Send
            <4> QED
                BY <4>1, <4>2
        <3>2. CASE ~Gated(c, j)
            BY <3>2, <1>1, SendType DEF Ask, QueueInv
        <3> QED
            BY <3>1, <3>2
    <2>4. PICK r \in Request : r.from = c /\ Fits(r, j) /\ queue' = Append(queue, r)
        BY <2>3
    <2>5. QueueInv'
        <3>1. CASE Gated(c, j)
            BY <3>1, <2>1, <2>2, <2>4, JoinStep
        <3>2. CASE ~Gated(c, j)
            BY <3>2, <2>1, <2>2, <2>4, JoinStep
        <3> QED
            BY <3>1, <3>2
    <2>6. KeepsHead
        BY <2>4, HeadStays DEF QueueInv, KeepsHead
    <2> QED
        BY <1>1, <2>5, <2>6 DEF AsksOnly, Ask
<1>2. ASSUME Decide(c) PROVE QueueInv' /\ AsksOnly
    <2>1. UNCHANGED <<job, made, eiod, stock>> /\ client[c] = "decide"
        BY <1>2 DEF Decide, flashVars
    <2>2. CASE client' = [client EXCEPT ![c] = "idle"] /\ UNCHANGED queue
        <3>1. client' \in [Clients -> {"idle", "checking", "decide", "waiting"}]
            BY <2>2 DEF QueueInv
        <3>2. \A d \in Clients : client'[d] \in {"checking", "waiting"} <=> Queued(queue', d)
            BY <2>1, <2>2 DEF QueueInv
        <3>3. QueueInv'
            BY <2>1, <2>2, <3>1, <3>2 DEF QueueInv
        <3> QED
            BY <3>3, <1>2, <2>2 DEF AsksOnly, KeepsHead, Decide
    <2>3. CASE /\ eiod = "up" /\ client' = [client EXCEPT ![c] = "waiting"]
               /\ SendJob(c, job[c])
        <3>1. job[c] \in Jobs /\ job' = [job EXCEPT ![c] = job[c]]
            BY <2>1 DEF QueueInv
        <3>2. PICK r \in Request : r.from = c /\ Fits(r, job[c]) /\ queue' = Append(queue, r)
            BY <2>3, <3>1, SendType DEF QueueInv
        <3>3. made' \in [Clients -> 0..MaxRequests]
            BY <2>1 DEF QueueInv
        <3>4. QueueInv'
            BY <2>1, <2>3, <3>1, <3>2, <3>3, JoinStep
        <3>5. KeepsHead
            BY <3>2, HeadStays DEF QueueInv, KeepsHead
        <3> QED
            BY <1>2, <3>4, <3>5 DEF AsksOnly, Decide
    <2> QED
        BY <1>2, <2>2, <2>3 DEF Decide
<1> QED
    BY <1>1, <1>2

(* The worker in a request it has not answered yet.                        *)
LEMMA ProceedStep ==
  ASSUME QueueInv, UNCHANGED <<queue, clientVars, eiod, stock>>
  PROVE  QueueInv'
BY DEF QueueInv, clientVars

LEMMA WorkerStep ==
  ASSUME QueueInv, Worker
  PROVE  QueueInv' /\ queue # <<>> /\ eiod = "up"
<1>1. queue # <<>> /\ eiod = "up" /\ UNCHANGED <<eiod, stock>>
    BY DEF Worker, CheckFWU, Retrieve, Validate, EnterConfigMode, WriteBlob, LeaveConfigMode,
           DeployFails, ReadBack, WriteBlock, Verify, UpdateFails, Handling, flashVars
<1>2. \/ \E status : \E arg : Finish(status, arg)
      \/ UNCHANGED <<queue, clientVars>>
    <2>1. CASE CheckFWU
        BY <2>1 DEF CheckFWU
    <2>2. CASE Retrieve
        BY <2>2 DEF Retrieve
    <2>3. CASE Validate
        BY <2>3 DEF Validate, Proceed
    <2>4. CASE EnterConfigMode \/ WriteBlob \/ ReadBack \/ WriteBlock
        BY <2>4 DEF EnterConfigMode, WriteBlob, ReadBack, WriteBlock, Proceed
    <2>5. CASE LeaveConfigMode
        BY <2>5 DEF LeaveConfigMode
    <2>6. CASE DeployFails \/ UpdateFails
        BY <2>6 DEF DeployFails, UpdateFails
    <2>7. CASE Verify
        <3>1. PICK r \in Reads : Finish(IF r = buffer THEN "ok" ELSE "error", NoConfig)
            BY <2>7 DEF Verify
        <3> QED
            BY <3>1
    <2> QED
        BY <2>1, <2>2, <2>3, <2>4, <2>5, <2>6, <2>7 DEF Worker
<1> QED
    BY <1>1, <1>2, FinishStep, ProceedStep

LEMMA QueueInit == Init => QueueInv
<1> SUFFICES ASSUME Init PROVE QueueInv
    OBVIOUS
<1>1. queue = <<>> /\ queue \in Seq(Request) /\ DOMAIN queue = {}
    BY EmptySeq DEF Init
<1>2. made \in [Clients -> 0..MaxRequests]
    BY EioAssumption DEF Init
<1> QED
    BY <1>1, <1>2, EioAssumption DEF Init, QueueInv, Apart, Queued

LEMMA QueueStep == QueueInv /\ [Next]_vars => QueueInv'
<1> SUFFICES ASSUME QueueInv, [Next]_vars PROVE QueueInv'
    OBVIOUS
<1>1. CASE Crash
    BY <1>1, StopStep DEF Crash, flashVars
<1>2. CASE Reboot
    BY <1>2, StopStep DEF Reboot
<1>3. CASE Restart
    BY <1>3 DEF Restart, serverVars, clientVars, flashVars, QueueInv
<1>4. CASE UNCHANGED vars
    BY <1>4 DEF vars, serverVars, clientVars, flashVars, QueueInv
<1> QED
    BY <1>1, <1>2, <1>3, <1>4, ClientStep, WorkerStep DEF Next

-----------------------------------------------------------------------------
(* The worker.  What it does next fits the request it handles, and only a  *)
(* deployment keeps the controller in configuration mode.                  *)
WorkInv ==
  /\ step \in {"free", "control", "blob", "done", "write"}
  /\ mode \in {"run", "config"} /\ broken \in BOOLEAN
  /\ pending \in Good \cup {NoConfig} /\ active \in Good \cup {NoConfig}
  /\ step # "free" => queue # <<>>
  /\ step \in {"control", "blob", "done"} => Now.op = "deploy" /\ Now.arg \in Good
  /\ step = "write" => Now.op = "update"
  /\ step = "done" => pending = Now.arg
  /\ mode = "config" /\ ~broken => step \in {"blob", "done"}

LEMMA WorkInit == Init => WorkInv
BY DEF Init, WorkInv

(* Steps after which the worker is free.                                   *)
LEMMA FreeStep ==
  ASSUME WorkInv, step' = "free", mode' \in {"run", "config"}, broken' \in BOOLEAN,
         pending' \in Good \cup {NoConfig}, active' \in Good \cup {NoConfig},
         mode' = "config" => broken'
  PROVE  WorkInv'
BY DEF WorkInv

LEMMA WorkStep == QueueInv /\ WorkInv /\ [Next]_vars => WorkInv'
<1> SUFFICES ASSUME QueueInv, WorkInv, [Next]_vars PROVE WorkInv'
    OBVIOUS
<1>1. ASSUME NEW c \in Clients, (\E j \in Jobs : Ask(c, j)) \/ Decide(c) PROVE WorkInv'
    <2>1. AsksOnly
        BY <1>1, ClientStep
    <2> QED
        BY <2>1 DEF AsksOnly, KeepsHead, WorkInv, Now, controlVars
<1>2. ASSUME step = "free", step' = "free", UNCHANGED controlVars PROVE WorkInv'
    BY <1>2, FreeStep DEF WorkInv, controlVars
<1>3. CASE CheckFWU
    BY <1>3, <1>2 DEF CheckFWU, Finish, Handling
<1>4. CASE Retrieve
    BY <1>4, <1>2 DEF Retrieve, Finish, Handling
<1>5. CASE Validate
    <2>1. CASE step' = "free"
        BY <1>5, <1>2, <2>1 DEF Validate, Handling
    <2>2. CASE step' = "control" /\ Now.arg \in Good /\ UNCHANGED queue
        BY <1>5, <2>2 DEF Validate, Handling, WorkInv, controlVars, Now
    <2> QED
        BY <1>5, <2>1, <2>2 DEF Validate, Finish, Proceed
<1>6. CASE EnterConfigMode
    BY <1>6 DEF EnterConfigMode, Handling, Proceed, WorkInv, Now
<1>7. CASE WriteBlob
    BY <1>7 DEF WriteBlob, Handling, Proceed, WorkInv, Now
<1>8. CASE LeaveConfigMode
    BY <1>8, FreeStep DEF LeaveConfigMode, Finish, WorkInv
<1>9. CASE DeployFails
    <2>1. broken' = (mode = "config") /\ UNCHANGED <<mode, pending, active>> /\ step' = "free"
        BY <1>9 DEF DeployFails, Finish
    <2>2. broken' \in BOOLEAN
        BY <2>1
    <2> QED
        BY <2>1, <2>2, FreeStep DEF WorkInv
<1>10. CASE ReadBack
    BY <1>10 DEF ReadBack, Handling, Proceed, WorkInv, controlVars, Now
<1>11. CASE WriteBlock
    BY <1>11 DEF WriteBlock, WorkInv, controlVars, Now
<1>12. ASSUME Verify \/ UpdateFails PROVE WorkInv'
    <2>1. step' = "free" /\ UNCHANGED controlVars /\ Now.op = "update"
        BY <1>12 DEF Verify, UpdateFails, Finish, Handling
    <2>2. step \notin {"blob", "done"}
        BY <2>1 DEF WorkInv
    <2> QED
        BY <2>1, <2>2, FreeStep DEF WorkInv, controlVars
<1>13. CASE Crash
    <2>1. broken' = (mode = "config") /\ UNCHANGED <<mode, pending, active>> /\ step' = "free"
        BY <1>13 DEF Crash, Stop
    <2>2. broken' \in BOOLEAN
        BY <2>1
    <2> QED
        BY <2>1, <2>2, FreeStep DEF WorkInv
<1>14. CASE Restart
    BY <1>14 DEF Restart, serverVars, controlVars, WorkInv, Now
<1>15. CASE Reboot
    BY <1>15, FreeStep DEF Reboot, Stop, WorkInv
<1>16. CASE UNCHANGED vars
    BY <1>16 DEF vars, serverVars, controlVars, WorkInv, Now
<1> QED
    BY <1>1, <1>3, <1>4, <1>5, <1>6, <1>7, <1>8, <1>9, <1>10, <1>11, <1>12, <1>13, <1>14, <1>15,
       <1>16 DEF Next, Worker

LEMMA ServerCorrect == Spec => [](QueueInv /\ WorkInv)
BY QueueInit, QueueStep, WorkInit, WorkStep, PTL DEF Spec

(* The controller is in configuration mode only while the worker deploys,  *)
(* or after an error or a crash that cut a deployment short.               *)
THEOREM ConfigModeIsOwned == Spec => []ConfigModeOwned
<1>1. QueueInv /\ WorkInv => ConfigModeOwned
    BY DEF QueueInv, WorkInv, ConfigModeOwned, Handling
<1> QED
    BY <1>1, ServerCorrect, PTL

(* Answers.  Only the worker gives them, to the client it works for.       *)
AnswerSlots == DOMAIN reply = Clients

LEMMA AnswerSlotsStep == AnswerSlots /\ [Next]_vars => AnswerSlots'
<1> SUFFICES ASSUME AnswerSlots, [Next]_vars PROVE AnswerSlots'
    OBVIOUS
<1>1. ASSUME NEW c \in Clients, (\E j \in Jobs : Ask(c, j)) \/ Decide(c) PROVE AnswerSlots'
    BY <1>1 DEF Ask, Decide, AnswerSlots
<1>2. ASSUME NEW status, NEW arg, Finish(status, arg) PROVE AnswerSlots'
    BY <1>2 DEF Finish, AnswerSlots
<1>3. ASSUME UNCHANGED reply PROVE AnswerSlots'
    BY <1>3 DEF AnswerSlots
<1>4. CASE CheckFWU
    BY <1>4, <1>2 DEF CheckFWU
<1>5. CASE Retrieve
    BY <1>5, <1>2 DEF Retrieve
<1>6. CASE Validate
    BY <1>6, <1>2, <1>3 DEF Validate, Proceed, clientVars
<1>7. ASSUME EnterConfigMode \/ WriteBlob \/ ReadBack \/ WriteBlock PROVE AnswerSlots'
    BY <1>7, <1>3 DEF EnterConfigMode, WriteBlob, ReadBack, WriteBlock, Proceed, clientVars
<1>8. CASE LeaveConfigMode
    BY <1>8, <1>2 DEF LeaveConfigMode
<1>9. ASSUME DeployFails \/ UpdateFails PROVE AnswerSlots'
    BY <1>9, <1>2 DEF DeployFails, UpdateFails
<1>10. CASE Verify
    BY <1>10, <1>2 DEF Verify
<1>11. ASSUME Crash \/ Reboot \/ Restart \/ UNCHANGED vars PROVE AnswerSlots'
    BY <1>11, <1>3 DEF Crash, Reboot, Restart, Stop, vars, clientVars
<1> QED
    BY <1>1, <1>4, <1>5, <1>6, <1>7, <1>8, <1>9, <1>10, <1>11 DEF Next, Worker

LEMMA ServerAnswers == Spec => []AnswerSlots
<1>1. Init => AnswerSlots
    BY DEF Init, AnswerSlots
<1> QED
    BY <1>1, AnswerSlotsStep, PTL DEF Spec

(* What an answer says is what the worker finished with.                   *)
LEMMA Told ==
  ASSUME AnswerSlots, NEW c \in Clients, reply'[c] # reply[c],
         NEW status, NEW arg, Finish(status, arg)
  PROVE  c = Now.from /\ reply'[c].op = Now.op /\ reply'[c].status = status
BY DEF AnswerSlots, Finish

(* A positive answer to a deployment or to an update.                      *)
LEMMA PositiveAnswer ==
  ASSUME AnswerSlots, [Next]_vars, NEW c \in Clients, reply'[c] # reply[c],
         reply'[c].op \in {"deploy", "update"}, reply'[c].status = "ok"
  PROVE  /\ c = Now.from
         /\ reply'[c].op = "deploy" => LeaveConfigMode
         /\ reply'[c].op = "update" => Verify /\ \E r \in Reads : r = buffer
<1>1. ASSUME NEW d \in Clients, (\E j \in Jobs : Ask(d, j)) \/ Decide(d) PROVE FALSE
    BY <1>1 DEF Ask, Decide, NoReply, AnswerSlots
<1>2. ASSUME UNCHANGED reply PROVE FALSE
    BY <1>2
<1>3. CASE CheckFWU
    BY <1>3, Told DEF CheckFWU, Handling
<1>4. CASE Retrieve
    BY <1>4, Told DEF Retrieve, Handling
<1>5. CASE Validate
    BY <1>5, <1>2, Told DEF Validate, Proceed, clientVars
<1>6. ASSUME EnterConfigMode \/ WriteBlob \/ ReadBack \/ WriteBlock PROVE FALSE
    BY <1>6, <1>2 DEF EnterConfigMode, WriteBlob, ReadBack, WriteBlock, Proceed, clientVars
<1>7. CASE LeaveConfigMode
    BY <1>7, Told DEF LeaveConfigMode, Handling
<1>8. ASSUME DeployFails \/ UpdateFails PROVE FALSE
    BY <1>8, Told DEF DeployFails, UpdateFails
<1>9. CASE Verify
    <2>1. PICK r \in Reads : Finish(IF r = buffer THEN "ok" ELSE "error", NoConfig)
        BY <1>9 DEF Verify
    <2>2. r = buffer
        BY <2>1, Told
    <2> QED
        BY <1>9, <2>1, <2>2, Told DEF Verify, Handling
<1>10. ASSUME Crash \/ Reboot \/ Restart \/ UNCHANGED vars PROVE FALSE
    BY <1>10, <1>2 DEF Crash, Reboot, Restart, Stop, vars, clientVars
<1> QED
    BY <1>1, <1>3, <1>4, <1>5, <1>6, <1>7, <1>8, <1>9, <1>10 DEF Next, Worker

(* A deployment answered with OK is the configuration in effect: the one   *)
(* that the client who is answered asked for.                              *)
THEOREM DeploymentsTakeEffect == Spec => DeployedAsReported
<1>1. ASSUME QueueInv, WorkInv, AnswerSlots, [Next]_vars, NEW c \in Clients,
             reply'[c] # reply[c], reply'[c].op = "deploy", reply'[c].status = "ok"
      PROVE  active' = job[c].arg /\ mode' = "run"
    <2>1. c = Now.from /\ LeaveConfigMode
        BY <1>1, PositiveAnswer
    <2>2. step = "done" /\ queue # <<>> /\ active' = pending /\ mode' = "run"
        BY <2>1 DEF LeaveConfigMode, Handling
    <2>3. pending = Now.arg /\ Now.op = "deploy"
        BY <2>2, <1>1 DEF WorkInv
    <2>4. Now = queue[1] /\ 1 \in DOMAIN queue
        BY <2>2, <1>1, Served DEF QueueInv, Now
    <2>5. job[c].arg = Now.arg
        BY <2>1, <2>3, <2>4, <1>1 DEF QueueInv, Fits
    <2> QED
        BY <2>2, <2>3, <2>5
<1>2. QueueInv /\ WorkInv /\ AnswerSlots /\ [Next]_vars =>
        [\A c \in Clients :
           reply'[c] # reply[c] /\ reply'[c].op = "deploy" /\ reply'[c].status = "ok" =>
             active' = job[c].arg /\ mode' = "run"]_vars
    BY <1>1
<1> QED
    BY <1>2, ServerCorrect, ServerAnswers, PTL DEF Spec, DeployedAsReported

-----------------------------------------------------------------------------
(* The flash.                                                              *)
FlashInv ==
  /\ buffer \in Seq(Content) /\ at \in 1..(NBlocks + 1)
  /\ flash \in [Block -> Content] /\ running \in Images \cup {NoImage}

LEMMA ImageType ==
  ASSUME NEW i \in Images
  PROVE  i \in Seq(Content)
<1>1. i \in Seq({i[b] : b \in DOMAIN i}) /\ {i[b] : b \in DOMAIN i} \subseteq Content
    BY ImageAssumption DEF Content, ImageBlocks
<1> QED
    BY <1>1, SeqMonotonic

LEMMA Specials == Erased \in Content /\ Garbage \in Content /\ Noise \in Content
BY DEF Content

LEMMA Layout == /\ FwEnd \in Nat /\ ResEnd \in Nat /\ NBlocks \in Nat
                /\ 0 < FwEnd /\ FwEnd < ResEnd /\ ResEnd < NBlocks
BY EioAssumption

(* What is read from the flash is as long as the flash.                    *)
LEMMA FlashIsSeq ==
  ASSUME NEW f \in [Block -> Content]
  PROVE  f \in Seq(Content) /\ Len(f) = NBlocks /\ DOMAIN f = Block
<1>1. f \in Seq(Content)
    BY SeqDef, Layout DEF Block
<1> QED
    BY <1>1, LenProperties, Layout DEF Block

LEMMA ReadType ==
  ASSUME FlashInv, NEW r \in Reads
  PROVE  r \in [Block -> Content]
BY Specials DEF FlashInv, Reads

(* A slice of a sequence, cut at the end of the sequence.                  *)
LEMMA SliceType ==
  ASSUME NEW s \in Seq(Content), NEW lo \in Nat \ {0}, NEW hi \in Nat
  PROVE  /\ Slice(s, lo, hi) \in Seq(Content)
         /\ hi <= Len(s) /\ lo <= hi =>
              /\ Len(Slice(s, lo, hi)) = hi - lo + 1
              /\ \A i \in 1..(hi - lo + 1) : Slice(s, lo, hi)[i] = s[lo + i - 1]
<1> DEFINE h == IF hi < Len(s) THEN hi ELSE Len(s)
<1>1. h \in Nat /\ h <= Len(s) /\ (hi <= Len(s) => h = hi)
    BY LenProperties
<1>2. \A i \in lo..h : s[i] \in Content
    BY <1>1, ElementOfSeq
<1>3. Slice(s, lo, hi) = SubSeq(s, lo, h)
    BY DEF Slice
<1> HIDE DEF h
<1> QED
    BY <1>1, <1>2, <1>3, SubSeqProperties

LEMMA AssembledType ==
  ASSUME NEW img \in Seq(Content), NEW read \in Seq(Content)
  PROVE  Assembled(img, read) \in Seq(Content)
<1>1. /\ FwEnd \in Nat /\ ResEnd \in Nat /\ Len(img) \in Nat
      /\ {1, FwEnd + 1, ResEnd + 1} \subseteq Nat \ {0}
    BY Layout, LenProperties
<1>2. /\ Slice(img, 1, FwEnd) \in Seq(Content)
      /\ Slice(read, FwEnd + 1, ResEnd) \in Seq(Content)
      /\ Slice(img, ResEnd + 1, Len(img)) \in Seq(Content)
    BY <1>1, SliceType
<1> QED
    BY <1>2, ConcatProperties DEF Assembled

(* With a file as long as the flash the partitions are where they belong.  *)
LEMMA AssembledInPlace ==
  ASSUME NEW img \in Seq(Content), NEW read \in Seq(Content),
         Len(img) = NBlocks, Len(read) = NBlocks
  PROVE  /\ Len(Assembled(img, read)) = NBlocks
         /\ \A b \in Block : Assembled(img, read)[b] = IF b \in Reserved THEN read[b] ELSE img[b]
<1> DEFINE fw == Slice(img, 1, FwEnd)
           res == Slice(read, FwEnd + 1, ResEnd)
           cert == Slice(img, ResEnd + 1, NBlocks)
<1>1. /\ fw \in Seq(Content) /\ Len(fw) = FwEnd
      /\ \A i \in 1..FwEnd : fw[i] = img[i]
    <2>1. 1 \in Nat \ {0} /\ 1 <= FwEnd /\ FwEnd <= Len(img)
        BY Layout
    <2>2. /\ fw \in Seq(Content) /\ Len(fw) = FwEnd - 1 + 1
          /\ \A i \in 1..(FwEnd - 1 + 1) : fw[i] = img[1 + i - 1]
        BY <2>1, Layout, SliceType
    <2> QED
        BY <2>2, Layout
<1>2. /\ res \in Seq(Content) /\ Len(res) = ResEnd - FwEnd
      /\ \A i \in 1..(ResEnd - FwEnd) : res[i] = read[FwEnd + i]
    <2>1. FwEnd + 1 \in Nat \ {0} /\ FwEnd + 1 <= ResEnd /\ ResEnd <= Len(read)
        BY Layout
    <2>2. /\ res \in Seq(Content) /\ Len(res) = ResEnd - (FwEnd + 1) + 1
          /\ \A i \in 1..(ResEnd - (FwEnd + 1) + 1) : res[i] = read[FwEnd + 1 + i - 1]
        BY <2>1, Layout, SliceType
    <2> QED
        BY <2>2, Layout
<1>3. /\ cert \in Seq(Content) /\ Len(cert) = NBlocks - ResEnd
      /\ \A i \in 1..(NBlocks - ResEnd) : cert[i] = img[ResEnd + i]
    <2>1. ResEnd + 1 \in Nat \ {0} /\ ResEnd + 1 <= NBlocks /\ NBlocks <= Len(img)
        BY Layout
    <2>2. /\ cert \in Seq(Content) /\ Len(cert) = NBlocks - (ResEnd + 1) + 1
          /\ \A i \in 1..(NBlocks - (ResEnd + 1) + 1) : cert[i] = img[ResEnd + 1 + i - 1]
        BY <2>1, Layout, SliceType
    <2> QED
        BY <2>2, Layout
<1>4. Assembled(img, read) = (fw \o res) \o cert
    BY <1>1, <1>2, <1>3, ConcatAssociative DEF Assembled
<1> HIDE DEF fw, res, cert
<1>5. /\ fw \o res \in Seq(Content) /\ Len(fw \o res) = ResEnd
      /\ \A i \in 1..ResEnd : (fw \o res)[i] = IF i <= FwEnd THEN img[i] ELSE read[i]
    <2>1. /\ fw \o res \in Seq(Content) /\ Len(fw \o res) = Len(fw) + Len(res)
          /\ \A i \in 1..(Len(fw) + Len(res)) : (fw \o res)[i] =
               IF i <= Len(fw) THEN fw[i] ELSE res[i - Len(fw)]
        BY <1>1, <1>2, ConcatProperties
    <2> QED
        BY <2>1, <1>1, <1>2, Layout
<1>6. /\ Len((fw \o res) \o cert) = NBlocks
      /\ \A i \in 1..NBlocks : ((fw \o res) \o cert)[i] =
           IF i <= ResEnd THEN (fw \o res)[i] ELSE img[i]
    <2>1. /\ Len((fw \o res) \o cert) = Len(fw \o res) + Len(cert)
          /\ \A i \in 1..(Len(fw \o res) + Len(cert)) : ((fw \o res) \o cert)[i] =
               IF i <= Len(fw \o res) THEN (fw \o res)[i] ELSE cert[i - Len(fw \o res)]
        BY <1>3, <1>5, ConcatProperties
    <2> QED
        BY <2>1, <1>3, <1>5, Layout
<1> QED
    BY <1>4, <1>5, <1>6, Layout DEF Block, Reserved

(* The file an update is to write.                                         *)
LEMMA UpdateImage ==
  ASSUME QueueInv, queue # <<>>, Now.op = "update"
  PROVE  Now.arg \in Images
<1>1. Now = queue[1] /\ 1 \in DOMAIN queue
    BY Served DEF QueueInv, Now
<1> QED
    BY <1>1 DEF QueueInv, Fits

LEMMA FlashInit == Init => FlashInv
<1> SUFFICES ASSUME Init PROVE FlashInv
    OBVIOUS
<1>1. flash \in [1..Len(flash) -> Content] /\ Len(flash) = NBlocks
    BY ImageType, LenProperties DEF Init
<1>2. running \in Images \cup {NoImage}
    BY DEF Init, Booted
<1>3. buffer \in Seq(Content) /\ at \in 1..(NBlocks + 1)
    BY Layout, EmptySeq DEF Init
<1> QED
    BY <1>1, <1>2, <1>3 DEF FlashInv, Block

LEMMA FlashStep == QueueInv /\ FlashInv /\ [Next]_vars => FlashInv'
<1> SUFFICES ASSUME QueueInv, FlashInv, [Next]_vars PROVE FlashInv'
    OBVIOUS
<1>1. ASSUME UNCHANGED <<buffer, at, flash, running>> PROVE FlashInv'
    BY <1>1 DEF FlashInv
<1>2. ASSUME buffer' = <<>>, at' = 1, flash' \in [Block -> Content], 
             running' \in Images \cup {NoImage}
      PROVE  FlashInv'
    <2>1. buffer' \in Seq(Content) /\ at' \in 1..(NBlocks + 1)
        BY <1>2, Layout, EmptySeq
    <2> QED
        BY <1>2, <2>1 DEF FlashInv
<1>3. ASSUME NEW status, NEW arg, Finish(status, arg), UNCHANGED <<flash, running>>
      PROVE  FlashInv'
    BY <1>2, <1>3 DEF Finish, FlashInv
<1>4. ASSUME NEW c \in Clients, (\E j \in Jobs : Ask(c, j)) \/ Decide(c) PROVE FlashInv'
    BY <1>4, <1>1 DEF Ask, Decide, flashVars
<1>5. CASE CheckFWU \/ Retrieve \/ LeaveConfigMode \/ DeployFails
    BY <1>5, <1>3 DEF CheckFWU, Retrieve, LeaveConfigMode, DeployFails, flashVars
<1>6. CASE Validate
    BY <1>6, <1>1, <1>3 DEF Validate, flashVars
<1>7. CASE EnterConfigMode \/ WriteBlob
    BY <1>7, <1>1 DEF EnterConfigMode, WriteBlob, flashVars
<1>8. CASE ReadBack
    <2>1. PICK r \in Reads : buffer' = Assembled(Now.arg, r)
        BY <1>8 DEF ReadBack
    <2>2. Now.arg \in Seq(Content)
        BY <1>8, UpdateImage, ImageType DEF ReadBack, Handling
    <2>3. buffer' \in Seq(Content)
        BY <2>1, <2>2, ReadType, FlashIsSeq, AssembledType
    <2>4. at' \in 1..(NBlocks + 1)
        BY <1>8, Layout DEF ReadBack
    <2> QED
        BY <1>8, <2>3, <2>4 DEF FlashInv, ReadBack, flashVars
<1>9. CASE WriteBlock
    <2>1. ToWrite \in Content /\ Garbage \in Content
        BY ElementOfSeq, LenProperties, Specials DEF FlashInv, ToWrite, Block
    <2>2. flash' \in [Block -> Content]
        BY <1>9, <2>1 DEF WriteBlock, FlashInv
    <2>3. at' \in 1..(NBlocks + 1)
        BY <1>9, Layout DEF WriteBlock, Block
    <2> QED
        BY <1>9, <2>2, <2>3 DEF FlashInv, WriteBlock
<1>10. CASE Verify
    <2>1. PICK status : Finish(status, NoConfig)
        BY <1>10 DEF Verify
    <2> QED
        BY <1>10, <2>1, <1>3 DEF Verify, flashVars
<1>11. CASE UpdateFails
    <2>1. flash' \in [Block -> Content]
        BY <1>11, Specials DEF UpdateFails, FlashInv
    <2> QED
        BY <1>11, <2>1, <1>2 DEF UpdateFails, Finish, FlashInv
<1>12. CASE Crash
    BY <1>12, <1>2 DEF Crash, Stop, flashVars, FlashInv
<1>13. CASE Reboot
    <2>1. running' \in Images \cup {NoImage}
        BY <1>13 DEF Reboot, Booted
    <2> QED
        BY <1>13, <2>1, <1>2 DEF Reboot, Stop, FlashInv
<1>14. CASE Restart \/ UNCHANGED vars
    BY <1>14, <1>1 DEF Restart, vars, serverVars, flashVars
<1> QED
    BY <1>4, <1>5, <1>6, <1>7, <1>8, <1>9, <1>10, <1>11, <1>12, <1>13, <1>14 DEF Next, Worker

LEMMA Inductive == Spec => [](QueueInv /\ WorkInv /\ FlashInv)
BY ServerCorrect, FlashInit, FlashStep, PTL DEF Spec

(* Server, clients, controller and flash stay in their states, and a client*)
(* waits just when one request of it is with the server.                   *)
THEOREM ManagerTypeCorrect == Spec => []TypeOK
<1>1. QueueInv /\ WorkInv /\ FlashInv => TypeOK
    BY DEF QueueInv, WorkInv, FlashInv, TypeOK, Queued, Apart, Request
<1> QED
    BY <1>1, Inductive, PTL

-----------------------------------------------------------------------------
(* The reserved partition survives if files are as long as the flash and   *)
(* what is read is what the flash holds: whatever fails, is written badly, *)
(* crashes or is done again.                                               *)
SoundFiles == (\A i \in Images : Len(i) = NBlocks) /\ "glitch" \notin Faults

ReservedInv ==
  /\ \A b \in Reserved : flash[b] = flash0[b]
  /\ step = "write" =>
       /\ Len(buffer) = NBlocks
       /\ \A b \in Block : buffer[b] = IF b \in Reserved THEN flash0[b] ELSE Now.arg[b]

LEMMA ReservedInBlock == Reserved \subseteq Block /\ \A b \in Block : b \in Int
BY Layout DEF Reserved, Block

LEMMA ReservedStep ==
  ASSUME SoundFiles, QueueInv, WorkInv, FlashInv, ReservedInv, [Next]_vars
  PROVE  ReservedInv'
<1>0. Reads = {flash}
    BY DEF Reads, SoundFiles
<1>1. ASSUME step' = "free", UNCHANGED <<flash, flash0>> PROVE ReservedInv'
    BY <1>1 DEF ReservedInv
<1>2. ASSUME NEW status, NEW arg, Finish(status, arg), UNCHANGED <<flash, flash0>>
      PROVE  ReservedInv'
    BY <1>2, <1>1 DEF Finish
<1>3. ASSUME KeepsHead, UNCHANGED <<step, buffer, flash, flash0>> PROVE ReservedInv'
    BY <1>3 DEF ReservedInv, WorkInv, KeepsHead, Now
<1>4. ASSUME NEW c \in Clients, (\E j \in Jobs : Ask(c, j)) \/ Decide(c) PROVE ReservedInv'
    BY <1>4, <1>3, ClientStep DEF AsksOnly, flashVars
<1>5. CASE CheckFWU \/ Retrieve \/ LeaveConfigMode \/ DeployFails
    BY <1>5, <1>2 DEF CheckFWU, Retrieve, LeaveConfigMode, DeployFails, flashVars
<1>6. ASSUME step' # "write", UNCHANGED <<flash, flash0>> PROVE ReservedInv'
    BY <1>6 DEF ReservedInv
<1>7. CASE Validate
    BY <1>7, <1>2, <1>6 DEF Validate, Proceed, flashVars
<1>8. CASE EnterConfigMode \/ WriteBlob
    BY <1>8, <1>6 DEF EnterConfigMode, WriteBlob, Proceed, flashVars
<1>9. CASE ReadBack
    <2>1. buffer' = Assembled(Now.arg, flash) /\ UNCHANGED <<queue, flash, flash0>>
        BY <1>9, <1>0 DEF ReadBack, Proceed, flashVars
    <2>2. Now.arg \in Images
        BY <1>9, UpdateImage DEF ReadBack, Handling
    <2>3. Now.arg \in Seq(Content) /\ Len(Now.arg) = NBlocks
        BY <2>2, ImageType DEF SoundFiles
    <2>4. flash \in Seq(Content) /\ Len(flash) = NBlocks
        BY FlashIsSeq DEF FlashInv
    <2>5. /\ Len(buffer') = NBlocks
          /\ \A b \in Block : buffer'[b] = IF b \in Reserved THEN flash[b] ELSE Now.arg[b]
        BY <2>1, <2>3, <2>4, AssembledInPlace
    <2> QED
        BY <2>1, <2>5 DEF ReservedInv, Now
<1>10. CASE WriteBlock
    <2>1. step = "write" /\ at \in Block /\ UNCHANGED <<queue, step, buffer, flash0>>
        BY <1>10 DEF WriteBlock, Handling
    <2>2. ToWrite = buffer[at]
        BY <2>1, Layout DEF ToWrite, ReservedInv, Block
    <2>3. \A b \in Reserved : flash'[b] = flash0[b]
        <3> SUFFICES ASSUME NEW b \in Reserved PROVE flash'[b] = flash0[b]
            OBVIOUS
        <3>1. CASE b = at
            <4>1. flash[at] = ToWrite
                BY <2>1, <2>2, <3>1 DEF ReservedInv
            <4> QED
                BY <1>10, <4>1, <3>1, <2>1 DEF WriteBlock, FlashInv, ReservedInv
        <3>2. CASE b # at
            BY <1>10, <3>2, <2>1, ReservedInBlock DEF WriteBlock, FlashInv, ReservedInv
        <3> QED
            BY <3>1, <3>2
    <2> QED
        BY <2>1, <2>3 DEF ReservedInv, Now
<1>11. CASE Verify
    <2>1. PICK status : Finish(status, NoConfig)
        BY <1>11 DEF Verify
    <2> QED
        BY <1>11, <2>1, <1>2 DEF Verify, flashVars
<1>12. CASE UpdateFails
    <2>1. step' = "free" /\ UNCHANGED flash0
        BY <1>12 DEF UpdateFails, Finish
    <2>2. CASE UNCHANGED flash
        BY <2>1, <2>2, <1>1
    <2>3. CASE /\ step = "write" /\ at \in Block /\ flash[at] # ToWrite
               /\ flash' = [flash EXCEPT ![at] = Erased]
        <3>1. ToWrite = buffer[at]
            BY <2>3, Layout DEF ToWrite, ReservedInv, Block
        <3>2. at \notin Reserved
            BY <2>3, <3>1 DEF ReservedInv
        <3>3. \A b \in Reserved : flash'[b] = flash0[b]
            BY <2>3, <3>2, ReservedInBlock DEF FlashInv, ReservedInv
        <3> QED
            BY <2>1, <3>3 DEF ReservedInv
    <2> QED
        BY <1>12, <2>2, <2>3 DEF UpdateFails
<1>13. CASE Crash \/ Reboot
    BY <1>13, <1>1 DEF Crash, Reboot, Stop, flashVars
<1>14. CASE Restart \/ UNCHANGED vars
    <2>1. UNCHANGED <<queue, step, buffer, flash, flash0>>
        BY <1>14 DEF Restart, vars, serverVars, flashVars
    <2> QED
        BY <2>1 DEF ReservedInv, Now
<1> QED
    BY <1>4, <1>5, <1>7, <1>8, <1>9, <1>10, <1>11, <1>12, <1>13, <1>14 DEF Next, Worker

LEMMA ReservedCorrect == SoundFiles => (Spec => []ReservedInv)
<1>1. Init => ReservedInv
    BY DEF Init, ReservedInv
<1>2. SoundFiles /\ QueueInv /\ WorkInv /\ FlashInv /\ ReservedInv /\ [Next]_vars => ReservedInv'
    BY ReservedStep
<1>3. SoundFiles => [](SoundFiles)
    BY DEF SoundFiles
<1> QED
    BY <1>1, <1>2, <1>3, Inductive, PTL DEF Spec

(* No sequence of updates, failures and restarts changes the reserved      *)
(* partition.                                                              *)
THEOREM ReservedSurvives == SoundFiles => (Spec => []ReservedPreserved)
<1>1. ReservedInv => ReservedPreserved
    BY DEF ReservedInv, ReservedPreserved
<1> QED
    BY <1>1, ReservedCorrect, PTL

(* An update answered with OK has put firmware and certificate of the file *)
(* into the flash and kept the reserved partition.                         *)
THEOREM UpdatesAreComplete == SoundFiles => (Spec => UpdatedAsReported)
<1>1. ASSUME SoundFiles, QueueInv, WorkInv, FlashInv, ReservedInv, AnswerSlots, [Next]_vars,
             NEW c \in Clients,
             reply'[c] # reply[c], reply'[c].op = "update", reply'[c].status = "ok"
      PROVE  Holds(flash', Now.arg) /\ \A b \in Reserved : flash'[b] = flash0[b]
    <2>1. Verify /\ \E r \in Reads : r = buffer
        BY <1>1, PositiveAnswer
    <2>2. flash = buffer /\ flash' = flash /\ step = "write" /\ queue # <<>>
          /\ Now.op = "update"
        BY <2>1, <1>1 DEF Verify, Handling, Reads, SoundFiles, flashVars
    <2>3. Now.arg \in Seq(Content) /\ Len(Now.arg) = NBlocks
        BY <2>2, <1>1, UpdateImage, ImageType DEF SoundFiles
    <2>4. DOMAIN Now.arg = Block
        BY <2>3, LenProperties DEF Block
    <2>5. Holds(flash', Now.arg)
        BY <2>2, <2>4, <1>1 DEF Holds, ReservedInv
    <2> QED
        BY <2>2, <2>5, <1>1 DEF ReservedInv
<1>2. SoundFiles /\ QueueInv /\ WorkInv /\ FlashInv /\ ReservedInv /\ AnswerSlots /\ [Next]_vars =>
        [\A c \in Clients :
           reply'[c] # reply[c] /\ reply'[c].op = "update" /\ reply'[c].status = "ok" =>
             Holds(flash', Now.arg) /\ \A b \in Reserved : flash'[b] = flash0[b]]_vars
    BY <1>1
<1>3. SoundFiles => []SoundFiles
    BY DEF SoundFiles
<1> QED
    BY <1>2, <1>3, Inductive, ServerAnswers, ReservedCorrect, PTL DEF Spec, UpdatedAsReported
=============================================================================
