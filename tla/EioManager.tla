----------------------------- MODULE EioManager -----------------------------
(***************************************************************************)
(* iot2050-eiod, the gRPC server of the extended-IO subsystem, and its     *)
(* clients.  The server has one worker.  It hands configurations to the    *)
(* controller through the files of the extended-IO file system, reports    *)
(* whether the controller's firmware is current, and writes new firmware   *)
(* into the controller's SPI flash, whose reserved part must survive.      *)
(***************************************************************************)
EXTENDS Integers, Sequences, FiniteSets

CONSTANTS
  Clients,        \* instances of the command line tool and of the web UI
  Cli,            \* those of the command line tool
  Config,         \* configurations a client may ask to deploy
  Rejected,       \* those the validator refuses (ConfigError)
  Raising,        \* those that raise anything else: bad YAML, values out of range
  NoConfig,
  FwEnd, ResEnd,  \* last block of the firmware and of the reserved partition
  NBlocks,        \* blocks of the flash
  Erased, Garbage,\* an erased block; what lies behind the end of a buffer
  Noise,          \* what an unreliable read returns
  Images,         \* firmware files, as sequences of blocks
  Release,        \* the image that firmware-version describes
  StockFiles,     \* images the stock file may hold
  Ops,            \* operations the clients use
  Faults,         \* what may go wrong
  MaxRequests     \* bound on the requests of each client

AllFaults == {"fs", "flash", "badwrite", "glitch", "crash", "reboot"}

ASSUME EioAssumption ==
  /\ Cli \subseteq Clients
  /\ Rejected \subseteq Config /\ Raising \subseteq Config \ Rejected
  /\ NoConfig \notin Config
  /\ {FwEnd, ResEnd, NBlocks, MaxRequests} \subseteq Nat
  /\ 0 < FwEnd /\ FwEnd < ResEnd /\ ResEnd < NBlocks
  /\ Release \in Images /\ StockFiles \subseteq Images
  /\ Ops \subseteq {"deploy", "retrieve", "update", "stock"}
  /\ Faults \subseteq AllFaults

ASSUME ImageAssumption == \A i \in Images : i \in Seq({i[b] : b \in DOMAIN i})

Block == 1..NBlocks
Reserved == (FwEnd + 1)..ResEnd
Good == Config \ (Rejected \cup Raising)
NoImage == <<>>

VARIABLES
  queue,    \* requests for the worker; the first is being handled
  step,     \* where the worker is in it
  buffer,   \* write_firmware
  at,       \* next block to write
  client,   \* per client: "idle", "checking", "decide", "waiting"
  job,      \* per client: what its user asked for
  made,     \* per client: jobs so far
  reply,    \* per client: the last answer
  eiod,     \* "up" or "down"
  mode,     \* of the controller: "run" or "config"
  pending,  \* configuration written in configuration mode
  active,   \* configuration in effect
  broken,   \* auxiliary: an error or a crash cut a deployment short
  flash,    \* the SPI flash
  running,  \* the image the controller has booted; NoImage: no file system
  stock,    \* content of the stock firmware file
  flash0    \* auxiliary: the flash at the beginning

serverVars  == <<queue, step, buffer, at>>
clientVars  == <<client, job, made, reply>>
controlVars == <<mode, pending, active, broken>>
flashVars   == <<flash, running, stock, flash0>>
vars == <<serverVars, clientVars, eiod, controlVars, flashVars>>

Jobs == [op : Ops \cap {"deploy"}, arg : Config]
        \cup [op : Ops \cap {"update"}, arg : Images]
        \cup [op : Ops \cap {"retrieve", "stock"}, arg : {NoConfig}]
NoJob == [op |-> "none", arg |-> NoConfig]
NoReply == [op |-> "none", status |-> "ok", arg |-> NoConfig]

(* The image whose firmware and certificate partitions a flash holds.      *)
Holds(f, i) == \A b \in Block \ Reserved : b \in DOMAIN i /\ f[b] = i[b]
Booted(f) == LET is == {i \in Images : Holds(f, i)}
             IN IF is = {} THEN NoImage ELSE CHOOSE i \in is : TRUE

Init ==
  /\ queue = <<>> /\ step = "free" /\ buffer = <<>> /\ at = 1
  /\ client = [c \in Clients |-> "idle"] /\ job = [c \in Clients |-> NoJob]
  /\ made = [c \in Clients |-> 0] /\ reply = [c \in Clients |-> NoReply]
  /\ eiod = "up"
  /\ mode = "run" /\ pending = NoConfig /\ active \in Good /\ broken = FALSE
  /\ flash \in {i \in Images : Len(i) = NBlocks}
  /\ running = Booted(flash) /\ stock \in StockFiles /\ flash0 = flash

-----------------------------------------------------------------------------
(* The clients.  The command line tool asks whether the firmware is current*)
(* before it deploys, retrieves, or writes the stock file.                 *)
Send(c, op, arg) == queue' = Append(queue, [from |-> c, op |-> op, arg |-> arg])

SendJob(c, j) == IF j.op = "stock" THEN Send(c, "update", stock) ELSE Send(c, j.op, j.arg)

Gated(c, j) == c \in Cli /\ j.op # "update"

Ask(c, j) ==
  /\ client[c] = "idle" /\ made[c] < MaxRequests /\ eiod = "up"
  /\ j.op = "stock" => c \in Cli
  /\ j.op = "update" => c \in Cli
  /\ made' = [made EXCEPT ![c] = @ + 1] /\ job' = [job EXCEPT ![c] = j]
  /\ reply' = [reply EXCEPT ![c] = NoReply]
  /\ client' = [client EXCEPT ![c] = IF Gated(c, j) THEN "checking" ELSE "waiting"]
  /\ IF Gated(c, j) THEN Send(c, "check", NoConfig) ELSE SendJob(c, j)
  /\ UNCHANGED <<step, buffer, at, eiod, controlVars, flashVars>>

(* Mutant: a user who goes on does not wait for the answer.                *)
DecideNoWait(c) ==
  /\ client[c] = "decide" /\ client' = [client EXCEPT ![c] = "idle"]
  /\ \/ UNCHANGED queue
     \/ /\ eiod = "up" /\ (job[c].op = "stock" => reply[c].status # "current")
        /\ SendJob(c, job[c])
  /\ UNCHANGED <<step, buffer, at, job, made, reply, eiod, controlVars, flashVars>>

(* A configuration command warns about a firmware that is not current and  *)
(* asks; "fwu controller" stops when the firmware is current.              *)
Decide(c) ==
  /\ client[c] = "decide"
  /\ \/ /\ client' = [client EXCEPT ![c] = "idle"] /\ UNCHANGED queue
        /\ \/ eiod = "down"
           \/ IF job[c].op = "stock" THEN reply[c].status = "current"
                                     ELSE reply[c].status # "current"
     \/ /\ eiod = "up" /\ (job[c].op = "stock" => reply[c].status # "current")
        /\ client' = [client EXCEPT ![c] = "waiting"] /\ SendJob(c, job[c])
  /\ UNCHANGED <<step, buffer, at, job, made, reply, eiod, controlVars, flashVars>>

-----------------------------------------------------------------------------
(* The worker.                                                             *)
Now == Head(queue)
Handling(op, s) == eiod = "up" /\ queue # <<>> /\ Now.op = op /\ step = s

Finish(status, arg) ==
  /\ reply' = [reply EXCEPT ![Now.from] = [op |-> Now.op, status |-> status, arg |-> arg]]
  /\ client' = [client EXCEPT ![Now.from] = IF @ = "checking" THEN "decide" ELSE "idle"]
  /\ queue' = Tail(queue) /\ step' = "free" /\ buffer' = <<>> /\ at' = 1
  /\ UNCHANGED <<job, made>>

Proceed(s) == step' = s /\ UNCHANGED <<queue, clientVars>>

(* collect_fwu_info.                                                       *)
CheckFWU ==
  /\ Handling("check", "free")
  /\ Finish(CASE running = NoImage -> "update"
              [] running = Release -> "current"
              [] OTHER -> IF stock = Release THEN "update" ELSE "damaged", NoConfig)
  /\ UNCHANGED <<eiod, controlVars, flashVars>>

Retrieve ==
  /\ Handling("retrieve", "free")
  /\ Finish("ok", active) \/ ("fs" \in Faults /\ Finish("error", NoConfig))
  /\ UNCHANGED <<eiod, controlVars, flashVars>>

(* Mutant: the configuration is converted when the controller already waits*)
(* for it.                                                                 *)
ValidateLate ==
  /\ Handling("deploy", "free")
  /\ \/ Now.arg \in Rejected /\ Finish("error", NoConfig) /\ UNCHANGED mode
     \/ Now.arg \in Raising /\ Finish("raised", NoConfig) /\ mode' = "config"
     \/ Now.arg \in Good /\ Proceed("control") /\ UNCHANGED <<buffer, at, mode>>
  /\ UNCHANGED <<eiod, pending, active, broken, flashVars>>

Validate ==
  /\ Handling("deploy", "free")
  /\ \/ Now.arg \in Rejected /\ Finish("error", NoConfig)
     \/ Now.arg \in Raising /\ Finish("raised", NoConfig)
     \/ Now.arg \in Good /\ Proceed("control") /\ UNCHANGED <<buffer, at>>
  /\ UNCHANGED <<eiod, controlVars, flashVars>>

(* "config" into the control file, the blob into the config file, "done".  *)
EnterConfigMode ==
  /\ Handling("deploy", "control")
  /\ mode' = "config" /\ pending' = NoConfig /\ Proceed("blob")
  /\ UNCHANGED <<buffer, at, eiod, active, broken, flashVars>>

WriteBlob ==
  /\ Handling("deploy", "blob")
  /\ pending' = Now.arg /\ Proceed("done")
  /\ UNCHANGED <<buffer, at, eiod, mode, active, broken, flashVars>>

(* Mutant: the answer does not wait for the controller to take it over.    *)
LeaveConfigModeEarly ==
  /\ Handling("deploy", "done")
  /\ mode' = "run" /\ pending' = NoConfig /\ UNCHANGED active
  /\ Finish("ok", NoConfig)
  /\ UNCHANGED <<eiod, broken, flashVars>>

LeaveConfigMode ==
  /\ Handling("deploy", "done")
  /\ mode' = "run" /\ active' = pending /\ pending' = NoConfig /\ broken' = FALSE
  /\ Finish("ok", NoConfig)
  /\ UNCHANGED <<eiod, flashVars>>

(* An OSError at any of the three files; nothing is undone.                *)
DeployFails ==
  /\ "fs" \in Faults /\ queue # <<>> /\ Handling("deploy", step) /\ step # "free"
  /\ Finish("error", NoConfig) /\ broken' = (mode = "config")
  /\ UNCHANGED <<eiod, mode, pending, active, flashVars>>

-----------------------------------------------------------------------------
(* UpdateFirmware: the flash is read, the reserved partition of what was   *)
(* read is put between the two others of the file, and the result written. *)
(* As in Python a slice ends where its sequence ends.                      *)
Slice(s, lo, hi) == SubSeq(s, lo, IF hi < Len(s) THEN hi ELSE Len(s))

(* Mutant: the boundary of the certificate is off by one.                  *)
AssembledShifted(img, read) ==
  Slice(img, 1, FwEnd + 1) \o Slice(read, FwEnd + 2, ResEnd)
    \o Slice(img, ResEnd + 1, Len(img))

Assembled(img, read) == Slice(img, 1, FwEnd) \o Slice(read, FwEnd + 1, ResEnd)
                          \o Slice(img, ResEnd + 1, Len(img))

Reads == {flash} \cup (IF "glitch" \in Faults
                       THEN {[flash EXCEPT ![b] = Noise] : b \in Block} ELSE {})

ReadBack ==
  /\ Handling("update", "free")
  /\ \E r \in Reads : buffer' = Assembled(Now.arg, r)
  /\ Proceed("write") /\ at' = 1
  /\ UNCHANGED <<eiod, controlVars, flashVars>>

(* flashrom_image_write is told that the buffer is as long as the flash; it*)
(* skips blocks that are equal.                                            *)
ToWrite == IF at <= Len(buffer) THEN buffer[at] ELSE Garbage

WriteBlock ==
  /\ Handling("update", "write") /\ at \in Block
  /\ \E d \in {ToWrite} \cup (IF "badwrite" \in Faults /\ flash[at] # ToWrite
                            THEN {Garbage} ELSE {}) :
       flash' = [flash EXCEPT ![at] = d]
  /\ at' = at + 1
  /\ UNCHANGED <<queue, step, buffer, clientVars, eiod, controlVars,
                 running, stock, flash0>>

(* Mutant: only the firmware partition is compared.                        *)
VerifyFirmwareOnly ==
  /\ Handling("update", "write") /\ at > NBlocks
  /\ \E r \in Reads : Finish(IF SubSeq(r, 1, FwEnd) = SubSeq(buffer, 1, FwEnd)
                             THEN "ok" ELSE "error", NoConfig)
  /\ UNCHANGED <<eiod, controlVars, flashVars>>

Verify ==
  /\ Handling("update", "write") /\ at > NBlocks
  /\ \E r \in Reads : Finish(IF r = buffer THEN "ok" ELSE "error", NoConfig)
  /\ UNCHANGED <<eiod, controlVars, flashVars>>

(* UpgradeError: no programmer, a failed read, or a failed write, which may*)
(* leave the block erased.                                                 *)
UpdateFails ==
  /\ "flash" \in Faults /\ queue # <<>> /\ Handling("update", step)
  /\ Finish("error", NoConfig)
  /\ \/ UNCHANGED flash
     \/ /\ step = "write" /\ at \in Block /\ flash[at] # ToWrite
        /\ flash' = [flash EXCEPT ![at] = Erased]
  /\ UNCHANGED <<eiod, controlVars, running, stock, flash0>>

-----------------------------------------------------------------------------
(* The server ends; every client that waits gets an RpcError and ends too. *)
Stop ==
  /\ queue' = <<>> /\ step' = "free" /\ buffer' = <<>> /\ at' = 1
  /\ client' = [c \in Clients |-> IF client[c] \in {"checking", "waiting"} THEN "idle"
                                                                           ELSE client[c]]
  /\ UNCHANGED <<job, made, reply>>

Crash ==
  /\ "crash" \in Faults /\ eiod = "up" /\ eiod' = "down" /\ Stop
  /\ broken' = (mode = "config")
  /\ UNCHANGED <<mode, pending, active, flashVars>>

Restart ==
  /\ eiod = "down" /\ eiod' = "up"
  /\ UNCHANGED <<serverVars, clientVars, controlVars, flashVars>>

(* A reboot gives the flash back to the controller, which starts from it.  *)
Reboot ==
  /\ "reboot" \in Faults /\ eiod' = "up" /\ Stop
  /\ mode' = "run" /\ pending' = NoConfig /\ broken' = FALSE
  /\ running' = Booted(flash)
  /\ UNCHANGED <<active, flash, stock, flash0>>

Worker == \/ CheckFWU \/ Retrieve
          \/ Validate \/ EnterConfigMode \/ WriteBlob \/ LeaveConfigMode \/ DeployFails
          \/ ReadBack \/ WriteBlock \/ Verify \/ UpdateFails

Next == \/ \E c \in Clients : (\E j \in Jobs : Ask(c, j)) \/ Decide(c)
        \/ Worker \/ Crash \/ Restart \/ Reboot

Spec == Init /\ [][Next]_vars

-----------------------------------------------------------------------------
ImageBlocks == UNION {{i[b] : b \in DOMAIN i} : i \in Images}
Content == ImageBlocks \cup {Erased, Garbage, Noise}

(* The states of server, clients, controller and flash; a client waits just*)
(* when one request of it is with the server.                              *)
TypeOK ==
  /\ queue \in Seq([from : Clients, op : {"check", "deploy", "retrieve", "update"},
                    arg : Config \cup {NoConfig} \cup Images])
  /\ step \in {"free", "control", "blob", "done", "write"}
  /\ buffer \in Seq(Content) /\ at \in 1..(NBlocks + 1)
  /\ client \in [Clients -> {"idle", "checking", "decide", "waiting"}]
  /\ job \in [Clients -> Jobs \cup {NoJob}] /\ made \in [Clients -> 0..MaxRequests]
  /\ eiod \in {"up", "down"} /\ mode \in {"run", "config"} /\ broken \in BOOLEAN
  /\ pending \in Good \cup {NoConfig} /\ active \in Good \cup {NoConfig}
  /\ flash \in [Block -> Content] /\ running \in Images \cup {NoImage}
  /\ \A c \in Clients : client[c] \in {"checking", "waiting"} <=>
       \E i \in DOMAIN queue : queue[i].from = c
  /\ \A i, j \in DOMAIN queue : queue[i].from = queue[j].from => i = j

(* A deployment that was answered with OK is the configuration in effect,  *)
(* not one of another client, not an older one, and never an empty one.    *)
DeployedAsReported ==
  [][\A c \in Clients :
       reply'[c] # reply[c] /\ reply'[c].op = "deploy" /\ reply'[c].status = "ok" =>
         active' = job[c].arg /\ mode' = "run"]_vars

(* The controller is in configuration mode only while the worker deploys,  *)
(* or after an error of the file system or a crash cut a deployment short; *)
(* no configuration that a client may send puts it there for good.         *)
ConfigModeOwned ==
  mode = "config" /\ ~broken => Handling("deploy", "blob") \/ Handling("deploy", "done")

(* An update that was answered with OK has put firmware and certificate of *)
(* the file into the flash and kept the reserved partition, whatever part  *)
(* of it earlier attempts, crashes and restarts had written.               *)
UpdatedAsReported ==
  [][\A c \in Clients :
       reply'[c] # reply[c] /\ reply'[c].op = "update" /\ reply'[c].status = "ok" =>
         Holds(flash', Now.arg) /\ \A b \in Reserved : flash'[b] = flash0[b]]_vars

(* "Need to readback and save the reserved partions": no sequence of       *)
(* updates, failures and restarts changes the reserved partition.          *)
ReservedPreserved == \A b \in Reserved : flash[b] = flash0[b]
=============================================================================
