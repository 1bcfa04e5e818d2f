------------------------ MODULE FirmwareUpdateProofs ------------------------
(* Theorems about FirmwareUpdate, for every flash layout, every set of     *)
(* packages, every combination of faults and any number of invocations:    *)
(* its invariants, that it implements SafeUpdate, and, about one           *)
(* invocation, what survives an update and what a retry leaves alone.      *)
EXTENDS FirmwareUpdateRefinement, TLAPS

Reading == {"read1", "read2"}
Saving == {"tar_uboot", "tar_env", "tar_conf"}
Flashing == {"attempt", "write", "program", "verify", "prompt"}
AfterOpen == Reading \cup Saving \cup Flashing \cup {"confirm2"}

(* Where the cursor is while a partition is written, and what is loaded.   *)
Position ==
  /\ pc \notin {"off", "exited"} => cmd \in Commands
  /\ pc = "program" => at \in Addr /\ at <= Last(dev)
  /\ dev = "env" => EnvLo <= at
  /\ dev = "env.backup" => BkLo <= at
  /\ pc \in AfterOpen /\ cmd.mode # "force" => env \in EnvTexts
  /\ pc \in {"write", "program", "verify"} /\ dev # "uboot" => cmd.mode # "force"
  /\ tar.state \in {"env", "full"} => tar.env \in EnvTexts
  /\ pc \in Saving \ {"tar_uboot"} => tar.state \in {"uboot", "env"}
  /\ pc = "tar_conf" => tar.state = "env"
  /\ pc \in Reading \cup Saving => cmd.mode = "upgrade"

TInv == TypeOK /\ Position

LEMMA ReadsTyped ==
  ASSUME TypeOK, NEW i \in 1..2
  PROVE  ReadsOf(i) \subseteq Seq(Data)
<1>1. ReadOut \in [1..ReadLen -> Data]
  BY LayoutAssumption DEF ReadOut, TypeOK, StoreOK, Addr
<1>2. Garbled(i) \in [1..ReadLen -> Data]
  BY <1>1, NoiseAssumption, LayoutAssumption DEF Garbled
<1>3. [1..ReadLen -> Data] \subseteq Seq(Data)
  BY LayoutAssumption
<1> QED
  BY <1>1, <1>2, <1>3 DEF ReadsOf

LEMMA AssembledTyped ==
  ASSUME TypeOK, NEW t \in EnvTexts
  PROVE  Assembled(t) \subseteq EnvTexts
<1>1. Printenv \subseteq Kept
  BY DataAssumption DEF Printenv, InEnv, InBackup, EnvTexts
<1> QED
  BY <1>1 DEF Assembled, EnvTexts

(* Actions that only move the program counter or end the process.          *)
LEMMA ControlTyped ==
  ASSUME TInv, UNCHANGED <<storeVars, jobVars, loopVars, ghostVars>>, pc' \in Pcs,
         bar' \in {bar, TRUE, FALSE}, code' \in {code} \cup 0..8
  PROVE  TypeOK'
<1>1. StoreOK' /\ JobOK'
  BY DEF TInv, TypeOK, StoreOK, JobOK, storeVars, jobVars, ghostVars
<1>2. ControlOK'
  BY Zenon DEF TInv, TypeOK, ControlOK, loopVars, ghostVars
<1>3. CountersOK'
  BY DEF TInv, TypeOK, CountersOK, loopVars, ghostVars
<1> QED
  BY <1>1, <1>2, <1>3 DEF TypeOK

LEMMA InitTyped == Init => TInv
<1> SUFFICES ASSUME Init PROVE TInv
  OBVIOUS
<1>1. flash \in [Addr -> Data]
  <2>1. PICK v \in Versions, t \in EnvTexts, copied \in BOOLEAN :
          /\ Len(Image[v]) = ReadLen
          /\ flash = [a \in Addr |->
               IF a \in EnvBlks THEN EnvBin[t][a]
               ELSE IF a \in BkBlks /\ copied THEN EnvBin[t][a - BkLo + EnvLo]
               ELSE IF a \in Boot THEN Image[v][a] ELSE Erased]
    BY DEF Init
  <2>2. \A a \in EnvBlks : EnvBin[t][a] \in Data
    BY DataAssumption
  <2>3. \A a \in BkBlks : a - BkLo + EnvLo \in EnvBlks
    BY LayoutAssumption DEF BkBlks, EnvBlks
  <2>4. Image[v] \in Seq(Data)
    BY DataAssumption
  <2>5. \A a \in Boot : Image[v][a] \in Data
    BY <2>1, <2>4, LayoutAssumption DEF Boot
  <2> QED
    BY <2>1, <2>2, <2>3, <2>5, DataAssumption
<1>2. NoTar \in TarType
  BY DataAssumption DEF NoTar, TarType
<1>3. NoTar.env \in [base : Versions \cup {NoVersion}, kept : Kept]
  BY DataAssumption DEF NoTar
<1>4. TypeOK
  <2>1. StoreOK
    BY <1>1, <1>2 DEF Init, StoreOK
  <2>2. JobOK
    BY <1>3 DEF Init, JobOK
  <2>3. ControlOK
    BY DEF Init, ControlOK, Pcs
  <2>4. CountersOK
    BY EnvironmentAssumption DEF Init, NoCode, CountersOK
  <2> QED
    BY <2>1, <2>2, <2>3, <2>4 DEF TypeOK
<1>5. Position
  BY DEF Init, Position, NoTar, AfterOpen, Reading, Saving, Flashing
<1> QED
  BY <1>4, <1>5 DEF TInv

LEMMA OpenTyped ==
  ASSUME TInv, LoadTarball \/ Confirm("confirm", "open")
                 \/ Confirm("confirm2", "attempt") \/ Open \/ HitEnter
  PROVE  TInv'
<1> USE DEF SUCCESS, ROLLBACK_SUCCESS, BACKUP_FAILED, ROLLBACK_FAILED,
            FLASHING_FAILED, CANCELED, INVALID_FIRMWARE, FAILED, UNCAUGHT,
            AfterOpen, Reading, Saving, Flashing
<1>1. CASE \/ LoadTarball \/ HitEnter \/ OpenFails
           \/ Confirm("confirm", "open") \/ Confirm("confirm2", "attempt")
  <2>1. UNCHANGED <<storeVars, jobVars, loopVars, ghostVars>>
    BY <1>1 DEF LoadTarball, HitEnter, OpenFails, Confirm
  <2>2. pc' \in Pcs
    BY <1>1 DEF LoadTarball, HitEnter, OpenFails, Confirm, Goto, Leave, Pcs
  <2>3. bar' \in {bar, TRUE, FALSE}
    BY <1>1 DEF LoadTarball, HitEnter, OpenFails, Confirm, Goto, Leave
  <2>4. code' \in {code} \cup 0..8
    BY <1>1 DEF LoadTarball, HitEnter, OpenFails, Confirm, Goto, Leave
  <2>5. TypeOK'
    BY <2>1, <2>2, <2>3, <2>4, ControlTyped
  <2>6. /\ pc \notin {"off", "exited"}
        /\ \/ pc' \in {"confirm", "open", "exited", "hung"}
           \/ pc = "confirm2" /\ pc' = "attempt"
    BY <1>1 DEF LoadTarball, HitEnter, OpenFails, Confirm, Goto, Leave
  <2>7. Position'
    BY <2>1, <2>6 DEF TInv, Position, Last, storeVars, jobVars, loopVars, ghostVars
  <2> QED
    BY <2>5, <2>7 DEF TInv
<1>2. CASE OpenForce \/ OpenPackage
  <2>1. cmd \in Commands /\ cmd.img \in Versions
    BY <1>2 DEF TInv, Position, OpenForce, OpenPackage, Commands
  <2>2. Image[cmd.img] \in Seq(Data) /\ [base |-> cmd.img, kept |-> Default] \in EnvTexts
    BY <2>1, DataAssumption DEF EnvTexts
  <2>3. OpenPackage => env' \in EnvTexts
    BY <2>2, AssembledTyped DEF OpenPackage, TInv
  <2>4. TypeOK'
    BY <1>2, <2>2, <2>3 DEF OpenForce, OpenPackage, Goto, TInv, TypeOK, StoreOK, JobOK,
       ControlOK, CountersOK, Pcs, EnvTexts, storeVars, loopVars, ghostVars
  <2>5. Position'
    BY <1>2, <2>3 DEF OpenForce, OpenPackage, Goto, TInv, Position, storeVars, loopVars, ghostVars
  <2> QED
    BY <2>4, <2>5 DEF TInv
<1>3. CASE OpenRollback
  <2>1. env' \in EnvTexts
    BY <1>3, AssembledTyped DEF OpenRollback, Goto, TInv, Position
  <2>2. tar.uboot \in Seq(Data)
    BY DEF TInv, TypeOK, StoreOK, TarType
  <2>3. TypeOK'
    BY <1>3, <2>1, <2>2 DEF OpenRollback, Goto, TInv, TypeOK, StoreOK, JobOK,
       ControlOK, CountersOK, Pcs, EnvTexts, storeVars, loopVars, ghostVars
  <2>4. Position'
    BY <1>3, <2>1 DEF OpenRollback, Goto, TInv, Position, storeVars, loopVars, ghostVars
  <2> QED
    BY <2>3, <2>4 DEF TInv
<1> QED
  BY <1>1, <1>2, <1>3 DEF Open

LEMMA InvokeTyped ==
  ASSUME TInv, NEW c \in Commands, Invoke(c)
  PROVE  TInv'
<1>1. StoreOK' /\ JobOK'
  <2>1. NoTar.env \in [base : Versions \cup {NoVersion}, kept : Kept]
    BY DataAssumption DEF NoTar
  <2> QED
    BY <2>1 DEF Invoke, TInv, TypeOK, StoreOK, JobOK, storeVars
<1>2. ControlOK'
  BY DEF Invoke, TInv, TypeOK, ControlOK, Pcs
<1>3. CountersOK'
  BY EnvironmentAssumption DEF Invoke, TInv, TypeOK, CountersOK, NoCode
<1>4. Position'
  BY DEF Invoke, TInv, Position, storeVars, AfterOpen, Reading, Saving, Flashing
<1> QED
  BY <1>1, <1>2, <1>3, <1>4 DEF TInv, TypeOK

(* The archives an interruption can leave behind.                          *)
LEMMA TarsTyped ==
  ASSUME TInv
  PROVE  /\ NoTar \in TarType /\ Torn \in TarType /\ Interrupted \subseteq TarType
         /\ \A t \in Interrupted \cup {NoTar, Torn} :
              t.state \in {"env", "full"} => t.env \in EnvTexts
<1>1. NoTar \in TarType /\ Torn \in TarType
  <2>1. NoTar \in TarType
    BY DataAssumption DEF NoTar, TarType
  <2> QED
    BY <2>1 DEF Torn, TarType
<1>2. NoTar.state = "none" /\ Torn.state = "torn"
  BY DEF NoTar, Torn
<1> QED
  BY <1>1, <1>2 DEF Interrupted, TInv, TypeOK, StoreOK, Position

LEMMA BackupTyped ==
  ASSUME TInv, Backup
  PROVE  TInv'
<1> USE DEF AfterOpen, Reading, Saving, Flashing
<1>1. CASE BackupFirstRead
  <2>1. snap' \in Seq(Data)
    BY <1>1, ReadsTyped DEF BackupFirstRead, TInv
  <2>2. StoreOK' /\ JobOK'
    BY <1>1, <2>1 DEF BackupFirstRead, TInv, TypeOK, StoreOK, JobOK, storeVars, ghostVars
  <2>3. ControlOK'
    BY <1>1 DEF BackupFirstRead, TInv, TypeOK, ControlOK, Pcs, loopVars, ghostVars
  <2>4. CountersOK'
    BY <1>1 DEF BackupFirstRead, TInv, TypeOK, CountersOK, loopVars, ghostVars
  <2>5. Position'
    BY <1>1 DEF BackupFirstRead, TInv, Position, storeVars, loopVars, ghostVars
  <2> QED
    BY <2>2, <2>3, <2>4, <2>5 DEF TInv, TypeOK
<1>2. CASE BackupSecondRead
  <2>1. UNCHANGED <<storeVars, jobVars, loopVars, ghostVars>>
    BY <1>2 DEF BackupSecondRead
  <2>2. pc = "read2" /\ pc' \in {"tar_uboot", "exited"}
    BY <1>2 DEF BackupSecondRead, Goto, Leave
  <2>3. bar' \in {bar, TRUE, FALSE}
    BY <1>2 DEF BackupSecondRead, Goto, Leave
  <2>4. code' \in {code} \cup 0..8
    BY <1>2 DEF BackupSecondRead, Goto, Leave, BACKUP_FAILED
  <2>5. TypeOK'
    BY <2>1, <2>2, <2>3, <2>4, ControlTyped DEF Pcs
  <2>6. Position'
    BY <2>1, <2>2 DEF TInv, Position, storeVars, jobVars, loopVars, ghostVars
  <2> QED
    BY <2>5, <2>6 DEF TInv
<1>3. CASE BackupUboot \/ BackupEnv \/ BackupConf \/ BackupFails
  <2>1. tar' \in TarType /\ (tar'.state \in {"env", "full"} => tar'.env \in EnvTexts)
    <3>1. CASE BackupUboot
      BY <3>1, DataAssumption
         DEF BackupUboot, SaveTar, NoTar, TarType, TInv, TypeOK, JobOK
    <3>2. CASE BackupEnv \/ BackupConf
      BY <3>2 DEF BackupEnv, BackupConf, SaveTar, TarType, TInv, TypeOK, StoreOK, JobOK, Position
    <3>3. CASE BackupFails
      BY <3>3, TarsTyped DEF BackupFails, SaveTar, TInv, TypeOK, StoreOK, Position, storeVars
    <3> QED
      BY <1>3, <3>1, <3>2, <3>3
  <2>2. UNCHANGED <<jobVars, loopVars, ghostVars>> /\ flash' = flash
    BY <1>3 DEF BackupUboot, BackupEnv, BackupConf, BackupFails, SaveTar, storeVars
  <2>3. pc \notin {"off", "exited"} /\ pc \in Reading \cup Saving
    BY <1>3 DEF BackupUboot, BackupEnv, BackupConf, BackupFails
  <2>4. pc' \in {"tar_env", "tar_conf", "attempt", "exited", "hung"}
    BY <1>3 DEF BackupUboot, BackupEnv, BackupConf, BackupFails, Goto, Leave
  <2>5. /\ pc' = "tar_env" => tar'.state = "uboot"
        /\ pc' = "tar_conf" => tar'.state = "env"
    BY <1>3 DEF BackupUboot, BackupEnv, BackupConf, BackupFails, SaveTar, Goto, Leave,
       NoTar, TInv, TypeOK, StoreOK, TarType
  <2>6. bar' \in {bar, TRUE, FALSE}
    BY <1>3 DEF BackupUboot, BackupEnv, BackupConf, BackupFails, Goto, Leave
  <2>7. code' \in {code} \cup 0..8
    BY <1>3 DEF BackupUboot, BackupEnv, BackupConf, BackupFails, Goto, Leave,
       UNCAUGHT, BACKUP_FAILED
  <2>8. dirty' \in BOOLEAN
    <3>1. dirty' = ("power" \in Faults) \/ dirty' = dirty
      BY <1>3 DEF BackupUboot, BackupEnv, BackupConf, BackupFails, SaveTar, storeVars
    <3>2. ("power" \in Faults) \in BOOLEAN
      OBVIOUS
    <3>3. dirty \in BOOLEAN
      BY DEF TInv, TypeOK, StoreOK
    <3> QED
      BY <3>1, <3>2, <3>3
  <2>9. StoreOK' /\ JobOK'
    BY <2>1, <2>2, <2>8 DEF TInv, TypeOK, StoreOK, JobOK, jobVars, ghostVars
  <2>10. ControlOK'
    BY <2>2, <2>4, <2>6 DEF TInv, TypeOK, ControlOK, Pcs, loopVars, ghostVars
  <2>11. CountersOK'
    BY <2>2, <2>7 DEF TInv, TypeOK, CountersOK, loopVars, ghostVars
  <2>12. Position'
    BY <2>1, <2>2, <2>3, <2>4, <2>5 DEF TInv, Position, jobVars, loopVars
  <2> QED
    BY <2>9, <2>10, <2>11, <2>12 DEF TInv, TypeOK
<1> QED
  BY <1>1, <1>2, <1>3 DEF Backup

(* What is written to a block is a block content.                          *)
LEMMA WantTyped ==
  ASSUME TInv, pc = "program"
  PROVE  Want \in Data
<1>1. at \in Nat \ {0} /\ at <= Last(dev) /\ dev \in {"uboot", "env", "env.backup"}
  BY DEF TInv, TypeOK, ControlOK, CountersOK, Position
<1>2. CASE dev = "uboot"
  <2>1. at \in 1..Len(file) /\ file \in Seq(Data)
    BY <1>1, <1>2 DEF Last, TInv, TypeOK, JobOK
  <2> QED
    BY <1>2, <2>1 DEF Want
<1>3. CASE dev = "env"
  <2>1. at \in EnvBlks /\ env \in EnvTexts
    BY <1>1, <1>3, LayoutAssumption
       DEF Last, TInv, Position, EnvBlks, AfterOpen, Flashing
  <2> QED
    BY <1>3, <2>1, DataAssumption DEF Want
<1>4. CASE dev = "env.backup"
  BY <1>4, DataAssumption DEF Want
<1> QED
  BY <1>1, <1>2, <1>3, <1>4

(* A failed attempt leaves everything but the retry counter alone.         *)
LEMMA AttemptFailsTyped ==
  ASSUME TInv, pc \in Flashing, NEW c \in 0..8, NEW b \in {TRUE, FALSE},
         AttemptFails(c, b)
  PROVE  TInv'
<1>1. /\ pc' \in {"attempt", "prompt", "exited", "hung"}
      /\ bar' \in {TRUE, FALSE}
      /\ UNCHANGED <<storeVars, jobVars, dev, at, ghostVars>>
  BY DEF AttemptFails, Leave
<1>2. code' \in {code} \cup 0..8
  BY DEF AttemptFails, Leave
<1>3. index' \in 0..3
  BY DEF AttemptFails, TInv, TypeOK, CountersOK
<1>4. StoreOK' /\ JobOK'
  BY <1>1 DEF TInv, TypeOK, StoreOK, JobOK, storeVars, jobVars, ghostVars
<1>5. ControlOK'
  BY <1>1 DEF TInv, TypeOK, ControlOK, Pcs, ghostVars
<1>6. CountersOK'
  BY <1>1, <1>2, <1>3 DEF TInv, TypeOK, CountersOK, ghostVars
<1>7. Position'
  BY <1>1 DEF TInv, Position, storeVars, jobVars, AfterOpen, Reading, Saving, Flashing
<1> QED
  BY <1>4, <1>5, <1>6, <1>7 DEF TInv, TypeOK

LEMMA DeviceFailsTyped ==
  ASSUME TInv, pc \in Flashing, DeviceFails
  PROVE  TInv'
<1>1. CASE cmd.mode = "force"
  BY <1>1, AttemptFailsTyped DEF DeviceFails, FAILED
<1>2. CASE cmd.mode # "force"
  BY <1>2, AttemptFailsTyped DEF DeviceFails, FLASHING_FAILED
<1> QED
  BY <1>1, <1>2

LEMMA WriteTyped ==
  ASSUME TInv, Write
  PROVE  TInv'
<1> USE DEF AfterOpen, Reading, Saving, Flashing
<1>1. CASE WriteFails
  BY <1>1, DeviceFailsTyped DEF WriteFails
<1>2. CASE StartAttempt \/ SkipBlock \/ EraseBlock \/ ProgramBlock \/ PartitionWritten
  <2>1. flash' \in [Addr -> Data]
    <3>1. CASE EraseBlock
      BY <3>1, DataAssumption DEF EraseBlock, TInv, TypeOK, StoreOK
    <3>2. CASE ProgramBlock
      BY <3>2, WantTyped, DataAssumption DEF ProgramBlock, TInv, TypeOK, StoreOK
    <3>3. CASE StartAttempt \/ SkipBlock \/ PartitionWritten
      BY <3>3 DEF StartAttempt, SkipBlock, PartitionWritten, storeVars, TInv, TypeOK, StoreOK
    <3> QED
      BY <1>2, <3>1, <3>2, <3>3
  <2>2. UNCHANGED <<tar, dirty, jobVars, index, updated, runs, flash0, code>>
    BY <1>2 DEF StartAttempt, SkipBlock, EraseBlock, ProgramBlock, PartitionWritten,
       storeVars, loopVars, ghostVars, Goto
  <2>3. /\ pc \in Flashing /\ pc' \in {"write", "program", "verify"}
        /\ bar' \in {bar, TRUE} /\ advice' \in {advice, TRUE}
    BY <1>2 DEF StartAttempt, SkipBlock, EraseBlock, ProgramBlock, PartitionWritten,
       AtBlock, ghostVars, Goto
  <2>4. /\ dev' \in {"uboot", "env", "env.backup"} /\ at' \in Nat \ {0}
        /\ dev' = "env" => EnvLo <= at'
        /\ dev' = "env.backup" => BkLo <= at'
    <3>1. at \in Nat \ {0} /\ (dev = "env" => EnvLo <= at) /\ (dev = "env.backup" => BkLo <= at)
          /\ dev \in {"uboot", "env", "env.backup"}
      BY DEF TInv, TypeOK, ControlOK, CountersOK, Position
    <3>2. CASE StartAttempt
      BY <3>2 DEF StartAttempt
    <3>3. CASE SkipBlock \/ EraseBlock \/ ProgramBlock
      BY <3>1, <3>3, LayoutAssumption DEF SkipBlock, EraseBlock, ProgramBlock, loopVars
    <3>4. CASE PartitionWritten
      BY <3>1, <3>4, LayoutAssumption DEF PartitionWritten, Last
    <3> QED
      BY <1>2, <3>2, <3>3, <3>4
  <2>5. pc' = "program" => at' \in Addr /\ at' <= Last(dev)' /\ dev' = dev
    BY <1>2 DEF StartAttempt, SkipBlock, EraseBlock, ProgramBlock, PartitionWritten,
       AtBlock, loopVars, jobVars, Goto, Last
  <2>6. dev' # "uboot" => cmd.mode # "force"
    BY <1>2 DEF StartAttempt, SkipBlock, EraseBlock, ProgramBlock, PartitionWritten,
       AtBlock, loopVars, TInv, TypeOK, ControlOK, Position
  <2>7. StoreOK' /\ JobOK'
    BY <2>1, <2>2 DEF TInv, TypeOK, StoreOK, JobOK, jobVars
  <2>8. ControlOK'
    BY <2>2, <2>3, <2>4, Zenon DEF TInv, TypeOK, ControlOK, Pcs
  <2>9. CountersOK'
    BY <2>2, <2>4 DEF TInv, TypeOK, CountersOK
  <2>10. Position'
    BY <2>2, <2>3, <2>4, <2>5, <2>6 DEF TInv, Position, jobVars
  <2> QED
    BY <2>7, <2>8, <2>9, <2>10 DEF TInv, TypeOK
<1> QED
  BY <1>1, <1>2 DEF Write

LEMMA VerifyTyped ==
  ASSUME TInv, Verify
  PROVE  TInv'
<1> USE DEF AfterOpen, Reading, Saving, Flashing
<1>1. CASE VerifyMismatch
  BY <1>1, AttemptFailsTyped DEF VerifyMismatch, FLASHING_FAILED
<1>2. CASE pc = "verify" /\ DeviceFails
  BY <1>2, DeviceFailsTyped
<1>3. CASE VerifyUboot \/ VerifyLast \/ (VerifyFails /\ ~DeviceFails)
  <2>1. UNCHANGED <<storeVars, jobVars, index, runs, flash0>>
    BY <1>3 DEF VerifyUboot, VerifyLast, VerifyFails, loopVars, ghostVars
  <2>2. /\ pc = "verify" /\ pc' \in {"write", "reboot", "exited", "hung"}
        /\ bar' \in {bar, TRUE, FALSE} /\ updated' \in {updated, TRUE}
        /\ advice' \in {advice, FALSE}
    <3>1. CASE VerifyUboot
      BY <3>1 DEF VerifyUboot, Goto, ghostVars
    <3>2. CASE VerifyLast
      BY <3>2 DEF VerifyLast, Leave
    <3>3. CASE VerifyFails /\ ~DeviceFails
      BY <3>3 DEF VerifyFails, Leave, ghostVars
    <3> QED
      BY <1>3, <3>1, <3>2, <3>3
  <2>3. code' \in {code} \cup 0..8
    <3>1. CASE VerifyUboot
      BY <3>1 DEF VerifyUboot, Goto
    <3>2. CASE VerifyLast
      BY <3>2 DEF VerifyLast, Leave, ROLLBACK_SUCCESS
    <3>3. CASE VerifyFails /\ ~DeviceFails
      BY <3>3 DEF VerifyFails, Leave, UNCAUGHT
    <3> QED
      BY <1>3, <3>1, <3>2, <3>3
  <2>4. \/ UNCHANGED <<dev, at>> /\ pc' # "write"
        \/ dev' = "env" /\ at' = EnvLo /\ cmd.mode # "force"
    BY <1>3 DEF VerifyUboot, VerifyLast, VerifyFails, Leave, loopVars
  <2>5. StoreOK' /\ JobOK'
    BY <2>1 DEF TInv, TypeOK, StoreOK, JobOK, storeVars, jobVars
  <2>6. ControlOK'
    BY <2>2, <2>4, Zenon DEF TInv, TypeOK, ControlOK, Pcs
  <2>7. CountersOK'
    BY <2>1, <2>3, <2>4, LayoutAssumption DEF TInv, TypeOK, CountersOK
  <2>8. Position'
    BY <2>1, <2>2, <2>4, LayoutAssumption DEF TInv, Position, storeVars, jobVars
  <2> QED
    BY <2>5, <2>6, <2>7, <2>8 DEF TInv, TypeOK
<1> QED
  BY <1>1, <1>2, <1>3 DEF Verify, VerifyFails

LEMMA WorldTyped ==
  ASSUME TInv, Reboot \/ Writeback \/ Kill \/ PowerLoss
  PROVE  TInv'
<1>1. tar' \in TarType /\ (tar'.state \in {"env", "full"} => tar'.env \in EnvTexts)
  <2>1. tar' \in {tar, NoTar, Torn} \cup Interrupted
    BY DEF Reboot, Writeback, Kill, PowerLoss, SaveTar
  <2> QED
    BY <2>1, TarsTyped DEF TInv, TypeOK, StoreOK, Position
<1>2. UNCHANGED <<flash, jobVars, loopVars, ghostVars>>
  BY DEF Reboot, Writeback, Kill, PowerLoss, SaveTar
<1>3. dirty' \in BOOLEAN
  <2>1. \/ dirty' = ("power" \in Faults) \/ dirty' = dirty \/ dirty' = FALSE
    BY DEF Reboot, Writeback, Kill, PowerLoss, SaveTar
  <2>2. ("power" \in Faults) \in BOOLEAN
    OBVIOUS
  <2>3. dirty \in BOOLEAN
    BY DEF TInv, TypeOK, StoreOK
  <2> QED
    BY <2>1, <2>2, <2>3
<1>4. pc' \in {"off", "exited"} \/ (Writeback /\ tar' = tar /\ pc' = pc)
  BY DEF Reboot, Writeback, Kill, PowerLoss, Leave
<1>5. bar' \in {bar, FALSE}
  BY DEF Reboot, Writeback, Kill, PowerLoss, Leave
<1>6. code' \in {code, NoCode, SUCCESS}
  BY DEF Reboot, Writeback, Kill, PowerLoss, Leave
<1>7. StoreOK' /\ JobOK'
  BY <1>1, <1>2, <1>3 DEF TInv, TypeOK, StoreOK, JobOK, jobVars, ghostVars
<1>8. ControlOK'
  BY <1>2, <1>4, <1>5 DEF TInv, TypeOK, ControlOK, Pcs, loopVars, ghostVars
<1>9. CountersOK'
  BY <1>2, <1>6 DEF TInv, TypeOK, CountersOK, NoCode, SUCCESS, loopVars, ghostVars
<1>10. Position'
  BY <1>1, <1>2, <1>4 DEF TInv, Position, Last, jobVars, loopVars,
     AfterOpen, Reading, Saving, Flashing
<1> QED
  BY <1>7, <1>8, <1>9, <1>10 DEF TInv, TypeOK

LEMMA NextTyped == TInv /\ [Next]_vars => TInv'
<1> SUFFICES ASSUME TInv, [Next]_vars PROVE TInv'
  OBVIOUS
<1>1. CASE UNCHANGED vars
  BY <1>1 DEF TInv, TypeOK, StoreOK, JobOK, ControlOK, CountersOK, Position, Last,
     vars, storeVars, jobVars, loopVars, ghostVars
<1>2. CASE ToolStep
  BY <1>2, OpenTyped, BackupTyped, WriteTyped, VerifyTyped, WorldTyped DEF ToolStep
<1>3. CASE \E c \in Commands : Invoke(c)
  BY <1>3, InvokeTyped
<1>4. CASE Writeback \/ Kill \/ PowerLoss
  BY <1>4, WorldTyped
<1> QED
  BY <1>1, <1>2, <1>3, <1>4 DEF Next

(* The state of the flash, of the archive and of the tool stays well-formed*)
(* in every run: blocks hold data, the archive never mixes with the        *)
(* "no version" environment, and the cursor stays inside its partition.    *)
THEOREM TypeCorrect == Spec => []TypeOK
<1>1. Spec => []TInv
  BY InitTyped, NextTyped, PTL DEF Spec
<1>2. TInv => TypeOK
  BY DEF TInv
<1> QED
  BY <1>1, <1>2, PTL

-----------------------------------------------------------------------------
(* What the tool holds while it works: the inductive core of the theorems  *)
(* about one invocation.                                                   *)
Calm(s) == s # <<>> => s[1] \notin {Noise[1], Noise[2]}

NoiseFree == /\ flash[1] \notin {Noise[1], Noise[2]}
             /\ Calm(file) /\ Calm(tar.uboot)

Undecided ==
  /\ pc \notin {"off", "exited", "hung", "prompt"} => code = NoCode
  /\ pc \notin {"off", "exited", "hung", "reboot"} => ~updated

Untouched ==
  /\ pc \in {"load", "confirm", "open", "confirm2"} \cup Reading \cup Saving => flash = flash0
  /\ UntouchedUnlessFlashing
  /\ pc = "prompt" => code = FLASHING_FAILED

SnapTrue == /\ pc = "read2" => snap \in ReadsOf(1)
            /\ pc = "tar_uboot" => snap = ReadOut

Covered ==
  /\ pc \in {"tar_env", "tar_conf"} => BootIs(tar.uboot, flash0)
  /\ pc \in Flashing /\ cmd.mode = "upgrade" /\ cmd.backup =>
       tar.state = "full" /\ BootIs(tar.uboot, flash0)

Loaded ==
  /\ pc \in AfterOpen /\ cmd.mode # "rollback" => file = Image[cmd.img]
  /\ pc \in Flashing \cup {"confirm2"} /\ cmd.mode = "rollback" =>
       tar.state = "full" /\ file = tar.uboot
  /\ pc = "confirm2" => cmd.mode = "rollback"

BootVerified ==
  pc \in {"write", "program", "verify"} /\ dev # "uboot" =>
    Len(file) = ReadLen /\ BootIs(flash, file)

JInv == /\ NoiseFree /\ Undecided /\ Untouched /\ SnapTrue
        /\ Covered /\ Loaded /\ BootVerified /\ FlashedAsReported

(* The inductive invariant behind Recoverable.                             *)
Disciplined == /\ FollowsAdvice /\ Modes \subseteq {"upgrade", "rollback"}
               /\ BackupChoices \subseteq {TRUE} /\ "power" \notin Faults

Exposed == pc \in {"write", "program", "verify", "prompt"}

RInv == /\ ~advice => Whole(flash)
        /\ advice => tar.state = "full"
        /\ tar.state \in {"uboot", "env", "full"} => Whole(tar.uboot)
        /\ pc \in {"load", "confirm", "open"} \cup Reading \cup Saving
             /\ cmd.mode = "upgrade" => ~advice
        /\ Exposed => advice
        /\ pc \notin {"off", "exited"} => cmd.mode \in Modes

LEMMA BootFacts ==
  /\ 1 \in Boot /\ Boot \subseteq Addr /\ Boot \subseteq 1..ReadLen
  /\ \A a \in Boot : a \notin EnvBlks /\ a \notin BkBlks
BY LayoutAssumption DEF Boot, Addr, EnvBlks, BkBlks

LEMMA ReadOutFacts ==
  ASSUME TInv
  PROVE  /\ ReadOut \in Seq(Data) /\ Len(ReadOut) = ReadLen
         /\ \A a \in Boot : ReadOut[a] = flash[a]
         /\ ReadOut # <<>> /\ ReadOut[1] = flash[1]
         /\ \A i \in 1..2 : Garbled(i)[1] = Noise[i] /\ Garbled(i) # <<>>
<1>1. ReadOut \in [1..ReadLen -> Data]
  BY LayoutAssumption DEF ReadOut, TInv, TypeOK, StoreOK, Addr
<1>2. ReadLen \in Nat /\ 1 \in 1..ReadLen
  BY LayoutAssumption
<1>3. ReadOut \in Seq(Data) /\ Len(ReadOut) = ReadLen
  BY <1>1, <1>2
<1>4. \A i \in 1..2 : Garbled(i) \in Seq(Data) /\ Len(Garbled(i)) = ReadLen
                      /\ Garbled(i)[1] = Noise[i]
  <2> TAKE i \in 1..2
  <2>1. Garbled(i) \in [1..ReadLen -> Data]
    BY <1>1, NoiseAssumption DEF Garbled
  <2>2. Garbled(i)[1] = Noise[i]
    BY <1>1, <1>2 DEF Garbled
  <2> QED
    BY <1>2, <2>1, <2>2
<1>5. \A s \in Seq(Data) : Len(s) = ReadLen => s # <<>>
  BY <1>2
<1>6. \A a \in Boot \cup {1} : ReadOut[a] = flash[a]
  BY BootFacts DEF ReadOut
<1> QED
  BY <1>3, <1>4, <1>5, <1>6

(* Two reads of the flash that agree are true.                             *)
LEMMA TwoReadsAgree ==
  ASSUME TInv, NoiseFree, snap \in ReadsOf(1), snap \in ReadsOf(2)
  PROVE  snap = ReadOut
<1>1. Garbled(1) # Garbled(2) /\ ReadOut # Garbled(1) /\ ReadOut # Garbled(2)
  BY ReadOutFacts, NoiseAssumption DEF NoiseFree
<1> QED
  BY <1>1 DEF ReadsOf

(* A binary whose digest matches what was read back is in the flash.       *)
LEMMA DigestSound ==
  ASSUME TInv, NoiseFree, dev = "uboot", TRUE \in Verdicts
  PROVE  Len(file) = ReadLen /\ BootIs(flash, file)
<1>1. PICK r \in ReadsOf(1) : r = file
  BY DEF Verdicts
<1>2. file # Garbled(1)
  BY ReadOutFacts DEF NoiseFree, Calm
<1>3. file = ReadOut
  BY <1>1, <1>2 DEF ReadsOf
<1> QED
  BY <1>3, ReadOutFacts DEF BootIs

LEMMA InitJob == Init => JInv
<1> SUFFICES ASSUME Init PROVE JInv
  OBVIOUS
<1>1. PICK v \in Versions, t \in EnvTexts, copied \in BOOLEAN :
        /\ Len(Image[v]) = ReadLen
        /\ flash = [a \in Addr |->
             IF a \in EnvBlks THEN EnvBin[t][a]
             ELSE IF a \in BkBlks /\ copied THEN EnvBin[t][a - BkLo + EnvLo]
             ELSE IF a \in Boot THEN Image[v][a] ELSE Erased]
  BY DEF Init
<1>2. flash[1] = Image[v][1]
  BY <1>1, BootFacts
<1>3. Image[v] # <<>>
  BY <1>1, LayoutAssumption
<1>4. NoiseFree
  BY <1>2, <1>3, NoiseAssumption DEF Init, NoiseFree, Calm, NoTar
<1>5. Untouched /\ FlashedAsReported
  BY DEF Init, Untouched, UntouchedUnlessFlashing, FlashedAsReported, NoCode,
     BACKUP_FAILED, CANCELED, INVALID_FIRMWARE, Reading, Saving
<1>6. Undecided /\ SnapTrue /\ Covered /\ Loaded /\ BootVerified
  BY DEF Init, Undecided, SnapTrue, Covered, Loaded, BootVerified, AfterOpen,
     Reading, Saving, Flashing
<1> QED
  BY <1>4, <1>5, <1>6 DEF JInv

(* Nothing of the store or of the job changes.                             *)
LEMMA FrameJob ==
  ASSUME JInv, UNCHANGED <<flash, tar, flash0, file>>
  PROVE  NoiseFree' /\ ReadOut' = ReadOut /\ ReadsOf(1)' = ReadsOf(1)
BY DEF JInv, NoiseFree, Calm, ReadOut, ReadsOf, Garbled

LEMMA InvokeJob ==
  ASSUME TInv, JInv, NEW c \in Commands, Invoke(c)
  PROVE  JInv'
<1> USE DEF Invoke, storeVars
<1>1. NoiseFree'
  BY DEF JInv, NoiseFree, Calm
<1>2. Untouched' /\ FlashedAsReported' /\ Undecided'
  BY DEF Untouched, UntouchedUnlessFlashing, FlashedAsReported, Undecided, NoCode,
     BACKUP_FAILED, CANCELED, INVALID_FIRMWARE
<1>3. SnapTrue' /\ Covered' /\ Loaded' /\ BootVerified'
  BY DEF SnapTrue, Covered, Loaded, BootVerified, AfterOpen, Reading, Saving, Flashing
<1> QED
  BY <1>1, <1>2, <1>3 DEF JInv

LEMMA OpenJob ==
  ASSUME TInv, JInv, LoadTarball \/ Confirm("confirm", "open")
                       \/ Confirm("confirm2", "attempt") \/ Open \/ HitEnter
  PROVE  JInv'
<1> USE DEF AfterOpen, Reading, Saving, Flashing
<1>1. UNCHANGED <<storeVars, cmd, snap, loopVars, ghostVars>>
  BY DEF LoadTarball, Confirm, Open, OpenForce, OpenPackage, OpenRollback, OpenFails,
     HitEnter, jobVars
<1>2. CASE \/ LoadTarball \/ HitEnter \/ OpenFails
           \/ Confirm("confirm", "open") \/ Confirm("confirm2", "attempt")
  <2>1. UNCHANGED <<jobVars>>
    BY <1>2 DEF LoadTarball, HitEnter, OpenFails, Confirm
  <2>2. \/ pc \in {"load", "confirm", "open", "confirm2"} /\ pc' \in {"exited", "hung"}
        \/ pc \in {"load", "confirm"} /\ pc' \in {"confirm", "open"} /\ code' = code
        \/ pc = "confirm2" /\ pc' = "attempt" /\ code' = code
        \/ /\ pc = "prompt" /\ pc' \in {"exited", "hung"}
           /\ code' \in {code, ROLLBACK_FAILED}
    BY <1>2 DEF LoadTarball, HitEnter, OpenFails, Confirm, Goto, Leave
  <2>3. NoiseFree'
    BY <1>1, <2>1, FrameJob DEF storeVars, jobVars, ghostVars
  <2>4. Undecided' /\ Untouched'
    BY <1>1, <2>1, <2>2 DEF JInv, Undecided, Untouched, UntouchedUnlessFlashing, storeVars,
       ghostVars, NoCode, FLASHING_FAILED, ROLLBACK_FAILED, BACKUP_FAILED, CANCELED,
       INVALID_FIRMWARE
  <2>5. FlashedAsReported'
    BY <1>1, <2>2 DEF JInv, Untouched, Undecided, FlashedAsReported, ghostVars
  <2>6. SnapTrue' /\ Covered' /\ Loaded' /\ BootVerified'
    BY <1>1, <2>1, <2>2 DEF JInv, SnapTrue, Covered, Loaded, BootVerified, storeVars,
       jobVars, loopVars, ghostVars
  <2> QED
    BY <2>3, <2>4, <2>5, <2>6 DEF JInv
<1>3. CASE OpenForce \/ OpenPackage
  <2>1. /\ pc = "open" /\ cmd.mode # "rollback" /\ file' = Image[cmd.img] /\ snap' = snap
        /\ pc' \in {"attempt", "read1"} /\ code' = code
        /\ pc' = "attempt" => cmd.mode = "force" \/ ~cmd.backup
    BY <1>3 DEF OpenForce, OpenPackage, Goto
  <2>2. cmd.img \in Versions
    BY <2>1 DEF TInv, Position, Commands
  <2>3. NoiseFree'
    BY <1>1, <2>1, <2>2, NoiseAssumption DEF JInv, NoiseFree, Calm, storeVars, ghostVars
  <2>4. Undecided' /\ Untouched'
    BY <1>1, <2>1 DEF JInv, Undecided, Untouched, UntouchedUnlessFlashing, storeVars, ghostVars
  <2>5. FlashedAsReported'
    BY <2>1 DEF FlashedAsReported
  <2>6. SnapTrue' /\ Covered' /\ Loaded' /\ BootVerified'
    BY <1>1, <2>1 DEF SnapTrue, Covered, Loaded, BootVerified
  <2> QED
    BY <2>3, <2>4, <2>5, <2>6 DEF JInv
<1>4. CASE OpenRollback
  <2>1. /\ pc = "open" /\ cmd.mode = "rollback" /\ tar.state = "full" /\ file' = tar.uboot
        /\ pc' = "confirm2" /\ code' = code
    BY <1>4 DEF OpenRollback, Goto
  <2>2. NoiseFree'
    BY <1>1, <2>1 DEF JInv, NoiseFree, Calm, storeVars
  <2>3. Undecided' /\ Untouched'
    BY <1>1, <2>1 DEF JInv, Undecided, Untouched, UntouchedUnlessFlashing, storeVars, ghostVars
  <2>4. FlashedAsReported'
    BY <2>1 DEF FlashedAsReported
  <2>5. SnapTrue' /\ Covered' /\ Loaded' /\ BootVerified'
    BY <1>1, <2>1 DEF SnapTrue, Covered, Loaded, BootVerified, storeVars
  <2> QED
    BY <2>2, <2>3, <2>4, <2>5 DEF JInv
<1> QED
  BY <1>2, <1>3, <1>4 DEF Open

LEMMA BackupJob ==
  ASSUME TInv, JInv, Backup
  PROVE  JInv'
<1> USE DEF AfterOpen, Reading, Saving, Flashing
<1>1. /\ UNCHANGED <<flash, cmd, file, env, loopVars, ghostVars>>
      /\ pc \in Reading \cup Saving /\ cmd.mode = "upgrade"
  BY DEF Backup, BackupFirstRead, BackupSecondRead, BackupUboot, BackupEnv, BackupConf,
     BackupFails, SaveTar, storeVars, jobVars, TInv, Position
<1>2. \/ pc = "read1" /\ pc' = "read2" /\ snap' \in ReadsOf(1) /\ tar' = tar /\ code' = code
      \/ /\ pc = "read2" /\ pc' = "tar_uboot" /\ snap \in ReadsOf(2) /\ snap' = snap
         /\ tar' = tar /\ code' = code
      \/ /\ pc = "tar_uboot" /\ pc' = "tar_env" /\ snap' = snap /\ tar'.uboot = snap
         /\ code' = code
      \/ /\ pc \in {"tar_env", "tar_conf"} /\ snap' = snap /\ tar'.uboot = tar.uboot
         /\ pc' \in {"tar_conf", "attempt"} /\ code' = code
         /\ pc' = "attempt" => tar'.state = "full"
      \/ /\ pc' \in {"exited", "hung"} /\ snap' = snap
         /\ tar'.uboot = tar.uboot \/ tar'.uboot = <<>>
  <2>1. CASE BackupFirstRead \/ BackupSecondRead
    BY <2>1 DEF BackupFirstRead, BackupSecondRead, Goto, Leave, storeVars, jobVars
  <2>2. CASE BackupUboot
    BY <2>2 DEF BackupUboot, SaveTar, NoTar, Goto, jobVars
  <2>3. CASE BackupEnv \/ BackupConf
    BY <2>3 DEF BackupEnv, BackupConf, SaveTar, Goto, jobVars, TInv, TypeOK, StoreOK, TarType
  <2>4. CASE BackupFails
    BY <2>4 DEF BackupFails, SaveTar, Leave, Interrupted, NoTar, Torn, storeVars, jobVars
  <2> QED
    BY <2>1, <2>2, <2>3, <2>4 DEF Backup
<1>3. ReadOut' = ReadOut /\ ReadsOf(1)' = ReadsOf(1)
  BY <1>1 DEF ReadOut, ReadsOf, Garbled
<1>4. pc = "read2" /\ pc' = "tar_uboot" => snap = ReadOut
  BY <1>2, TwoReadsAgree DEF JInv, SnapTrue
<1>5. NoiseFree'
  <2>1. Calm(ReadOut)
    BY ReadOutFacts DEF Calm, JInv, NoiseFree
  <2>2. pc = "tar_uboot" => Calm(snap)
    BY <2>1 DEF JInv, SnapTrue
  <2> QED
    BY <1>1, <1>2, <2>2 DEF JInv, NoiseFree, Calm, ghostVars
<1>6. Undecided' /\ Untouched'
  BY <1>1, <1>2 DEF JInv, Undecided, Untouched, UntouchedUnlessFlashing, ghostVars
<1>7. FlashedAsReported'
  BY <1>1 DEF JInv, Undecided, FlashedAsReported, ghostVars
<1>8. SnapTrue'
  BY <1>1, <1>2, <1>3, <1>4 DEF JInv, SnapTrue
<1>9. Covered'
  <2>1. BootIs(ReadOut, flash0)
    BY <1>1, ReadOutFacts DEF BootIs, JInv, Untouched
  <2> QED
    BY <1>1, <1>2, <2>1 DEF JInv, SnapTrue, Covered, BootIs, ghostVars
<1>10. Loaded' /\ BootVerified'
  BY <1>1, <1>2 DEF JInv, Loaded, BootVerified
<1> QED
  BY <1>5, <1>6, <1>7, <1>8, <1>9, <1>10 DEF JInv

(* Programming or erasing a block of the partition being written.          *)
LEMMA BlockJob ==
  ASSUME TInv, JInv, NEW d \in Data, at \in Addr, at <= Last(dev),
         pc \in {"write", "program"}, pc' \in {"write", "program"},
         flash' = [flash EXCEPT ![at] = d], d \in {Erased, Bad, Want},
         UNCHANGED <<tar, jobVars, dev, index, ghostVars, code>>
  PROVE  JInv'
<1> USE DEF AfterOpen, Reading, Saving, Flashing
<1>1. flash \in [Addr -> Data] /\ 1 \in Addr /\ at \in Nat \ {0}
  BY BootFacts DEF TInv, TypeOK, StoreOK, CountersOK
<1>2. at = 1 => d \notin {Noise[1], Noise[2]}
  <2>1. at = 1 => dev = "uboot"
    BY LayoutAssumption DEF TInv, TypeOK, ControlOK, Position
  <2>2. at = 1 => Want = file[1] /\ 1 <= Len(file)
    BY <2>1 DEF Want, Last
  <2>3. at = 1 => file # <<>>
    BY <2>2
  <2> QED
    BY <2>2, <2>3, NoiseAssumption DEF JInv, NoiseFree, Calm
<1>3. NoiseFree'
  BY <1>1, <1>2 DEF JInv, NoiseFree, Calm, jobVars
<1>4. Undecided' /\ Untouched'
  BY DEF JInv, Undecided, Untouched, UntouchedUnlessFlashing, ghostVars, NoCode,
     BACKUP_FAILED, CANCELED, INVALID_FIRMWARE
<1>5. FlashedAsReported' /\ SnapTrue'
  BY DEF FlashedAsReported, SnapTrue
<1>6. Covered' /\ Loaded'
  BY DEF JInv, Covered, Loaded, BootIs, jobVars, ghostVars
<1>7. BootVerified'
  <2>1. dev # "uboot" => at \in EnvBlks \cup BkBlks
    BY <1>1 DEF TInv, TypeOK, ControlOK, Position, Last, EnvBlks, BkBlks
  <2>2. dev # "uboot" => \A a \in Boot : flash'[a] = flash[a]
    BY <1>1, <2>1, BootFacts
  <2> QED
    BY <2>2 DEF JInv, BootVerified, BootIs, jobVars
<1> QED
  BY <1>3, <1>4, <1>5, <1>6, <1>7 DEF JInv

LEMMA AttemptFailsJob ==
  ASSUME TInv, JInv, pc \in {"write", "program", "verify"}, NEW b \in {TRUE, FALSE},
         NEW c \in {FLASHING_FAILED, FAILED}, AttemptFails(c, b)
  PROVE  JInv'
<1> USE DEF AfterOpen, Reading, Saving, Flashing, FLASHING_FAILED, FAILED,
            ROLLBACK_FAILED, BACKUP_FAILED, CANCELED, INVALID_FIRMWARE
<1>1. UNCHANGED <<storeVars, jobVars, dev, at, ghostVars>>
  BY DEF AttemptFails
<1>2. \/ pc' = "attempt" /\ code' = code
      \/ pc' = "prompt" /\ code' = FLASHING_FAILED
      \/ pc' \in {"exited", "hung"} /\ code' \in {5, 8}
  BY DEF AttemptFails, Leave
<1>3. NoiseFree'
  BY <1>1, FrameJob DEF storeVars, jobVars, ghostVars
<1>4. Undecided' /\ Untouched'
  BY <1>1, <1>2 DEF JInv, Undecided, Untouched, UntouchedUnlessFlashing, ghostVars, NoCode
<1>5. FlashedAsReported'
  BY <1>1, <1>2 DEF JInv, Undecided, FlashedAsReported, ghostVars
<1>6. SnapTrue' /\ Covered' /\ Loaded' /\ BootVerified'
  BY <1>1, <1>2 DEF JInv, SnapTrue, Covered, Loaded, BootVerified, storeVars, jobVars, ghostVars
<1> QED
  BY <1>3, <1>4, <1>5, <1>6 DEF JInv

LEMMA DeviceFailsJob ==
  ASSUME TInv, JInv, pc \in {"write", "program", "verify"}, DeviceFails
  PROVE  JInv'
<1>1. CASE cmd.mode = "force"
  BY <1>1, AttemptFailsJob DEF DeviceFails
<1>2. CASE cmd.mode # "force"
  BY <1>2, AttemptFailsJob DEF DeviceFails
<1> QED
  BY <1>1, <1>2

LEMMA WriteJob ==
  ASSUME TInv, JInv, Write
  PROVE  JInv'
<1> USE DEF AfterOpen, Reading, Saving, Flashing
<1>1. CASE WriteFails
  BY <1>1, DeviceFailsJob DEF WriteFails
<1>2. CASE EraseBlock
  <2>1. /\ pc \in {"write"} /\ pc' = "program" /\ at \in Addr /\ at <= Last(dev)
        /\ flash' = [flash EXCEPT ![at] = Erased]
        /\ UNCHANGED <<tar, jobVars, dev, index, ghostVars, code>>
    BY <1>2 DEF EraseBlock, AtBlock, Goto, loopVars
  <2> QED
    BY <2>1, BlockJob, DataAssumption
<1>3. CASE ProgramBlock
  <2>1. PICK d \in {Want, Bad} : flash' = [flash EXCEPT ![at] = d]
    BY <1>3 DEF ProgramBlock
  <2>2. /\ pc = "program" /\ pc' = "write" /\ at \in Addr /\ at <= Last(dev)
        /\ UNCHANGED <<tar, jobVars, dev, index, ghostVars, code>>
    BY <1>3 DEF ProgramBlock, Goto, TInv, Position
  <2>3. d \in Data
    BY <2>2, WantTyped, DataAssumption
  <2> QED
    BY <2>1, <2>2, <2>3, BlockJob
<1>4. CASE StartAttempt \/ SkipBlock \/ PartitionWritten
  <2>1. /\ UNCHANGED <<storeVars, jobVars, index, updated, runs, flash0, code>>
        /\ pc \in {"attempt", "write"} /\ pc' \in {"write", "verify"}
        /\ dev' # "uboot" => pc = "write" /\ dev # "uboot"
    BY <1>4 DEF StartAttempt, SkipBlock, PartitionWritten, AtBlock, Goto, loopVars, ghostVars
  <2>2. NoiseFree'
    BY <2>1, FrameJob DEF storeVars, jobVars
  <2>3. Undecided' /\ Untouched'
    BY <2>1 DEF JInv, Undecided, Untouched, UntouchedUnlessFlashing, storeVars
  <2>4. FlashedAsReported' /\ SnapTrue'
    BY <2>1 DEF FlashedAsReported, SnapTrue
  <2>5. Covered' /\ Loaded' /\ BootVerified'
    BY <2>1 DEF JInv, Covered, Loaded, BootVerified, BootIs, storeVars, jobVars
  <2> QED
    BY <2>2, <2>3, <2>4, <2>5 DEF JInv
<1> QED
  BY <1>1, <1>2, <1>3, <1>4 DEF Write

LEMMA VerifyJob ==
  ASSUME TInv, JInv, Verify
  PROVE  JInv'
<1> USE DEF AfterOpen, Reading, Saving, Flashing
<1>1. CASE VerifyMismatch
  BY <1>1, AttemptFailsJob DEF VerifyMismatch
<1>2. CASE pc = "verify" /\ DeviceFails
  BY <1>2, DeviceFailsJob
<1>3. CASE VerifyUboot
  <2>1. /\ UNCHANGED <<storeVars, jobVars, index, ghostVars, code>>
        /\ pc = "verify" /\ pc' = "write" /\ dev = "uboot" /\ TRUE \in Verdicts
    BY <1>3 DEF VerifyUboot, Goto
  <2>2. Len(file) = ReadLen /\ BootIs(flash, file)
    BY <2>1, DigestSound DEF JInv
  <2>3. NoiseFree'
    BY <2>1, FrameJob DEF storeVars, jobVars, ghostVars
  <2>4. Undecided' /\ Untouched' /\ FlashedAsReported' /\ SnapTrue'
    BY <2>1 DEF JInv, Undecided, Untouched, UntouchedUnlessFlashing, FlashedAsReported,
       SnapTrue, storeVars, ghostVars
  <2>5. Covered' /\ Loaded' /\ BootVerified'
    BY <2>1, <2>2 DEF JInv, Covered, Loaded, BootVerified, BootIs, storeVars, jobVars, ghostVars
  <2> QED
    BY <2>3, <2>4, <2>5 DEF JInv
<1>4. CASE VerifyLast
  <2>1. /\ UNCHANGED <<storeVars, jobVars, dev, flash0>> /\ pc = "verify"
        /\ dev = "env" \/ (cmd.mode = "force" /\ dev = "uboot")
        /\ TRUE \in Verdicts
        /\ \/ pc' = "reboot" /\ code' = code
           \/ pc' = "exited" /\ code' = ROLLBACK_SUCCESS
    <3>1. pc = "verify" /\ TRUE \in Verdicts /\ UNCHANGED <<storeVars, jobVars, dev, flash0>>
      BY <1>4 DEF VerifyLast, loopVars
    <3>2. dev = "env" \/ (cmd.mode = "force" /\ dev = "uboot")
      <4>1. dev = "env" \/ cmd.mode = "force"
        BY <1>4 DEF VerifyLast
      <4>2. dev # "uboot" => cmd.mode # "force"
        BY <3>1 DEF TInv, Position
      <4> QED
        BY <4>1, <4>2
    <3>3. \/ pc' = "reboot" /\ code' = code
          \/ pc' = "exited" /\ code' = ROLLBACK_SUCCESS
      BY <1>4 DEF VerifyLast, Leave
    <3> QED
      BY <3>1, <3>2, <3>3
  <2>2. Len(file) = ReadLen /\ BootIs(flash, file)
    BY <2>1, DigestSound DEF JInv, BootVerified
  <2>3. cmd.mode # "force" => \A a \in EnvBlks : flash[a] = EnvBin[env][a]
    BY <2>1 DEF Verdicts
  <2>4. NoiseFree'
    BY <2>1, FrameJob DEF storeVars, jobVars
  <2>5. FlashedAsReported'
    BY <2>1, <2>2, <2>3 DEF FlashedAsReported, BootIs, storeVars, jobVars
  <2>6. Undecided' /\ Untouched'
    BY <2>1 DEF JInv, Undecided, Untouched, UntouchedUnlessFlashing, NoCode, ROLLBACK_SUCCESS,
       BACKUP_FAILED, CANCELED, INVALID_FIRMWARE
  <2>7. SnapTrue' /\ Covered' /\ Loaded' /\ BootVerified'
    BY <2>1 DEF SnapTrue, Covered, Loaded, BootVerified
  <2> QED
    BY <2>4, <2>5, <2>6, <2>7 DEF JInv
<1>5. CASE VerifyFails /\ ~DeviceFails
  <2>1. /\ UNCHANGED <<storeVars, jobVars, loopVars, ghostVars>>
        /\ pc = "verify" /\ pc' = "hung" /\ code' = UNCAUGHT
    BY <1>5 DEF VerifyFails, Leave
  <2>2. NoiseFree'
    BY <2>1, FrameJob DEF storeVars, jobVars, ghostVars
  <2>3. Undecided' /\ Untouched' /\ FlashedAsReported'
    BY <2>1 DEF JInv, Undecided, Untouched, UntouchedUnlessFlashing, FlashedAsReported,
       NoCode, UNCAUGHT, BACKUP_FAILED, CANCELED, INVALID_FIRMWARE
  <2>4. SnapTrue' /\ Covered' /\ Loaded' /\ BootVerified'
    BY <2>1 DEF SnapTrue, Covered, Loaded, BootVerified
  <2> QED
    BY <2>2, <2>3, <2>4 DEF JInv
<1> QED
  BY <1>1, <1>2, <1>3, <1>4, <1>5 DEF Verify, VerifyFails

LEMMA WorldJob ==
  ASSUME TInv, JInv, Reboot \/ Writeback \/ Kill \/ PowerLoss
  PROVE  JInv'
<1> USE DEF AfterOpen, Reading, Saving, Flashing
<1>1. UNCHANGED <<flash, jobVars, loopVars, ghostVars>>
  BY DEF Reboot, Writeback, Kill, PowerLoss, SaveTar
<1>2. tar' = tar \/ (pc' = "off" /\ tar'.uboot \in {tar.uboot, <<>>})
  <2>1. NoTar.uboot = <<>> /\ Torn.uboot = <<>>
    BY DEF NoTar, Torn
  <2>2. \A t \in Interrupted : t \in {tar, NoTar, Torn}
    BY DEF Interrupted
  <2>3. tar' = tar \/ (pc' = "off" /\ tar' \in {tar, NoTar, Torn})
    BY <2>2 DEF Reboot, Writeback, Kill, PowerLoss, SaveTar
  <2> QED
    BY <2>1, <2>3
<1>3. \/ pc' = "off" /\ code' \in {NoCode, SUCCESS}
      \/ pc = "reboot" /\ pc' = "exited" /\ code' = SUCCESS
      \/ pc' = pc /\ code' = code /\ tar' = tar
  BY DEF Reboot, Writeback, Kill, PowerLoss, Leave
<1>4. NoiseFree'
  BY <1>1, <1>2 DEF JInv, NoiseFree, Calm, jobVars
<1>5. Undecided' /\ Untouched'
  BY <1>1, <1>3 DEF JInv, Undecided, Untouched, UntouchedUnlessFlashing, NoCode, SUCCESS,
     BACKUP_FAILED, CANCELED, INVALID_FIRMWARE, ghostVars
<1>6. FlashedAsReported'
  BY <1>1, <1>3 DEF JInv, Undecided, FlashedAsReported, BootIs, jobVars, ghostVars
<1>7. SnapTrue'
  <2>1. ReadOut' = ReadOut /\ ReadsOf(1)' = ReadsOf(1)
    BY <1>1 DEF ReadOut, ReadsOf, Garbled
  <2> QED
    BY <1>1, <1>3, <2>1 DEF JInv, SnapTrue, jobVars
<1>8. Covered' /\ Loaded' /\ BootVerified'
  BY <1>1, <1>3 DEF JInv, Covered, Loaded, BootVerified, BootIs, jobVars, loopVars, ghostVars
<1> QED
  BY <1>4, <1>5, <1>6, <1>7, <1>8 DEF JInv

LEMMA NextJob == TInv /\ JInv /\ [Next]_vars => JInv'
<1> SUFFICES ASSUME TInv, JInv, [Next]_vars PROVE JInv'
  OBVIOUS
<1>1. CASE UNCHANGED vars
  BY <1>1 DEF JInv, NoiseFree, Calm, Undecided, Untouched, UntouchedUnlessFlashing, SnapTrue,
     ReadOut, ReadsOf, Garbled, Covered, Loaded, BootVerified, BootIs, FlashedAsReported,
     vars, storeVars, jobVars, loopVars, ghostVars
<1>2. CASE ToolStep
  BY <1>2, OpenJob, BackupJob, WriteJob, VerifyJob, WorldJob DEF ToolStep
<1>3. CASE \E c \in Commands : Invoke(c)
  BY <1>3, InvokeJob
<1>4. CASE Writeback \/ Kill \/ PowerLoss
  BY <1>4, WorldJob
<1> QED
  BY <1>1, <1>2, <1>3, <1>4 DEF Next

LEMMA JobInvariant == Spec => [](TInv /\ JInv)
BY InitTyped, InitJob, NextTyped, NextJob, PTL DEF Spec

(* When the tool reports an update or a rollback as done, the boot         *)
(* partitions hold the binary and the env partition the environment.       *)
THEOREM ReportsTruly == Spec => []FlashedAsReported
<1>1. TInv /\ JInv => FlashedAsReported
  BY DEF JInv
<1> QED
  BY <1>1, JobInvariant, PTL

(* Exit codes 3, 6 and 7 are returned only with an untouched flash.        *)
THEOREM RefusalsAreHarmless == Spec => []UntouchedUnlessFlashing
<1>1. TInv /\ JInv => UntouchedUnlessFlashing
  BY DEF JInv, Untouched
<1> QED
  BY <1>1, JobInvariant, PTL

(* An update with backup changes the flash only when the archive holds     *)
(* what the boot partitions were when it started.                          *)
THEOREM BackupComesFirst == Spec => BackupBeforeErase
<1>1. TInv /\ JInv /\ [Next]_vars => [EraseAfterBackup]_vars
  <2> SUFFICES ASSUME TInv, JInv, Next, flash' # flash, cmd.mode = "upgrade", cmd.backup
               PROVE  tar.state = "full" /\ BootIs(tar.uboot, flash0)
    BY DEF EraseAfterBackup
  <2>1. EraseBlock \/ ProgramBlock
    BY DEF Next, ToolStep, Invoke, LoadTarball, Confirm, Open, OpenForce, OpenPackage,
       OpenRollback, OpenFails, Backup, BackupFirstRead, BackupSecondRead, BackupUboot,
       BackupEnv, BackupConf, BackupFails, SaveTar, Write, StartAttempt, SkipBlock,
       WriteFails, DeviceFails, AttemptFails, PartitionWritten, Verify, VerifyUboot,
       VerifyLast, VerifyMismatch, VerifyFails, HitEnter, Reboot, Writeback, Kill,
       PowerLoss, storeVars
  <2>2. pc \in {"write", "program"}
    BY <2>1 DEF EraseBlock, ProgramBlock, AtBlock
  <2> QED
    BY <2>2 DEF JInv, Covered, Flashing
<1> QED
  BY <1>1, JobInvariant, PTL DEF Spec, BackupBeforeErase

-----------------------------------------------------------------------------
(* Recoverability of a device whose operator takes backups and, after a    *)
(* failed update, only rolls back.                                         *)
LEMMA WholeTransfer ==
  ASSUME NEW f, NEW g, BootIs(f, g), Whole(g)
  PROVE  Whole(f)
BY DEF BootIs, Whole

LEMMA InitRecover == ASSUME Disciplined PROVE Init => RInv
<1> SUFFICES ASSUME Init PROVE RInv
  OBVIOUS
<1>1. PICK v \in Versions, t \in EnvTexts, copied \in BOOLEAN :
        /\ Len(Image[v]) = ReadLen
        /\ flash = [a \in Addr |->
             IF a \in EnvBlks THEN EnvBin[t][a]
             ELSE IF a \in BkBlks /\ copied THEN EnvBin[t][a - BkLo + EnvLo]
             ELSE IF a \in Boot THEN Image[v][a] ELSE Erased]
  BY DEF Init
<1>2. \A a \in Boot : flash[a] = Image[v][a]
  BY <1>1, BootFacts
<1>3. Whole(flash)
  BY <1>1, <1>2 DEF Whole
<1> QED
  BY <1>3 DEF Init, RInv, NoTar, Exposed, Reading, Saving

(* Steps that keep the flash, the archive and the advice.                  *)
LEMMA FrameRecover ==
  ASSUME RInv, UNCHANGED <<flash, tar, advice, cmd>>, pc \notin {"off", "exited"},
         Exposed' => Exposed,
         pc' \in {"load", "confirm", "open"} \cup Reading \cup Saving =>
           pc \in {"load", "confirm", "open"} \cup Reading \cup Saving
  PROVE  RInv'
BY DEF RInv, Whole

LEMMA InvokeRecover ==
  ASSUME Disciplined, RInv, NEW c \in Commands, Invoke(c)
  PROVE  RInv'
<1>1. UNCHANGED <<flash, tar, advice>> /\ pc' = "load" /\ cmd' = c
  BY DEF Invoke, storeVars
<1>2. c.mode \in Modes
  BY DEF Commands
<1>3. c.mode = "upgrade" => ~advice
  BY DEF Invoke, Disciplined
<1> QED
  BY <1>1, <1>2, <1>3 DEF RInv, Whole, Exposed

LEMMA OpenRecover ==
  ASSUME RInv, LoadTarball \/ Confirm("confirm", "open")
                 \/ Confirm("confirm2", "attempt") \/ Open \/ HitEnter
  PROVE  RInv'
<1>1. UNCHANGED <<flash, tar, advice, cmd>>
  BY DEF LoadTarball, Confirm, Open, OpenForce, OpenPackage, OpenRollback, OpenFails,
     HitEnter, storeVars, jobVars, ghostVars
<1>2. /\ pc \in {"load", "confirm", "open", "confirm2", "prompt"}
      /\ pc' \in {"confirm", "open", "read1"} => pc \in {"load", "confirm", "open"}
      /\ pc' \in {"confirm", "open", "read1", "confirm2", "attempt", "exited", "hung"}
  BY DEF LoadTarball, Confirm, Open, OpenForce, OpenPackage, OpenRollback, OpenFails,
     HitEnter, Goto, Leave
<1> QED
  BY <1>1, <1>2, FrameRecover DEF Exposed, Reading, Saving

LEMMA BackupRecover ==
  ASSUME TInv, JInv, RInv, Backup
  PROVE  RInv'
<1> USE DEF Reading, Saving
<1>1. /\ UNCHANGED <<flash, advice, cmd>> /\ pc \in Reading \cup Saving
      /\ cmd.mode = "upgrade"
  BY DEF Backup, BackupFirstRead, BackupSecondRead, BackupUboot, BackupEnv, BackupConf,
     BackupFails, SaveTar, storeVars, jobVars, ghostVars, TInv, Position
<1>2. ~advice /\ Whole(flash)
  BY <1>1 DEF RInv
<1>3. tar'.state \in {"uboot", "env", "full"} => Whole(tar'.uboot)
  <2>1. CASE BackupUboot
    <3>1. BootIs(ReadOut, flash)
      BY ReadOutFacts DEF BootIs
    <3>2. tar'.uboot = ReadOut
      BY <2>1 DEF BackupUboot, SaveTar, NoTar, JInv, SnapTrue
    <3> QED
      BY <1>2, <3>1, <3>2, WholeTransfer
  <2>2. CASE BackupEnv \/ BackupConf
    <3>1. tar'.uboot = tar.uboot /\ tar.state \in {"uboot", "env"}
      BY <2>2 DEF BackupEnv, BackupConf, SaveTar, TInv, TypeOK, StoreOK, TarType, Position
    <3> QED
      BY <3>1 DEF RInv
  <2>3. CASE BackupFirstRead \/ BackupSecondRead \/ BackupFails
    <3>1. tar' \in {tar, NoTar, Torn}
      BY <2>3 DEF BackupFirstRead, BackupSecondRead, BackupFails, SaveTar, Interrupted, storeVars
    <3>2. NoTar.state = "none" /\ Torn.state = "torn"
      BY DEF NoTar, Torn
    <3> QED
      BY <3>1, <3>2 DEF RInv
  <2> QED
    BY <2>1, <2>2, <2>3 DEF Backup
<1>4. pc' \notin {"write", "program", "verify", "prompt"}
  BY DEF Backup, BackupFirstRead, BackupSecondRead, BackupUboot, BackupEnv, BackupConf,
     BackupFails, Goto, Leave
<1>5. Whole(flash)' /\ ~advice' /\ cmd'.mode \in Modes
  BY <1>1, <1>2 DEF RInv, Whole
<1> QED
  BY <1>3, <1>4, <1>5 DEF RInv, Exposed

(* While flashing, an archive of a complete bootloader exists.             *)
LEMMA FlashingCovered ==
  ASSUME Disciplined, TInv, JInv, RInv, pc \in Flashing
  PROVE  tar.state = "full" /\ cmd \in Commands /\ cmd.mode \in {"upgrade", "rollback"}
<1>1. cmd \in Commands /\ cmd.mode \in {"upgrade", "rollback"}
  BY DEF TInv, Position, RInv, Disciplined, Flashing
<1>2. CASE cmd.mode = "upgrade"
  <2>1. cmd.backup
    BY <1>1, <1>2 DEF Commands, Disciplined
  <2> QED
    BY <1>1, <1>2, <2>1 DEF JInv, Covered
<1>3. CASE cmd.mode = "rollback"
  BY <1>1, <1>3 DEF JInv, Loaded
<1> QED
  BY <1>1, <1>2, <1>3

LEMMA WriteRecover ==
  ASSUME Disciplined, TInv, JInv, RInv,
         Write \/ (pc \in {"write", "program", "verify"}
                  /\ \E c \in {FAILED, FLASHING_FAILED}, b \in {TRUE, FALSE} : AttemptFails(c, b))
  PROVE  RInv'
<1> USE DEF Flashing, Exposed, Reading, Saving
<1>1. CASE StartAttempt
  <2>1. UNCHANGED <<flash, tar, cmd>> /\ advice' = TRUE /\ pc' = "write" /\ pc = "attempt"
    BY <1>1 DEF StartAttempt, storeVars, jobVars
  <2>2. tar.state = "full" /\ cmd.mode \in Modes
    BY <2>1, FlashingCovered DEF RInv
  <2> QED
    BY <2>1, <2>2 DEF RInv, Whole
<1>2. CASE SkipBlock \/ EraseBlock \/ ProgramBlock \/ PartitionWritten
  <2>1. /\ UNCHANGED <<tar, cmd, advice>> /\ pc \in {"write", "program"}
        /\ pc' \in {"write", "program", "verify"}
    BY <1>2 DEF SkipBlock, EraseBlock, ProgramBlock, PartitionWritten, AtBlock, Goto,
       storeVars, jobVars, ghostVars
  <2>2. advice /\ cmd.mode \in Modes
    BY <2>1 DEF RInv
  <2> QED
    BY <2>1, <2>2 DEF RInv, Whole
<1>3. ASSUME pc \in {"write", "program", "verify"},
             NEW c \in {FAILED, FLASHING_FAILED}, NEW b \in {TRUE, FALSE}, AttemptFails(c, b)
      PROVE  RInv'
  <2>1. /\ UNCHANGED <<flash, tar, cmd, advice>>
        /\ pc' \in {"attempt", "prompt", "exited", "hung"}
    BY <1>3 DEF AttemptFails, Leave, storeVars, jobVars, ghostVars
  <2>2. advice /\ cmd.mode \in Modes
    BY <1>3 DEF RInv
  <2> QED
    BY <2>1, <2>2 DEF RInv, Whole
<1>4. CASE WriteFails
  <2>1. pc \in {"write", "program"} /\ DeviceFails
    BY <1>4 DEF WriteFails
  <2> QED
    BY <2>1, <1>3 DEF DeviceFails
<1> QED
  BY <1>1, <1>2, <1>3, <1>4 DEF Write

LEMMA VerifyRecover ==
  ASSUME Disciplined, TInv, JInv, RInv, Verify
  PROVE  RInv'
<1> USE DEF Flashing, Exposed, Reading, Saving
<1>1. pc = "verify" /\ UNCHANGED <<flash, tar, cmd>>
  BY DEF Verify, VerifyUboot, VerifyLast, VerifyMismatch, VerifyFails, DeviceFails, AttemptFails,
     storeVars, jobVars
<1>2. advice /\ cmd.mode \in Modes /\ cmd.mode # "force"
  BY <1>1 DEF RInv, Disciplined
<1>3. CASE VerifyMismatch \/ DeviceFails
  <2>1. \E c \in {FAILED, FLASHING_FAILED}, b \in {TRUE, FALSE} : AttemptFails(c, b)
    BY <1>3 DEF VerifyMismatch, DeviceFails
  <2> QED
    BY <1>1, <2>1, WriteRecover
<1>4. CASE VerifyUboot \/ (VerifyFails /\ ~DeviceFails)
  <2>1. advice' = advice /\ pc' \in {"write", "hung"}
    BY <1>4 DEF VerifyUboot, VerifyFails, Goto, Leave, ghostVars
  <2> QED
    BY <1>1, <1>2, <2>1 DEF RInv, Whole
<1>5. CASE VerifyLast
  <2>1. advice' = FALSE /\ pc' \in {"reboot", "exited"} /\ dev = "env"
    BY <1>2, <1>5 DEF VerifyLast, Leave
  <2>2. Len(file) = ReadLen /\ BootIs(flash, file)
    BY <1>1, <2>1 DEF JInv, BootVerified
  <2>3. Whole(file)
    <3>1. CASE cmd.mode = "rollback"
      BY <1>1, <3>1 DEF JInv, Loaded, RInv
    <3>2. CASE cmd.mode # "rollback"
      <4>1. cmd.img \in Versions
        BY <1>1, <3>2 DEF TInv, Position, Commands
      <4>2. file = Image[cmd.img]
        BY <1>1, <3>2 DEF JInv, Loaded, AfterOpen
      <4> QED
        BY <2>2, <4>1, <4>2 DEF Whole
    <3> QED
      BY <3>1, <3>2
  <2>4. Whole(flash)
    BY <2>2, <2>3, WholeTransfer
  <2> QED
    BY <1>1, <1>2, <2>1, <2>4 DEF RInv, Whole
<1> QED
  BY <1>3, <1>4, <1>5 DEF Verify, VerifyFails

LEMMA WorldRecover ==
  ASSUME Disciplined, TInv, JInv, RInv, Reboot \/ Writeback \/ Kill \/ PowerLoss
  PROVE  RInv'
<1> USE DEF Exposed, Reading, Saving
<1>1. UNCHANGED <<flash, cmd, advice>>
  BY DEF Reboot, Writeback, Kill, PowerLoss, SaveTar, jobVars, ghostVars
<1>2. pc' \in {"off", "exited"} \/ pc' = pc
  BY DEF Reboot, Writeback, Kill, PowerLoss, Leave
<1>3. tar' = tar \/ (pc \in Saving /\ tar' \in {NoTar, Torn})
  BY DEF Reboot, Writeback, Kill, PowerLoss, SaveTar, Interrupted, Disciplined
<1>4. pc \in Saving => ~advice
  BY DEF RInv, TInv, Position
<1>5. NoTar.state = "none" /\ Torn.state = "torn"
  BY DEF NoTar, Torn
<1> QED
  BY <1>1, <1>2, <1>3, <1>4, <1>5 DEF RInv, Whole

LEMMA NextRecover ==
  ASSUME Disciplined
  PROVE  TInv /\ JInv /\ RInv /\ [Next]_vars => RInv'
<1> SUFFICES ASSUME TInv, JInv, RInv, [Next]_vars PROVE RInv'
  OBVIOUS
<1>1. CASE UNCHANGED vars
  BY <1>1 DEF RInv, Whole, Exposed, vars, storeVars, jobVars, ghostVars
<1>2. CASE ToolStep
  BY <1>2, OpenRecover, BackupRecover, WriteRecover, VerifyRecover, WorldRecover DEF ToolStep
<1>3. CASE \E c \in Commands : Invoke(c)
  BY <1>3, InvokeRecover
<1>4. CASE Writeback \/ Kill \/ PowerLoss
  BY <1>4, WorldRecover
<1> QED
  BY <1>1, <1>2, <1>3, <1>4 DEF Next

(* As long as the power does not fail, an operator who takes backups and   *)
(* rolls back after a failed update always has a complete bootloader, in   *)
(* the flash or in the rollback archive.                                   *)
THEOREM AlwaysRecoverable ==
  ASSUME Disciplined
  PROVE  Spec => []Recoverable
<1>1. TInv /\ JInv /\ RInv => Recoverable
  BY DEF RInv, Recoverable
<1>2. Init => RInv
  BY InitRecover
<1>3. TInv /\ JInv /\ RInv /\ [Next]_vars => RInv'
  BY NextRecover
<1> QED
  BY <1>1, <1>2, <1>3, InitTyped, InitJob, NextTyped, NextJob, PTL DEF Spec

-----------------------------------------------------------------------------
(* The steps that change the flash or the archive.                         *)
LEMMA FlashWriters ==
  ASSUME [Next]_vars, flash' # flash
  PROVE  EraseBlock \/ ProgramBlock
BY DEF Next, ToolStep, Invoke, LoadTarball, Confirm, Open, OpenForce, OpenPackage,
   OpenRollback, OpenFails, Backup, BackupFirstRead, BackupSecondRead, BackupUboot,
   BackupEnv, BackupConf, BackupFails, SaveTar, Write, StartAttempt, SkipBlock,
   WriteFails, DeviceFails, AttemptFails, PartitionWritten, Verify, VerifyUboot,
   VerifyLast, VerifyMismatch, VerifyFails, HitEnter, Reboot, Writeback, Kill,
   PowerLoss, storeVars, vars

LEMMA ArchiveWriters ==
  ASSUME [Next]_vars, tar' # tar
  PROVE  BackupUboot \/ BackupEnv \/ BackupConf \/ BackupFails \/ Kill \/ PowerLoss
BY DEF Next, ToolStep, Invoke, LoadTarball, Confirm, Open, OpenForce, OpenPackage,
   OpenRollback, OpenFails, Backup, BackupFirstRead, BackupSecondRead, Write, StartAttempt,
   SkipBlock, EraseBlock, ProgramBlock, WriteFails, DeviceFails, AttemptFails,
   PartitionWritten, Verify, VerifyUboot, VerifyLast, VerifyMismatch, VerifyFails,
   HitEnter, Reboot, Writeback, storeVars, vars

-----------------------------------------------------------------------------
(* The refinement.  A content that is whole holds some version, the same   *)
(* as every content with the same boot partitions.                         *)
LEMMA WholeVersion ==
  ASSUME NEW f, Whole(f)
  PROVE  VersionOf(f) \in Versions
BY DEF Whole, VersionOf, HeldBy

LEMMA SameVersion ==
  ASSUME NEW f, NEW g, BootIs(f, g)
  PROVE  VersionOf(f) = VersionOf(g)
<1>1. HeldBy(f) = HeldBy(g)
  BY DEF HeldBy, BootIs
<1> QED
  BY <1>1 DEF VersionOf

LEMMA SafeInit == Init /\ RInv => Safe!Init
<1> SUFFICES ASSUME Init, RInv PROVE Safe!Init
  OBVIOUS
<1>1. Whole(flash) /\ tar.state = "none"
  BY DEF Init, RInv, NoTar
<1> QED
  BY <1>1, WholeVersion DEF Safe!Init, running, saved

(* Flashing: the archive covers what is taken apart or put in place.       *)
LEMMA FlashStep ==
  ASSUME Disciplined, TInv, JInv, RInv, EraseBlock \/ ProgramBlock
  PROVE  Safe!Next
<1>1. pc \in Flashing /\ tar' = tar
  BY DEF EraseBlock, ProgramBlock, AtBlock, Flashing
<1>2. tar.state = "full" /\ Whole(tar.uboot)
  BY <1>1, FlashingCovered DEF RInv
<1>3. saved # NoVersion /\ saved' = saved
  BY <1>1, <1>2, WholeVersion, DataAssumption DEF saved, VersionOf, HeldBy
<1>4. CASE ~Whole(flash')
  <2>1. running' = Damaged
    BY <1>4 DEF running, Whole
  <2> QED
    BY <1>3, <2>1 DEF Safe!Next, Safe!Damage
<1>5. CASE Whole(flash')
  <2>1. running' = VersionOf(flash')
    BY <1>5 DEF running, Whole, VersionOf, HeldBy
  <2>2. running' \in Versions
    BY <1>5, <2>1, WholeVersion
  <2> QED
    BY <1>3, <2>2 DEF Safe!Next, Safe!Install
<1> QED
  BY <1>4, <1>5

(* The archive is given up or replaced only while the device is whole.     *)
LEMMA ArchiveStep ==
  ASSUME Disciplined, TInv, JInv, RInv, flash' = flash, tar' # tar,
         BackupUboot \/ BackupEnv \/ BackupConf \/ BackupFails \/ Kill \/ PowerLoss
  PROVE  [Safe!Next]_<<running, saved>>
<1>1. pc \in Saving
  BY DEF BackupUboot, BackupEnv, BackupConf, BackupFails, Kill, PowerLoss, SaveTar, Interrupted,
     Disciplined, Saving, storeVars
<1>2. ~advice /\ Whole(flash) /\ flash = flash0
  BY <1>1 DEF RInv, TInv, Position, JInv, Untouched
<1>3. running' = running
  BY DEF running, Whole, VersionOf, HeldBy
<1>4. running = VersionOf(flash) /\ running # Damaged
  BY <1>2, WholeVersion, DamagedAssumption DEF running
<1>5. CASE BackupConf
  <2>1. tar'.state = "full" /\ tar'.uboot = tar.uboot
    BY <1>5 DEF BackupConf, SaveTar, TInv, TypeOK, StoreOK, TarType
  <2>2. BootIs(tar.uboot, flash)
    BY <1>2, <1>5 DEF BackupConf, JInv, Covered
  <2>3. saved' = VersionOf(tar.uboot)
    BY <2>1 DEF saved, VersionOf, HeldBy
  <2>4. saved' = running
    BY <1>4, <2>2, <2>3, SameVersion
  <2> QED
    BY <1>3, <1>4, <2>4 DEF Safe!Next, Safe!Save
<1>6. CASE ~BackupConf
  <2>1. tar'.state # "full"
    <3>1. CASE BackupUboot
      BY <3>1 DEF BackupUboot, SaveTar, NoTar
    <3>2. CASE BackupEnv
      BY <3>2 DEF BackupEnv, SaveTar, TInv, TypeOK, StoreOK, TarType
    <3>3. CASE BackupFails \/ Kill \/ PowerLoss
      <4>1. tar' \in {NoTar, Torn}
        BY <3>3 DEF BackupFails, Kill, PowerLoss, SaveTar, Interrupted, Disciplined, storeVars
      <4> QED
        BY <4>1 DEF NoTar, Torn
    <3> QED
      BY <1>6, <3>1, <3>2, <3>3
  <2>2. saved' = NoVersion
    BY <2>1 DEF saved
  <2> QED
    BY <1>3, <1>4, <2>2 DEF Safe!Next, Safe!Drop
<1> QED
  BY <1>5, <1>6

LEMMA SafeStep ==
  ASSUME Disciplined
  PROVE  TInv /\ JInv /\ RInv /\ [Next]_vars => [Safe!Next]_<<running, saved>>
<1> SUFFICES ASSUME TInv, JInv, RInv, [Next]_vars PROVE [Safe!Next]_<<running, saved>>
  OBVIOUS
<1>1. CASE flash' # flash
  BY <1>1, FlashWriters, FlashStep
<1>2. CASE flash' = flash /\ tar' # tar
  BY <1>2, ArchiveWriters, ArchiveStep
<1>3. CASE flash' = flash /\ tar' = tar
  BY <1>3 DEF running, saved, Whole, VersionOf, HeldBy
<1> QED
  BY <1>1, <1>2, <1>3

(* Used with backups and as its messages advise, and as long as the power  *)
(* does not fail, the tool implements SafeUpdate: every step of it takes   *)
(* the bootloader apart or installs one under the cover of an archive,     *)
(* replaces the archive while the device is whole, or changes neither.     *)
THEOREM ToolIsSafe ==
  ASSUME Disciplined
  PROVE  Spec => ImplementsSafeUpdate
<1>1. Init => RInv
  BY InitRecover
<1>2. TInv /\ JInv /\ RInv /\ [Next]_vars => RInv'
  BY NextRecover
<1>3. TInv /\ JInv /\ RInv /\ [Next]_vars => [Safe!Next]_<<running, saved>>
  BY SafeStep
<1> QED
  BY <1>1, <1>2, <1>3, SafeInit, InitTyped, InitJob, NextTyped, NextJob, PTL
     DEF Spec, ImplementsSafeUpdate, Safe!Spec

-----------------------------------------------------------------------------
(* What an update keeps of the environment: the text that is assembled from*)
(* the environment of the untouched flash stays with the invocation.       *)
Before == InEnv(flash0) \cup InBackup(flash0)

EnvKept ==
  (pc \in AfterOpen \cup {"reboot"} \/ updated) /\ cmd.mode = "upgrade" =>
    /\ env \in EnvTexts /\ env.base = cmd.img
    /\ cmd.env = "preserve" /\ Before # {} => \E t \in Before : env.kept = t.kept

LEMMA KeptAssembled ==
  ASSUME TInv, JInv, OpenPackage
  PROVE  EnvKept'
<1>1. /\ pc = "open" /\ cmd \in Commands /\ cmd.mode = "upgrade"
      /\ UNCHANGED <<cmd, flash, flash0>>
      /\ env' \in Assembled([base |-> cmd.img, kept |-> Default])
  BY DEF OpenPackage, storeVars, ghostVars, TInv, Position
<1>2. flash = flash0 /\ Before' = Before
  BY <1>1 DEF JInv, Untouched, Before, InEnv, InBackup
<1>3. cmd.img \in Versions
  BY <1>1, DataAssumption DEF Commands
<1>4. [base |-> cmd.img, kept |-> Default] \in EnvTexts
  BY <1>3, DataAssumption DEF EnvTexts
<1>5. env' \in EnvTexts
  BY <1>1, <1>4, AssembledTyped DEF TInv
<1>6. env'.base = cmd.img
  BY <1>1 DEF Assembled
<1>7. ASSUME cmd.env = "preserve", Before # {} PROVE \E t \in Before : env'.kept = t.kept
  <2>1. env'.kept \in Printenv
    BY <1>1, <1>7 DEF Assembled
  <2> QED
    BY <1>2, <1>7, <2>1 DEF Printenv, Before
<1> QED
  BY <1>1, <1>2, <1>5, <1>6, <1>7 DEF EnvKept

LEMMA KeptStep == TInv /\ JInv /\ EnvKept /\ [Next]_vars => EnvKept'
<1> SUFFICES ASSUME TInv, JInv, EnvKept, [Next]_vars PROVE EnvKept'
  OBVIOUS
<1>1. CASE \E c \in Commands : Invoke(c)
  BY <1>1 DEF Invoke, EnvKept, AfterOpen, Reading, Saving, Flashing
<1>2. CASE OpenPackage
  BY <1>2, KeptAssembled
<1>3. CASE OpenForce \/ OpenRollback
  BY <1>3 DEF OpenForce, OpenRollback, EnvKept
<1>4. ASSUME UNCHANGED <<cmd, env, flash0>>,
             \/ pc' \in AfterOpen \cup {"reboot"} \/ updated'
                => pc \in AfterOpen \cup {"reboot"} \/ updated
      PROVE  EnvKept'
  BY <1>4 DEF EnvKept, Before, InEnv, InBackup
<1> USE DEF AfterOpen, Reading, Saving, Flashing
<1>5. CASE LoadTarball \/ Confirm("confirm", "open") \/ Confirm("confirm2", "attempt")
           \/ OpenFails \/ HitEnter \/ Reboot
  BY <1>4, <1>5 DEF LoadTarball, Confirm, OpenFails, HitEnter, Reboot, Goto, Leave,
     jobVars, ghostVars
<1>6. CASE Backup
  BY <1>4, <1>6 DEF Backup, BackupFirstRead, BackupSecondRead, BackupUboot, BackupEnv,
     BackupConf, BackupFails, Goto, Leave, jobVars, ghostVars
<1>7. CASE Write
  BY <1>4, <1>7 DEF Write, StartAttempt, SkipBlock, EraseBlock, ProgramBlock, WriteFails,
     DeviceFails, AttemptFails, PartitionWritten, AtBlock, jobVars, ghostVars
<1>8. CASE Verify
  BY <1>4, <1>8 DEF Verify, VerifyUboot, VerifyLast, VerifyMismatch, VerifyFails,
     DeviceFails, AttemptFails, jobVars, ghostVars
<1>9. CASE Writeback \/ Kill \/ PowerLoss \/ UNCHANGED vars
  BY <1>4, <1>9 DEF Writeback, Kill, PowerLoss, jobVars, ghostVars, vars
<1> QED
  BY <1>1, <1>2, <1>3, <1>5, <1>6, <1>7, <1>8, <1>9 DEF Next, ToolStep, Open

(* An update that asks for it keeps the preserved variables: although each *)
(* attempt wipes the environment, the flash then holds the package's       *)
(* environment with a value that was valid before.                         *)
THEOREM PreservedVariablesSurvive == Spec => []PreservedEnvSurvives
<1>1. Init => EnvKept
  BY DEF Init, EnvKept, AfterOpen, Reading, Saving, Flashing
<1>2. JInv /\ EnvKept => PreservedEnvSurvives
  <2> SUFFICES ASSUME JInv, EnvKept, updated, pc \in {"reboot", "exited"},
                      cmd.mode = "upgrade", cmd.env = "preserve", Before # {}
               PROVE  \E t \in InEnv(flash), t0 \in Before : t.kept = t0.kept /\ t.base = cmd.img
    BY DEF PreservedEnvSurvives, Before
  <2>1. env \in InEnv(flash)
    BY DEF JInv, FlashedAsReported, EnvKept, InEnv
  <2>2. PICK t0 \in Before : env.kept = t0.kept
    BY DEF EnvKept
  <2> QED
    BY <2>1, <2>2 DEF EnvKept
<1> QED
  BY <1>1, <1>2, KeptStep, JobInvariant, InitTyped, InitJob, PTL DEF Spec

-----------------------------------------------------------------------------
(* What a retry leaves alone.  A read that fails may have an equal block   *)
(* erased; a cell that fails may spoil a block whose content is that of an *)
(* erased one.                                                             *)
SteadyFlash ==
  /\ "glitch" \notin Faults
  /\ "badwrite" \in Faults =>
       /\ Disciplined
       /\ \A v \in Versions : Len(Image[v]) = ReadLen => \A a \in Boot : Image[v][a] # Erased

ErasedFirst == pc = "program" => flash[at] = Erased

LEMMA ErasedStep == TInv /\ ErasedFirst /\ [Next]_vars => ErasedFirst'
<1> SUFFICES ASSUME TInv, ErasedFirst, [Next]_vars, pc' = "program" PROVE flash'[at'] = Erased
  BY DEF ErasedFirst
<1>1. CASE EraseBlock
  BY <1>1 DEF EraseBlock, AtBlock, loopVars, TInv, TypeOK, StoreOK
<1>2. CASE ~EraseBlock
  <2>1. UNCHANGED <<pc, flash, at>>
    BY <1>2 DEF Next, ToolStep, Invoke, LoadTarball, Confirm, Open, OpenForce, OpenPackage,
       OpenRollback, OpenFails, Backup, BackupFirstRead, BackupSecondRead, BackupUboot,
       BackupEnv, BackupConf, BackupFails, SaveTar, Write, StartAttempt, SkipBlock,
       ProgramBlock, WriteFails, DeviceFails, AttemptFails, PartitionWritten, AtBlock,
       Verify, VerifyUboot, VerifyLast, VerifyMismatch, VerifyFails, HitEnter, Reboot,
       Writeback, Kill, PowerLoss, Goto, Leave, vars, storeVars, loopVars
  <2> QED
    BY <2>1 DEF ErasedFirst
<1> QED
  BY <1>1, <1>2

(* A binary that is being written has no erased boot block where a cell may*)
(* fail.                                                                   *)
LEMMA NoErasedBoot ==
  ASSUME SteadyFlash, "badwrite" \in Faults, TInv, JInv, RInv, pc = "program",
         Len(file) = ReadLen
  PROVE  \A a \in Boot : file[a] # Erased
<1>1. /\ tar.state = "full" /\ cmd \in Commands /\ cmd.mode \in {"upgrade", "rollback"}
  BY FlashingCovered DEF SteadyFlash, Flashing
<1>2. CASE cmd.mode = "upgrade"
  BY <1>1, <1>2, DataAssumption DEF JInv, Loaded, AfterOpen, Flashing, Commands, SteadyFlash
<1>3. CASE cmd.mode = "rollback"
  <2>1. file = tar.uboot /\ Whole(tar.uboot)
    BY <1>1, <1>3 DEF JInv, Loaded, Flashing, RInv
  <2> QED
    BY <2>1 DEF Whole, SteadyFlash
<1> QED
  BY <1>1, <1>2, <1>3

LEMMA KeepStep ==
  ASSUME SteadyFlash, TInv, JInv, ErasedFirst, "badwrite" \in Faults => RInv, [Next]_vars
  PROVE  KeepFlashedBoot
<1> SUFFICES ASSUME file' = file, Len(file) = ReadLen, BootIs(flash, file), flash' # flash,
                    NEW a \in Boot
             PROVE  flash'[a] = file[a]
  BY DEF KeepFlashedBoot, BootIs
<1>1. EraseBlock \/ ProgramBlock
  BY FlashWriters
<1>2. flash \in [Addr -> Data] /\ a \in Addr /\ flash[a] = file[a]
  BY BootFacts DEF TInv, TypeOK, StoreOK, BootIs
<1>3. at = a => dev = "uboot"
  <2>1. dev \in {"uboot", "env", "env.backup"} /\ at \in Nat
    BY DEF TInv, TypeOK, ControlOK, CountersOK
  <2>2. dev = "env" => at \in EnvBlks
    BY <1>1, <2>1, LayoutAssumption DEF EraseBlock, ProgramBlock, AtBlock, Last, TInv, Position, EnvBlks
  <2>3. dev = "env.backup" => at \in BkBlks
    BY <1>1, <2>1, LayoutAssumption DEF EraseBlock, ProgramBlock, AtBlock, Last, TInv, Position, BkBlks
  <2> QED
    BY <2>1, <2>2, <2>3, BootFacts
<1>4. CASE EraseBlock
  <2>1. flash' = [flash EXCEPT ![at] = Erased] /\ flash[at] # Want
    BY <1>4 DEF EraseBlock, SteadyFlash
  <2>2. at # a
    BY <1>2, <1>3, <2>1 DEF Want
  <2> QED
    BY <1>2, <2>1, <2>2
<1>5. CASE ProgramBlock
  <2>1. PICK d \in {Want} \cup (IF "badwrite" \in Faults THEN {Bad} ELSE {}) :
          flash' = [flash EXCEPT ![at] = d]
    BY <1>5 DEF ProgramBlock
  <2>2. pc = "program" /\ flash[at] = Erased
    BY <1>5 DEF ProgramBlock, ErasedFirst
  <2>3. at = a => d = file[a]
    <3>1. "badwrite" \in Faults => at # a
      BY <1>2, <2>2, NoErasedBoot
    <3> QED
      BY <1>3, <2>1, <3>1 DEF Want
  <2> QED
    BY <1>2, <2>1, <2>3
<1> QED
  BY <1>1, <1>4, <1>5

(* Once the boot partitions hold the new bootloader, nothing that the      *)
(* invocation still does, retries included, takes them apart.              *)
THEOREM FlashedBootStays ==
  ASSUME SteadyFlash
  PROVE  Spec => BootStaysFlashed
<1>1. Init => ErasedFirst
  BY DEF Init, ErasedFirst
<1>2. ASSUME TInv, JInv, ErasedFirst, "badwrite" \in Faults => RInv, [Next]_vars
      PROVE  [KeepFlashedBoot]_vars
  BY <1>2, KeepStep
<1>3. CASE "badwrite" \in Faults
  <2>1. Init => RInv
    BY <1>3, InitRecover DEF SteadyFlash
  <2>2. TInv /\ JInv /\ RInv /\ [Next]_vars => RInv'
    BY <1>3, NextRecover DEF SteadyFlash
  <2>3. TInv /\ JInv /\ ErasedFirst /\ RInv /\ [Next]_vars => [KeepFlashedBoot]_vars
    BY <1>2
  <2> QED
    BY <1>1, <2>1, <2>2, <2>3, ErasedStep, InitTyped, InitJob, NextTyped, NextJob, PTL
       DEF Spec, BootStaysFlashed
<1>4. CASE "badwrite" \notin Faults
  <2>1. TInv /\ JInv /\ ErasedFirst /\ [Next]_vars => [KeepFlashedBoot]_vars
    BY <1>2, <1>4
  <2> QED
    BY <1>1, <2>1, ErasedStep, JobInvariant, InitTyped, InitJob, PTL DEF Spec, BootStaysFlashed
<1> QED
  BY <1>3, <1>4
=============================================================================
