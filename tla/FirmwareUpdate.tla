--------------------------- MODULE FirmwareUpdate ---------------------------
(***************************************************************************)
(* iot2050-firmware-update: the tool that writes the bootloader and its    *)
(* environment into the OSPI flash, keeps a rollback archive, retries and  *)
(* rolls back.  Flash is a sequence of erase blocks; a package's bootloader*)
(* is a sequence of block contents.  One invocation of the tool runs at a  *)
(* time; it may be killed, the power may fail, and it is invoked again.    *)
(***************************************************************************)
EXTENDS Integers, Sequences, FiniteSets

CONSTANTS
  NBlocks,          \* erase blocks of the whole flash
  ReadLen,          \* blocks read back by BootloaderFirmware.read (0x8c0000)
  EnvLo, EnvHi,     \* the blocks of the "env" partition
  BkLo, BkHi,       \* the blocks of the "env.backup" partition
  Data,             \* what one erase block can hold
  Erased,           \* the block content 0xff ... 0xff
  Bad,              \* what a failing cell holds after it was programmed
  Noise,            \* what an unreliable read returns, per read
  Versions,         \* update packages
  NoVersion,        \* "no package on the command line"
  Image,            \* the bootloader binary of each package
  Kept, Default,    \* values of the preserved environment variables
  EnvBin,           \* mkenvimage: environment text -> blocks of "env"
  Modes,            \* ways to invoke the tool that are explored
  BackupChoices,    \* {TRUE}: never -n
  QuietChoices,     \* {TRUE}: always -q
  Faults,           \* what may go wrong
  FollowsAdvice,    \* after a failed update the operator only rolls back
  MaxRuns           \* bound on the number of invocations

Addr == 1..NBlocks
EnvBlks == EnvLo..EnvHi
BkBlks == BkLo..BkHi
Boot == (1..ReadLen) \ (EnvBlks \cup BkBlks)

(* The environment as text: a package's defaults plus preserved values.    *)
EnvTexts == [base : Versions, kept : Kept]

AllFaults == {"io", "readio", "badwrite", "glitch", "osrelease", "kill", "power"}

ASSUME LayoutAssumption ==
  /\ NBlocks \in Nat /\ ReadLen \in Nat
  /\ EnvLo \in Nat /\ EnvHi \in Nat /\ BkLo \in Nat /\ BkHi \in Nat
  /\ 1 < EnvLo /\ EnvLo <= EnvHi /\ EnvHi < BkLo
  /\ BkHi - BkLo = EnvHi - EnvLo /\ BkHi <= ReadLen /\ ReadLen <= NBlocks

ASSUME DataAssumption ==
  /\ {Erased, Bad} \subseteq Data
  /\ Image \in [Versions -> Seq(Data)]
  /\ EnvBin \in [EnvTexts -> [EnvBlks -> Data]]
  /\ Default \in Kept /\ NoVersion \notin Versions

(* Unreliable reads differ from each other and from everything written.    *)
ASSUME NoiseAssumption ==
  /\ Noise \in [1..2 -> Data] /\ Noise[1] # Noise[2]
  /\ {Erased, Bad} \cap {Noise[1], Noise[2]} = {}
  /\ \A v \in Versions : Image[v] # <<>> => Image[v][1] \notin {Noise[1], Noise[2]}

ASSUME EnvironmentAssumption ==
  /\ Modes \subseteq {"upgrade", "force", "rollback"}
  /\ BackupChoices \subseteq BOOLEAN /\ QuietChoices \subseteq BOOLEAN
  /\ FollowsAdvice \in BOOLEAN
  /\ Faults \subseteq AllFaults /\ MaxRuns \in Nat

(* ErrorCode, plus what the interpreter returns for an uncaught exception. *)
SUCCESS == 0
ROLLBACK_SUCCESS == 1
BACKUP_FAILED == 3
ROLLBACK_FAILED == 4
FLASHING_FAILED == 5
CANCELED == 6
INVALID_FIRMWARE == 7
FAILED == 8
UNCAUGHT == 1
NoCode == -1

(* Command lines; -p is "preserve", -r is "reset", -n clears backup.       *)
Commands ==
  {c \in [mode : Modes, img : Versions \cup {NoVersion},
          env : {"preserve", "reset"}, backup : BOOLEAN, quiet : QuietChoices] :
     /\ (c.mode = "rollback") <=> (c.img = NoVersion)
     /\ IF c.mode = "upgrade" THEN c.backup \in BackupChoices
                              ELSE c.backup /\ c.env = "preserve"}

VARIABLES
  flash,    \* content of every erase block
  tar,      \* the rollback archive: state, bootloader, environment text
  dirty,    \* the archive is only in the page cache
  pc,       \* where the tool is ("off": no process)
  cmd,      \* its command line
  file,     \* bootloader binary it writes
  env,      \* environment text it writes
  snap,     \* bootloader content read for the backup
  dev, at,  \* partition being written or verified, next block
  index,    \* failed attempts
  bar,      \* the progress-bar thread is running
  code,     \* exit code, once decided
  updated,  \* update() returned without an exception
  runs,     \* invocations so far
  advice,   \* auxiliary: flashing began and has not been completed since
  flash0    \* auxiliary: flash when the tool was invoked

storeVars == <<flash, tar, dirty>>
jobVars   == <<cmd, file, env, snap>>
loopVars  == <<dev, at, index>>
ghostVars == <<updated, runs, advice, flash0>>
vars == <<storeVars, jobVars, loopVars, ghostVars, pc, bar, code>>

(* Contents whose boot partitions are exactly those of some package.       *)
Whole(f) == \E v \in Versions : /\ Len(Image[v]) = ReadLen
                                /\ \A a \in Boot : f[a] = Image[v][a]

(* BootloaderFirmware.read, and the same read over an unreliable bus.      *)
ReadOut == [a \in 1..ReadLen |-> flash[a]]
Garbled(i) == [ReadOut EXCEPT ![1] = Noise[i]]
ReadsOf(i) == {ReadOut} \cup (IF "glitch" \in Faults THEN {Garbled(i)} ELSE {})

(* The environment texts stored in a valid copy of the environment.        *)
InEnv(f) == {t \in EnvTexts : \A a \in EnvBlks : f[a] = EnvBin[t][a]}
InBackup(f) ==
  {t \in EnvTexts : \A a \in EnvBlks : f[a - EnvLo + BkLo] = EnvBin[t][a]}

(* fw_printenv: values found in a valid copy, else the built-in defaults.  *)
Printenv == LET texts == InEnv(flash) \cup InBackup(flash)
            IN IF texts = {} THEN {Default} ELSE {t.kept : t \in texts}

NoCommand == [mode |-> "none", img |-> NoVersion, env |-> "preserve",
              backup |-> TRUE, quiet |-> TRUE]
NoTar == [state |-> "none", uboot |-> <<>>, env |-> [base |-> NoVersion, kept |-> Default]]
Torn == [NoTar EXCEPT !.state = "torn"]

Init ==
  /\ \E v \in Versions, t \in EnvTexts, copied \in BOOLEAN :
       /\ Len(Image[v]) = ReadLen
       /\ flash = [a \in Addr |->
            IF a \in EnvBlks THEN EnvBin[t][a]
            ELSE IF a \in BkBlks /\ copied THEN EnvBin[t][a - BkLo + EnvLo]
            ELSE IF a \in Boot THEN Image[v][a] ELSE Erased]
  /\ tar = NoTar /\ dirty = FALSE
  /\ cmd = NoCommand /\ file = <<>> /\ env = NoTar.env /\ snap = <<>>
  /\ dev = "uboot" /\ at = 1 /\ index = 0
  /\ updated = FALSE /\ runs = 0 /\ advice = FALSE /\ flash0 = flash
  /\ pc = "off" /\ bar = FALSE /\ code = NoCode

(* sys.exit(c): the interpreter joins the non-daemon progress-bar thread,  *)
(* so a process whose bar still runs never terminates.                     *)
Leave(c, b) == /\ pc' = IF b THEN "hung" ELSE "exited"
               /\ code' = c /\ bar' = b

Goto(l) == pc' = l /\ UNCHANGED <<bar, code>>

(* A process starts; argument errors (exit code 2) end before any state.   *)
Invoke(c) ==
  /\ pc \in {"off", "exited"} /\ runs < MaxRuns
  /\ FollowsAdvice /\ advice => c.mode = "rollback"
  /\ pc' = "load" /\ cmd' = c /\ runs' = runs + 1 /\ flash0' = flash
  /\ file' = <<>> /\ env' = NoTar.env /\ snap' = <<>>
  /\ dev' = "uboot" /\ at' = 1 /\ index' = 0
  /\ bar' = FALSE /\ code' = NoCode /\ updated' = FALSE
  /\ UNCHANGED <<storeVars, advice>>

(* FirmwareTarball and check_firmware; not for -f and -b.                  *)
LoadTarball ==
  /\ pc = "load"
  /\ \/ Goto("confirm")
     \/ /\ cmd.mode = "upgrade"
        /\ \E c \in {INVALID_FIRMWARE, FAILED, UNCAUGHT} : Leave(c, FALSE)
  /\ UNCHANGED <<storeVars, jobVars, loopVars, ghostVars>>

(* The y/N questions before the update and before a rollback.              *)
Confirm(from, to) ==
  /\ pc = from
  /\ Goto(to) \/ (~cmd.quiet /\ Leave(CANCELED, FALSE))
  /\ UNCHANGED <<storeVars, jobVars, loopVars, ghostVars>>

(* Mutant: the preserved values are never put back.                        *)
AssembledDropsKept(text) == {text}

(* generate_env_firmware: the defaults, with preserved values put back.    *)
Assembled(text) ==
  IF cmd.env = "reset" THEN {text}
  ELSE {[text EXCEPT !.kept = k] : k \in Printenv}

OpenForce ==
  /\ pc = "open" /\ cmd.mode = "force"
  /\ file' = Image[cmd.img] /\ Goto("attempt")
  /\ UNCHANGED <<storeVars, cmd, env, snap, loopVars, ghostVars>>

(* Mutant: the meaning of -n is inverted.                                  *)
OpenPackageInverted ==
  /\ pc = "open" /\ cmd.mode = "upgrade"
  /\ file' = Image[cmd.img]
  /\ env' \in Assembled([base |-> cmd.img, kept |-> Default])
  /\ Goto(IF cmd.backup THEN "attempt" ELSE "read1")
  /\ UNCHANGED <<storeVars, cmd, snap, loopVars, ghostVars>>

OpenPackage ==
  /\ pc = "open" /\ cmd.mode = "upgrade"
  /\ file' = Image[cmd.img]
  /\ env' \in Assembled([base |-> cmd.img, kept |-> Default])
  /\ Goto(IF cmd.backup THEN "read1" ELSE "attempt")
  /\ UNCHANGED <<storeVars, cmd, snap, loopVars, ghostVars>>

OpenRollback ==
  /\ pc = "open" /\ cmd.mode = "rollback" /\ tar.state = "full"
  /\ file' = tar.uboot /\ env' \in Assembled(tar.env)
  /\ Goto("confirm2")
  /\ UNCHANGED <<storeVars, cmd, snap, loopVars, ghostVars>>

(* No archive; an archive tarfile or json.load cannot read; fw_printenv    *)
(* failing (its None is then iterated); no env partition found.            *)
OpenFails ==
  /\ pc = "open" /\ cmd.mode # "force"
  /\ IF cmd.mode = "rollback" /\ tar.state # "full"
     THEN Leave(IF tar.state = "none" THEN ROLLBACK_FAILED ELSE UNCAUGHT, FALSE)
     ELSE \/ cmd.env = "preserve" /\ Leave(UNCAUGHT, FALSE)
          \/ /\ "io" \in Faults
             /\ Leave(IF cmd.mode = "rollback" THEN ROLLBACK_FAILED ELSE FAILED, FALSE)
  /\ UNCHANGED <<storeVars, jobVars, loopVars, ghostVars>>

-----------------------------------------------------------------------------
(* backup(): the boot partitions are read twice and must agree; then the   *)
(* archive is created ('w') and the environment and the configuration are  *)
(* appended ('a'), in the order of FIRMWARE_TYPES.                         *)
BackupFirstRead ==
  /\ pc = "read1" /\ pc' = "read2" /\ bar' = TRUE
  /\ snap' \in ReadsOf(1)
  /\ UNCHANGED <<storeVars, cmd, file, env, loopVars, ghostVars, code>>

(* Mutant: the digests of the two reads are not compared.                  *)
BackupSecondReadUnchecked ==
  /\ pc = "read2" /\ Goto("tar_uboot")
  /\ snap' \in ReadsOf(2)
  /\ UNCHANGED <<storeVars, cmd, file, env, loopVars, ghostVars>>

BackupSecondRead ==
  /\ pc = "read2"
  /\ \E r \in ReadsOf(2) : IF r = snap THEN Goto("tar_uboot")
                                      ELSE Leave(BACKUP_FAILED, FALSE)
  /\ UNCHANGED <<storeVars, jobVars, loopVars, ghostVars>>

SaveTar(new) == tar' = new /\ dirty' = ("power" \in Faults) /\ UNCHANGED flash

BackupUboot ==
  /\ pc = "tar_uboot" /\ Goto("tar_env")
  /\ SaveTar([NoTar EXCEPT !.state = "uboot", !.uboot = snap])
  /\ UNCHANGED <<jobVars, loopVars, ghostVars>>

BackupEnv ==
  /\ pc = "tar_env" /\ Goto("tar_conf")
  /\ SaveTar([tar EXCEPT !.state = "env", !.env = env])
  /\ UNCHANGED <<jobVars, loopVars, ghostVars>>

BackupConf ==
  /\ pc = "tar_conf" /\ pc' = "attempt" /\ bar' = FALSE /\ UNCHANGED code
  /\ SaveTar([tar EXCEPT !.state = "full"])
  /\ UNCHANGED <<jobVars, loopVars, ghostVars>>

(* What an interruption at this point can leave of the archive.            *)
Interrupted ==
  {tar} \cup (IF pc = "tar_uboot" THEN {NoTar, Torn}
             ELSE IF pc \in {"tar_env", "tar_conf"} THEN {Torn} ELSE {})

(* An OSError is caught, but its handler reads e.err, which OSError lacks; *)
(* an UpgradeError (flash cannot be opened) is exit code 3; a line of      *)
(* /etc/os-release that does not split in two raises with the bar running. *)
BackupFails ==
  /\ \/ /\ "io" \in Faults
        /\ pc \in {"read1", "read2", "tar_uboot", "tar_env", "tar_conf"}
        /\ \E t \in Interrupted : SaveTar(t)
        /\ \/ Leave(UNCAUGHT, FALSE)
           \/ pc \in {"read1", "read2"} /\ Leave(BACKUP_FAILED, FALSE)
     \/ /\ "osrelease" \in Faults /\ pc = "tar_conf"
        /\ Leave(UNCAUGHT, TRUE) /\ UNCHANGED storeVars
  /\ UNCHANGED <<jobVars, loopVars, ghostVars>>

-----------------------------------------------------------------------------
(* MtdDevice.write, called per partition: read a block, compare, erase,    *)
(* program.  env_default_binary is at its end when the second environment  *)
(* copy is written, so every block of env.backup is padded with 0xff.      *)
Last(d) == CASE d = "uboot" -> Len(file) [] d = "env" -> EnvHi [] OTHER -> BkHi
Want == CASE dev = "uboot" -> file[at]
          [] dev = "env" -> EnvBin[env][at]
          [] OTHER -> Erased

StartAttempt ==
  /\ pc = "attempt" /\ pc' = "write" /\ bar' = TRUE
  /\ dev' = "uboot" /\ at' = 1 /\ advice' = TRUE
  /\ UNCHANGED <<storeVars, jobVars, index, updated, runs, flash0, code>>

AtBlock == pc = "write" /\ at <= Last(dev) /\ at \in Addr

SkipBlock ==
  /\ AtBlock /\ flash[at] = Want
  /\ at' = at + 1
  /\ UNCHANGED <<storeVars, jobVars, dev, index, ghostVars, pc, bar, code>>

(* Mutant: equal blocks are erased too.                                    *)
EraseBlockAlways ==
  /\ AtBlock
  /\ flash' = [flash EXCEPT ![at] = Erased] /\ Goto("program")
  /\ UNCHANGED <<tar, dirty, jobVars, loopVars, ghostVars>>

EraseBlock ==
  /\ AtBlock /\ (flash[at] # Want \/ "glitch" \in Faults)
  /\ flash' = [flash EXCEPT ![at] = Erased] /\ Goto("program")
  /\ UNCHANGED <<tar, dirty, jobVars, loopVars, ghostVars>>

ProgramBlock ==
  /\ pc = "program" /\ Goto("write") /\ at' = at + 1
  /\ \E d \in {Want} \cup (IF "badwrite" \in Faults THEN {Bad} ELSE {}) :
       flash' = [flash EXCEPT ![at] = d]
  /\ UNCHANGED <<tar, dirty, jobVars, dev, index, ghostVars>>

(* Mutants: one attempt too many; a retry that is not counted; a retry     *)
(* that takes the backup again.                                            *)
AttemptFailsLate(c, b) ==
  /\ UNCHANGED <<storeVars, jobVars, dev, at, ghostVars>>
  /\ IF cmd.mode # "rollback" /\ index <= 3
     THEN index' = index + 1 /\ pc' = "attempt" /\ bar' = b /\ UNCHANGED code
     ELSE UNCHANGED index /\ Leave(c, b)
AttemptFailsUncounted(c, b) ==
  /\ UNCHANGED <<storeVars, jobVars, dev, at, index, ghostVars>>
  /\ IF cmd.mode # "rollback" /\ index <= 2
     THEN pc' = "attempt" /\ bar' = b /\ UNCHANGED code
     ELSE Leave(c, b)
AttemptFailsBacksUp(c, b) ==
  /\ UNCHANGED <<storeVars, jobVars, dev, at, ghostVars>>
  /\ IF cmd.mode # "rollback" /\ index <= 2
     THEN /\ index' = index + 1 /\ bar' = b /\ UNCHANGED code
          /\ pc' = IF cmd.backup /\ cmd.mode = "upgrade" THEN "read1" ELSE "attempt"
     ELSE UNCHANGED index /\ Leave(c, b)

(* update() raised: four attempts in all, but a rollback has only one.     *)
AttemptFails(c, b) ==
  /\ UNCHANGED <<storeVars, jobVars, dev, at, ghostVars>>
  /\ IF cmd.mode # "rollback" /\ index <= 2
     THEN index' = index + 1 /\ pc' = "attempt" /\ bar' = b /\ UNCHANGED code
     ELSE /\ UNCHANGED index
          /\ IF c = FLASHING_FAILED THEN pc' = "prompt" /\ code' = c /\ bar' = b
                                    ELSE Leave(c, b)

(* FirmwareUpdate.update stops the bar and raises FLASHING_FAILED;         *)
(* ForceUpdate.update lets the error of write() and read() through.        *)
DeviceFails == IF cmd.mode = "force" THEN AttemptFails(FAILED, TRUE)
                                     ELSE AttemptFails(FLASHING_FAILED, FALSE)

(* An erase, open, read or write error, or a binary larger than the flash. *)
WriteFails ==
  /\ pc \in {"write", "program"} /\ at <= Last(dev)
  /\ "io" \in Faults \/ at \notin Addr
  /\ DeviceFails

PartitionWritten ==
  /\ pc = "write" /\ at > Last(dev)
  /\ \/ dev = "uboot" /\ Goto("verify") /\ UNCHANGED <<dev, at>>
     \/ dev = "env" /\ Goto("write") /\ dev' = "env.backup" /\ at' = BkLo
     \/ dev = "env.backup" /\ Goto("verify") /\ dev' = "env" /\ UNCHANGED at
  /\ UNCHANGED <<storeVars, jobVars, index, ghostVars>>

(* Mutant: the digest of the bootloader is not looked at.                  *)
VerdictsBlind == IF dev = "uboot" THEN {TRUE}
                 ELSE {\A a \in EnvBlks : flash[a] = EnvBin[env][a]}

(* The outcomes of comparing the digests of the binary and of the flash.   *)
Verdicts ==
  IF dev = "uboot" THEN {r = file : r \in ReadsOf(1)}
  ELSE {\A a \in EnvBlks : flash[a] = EnvBin[env][a]}
       \cup (IF "glitch" \in Faults THEN {FALSE} ELSE {})

VerifyUboot ==
  /\ pc = "verify" /\ dev = "uboot" /\ cmd.mode # "force" /\ TRUE \in Verdicts
  /\ Goto("write") /\ dev' = "env" /\ at' = EnvLo
  /\ UNCHANGED <<storeVars, jobVars, index, ghostVars>>

(* The last firmware is verified: update() returns.                        *)
VerifyLast ==
  /\ pc = "verify" /\ (dev = "env" \/ cmd.mode = "force") /\ TRUE \in Verdicts
  /\ updated' = TRUE /\ advice' = FALSE
  /\ IF cmd.mode = "rollback"
     THEN Leave(ROLLBACK_SUCCESS, FALSE)
     ELSE pc' = "reboot" /\ bar' = FALSE /\ UNCHANGED code
  /\ UNCHANGED <<storeVars, jobVars, loopVars, runs, flash0>>

VerifyMismatch ==
  /\ pc = "verify" /\ FALSE \in Verdicts
  /\ AttemptFails(FLASHING_FAILED, FALSE)

(* Opening the flash fails: UpgradeError; reading it fails: uncaught.      *)
VerifyFails ==
  /\ pc = "verify"
  /\ \/ "io" \in Faults /\ DeviceFails
     \/ /\ "readio" \in Faults /\ Leave(UNCAUGHT, TRUE)
        /\ UNCHANGED <<storeVars, jobVars, loopVars, ghostVars>>

(* "Hit the Enter Key to Exit".                                            *)
HitEnter ==
  /\ pc = "prompt"
  /\ Leave(IF cmd.mode = "rollback" THEN ROLLBACK_FAILED ELSE code, bar)
  /\ UNCHANGED <<storeVars, jobVars, loopVars, ghostVars>>

(* "Reboot now?": an orderly reboot also writes back the page cache.       *)
Reboot ==
  /\ pc = "reboot"
  /\ \/ Leave(SUCCESS, FALSE) /\ UNCHANGED dirty
     \/ /\ ~cmd.quiet /\ pc' = "off" /\ code' = SUCCESS /\ UNCHANGED bar
        /\ dirty' = FALSE
  /\ UNCHANGED <<flash, tar, jobVars, loopVars, ghostVars>>

-----------------------------------------------------------------------------
(* The world around the tool: page-cache writeback, signals, power loss.   *)
Writeback ==
  /\ dirty /\ dirty' = FALSE
  /\ UNCHANGED <<flash, tar, jobVars, loopVars, ghostVars, pc, bar, code>>

Kill ==
  /\ "kill" \in Faults /\ pc \notin {"off", "exited"}
  /\ \E t \in Interrupted : SaveTar(t)
  /\ pc' = "off" /\ bar' = FALSE /\ code' = NoCode
  /\ UNCHANGED <<jobVars, loopVars, ghostVars>>

PowerLoss ==
  /\ "power" \in Faults /\ (pc \notin {"off", "exited"} \/ dirty)
  /\ tar' \in Interrupted \cup (IF dirty THEN {NoTar, Torn} ELSE {})
  /\ dirty' = FALSE /\ UNCHANGED flash
  /\ pc' = "off" /\ bar' = FALSE /\ code' = NoCode
  /\ UNCHANGED <<jobVars, loopVars, ghostVars>>

Open == OpenForce \/ OpenPackage \/ OpenRollback \/ OpenFails

Backup == \/ BackupFirstRead \/ BackupSecondRead \/ BackupUboot
          \/ BackupEnv \/ BackupConf \/ BackupFails

Write == \/ StartAttempt \/ SkipBlock \/ EraseBlock \/ ProgramBlock
         \/ WriteFails \/ PartitionWritten

Verify == VerifyUboot \/ VerifyLast \/ VerifyMismatch \/ VerifyFails

ToolStep ==
  \/ LoadTarball \/ Confirm("confirm", "open") \/ Confirm("confirm2", "attempt")
  \/ Open \/ Backup \/ Write \/ Verify \/ HitEnter \/ Reboot

Next == \/ \E c \in Commands : Invoke(c)
        \/ ToolStep
        \/ Writeback \/ Kill \/ PowerLoss

Spec == Init /\ [][Next]_vars

(* The process is scheduled and its user answers; faults are not fair.     *)
FairSpec == Spec /\ WF_vars(ToolStep)

-----------------------------------------------------------------------------
Pcs == {"off", "load", "confirm", "open", "confirm2", "read1", "read2",
        "tar_uboot", "tar_env", "tar_conf", "attempt", "write", "program",
        "verify", "prompt", "reboot", "exited", "hung"}

TarType == [state : {"none", "torn", "uboot", "env", "full"}, uboot : Seq(Data),
            env : [base : Versions \cup {NoVersion}, kept : Kept]]

StoreOK == /\ flash \in [Addr -> Data] /\ flash0 \in [Addr -> Data]
           /\ tar \in TarType /\ dirty \in BOOLEAN

JobOK == /\ cmd \in Commands \cup {NoCommand}
         /\ file \in Seq(Data) /\ snap \in Seq(Data)
         /\ env \in [base : Versions \cup {NoVersion}, kept : Kept]

ControlOK == /\ pc \in Pcs /\ dev \in {"uboot", "env", "env.backup"}
             /\ bar \in BOOLEAN /\ updated \in BOOLEAN /\ advice \in BOOLEAN

CountersOK == /\ at \in Nat \ {0} /\ index \in 0..3
              /\ code \in -1..8 /\ runs \in 0..MaxRuns

(* The states of the flash, the archive and the process.                   *)
TypeOK == StoreOK /\ JobOK /\ ControlOK /\ CountersOK

BootIs(f, g) == \A a \in Boot : f[a] = g[a]

(* When update() has returned (exit code 0, or the end of a rollback), the *)
(* boot partitions hold exactly the binary, of full length, and the env    *)
(* partition the assembled environment, whatever failed and was retried    *)
(* and although writing the bootloader overwrites the environment.         *)
FlashedAsReported ==
  updated /\ pc \in {"reboot", "exited"} =>
    /\ Len(file) = ReadLen /\ BootIs(flash, file)
    /\ cmd.mode # "force" => \A a \in EnvBlks : flash[a] = EnvBin[env][a]

(* Variables on the preserve list survive an update: a valid environment   *)
(* that the flash held when the tool started gives the value that the      *)
(* updated flash holds, although every attempt wipes the partition first.  *)
PreservedEnvSurvives ==
  updated /\ pc \in {"reboot", "exited"} /\ cmd.mode = "upgrade" /\ cmd.env = "preserve"
    /\ InEnv(flash0) \cup InBackup(flash0) # {} =>
    \E t \in InEnv(flash), t0 \in InEnv(flash0) \cup InBackup(flash0) :
       t.kept = t0.kept /\ t.base = cmd.img

(* An exit code that reports no flashing (backup failed, canceled, invalid *)
(* firmware) means that the flash is what it was when the tool started.    *)
UntouchedUnlessFlashing ==
  code \in {BACKUP_FAILED, CANCELED, INVALID_FIRMWARE} => flash = flash0

(* No block is erased by an update with backup before the archive is       *)
(* complete and holds what the boot partitions were when the tool started. *)
EraseAfterBackup ==
  flash' # flash /\ cmd.mode = "upgrade" /\ cmd.backup =>
    tar.state = "full" /\ BootIs(tar.uboot, flash0)
BackupBeforeErase == [][EraseAfterBackup]_vars

(* Once the boot partitions hold the new bootloader, no later step of the  *)
(* invocation, retries caused by the environment included, takes them      *)
(* apart again: equal blocks are neither erased nor programmed.            *)
KeepFlashedBoot ==
  pc \in {"write", "program", "verify", "attempt"} /\ file' = file
    /\ Len(file) = ReadLen /\ BootIs(flash, file) => BootIs(flash', file)
BootStaysFlashed == [][KeepFlashedBoot]_vars

(* The device can always be repaired: its boot partitions hold a complete  *)
(* bootloader, or the rollback archive does.                               *)
Recoverable == Whole(flash) \/ (tar.state = "full" /\ Whole(tar.uboot))

(* Every invocation, forced and interrupted ones included, comes to an end *)
(* under every fault: it exits, or it has decided to exit with an exception*)
(* nobody caught (a failing read at the verification, a strange line in    *)
(* os-release) or after the last attempt of a forced update, and only the  *)
(* progress bar still keeps its process.  No fault makes it retry forever. *)
Terminates ==
  pc = "load" ~> \/ pc \in {"off", "exited"}
                 \/ pc = "hung" /\ (code = UNCAUGHT \/ (cmd.mode = "force" /\ code = FAILED))

-----------------------------------------------------------------------------
(* What the tool's texts say and the code does not do.                     *)

(* Help text of -b: a completed rollback leaves "the version before the    *)
(* upgrade", that is, some complete bootloader.                            *)
RollbackRestoresVersion ==
  pc = "exited" /\ updated /\ cmd.mode = "rollback" => Whole(flash)

(* EnvFirmware.write loops over env and env.backup: both copies hold the   *)
(* assembled environment after an update.                                  *)
BothEnvCopiesWritten ==
  pc = "reboot" /\ cmd.mode = "upgrade" => env \in InEnv(flash) \cap InBackup(flash)
=============================================================================
