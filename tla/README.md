# Verification of the IOT2050 run-time software

This directory holds TLA+ models of the programs that meta-iot2050 puts on the
device: what they do to the flash, to the logs, to the extended-IO controller,
to configuration files and in the configuration web page, step by step, with everything that may go wrong
between two steps. TLC checks small instances of every model; TLAPS proves the
most important statements for every value of the constants.

Most of the repository is build configuration (Isar recipes, kernel patches,
kas files). The programs of its own are under `recipes-app`, `recipes-core`
and `recipes-bsp`; they are the inventory below.

## 1. Inventory

| component | state | operations | interacts with |
|---|---|---|---|
| **firmware update tool** `iot2050-firmware-update.tmpl` | OSPI flash, rollback archive `rollback_backup_fw.tar`, its own control flow | update from a tarball, forced update of the bootloader, rollback; backup, erase, program, verify, retry | flash drivers, `fw_printenv`, the user, reboot |
| **event recorder** `iot2050-event-record.py`, `-serve.py` | journal, queue of the server's single worker, lists and lines of each thread | read/write an event, copy controller events, power-ups and sensor alarms | eiod (gRPC), journald, proximity D-Bus service, systemd |
| **extended-IO manager** `iot2050-eio-service.py` and its modules, command line tool, monitor, time sync | worker queue, controller mode and configuration, SPI flash of the controller | deploy, retrieve, firmware check, firmware update, time sync, read events | files of the extended-IO file system, libflashrom, clients over gRPC |
| **extended-IO configuration conversion** `iot2050_eio_config.py` and its schemas | none | schema and semantic checks, YAML to blob and back | used by eiod |
| **configuration web UI** `iot2050-conf-webui` | the list of slots and the list last rendered, the open tab, the alert, outstanding calls; per slot the configuration with its dependent selections | choose a module, change an entry, import and export a file, deploy, retrieve | eiod (gRPC) through the routes of its web server, other clients |
| **serial mode switch** `switchserialmode` (C) | configuration block of the CP2102N or of the OMAP UART, GPIO lines of the transceiver | set mode, times, termination; display | libusb, gpiod; called by the board configuration |
| **board configuration** `iot2050setup.py`, `board-bootup-conf.py`, `json_ops.py` | `board-configuration.json`, one copy per menu, pins | menus of the set-up tool, application at boot | switchserialmode, mraa |
| **eMMC installation** `install-on-emmc.sh`, `regen-rootfs-uuid.sh` | eMMC content, partition UUID, boot script, enabled units | button protocol with time-out, copy, new UUID | systemd, GPIO |
| **update acknowledgement** `complete_update.sh`, `patch-u-boot-env.sh` | boot-loader environment | acknowledge a tentative update, patch the environment once | EFI Boot Guard |
| **UEFI variable helper**, **module firmware update**, **proximity driver**, **OTP commands** | none that lasts | see PROJECT.json | |

Behaviour that is hard to get right, per component, is listed line by line
under "hazards" in PROJECT.json. The groups are:

* *firmware update*: erasing before programming, four attempts, a rollback
  archive that is replaced on every run, an environment that the bootloader
  image overwrites, exceptions with a second thread running;
* *events*: three processes that crash and restart independently, copying
  that has no transaction between "what is recorded" and "record", lines that
  are equal to each other;
* *extended IO*: three-file protocol without undo, one worker for everything,
  a flash of which one part must survive every failed attempt;
* *web UI*: what one entry offers depends on others, and check boxes that become
  disabled are cleared by effects after the rendering; configurations that come
  from the device or a file replace all of it at any moment; the page edits the
  list of its last rendering in place while calls are outstanding; answers
  overlap, get lost or are no JSON; the rules of the pages and those of the
  server are written down twice;
* *serial mode and board configuration*: integer widths, a checksum used as a
  change test, several copies of one file, an unchecked child process;
* *installation*: a shell script with a timer process, signals and a reboot
  that takes effect later.

What makes each component correct:

* firmware update: a device can always be repaired; exit codes tell the
  truth; no erase before the backup; preserved variables survive; an invocation ends
  but for named causes, and its retries never undo progress;
* events: nothing is recorded that did not happen, nothing twice, one
  power-up per boot time, every event in the end;
* extended IO: a deployment answered with OK is in effect, the controller is
  never left in configuration mode by a request, the reserved flash partition
  survives everything, "OK" for an update means a verified flash;
* web UI: what the pages let through the server accepts but for named causes, what
  was deployed comes back as it was shown, a selection shows what it offers; an alert that says
  success means that the device has the list, and every answer is told;
* serial mode: after a successful call controller and transceiver are in the
  requested mode with the requested times;
* board configuration: what was saved is what is applied at the next boot,
  one menu does not undo the other;
* eMMC installation: nothing is overwritten without the button having been
  pressed and held, an interrupted installation is recognised.

## 2. Modules

| module | content |
|---|---|
| `FirmwareUpdate` | the firmware update tool, its flash, archive, exit codes and faults |
| `SafeUpdate` | abstract: the flash may only be damaged while a complete archive exists |
| `FirmwareUpdateRefinement` | the mapping from the tool to `SafeUpdate` |
| `EventRecord` | event-serve, event-record, eiod's event file, systemd |
| `EventLog` | abstract: a log that holds no event more often than it happened |
| `EioManager` | eiod, its clients, the controller and its SPI flash |
| `SerialMode` | switchserialmode, controller and transceiver, overlapping calls |
| `BoardConf` | the configuration file, the set-up tool's menus and threads, the boot service |
| `ConfText` | mappings between the texts of the web pages and the codes of the device |
| `SmAnalogInput`, `SmRtd`, `SmDigital`, `SmEnergyMeter` | per family of modules: defaults, dependent entries, effects, both conversions, what eiod accepts |
| `SlotPanel` | one slot of the web page: the module chosen, its tab, every handler, configurations loaded into it |
| `WebUi` | the page with all slots, its calls, the web server's routes, other clients of eiod |
| `FirmwareUpdateProofs`, `EventRecordProofs`, `EioManagerProofs`, `SerialModeProofs`, `BoardConfProofs`, `SlotPanelProofs`, `WebUiProofs` | theorems about the module of that name (TLAPS) |
| `SlotExportProofs` | the conversions of a slot are inverse to each other, and when exactly the server refuses what the pages allow (TLAPS) |
| `MC...` | small instances of the above, one `.cfg` per question |

Operators named after another one with a suffix (`NewLinesAll` beside
`NewLines`) and commented "Mutant" are variants with a plausible bug; nothing
in `Next` uses them. Put in the place of the original they make a property
fail, which shows that the property depends on that piece of code.
PROJECT.json names the pairs, and "map" gives the source lines of every
definition.

## 3. How the modules correspond to the code

**FirmwareUpdate.** A block of the flash is one element of `flash`; a partition
is an interval of blocks. The position of the Python program is `pc`: argument
check and tarball (`load`), the two y/N questions, the assembling of the
environment (`open`), the two reads of the backup, the three `tarfile` calls,
one attempt (`write`/`program`/`verify` per partition, block by block), the
final prompt and the reboot question. Exceptions are edges: `AttemptFails` is the
`except` of the retry loop, `Leave` is `sys.exit` with the exit code of
`ErrorCode`, or 1 for an exception nobody catches. The progress-bar thread is
`bar`; a process that exits while it runs stays (`hung`). The archive is none,
torn, or one of its three stages. Kill and power loss may happen between any
two steps; what is still in the page cache (`dirty`) is lost with the power.
`fw_printenv` answers with what a valid copy of the environment in the flash
holds, otherwise with its built-in default.

**EventRecord.** The two threads of event-record and its main thread each have
a `pc` and at most one outstanding call; event-serve's single worker is
`queue`, handled from its head. The journal is a count per text, because the
code never looks at more than whether a text is there. Lines of the
controller's event file are counted as well, and a round of the copying takes
the lines whose text is not in the list read at its beginning. `Restart=` of
the units is in `RestartRecord` and `ServeRestart`; requests of a process that
is gone stay in the queue as those of an orphan. The text of a power-up is the boot
time, which the kernel derives from the clock: `btime` is what `psutil.boot_time()`
returns now, it changes when the clock is set (`SetClock`) and at a boot, two boots may
well have the same one, and `past` collects those there have been. `gaveUp` remembers
which threads have left something uncopied: no eiod was found, its file could not be
read, or an exception ended the copying.

**EioManager.** The worker's request is the head of `queue`; `step` says how
far it is. Deploying is `Validate`, `EnterConfigMode`, `WriteBlob`,
`LeaveConfigMode`, with an error possible between them that undoes nothing.
Updating is `ReadBack`, one `WriteBlock` per block, `Verify`. Python slices are
modelled with their clipping (`Slice`). A client asks for one thing at a time;
the command line tool first asks whether the firmware is current and then lets
its user decide. A configuration is a name; what the conversion does with it is
reduced to accepted, refused, raising.

**SerialMode.** One process per call: read the configuration and change it in
memory, enable the transceiver, two mode pins, the termination pin, write back, reset.
The reset line is pulled (`Reset`) and let go (`LetGo`) in two steps; a controller in
reset is not on the bus (`OnBus`), so a call that ends between the two leaves it
unreachable. `clean` says that a call met no error and no other call: a write that is
left out because the checksums agree is no error. `left` remembers this last case for a
call that set a mode and a time. The bits the
program changes are kept one by one, times are bytes, the 16-bit Fletcher sum
is computed over exactly these fields with their weights, so collisions happen
where they happen in the code. The `uint8_t` parameter the times pass through is the
`% 256` of `SetTimes`.

**BoardConf.** A pin operation is the sequence of calls its thread makes (one
function enabled, one pin set, the file saved), each a sequence of steps on the copy
of the Arduino menu, on the pins (mraa) or on the file, and threads interleave when one takes longer than the three seconds the menu
waits. The COM menu saves the terminator, then the mode, then calls
switchserialmode. The boot service goes through the pins in their order. `excused`
names why copy and pins may differ at present: "boot" when the boot found a group
without the member it is restored by, "stale" when the COM menu saved its copy after the
Arduino menu had changed a pin.

**SlotPanel** and the four `Sm...` modules. `conf` is what the React component
of the slot holds: the texts shown, what the dependent selections offer, the
check boxes. `Default(m)` is `onChangeModSelect`; `ToUI` and `ToDevice` are one
slot of `importYamlConfig` and `exportYamlConfig`, by the mapping tables of
`smConfigMapping`; `Accepted` is the module's JSON schema with the semantic
checks of eiod. A handler is an action built on `Edit`: it computes the new
configuration, and `Effects` then runs what React runs after the rendering, the
`useEffect` of every `CheckConfig`, which sets an entry to FALSE when it is
disabled, once when the page is mounted and again when "disabled" changes, but
not when only the value does. `Load` replaces the configuration as an answer or
a file does; the page stays mounted if the module is the same one. A number
entry is its relation to its bounds ("low", "frac", "mid", "over"): typed
numbers take effect at once (`EmType`) and are clamped when the entry loses
the focus (`EmBlur`). `loaded` remembers what kind of configuration was loaded
last: none ("no"), an ordinary one ("tame"), a legal one that sets entries which are
disabled, leaves open which of two ranges is meant, or is of a device for which the page
offers too much ("wild"), one that eiod would refuse ("bad"). The pages themselves make
configurations of the second and third sort: an RTD channel that is switched off with a
thermal range, a meter of version 32 or with a connection type that has fewer variants.
`Fraction` says that the numbers exported contain a fraction, `Leftover` that a
configuration loaded earlier has left an alarm on, a temperature coefficient or a data
variant that the types chosen since do not admit.

**WebUi.** `slots` is the state `configs`, `view` the list of the last rendering,
which the handlers see and edit in place; `Render` brings them together. A call
is sent, answered by the route ("ok", "error", or "garbled" when the route itself
fails and answers with no JSON), or lost, in which case nothing handles the
rejected promise. `device` is what eiod has written last, by this page or by
another client. `quiet` remembers that nothing else has happened since the last
click. A deployment whose connection was lost before the server came to it is a
`stray` one: the page has forgotten it, the server may still carry it out. A list with a
module in `Unreadable` is one of another client in which a member is missing that the
page reads: the retrieval shows its alert of success and `importYamlConfig` throws.

## 4. Runs

| run | instance | what it shows |
|---|---|---|
| `fwu_once` | two boot blocks, one block per environment copy, a complete package and a truncated one with another bootloader, one invocation in any mode and perhaps a rollback after it, all faults | preserved variables survive although each attempt wipes them; exit codes that report no flashing mean an untouched flash; nothing is erased before a complete archive; every invocation ends, or nothing but the progress bar keeps the process: after an exception that nobody caught, or after the last attempt of a forced update |
| `fwu_advice` | three invocations of an operator who keeps backups and rolls back after failure; I/O errors, silently bad cells, kills | a complete bootloader is always in the flash or in the archive; the tool implements `SafeUpdate`; a reported update is in the flash; no retry takes a verified bootloader apart |
| `fwu_rerun` | three invocations, operator free to update again after a failure | **violated**: the second update replaces the good archive by the damaged flash, and the rollback then "succeeds" |
| `fwu_envbackup` | one update, no faults | **violated**: `env.backup` is erased, never written |
| `event_all` | a controller event and a power loss, sensors, two boots, a clock that is set at any time, one crash of any process at any point, an eiod that is late, a file that cannot be read | nothing is recorded more often than it happened, one power-up per boot time, one alarm per opening; `EventLog` is implemented; every power loss known at a start and every other controller event is recorded in the end, unless its thread gave up |
| `eio_all` | command line tool and web UI, two requests each, all operations, failing and silently bad writes, crashes, reboots | deployments and updates answered with OK are in effect; the reserved flash partition survives everything; configuration mode is left unless an error cut the deployment short |
| `serial_calls` | two processes, three calls, three board types, all faults | after a clean call transceiver and termination are as requested whatever went wrong before, and the controller too unless the call also set a time and its write was left out; calls without times keep the times |
| `board_all` | pins of UART and of the shared I2C/ADC pins, two operations, two boots, all faults | what the menu shows is what the pins do, but for named exceptions; a boot restores what was saved |
| `board_lost` | mode selection and a pin operation, no faults | **violated**: the second menu saves its stale copy over the selected mode |
| `panel_all` | one slot, nine kinds of modules and none, every handler, thirteen configurations that may be loaded at any moment | eiod refuses what the pages let through exactly if there is a fraction in it or something left over from a loaded configuration; every text has a code; what is deployed comes back, with what was shown; a selection shows what it offers; disabled entries are FALSE but for the direction of the current; coupled channels agree; channel pairs have one type |
| `panel_disabled` | as `panel_all` | **violated**: on a new coupled meter a click on channel 0 switches on check boxes that are disabled |
| `page_all` | two slots, two calls that overlap, a file, another client, answers that are errors, garbled or lost, deployments that arrive late, lists the page cannot read, eiod stopping and starting | a list that was never loaded has no module behind an empty slot; "success" means the device has the list; whatever the server answers is told |

### Bounds and why they are enough

* *FirmwareUpdate*: the code treats blocks of one partition alike, so two boot
  blocks (one equal in all packages, one different: skip and write), one block
  per environment copy and one behind what is read back show every branch. One
  invocation sees every fault in every order, four attempts included, and leaves
  the archive that a rollback after it finds (`ThenRollback` admits no other second
  invocation); three invocations are the shortest history of update, failed update and
  rollback. The fault set of `fwu_advice` leaves out unreliable reads and failing reads at the
  verification (a loop of four attempts over two further outcomes per block makes
  the product too large); `fwu_once` has them, which matters for `Terminates`, and the
  theorems hold for all fault sets. `fwu_once` leaves out `-q`, with which the tool does
  nothing that it does not do without; `fwu_advice` has it.
* *EventRecord*: one crash can hit any point between two steps; two boots are needed
  for the power-up text of the second one, two boot times for a clock that is set
  between two looks at it. A line happens once in the run; lines that are equal to each other,
  which the code cannot tell apart, are in the theorems (`NeverTooMany`,
  `RecorderImplementsLog`), and so is any number of crashes and boots.
* *EioManager*: two clients to interleave, two accepted configurations to tell
  apart (symmetric, hence `SYMMETRY`: all properties of that run are about
  safety), four blocks for the three partitions.
* *SerialMode*: three calls so that a failed and an overlapping call precede a
  clean one. The stored times are 5 and 48 because a collision of the checksum
  with set-up 31, hold 5 in RS485 is then within reach. The two processes are
  symmetric (only safety is checked). The command lines are every mode without times, an
  unknown mode, the colliding one, and times without a mode of which one is above 255.
* *BoardConf*: two operations, each a complete thread with all its steps, of
  every kind the pins allow; a second boot sees everything the first tool run
  saved.
* *SlotPanel*: two analog inputs make one pair that shares a converter, RTD
  channels do not influence each other (one suffices), two outputs tell one from
  all, the meter needs its three channels because they are coupled. Its check boxes pass
  through one handler with the entry's name, and so do its numbers: followed are
  a check box that is copied between channels (`re_cur_dir`), one that is not, a
  number that is coupled, and one of the whole module. Of the long selections
  `McTried` has at least one text of every group that the code treats
  differently. `FewChanges` limits how many entries that nothing depends on differ from a
  new module's at the same time (two for the meter, one in the other modules,
  one fewer after loading); everything that other entries depend on (types,
  ranges, versions, connection types) is free.
* *WebUi*: two slots make a hole possible, and three edits are what it takes to make
  one: fill both, empty the first; the theorems hold for any number of slots. Two calls
  overlap in every order. The module "odd" comes from the other client alone, and the page
  cannot read it. No module is refused by itself here (`Refused = {}`); lists with a hole are, and any deployment may
  be answered with "error".

Deadlock is checked in `panel_all`, `panel_disabled` and `page_all`. Elsewhere it is not: every
bound on requests, crashes or boots lets a model come to rest when it is used up,
and a process that has ended is a legitimate final state.

### Fairness

`FirmwareUpdate!FairSpec` has weak fairness of the tool's own steps: the
process is scheduled and its user answers questions. Faults, kills and new
invocations are not fair. `EventRecord!FairSpec` has weak fairness of the two
copying threads (the sensor thread may stop for good), of the server's worker, of the restarts systemd promises in the unit
files and of eiod's start. It also assumes strongly that a read of the event
file, repeated every five seconds, sees a given line at some time; a file that
can never be read has no events to copy. Nothing in it assumes that a call
succeeds: where the code gives up for good, `LossRecorded` and `EioRecorded` say so
(`gaveUp`) instead of a fairness that would exclude it. `WebUi!FairSpec` has weak fairness of the server's answer and of the
page's handlers, per call: a request that stays with the server is answered,
an answer that has come is handled. Lost connections and eiod's stopping
and starting are free, the user is too.

## 5. Proofs

`FirmwareUpdateProofs` proves for every flash layout, set of packages, fault
set and number of invocations admitted by the four assumptions of
`FirmwareUpdate` (`LayoutAssumption`: the environment partitions lie in order
within the part that is read back; `DataAssumption`: blocks of packages are
block contents; `NoiseAssumption`: unreliable reads differ from each other and
from what is written; `EnvironmentAssumption`: the types of the remaining
constants):

| theorem | states |
|---|---|
| `TypeCorrect` | `Spec => []TypeOK` |
| `ReportsTruly` | `Spec => []FlashedAsReported` |
| `RefusalsAreHarmless` | `Spec => []UntouchedUnlessFlashing` |
| `BackupComesFirst` | `Spec => BackupBeforeErase` |
| `AlwaysRecoverable` | under `Disciplined`, `Spec => []Recoverable` |

The invariants stack. `TypeOK` is not inductive: that `ProgramBlock` stays within
the flash needs `at <= Last(dev)`, that an archive can be loaded needs to know what
each of its stages contains; these facts are `Position`, and `TInv` is both
together. `JInv` adds what one invocation knows: the flash is untouched until
the first attempt, the second read of the backup proves the first one true
(unreliable reads differ), an archive taken in this invocation covers the
original bootloader while it is being erased, and the bootloader stays in
place while the environment is written because the environment partitions are
disjoint from `Boot`. `RInv` relates invocations: while no flashing is
unfinished the flash is whole, otherwise the archive is full, and what is in an
archive is whole. It needs `Disciplined`: the operator keeps backups and rolls
back after a failure, forced updates are not used, the power does not fail.
Each of these conditions is needed: `fwu_rerun` shows what happens when one
updates again, a forced update takes no backup, and after a power loss an
archive that was still in the page cache is gone.

There is one lemma per action of `Next` and invariant, one step per conjunct
that the action can disturb.

On these invariants build:

| theorem | states |
|---|---|
| `ToolIsSafe` | under `Disciplined`, `Spec => ImplementsSafeUpdate`, the refinement |
| `PreservedVariablesSurvive` | `Spec => []PreservedEnvSurvives` |
| `FlashedBootStays` | under `SteadyFlash`, `Spec => BootStaysFlashed` |

The refinement follows the few steps that write the flash or the archive
(`FlashWriters`, `ArchiveWriters`): while flashing, the archive is full and whole, so an
erased or programmed block is a `Damage` or an `Install`; while saving, the device is whole
and untouched, so a new archive is a `Save` and an abandoned one a `Drop`.
`EnvKept` carries the environment that was assembled, with a value read from the
flash before the update, from `OpenPackage` to the reboot. `SteadyFlash` excludes
the two ways in which a retry touches a block that was right already: a wrong read
makes an equal block look different, so it is erased again; and a bad cell can fail
when a block whose content reads like an erased one is programmed, which needs an image
with such a block in its boot partitions. The second is why the theorem goes through `RInv` when
`badwrite` is among the faults: what a rollback writes is then an image of a package too.

`EventRecordProofs`, for any lines, faults, restarts and boots (`EventAssumption`):

| theorem | states |
|---|---|
| `RecorderTypeCorrect` | `Spec => []TypeOK` |
| `NeverTooMany` | `Spec => []NoMoreThanHappened` |
| `OneUpPerBootTime` | `Spec => []OnePowerUpPerBootTime` |
| `OneReportPerOpening` | `Spec => []UncoveredOncePerOpening` |
| `RecorderImplementsLog` | `Spec => ImplementsEventLog`, the refinement |

`TInv` (`QueueInv`, `ThreadInv`, `WorldInv`) gives the types: a thread that waits
has exactly one request with the server and no other thread has one. `CopyInv`
says why nothing is recorded twice although reading and recording are two calls
and either side may be killed between them: at most one write of a text is
queued (`OneWrite`), what is logged, queued and still to be written of a line
is not more than happened (`LinesLeft`, `UpsLeft`), and an entry missing in a list that was
read is neither in the log nor queued behind that read (`ListFresh`,
`LossesFresh`, `ListComplete`). The theorem on power-ups counts texts: a clock that is set between two starts of the
recorder costs a second entry for the same boot, never an equal one. `CoverInv` counts logged and queued reports together with
the chance left to a recorder that has not seen the open cover. The refinement follows
from them, because the only step that changes the log is the worker's
(`LogStep`).

`EioManagerProofs`, for any clients, files, images, slots and faults:

| theorem | states |
|---|---|
| `ManagerTypeCorrect` | `Spec => []TypeOK` |
| `ConfigModeIsOwned` | `Spec => []ConfigModeOwned` |
| `DeploymentsTakeEffect` | `Spec => DeployedAsReported` |
| `ReservedSurvives` | under `SoundFiles`, `Spec => []ReservedPreserved` |
| `UpdatesAreComplete` | under `SoundFiles`, `Spec => UpdatedAsReported` |

`QueueInv` and `WorkInv` follow a request from its client through the queue and the
worker, `AnswerSlots` to its answer; `FlashInv` relates the image in work to the flash
block by block, `ReservedInv` the reserved partition in both. `SoundFiles` says
that firmware files have their full length and that a failing read is seen to
fail; section 6 says what happens without.

`SerialModeProofs`, for any number of processes, command lines and stored times:

| theorem | states |
|---|---|
| `SerialTypeCorrect` | `Spec => []TypeOK` |
| `LastModeInForce` | `Spec => []ModeInForce` |
| `TimesAreKept` | `Spec => TimesKept` |

`ModeInForce` says that after clean calls transceiver and termination are as asked for last
and that a controller with a reset line works with what it stores; that it is in the mode
asked for, unless the last call that set a mode also set a time and its write was left out
(`left`; section 6 has an example, which `serial_calls` contains). `ModeInv` follows the only
clean call through its steps (`Reached`). Its arithmetic part is `Collision`: when two configurations have the same 16-bit sum, and the write is left
out, the mode bits are the same, because what they contribute modulo 255 cannot be
made up for by the other fields of a call without times.

`WebUiProofs`, for any number of slots, modules, files and overlapping calls:

| theorem | states |
|---|---|
| `PageTypeCorrect` | `Spec => []TypeOK` |
| `ChoosingLeavesNoHole` | `Spec => []HolesOnlyAfterLoading` |
| `SuccessIsTrue` | `Spec => []SuccessMeansInSync` |

`ChosenByHand` adds to the second that the rendered list has no hole either and
that the tab shown stays enabled; `LastCallAlone`, for the third, follows the only call in flight from its click to the alert. The success of a deployment means
that the device has the list, that of a retrieval the same unless the page could not read
the list (`Unreadable`).

`SlotPanelProofs`, for any numbers of channels, any tried values and any
configurations that are loaded:

| theorem | states |
|---|---|
| `TypeCorrect` | `Spec => []TypeOK` |
| `SharedConverter` | `Spec => []PairsSameType` |
| `DisabledIsOff` | `Spec => []DisabledOffButDirection` |
| `SelectionsOfferWhatTheyShow` | `Spec => []ShownIsOffered` |
| `ChannelsFollow` | `Spec => []CoupledChannelsFollow` |

All of them follow from `PanelInv` (`PagesKeepTheirRules`). It says that a slot is
typed (`SlotTyped`) unless a configuration was loaded that no schema takes; that the
page of a new module, or of one that was retrieved with no peculiarities, keeps its
rules (`SlotRules`): a selection offers exactly what the entries it depends on leave,
what it shows is among that, disabled entries are off but for the direction of the current; that the numbers are within
their bounds but for the one that is being typed and those that follow it
(`Numbers`); and that on a new module coupled channels follow. An edit alone breaks
these rules: a new type of a channel disables alarms that are on. Therefore each
family has a middle state (`AiEdited`, `RtdEdited`, `EmEdited`): what was disabled
*before* the edit is still off; and the lemmas `AiRendered`, `RtdRendered` and
`EmRendered` show that the effects, which act on what *becomes* disabled, restore
the rules. The number with the focus has to be one that can be set
(`~EmSliderDisabled` in `PanelInv`), otherwise typing would change a channel that
follows; leaving the entry corrects that number and, on a coupled meter, all that
follow it (`NumberSet`). For loaded configurations the types come from the schemas alone
(`Imported`), and so do the rules when there is nothing peculiar (`Tame`). `PanelInv` was
checked with TLC on the instance of `MCSlotPanel_all` before it was proved.

`DisabledOffButDirection` leaves `re_cur_dir` out because the code does not keep the
rule there; the whole rule is `DisabledFalseByEditing`, which `panel_disabled` violates.

`SlotExportProofs` adds what the conversions are to each other and to the schemas:

| theorem | states |
|---|---|
| `TextsHaveCodes` | `Spec => []ExportConvertible` |
| `DeployedIsRetrieved` | `Spec => []DeployedComesBack` |
| `SetIsRetrieved` | `Spec => []ShownComesBack` |
| `RefusalHasCause` | `Spec => []RefusedOnlyForCause` |

A mapping whose texts differ leads from a code to a text and back (`CodeReturns`),
one whose codes differ too from a text to a code and back (`TextReturns`). The
table for RTD channels that are off has codes twice; `OffRangeReturns` shows that the
two thermal ranges which `RangeLost` names are the only ones to get lost.
`RefusedOnlyForCause` says of every slot whose loaded configurations eiod had taken that
eiod takes what is exported if and only if there is neither a `Fraction` nor a `Leftover`
in it, and that on a new module, or after an ordinary configuration was loaded, there is
no leftover. Both directions occur in `panel_all`. The rules of the pages and of the
schemas are written down independently, and `RefusalHasCause` goes family by family from
one to the other: `AiIsTaken`, `RtdIsTaken`, `DigitalIsTaken` and `EmIsTaken` are
equivalences. Page and schema have tables of their own for what depends on what: that they
name the same coefficients for every thermal range is `CoeffsAgree`, that they admit
exactly the same variants for a version and a connection type `VariantsAgree`. That
nothing is left over on new modules is `RulesLeaveNothing`.

`BoardConfProofs`, for any number of threads, operations and boots, any faults,
and every pinmux map that is like the shipped one in what `BoardAssumption` and
`PinoutAssumption` say (a function belongs to one pin, no pin serves two buses, the
member by which the boot service restores a group is on the group's lowest pin;
`board-configuration.json:51` to `154`):

| theorem | states |
|---|---|
| `BoardTypeCorrect` | `Spec => []TypeOK` |
| `ShownIsSet` | `Spec => []PinsAsShown` |
| `BootAppliesFile` | `Spec => BootRestores` |

`PinsAsShown` names its four exceptions, each of which lasts until the next boot: an error
of mraa, overlapping operations, a boot that found a group without the member by which it
is restored, and a stale copy saved by the COM menu (`excused`). Whether a boot deserves
the exception is decided from the file alone, not from the pins it has set. The
property speaks of moments without a pin operation; `AInv` says what holds
within one: the calls before the first one of the list are done completely, and of
that one the copy or the pins still lack exactly the map of its second step
(`InStep`). That every operation is a list of such calls is `ProgramTypes`; for the
ones that go through the pins in their order it needs that a set of pins can be
listed in that order (`Listed`, by a least counterexample). For `BootRestores` the
pins behind the boot service are not simply right: a member of a group switches
pins before and after it. `Settled` says that a pin is right once the pin *that
restores it* has been passed; `RestoredRight` shows, from the order of the pins,
that whatever a member switches besides is either right already or still comes.

Model-checked only: liveness (`Terminates`, `EioRecorded`, `LossRecorded`,
`Answered`), which TLAPS does not prove under fairness. Every other property of a
passing run is a theorem.

## 6. Observations that no run states

The models also contain behaviour that is surprising but that no text of the
repository contradicts plainly.

* *Firmware update.* Exit code 1 means both a completed rollback and an
  uncaught exception. The environment in the archive is the newly
  assembled one, not the one before the update. With `-q` no rollback is offered
  after the last attempt. Nothing syncs the archive before the flash is erased.
  The progress bar outlives an exception that nobody catches, and the process with it:
  an ordinary update hangs when the backup or the verification meets an error
  that is not handled there, a forced update also when its last attempt fails.
  These are the two ways to `hung` that `Terminates` names.
* *Events.* A clock that is set between two starts of the recorder gives one boot a
  second power-up entry; two boots whose clock said the same have one entry together
  (`OnePowerUpPerBootTime` counts texts). An eiod that is up later than 15 seconds is taken for absent as long
  as event-record lives. A power loss that cannot be read at a start is looked
  for at the next one only. When event-serve dies while the controller's events
  are being copied, the copying thread ends with the exception of its call
  (`iot2050-event-record.py:122`); if it was the last one, the process exits with 0 and
  `Restart=on-failure` does not start it again. `EioRecorded` and `LossRecorded` except
  the thread that gave up (`gaveUp`).
* *Extended IO.* A firmware file that is too short is assembled at wrong
  offsets, because a Python slice does not fail; one garbled read of the reserved
  partition is written back for good. Both need a fault or an input that
  `eio_all` leaves out ("glitch", short images), and both do break
  `ReservedPreserved`. A stock firmware whose checksum does not match is written
  all the same when it is asked for without a file.
* *Web UI, pages.* A disabled entry is cleared when it becomes disabled, not
  when a configuration is loaded in which it is TRUE; such a configuration
  (legal, for one, with the open-wire alarm of a voltage input) is exported as it came. `re_cur_dir`
  of channel 0 is copied into channels that are disabled (`panel_disabled`), by a click and by a
  change from 0B to 0E; a change from 0C to 0E, however, switches it off there although channel
  0 has it on. On an RTD channel that
  is off the codes 2 and 3 of a range mean a resistance or a thermal element, and
  import takes the former; the temperature coefficients offered are then not
  recomputed, and neither are the data variants of a meter: a meter that was set to version 32
  or to connection type 0B or 10, deployed and retrieved, offers variants that the
  schema then refuses (`Leftover`). A fraction typed into a number entry stays after the focus
  has left it, and the schema refuses it, also on a new module (`Fraction`). `vt_second_vol` ends at 500 in the page and at 99999
  in the schema. A file for an SM1223 without substitute values makes the import throw
  (`Importable`).
* *Web UI, page.* The answer to a retrieval replaces what was edited since the
  click, and so does a file that has been read. A tab that is shown stays
  shown when a list is loaded in which it is disabled, and a module chosen
  there makes a hole, which eiod refuses
  (`iot2050_eio_config.py:598`). An answer of a failed retrieval is
  harmless only because `importYamlConfig` throws on it. A list in which another client
  has left out a member makes it throw too, after the alert has said success
  (`page.js:171`). A deployment whose connection was lost may still be carried out
  later, and may then undo a later one that was reported as successful. Nothing in an alert
  says to which of two overlapping calls it belongs. A rejected `fetch`
  shows no alert at all, and the gRPC calls of the routes have no deadline.
* *Serial mode.* A write that is left out because the checksums agree is no error: the exit
  code is 0 and nothing is printed (`cp2102n.c:217`). From RS232, set-up 5, hold 48 the
  call for RS485 with set-up 31, hold 5 switches the transceiver and leaves the
  controller in RS232; calls without times do not lose their mode that way
  (`ModeInForce`). The help offers the times as "u16" (`switchserialmode.c:61`), of which the low
  byte is stored. The exit code is 0 whatever happens to the pins. A call
  that is killed between the two edges of the reset line, or whose second edge fails,
  leaves the controller in reset, where every later call fails to find it until the device
  is power cycled.
* *Board configuration.* The file is truncated in place; a power loss at that moment
  leaves a file with which neither boot service nor tool starts. The terminator is
  saved before the question for the times, and cancelling there does not take it
  back. An operation of more than three seconds may overlap the next and leave pins and
  display apart, and the COM menu may save its copy over the pins that the Arduino menu
  has changed. The boot service restores the groups I2C, SPI and UART only by one of their
  members, and with UART_CTS it switches all four UART pins: when UART is enabled and the
  pin of that member, or another one of the four, is made GPIO, the next boot leaves pins
  unset or sets the GPIO pin to UART again, and the menu shows what is in the
  file. All of these are named exceptions of `PinsAsShown`.

## 7. Not modelled, and the plan

* *Configuration conversion* (`iot2050_eio_config.py`): what eiod accepts is in
  `SmAnalogInput` to `SmEnergyMeter` and, for the whole list, in `WebUi!Accepted`.
  Left is the packing of an accepted list into the blob and back, tables of offsets and bit
  fields without state; `RetrievedIsDeployed` for it would be a statement about
  these tables. `EioManager` takes a configuration as a name.
* *Time synchronisation, LEDs and broadcasts* of the extended-IO manager: one
  write of a file, no state that anything else depends on.
* *eMMC installation*: module `EmmcInstall` with the timer process and its signal,
  the button wait that also ends when gpiomon fails, the reboot that takes
  effect later, power loss during the copy, and the order of new UUID and boot
  script.
* *Update acknowledgement*: with the watchdog time-out of the boot loader.
* *Refinement of the conversion of requests between components*: `BoardConf` uses
  switchserialmode as one step; `SerialMode` has its inside. Composing them
  would show which selection survives overlapping calls.
* *Web UI*: layout, theme, wording, the start page and the table of a module's data
  keep no state that is deployed.
* The UEFI variable helper, the module firmware update and the
  proximity driver have no state of their own; OTP commands and image recipes run
  at build time.
