# Verification of the Sony common device code

TLA+ models, TLC runs and TLAPS proofs of the native code of
`device/sony/common`: the hardware libraries and services under `hardware/`.

## 1. The system

The repository is the common part of an Android device configuration. Most of
its files are make files, overlays and configuration. What runs is a set of
small native libraries and services:

| component | code (`src/hardware/`) | state it keeps | operations |
| --- | --- | --- | --- |
| failsafe boot update | `gpt-utils/gpt-utils.cpp` 145-1049 | on disk: two GPT headers and entries arrays per LUN, the UFS boot LUN | `prepare_boot_update(stage)` over every LUN |
| GPT editing | `gpt-utils/gpt-utils.cpp` 1056-1540 | `struct gpt_disk`: copies of headers and entries | `gpt_disk_get_disk_info`, `_get_pentry`, `_update_crc`, `_commit` |
| performance locks | `power/RQBalanceHALExt.cpp` | `current_locks`, `number_of_locks` | `PerfLockAcquire`, `PerfLockRelease` |
| power server | `power/Hints.cpp` 322-534, `Power.cpp`, `main.cpp` | a thread, `psthread_run`, `sock`, `clientsock` | `manage_powerserver`, `powerserver_looper`, `setInteractive` |
| power modes | `power/Hints.cpp` 187-311, `Power.cpp` 81-129 | `cur_pwrmode`, the driver's nodes | `SetPowerMode` and the hints that call it |
| power configuration | `power/expatparser.c`, `Hints.cpp` 460-497 | the mode being parsed, the depth, the parameters of each mode | `parse_xml_data` once per mode, expat callbacks |
| power statistics | `power/Power.cpp`, `power-helper.c` | none | readers of statistics files |
| client library | `librqbalance/rqbalance_ctl.c` | a connection per call | `send_powerserver_data` |
| battery backup | `health/*BackupRestore.cpp`, `HealthBoardCommon.cpp` | the fuel gauge's value, a file on `/persist`, copies in memory | `Restore` at the start, `Backup` at every update |
| lights | `liblights/Light.cpp`, `service.cpp` | `batteryState`, `notificationState`, `g_last_backlight_mode`; the nodes of sysfs | `setLight` for the backlight, the battery and notifications |
| polynomial regression | `../misc/libpolyreg/polyreg.c` | none | curve fitting |
| json-c, parser | `json-c/json_tokener.c` | `struct json_tokener`: a stack of levels, a print buffer, what was seen of a word, a number or an escape | `json_tokener_parse_ex` on one piece of a text after the other |
| json-c, values | `json-c/linkhash.c`, `json_object.c`, `arraylist.c`, `json_object_iterator.c` | a hash table with a list through it, an array that grows, reference counts | add, delete, get, put, and loops over the fields |

How they interact:

* An updater calls `prepare_boot_update(UPDATE_MAIN)`, writes the main copies of
  the boot images, calls `UPDATE_BACKUP`, writes the backup copies, and calls
  `UPDATE_FINALIZE`. The boot loader reads the tables at any reset, in whatever
  state they are then.
* The framework calls `Power` on one binder thread. `powerHint` and
  `setInteractive` set power modes; `setInteractive` also stops and starts the
  power server, whose thread, the looper, takes requests of other processes
  (through `librqbalance`) and turns them into performance locks, which set power
  modes again. So two threads write the modes and share three globals, with no
  lock.
* healthd calls `Restore` once and `Backup` for every battery update. The gauge
  may be reset at any reboot; `/persist` survives.
* The power HAL starts with a thread that loads the configuration, one parse of the file
  per mode, and sets the first mode; only then are there hints and locks.
* The light service answers on one binder thread (`service.cpp` has a pool of one), so
  its requests come one after the other, each a series of writes to sysfs. When it dies
  init starts it again, and the nodes keep what they had.
* json-c is a library: one tokener or object belongs to one thread, and its state lives
  from call to call.

What is hard: a reset between any two writes of the boot update, with LUNs and a
boot LUN switched one after the other; processes that edit one table without a lock;
the page cache; failing and short I/O; a
stage that is repeated after a failure; locks that are released in any order; a
server that is stopped in the middle of a request and started again, with file
descriptor numbers that are used again; writes of a backup that fail, and
resets of the gauge between them; a configuration that is parsed with the globals an
earlier parse has left; an LED that is set by up to eleven writes; a text that ends in
the middle of an escape and goes on in the next call; a table whose slots are freed and
reused while a loop is on its way through it. `PROJECT.json` lists these hazards line by line.

What makes each component correct:

* boot update: the device boots whole images at every moment; what a successful
  stage lets the caller write is not booted; the tables agree at the end; no fault
  leaves headers no later call accepts.
* GPT editing: a commit that succeeds leaves a table the boot loader accepts and changes what
  was edited only; what an interrupted or an overlapped one has left can be repaired.
* performance locks: a handle can be released; what is released is gone; the boost
  in force is that of a lock that is held; the table is not overrun.
* power server: one request at a time; each client its own reply; a stopped looper
  ends; a started one can be reached; descriptors are closed once.
* power modes: when all calls have returned, the driver has one mode.
* battery backup: the cycle count never goes back and the learned capacity never
  grows across resets, and the file does not fall behind.
* power configuration: a mode has the parameters the file gives it and no others.
* lights: the LED shows the request of highest priority; the display is in the mode
  asked for last; more brightness asked for is more brightness.
* json-c: however a text is cut its value is the same, and that of the grammar; an object
  is an ordered map; counts are exact; a loop comes to every field once.

## 2. The modules

Each module is one component, with the constants that set its size and its
environment. `<Name>_proofs` holds the proofs about `<Name>`, `GptUtils_proofs` those about
`BootUpdate` and `GptDisk`, and `MC<Name>` gives names to the values of the constants of a run. The history variables that some
properties need are marked as such in the declarations.

### FailsafeUpdate, BootUpdate, BootUpdateInv

`BootUpdate` is `prepare_boot_update`. Each of its actions ends with one write to a
block device, so that a fault can come between any two:

| action | code |
| --- | --- |
| `Call(s)` | entry of `prepare_boot_update` |
| `CheckStage` | reads both headers, works out the stage they are in, and refuses, returns at once or goes on |
| `SetBootLun` | `gpt_utils_set_xbl_boot_partition` |
| `ChainHeader`, `ChainEntries` | `gpt2_set_boot_chain`: secondary header, then secondary entries |
| `SetPrimary`, `SetSecondary` | `gpt_set_state` on either header |
| `ExitLun` | `EXIT`: `fsync`, `close`, and the loop over the LUNs (`NextLun`) |
| `OpenFails` | the device of a LUN cannot be opened: the loop goes on without an `fsync` |
| `IoError`, `ShortWrite` | a call that fails, or stores a part, in `blk_rw` |
| `Crash`, `Writeback`, `PowerLoss` | the caller is killed; the page cache; power is cut |
| `BeginWrite`, `EndWrite`, `NextUpdate` | the updater (outside the repository) |

A header is its signature, whether its CRC is right and the entries array that CRC
is of; an entries array is in the normal or the swapped order, or torn. `disk` is
what reads return, `media` what a power cut leaves. What may go wrong is
`faults`, one of the sets in `Faults`, chosen at the start of a behaviour;
`WritesWhole` says that it has no power cuts and no short writes. The updater keeps
the order of the stages and writes a copy only while the stage of that copy has returned 0.
An updater of policy `"restart"` may begin again from `UPDATE_MAIN` at any time, one
of policy `"forward"` repeats the stage it is at.

`FailsafeUpdate` is the promise: every image has two copies, one of which is booted;
images are switched only to whole copies and only copies that are not booted are
written. `BootUpdate` implements it with `boot[u]` mapped to the copy the boot loader
finds through the tables (`RefinesFailsafe`).

### GptDisk

Processes that edit one partition table, each through its own `struct gpt_disk`
(`handle`): `GetHeader` and `GetPentryArr` copy the primary table, `Edit` changes the
copy, `UpdateCrc` gives its header the CRC of its entries, `SetHeader` and `SetPentryArr`
are the two writes of `gpt_disk_commit`. A table is its entries and the entries its
CRC is of. `hdr_bak` and `pentry_arr_bak` are read from the primary table as well
(1393) and never written: their reads are steps, their values are left out. Nothing
excludes other processes between two steps. A process, which is outside the repository,
commits what it has edited and has updated the CRCs of, and may edit and commit again.
It may be killed at any step; a call may fail, and a commit store a part of the entries.
Four histories: `edited`, the entries a process has set; `stale`, that another has written since
it read its copy; `overtaken`, that another has written between its own two writes; `shorted`,
that its last write of the entries was a part of them.

### PerfLocks, HalExt, HalExt_proofs

`HalExt` is the lock table: `AcquireNew`, `AcquireFound`, `AcquireTimedNew`,
`AcquireTimedFound` and `Refuse` are the paths of `PerfLockAcquire`, `Release` and
`ReleaseZero` call `PerfLockRelease`. The three searches of the code compare only with the
newest entry, and a timer is never armed; the model has both. Clients keep positive
replies as handles and release each once. What they are like, `clients`, is one of
`Clients`, chosen at the start of a behaviour: the order of their releases, how many locks they
hold, whether they ask for times and release a 0. The model stops
when the entry behind the table is written, for what follows is undefined.
`PerfLocks` is the promise: a granted lock stays granted until it is released, a
release takes back that lock only. For `NestedClients` (newest lock released
first, no times, fewer locks than entries) `HalExt` implements it (`LocksKept`).

### PowerServer, PowerServer_proofs

The HAL thread (`HalStart` to `HalWritten`, `Sleep`, `Wake`), one looper per start
(`LooperReloop` to `LooperClose`) and the clients (`Connect`, `SendRequest`,
`Receive`). A step is one system call or one access to a shared global. `psthread_run`,
`sock` and `clientsock` are the globals of the code; `file` is the table of the
descriptors of the process, in which `socket()`, `accept()` and `open()` take the
lowest free number, `close()` frees whatever the number refers to now, and a blocked
call keeps its file alive. The C++ data races on the globals are taken as
sequentially consistent reads and writes. Requests are what `HalExt` models; here they
only set a mode, open and close a file of sysfs and have the client as their reply.
`Rush` says when the device may fall asleep during a request or a client may
call during a start or a stop: never; at any time, but the device wakes only when the
loopers have ended (`"ended"`); at any time. A request that is refused, or of a type
that sets no mode, is `LooperNoMode`. Two histories: `rushed`, that it did come so, and
`resumed`, that the device has been woken since.

### XmlConfig

The loading of the configuration: `BeginParse` and `EndParse` are
`parse_xml_data` for one mode, `startElm` and `endElm` the callbacks, `NoFile` and
`XmlError` its failures. `xml_depth`, `parse` and `main_node` are globals that a parse leaves
as they are when it fails. The file is a root with elements and their children; the value
of an attribute is the place where it stands. `Declared` says what the file means by
itself. expat is outside the repository; `expat` is where it is in the file: how many elements
are open, and which element and which child of it began last.

### PowerMode, PowerHal, PowerMode_proofs

`PowerMode` is `SetPowerMode` on two threads: the nine parameters of `rqb[mode]` written one by
one (`Write`), the limits of the CPUs in a loop that runs twice at most (`AfterCpus`), then
`cur_pwrmode` (`Return`). The driver is outside the repository: it refuses a maximum of CPUs below
the minimum in force and a minimum above the maximum, which is why the loop is there, and an
empty text leaves it as it is. `cpus_error` is read without having been set, and starts with either
value.

`PowerHal` puts it behind `XmlConfig`, whose `rqb` it writes: the init thread loads (`Load`), writes the
thermal limit and sets the balanced mode (`SetFirst`, `Starting`), and then the two threads call
(`Running`). `Meant` says what the file gives a mode, or that its parse failed, so that
`LoneCallApplies` goes from the file to the driver. The theorems about all three are in
`PowerMode_proofs`.

### Lights, Lights_proofs

`setLightBattery`, `setLightNotifications` and `setLightBacklight` turn a request into the
series of writes the code makes, `todo`; `Write` and `WriteFails` are one of them each, with
what the code does when the node cannot be opened (ignore it, switch the component off, end the
call) or refuses the value (ignore it, always). `Found` is the look for `rgb_blink`, which may fail
as well. `Die` is the end of the service at any time and its start by init; the LED's two
states are not initialized by the constructor, so that they start with any value. The
devices differ in `rgb_blink`, the range of the brightness and
`LOW_PERSISTENCE_DISPLAY`.

### JsonTokener, JsonTokener_proofs

`json_tokener_parse_ex`, one action per case of its switch: a state of the `enum`, what the
next character may be, what is done, and whether it goes on with this character (`Redo`)
or the next (`AdvanceChar`). `tok` is `struct json_tokener` with its stack of levels, but for
`char_offset` and `err`, which every call sets anew and which are variables of their own. `obj`,
`got_hi` and `case_len` are locals, which only live as long as a call. The caller
(`CallWhole`, `CallPiece`, `Again`) parses a text in one piece, then the same text in pieces cut
at any place, and goes on behind a value as `json_tokener.h` tells it to. Characters
are strings, of which the code's classes (blanks, digits, the letters of words, numbers and
escapes) have all their members but the vertical tab; numbers are integers, or known to be
doubles without their value. A text has no NUL before its last
character (`TextsAssumption`), as a string has none.

`JsonTokener_proofs` has each case once more, as a function of the tokener, the value of the level
that was left and the character (`CharStep`), and lemmas that each action does what its
function says (`CharMove`): what two parses of a text do can be compared with functions, not with actions.

### LinkHash, OrderedMap, JsonObject, JsonObject_proofs

`LinkHash` has the functions of `struct lh_table` as operators from a table to a table:
probing, freed slots, the load factor, growth, and the list through the entries. `JsonObject` is an
object on it, or an array on `arraylist.c`, with the counts of its values, a caller that owns
references, and loops over the fields by the macro or with an iterator. `OrderedMap` is
what an object promises; `JsonObject` implements it with `pairs` mapped to the list
through the table (`RefinesOrderedMap`).

### CycleCountBackupRestore, LearnedCapacityBackupRestore, Battery_proofs

`Restore`, `ReadGauge` (`ReadFromSRAM`), `UpdateAndSave` and `Backup` (`LCRestore`, ... for the capacity) are the steps of the
service; reads and writes fail, a write may be cut off (`CrashInWrite`, `CrashInSave`), and
`Reboot` loses the memory and, if it likes, what the gauge knows. The gauge of
`CycleCountBackupRestore` counts a cycle for every `Full` of level that is charged; that of
`LearnedCapacityBackupRestore` learns any capacity at any time. The level changes
only where the service is told (`Backup`) or is down. `WriteStringToFile` empties the
file when it opens it and removes it when the write fails. A value of 0 also
stands for a missing, empty or unreadable number, as in the code. `Battery_proofs` extends
both, for which the names of the second that would be those of the first begin with `LC`.

## 3. The runs

All runs finish with no state left. The bounds are the constants of each `.cfg`.

| run | states | what it asks | bounds, and why they are enough |
| --- | --- | --- | --- |
| `BootEmmc` | 14,818 | whole and coherent boots, ready when granted, agreeing tables at the end, no headers that every call refuses, completion; a call that returned 0 is on the medium | one LUN, as on eMMC; two images, so that a boot could mix versions; every damage of the tables; a restarting updater; two sets of faults: kills, failing I/O and failing `fsync`, and power cuts and short writes with the first two |
| `BootUfs` | 9,342 | the inductive invariant, no rollback, refinement | two LUNs and a boot LUN: three things switched one after the other, and a LUN before and after the one that fails; kills and failing I/O |
| `BootXbl` | violation | is what `UPDATE_MAIN` grants never booted? | see section 6 |
| `GptDisk` | 413,409 | does a commit leave a valid table with the edit and nothing else, and does a process that goes on alone bring back a valid table? | two processes, of which one is cut off, fails, stores a part or is overtaken by the other; two entries, edited by either process, in one session or in two, so that a commit can take back an edit of the other, mix its header with the other's entries, or store one of two entries |
| `HalLocks` | 562,460 | the table is the stack of the held locks and implements `PerfLocks` for nested clients; a held handle is found, whatever the order, the times and the zero handles | a table of four entries, three luids, three types of lock, of which two boost: locks of equal and of different type, an entry that is moved, duplicated and reused, and a full table |
| `SrvFaults` | 952,140 | one request at a time, own replies, a reachable server, loopers that end, closed files | two starts, the second of which is the first restart, after a stop that may hit a busy looper; two clients: one served and one waiting; five descriptors are never used up; two tries of a reply stand for fifty |
| `ModeLone` | 3,887,532 | does a call that overlapped no other bring what the file gives its mode to the driver, and does a mode get what the file declares for it? | two modes, set by two threads; files of two elements, of both modes and of a name that begins with that of a mode, in any order, with one or two children each: limits of CPUs that lie apart in both directions, that contain each other, that are missing, given twice, or out of order; one parse that fails: every element can be the last before the failure |
| `CycleCount` | 58,394 | no count goes back, the file keeps up, what failed is made good | a full battery of 4, a trigger of 2, four cycles: two complete between backups, and two after a reset |
| `LearnedCapacity` | 8,894 | no capacity grows, what failed is made good | capacities up to 4: below, between and above those in the file and in the gauge |
| `Lights` | 1,748,909 | the LED shows the request that comes first, the display its mode and a brightness that grows with the one asked for | two colours that share a component and black, blinking not, evenly and unevenly, with and without `rgb_blink`; displays of 8, 10 and 12 bits and greys about the places where a bit changes; two faults: a node that cannot be opened (`rgb_blink` when it is looked for, too) or that refuses a value, after a death or twice in one call |
| `JsonTokener` | 317,546 | are values independent of the cuts and those of the grammar, and does every call return? | every text of up to five tokens that begins a value (or two), in every way to cut it, and more than forty longer ones, with words, numbers, escapes, comments and ends of strings; a stack of three levels, which five tokens overrun |
| `JsonObject` | 100,797 | is an object an ordered map, are the counts exact, do loops come to every field unless they lose their place? | three keys in a table of two slots, which grows twice; keys that collide at the first and at the last slot, so that probes wrap around; a value owned twice by the caller and by fields at once; bodies that delete any field, the next one of their loop too |

Deadlock is checked in all runs but `SrvFaults`, where the device may stay
asleep for ever, and `JsonTokener`, whose caller stops when it has parsed its text in both ways.
The type invariants of the modules with proofs are theorems (section 5) and need no run.

`TableIsStack` and `LocksKept` are about the clients that keep the nested order, `HeldFindable`
about all. `NeverBack`, `LagBounded` and the like begin with what has
failed so far, and those of `BootEmmc` with `WritesWhole`, so that one run with every
fault also has the runs with fewer.

## 4. Fairness

Three runs need any. `TableRecovers` of `GptDisk` needs none in its specification: it is about behaviours in
which, from some time on, one process alone makes calls and writes entries again and again,
which its premise says.

* `BootEmmc` (`EventuallyFinalized`): a call in progress goes on (weak fairness of its
  steps: it is a loop of system calls that return). The updater ends the writes it
  began, writes what is missing and calls the next stage again and again (strong
  fairness, since a fault withdraws a grant), and faults stop at some time
  (`<>[][Prepare \/ Updater]_vars`). The property assumes whole writes, and tables that
  `UPDATE_MAIN` accepts to begin with: from others the code refuses for ever, by intention.
* `SrvFaults` (`LoopersEnd`, `AwakeServed`): threads that can take a step take it, and so do
  clients that have connected (a client ends after its `select()` at the latest).
  Nobody has to connect, to fall asleep or to wake.
* `JsonTokener` (`CallsReturn`): a call in progress goes on (weak fairness of `Parse`: it is a
  loop over memory). Nobody has to call.

## 5. The proofs

Proved by TLAPS for every value of the constants that meets the `ASSUME`s of the
module:

* **BootUpdate.** `TypeCorrect`; `DurableSuccess` (from `SyncInv`: what the calls of a
  stage have closed is on the medium); `Inductive`, `AlwaysBootable`, `GrantIsSafe`,
  `FinalizedTablesAgree` and `Refinement` for behaviours of `WritesWhole` and updaters of
  `SafeUpdater`, which go forward where a boot LUN is switched (`BootXbl` shows why). The
  properties are not inductive: that a switch is safe depends on what the tables of
  *other* LUNs look like and on which images were written. `IInv` says it: what the
  tables of a LUN can be (`TablesInv`), what they are at each step of a call
  (`StepInv`), which LUNs have been served (`ProgressInv`), that a copy is torn only
  while no table leads to it (`ImagesInv`), and where the boot LUN is
  (`BootLunInv`). Any number of LUNs and of images. About the versions:
  `AlwaysAccepted`, `CoherentBoots` (one LUN, no boot LUN to switch) and `NeverBackToOld`
  (an updater that goes forward). That tables lead to whole copies does not say which version these are of:
  `VersionInv` does. While some images of a copy are new and some are old, no image
  boots from that copy; and an updater that goes forward has written all main copies before it writes a backup.
* **GptDisk.** `DiskTypeCorrect`, `LoneCommitShown`. `CopyInv`: a copy that nobody has outdated (`stale`)
  differs from the disk in the entries edited only, and a commit that nobody has overtaken between its
  writes finds the header it wrote, whose CRC is that of the entries it is about to write. Any number of
  processes, entries and edits.
* **HalExt.** `LocksTypeCorrect` and `HandlesFindable` for all clients; `NestedStack`,
  `NestedClientsServed` and `NestedRefinement`, which are about behaviours of
  `NestedClients`. The invariant is `TableIsStack`: entry `i` holds the `i`-th handle. Any number of locks and types.
* **PowerHal.** `ModeTypeCorrect`, `ConfigLoaded` and `HalCallsApply`, from one inductive invariant
  (`HalInductive`), for any file, list of modes, failures, threads and limits of the CPUs. `ParseInv`: as long as
  expat stopped no parse, `xml_depth` and `parse` say where expat is, and each parameter found so far is the
  last of its name that has begun in the mode's own elements; at the end of the parse these are all of them.
  `LoneInv`: what a lone call has written at each index, and why the minimum is low enough in the second
  round, so that two tries are enough for a mode whose limits are in order. `HalInv`: nothing is
  written before the last parse, and nothing is parsed after. So what is `Meant` is what is written (`MeantIsRead`).
* **Battery.** `CycleTypeCorrect`, `CycleRestored`, `CycleFileKept`, `CycleNeverBack`,
  `CycleLagBounded`, and `CapacityTypeCorrect`, `CapacityIsRestored`, `LowestIsKept`,
  `CapacityNeverGrows`. `FreshRead` (what was read from the gauge is still there) and
  `MemoryAhead` (the memory has what was saved), `CapacityRead` and `CapacityAhead` for the
  second, carry the first four of each; `LagInv`
  relates the charge that the gauge and the service have summed up. Any level,
  trigger and number of cycles.
* **PowerServer.** `ServerTypeCorrect`, `AsleepSavesBattery`, `OneLooperServes` and `ReplyIsOwn` for
  every `Rush`; `SocketIsKept` and `FilesAllClosed` where the device wakes only when the loopers have
  ended. For the first, a device that wakes early may have two loopers alive, one of which a stop at rest
  has told to end. `ListenInv`: the one socket that listens is that of the last start, from its `socket()` to the
  stop that closes it. `LastInv`: every looper but the last one started is `Done`, which means that it can only fail its
  `accept()`, write -1 to `clientsock` and end; `RestInv`: so is the last one, once a stop at rest has shut
  its socket; `Current`: no other number in hand is that of the socket, so nothing else closes it before. `ReplyInv`: the
  connection that `clientsock` refers to, if it does refer to one, is that of the request in
  hand, for only one looper opens connections. They hold until the device is woken after a stop that
  found the looper at work (`Overtaken`, for which section 6 shows what happens). `SleepInv`: while no server is said
  to run, a looper that answers no request comes to none; it needs
  `StartInv`, which relates the HAL thread to `psthread_run`. For the other two, `LoneInv`: there is one looper at most.
  `AwakeInv`: every open file has one
  owner (`sock`; `clientsock` once the looper has stored it; a result that a call has just
  returned), so no close hits another's file. `AsleepInv`: after a stop at rest the
  looper has been told through `shut` before the socket is closed. Any number of starts, clients,
  descriptors and tries, and any calls that fail.
* **Lights.** `LightsInductive`, `LedShows`, `PersistenceIsFollowed`, `BrighterNeverDarker`: for any colours, flashes
  and devices, after any writes that failed and deaths of the service; the last one for displays whose range is one the
  service knows (255, 1023, 4095). `Ends(m, v)` says that node `m` holds `v` once the writes in `todo` are
  done: the last of them that changes the node gives it `v`, or none does and it holds `v`. `LedInv`, `ModeInv` and `LcdInv` state
  the properties of the nodes to come, so that they hold in the middle of a call; a write that
  succeeds keeps every `Ends`, one that fails gives up those of its device (`failed`, `told`).
  `ScaledBits` has what the shifts do as a sum, `16 * b + b \div 16`.
* **JsonObject.** `ObjectInductive`, `CountsAreOwners`, `FieldsAreOrderedMap`, and `LoopsVisitAll`. `Linked(t, s)`:
  the list through the table is the sequence `s` of slots, both ways; these are the slots in use, each for a
  name of its own; and a search for a name meets no empty slot on the way to its slot (`Reached`). With a slot that
  is free to store in, which the load factor leaves (`FreeSlot`), this makes a search find what is there and
  nothing else, past freed slots and round the end of the table. Every operation keeps it: storing, deleting,
  replacing, and growth, which stores all entries in a new table in their order. `ObjectInv` adds the
  array and the counts, which need each other: the container owns what its fields and elements
  say. `LoopInv`: there is a place in the list where the loop goes on (`GoesOnAt`), what is before it has been come
  to, and what is due is the names from it on (`Met`), or the loop has lost its place: its body deleted the entry it goes on from, and the
  list ends at the slot that was freed (`LostAt`; section 6 shows what is missed). What recursive functions give (a search, the
  growth, the list of entries) is proved from a least index at which it would fail, or at which they stop
  (`LeastIs`). Any names and values, any hash function, tables and arrays of any size.

* **JsonTokener.** `TokenerSafe` and `CutsDoNotMatterAlways`, for any texts, any depth and any cuts.
  `TokInv`, the first, is unconditional. `Sound`: the level in use is one that was
  allocated, those below it wait for a value, those above it are as `json_tokener_reset_level` leaves
  them, and what `saved_state` leads back to is a state that blanks, comments or escapes can come from.
  `TextOK`: a state in the middle of a number or an escape has its characters behind it in the text.
  `InParse` and `AtOut`: how a call can end.
  That cuts do not matter compares two runs over one text. The text in one piece has one
  parse, since every step of it is a function (`WholeStep`); `Path(text, strict, R, f)` says
  that `R` is closed under the steps up to `f`, and `whole` that it has ended there
  (`WholePath`). The parse in pieces follows it (`Following`): at every step it is at a point of `R` (`Abreast`);
  or its piece has ended where `R` goes on in its loop (`Cut`); or a value has ended with
  its piece and is given to the caller while `R` still has it on its first level (`Given`), and
  the blanks and comments behind it are those of the next call (`Ahead`) until a
  character gives it in `R`, too; or what is to come is one of the exceptions
  (`Excused`, `Doomed`, `Settled`). Two tokeners need not be equal for that, as `json_tokener_reset` leaves
  what no state reads before it sets it: `Same` demands the buffer, `st_pos`, the code and the quote only
  in the states that read them, and `CharAlike` has that the same tokeners take
  the same step, case by case. `NoPair` and `NoValue`: with no pair of codes and no -Infinity in the text
  `got_hi` is never set, and no local has a value where a piece can end.

Types and what makes the properties inductive are one conjunction where they
need each other (`ObjectInv`, `Inv` of `Lights`, `TokInv`). `JsonTokener_proofs` takes some six minutes and
`JsonObject_proofs` five, more than any other module.

The proof of `CutsDoNotMatterAlways` found what the run had not: the property was false of texts that
were not among those of the run. `-1i` in one piece is -1 and the beginning of another value; cut
behind the sign it is taken for -Infinity, since `case_len` is then 1 (json_tokener.c, 683), and is an error. So
the characters of a number between the sign and the `i` were added to `Fragile`. And a NUL that ends the
text behind the blanks behind a value is an error in a piece that begins behind the value (857), which is now
the last exception of `CutsDoNotMatter`. Texts of both kinds are among those of the run now.

Only model-checked: liveness (`EventuallyFinalized`, `TableRecovers`, `LoopersEnd`, `AwakeServed`, `CallsReturn`), which the
prover cannot reach; and `ParsesGrammar` of the parser, which compares a run with a RECURSIVE grammar:
no module with a theorem can reach one, and a proof would be an induction over all texts.

## 6. What does not hold

`BootXbl` shows a disagreement between the code and its comment; `PROJECT.json` quotes
the lines under "findings": the shortcut for a stage that is already set looks at the headers only. When
`UPDATE_BACKUP` has moved the boot LUN and fails before it fixes the primary header,
`UPDATE_MAIN` called again returns 0 while the main xbl is booted.

Other formulas that the modules state and the code violates; each is found by TLC when the
constants of a run are changed as given:

| formula | change | what happens |
| --- | --- | --- |
| `AnyFaultWhole` | `BootEmmc` | no `fsync` between the secondary table and the corruption of the primary header: a power cut can keep the second only; and a short write of the entries is taken for a whole one |
| `NeverRefused` | `BootXbl` with `HasXbl = FALSE`, `LunList <- UfsLuns`, `Faults = {{}}`, `Policy = "forward"` | `UPDATE_MAIN` succeeds on a LUN without pairs and leaves it as it was, so that `UPDATE_BACKUP` is refused |
| `KillKeeps` | `GptDisk` | killed between header and entries, a commit leaves a primary table that is rejected: the device boots the secondary one, which is older than either |
| `CommittedValid` | `GptDisk` | two commits at a time return 0 and leave the header of one with the entries of the other |
| `BackupFollows` | `GptDisk` | the secondary table is never written, and its copy in the struct is one of the primary |
| `InTable` | `HalLocks` with `Luids` up to 6 and clients that release the oldest lock first and hold two | releasing a lock that is not the newest does not lower `number_of_locks`: the table is overrun by clients that never hold more than two locks ("Maximum number of locks", `RQBalanceHALExt.h`:35) |
| `ReleasedGone`, `BalancedAtRest` | `HalLocks` | an older lock is released: its boost stays, and the newest entry is there twice |
| `CreatedTimerAccepted` | `HalLocks` | `timer_create` returning 0 is taken for a failure |
| `LoopersEnd` | `SrvFaults` with one client, `Faults = {}` and `Rush = "any"` | a stop does not wait for the looper. If the device wakes before the looper looks at `psthread_run`, it goes on, and a later stop does not reach it |
| `RepliesOwn`, `SocketKept` | `SrvFaults` with `Faults = {}` and `Rush = "any"` | two loopers share `clientsock`: a reply goes to the other client, a stale number closes the listening socket |
| `SocketKeptAfterRush` | `SrvFaults` | a stop that comes between `accept()` and the test of `psthread_run` leaves `clientsock` at the number of a connection that it closed; a start that fails before `socket()` and the stop after it keep it so; the next socket is given that number, and the first thing its looper does is to close it |
| `DefinedResult`, `FailedNotServed` | `SrvFaults` with `Faults = {}` and `Rush = "any"` | a connection closed without a reply returns an unset variable; a `select()` that timed out is reported as `-EINVAL` though the request is carried out |
| `EveryParseClean` | `ModeLone` | a parse that expat stopped leaves its depth, and perhaps the element it was in: the next mode takes the parameters of elements that are not its own |
| `EveryAttribute` | `ModeLone` | a limit that is found ends the callback, and one that is not the next in order ends the search: `rqbalance` attributes behind it are not taken, and an element whose name begins with the mode's is taken for it |
| `EveryLoopVisitsAll` | `JsonObject` | a body of `json_object_object_foreach` that deletes the next key sends the loop to a freed entry, though "deleting an existing key ... IS allowed" (`json_object.h`:336) |
| `OneMode` | `ModeLone` | two calls at a time leave the parameters of two modes |
| `CleanSaves` | `CycleCount` | a count whose write failed is not written again, for memory has it already |
| `LearnedKept` | `LearnedCapacity` | the gauge learns between the service's read and its write, which puts the higher capacity back |

The conditions of some properties say what the code does not do:

* `Fragile` in `CutsDoNotMatter`: a cut between `-` and `Infinity` makes an error of it,
  for what the call knew of the `-` was in a local (and one behind the sign of `-1i` makes an
  error of that); one in a pair of surrogates loses the first, so that
  U+FFFD comes out; one behind the `\u` of the second is an error. `[null,-Infinity]` fails in one piece,
  for `st_pos` still has the length of `null`.
* The last two lines of `CutsDoNotMatter`: in strict mode what is behind a value is looked at in the piece
  the value ends in only. A comment that begins behind the value and does not end leaves the caller
  without the value. A NUL alone in a piece, with no value before it, is `json_tokener_error_parse_eof` (857).
  `/***/` is not the end of a comment.
* `Conventional` (no name begins with that of a mode but the mode's own, and no attribute stands where it is passed
  over) and the condition on `-EINVAL` in `ConfigAsWritten`: see `EveryAttribute` and
  `EveryParseClean`.
* `device.lcd_max # 1023` in `BrighterIsBrighter`: shifting down by the bits that are missing is right for 12
  bits only; with 10 bits 68 gives a darker display (273) than 67 (284). With persistence the
  brightness on entering the mode is a property of the system.
* `told` in `PersistenceFollows`: the mode is remembered whether the write succeeded or not, so one that failed is
  never tried again; and a service that starts on a display in low persistence mode never switches
  it off. `failed` in both: the code reports success when a write has failed.
* The last line of `LedShowsPriority`: without `rgb_blink`, the components a blinking light does not have
  stay as they were.
* "Both have been asked for" in `LedShowsPriority`: until then one state is what the memory held.

The condition on `failed` in the battery's properties is needed too: a file that cannot be
read once is replaced by the gauge's lower count, and a write that is cut off loses it.

## 7. Not modelled

* `rand()` returning a luid that is in use, and timers that expire (the code never arms one).
* The list of LUNs (`add_lun_to_update_list`): a search in a fixed array within one call, with no
  state between updates; `BootUpdate` takes its result, any list of LUNs, as a constant.
* Power statistics: files are read and printed, nothing is kept. `polyreg`: floating point.
* json-c: serialization, conversions between types, print buffers (a sequence here), the hash
  function (any, `Hashes`), reading of files. These keep no state that two calls share.
  The table's growth that fails for lack of memory ends the process.
* `str_handler`, `writeStr` and the other fixed-size buffers: the model has no lengths of strings.
* Formats of nodes, files and XML, and the wording of logs; make files, overlays and scripts.

## 8. The plan

Done, in this order of importance:

1. `BootUpdate` and its abstract specification, invariants and proofs.
2. `HalExt` and `PerfLocks`, with proofs.
3. `PowerServer`, with proofs.
4. `PowerMode`, with proofs.
5. The two battery backups, with proofs.
6. `GptDisk`, with proofs.
7. `XmlConfig`, and `PowerHal`, which sets what it loaded with `PowerMode`, with proofs.
8. `Lights`, with proofs.
9. `JsonTokener`, against a grammar and, cut and uncut, against itself, with proofs.
10. `LinkHash` and `JsonObject`, against `OrderedMap`, with proofs.

To do:

11. The list of LUNs (924-968) and `gpt_boot_chain_swap` (186-266) against reference
    definitions, as recursive functions.
