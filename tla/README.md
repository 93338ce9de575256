# Panda AI OS simulator: TLA+ models and proofs

These modules model the parts of the simulator whose correctness depends on
the order in which things happen. The larger half is written in C inside QEMU:
the emulated ESP32-S3 core and the firmware services it replaces, the guest
heap, the I2C, SPI and SD controllers, the panels, touch controllers and the
host link, the devices of the T5 board. The other half is the host: the SD card
that the browser keeps in IndexedDB, the worker that owns it, the adapter that
talks to the worker, the desktop host with its threads, the debug transport and
the POS console client. Each module follows the source in its control and
abstracts its data; `PROJECT.json` names, for every definition, the lines it
stands for. Chinese comments of the source are quoted as they stand.

## The system

Paths are below `src/` of the checkout; `qp` stands for `qemu-peripherals`.

| Part | Source | State | Operations | Hard behaviours |
| --- | --- | --- | --- | --- |
| Guest heap | `qp/target_xtensa_exc_helper.c` | record table, three pool pointers | malloc, calloc, realloc, free, queries | split, merge and trim of records; a full table; two layouts |
| Emulated core | `qp/target_xtensa_translate.c`, `target_xtensa_exc_helper.c`, `hw_xtensa_esp32s3.c` | register windows, PC, EPC/EPS, boot state | calls, returns, hooks, faults, interrupts, reset | functions answered before their ENTRY, resumption after faults, nesting |
| Guest services | `qp/target_xtensa_exc_helper.c` | queue, key and static-guard tables, event words | mutexes, queues, atomics, keys, completion events, copies | handler between two steps; tables that outlive a reset |
| I2C controller and devices | `qp/esp32_i2c.c`, `lilygo_bq27220.c`, `lilygo_power_rtc.c`, `lilygo_i2c_probe.c` | command list, FIFO, bus; pointer, faults, trace per device | run a list, bridged transfer, control requests | split and refused transfers; requests in between |
| SD card model | `qp/sd.c` | protocol state, offsets, image, seed overlay, LilyGo controls | commands, data bytes, power-up, removal, faults | long command sequences, host changes in a data phase |
| SPI bus and radio | `qp/esp32s3_gpspi2.c`, `lilygo_sx1262.c` | chip selects, owner, trace; mode, timers, FIFO | transfers, selection, conflicts, radio commands, packets | two selects at once, resets, timers against commands |
| Display, touch, host link | `qp/ssd1677_gdeq0426t82.c`, `uc8253c.c`, `ft6336u.c`, `chsc6440.c`, `target_xtensa_exc_helper.c` | receive state, mailboxes, queues, panel windows, frame buffer | frames in, mailbox polls, register reads, panel commands | two threads on the guest's memory; partial and oversized frames |
| T5 board devices | `qp/lilygo_display_input.c`, `lilygo_gnss_uart.c`, `lilygo_gnss_chardev.c` | touch buffer, pins, supply, receiver | register access, control requests, timers | shared rail, clock and reset |
| SD card store | `public/simulator-runtime/sd-card-store.js` | IndexedDB: one metadata record, chunks by (generation, index), a legacy record | `readSdImage`, `writeSdImage`, image validation | a save is a chain of transactions; crash or abort between any two; overlapping saves |
| Browser worker | `src/browserSimulatorRuntimeWorker.js` | command queue, cached card, active card, module promise, running flag, persist timer | start, reboot, stop, SD edits, import, export, input injection, frame decoding | commands await; the persist interval does not queue; failures half way |
| Browser host adapter | `src/browserSimulatorRuntime.ts` | pending requests, the worker | one call per command, worker messages, worker errors | terminates the worker while it works |
| Tauri host | `src-tauri/src/lib.rs`, `ipc.rs` | QEMU child, socket, one IO thread per run, bound sender, geometry | `start_sim`, `stop_sim`, `full_reboot_sim`, injections | threads of earlier runs that end late |
| Debug transport | `src-tauri/src/debug_transport.rs`, `headless/src/debug_transport.rs` | one TCP client at a time, a broadcast of firmware records | request, forward, wait, time out | late and lost answers |
| POS console and Device Studio | `src/posDevBridge.ts`, `src/studio/` | request id, latest and terminal answer; session tail | install and open an app over a serial line; run, stop, dispose | lost lines, stale answers, aborts |
| Headless harness | `headless/src/main.rs` | QEMU child, event and injection queues, SD root | end-to-end cases, injection plans, radio bridge | timeouts, acknowledgements |
| Flash image and SD image algorithms | `lib.rs`, the worker, `headless/src/sd_image.rs` | none | build a flash image, validate a FAT image, create one | layout boundaries |
| Simulator UI | `src/components/*.tsx` | connection status, loading flags | start, stop, edit, panel | late answers to an old view |
| Web packer | `scripts/pack-*.mjs` | output directory, lock, staging directory | pack, publish | interrupted publication |

What makes each part correct:

- Guest heap: live blocks never share a byte and no byte is lost.
- Core: a function finds its registers whole when control returns to it,
  whatever was skipped, patched, interrupted or resumed in between.
- Services: they answer as the services they stand for would, to a task and to
  an interrupt handler alike.
- I2C, SPI: controller and devices agree on who is held; a transaction is traced
  once and truthfully; a list that was started ends.
- SD card model: the seed can be restored, a read-only card is not written, the
  assertions of the code hold (one does not, see `sd_status`).
- Host link: frames arrive whole and in order, an exchange is not mixed with
  another, the picture is the one exported last.
- T5 board: inputs are told, power is reported only when earned, sentences keep
  their distance.
- SD card store: a reader finds the last image saved, whole, whatever failed.
- Browser worker and adapter: an acknowledged card stays stored; every request
  has exactly one answer, and gets it.
- Desktop host: one QEMU at a time; input reaches the run it was given for;
  threads of earlier runs end.
- Debug transport: a request is taken up when the earlier ones are answered; no
  record is lost or repeated short of an overflow.
- POS console: an install reported done was done; it is admitted once.

How they meet: the firmware runs on the emulated core; its calls to hooked
functions are answered by the heap and the services; its register accesses reach
the controllers and through them the devices. QEMU's main thread brings the
host's frames and control requests into the guest's memory and the devices. The
Tauri host owns a QEMU process and exchanges those frames with it over a socket;
in the browser the worker runs QEMU as a WASM module and keeps its SD card
through the SD card store, the adapter posts commands to the worker. The debug
transport and the POS console are clients of the two hosts.

## Modules

| Module | Models |
| --- | --- |
| `BlockHeap` | what the heap promises: live blocks share no byte |
| `SimHeap` | the allocator hooks, the record table and the three pools |
| `SimHeapProofs` | the theorems about `SimHeap`, with the proof that it implements `BlockHeap` |
| `XtensaWindows` | register windows and their save areas, as operators |
| `XtensaCpu` | calls, hooks, boot redirection, faults, interrupts, reset |
| `GuestServices` | mutexes and queues, words, keys, guards, events, copies |
| `SimCore` | core and services composed |
| `SimCoreProofs` | the theorems about `SimCore` |
| `I2cDevices` | gauge, charger and probe as operators on a record |
| `Esp32I2c` | the I2C controller composed with those devices |
| `Esp32I2cProofs` | the theorems about `Esp32I2c` |
| `SdCard` | the SD card and its LilyGo extension |
| `SdCardProofs` | the theorems about `SdCard` |
| `Sx1262Radio` | the radio as operators on a record |
| `SharedSpi` | the SPI controller, its two chip selects and the radio |
| `GnssUart` | the satellite receiver as operators on a record |
| `LilygoBoard` | touch, expander, supply and receiver |
| `T5Board` | `LilygoBoard` composed with `SharedSpi` |
| `EpdPanel` | both e-paper controllers as operators on a record |
| `TouchInput` | both touch controllers and the input queues, as operators |
| `HostLink` | the host's frames, mailboxes, queues, touch and panel composed |
| `BoardProofs` | the theorems about `T5Board`, of its bus and of its devices, and about `HostLink`, of its mailboxes, its stream, its input and its panel |
| `SdSnapshot` | what the SD card store promises: one slot, replaced whole or not at all |
| `SdCardStore` | `readSdImage` and `writeSdImage` as their IndexedDB transactions |
| `SdCardStoreProofs` | the theorems about `SdCardStore` |
| `BrowserWorker` | the worker's commands between their awaits, its module, cached card and persist interval |
| `BrowserRuntime` | the adapter composed with the worker |
| `BrowserRuntimeProofs` | the theorems about `BrowserRuntime` |
| `TauriHost` | the desktop commands, the IO threads of all runs, the one frame sender, QEMU |
| `DebugTransport` | the debug server, its clients, the firmware's records |
| `PosConsole` | one call of the POS console client against the guest |
| `DesktopProofs` | the theorems about `TauriHost`, `DebugTransport` and `PosConsole` |
| `MC*` | instances of the above for TLC |

A device that only answers a bus is a module of operators on a record, without
variables; the module of its bus has the variables. That is how one device can
take part in a step of another. `DesktopProofs` and `BoardProofs` extend
components that share no variable, so their initial states, next-state relations
and specifications carry their component's name (`DebugSpec`, `PosSpec`,
`LinkSpec`). `TypeOK`
of a module is a theorem where there are theorems and documents the state
elsewhere; no run spends its time on it.

### Guest heap

`records` is the table `mofei_bump_alloc_records`, `ptr` the three bump pointers,
`mode` and `heapStart` which of the two layouts the firmware has. `Malloc`,
`Calloc`, `FreeBlock` and `Realloc` are the hooks: the choice of a pool from the
capabilities (`Grants`), the best free record or the bump pointer (`Reused`,
`Bumped`), the split of what is left. A free is followed by `Merge` and `Trim`,
one step per turn of the two loops; `pc` keeps calls away meanwhile, as the
hooks do by running to completion. Sizes are 32-bit where the code multiplies.
Zeroing and copying memory that exists cannot fail and is left out.

### Emulated core and services

`XtensaWindows` sees registers in quads, the unit in which CALL4, CALL8 and
CALL12 rotate the file, and keeps the save areas of a stack. `frames` is a
history of the live functions with the values each wrote; `FramesKept` compares
it with the file and the stack. The steps of the core are `CoreSteps`: calls and
returns with overflow and underflow, hooked functions (answered before the
ENTRY, or entered and ended by the safe return), the scheduler start redirected
to the application, faults answered by resuming, interrupts with handlers in
phases. `Restart` resets the core and not the simulator's tables.
`GuestServices` has `Locks` (queues and the mutexes made of them), `Words`
(atomics and spin locks, from the task and from handlers), `Setup` (thread keys
and static guards), `Copies` (memory and strings) and `Events` (the completion
words of the SDMMC and I2C drivers). Each of these is entered through a hook of
the core. The firmware is external: `Activities` says which kinds of code it has.

### I2C

`StartProgram` is the register write that starts a command list: `Controller`
runs it, one byte per step, and only the interrupts of the host's own threads
fall in between when the code lets them. `StartDirect` is a bridged transfer,
which takes no lock. `ResetFsm`, `ResetController`, `ReadFifo` and
`ConsumeEvent` are the driver's. `SetState`, `SetFault`, `ClearFaults` and
`ResetDevice` are the host's requests. `owed` counts a device's transactions
begun and not traced.

### SD card model

`Command` is `sd_do_command` with the checks of state, lock, address and
protection; `WritePart`, `WriteBlock`, `WriteBlocks`, `ReadUnit`, `ReadBlocks`
and the register writes are the data phases; `PowerUp` is the timer;
`ReadFault`, `WriteRefused`, `SetPresent`, `SetWritable`, `SetInsertPolicy`,
`SetFault` and `ControlReset` the LilyGo extension. `saved` is the overlay of
seed blocks. A `profile` is a kind of host with the commands it uses.

### SPI, radio and the T5 board

`SharedSpi` has the two GPIO selects, the owner (`active`) and the conflict
that leaves none selected; a transaction is what lies between two edges and
ends in one trace. The card behind it is only told that it is selected; its
protocol is `SdCard`. `Sx1262Radio` has the modes, the timers (ticks left) and
the fault settings. `LilygoBoard` has the GT911 buffer and its INT line, the
PCA9535 pins, the TPS65185 supply and the receiver of `GnssUart`. `T5Board`
composes them: `DeviceStep` is a step of an I2C device or the receiver,
`BusStep` one of the SPI bus, `WriteExpander` a write that may move the rail
both hang on, `Restart` the reset of the machine, `Tick` the virtual clock.

### Display, touch and host link

`HostSends` appends a frame to the stream, `Reconnect` cuts it. `MainThread`
reads a part, handles a whole frame, and writes the guest's memory one location
at a time (`ops`), or polls the console mailbox. `Firmware` is the vCPU thread:
reading and answering mailboxes, draining the input queues, reading the touch
controller in its two halves, driving the panel, exporting a frame buffer. The
two threads meet only in `mem`, without a lock: the firmware may take and clear
a byte of key events between the main thread's read of it (`ReadEvents`) and its
write (`SetEvents`). How it takes them is not in the repository and a constant,
`polls`: in one instruction (`SwapsEdges`), by a load and a later store
(`LoadsEdges`, `StoresEdges`) or not at all. A firmware of the run has the
exported symbols of one build.

### SD card store

`meta`, `chunk` and `legacy` are the records of one storage key. A call of
`writeSdImage` is a process: `Call` (slicing, UUID, before the first await),
`ReadMeta`, `PutChunk` per changed chunk, `PutMeta`, `DeleteChunk` per
superseded chunk, `Resolve`. `Reject` is an aborted transaction before the
metadata is in, `Crash` the death of the worker. `ReadSdImage` is the reader: it
runs in one transaction, so it is an operator on a state.

Assumed: IndexedDB transactions are atomic, serialisable and durable;
`crypto.randomUUID` never repeats; different chunks have different SHA-256
digests; the wall clock does not run behind the legacy record's time stamp;
only the runtimes of this repository write the records.

`SnapshotReadable`, `AtomicSave` and `SerialInv` need one call at a time.
Nothing in the store enforces that: the worker's queue does for commands, but
the persist interval is outside the queue and another tab has its own worker.
Overlap can lose the card (see Observations); `SharedInv`, proved for any number
of overlapping calls, is what survives it. `BrowserWorker` takes each save as one atomic slot, so its results are
those of saves that do not overlap in the store.

### Browser worker and adapter

A command is a process whose steps end at its awaits; `cmd.step` names the next
one. `begin` is the dispatch, `load` and `assign` the reading and caching of the
editable card, `prepare` the simulated location, `module` and `main` the QEMU
module, `edit` the FAT edit and `save` the wait for the store. Saves (`flight`)
are the atomic slot that `SdCardStore` is proved to implement for one call at a
time: open, then saved or lost, then returned to the caller. `TimerFires` and
`TimerReturns` are the interval. `active`, `editable`, `module`, `instance` and
`attached` are the worker's globals of similar names. An SD image is its files
and whether the simulated location was written into it.

`BrowserRuntime` adds the adapter: `Post`, `Deliver`, `WorkerFails` and the
termination that a successful stop or a worker error causes. `acked` is a
history variable: the last edit or import of a board that the worker answered
with ok.

Assumed: a save that has not committed when its worker is terminated never
commits; messages between page and worker are neither lost nor reordered; a
request id is not reused while somebody waits for it. The bytes limit of the
queue (line 58) and the commands that only pass input to the guest are left out.

### Desktop host

`process`, `rebooting` and `spawned` are the host's side: `SimState.process`
and the mutex that a full reboot keeps through its sleep. `StartSim`, `StopSim`,
`FullReboot` with `FullRebootStarts`, and `TrySend` are the commands. A start
creates an IO thread that nobody joins: `Connect` (by path, so it may reach a
later QEMU), `GiveUp` after forty attempts, `Bind`, the two tasks `WriteFrame`
and `WriteEnds`, `ReadEnds`, and `Unbind`, which clears the sender whoever has
bound it. Every frame carries the run it was accepted for.

QEMU is external: it listens on the socket some time after it was spawned,
serves one connection at a time, drops it when the client has shut its half
down, and may exit by itself. A SIGKILL takes effect with the `kill` that sends
it (the code waits for the child). Left out: the application's exit, the flash
and SD root files a start prepares (they may fail: `NoSpawn`), board profiles,
and the frames that come from the guest.

### Debug transport

`phase` follows `run_server`, `handle_client` and `handle_runtime_request`:
accepting, selecting, sending, waiting, closed. `log` and `next` are the
broadcast channel and the one receiver that the client loop and the waits
share; `Lag` is `RecvError::Lagged`. The firmware is external: it answers the
requests it holds in order, several in one payload or none, may restart and
forget them, and sends events. So are the clients: they number their requests
from 1, may send before earlier answers came, and may hang up at any time. They
read what is written to them: `write_all` has no time out, and a client that
does not read blocks the server for ever.

### POS console

One call of `createPosConsoleClient`: `SendLine`, `Hear`, `Decide`, `Retry` and
`Abandon` are the loop and the serial log handler. The guest is external: it
admits one operation at a time, refuses others as busy, answers a known id with
the state of its job and an unknown one with `request_not_found`. `Lossy` lets
the console lose lines, `Restarts` lets the guest forget its jobs; `disturbed`
records that one of these happened. The splitting of the log into lines is
abstracted: an answer is heard whole or lost.

## Runs

| Run | Shows | Bounds |
| --- | --- | --- |
| `heap` | `HeapInv`, `Accounted`, and that the heap implements `BlockHeap` | the layout of `mofei-sim-addrs.h` in blocks of 64 bytes, one to four to a pool; both layouts, one of them with the start in the ROM stub; a table of four records, so that it is full before the pools are; sizes 0 and 65 |
| `core` | `FramesKept`, `ThreadDataKept`, `ContextKept`, `ServicesHonest`, `EventsKept` | six quads (calls three deep overflow), stacks of 24 places (23 are what `StackAssumption` asks for), fourteen mixes of activities, interrupt levels 1, 2 and 4 around EXCM level 3, one reset, three queues and keys, six memory cells of which two hold code |
| `core_task` | a task created through CALLX writes its result over the caller's register (violated) | the same with that hook alone |
| `i2c` | `BusAgrees`, `TracedOnce`, `GaugeWordWhole`, `Ended` | one device of each kind, a FIFO of three, two registers; a word read, one split with END and its rest, a word write, a bridged read, one fault to arm once and one latched |
| `sd` | `SeedKept`, `Counted`, `TimerFindsNoPower`, `ReadOnlyKept` | two blocks of two halves, write-protect groups of one block, six kinds of hosts, SPI and SDMMC |
| `sd_status` | a status request in the middle of a data phase, then a data byte, reaches the assertion of `sd_write_byte` (`ByteFindsItsCommand` violated) | the same card in SPI mode with CMD1, CMD13 and CMD24 |
| `link` | `InOrder`, `ExchangeWhole`, `InputsKept`, `PanelSound` | ten firmwares, of which one polls the key events at once and one in two steps, three frames on the first connection and one on the second, a 2 x 2 panel, queues of two so that they overflow |
| `link_poll` | a key event latched between the firmware's load and its store of the byte is lost (`NoEdgeLost` violated) | the firmware that polls in two steps, two keys |
| `board` | `InputsTold`, `PowerGoodEarned`, `OneOwner`, `HonestTrace`, `SentencesPaced` | input with supply, receiver alone, radio alone; a second of three ticks, a start of the supply of two, a transmission of two, a reception time out of three |
| `sd_serial` | `SnapshotReadable`, `SerialInv`, and that the store implements `SdSnapshot` | one caller, images of one or two chunks over three contents, three UUIDs: a save over a stored image, a retry and a save over that |
| `browser` | `AckedStored`, `ConflictKept`, `EveryRequestSettles` | three scenes: three overlapping callers at a queue of two; one caller with all commands and two contents; one caller that starts, stops and imports on two boards |
| `desktop` | of the host `HostInv`, `OneQemu`, `FrameReachesItsRun`, `GoneThreadsEnd` | two runs, two frames: a thread of the first meets the QEMU, thread and frames of the second |
| | of the debug server `AnsweredInTurn`, `NothingSkipped`, `EveryLineAnswered` | two clients with two requests each, three payloads, a channel of two: a late answer meets the second request and the second client, and the channel overflows |
| | of the POS client `CompletionIsReal`, `AdmittedOnceUnlessLost` | two ids, two lines and two answers under way, losses and restarts: a resend meets the answer to the line before |

The code's limits are larger and reach the same branches: `MaxQueue` is 16,
`DEBUG_BROKER_CAPACITY` 128, the heap table, the FIFO and the input queues have
tens to thousands of entries, request ids and UUIDs are unbounded. The theorems
below remove the bounds of `sd_serial`, `sd` and `board`, of the safety of
`desktop`, `i2c` and `browser`, and of all of `heap` and `core`.

Bounds that are more than a size:

- `board`: `activity` says which devices a behaviour uses. The clock of the
  others stands still meanwhile; no timer of one is read by another.
- `sd`: each kind of host has its commands, and sends any of them whenever the
  card is present, in a data phase too. A behaviour ends at an assertion that
  fails, as QEMU does.
- `browser`: the scenes are apart because their product is out of reach.
- `desktop`: `program` says which of the three programs a behaviour is of. They
  share no variable; the others stay as they start, where none of their fair
  actions is enabled, so that fairness asks nothing of them.
- `i2c`: a driver is bridged whole or not at all.
- `core`: a mix of activities is what the firmware does, with the depth of
  calls the boot code and the application may reach; services take no deeper
  part in the windows than a call and its answer.

`CHECK_DEADLOCK FALSE` stands where the bounded supply of a run ends or the
system really stops: UUIDs (`sd_serial`), a closed server or a finished call
(`desktop`), frames (`link`), a card that is inactive until the power cycle
(`sd`), a firmware that has strayed, or has done what its mix allows (`core`).

### Fairness

- `browser`: the worker's handlers, its saves and the delivery of its
  messages are weakly fair. An event loop runs every callback whose promise has
  settled, an IndexedDB transaction completes or aborts, and a posted message
  is delivered. Nothing is assumed of callers, the interval or failures.
- `desktop`, the host: each IO thread is weakly fair (the runtime schedules its
  tasks and its forty attempts run out), and a live QEMU accepts connections and
  notices closed ones. Nothing is assumed of commands or of QEMU's exit.
- `desktop`, the debug server: forwarding and the time out of a wait are weakly
  fair (both are timed). Reading a line and seeing the shutdown are strongly fair:
  `tokio::select!` picks at random among its ready branches, so a branch that
  is ready again and again is taken. Nothing is assumed of clients or firmware.
- `i2c`: `Controller` is weakly fair: it is a loop within one register write.

The other runs are about safety and assume nothing.

## Theorems

For every value of the constants, from the named assumptions on them only.

`SimHeapProofs`, from `LayoutAssumption` (the order of the addresses in
`mofei-sim-addrs.h` and their alignment), `TableAssumption` and
`InputAssumption`:

- `HeapTypeCorrect`: table, pointers and loops have their types.
- `BlocksStayApart`: `HeapInv`. It is inductive only together with the types,
  and because every record lies below its pool's pointer (`RecordsBelow`): a
  block taken from the pointer is then apart from all of them. `LoopsInv` keeps
  the loops after a free on a free record. The lemmas say the same of a table
  and pointers given as parameters (`GoodTable`), for a reallocation allocates
  in one table and frees in the result: `PoolsLieApart`, `GrantedHasRoom` (an
  aligned size does not wrap), `BestFits`, `ReusedStaysGood` (with the split),
  `BumpedStaysGood`, `StartFreeStaysGood`, `MergeStaysGood`, `TrimStaysGood`.
- `RefinesBlockHeap`: initial states map to initial states, each hook to the
  action of `BlockHeap` of its name or to stuttering, the turns of the two loops
  to stuttering. `LiveIn` is the live blocks of a table, so that a reallocation
  can be followed through the table it allocates in: the block it hands out is
  fresh among the live ones there (`LiveRecordIsFresh`, from `BlocksStayApart`),
  and the old one is freed after that. `PoolsInRegions` puts every pool that is
  not empty inside the memory `BlockHeap` speaks of.
- `EveryByteAccounted`: `Accounted`. The invariant is `PoolsTiled`: the starts of
  a pool's blocks with its pointer are their ends with its base, and their sizes
  add up to what lies between base and pointer. A split and a merge are each
  other's reverse there (`Cut`, `SplitTiles`, `JoinTiles`): one place is both a
  start and an end, or neither, and between two blocks that are merged it was
  nobody else's. A trim takes away the only block that ends at the pointer. The
  sums are inductions over data, argued by a least counterexample: a set of
  numbers that holds 0 and with each number the next holds all of them (`Climb`,
  from the well-foundedness of the library, the set being given). `WalkIs` says
  that the recursive sum over the table exists, `SumOfBoth`, `SumOfOther` and
  `SumOfMoved` how it changes, and `FoldIsSum` that the query's fold over a set,
  in whatever order `CHOOSE` walks it, is that sum.

`SdCardStoreProofs`, from `StoreAssumption` and `SentinelAssumption` (and
`OneWriter` where named):

- `SharedInvariant`, `TypeCorrect`, `NeverTorn`: the inductive invariant
  `SharedInv` of any number of overlapping calls. `ReadMatchesDigests` alone is
  not inductive: a chunk put could land under a generation that metadata already
  names. `OwnGeneration` and `Drawn` exclude that (a generation is named only
  after its call's metadata is in), and `PlanMatches` carries the content from
  the chunk puts to the metadata put.
- `SerialInvariant`, `AlwaysReadable`: with one call at a time, `Complete`
  follows with `Alone`, which relates the call's plan to the metadata it read.
- `RefinesSnapshot`: initial states map to initial states, `PutMeta` to
  `Commit`, the settling actions to those of `SdSnapshot`, and the others to
  stuttering.

`BrowserRuntimeProofs`, from `WorkerAssumption`, and from `NoneAssumption`,
`TimersAssumption` and `AcksAssumption` (the names that stand for nothing, and
for the command's own save, are no values), for any boards, contents, requests,
interval persists in flight and length of the queue:

- `VariablesHaveTypes`: the types are inductive with three parts that say which
  fields of a command, a module or a save may be read. `QemuInv`: a running QEMU
  is attached, an attached one loaded. `CommandInv`: a command past its load has
  a card of its own board, and an edit or an import that changes a card runs
  while QEMU does not. `FlightInv`: a save of the command belongs to the command
  that waits for it.
- `AckedIsStored`: `AckedStored` fails to be inductive at every step between a
  save and its answer. `IdsInv` says that a request waits in one place only, the
  queue, the command or the answers, so an answer is delivered to the call it
  belongs to. `AckInv` follows an acknowledged card from the commit to the
  caller: it is in the store and no save of the interval is open on its board
  (`Holds`), or a stop was answered before it, in which case the worker is
  terminated before the caller can hear of it (`Doomed`). A save of the interval is
  open only while QEMU runs or after an answered stop; that keeps it away from
  an edit or an import, whose commit comes while QEMU does not run. `CommitAcks`,
  `OtherAcks` and `AdapterAcks` are the steps that commit, those of the worker
  that do not, and those of the adapter; `TerminateKeeps` says what a termination
  may forget.
- `ConflictIsKept`: by `CleanInv`, the active card, the cached card, the
  command's card and every save in flight, but that of an import, are of boards
  whose stored card has no conflict, so a commit that meets one is an import's.

`DesktopProofs`, of three components.

The desktop host, from `HostAssumption`, for any number of runs and frames:

- `HostInvariant`: `HostInv` is inductive. `OneQemu` needs that a start spawns
  only when no child is held, and `Started`, that no thread, link or QEMU
  is ahead of the runs spawned; `Tagged` says a thread's frames are meant for
  the QEMU it is linked to while that QEMU lives. It is kept because `OneQemu`
  makes the run a frame is accepted for the only live one, because a run that
  has died never lives again, and because a fresh channel is empty
  (`TasksBound`).
- `NoOrphan` and `FramesKeepToTheirRun` are `OneQemu` and `FrameReachesItsRun`.

The debug transport, from `TransportAssumption`, for any number of clients,
requests and payloads and any capacity:

- `RequestsAnsweredInTurn`: `AnsweredInTurn` speaks of the client loop only;
  `OneOpen` adds that during a request everything taken up but that request is
  answered, and every way back to the loop answers it (the payload that matches,
  the time out, the host's own answer).
- `NoPayloadSkipped`: inductive with the types, because the receiver's position
  only moves forward, by one with what it forwards and over what it counts lost.

The POS console client, for any number of ids and of lines and answers under
way:

- `InstallIsReal`, from `ConsoleAssumption`, with losses and restarts: an answer
  that says completed, in the log or kept by the client, is of an id the guest
  completed (`AnswersTruthful`), and what the client keeps is of its current id.
- `AdmittedUnderOneId`, from `NoneAssumption` also: as long as nothing is lost,
  `OneId` says no line asks for the operation under an id given up, and `InOrder`
  why: the line that asks is read before those that ask for its state, so a
  request that is missing was refused before, and the client hears of the
  refusal first. It never decides on a missing request, so it does not ask twice
  under one id, and it draws a new id only when no line is left that could have
  the old one admitted.

`Esp32I2cProofs`, from `ControllerAssumption`, for any devices and addresses,
lists of commands, bridged calls, faults and lengths:

- `ControllerAndBusAgree`, `EachTransactionTraced`, `GaugeReadsOneState`: the
  invariant `IInv` is `BusAgrees` and a `Good` device at every address: it owes a
  trace just while it is in a transaction, and what a read of the gauge returned
  is the state it has. The last is inductive because the gauge takes no state in
  a transaction (`HostKeepsGood`), not because of the lock, which a bridged call
  does not hold. Every early end of a list is one of `HangupKeeps`,
  `WriteAddressKeeps` and `SendByteKeeps`.

`SdCardProofs`, from `CardAssumption` and `HostAssumption` (the arguments, lengths
and registers a host sends are of their types), for any size of the card, any
profiles and any commands:

- `BufferNeverLeft`, `SeedIsKept`, `CountIsKept`, `ReadOnlyIsKept`: `Fits` sums a
  handler up, what any command of either class may do to the registers, and
  `SdInv` is inductive on that summary: types, `Timed` (the power-up timer waits
  for a card without power), `Buffered` (a data phase is inside of the buffer,
  which the lengths of earlier commands must not undo), the count and the seed.
- `TimerAssertionHolds`: `TimerFindsNoPower`, the assertion of `sd_ocr_powerup`.
  It rests on `Timed`: whatever gives the card power stops the timer, in any order
  of enquiries, resets and cards taken out. The other assertion, of
  `sd_write_byte`, does not hold: that is the run `sd_status`.

`BoardProofs`, of two components.

The T5 board, from `BoardAssumption` and `WritesAssumption`, for the whole board
with any activities, fixtures and times (below the number that stands for no
time). `WritesAssumption` is the firmware's: it writes the expander's output,
configuration and polarity, and leaves the pin of the function key an input
that is not inverted.

- `BusHasOneOwner`: `BInv` adds to `OneOwner` the types and that the radio is
  `Sound`. A radio is synchronised before anything else happens to it
  (`SyncSettles`), and its timer set afterwards (`ScheduleArms`), so that no
  operation leaves a time out without a timer.
- `TracesAreHonest`: `Known` relates the code's `transaction_error` to what went
  wrong: they are equal while a device owns the transaction, and a conflict,
  where they may differ, is reported as a failure in any case.
- `InputsAreTold`: `TouchInv` says what buffer, release flag and INT line owe the
  firmware after each of the host's and the firmware's steps, `KeyInv` that a
  press not yet read is still unread in the expander.
- `PowerIsEarned`: in `SupplyInv`, the time the supply still waits and the time
  its inputs have been good add up to the whole start.
- `SentencesKeepPace`: in `PaceInv`, the same of the receiver's next sentence and
  the silence since the last; a restart of the receiver takes neither back.

The host link, for any firmwares, traffic, chunks, connections and lengths.
`ExchangesAreWhole` cites no assumption on its constants; `FramesInOrder` cites
`LinkAssumption`: lengths and caps are numbers, each frame's channel has a cap,
also the channel of the controls, and what a frame of touches brings is a sequence
of touches. `InputsAreKept` cites the same; `PanelStaysSound` cites it and `PanelAssumption`:
the panel has rows and columns, the display driver sends sequences, of numbers with
the commands of window and counters (`Coordinates`), and a picture has a colour for
each byte of the panel.

- `ExchangesAreWhole`: `MailInv` says of each exchange whose turn it is. The
  program the main thread has left (`OpsInv`), the place of the firmware
  (`CpuInv`) and the flag of the box tell whether a request is being put down,
  lies there, is being read, or has its answer in the box, and `Kept` how many
  accepted requests are then not read and how many reads not told: one of the
  console, which answers in the box of the request (`ConsoleMail`), up to two of
  the debug server, whose firmware may have read a request while its last answer
  still waits (`DebugMail`). Box, firmware and log then hold the same request.
  `ConsoleAside`, `DebugAside`, `RequestAside` and `ResponseAside` are what a
  step that is not about that box leaves alone.
- `FramesInOrder`: `StreamInv` says that the bytes under way, the rest of the chunk
  before them, are the end of the stream of this connection (`Placed`), and that
  header, payload or what is left to discard is of the first frame not yet
  consumed. So no turn of the loop takes bytes of two frames, and a header that was
  collected is always a frame's (`Noise` is never met). The frames that fit are a
  recursive function of how many have arrived; the lemmas on it (`EndsIs`,
  `FittingIs`, by `LeastMember`, as the library's induction is out of reach) say
  that it grows at its end only.
- `InputsAreKept`: `InputInv` says, of each place the input goes to (the touch
  queue and the controller, the button queue, the byte of held keys, the bytes of
  key events), that it has all that was handed over but what the program of the
  main thread still holds for it: `TouchDone` of the touches, `KeysDone` of the
  keys, each with the stages that come before its own. Between the read and the
  write of the byte of held keys the value read is still the byte's (`CopyPart`),
  since no one else writes it. A byte of events the firmware may clear in between:
  what was read is then more than what lies there, so writing it back loses
  nothing, and an event is in its byte or taken (`EdgePart`). This holds for a
  firmware that takes and clears at once, or never; `polls` is a hypothesis of that
  one conjunct, and a firmware that polls in two steps refutes it (the run
  `link_poll`). That frames are handed over one at a time, each after the program
  of the last is done, is `MailInv` and `StreamInv`. The rest is of sequences: a
  capped queue stays an end of its history (`Tails`), a fold over a payload is the
  queue after its last touch, the fingers after two payloads are those after both
  in a row (`AfterJoins`), and a key more changes the held keys at that key only
  (`HeldGrows`).
- `PanelStaysSound`: of the panel, `Sane` says its types and that BUSY has its
  timer, after any command, data, pin or picture; a transaction is a fold, which
  `FedIs` lays out as the states between its bytes. `WalkIsWindow` is the walk of
  the write pointer: the byte numbered `H * q + r` of a window of height `H` is the
  one of column `q` and row `r`, counted from the pointer's start (`Columns` has the
  arithmetic), so that a walk of as many steps as the window has bytes meets each.
  `DisplayInv` adds `Shown`, that the panel has what the firmware exports, for the
  time its frame is written: the firmware is then in the publish hook
  (`FirmwareWaits`), and the main thread, which takes BUSY back or writes its own
  frame, changes no picture.

`SimCoreProofs`, from `WindowsAssumption`, `CpuAssumption`, `StackAssumption` and
`ServicesAssumption`, for a register file of any size, any stacks and sizes of the
tables, any activities, hooks and interrupt levels among the core's seven.
`StackAssumption` is the firmware's: a stack has room for every function that may
be live, and below the newest for the areas its windows are saved to. Without it
no save area would be where the core looks for it.

- `AnswersAreHonest`, `EventsAreKept`: `ServicesInv` has a part for each table.
  `LocksInv`: the depth of a queue is what was granted of it, also for handles
  older than the last reset. `WordsInv`: the word is the sum of what was added,
  and the flag up just while one context holds the lock. `KeysInv`: a key that
  was not created since the reset and set has no value. `EventsInv`: what a helper
  has read of the second register is of that register, so a completion is up
  until it was told. A reset may fall between any two steps of a helper.
- `ContextsAreKept`: `ContextKept` needs `NestInv`: each interrupt in progress
  masks its own level, and until its handler has put the context aside all
  levels up to EXCM's (`Masked`); so the ones on top are of higher levels
  (`NestOrder`), and only a handler is interrupted by another (`NestPcs`). What
  would overwrite a context is masked until the context is saved.
- `FramesAreKept`, `ThreadDataIsKept`: `WindowsInv`, inductive together with
  `NestInv`, says where the registers of the live functions are. `Chain`: each
  frame starts where its caller's call rotated to, returns there, and has the next
  place on the stack. `Ring`: from some frame `o` on, the frames are in the file,
  the window start bits are theirs and no others, none reaches into the next, and
  the newest with the call it makes not into the oldest. `InWindows` and
  `InMemory`: the quads of these hold what their functions wrote, and the save
  areas on the stack hold it for the frames before `o`. The lemmas on `Up` and
  `Down` (the distance of two windows, modulo the file) are the arithmetic of the
  rotation. On them rest, for each operation of the core, that an overflow moves
  `o` up by one frame (`OverflowedHolds`), an underflow or a safe return
  down (`FillHolds`, `SafelyReturnedHolds`), an ENTRY appends a frame (`EnterHolds`), and that an answered call
  touches only quads of the call in progress (`AnswerWhole`). `Control` says that
  the core is in the newest function and that a call in progress left the return
  word its ENTRY will read, also across interrupts and recovered faults. `Deep`
  bounds the frames by the calls spent, so that the stack suffices.
  `FramesAreKept` excludes the hook of task creation, whose answer overwrites the
  caller's a2: that is the run `core_task`. `ThreadDataIsKept` needs no such
  hypothesis; there, the invariant leaves out what the quads with an a2 hold
  (`Unmarred`), and keeps return words, stack pointers and places. Both speak
  of a core that has not strayed, that is, resumed at a stale EPC1 where no live
  function is.

Only model-checked:

- liveness (`EveryRequestSettles`, `GoneThreadsEnd`, `EveryLineAnswered`, `Ended`),
  which is out of the prover's reach.

## Observations

Numbers in parentheses are lines of the file named before. Three disagreements of
the code with its own words have runs: `core_task` and `link_poll` with a comment,
`sd_status` with an assertion. The following were met while modelling; they have
no run of their own.

Core and services:

- The second scheduler start jumps to the entry unconditionally
  (`target_xtensa_translate.c:3400-3414`), against the comment at
  `target_xtensa_exc_helper.c:2885-2889`; the loop task's stack seeding is
  overwritten by its ENTRY (2565-2583 of the translator).
- An illegal instruction may resume at a stale EPC1 (comment at 931-936).
- A queue receive ignores its handle; the queue and key tables are never freed
  over resets; a string function stops at 4096 bytes.
- A latched I2C event and the raw status may report one completion twice.
- The tick timer wakes CPU 0 without raising the interrupt its comment names
  (`hw_xtensa_esp32s3.c:508-515`).

Heap:

- A heap start in the last 63 bytes before the ROM stub is aligned up into the
  stub (1428-1455).
- A query for SPIRAM and DMA reports PSRAM, an allocation takes internal memory
  (2648 against 1923); a calloc whose product overflows gets a block of 64 bytes
  (2284); a size query answers 64 for an unknown pointer (2708).

I2C:

- A START refused without ACK check raises no interrupt; a refused byte leaves
  the rest in the FIFO, where the next list takes it for an address unless the
  driver resets the FIFO.
- The completion event is shared by both controllers. A bridged transfer runs
  without the big lock, and reaches a device that is held, against the comment
  at `esp32_i2c.c:30`.

SD card model:

- A write to a protected group reports the violation and writes all the same;
  erase is not refused on a card the host made read-only; the erase bound uses
  `>` where the size is already out of range.
- A lock command with the exact password cannot clear or unlock; a forced erase
  erases no data; CMD0 forgets permanent protection and password.

SPI, radio and board:

- A conflict, or the host's reset of the bus, resets the radio, which then has
  no power until the rail is toggled (`lilygo_sx1262.c:764-774` from
  `esp32s3_gpspi2.c:172-175`).
- A packet scheduled without delay during a continuous reception sets no timer;
  a transfer of no bytes clears USR without an interrupt; select lines that are
  low over a reset are forgotten.
- A restart resets the expander without telling its power sinks, so the
  receiver stays powered; its pending identity reply outlives a power-off.
- Two quick touches merge before the firmware acknowledges the first; a touch
  that ends while its report is open raises no INT.
- A firmware that polls the receiver faster than the reply is delayed gets no
  sentences.

Display and host link:

- The header of the SSD1677 model says a frame is pushed at Master Activation
  (`ssd1677_gdeq0426t82.c:13-14`); the push is suppressed where the firmware
  exports its frame buffer (620-628), and the frames shown otherwise may be torn.
- An exported pointer of null keeps the old buffer. A key event that the firmware
  takes between the main thread's read and write of its byte is put back, and
  reaches the firmware twice (1561-1571 of the exception helper).
- A debug request that finds its box busy is dropped, and the poll for a
  response with it.
- The CHSC6440 numbers fingers by position; the FT6336U releases INT at the
  stop of the pointer write.

Browser and hosts:

- Overlapping saves lose the card: the cleanup of one deletes chunks of the
  metadata both had read, which the metadata of the other reuses (`sd-card-store.js:163`, comment at 157). The
  worker's queue keeps commands apart, but not the persist interval, nor another
  tab. An orphan chunk is not retried by the next write, which deletes only
  chunks of the metadata it read.
- After a start that failed, the next one mounts the failed start's card
  (`browserSimulatorRuntimeWorker.js:246`, against `docs/device-studio.md:37`).
  `prepareSimulatedLocationImage` changes the cached card in place, so that
  `persistActiveSdCard` may take a card for stored that is not.
- An IO thread of an earlier run clears the sender of the running one
  (`ipc.rs:167`, against 87-89), and one that binds after a stop leaves a sender
  that accepts frames while no simulator runs (against 114-116).
- Two late answers that the request is not found put an install on the wire
  twice; when a busy guest refuses the first copy and admits the second, it is
  installed again under a new id (`posDevBridge.ts:111`, comment at 97).

## Not modelled

`PROJECT.json` gives the reason for every component.

- Of the core: ordinary instruction translation, CPU 1, NMI, double exceptions,
  the handler of a zero vector, helpers without a caller, ELF symbol resolution,
  traces, 64-bit division. Of the machine: memory map, device creation and ELF
  patching, a straight line that runs once.
- Of the devices: the PCF8563 clock, eMMC, register contents that no decision
  reads, the second memory of the SSD1677, LUT bytes, frontlight and VCOM.
- Build and patch scripts, static tables and stateless delegation have no state
  of the program's own. FAT images, flash images and the QEMU resolver are
  algorithms on bytes or paths.
- The headless harness, Device Studio's session and the web packer have state
  worth a module (`StudioSession`: one application at a time and nothing after
  dispose; `WebPack`: the published directory is an old or a new build). They
  are the natural next modules, before the PCF8563 and the flash layout as
  operators.
