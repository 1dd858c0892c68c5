# A TLA+ model of the Arduino core for the K210

`arduino-k210` puts the Arduino API on the Kendryte K210, a two-core RISC-V chip, on top of the
RT-Thread kernel. Most of what can go wrong in it goes wrong between contexts: a user task, a
library's own task, an interrupt that runs the user's callback, a DMA channel. This directory
models those parts, checks them with TLC on small instances and proves the central ones with TLAPS.

Paths below are relative to `src/`. `HAL` is `cores/k210/k210-hal`, `SDK` is
`cores/k210/k210-sdk/drivers`, `LIB` is `libraries`.

## 1. The system

| Part | State | Operations | Who calls it |
|---|---|---|---|
| Timer channel table (`HAL/k210-hal-timer.c`) | owner pin of 12 channels, 12 placeholder pins | get, release (Ticker); set, clear for a pin (tone) | user task, callbacks, tone task |
| Timer driver (`SDK/k210_timer.c`, `k210_plic.c`) | instance per channel, control and status registers, PLIC entry per pair of channels | register, unregister, enable, interrupt handler | Ticker, the interrupt |
| Ticker (`LIB/Ticker`) | channel held, callable | attach, once, detach, fired, destructor | user task, callbacks |
| Tone (`cores/k210/Tone.cpp`, `SDK/k210_pwm.c`) | message queue, the task's message and channel | tone, noTone, the tone task | user task, tone task |
| Digital pins (`cores/k210/wiring.c`, `HAL/k210-hal-gpio.c`, `SDK/k210_gpiohs.c`) | table of 32 functions with pin and time stamp, a lock, registered handlers | pinMode, pinModeClear, digitalRead/Write, attach/detachInterrupt | several threads |
| Pin multiplexer (`SDK/k210_fpioa.c`) | function of each of 48 IOs | set function | everything |
| I2S (`LIB/I2S`) | direction, double buffer, DMA transfer | begin, end, read, write, available, flush, completion | user task, DMA interrupt and its callback |
| Wire (`LIB/Wire`, `SDK/k210_i2c.c`) | owner, phase, task, transmit and receive buffer | begin, end, the transmission calls, requestFrom, read, flush | several tasks |
| SPI (`LIB/SPI`) | owner, transaction flag, recursive mutex, the port's FIFOs | begin, end, setters, transactions, transfers | several tasks |
| UART, Serial (`HAL/k210-hal-uart.c`, `cores/k210/HardwareSerial.cpp`) | device, receive FIFO, callback | begin, end, read, write, onReceive | user task, interrupt |
| Ring buffer (`cores/k210/RingBuffer.h`) | two indices, a count | store, read, clear | one producer, one consumer |
| VFS (`cores/k210/components/vfs`) | registered file systems, descriptor table | register, open, read, write, close | several tasks |
| FAT, SPIFFS and their libraries (`components/fatfs/vfs_*`, `components/spiffs/esp_*`, `LIB/FS`, `FFat`, `SPIFFS`) | contexts, open files, a lock, mount state | begin, end, format, file calls | user tasks |
| Flash (`HAL/k210-hal-flash.c`) | the chip's contents and busy flag | read, write, erase | SPIFFS, user task |
| DMA allocator (`HAL/k210-hal-dma.c`) | the channels in use | get, release | I2S, KPU, display; the flash bypasses it |
| Camera (`LIB/K210_CAMERA`) | lock, frame flag, buffers | begin, end, capture, frame interrupt | user tasks, interrupt |
| KPU (`LIB/K210_KPU`) | model buffer, run flag, DMA channel | load, run, end | user task, interrupt |
| Display bus (`HAL/k210-hal-tft-bus.c`) | mode and frame width of the controller | begin, end, five kinds of write | user task |
| SD card (`components/sdcard`) | card state, chip select | commands, block reads and writes | FAT |

How they interact:

* **Ticker and Tone share one table.** Ticker takes channels with interrupts disabled, on both cores,
  since in this build `rt_hw_interrupt_disable` is the global lock of the SMP kernel; the tone task
  takes them without any lock, so on the other core it may step inside a ticker's section.
* **Two timer channels share an interrupt line** and therefore one PLIC entry.
* **The user's callbacks run in interrupts** (timer, DMA, GPIO) and may call back into the library.
* **Transactions span calls.** Wire and SPI lock each call; what holds between two calls is decided
  by flags that record the task (Wire) or do not (SPI).
* **DMA channels are shared** by I2S, the KPU and the display through an allocator, and without it by
  the flash and by a KPU run whose caller chose the channel.
* **SPI ports are shared** by `SPIClass` objects through `owners[]`, and without it by the display
  (`spi0`) and the SD card (`spi1`).
* **The descriptor table is read without its lock**, twice per call, while other tasks open and close.
* **Assertions stop the core.** `configASSERT` is an endless loop; where a condition can fail, that is
  a behaviour of the model (`hung` in Ticker, `stuck` in Tone, `halt` in Pins).

What makes each part correct is stated as a property in section 3; the list of what is hard to test,
line by line, is `hazards` in `PROJECT.json`.

## 2. Modules

| Module | Models | State and actions |
|---|---|---|
| `HalTimer` | the channel table | operators on its two arrays; used by `Ticker` and `Tone`. Conjuncts and order are those of the C functions, with the loops as "first element of a set" |
| `Fpioa` | `fpioa_set_function` | one operator; used by `Tone` and `Pins` |
| `Ticker` | Ticker, timer driver, PLIC entry | `Detach`, `Schedule` (first critical section) and `Arm`/`ArmFails` (second) run in the context `task` or, from a callback, `isr`; `Expire` is the counter; `Enter` (of the lowest raised line; a pass that finds no entry or nothing to treat changes nothing), `Call`, `Return`, `Acknowledge` are the handler, with the user's callback between `Call` and `Return` |
| `Tone` | tone, noTone, the tone task | the caller's actions, the task cut where it can be preempted (`Receive`, `Find`, `Bind`, `Play`, `Stop`, `Clear`), and tickers, whose critical sections are cut between the scan of the table and the stores (`Attach`, `Take`, `Start`; `Detach`, `Release`), since the tone task runs on the other core |
| `I2S` | one I2S instance, its double buffer, the DMA | calls from the task or the completion callback are one step each (they run under `InterruptGuard`); `flushRound` is one round of the flush loop; `transferWord` and `transferComplete` are the DMA |
| `Pins` | pins and their GPIOHS functions | the part of a call under the lock, the read of the result after it (`return`) and the use of the result (`apply`) are separate steps of a thread |
| `Wire` | I2C master used by several tasks | one action per call and outcome |
| `SpiBus` | SPI objects of one bus | `begin` is cut at its compare-and-exchange, a transfer at every frame (`push`, `pull`), a word at packing, transfer and unpacking; `Shift` is the controller; `TakenOutside` and `UsedOutside` are the display and the SD card, at any moment |
| `RingBuffer` | the ring buffer | `store_char` and `read_char` cut at every load and store of shared state |
| `BoundedQueue` | – | abstract: a first-in first-out queue that refuses when full |
| `Serial` | one port, the receive FIFO, a task that polls it into a ring buffer, the loop that empties it | extends `RingBuffer`; `LineByte` is the receive interrupt |
| `Vfs` | registry, path resolution and descriptor table | operators on the two tables |
| `Mounts` | begin, end and format of FFat and SPIFFS | one action per call and outcome, each failure point included; `mem` is what the contexts point to; the context's copy of a base path of 14 or 15 characters is cut (`FatCut`) |
| `Files` | open, write, pread, pwrite and close of several tasks | extends `Mounts`; a call is cut at its two unlocked reads of the table, the driver's call and the change under the lock |
| `FileTable` | – | abstract: a descriptor stands for the file its own `open()` named, until `close()` or the unmounting of the volume |
| `Flash` | write, erase and chip erase, at the level of the chip's commands | a page is the set of its 1 bits, so that programming clears and never sets; `Reset` and `PowerLoss` at every step |
| `FlashStore` | – | abstract: a write replaces exactly its cells, sector by sector, and returns; a fault harms at most the sector being written and those the chip is working on |
| `Dma` | the channel allocator and what each channel carries | operators; used by `Vision` |
| `Dvp` | the camera bus | begin, end and capture of a task, frame start and end in the interrupt |
| `Vision` | camera, KPU, display, I2S and flash as users of the channels and the heap | composes `Dma` and `Dvp`; the KPU object is static or on the stack (`Construct`), its three loads and a run on a channel of its caller are included |
| `MCTicker`, `MCPins`, `MCFiles`, `MCVision` | – | symmetries and values for TLC |
| `TickerProofs`, `I2SProofs`, `WireFlashProofs`, `SerialToneProofs`, `VisionProofs`, `SpiBusProofs`, `PinsProofs`, `FilesProofs` | – | theorems |

Abstractions, each chosen because no property tells the difference: intervals are `zero`, `ok` or `long`
(beyond the 32-bit counter); a tone's frequency is one the timer can make or not; an I2S or serial byte is
its number in the stream, so order, loss and repetition are visible and nothing else is; time stamps of
pins are ranks, since only their order is used; a Wire byte is the task that wrote it; an SPI frame is its
number and the bit order it was turned with; a path is the sequence of its names; a file is its volume and
path; a pin has no level. Variables marked *history* or *ghost* record what the program asked for or that
a known deviation has happened, and are read by properties only.

Actions called *seeded fault* are wrong versions of the definition that follows them, used to test that
the properties notice (`mutants` in `PROJECT.json`); no specification includes them.

Modelled from their use, not from source in the repository: the counter of a timer channel
(`Expire`), RT-Thread's message queue (`rt_mq_send`) and serial device (`Received`), the DMA and the I2S
peripheral (`transferWord`), the SPI controller (`Shift`), the flash chip (`ChipDone`), the DVP, the
microsecond clock (`Stamped`), FatFs and SPIFFS (their calls succeed or fail). Whether an expiry that
is pending when a channel is disabled survives is not documented for the chip; `RawSurvives` lets a run
take both answers.

What the programs are assumed not to do:

* Ticker: callbacks configure their own ticker or one the task leaves alone.
* Serial: `begin` and `end` are not called while another task is in a call on the port
  (`k210-hal-uart.c:382` takes the FIFO's address before it disables interrupts), and `clear` of a ring
  buffer only while both sides are quiet, as its comment asks.
* Tone: pins are none of the ticker's placeholder numbers.
* SPI: an object is not used while its `begin` is under way (`ready_` is set before the port is
  configured, `SPI.cpp:58`), and `end` is called when no other call is. A task may call
  `endTransaction` without having begun one, once.
* Files: a task uses the descriptors it opened; `begin`, `end` and `format` are called while no file
  call is in progress; descriptors may be left open when a volume is unmounted, and are then not used
  again; SPIFFS is not formatted with files open.
* Flash: one caller at a time.
* Camera: a frame-finish interrupt comes for converted frames only (`k210_dvp.h:249`, "convert finish").
* KPU and display: one task uses each.

## 3. Runs

State counts are distinct states, times are with two workers. Properties that hold only outside a
known deviation of the code say so in their definition, with a history variable that records the
deviation, so that the deviation itself is explored too. Where a hazard of `PROJECT.json` is such a
deviation, the property does not deny it: it says that nothing but this deviation breaks the promise.

### Ticker

* `ticker_tasks` (179 340 states) – three tickers on one device (four channels, two lines), two
  configured by the task and one by callbacks; callbacks may also detach or re-attach their own ticker.
  All three interval classes and both answers of `RawSurvives`. Two of the three can share a line or
  not, a callback can detach or re-arm the ticker that is next in the handler's snapshot, and the
  interrupt can come between the two critical sections of `schedule()`.
  - `NoStaleCallback`: the driver never holds a callback into a detached or destroyed ticker.
  - `OnceFiresOnce`: a single shot fires once.
  - `FiresWhenDue`: no callback before its own interval has elapsed, and one for each. The exception is
    an expiry left on the channel, latched or in the snapshot, when a schedule took it again
    (history `life = "inherits"`): this schedule may fire early, once, and then only when due.
  - `ArmedUntilFired`: an armed ticker is not switched off by the handling of an earlier schedule.
    Holds as long as callbacks re-arm with `attach` only (`CbModes = {"repeat"}`).
  - `RepeatKeepsFiring` (liveness): an armed, dispatched repeating ticker fires again and again, if the
    core is again and again idle with no lower line raised (`HasTurn`). A lower line that is raised and
    not dispatched is handed out without end, and the ticker starves; the model has these passes.
  - Deadlock is not checked, because an interval beyond the counter really stops the core.
* `ticker_full` (336 771 states, tickers symmetric) – five tickers on four channels: exhaustion and
  recovery of the table. `TableMatchesOwners`: channels and placeholders are taken exactly by the
  tickers that hold them.
* `ticker_dispatch` (violation) – `ArmedIsDispatched` fails: `timer_irq_unregister` clears the PLIC
  entry of a line when *either* pair of the device is empty (`k210_timer.c:359`), so a ticker whose
  sibling is detached goes silent. `RepeatKeepsFiring` therefore assumes dispatch.

### Tone

* `tone_queue` (1 778 677 states) – two pins, a queue of two (so that it fills), four calls, one ticker
  coming and going on the other core, frequencies the timer can and cannot make. Each side may step
  between the other's scan of the table and its stores; a channel on which both worked at one time is
  `contested` from then on (history). `HolderSounds`: a channel that sounds for a pin is heard on this
  pin only, and a pin holds a channel, unless contested, only while it sounds. `TickerKeepsChannel`: the
  control register of a ticker's channel stays the ticker's unless the channel is contested.
  `LastCallWins` (liveness): the last call the queue accepted decides, unless the task stopped in the
  `configASSERT` of `pwm_set_frequency`. Four calls let a pin be started, stopped and started again on
  another channel while the other pin plays. The bound on calls ends the behaviour, so deadlock is not
  checked.

### I2S

* `i2s_stream` (28 299 states) – slots of two words, calls of 1, 3, 6 and 8 bytes, 36 bytes in all:
  partial words, a word spread over calls, exactly full and overfull slots, and several swaps of the
  slots. `TypeOK` (the indices stay inside the slot), `DmaHasItsSlot`, `TxInOrder`, `RxInOrder`: program
  and DMA never use the same slot, and nothing is lost, repeated or reordered. `FlushDrains`: a flush
  that does not time out leaves nothing. `WholeWordsLeave` (liveness): data leaves without another call.

### Pins

* `pins_threads` (1 441 011 states up to the symmetry of the pins without interrupt) – two threads,
  three pins on two functions, so that every `pinMode` may evict, and `pinMode` on pins that are bound
  already. `TableMatchesMux`: the entries and the multiplexer agree. `CallsReachPin`: a call acts on the
  function of its pin, and the assertion of `gpiohs_set_drive_mode` holds, unless another thread moved
  the entries during the call (history `moved`) or the pin has two entries (`twice`).
  `LastUsedKeepsFunc`: the pin used last is not evicted. `InterruptsStayWithPin`: an interrupt runs the
  handler of its own pin.

### Wire and SPI

* `wire_tasks` (75 930 states) – three tasks, two objects, two valid addresses and an invalid one, a
  buffer of two bytes and up to three bytes asked for, so that it overflows. A task is not told that
  `beginTransmission` was refused and goes on. `SendsWhatWasAsked`: what is sent or deferred is exactly
  the caller's transmission. `ReadsCarryOwnCommand`: `requestFrom` sends the caller's own deferred
  command or none.
* `spi_tasks` (397 760 states) – two tasks, two objects of one bus, FIFOs of two frames and buffers of
  three, nested transactions, setters, one `endTransaction` by a task that began none, and the display
  or the SD card initialising and using the port at any moment. `SettingsStable`: a transaction keeps
  its settings, a word its byte order, and the port runs with the settings of the transaction unless it
  was touched from outside since it was configured (ghost `intruded`). `AnswersInOrder`: frames come
  back in order, none lost to a full FIFO, with the same exception. `BusAccounted`: one owner among the
  objects, and the recursive lock is held for what is open and nothing else, however the port is
  touched, unless a task ended another's transaction (ghost `foreign`). `CallsReturn` (liveness), with
  both exceptions. On a touched port answers may come or not, so a transfer may wait for ever.

### Serial

* `serial_port` (169 597 states) – five bytes through a FIFO of three slots into a ring buffer of two,
  so that both overflow and both wrap, with `begin`, `end`, `onReceive` and `clear` in between.
  `PipelineOrdered`: from the line to the loop bytes keep their order and none comes twice.
  `RingIsQueue`: the ring buffer implements `BoundedQueue`. `Drains` (liveness): nothing stays behind.

### Files

* `files_tasks` (1 119 713 states up to the symmetry of tasks and names) – two tasks, two names, FAT at
  `/d` and SPIFFS at `/d/s`, two slots per volume and three descriptors, one beyond those that
  unregistering clears (`VfsMax = 2`); the context keeps the FAT path or a cut one. `SlotsMatchTable`:
  descriptors, the drivers' slots and what the tasks hold agree. `MountedIsUsable`: a library that says
  it is mounted is reached by its paths, and FFat can be unmounted again unless its path was cut or
  there was no memory for it. `LockReleased`: the FAT lock is held only during a call.
  `ImplementsFileTable`: refinement of `FileTable`. Behaviours end where the code is undefined (history
  `undefined`: a registered context has been freed, or a path is compared with NULL), so deadlock is not
  checked. `write`, `close`, `pread` and `pwrite` look the descriptor up
  alike, so which of them a call is is chosen when it reaches the driver.

### Flash

* `flash_writes` (171 616 states) – two sectors of two pages, every range, every data, the chip busy or
  not, reset and power loss at every step. `ProgramTakes`: no page is programmed with a bit it cannot
  take. `ImplementsStore`: refinement of `FlashStore`, its promise that every call returns included.
  Two sectors are enough for a write to start inside one and end inside the next, and for an erase of
  one unit to overlap the next; two pages for one that the call does not touch.

### Camera, KPU, display

* `vision_tasks` (1 508 790 states) – two tasks, two channels, two heap blocks, two kinds of display
  write. `ChannelsMatchHolders`: channels are marked exactly while held, also when the flash or a run on
  a channel of its caller's choice disturbs them. `DeliveredFrame`: a delivered frame is whole, belongs
  to this capture and stays untouched, a late frame after a timeout included. `HeapAccounted`: every
  block has one owner or is lost, and it is lost only where two begins of the camera raced or a load
  follows the refusal of a block of the sketch; nothing is said after an `end()` that freed what it does
  not own. `PanelWidth`: the panel gets every write in its width. `WaitsEnd` (liveness): a capture
  releases the lock and a run ends, unless `begin` had no memory or another transfer took the run's
  channel. Two kinds of write, of different widths, make every change of mode happen.

### Refinements

| Detailed | Abstract | Mapping |
|---|---|---|
| `Files` | `FileTable` | a descriptor is bound from the end of `open()` until the driver has closed the file; the file is what the driver's slot holds |
| `Flash` | `FlashStore` | the sector under read-modify-write shows its old contents until its last page is programmed |
| `RingBuffer`, `Serial` | `BoundedQueue` | the contents start at `read_` and are `count_` bytes long; a byte counts as read when `count_` goes down |

### Fairness

* Ticker: counters run (`WF Expire`), calls, acknowledgements and a `schedule()` begun in a callback go
  on (`WF`). `SF Enter(l)`: a line that is again and again the lowest raised one while the handler is
  idle is taken, possibly by a pass that treats nothing; it says nothing of the lines behind it.
  `SF Return`: a callback does a finite number of calls. Nothing is assumed of the task.
* Tone: the tone task runs whenever it has work (`WF`): the user's task sleeps.
* I2S: words move, the interrupt is taken, callbacks return (`WF`). The program is not assumed to call
  anything.
* SPI: a waiting task gets the mutex in the end (`SF`: RT-Thread hands it to the waiter that has waited
  longest at equal priority), a task in a call goes on (`WF`), a task ends the transaction it began
  (`SF`), the controller shifts (`WF`).
* Serial: the polling task and the loop run (`WF`): they have equal priority and share the CPU by the
  tick.
* Flash: the chip completes a command it has taken, the caller runs (`WF`).
* Vision: a capture ends by a frame or by its timeout, a model run, a load and a display write go on
  (`WF`). The tasks have equal priority; the camera's spin lock is held across a sleep, and a waiter of
  higher priority would never let the holder run.

Pins, Wire and Files have safety properties only.

### Deviations met while modelling

`ticker_dispatch` has a run of its own. The others are in the models, or excluded by the assumptions of
section 2.

* Timer. A callback that calls `once()` on its own ticker gets the same channel and is disabled by the
  handler, which reads `single_shot` after the callback (`k210_timer.c:304`). A
  ticker that a callback re-arms on a channel of the handler's snapshot of `intr_stat` fires at once
  (`:291`), and so does one that takes a channel whose expiry survived its release. An
  interval of more than about 44 s loops in `configASSERT` with interrupts disabled, after the channel
  was taken (`:169`). A PLIC entry whose instance was cleared sends the handler to channels 0 and 1 of
  device 0; if none of these is pending, or the line has no entry (`ticker_dispatch`), it returns with the
  line still raised: the interrupt repeats without end and starves the task and the lines behind.
* Tone. Between the scan and the store of `hal_timer_set_pin_func` a ticker may take the channel
  (`k210-hal-timer.c:42`), and between those of `hal_timer_get_free_chn` the tone task may (`:87-90`). A
  frequency above the timer's clock stops the tone task (`k210_pwm.c:49`). Placeholder pins 42 to 47 are
  real pins too (`:67`): `tone(42)` finds the channel a ticker holds under that number; `ToneAssumption`
  leaves these pins to the tickers. A full queue drops `noTone()` silently (`Tone.cpp:125`).
* Pins. `pinMode` twice on a pin leaves two entries, and after a sort `digitalWrite` may use the stale
  one (`k210-hal-gpio.c:51`). `gpiohs_func_table[0].func` is read after the lock is released (`:58`); with
  another thread sorting, `pinMode` may stop in an assertion.
* SPI. `endTransaction` by another task, a nested transaction's second end or one after a refused begin
  ends a transaction whose lock then stays taken (`SPI.cpp:127`). The display and the SD card initialise
  and use `spi0` and `spi1` without asking the owner (`k210-hal-tft-bus.c:167-172`, `sdcard_spi.c:91-94`).
* Serial. A callback set before `begin()` is announced to be set after it (`HardwareSerial.cpp:139`), and
  `begin()` clears it.
* Files. Unregistering clears the first `VFS_MAX_COUNT` (8) descriptors of 64 (`esp_vfs.c:173`). `pwrite`
  on a full disk returns with the lock held (`vfs_fat.c:503`). FFat believes to be mounted when its
  base path cannot be copied (`vfs_fat_sdspi.c:106`). A base path of 14 or 15 characters is accepted
  (`esp_vfs.c:66`) and cut to 13 in the context (`vfs_fat.c:173`): `end()` finds no context and never
  unmounts, and a second one compares with NULL. Formatting SPIFFS twice, the first time mounted,
  frees a context that is still registered (`esp_spiffs.c:387`).
* Flash. `hal_flash_erase` of several units sends the next while the chip is busy with the one before,
  which ignores it (`k210-hal-flash.c:612`). Flash transfers use DMA channels 0 and 1 without the
  allocator (`:94`), while `k210-hal-dma.c:24-25` sets channels 4 and 5 aside "for flash".
  `hal_flash_read_data` stays quad after `hal_flash_set_standard_mode` (`:577`).
* Camera, KPU, display. `begin()` without memory keeps the lock (`BusDVP.cpp:95`); two tasks may both
  pass its test of `_begined` (`:67`). `KPU_Base()` does not set `model.buffer`, which `end()` of an
  object on the stack frees (`KPU.cpp:12`); a load that failed leaves a pointer that `end()` frees
  again; a block that `load_kmodel(buffer)` refused is dropped by the next load (`:50`); a reload leaves
  the run flag of the model before. `run_kmodel` uses a channel its caller chose without the allocator
  (`:283`). A second `hal_tft_begin` keeps the mode of the first while the controller is reset.

## 4. Proofs

All proofs are for every value of the constants that satisfies the assumptions in the modules:
`NumDevAssumption`, `FirstTokenAssumption`, `TickerAssumption`, `I2SAssumption`, `WireAssumption`,
`RingAssumption`, `SerialAssumption`, `NChnAssumption`, `DvpAssumption`, `VisionAssumption`,
`SpiAssumption`, `PinsAssumption`, `VfsAssumption`, `MountsAssumption`, `FilesAssumption`,
`ToneAssumption`, `GeometryAssumption`. They fix types and keep marker values apart; three have content.
`MaxBytes` of `I2S` is a multiple of 4, which keeps the bound on the stream from cutting a padded word. No
file is opened by the name of the directory that the other volume is mounted on (`FilesAssumption`): such a
path would resolve to that volume, by the rule of the longest prefix. And no tone is played on a pin
whose number is a ticker's placeholder (`ToneAssumption`; of the numbers 42 to 53 only 42 to 47 are
pins): the channel table could not tell the two apart.

Two modules hold the proofs of two components each, `Wire` and `Flash`, and `Serial` and `Tone`. They have
nothing in common; no definition or lemma of the one half is used in the other.

**TickerProofs.** `IInv` adds to `TypeOK`, `NoStaleCallback` and `TableMatchesOwners`:
`HandlerInv` (a callback runs exactly in the body of the handler), `PinsDistinct` (needed because
`hal_timer_release_chn` searches by pin: `ReleaseClears` turns the search into the entry itself),
`RequestInv` (what a context is about to arm is detached and nobody else's, because task and callbacks
configure different tickers), `InstanceInv`, and `ShotInv` (a single shot that fired is off, or is the
one in the handler's hands). Theorems: `Invariance`, `TypeCorrect`, `CallbacksAreLive`, `TableIsExact`,
`OnceEndsInactive`, `OnceIsOnce`; and `StaysArmed`, under the extra assumption that callbacks do not
re-arm with `once()`, the deviation at `k210_timer.c:304`.

`CallbacksAreDue` proves `FiresWhenDue` for all callbacks and both answers of the chip. `DueInv` is what it
needs: a ticker whose channel has an expiry that the handler has still to call for (`Leftover`: latched or
in the snapshot, and not the one in the handler's hands) is due or has inherited it.

**I2SProofs.** The inductive invariant is stated as a predicate `Good(b, mem, in, out)` of an instance,
a memory and the two counters, so that it can also be said of the intermediate instances a call passes
through: `Shape` (a busy transfer is whole words in the slot the program does not use, a sender has
consumed nothing, a reception always fills the slot), `Tx` and `Rx` (`TxInOrder` and `RxInOrder`, with
the sent bytes a whole number of words) and `Rest` (an instance without a direction has moved nothing).
`IInv` adds where the task may be in `flush` and `end`. One lemma says that `service()` keeps `Good`
(`ServiceKeeps`), and each action is a change that keeps it followed by `service()`. Theorems:
`Invariance`, `TypeCorrect`, `SlotsAreDisjoint`, `SendingInOrder`, `ReceivingInOrder`, and the action
property `FlushSendsAll`.

**WireFlashProofs**, first about `Wire`. `IInv` is `TypeOK` with `BufferClean` (an idle bus has an empty
buffer), `OwnerKnows` (the task recorded on the bus believes to be in a transmission), `BufferIsAsked`
(unless it overflowed, the buffer is what that task asked for) and `DeferredIsPending` (a task that
believes to have deferred a command has). Theorems: `Invariance`, `TypeCorrect`, `FramesAreOwn`,
`CommandsAreOwn`.

Then about `Flash`, for any number of sectors and pages, any bits and any set of erase commands.
`FlashInv` is `FlashTypeOK` with `RangeInv` (what a call has left lies on the chip, and an erase keeps a
multiple of its unit), `OpInv` (a command of a write is the one the call waits for, with the page it last
sent) and `CalmInv`: if the chip was quiet when the sector was read, the pages behind `index` hold what
they should and the others still have every bit they need. The last is what `ProgramTakes` rests on, and
where the comparison of the call's own pages only (line 405) has to be enough: the other pages are
programmed with what they hold. `ProgramsTake` proves the property. `WritesAreAtomic` proves that `Flash`
implements the safety part of `FlashStore`. The mapping shows a sector as it was before until its last
page is programmed; so that step is the abstract `Commit`, reading a sector is `Look`, the other steps of
a write are stutters, and an end of the chip's work is `Settle` for a command that nobody waits for (an
erase, or what a reset cut off) and a stutter otherwise. The arithmetic is in lemmas of its own: the
lowest sector of the cells left is the one `addr` lies in (`FirstIsSector`), what is programmed is the
merge of the two (`MergeIsBlock`), and what is left after it is the rest of the range (`RestIs`); the
search of `hal_flash_erase` for the largest command that fits finds one (`UnitFits`), and its range is a
run of whole sectors (`WholeSectors`).

**SerialToneProofs**, first about `RingBuffer`. `RingInv` relates the two indices and the count at every step
of the two sides: between its store to `data_` and its update of `count_` the producer owns the slot after
the contents, and the oldest byte stays in its slot until the consumer has counted it out.
`RingInvariance`, `RingTypeCorrect`, and `RingRefinesQueue`: the ring buffer, with one producer and one
consumer stepping in any order, implements `BoundedQueue`, for every capacity. The steps that change the
abstract queue are the two updates of `count_`; every other step maps to a stutter, which is where the
slot's stability is needed.

Then about `Serial`. `PortInv` keeps both indices of the device inside its FIFO and its contents bytes,
which is what `read_one` needs for what it hands to `store_char`. From it every step of `Serial` is a
step of `RingBuffer` or leaves it alone (`PortUsesRing`), so the theorems about the buffer carry over:
through `begin`, `end`, `clear` and callbacks the buffer of the port implements `BoundedQueue`
(`PortIsQueue`), and all four indices stay inside their buffers (`PortTypeCorrect`). `BytesStayInOrder`
proves `PipelineOrdered` from `OrderInv`: what the loop, the queue and `store_char` hold rises
(`Rises`) and stays below every byte in the FIFO and below the next one on the line, the FIFO itself
rises, and a task between `available()` and `read()` finds a byte. The proof reuses the refinement: a
step of either task is known by what it does to the abstract queue (`StoreMoves`, `ReadMoves`), so the
order is argued about `Append` and `Tail`, not about slots. The device needs two cases: a FIFO with
room (`RoomRises`), and a full one, which loses its oldest byte (`FullRises`).

Last about `Tone`, for any number of devices, pins and tickers and any queue. `ToneInv` is `ToneTypeOK`
with `TaskInv`, `TableInv` (no pin and no placeholder has two channels), `ChannelInv` (what the task still
knows of its channel whatever tickers do: no other channel is the pin's, and it is no other pin's),
`RouteInv` (a pin's channel is heard on that pin only and sounds, unless the task is busy with it or it is
contested), `JobInv` (what a ticker knows inside its critical section: its placeholder is its own, and
unless the task came across the channel the entry is still what the scan found) and `TickerInv` (on channels
never contested, the task's is its pin's and a ticker's is its own timer). `ChannelInv` has to hold on
contested channels too, because half of `HolderSounds` is claimed there; `TableInv` cannot say that a held
placeholder is in the table, since a channel the task overwrote leaves one held for ever. Theorems:
`ToneInvariance`, `HoldersSound`, `TickersKeepChannels`.

**VisionProofs.** Four invariants, each shown to survive the steps of the other parts by one lemma
(`PlainStep`, `FrameElsewhere`, `PanelElsewhere`, `HeapElsewhere`). `ChannelInv`: the table, the holders
and the transfers agree (`DmaInv`), which `GetKeeps` and `ReleaseKeeps` show under the contract that a
driver asks with no channel and gives back the one it has; that the drivers keep the contract is
`HolderInv` (the KPU and the display hold a channel exactly while in a run or a write). `FrameInv`: the
task that polls has the lock, and the flag is set exactly when the frame asked for has ended.
`PanelInv`: the remembered mode is the controller's unless begin was repeated. `HeapInv`: a load holds a
block exactly while it is under way, and until an `end()` freed what it does not own a block is allocated
exactly when it has one owner or is lost (`Sound`), where the flag `load_kmodel` is set only for a block
that is owned. Theorems: `ChannelsAreHeld`, `FramesAreWhole`, `PanelIsFramed`, `HeapIsAccounted`, for any
number of channels, tasks and blocks and any channel a run is given.

**SpiBusProofs.** `IInv` is `Types` with `CallInv` (a begin between its compare-and-exchange and `ready_`
owns the bus and is the only one; a call under the mutex is on a ready object), `OwnerInv` (a mutex exists
only on the owner's object), `LockInv` (the depth of the recursive mutex is the number of reasons to hold
it: transaction, word, transfer, and a transaction that another task has ended; whoever has a reason is
the holder), `SettingsStable` itself, and `FifoInv` (unless the port was touched from outside, the two
FIFOs hold exactly the frames between `received` and `sent` of the one call that moves, in order, never
more than their depth). No part speaks of `inUse`: the display and the SD card set it whoever owns the
bus. `BusAccounted` is not inductive without the last reason of `LockInv`: `endTransaction` by the wrong
task leaves the mutex of the other task taken. Theorems: `Invariance`, `BusIsAccounted`,
`SettingsAreStable`, `AnswersComeInOrder`, for any number of tasks and objects, any depth and any sizes.

**PinsProofs.** Lemmas on the operators first: a bound pin has a first entry (`FirstIs`), ranking keeps
entries and the order of the stamps (`RankedIs`, through the cardinality of the sets of smaller stamps), a
stamp of a new microsecond is the strictly latest (`StampedIs`), and whatever `qsort` does with equal
stamps, it permutes the entries and puts a least one first (`SortedIs`; that an injection on a finite set
is onto gives that no entry is lost). `IInv` is `TypeOK` with `TableInv` (every function once, bound pins
carry it), `MuxInv` (one function drives one pin), `CallInv` (the sorting thread has the lock, and a call
that nobody disturbed still finds its entry), `IrqInv` (a registration that is not lost still has its
entry) and `LastInv` (the pin used last has the strictly latest stamp). Theorems: `Invariance`,
`TableAgrees`, `CallsActOnPin`, `InterruptsAreOwn`, and the action property `LastUsedIsKept`.

**FilesProofs.** Lemmas on the searches first: a table that is not full has a first free entry (`FirstIs`
and its uses), and the longest matching prefix exists (`Resolves`, from `GreatestOf`). `IInv` is `TypeOK`
with `HeldInv` (a descriptor has one holder), `LockInv` and, until the code is undefined, `Sound`:
`RegistryInv` (a context is registered once, under the path of its library, as long as it is allocated; a
FAT context with its whole path is mounted and known by it, one with a cut path may not be), `CallInv`
(what a call read of the descriptor table without the lock still holds when it is used), `SlotInv` (a held
descriptor leads to a registered file system), `RefInv` (a slot that holds a file has one descriptor or
one call of `open()`, and the other way round) and `VolumeInv`. `CallInv` is what the two unlocked reads
need, and it rests on `HeldInv`: entries change only under the task that holds the descriptor. The steps
fall into three kinds: eight leave descriptors and slots as they are (`NeutralStep`), five open or close,
the rest mount or unmount with no call in progress. Theorems: `Invariance`, `TablesAgree` (the
cardinalities of `SlotsMatchTable` from `RefInv`), `LockIsReleased`, `MountIsUsable` (a prefix of a
library's path that is no shorter than its base path is the base path, `LongPrefix`) and
`FileTableIsImplemented`, the refinement: `Bind` is the abstract open, `DriverClose` the close, `Write`
and `Transfer` the write, every other step of a task and every mount a stutter or `Rest`.

Every invariant and every action property of a passing run is proved. Only model-checked are the liveness
properties, since fairness and `ENABLED` are beyond the prover: `RepeatKeepsFiring`, `LastCallWins`,
`WholeWordsLeave`, `WaitsEnd`, `Drains`, `CallsReturn`, and the part of `ImplementsStore` that says that
calls return (`Returns` of `FlashStore`).

## 5. What is not modelled

`components` in `PROJECT.json` lists every part with the reason. In short: third-party code (FatFs,
SPIFFS, nncase, imlib, stb_image), the prebuilt kernel, pixel and sample arithmetic, cryptography,
tables of register values, start-up code and packaging scripts are left out for good. They are most of
the repository's lines: what is left, the code that keeps state and is called from several contexts, is
a few thousand lines. Inside modelled parts: register layouts, clock set-up, pull and drive strength,
the older `timer_set_irq` interface, the DMA variants of the I2C driver, `pulseIn` and
`shiftIn`/`shiftOut`, sending on a serial port, the directory calls of the file systems, the identity
and status reads of the flash.

## 6. Plan

1. `SdCard` – multi-block transfers, their error exits and the chip select, over the same `spi1`.
2. Pure operators (`Text`): `IPAddress::fromString`, `Stream::find`, `String` growth, `shiftIn`.
