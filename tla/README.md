# A verification development for VMR

VMR (Versal Management Runtime) is the FreeRTOS firmware that manages a Versal
accelerator card from its RPU: it serves the host's commands, flashes and boots
the base PDI, downloads xclbins to the PL and the APU, updates and talks to the
satellite controller (SC), watches the sensors and throttles the clocks.  This
directory holds TLA+ models of its core logic, the TLC configurations that check
them, and theorems about them that TLAPS proves.  Paths are relative to
`src/vmr/src/`.

## 1. Inventory

All tasks run at the same priority under a preemptive scheduler, so any two of
them interleave anywhere they are not kept apart by a queue or a semaphore.

| Component | State it keeps | Operations | Talks to | What is hard | What makes it correct |
|---|---|---|---|---|---|
| Command path (`common/cl_main.c`, `cl_xgq_receive.c`, `cl_xgq_program.c`, `cl_xgq_opcode.c`) | SQ, CQ, six queues of 8 messages, `msg_complete_lock`, the ready word | receive, route, run, complete, abort, reset | host by XGQ, VMC tasks by queues, everything else by calls | three tasks write the CQ; queues fill up; messages travel through other tasks; the firmware resets itself with commands under way | each command completed once, with its own result; the CQ is never overrun; nobody waits for ever |
| XGQ ring (`common/xgq_impl.h`) | slots, two pointers and a copy of each on both sides | alloc, attach, produce, consume, notify | host, APU | pointers wrap, copies are stale, one side restarts | a bounded FIFO |
| Base PDI update, FPT and boot control (`rmgmt/rmgmt_fpt.c`, `rmgmt_main.c`) | partitions A and B, their metadata, boot tag, multi-boot register, `rh_already_flashed`, `rh_boot_on_offset` | flash, backup, set debug type, choose the next boot | OSPI driver, boot ROM and PLM | power loss and failing operations between any two steps; retries; a second writer of the metadata | an image known to work can always be booted; a half written one never looks complete |
| APU channel (`common/cl_xgq_client.c`) | one XGQ, `semaData`, a trunk buffer | probe, identify, log page, download | APU by XGQ; used by three tasks | time-outs, late answers, one id for all requests, an unprotected ring | an answer belongs to its request; a download that succeeds has been delivered |
| PL download and clocks (`rmgmt/rmgmt_xfer.c`, `rmgmt_clock.c`, `rmgmt_xclbin.c`) | AXI gate, UCS, clock wizards, sections of the xclbin | validate, isolate, load, reconfigure, release, trim | sensor task by queue | clock commands of the opcode task in the middle; sections moved in place | the PL is isolated with its clocks stopped whenever it is loaded |
| OSPI driver (`common/cl_ospi_polled.c`) | static message, command and page buffers | erase, read, write, copy, safe write | flash part | shared buffers without a lock, sector arithmetic, endless status polls | a write changes what it was asked to change |
| Reset (`rmgmt/rmgmt_pm.c`) | ready word | stop the service, shut down | PM library | a shutdown that is refused | the ready word tells the truth |
| SC update (`vmc/vmc_update_sc.c`) | state of the update, `data_ptr`, retry counter | enter BSL, erase, send, check CRC, load PC, reboot | SC by UART, program task by queue | retries, lost packets, queries of the version meanwhile | the update ends; success means the image was written |
| SC communication, UART (`vmc/vmc_sc_comms.c`, `common/cl_uart_rtos.c`) | `vmc_sc_lock`, rx and tx events, static buffers, what is known of the SC | request and response, flush | SC, interrupts | stale events, late bytes, time-outs | what is believed of the SC is true; the link comes back after a failure |
| Sensors, ASDM, RMI (`vmc/vmc_asdm.c`, `vmc_sensors.c`, `vmc_api.c`, `rmi.c`) | sensor repositories, `sdr_lock` | monitor, query | I2C, SC, opcode task | locks taken in a certain order, 8-bit sizes | a query sees whole records and stays in its buffer |
| Clock throttling (`vmc/clock_throttling.c`) | averages, activity, thresholds | sample, throttle, enable, disable | sensor task, opcode task | numeric limits, settings changed meanwhile | the clock slows down above the limit and stops above the shutdown limit |
| Log (`common/cl_log.c`) | console buffer, ring of lines | print; collect and dump, which nothing calls | every task | - | lines are whole |
| Log pages, firewall, data validation (`rmgmt/rmgmt_main.c`) | shared memory window | dump a log, clear the firewall, validate a payload | host | bounds of the window | nothing outside the window is touched |
| Platforms, sensor drivers, I2C, set-up of GIC, IPI and PM, memory helpers, debug console, unit tests | tables, registers | register reads and writes | hardware | - | - |

`PROJECT.json` lists the same components with their sources, and under
`hazards` each thing in this code that is hard to test, at its line, with the
properties that would catch it going wrong.

## 2. Plan

The order puts first what loses a card or a command.

| Module | Models | State |
|---|---|---|
| `VmrDispatch`, `VmrDispatchProofs` | command path, with the PL download, SC and reset as far as queues are concerned | done; every invariant proved |
| `FlashUpdate`, `MCFlashUpdate`, `FlashUpdateProofs` | base PDI update and boot | done; every invariant proved |
| `XgqFifo`, `XgqRing`, `XgqRingProofs` | XGQ ring, as a refinement of a FIFO | done; invariant and refinement proved |
| `ApuClient`, `ApuClientProofs` | APU channel | done; every invariant proved |
| `ScUpdate`, `MCScUpdate`, `ScProofs` | SC firmware update: state machine, packets, boot loader, version query | done; every invariant proved |
| `ScLink`, `MCScLink`, `ScProofs` | SC comms task over the interrupt driven UART | done; every invariant proved |
| `Xclbin`, `PlControl`, `MCPlControl`, `PlControlProofs` | container of an xclbin; PL download, clock commands, throttling | done; every invariant proved |
| `OspiDriver`, `MCOspiDriver`, `OspiDriverProofs` | flash driver command by command on stacked chips | done; every invariant proved |
| `Asdm`, `MCAsdm`, `AsdmProofs` | sensor repositories of the three cards, the sweep, the requests | done; every invariant proved |

Liveness is only model-checked, for the reasons in section 5.

## 3. The models

Every module comes with operators marked "Seeded fault" next to the definition
they vary: plausible bugs of that code.  No specification uses them; each is
there to show that some property would notice.

### VmrDispatch - the command path

`RxConsume`, `RxSubmit`, `RxAbort` and `RxNotify` are the steps of
`cl_xgq_receive_func` and `submit_to_queue`; `CompleteReserve` and
`CompletePublish` are `cl_msg_handle_complete`, run by all three tasks, split
where `xgq_produce` has reserved a slot that is not published yet.  The result
of `xgq_produce` is not tested in the code: with no free slot, the address is
the value `Wild`, and the write then hits any slot or none.  `WorkerRecv` is
`cl_recv_from_queue` with the dispatch on the type; the commands that reset the
firmware are completed, with rcode 0, before their callback.  An xclbin goes
through its PL sections (`sects`, at most two), each between a clock-off and a
clock-on request to the sensor task; an SC firmware command travels as a message
through `SCFW_REQ` and `SCFW_RESP`.  A callback that runs to its end in its own
task is one step, `WorkerWork`.  `ServiceStop`, `Shutdown` and `Reboot` are
`rmgmt_pm.c` and the start of the firmware.

Commands are of seven kinds: `pdi`, `xclbin`, `scfw`, `vmr` (program task, the
last with a reset), `quick`, `srst` (opcode task, the latter with a reset) and
`bad` (no such opcode, or a payload its handler refuses).  A member of `Cmds` is
one use of a command id.  The ghost variables `stage`, `outcome` and `reply`
record where each command is, what its handler returned and what the host was
told; no guard of the firmware reads them.  The host (external) keeps at most
`Window` commands in flight and submits only when the SQ has a slot.

### FlashUpdate - the base PDI in flash

`rmgmt_flash_rpu_pdi` step by step: `FlashStart` with its refusals, the backup
(`BackupErase`, `BackupCopy`, `MetaErase`, `BackupMeta`), `CheckSize`,
`FlashErase`, `FlashWrite` with the boot tag masked, `FlashTag`, `FlashMeta`;
the legacy path; `rmgmt_fpt_set_debug_type` in the opcode task.  Erases go by
sectors and writes by pages.  `FlashFail` lets any operation fail; `PowerCycle`
happens at any moment.  `Boot` is the search of boot ROM and PLM (external: from
the multi-boot offset on, the first image that is complete and has its tag)
followed by `cl_rmgmt_init`; `RpuRestart` is the restart of the firmware alone.
A precedes B in the flash; the multi-boot register survives a system reset and
is 0 after a power cycle.

Lengths are in whole pages.  The copy loop then writes one page more than the
size says, and the erase takes one sector more when the length is a multiple of
the sector size, as the code does.  The flash is one range of pages: the sectors
of the FPT, A, a sector that belongs to somebody else, B, and another such
sector.  An image may have any length, up to the whole of that; a legacy image
is erased and written from page 1, over whatever it reaches, with no test of its
length.  The metadata stand for their magic number and size.  Where they lie is
up to the FPT of a card: they are taken to be out of the reach of every image,
the sector behind a partition included.

Three history variables say what the host has asked for since the boot: `clean`
(no command has failed, the firmware was not restarted), `careful` (no command
gives up the running image) and `wayBack` (none gives up the only image that
boots).  No guard reads them.

### XgqFifo, XgqRing - the ring library

`XgqRing` has both peers' copies of both pointers, the register with the
producer pointer, the consumer pointer in memory, and the slots; its actions are
`xgq_produce` (with the entry the caller writes), `xgq_consume`, the two
notifications, allocation in its two observable halves and `xgq_attach`.  The
abstract `XgqFifo` has a queue of published entries and one of entries taken and
not given back.  Pointers are counted modulo `M`, for 2^32.  The RPU allocates
both rings of its XGQ: it is the consumer of one and the producer of the other,
so `allocator` may be either peer.  The loop `xgq_alloc_num_slots` is not
modelled; `N` is what it returns.

### ApuClient - the APU channel

Each step of a request that another task can come between is an action: making
up the request (and copying a trunk), `xgq_produce` in its two halves, the write
of the entry, the notification, each poll, `xgq_consume` in its two halves,
`read_completion`, the check.  The two halves are there because `apu_xgq` is
used without a lock: a task preempted between reading and writing a pointer may
write back what it has read, or read it again.  Requests carry an `id` the
program does not see, to tell answers apart.  An answer may also carry an error.
Tasks use the channel one at a time, and at the same time for up to `Crowd`
requests; `crowded` says that they have.
`overdue` says that some request has been polled for as often as the code does;
like `crowded`, `batch` and `handled` it is there for the properties only.
The APU (external) takes a request, carries it out on what the shared memory
holds then, and answers.

### ScUpdate - the firmware of the satellite controller

One action per state of the machine that `update_scfw` runs through, with its
static retry counters; `DataBegin` to `DataDone` are the loop of the data state,
which cuts the TI-TXT image into packets (`Parse`), sends each and has its CRC
checked.  `QueryBegin` and `QueryParse` are the version query of the opcode
task, which looks for the version with the same static pointers.  At the other
end is the boot loader of the SC (external), which erases, programs and answers.
Each request can be lost, carried out without its answer arriving, or answered
by something unreadable, without a bound on how often.  The image is a list of
tokens: section marks, addresses, lines, newlines and the final `q`.

`image` says what the FPT holds: an image with a valid header, one whose first
symbol is not the `@` of a section, or none.  Without one `StartRefused` is all
that happens; the first symbol is tested in `DataSymbol`, after the mass erase.

Assumed: an answer comes before `do_uart_transaction` times out or never.  The
progress counters are left out.  A
query that reads past the end of the image (the ghost `beyond`) does so inside
a critical section; nothing is claimed of an update a query has mixed with.

### ScLink - the serial link to the satellite controller

The SC comms task goes round its requests (`Begin`, `Send`, `Wait`, `Got`,
`Failed`, `Flush`, `Drain`), over the driver with its receive semaphore, event
group and byte count, the interrupt handler in its three causes (`DataIsr`,
`IdleIsr`, `ErrorIsr`) and the FIFO of the device.  A byte is the kind of its
answer and its place in it; framing, escaping and checksum are one question: is
what was received exactly one answer?  Answers may be lost, late, broken by a
pause or damaged, and the task may be preempted in the windows of the driver,
`MaxFaults` times in all.

Assumed: an interrupt preempts the task at once; the 500 ms pauses of the round
are long enough for an SC that is not late to finish; between a wake-up and the
next wait a task that is not preempted (a fault) is quicker than the line.

### Xclbin, PlControl - the PL and its three masters

`Xclbin` has the container (table and data in one memory), the search for a
section and its removal in place.  `PlControl` has the program task's download
(disable the kernel clock, freeze, stop, load, start, free, enable, then trim
the section), the opcode task's clock scaling and limits, and the sensor task's
monitor, shutdown (read, write back, restore: the three accesses to the UCS
register another task can come between), copy of the limits and power half of
the throttling algorithm.  The gate, the UCS and the gapping register are
variables; stores take effect in program order, as all tasks share one core.
Requests to the sensor task are always answered here; the time-outs are in
`VmrDispatch`.  The rails are taken together: a power, chosen at each
reading, and the currents it was measured with, chosen apart from it where they
are read, as the voltages make the rest.  Whether readings have changed is asked of the currents
alone (`vmc/clock_throttling.c:355`).  The threshold the temperatures call for
is chosen from a set.  `gap` has bit 24 of the gapping register apart from
whether it throttles: disabling reads the register, clears that bit and writes
the rest back.  The firewall check that can refuse a clock
command changes nothing and is left out.

### OspiDriver - the flash driver

Each transfer to a chip is an action: write enable, erase, program, status poll,
read, chip select, with the number of sectors and pages as the driver counts
them.  A chip obeys an erase or a program once after each write enable, nothing
but a status read while busy, and takes an address of four bytes only in that
mode.  Transfers fail, seen by the chip or not, and a program may be lost.  A chip may
be a Micron, which is sent a `WRITE_DISABLE`, or not.  The modes of four address
bytes are always entered: the parts of the driver's table
(`common/xospipsv_flash_config.h`) all have more than 16 MB.  A safe write with a
last sector to read back may find no memory for it.  The read back of a write
takes a sample of the pages by a count modulo a tenth of them; with 2 to 9 pages
that divides by zero, where `Verify` looks at any pages or none, or stops for
good (`Trap`).  The n-th die erase erases the n-th die.  There is one caller at a time, and a call begins with the chips at
rest.  The DAC mode (`FlashLinearWrite`) is not used by this code.

### Asdm - the sensor database

The repositories are laid out from the tables of the VCK5000, the V70 and the
V80 as they are in the source.  `Init_Asdm` runs in the boot steps; a sweep
takes the lock, reads sensor by sensor and updates value, maximum and running
average; a request is a size, a repository, a single sensor or all sensors of a
dynamic repository, copied piece by piece.  Values are followed for the sensors
in `Watched` only.

## 4. What the runs check

| Run | Instance | Properties |
|---|---|---|
| `Dispatch` | 3 commands, queues of 1, rings of 2, host window 2, fair | `TypeOK`, `HeldSomewhere`, `AnsweredOnce`, `ReplyIsOutcome`, `OneRequestInFlight`, `EveryCommandAnswered` |
| `DispatchDegraded` | the same with no VMC tasks and window 3 | `CqNeverOverrun`, `OpcodePathIsOpen` |
| `FlashSafe` | 2 images of different lengths, commands with and without backup, retries, restarts, debug commands | `TypeOK`, `SomeImageBootable`, `RunningImageKept`, `BackupIsDefault` |
| `FlashTag` | the same and legacy commands; one image as long as its partition, one that reaches from offset 0 into B | `TagMeansComplete`, `NeighbourOnlyWhenFull` |
| `FlashRetry` | images of different lengths, default commands | `BackupOnlyWhileDefaultBoots`, **violated** |
| `XgqRing` | 4 slots, pointers modulo 8, 2 values, either allocator | `PointersInOrder`, `RingIsFifo` (refinement) |
| `ApuChannel` | 2 trunks, 6 requests, 2 polls each, 2 requests that overlap, the APU late or dead, tasks fair | `AnswerIsOwn`, `DownloadDelivered` (as long as the channel is calm), `OneUserOfShm`, `EveryRequestEnds` |
| `ScUpdate` | sections of 3 and 2 lines, packets of 2, 2 retries, 2 updates, 1 version query, the image whole, without its first symbol or missing, any request lost, unanswered or garbled | `SuccessMissesOnlyLost`, `CleanUpdateSucceeds`, `UpdateEndsBeforeLoadPc` |
| `ScLink` | answers of 2 to 6 bytes, a FIFO of 4, 2 faults | `BelievesOnlyWhatScDid`, `NoAnswerLostByUs`, `LinkRecovers` |
| `Asdm` | the tables of all three cards, 3 sensors followed, 2 values, 2 sweeps, 1 request | `RecordsInPlace`, `SizesAgree`, `AnswerOfOneSweep`, `AverageWithinSamples` |
| `PlControl` | 3 containers, 1 download, 1 command of the opcode task, 2 powers, 2 currents, counters of 2 | `LoadIsolated`, `DownloadEndsOpen`, `OverrideHasLimit`, `RestIsIntact`, `OverPowerSlowsDown`, `SustainedPowerShuts`, `KernelClockComesBack` |
| `Ospi` | 2 chips of 2 sectors of 2 pages of 2 cells, any two of 17 calls, 2 failing transfers, 1 lost program, 1 retry of a poll | `StaysInReach`, `OkMeansDone`, `EveryCallEnds` |

`TypeOK` of the other modules holds with the same configurations; it is left
out of their runs because what it says there follows from the guards.

`FlashRetry` ends in a violation of what the code says of itself: a flash command
fails after the erase and is sent again, the erased A is copied over B, and no
image is left.  `PROJECT.json` quotes the line.

Three more behaviours of the code, each seen in a model as the counterexample to
a stronger property, are the reason for a premise:

* Power is lost between the boot tag of a longer image and its metadata
  (`rmgmt/rmgmt_fpt.c:547`-`554`).  A boots the new image, its metadata keep the
  size of the old one, and the next backup copies that much: B has a boot tag
  over a part of an image.
* An image as long as its partition is accepted (`rmgmt/rmgmt_fpt.c:498`), and
  `FlashErase` counts `ByteCount / SectSize + 1` sectors for it
  (`common/cl_ospi_polled.c:586`), one of the neighbour's.
* A power that rises above the limit by a voltage alone counts as an unchanged
  reading, and the rate is raised (`vmc/clock_throttling.c:355`).

What holds all the same is checked and proved with those cases in reach (legacy
commands in `FlashTag`, and in the proofs of all the properties).  `BackupIsDefault`
is of images no longer than the metadata say; `SomeImageBootable` and
`RunningImageKept` except a boot in which a command gave the image up, by a
backup of what does not boot or does not fit its metadata, a flash without the
backup, a retry or a restart; `NeighbourOnlyWhenFull` is of images that do not
fill their partition; `OverPowerSlowsDown` of readings that have changed as the
code sees it.

**Deadlock** is not an error in `DispatchDegraded`, where the program task may
stop for good, nor in `ScUpdate` and `Ospi`, where the bounds on updates and
calls end the behaviour.

**Bounds.**  Three commands are enough for each of the three completing tasks to
hold one, and for two in one queue of capacity one, which fills it.  Rings of two
make the CQ full with commands still in flight (the firmware has four slots
and queues of eight).  A partition of two sectors of two pages has first, last
and neighbouring ones for every loop; two images tell old from new, and their
lengths are shorter and longer than a sector, a page short of the partition,
the partition itself, and more than the FPT, A and their neighbour together.  A ring of
four over pointers modulo eight wraps slots and pointers at different times.
Two trunks have a first and a last, which are checked differently; the request
bound leaves room for a probe, a failed download and its retry, and two
overlapping requests are enough for the memory to have two users.  An image of a
section of two packets and one of a single packet has short, full, first and
last packets; two updates show what the first leaves behind in the SC and in the
static counters, two retries have one that is not the last.  The answers of the
SC are shorter than the FIFO, as long and longer, so that an answer arrives by
each of the two interrupts; two faults let one hit the recovery from the other.
Two sweeps have an average of one sample and of two.  One download against one
command of the opcode task and any number of passes of the sensor task meets
every interleaving of two writers of each register; a counter of two can restart
and run out.  The containers have padding, an empty section, adjacent sections of
one kind, both PL kinds, and a section that is alone.  The flash has first and
last cells, pages, sectors and chips, and calls across each boundary.

**Fairness.**  Weak fairness of each task: all run at one priority under a
preemptive, time-slicing scheduler, so a task that can go on does.  The host
reads completions it is notified of, and a reset that was requested comes.
Commands are never assumed to be submitted, and nothing is assumed of the APU.
In `ScUpdate` only the two tasks are fair, the SC may never answer.  In `ScLink`
interrupts are taken, bytes on the wire arrive, and an SC that got a request it
does not lose answers it.  In `OspiDriver` a busy chip gets ready, which is all
that its unbounded status waits rest on.

### What the safety rests on

The premises in the constants and in the properties exclude behaviours of the
code; each was seen in the model when the premise was taken away.

* After PROGRAM VMR a card that runs from B takes itself for one that runs from
  A, since the multi-boot register no longer says where it booted from
  (`rmgmt/rmgmt_main.c:1274`), and copies a broken A over B.  The runs restart the
  firmware; `RunningImageKept` excepts a boot with such a restart (`clean`) and
  `SomeImageBootable` the backup of an A that does not boot (`wayBack`).
* `rmgmt_fpt_set_debug_type` reads the metadata and writes all of them back, and
  a flash command in between loses its size: the next backup is then too short.
* The answers of the APU all carry one id.  Once a request has timed out, late
  answers pass for those of its retry; once two tasks overlap, a status query and
  a download take each other's answers.  The comment at `rmgmt/rmgmt_main.c:463`
  has the host hold a semaphore for commands that use the log memory, and that of
  `common/cl_main.c` has it send long operations one by one, but nothing there
  keeps a status query from overlapping a download.
* A probe that fails deletes `semaData` (`common/cl_xgq_client.c:427`) even with
  tasks waiting for it; the model has them refused.
* VMC not ready: an SC firmware command waits for a task that was never created,
  and the program task with it (`DispatchDegraded` has the rest go on).
* An image whose first symbol is wrong is noticed after the SC has been erased
  (`vmc/vmc_update_sc.c:898`): the update fails and the SC has no firmware.
  `CleanUpdateSucceeds` is of whole images.
* An SC update may stay in `loadpc_bsl` for ever: the state is retried without a
  bound, and an SC that has left its boot loader with the answer lost never
  answers it (`vmc/vmc_update_sc.c:978`).
* A version query while packets are cut resets the pointer they are cut with
  (`vmc/vmc_update_sc.c:474`); an update it has mixed with may report success
  over a wrong image.
* The SC link recovers because the round pauses and answers differ in length.
  Without the pauses, one late answer shifts every later one by a request:
  nothing is flushed when only the message id is wrong.  On the V70, which
  repeats one message, the shift would stay, and do no harm.
* The tables of the VCK5000 do not agree (`vmc/platforms/vck5000.c:30`):
  `QSFP_MAX_NUM` names for two cages overrun five temperatures, the metadata list
  more than the counts, and the comparison at `vmc/vmc_asdm.c:540` only logs.
  `RecordsInPlace` fails for that card and is stated for the other two.
* A clock scaling frees the gate in the middle of a download
  (`rmgmt/rmgmt_clock.c:175`), and a shutdown of the sensor task that has read
  the UCS register before the download stopped the clock writes it back after;
  `LoadIsolated` and `DownloadEndsOpen` except both (`freed`, `restored`).
* With PL sections of both kinds in one xclbin, the clock topology found before
  the first is trimmed has moved when the second is loaded
  (`rmgmt/rmgmt_xfer.c:324`-`361`); `RestIsIntact` excepts such containers.

### Other observations

Seen while modelling, where code and comment part or a value is out of the way;
the models do what the code does.

* The ready word (`status`) is cleared before `XPm_SystemShutdown`
  (`rmgmt/rmgmt_pm.c:104`-`113`) and stays cleared when that call fails.
* The rate a shutdown sets is overwritten by the algorithm in the same pass; the
  comment before the algorithm in `vmc/clock_throttling.c` has a latched bit
  checked first.  Disabling clears bit 24 of the register, throttling is bit 20.
* Limits written between the announcement (`vmc/vmc_sensors.c:433`) and its
  reading are used, those written after it has been cleared are lost.  A limit of
  0 leaves the one before, where the comment at line 437 applies the default.
* The threshold for VccInt is negative above its limit, and a negative one is not
  applied: thermal throttling ends when it is too hot.
* A power shutdown takes ten readings at first and after a shutdown, and eleven
  after a good reading: the count starts once from 1 and once from 0.
* `rmgmt_xclbin_section_remove` goes on behind the section it removed: it skips an
  adjacent one of the kind, and removes a later one that was never loaded.  The
  regions of its `memcpy` overlap; an ascending copy is assumed.
* `FlashErase` of the whole flash ignores the results of its die erases.  An erase
  whose range ends with a sector erases one more, and at the end of the flash it
  wraps round to address 0.
* `ospi_flash_safe_write` tests `offset & OSPI_VERSAL_PAGESIZE`
  (`common/cl_ospi_polled.c:1507`): one bit, so aligned odd pages are refused and
  unaligned ones accepted.  At an offset inside a sector it loses what precedes it.
* A write of part of a page programs what follows the buffer.  The read back looks
  only at pages whose first word is blank; the sample it takes divides by zero for
  2 to 9 pages.
* `FlashMsg` and the chip select are shared by the program and the opcode task
  (a flash command, and a debug type or a read of the metadata) without a lock.
  The model has one caller; what an overlap does to a transfer is undefined.
* `Asdm_Send_I2C_Sensors_SC` (`vmc/vmc_asdm.c:1403`, SC comms task) reads records
  without `sdr_lock`, and the source of the active SC version is written without
  it.  The single and all-sensors requests of the board info copy from averages
  that were never allocated, which asserts with the lock held; the model asks for
  the other repositories.  `Asdm_Get_SDR_Size` does not test its index.
* The running average stays where it is once the sample count is greater than the
  values, both divisions being 0.
* A failing chip read leaves the last reading, reported normal, on the V80; it is
  reported as a failure on the V70, and overwritten with 0 on the VCK5000.

## 5. What is proved

Each module of proofs is about the specification TLC checks, for every value of
the constants that its `...Assumption` allows: any number of commands, clients,
calls, faults, any sizes.  A theorem of the form `Spec => []P` rests on an
inductive invariant, named below, which is needed because `P` alone says too
little of the states between the steps.  A
hypothesis beyond the assumption of the module is an `ASSUME` of the theorem;
section 4 says what the code does without it.

**`VmrDispatchProofs`** (finitely many commands; positive queue, ring and window
sizes)

* `TypeCorrect`: `[]TypeOK`.  Strengthened by what ties program counters to data:
  `sects` is positive inside a section, a task between receive and completion
  holds a message of a command.
* `CqSafe`: `[]CqNeverOverrun`, for every window.  `LockInv` says who holds
  `msg_complete_lock`: a task is between reserve and publish exactly when it
  holds it, and `cqProd` is ahead of `cqReg` only then.
* `OneRequest`: `[]OneRequestInFlight`.  `Kinds` says which queue carries which
  message; with it, the one request the program task and a VMC task share is in
  one place.
* `CommandHeld`: `[]HeldSomewhere`, `CommandAnsweredOnce`: `[]AnsweredOnce`, for a
  host that keeps no more commands in flight than the CQ has slots
  (`Window <= NSlots`).  With more, the CQ can be full when a command completes:
  `xgq_produce` fails, nobody tests it, and the completion is lost or lands in
  another slot (the value `Wild`).  `PlaceInv` has one part for each place a
  command can be in: the place holds exactly the commands whose stage names it,
  each once.  `Reserved` is the slot that is taken and not published.
* `ToldTheTruth`: `[]ReplyIsOutcome`, same hypothesis.  `OutcomeInv` follows the
  return code through messages, responses and CQ entries.

**`FlashUpdateProofs`** (partitions of whole sectors, images of any positive
length, all flags free)

* `TypeCorrect`: `[]TypeOK`; the bounds of the loops are part of it.
* `TagSafe`: `[]TagMeansComplete`, whatever fails, is retried or restarted.  The
  invariant follows the loops: `ErasedSoFar` (the sectors before the present one
  are blank, and the tag is gone after the first), `WrittenSoFar`, `ReadyForTag`.
* `NeighbourSafe`: `NeighbourOnlyWhenFull`, for images of every length, the
  partition's included.  `LoopInv` bounds the sectors and pages of each loop by
  the length it was started with, and that by the partition (`CheckSize`,
  `Refused`), so that a sector behind it is met only by a length of `Cap`.
* `BackupCopiesDefault`: `[]BackupIsDefault`.  `CopyInv` has the backup erased so far
  (`BackupErased`), copied so far (`BackupCopied`) and equal to A over the size
  that was read (`BackupDone`).
* `BootableAlways`: `[]SomeImageBootable`.  `WayBackInv` says where the image is: in
  A while B is rewritten, in B while A is, and in B, out of reach (`ClearOfB`),
  while a legacy image is written.
* `RunningKept`: `[]RunningImageKept`.  `CarefulInv` says the same of the image that
  runs: which of A and B keeps it at each step, and that after a success nothing
  more is accepted until the boot (`rh_already_flashed`).

None of these has a hypothesis beyond `FlashAssumption`.

**`XgqRingProofs`** (at least two slots, their number dividing the range of the
pointers, which holds two rings)

* `TypeCorrect`, and `OrderSafe`: `[]PointersInOrder`.  `OrderInv` orders the four
  copies of the two pointers on the circle: what a peer believes lies behind what
  is, and never more than `N` apart; a ring without its magic has nobody attached
  (`AttachInv`).
* `RingImplementsFifo`: `Spec => RingIsFifo`, by refinement: `Init` maps to the empty
  queue and each action to a step of `XgqFifo` or a stutter.  `FilledInv` has
  every slot between the two real pointers filled; the slots of two positions
  less than `N` apart are different since `N` divides `M`.

**`ApuClientProofs`** (any number of trunks, requests and polls)

* `TypeCorrect`, and `ShmHasOneUser`: `[]OneUserOfShm`.  `ShmInv`: before the probe is
  done nobody uses the memory (`NotBegun`), and whoever does holds `semaData`, also
  through failures, time-outs and the deletion of the semaphore.
* `AnswersAreOwn`: `[]AnswerIsOwn`, `DownloadWhole`: `[]DownloadDelivered`.  Both say
  "as long as the channel is calm", and so does `CalmInv`: then at most one
  request is in the rings, the two rings and the APU agree on where it is, and
  the trunks before the present one have been carried out with their own data.

**`PlControlProofs`** (any powers, limits, thresholds and counters; xclbins of any
sections)

* `TypeCorrect`; `LoadIsIsolated`: `[]LoadIsolated`, `EndsOpen`: `[]DownloadEndsOpen`.
  `ControlInv` has the request to the sensor task (`RequestInv`), the gate
  (`GateInv`) and the kernel clock (`ClockInv`) step by step of the download, with
  what the two exceptions leave.
* `OverrideIsSafe`: `[]OverrideHasLimit`; `LimitInv` is about the windows in which
  the limits are being copied.
* `FastAttack`: `OverPowerSlowsDown`, for every power and any currents, apart from it; `SustainedShuts`: `SustainedPowerShuts`, the two
  action properties.  `CritInv` relates the counter of the code to the readings:
  they differ by 0 or 1, which is the reading more or less noted in section 4.
* `TheRestIsIntact`: `[]RestIsIntact`.  `ContainerInv` says what is in the buffer at
  each step of the download: `Remains` (a well-formed container, of the kinds that
  came, with every section meant for the APU), and that nothing was trimmed while
  the first kind, or a second one that came alone, is loaded.  It rests on
  `PackedIs` (a container is well formed when it comes: the data lie behind the
  table in the order of the entries), `RemoveKeeps` (a turn of the loop of
  `rmgmt_xclbin_section_remove` keeps it so, and moves each of the other sections
  with its data) and `SectionRemoveKeeps` (so does the loop).  These are about
  recursive functions: the lemma `Least`, from the well-foundedness of the numbers,
  takes the place of an induction, by a least counterexample.

**`AsdmProofs`** (any sensors followed, any positive values, any number of sweeps)

* `AnswersOfOneSweep`: `[]AnswerOfOneSweep`.  `LockInv` and `BootInv` say who holds
  `sdr_lock`, `SweepInv` and `CopyInv` what has been updated or copied so far.
* `AverageIsBetween`: `[]AverageWithinSamples`.  The lemma `AverageBetween` is about
  the two truncating divisions of `Update_Sensor_Value`.
* `RecordsAreInPlace`: `[]RecordsInPlace`, from the tables of the V70 and the V80.
  `LayoutInv` says which entry of the metadata `Init_Asdm` is at, and that the
  records laid out so far are as many as the entries before it have names
  (`AtEntry`).  `V70Is` and `V80Is` go through the metadata, `EntriesAre` adds up
  the names against the counts: the two tables end each repository together.
* `SizesDoAgree`: `[]SizesAgree`, on all three cards.  `RecordFits`: for a record of
  any entry `Init_Asdm` counts what `Asdm_Get_Sensor_Repository` will write, 45
  bytes at most.  `SizeInv`: `byteCount` is the sum over the records so far, and the
  header of a finished repository says how many blocks they are.  `SumsExist`,
  `SumsAre` and `SumsAgree` are what is needed of `MapThenSumSet`: that it is there,
  that its order does not matter, and that it is of the values alone.  On the
  VCK5000 the boot never ends with a database: `VckInv` follows `Init_Asdm` to the
  end of the metadata in its fourth repository.  One assumption of the module,
  `NamesAssumption`, is about definitions and not about constants: how long the
  names of the sensors are, which no prover can tell of a string.  TLC evaluates
  it for every entry of the three tables.

**`ScProofs`**, about both modules of the SC.  `ScLink` (answers of 2 bytes up to the
size of the buffer, a FIFO of any size, any number of faults):

* `TypeCorrect`, and `BeliefsAreTrue`: `[]BelievesOnlyWhatScDid`, whatever is lost or
  damaged.  `HeardInv`: every byte on the wire, in the FIFO or in the buffer is of
  an answer to something the SC has done.
* `EveryAnswerTaken`: `[]NoAnswerLostByUs`.  `CalmInv`: as long as there was no
  fault, what is on the wire, in the FIFO and in the buffer is the answer that is
  waited for, in this order, and the event is set exactly when it is complete;
  `LengthsInv` makes the length that is waited for the right one.

`ScUpdate` (an image of any sections that do not overlap, packets, retries, updates
and queries of any number; the version is looked for inside the image):

* `UpdateTypeCorrect`: `[]UpdateTypeOK`.  A packet is never more than full, and the
  pointer stays in the image, also when a query has moved it (`ParseTypes`).
* `SuccessIsTrue`: `[]SuccessMissesOnlyLost`.  An update that
  ends knows only that no answer was an error; that it has sent the whole image
  must be carried along.  `DataInv` does that: the lines before the pointer are in
  the flash, in the packet in hand or lost (`UpTo`), which is all of them once the
  image is at its end, and since the data began every cell is blank or right.
  `ControlInv` ties the state of the update, its status and error, and the BSL of
  the SC, which is open while data are sent, to each other.
* `CleanUpdates`: `[]CleanUpdateSucceeds`, of whole images.  `CleanInv` says that as long as the wire
  works the SC is always in the mode the next request is for, and that nothing
  is lost; `BytesInv` that `sync_sc_bsl` starts with 11 or 8 bytes, whatever the last
  update ended with, so that it still gets to the single byte of some BSLs.

The lemmas before them are about the parser.  `Layout` says where each section
lies in the flattened image (`FlattenSeq`, by `FlatStep`); `TallyIs` and `RunIs` how many
lines there are between two tokens; `CutIs` where a packet ends; and `ParseUpTo`,
which the proof turns on, that a packet holds the next lines of the image, at
their addresses, whether the section goes on after a newline or a new one
begins.  Recursion and cardinalities are met by a least counterexample, as in
`PlControlProofs`.

**`OspiDriverProofs`** (one chip or two, of any geometry that divides; any calls,
any number of failing, repeated and lost transfers)

* `TypeCorrect` and `StaysWithin`: `[]StaysInReach`, when a safe write begins with a
  sector or is refused (`SafeAligned`: the firmware writes safely only at the base
  of a partition).  `DriverInv`: a chip that is erased or programmed takes four
  bytes of address (`FourBytes`), the parts of a call lie within its reach
  (`PlanInv`), and every loop is inside its part, with the chip selected that its
  address means (`PlaceInv`).  The lemmas before it are about quotients and
  remainders: where an address that wraps round ends up, which sector it is in,
  and that the sectors `FlashErase` counts each meet the range.
* `OkIsDone`: `[]OkMeansDone`, also for calls that stay in the flash (`CallsFit`:
  what is read, the pages that are written, both sides of a copy with the page
  `ospi_flash_copy` does besides, which do not meet, and a safe write, which is not
  of the whole flash).  The invariant `Progress` says for each loop what it has
  done: the parts left are the rest of the plan (`Planned`); a chip is at rest and
  write enabled when it is sent what matters (`Quietly`); what was read so far
  (`ReadSoFar`), the sectors and dies that are blank (`SectorsErased`, `DiesErased`),
  the cells written, copied or put back (`Contents`, from `WriteSoFar`, `CopySoFar`
  and `SafeSoFar`) and what the first page of the read back has shown
  (`FirstSeen`).  `SectorsCover` is the arithmetic it rests on: the sectors that
  `FlashErase` counts cover the range, on both chips.  A lost program is the reason
  for `count.lost = 0` in what is said of writes; `FirstSeen` holds without it.

**Only model-checked:**

* Liveness: `EveryCommandAnswered`, `OpcodePathIsOpen`, `EveryRequestEnds`,
  `UpdateEndsBeforeLoadPc`, `LinkRecovers`, `KernelClockComesBack`, `EveryCallEnds`.
  Fairness means `ENABLED`, which is out of the prover's reach.

## 6. What is not modelled

* The content of payloads, the sensor and log data, the text of messages: no
  property here depends on them.
* The time an operation takes.  A time-out is a choice between waiting on and
  giving up.
* The PI loop of the clock throttling on temperatures: fixed point arithmetic on
  several rails; its result is a set of thresholds in `PlControl`.
* Log pages, firewall and data validation: each reads a table, a register or a
  buffer and copies it to shared memory, or writes a register.  `WorkerWork`
  stands for them, and `ApuClient` for the page that comes from the APU.
* The ring of log lines: `cl_log_collect` and `cl_log_dump` have no caller.
* RMI: `BUILD_FOR_RMI` is commented out, and the code needs a library that is not
  in the repository.
* The board info requests and the I2C report to the SC (see above).
* The loop `xgq_alloc_num_slots`, init and deinit of the UART handle, the set-up
  of GIC, IPI and PM, register accesses of sensor chips and I2C, memory helpers
  and the debug console: no state of their own, or hardware initialisation.
