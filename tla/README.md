# Lumia950XLPkg in TLA+

Lumia950XLPkg is the UEFI firmware port for the Lumia 950 and 950 XL (MSM8992/8994).  Most of
its source is register set-up that runs once; what is hard in it are the drivers that share
state with another processor (the RPM), with interrupts, or with timer events that preempt
their callers, and those that carry a device through a long sequence of commands any of which
may fail (the eMMC).  This directory models those drivers, checks them with TLC on small
instances and proves their safety properties for every size with TLAPS.

Running: `tlc -config X.cfg M` for each pair below, `tlapm M_proofs.tla` for the proofs.

## The system

UEFI runs on one processor.  Concurrency comes from four places: interrupts (handlers run to
completion above everything), *task priority levels* (an event handler at TPL_CALLBACK or
TPL_NOTIFY preempts code at a lower level, never code at its own), the RPM processor, which
reads and writes the same shared memory at any time, and peripheral hardware.

| Part | Source | State | Operations and partners | What is hard | What makes it correct |
|---|---|---|---|---|---|
| RPM channel | `Driver/SmdRpmDxe` | stream states `ch0`/`ch1`, two FIFOs with indices in shared memory, `current_state`, `smd_closed`, `smd_channel_alloc_freed` | `smd_init`, `smd_write`, `smd_read`, `smd_uninit`, `smd_uninit_exit_bs`, `smd_irq_handler`; partner: the RPM, by doorbell and interrupt | two processors and a handler on one handshake; spinning without limits; a wait on an event only the handler signals | order of the handshake, answers belong to requests, nothing left in a FIFO, closing ends |
| Key queues | `Driver/KeypadDxe/KeypadTextIn.c` | ring buffer with `Head`, `Tail` | push, pop, empty, reset | overflow, wrap | bounded queue that drops its oldest key |
| Console device | `Driver/KeypadDxe` | two key queues, notification list, partial-key flag | `ReadKeyStroke(Ex)`, `WaitForKey`, `Reset`, `SetState`, `Register/UnregisterKeyNotify`, timer, `KeyNotifyProcessHandler` | functions called from the walk of a list that other code changes; a signal raised while its handler runs | notifications drain, each function gets each queued key once, a registration is served until its handle is given up, `WaitForKey` is truthful |
| Key state machines | `Include/Library/KeypadDeviceHelperLib.h`, `Library/KeypadDeviceImplLib` | per key `State`, `Time`, `Repeat`, `Longpress`; bitmap of pressed keys | `KeypadDeviceImplGetKeys`, `Reset` | combinations, repeats, failed reads, reset while held | one report per hold, repeats spaced |
| Timer | `Driver/TimerDxe`, `Library/QTimerLib` | `mTimerPeriod`, `mTimerTicks`, `mTimerNotifyFunction`, down counter, interrupt source | `SetTimerPeriod`, `RegisterHandler`, tick handler, end of boot services | the period is changed in nine steps while ticks arrive | time passed on is time passed; stopped means quiet; a running timer ticks on |
| Touch | `Driver/SynapticsTouchDxe` | `LastX`, `LastY`, `StateChanged`; page and address of function 12 | `GetState`, `Reset`, `WaitForInput`, poll; probe of the description table; over I2C | `GetState` and `Reset` have no critical section | a point is one reading where the priority allows, no touch is lost or told twice, the probe finds what is there and ends |
| I2C | `Driver/I2cQupDxe/i2c_qup.c` | `pos`, `cnt`, `msg`, `err`, controller state | `qup_i2c_xfer` and the interrupt handler | time-outs and recovery in the middle of a message | the bus carries the messages however they are packed; the next transfer starts clean |
| eMMC block I/O | `Driver/SdhciMMCHSDxe/{MMCHS,mmc_sdhci,sdhci}.c` | `struct mmc_command`, descriptor table, controller registers | `ReadBlocks`, `WriteBlocks`, the sleep at `ExitBootServices`; partner: controller and card, polled | polls that run out, retries, errors that race completion, DMA into a table that is freed | every block goes where it was asked to, nothing runs on after its command, a command starts clean |
| eMMC card set-up | `Driver/SdhciMMCHSDxe/{mmc_sdhci,sdhci_msm}.c` | width, mode, DLL phase and driver type, in host and card | `mmc_card_init`, `sdhci_msm_execute_tuning` | two ends are switched one after the other by commands that may be lost | both ends agree whenever data moves; the phase chosen worked |
| SPMI arbiter, PMIC | `Driver/SpmiDxe`, `Driver/Pm8x41Dxe` | channel registers | read and write commands; one user, the keypad's poll | an error that reads as 0 | not modelled: no second user |
| GPIO interrupts | `GPLDriver/GpioTlmmInterruptDxe`, `Library/InterruptsLib` | registration table, masks, polarity | register, unregister, mask, acknowledge, summary handler | emulated double edge | not modelled: no module registers a pin |
| Heap, clock, date | `Library/MallocLib`, `Library/VirtualRealTimeClockLib` | none between calls | address and date arithmetic | boundaries | not modelled: no state |
| Everything else | see `PROJECT.json` | | | straight-line register set-up, tables, vendored code | |

`PROJECT.json` lists every component with its sources and the reason where it is not modelled,
and under `hazards` every place we know of where this code can go wrong in a way a test would
hardly reach, with the property that watches it.

## Modules

```
KeyRing ── EfiKeyQueue ── implements DropOldestQueue
   └────── KeypadConsole ── MCKeypadConsole
KeypadKeys ── MCKeypadKeys
SmdChannel   (handshake, whole packets)
SmdReceive   (words of the receive FIFO) ── implements PacketPipe
I2cQup ── MCI2cQup
ArchTimer
TouchPointer ── MCTouchPointer
MmcBlockIo
TuningPhase ── MmcCardInit ── MCMmcCardInit
```

`X_proofs` holds the theorems about `X`, for `SmdChannel`, `SmdReceive`, `I2cQup`, `ArchTimer`,
`TouchPointer`, `MmcBlockIo` and `MmcCardInit` (with `TuningPhase`); `Keypad_proofs` those about
`KeyRing`, `EfiKeyQueue`, `KeypadConsole` and `KeypadKeys`.

Definitions whose comment says *Faulty* (or `\* faulty`) are plausible mistakes.  No next-state
relation uses them; each is what a property was shown to catch, by putting it in the place of
the definition it stands beside.

### SmdChannel - `Driver/SmdRpmDxe/{smd.c,rpm-smd.c,Driver.c}`

Packets are whole; what can interleave is separate.  `pc` walks the driver's main line
(`RpmDxeInitialize` -> `smd_init`, `rpm_smd_send_data` -> `smd_write`, `smd_read`, then
`smd_uninit`, or clients and `smd_uninit_exit_bs`), one step per access the others can see.
`hpc` walks `smd_irq_handler`: it starts between any two steps of the main line, the main line
waits until it is done, and the RPM goes on meanwhile, so both its reads of `ch1.stream_state`
are steps.  `smd_set_state` is three main-line steps because the code is: `ch0` is written
first, `current_state` after it, the doorbell rung last.  The handler's two calls of it are one
step each: the RPM reads only `ch0`, and the doorbell follows.

| Model | Code |
|---|---|
| `Probe` | the loop of `smd_init`, `retry` counted before the test |
| `OpeningWrite/Commit/Ring` | `smd_set_state(OPENING)`, `smd_notify_rpm`, `unmask_interrupt` |
| `SendWrite`, `SendRing` | `rpm_smd_send_data`, `smd_write` with its check of the channel, the doorbell |
| `RecvEnter`, `RecvPacket`, `SignalReadComplete` | `rpm_smd_recv_data`, the spin of `smd_read`, `smd_signal_read_complete` |
| `CheckResult`, `Stall` | the `ASSERT`s of `Driver.c`, `gBS->Stall(100)` |
| `ClosingWrite/Commit/Ring`, `WaitClosed` | `smd_uninit` |
| `ExitBootServices`, `ExitPoll` | `RpmDxeDeInitialize`, `smd_uninit_exit_bs` |
| `HandlerEnter/Compare/Sync/Close` | `smd_irq_handler` |

*Assumed of the RPM* (external, taken from how `smd.c` uses it): it puts the channel into the
allocation table at some time; it acts only after a doorbell; it follows the stream state it
finds in `ch0` (OPENING -> OPENING -> OPENED, CLOSING -> CLOSING, CLOSED -> CLOSED) with an
interrupt for every step, and answers every request with one packet.  It never closes or
restarts by itself.  Both ends start CLOSED, or OPENED if the boot stage before left them so.

*`StallSettles`*: 100 us after the last acknowledgement no doorbell or interrupt of the request
is outstanding.  The code relies on it in the build that closes the channel from the entry
point; `SmdChannel_lost_close.cfg` shows what happens without it, and `UninitReturnsClosed` fails
without it too.  The path from ExitBootServices is *not* given this assumption.

### SmdReceive - `smd.c:205-320` - implements PacketPipe

The receive FIFO word by word.  `Available` is the code's unsigned difference.
`Call` stands for `rpm_smd_send_data` up to `smd_read`: whether the request was accepted (`asked`)
or refused, `smd_read` is called (`rpm-smd.c:80-83`), and the RPM answers only the former.  `RpmPublish`
is external and publishes the header in one piece and the payload in one piece.  With the
constant `Streaming = TRUE` it publishes what is contiguous, and `HeaderIntact` fails: after
`write_index` wraps and before `read_index` does, the unsigned difference is huge and `smd_read`
returns words that have not been written (`smd.c:285`, `299`).  The RPM's firmware is not here
to say which of the two it does; the run states the assumption under which the code is right.

### KeyRing, EfiKeyQueue - `KeypadTextIn.c:30-140` - implements DropOldestQueue

`KeyRing` has the ring operations, used by two modules.  `EfiKeyQueue` uses them in any order.
`DropOldestQueue` says what clients may rely on: a queue of at most `Capacity` keys; a push
into a full one drops the oldest.  Both have a history variable `call`, the operation of the
last step: without it a queue that loses all its keys in a push would pass for one that was
cleared.

### KeypadConsole - `Keypad.c`, `KeypadTextIn.c`

One step per critical section at TPL_NOTIFY.  `ReadKeyStroke`, `ReadKeyStrokeEx` and `WaitForKey`
first run the timer handler (`TimerHandler`), as the code does, and that may push a key to both
queues; `Reset`, `SetState` and the two registration functions do not.  The handler of key
notifications runs at TPL_CALLBACK and is walked node by node (`hpc`, `hlink`); while a
notification function runs (`hpc = "called"`) it may call back into every entry point.
If it unregisters itself, `KeypadTextIn.c:660` reads the link of a freed node: what follows is
undefined, and the model ends the behaviour there (`NotifyStray`, `hpc = "wild"`).  Nothing in the
repository says whether a function may do that, so it is neither a finding nor ruled out.

Clients may register any key data any number of times, with registrations that cover one
another or match the same key.  `claims`, `released`, `owed` and `lost` are history
variables for the properties.  A key that matches n registrations is put in the notification
queue n times, and each copy is handed to each of the n functions; what the handler promises is
therefore stated per copy (`CalledPerCopy`, `NoCopyMissed`), not per key that is typed.  In the
same way `ClaimServed` holds until somebody gives up the handle, and
`MCKeypadConsole_freed_claim.cfg` shows that this may be another holder.

### KeypadKeys - `KeypadDeviceHelperLib.h:80-190`, `KeypadDeviceImplLib.c`

`GetKeys` is one poll, with a `Turn` for each key.  The keys share nothing but the bitmap, and
`Seen(k)` is what key `k` finds in it: the bits of the keys before it and its own are of this
poll, those of later keys of an earlier one.  That is why the order of `KeyList` matters: with
Power first, a key that comes to 500 ms sees whether Power is down now.  Keys on PMIC GPIOs may fail to be read, and are skipped
as the code skips them.  Time is in units; `TimeCap` saturates it above every threshold, where
no comparison can tell values apart.

### I2cQup - `Driver/I2cQupDxe/i2c_qup.c`

`pc` walks `qup_i2c_xfer`; `ErrorInterrupt` and `ServiceInterrupt`, the two ways through
`qup_i2c_interrupt`, may come between any two steps once the interrupt is unmasked.  A FIFO
entry is a tag with a message and a place in it, and of a read command the number of bytes.
`Packed` is the loop that fills a block, a function of the number of its turns, one turn per
message, with the cases of `qup_issue_write` for the half-written word (`carry`), the filler
before a read, and the stop.  `Following` is the order the bus should see, entry by entry.

| Model | Code |
|---|---|
| `Xfer`, `StartMessage` | the entry, `qup_i2c_reset`, the top of `while (rem)` with the choice of mode |
| `Pause`, `Fill`, `Run` | one turn of the inner loop up to `QUP_RUN_STATE` |
| `CheckError`, `RecoverBusBusy` | `if (dev->err)`, `qup_i2c_recover_bus_busy` |
| `TakeInput`, `Refill` | emptying the input FIFO; `filled = false` |
| `EndMessage`, `PollWriteReady`, `OutErr` | `qup_i2c_poll_clock_ready` and reset, `qup_i2c_poll_writeready`, `out_err` |

Every poll may fail: the retries are bounded in the code and their number is abstracted.
*Assumed of the controller* (external): entries are worked off in order and only in RUN_STATE;
input bytes are counted one by one, where the code reads words of two, tests `QUP_IN_NOT_EMPTY` for
the lower half only and takes the upper half unseen (`i2c_qup.c:848-857`): the controller is taken
to show a word when both its bytes, or the last of a read, have come; an error stops it until the handler has cleared the flags; RESET_STATE empties its FIFOs; the
bus counts as active while entries or bytes are left; a read whose start and command are in
different blocks reads one byte more, as the comment at `i2c_qup.c:467` says; entries written
into a full FIFO are lost and flagged.  The handler's branches for no transfer in progress and
for `dev->msg == NULL` are the guard `Handles`: the interrupt is masked outside a transfer, and
before the first message the controller has just been reset and has no error.  `dev->suspended` is never set and left out, and so are
the byte counts of block mode (`QUP_MX_WR_CNT`).

`ReadIntact` holds also when errors go unnoticed; `WireFollowsMessages` speaks of transfers
without an error, since a transfer may report success although its last bytes were not
acknowledged (hazard at `i2c_qup.c:885`).

### ArchTimer - `TimerDxe.c`, `QcomQTimerDxeTimerLib.c`

`pc` walks `TimerDriverSetTimerPeriod`, one step per write an interrupt could part; `irq` walks
`TimerInterruptHandler`, which is taken between any two steps unless the task priority is high
(`tplHigh`) and keeps the main line waiting.  `Enter(p)` is the common beginning: the counter
is disabled before the argument is looked at.  `stage` takes `TimerInitialize` through its two
calls of `SetTimerPeriod`, the first of which masks no source, since `gVector` is not set yet.
*Assumed of the hardware* (external): a down counter that stops at 0 and raises a level
interrupt while enabled; a value written to `CNTP_TVAL` counts as signed (`Loaded`).  Times are
relative, so time has no bound; `since` saturates at `Longest`, at or above every count the
register takes for one to come.

A period may be any number.  Its product with the frequency is a UINT64 (`Wide`), the count is
rounded down (`TicksOf`), and the 32-bit register takes the lower half of it, of which the upper
half of the range has expired already (`Loaded`).  `TickNotEarly` says what survives of this: a
tick comes when the count of the period it reports has run down, which for a `Countable` period
is less than one count short of it.  That the period is a minimum, as `TimerDxe.c` says twice, is
`MinimumPeriod`, which two configurations refute: by the rounding, and by the register.

### TouchPointer - `SynapticsTouchDxe.c`

`pc` is the driver binding: `Start` with its probe of the page description table, one step per
transfer, then `Stop`.  Every transfer may fail and then leaves nothing behind, as a transfer
of `I2cQup` does.  `call` is the protocol function in progress: `AbsPGetState` and `AbsPReset`
are three steps, because they touch three fields without raising the priority, and `PollTimer`
comes between any two when the caller runs at TPL_APPLICATION.  A reading is known by its
number, so a torn point is one with two numbers.  `kept` and `got` are history variables.

`TouchKept` speaks of touches read *between* calls: one read inside `AbsPGetState`, after the
coordinates are copied and before `StateChanged` is cleared, is not announced, and a caller at
TPL_APPLICATION can get X and Y of two readings.  Both follow from the code and contradict
nothing it says; the callers of the image run at TPL_CALLBACK.

### MmcBlockIo - `MMCHS.c`, `mmc_sdhci.c`, `sdhci.c`

| Model | Code |
|---|---|
| `Call`, `Return` | `MMCHSReadBlocks`, `MMCHSWriteBlocks` with their checks |
| `NextChunk`, `ChunkDone` | the loop of `mmc_read` and `mmc_write`, `mmc_sdhci_read`/`write` up to the command and after it |
| `WaitForLines`, `SendCommand` | `sdhci_send_command`: the wait for both lines, `sdhci_prep_desc_table`, the registers |
| `PollCommand`, `PollTransfer`, `PollErrors`, `CheckStatus` | `sdhci_cmd_complete` with `sdhci_cmd_err_status` |
| `StopTransfer` | the stop command after a failed command of many blocks |
| `ExitBootServices`, `SleepDone` | deselect and sleep of `mmc_put_card_to_sleep` |

The block is the unit of addresses, buffers and descriptor lengths; the constants keep the
order of the code's limits (a command is longer than a descriptor line).  *Assumed of the
hardware* (external): the card takes a command only in the states that allow it and answers
with the state it was in; it answers before data moves; the engine follows the descriptor
table until all was moved; a data timeout is reported while the transfer may still go on; any
of it may happen or not.  `leftRunning` is set when a poll runs out although no error is
reported: the code then resets nothing (`sdhci.c:421`), the engine may go on, and nothing is
claimed of what follows.

### TuningPhase, MmcCardInit - `mmc_sdhci.c:660-1710`, `sdhci_msm.c:330-925`

`TuningPhase` has `sdhci_msm_find_appropriate_phase` as operators and, next to it, what is
meant: a phase at three quarters of a longest run on the circle of phases.  `MmcCardInit` goes
from the reset of the card to the fastest mode of both ends; one step is a command with all
that is done after it.  Every command may be lost on its way to the card or have its answer
lost.  While `tuning_in_progress` is set, `sdhci_cmd_complete` reports neither, which is what
`SwitchResults(tuning)` says.  `misreported` remembers that a switch of the driver type did not do
what it reported; a switch that fails and says so is no such thing.

`mmc_sd_set_hs` does not read the switch status the card sends with CMD6, so a card that refuses
is answered for all the same (`SdSetHs`).  `mmc_set_ddr_mode` sets eight lines in the card without
a look at the controller.  These are the two ways in which host and card are left apart
(`SlowSdCard`, `NarrowDdr`): `DataOnAgreedBus` holds but for them, and two configurations
refute `TakenOnAgreedBus` with them.  Of the tuning, three more show what its comments promise and
the code does not keep: `PhaseIsSet`, `ChosenPhaseWorked` and `ChangeIsKnown`.

## Runs

| Run | Shows | Bounds, and why they are enough |
|---|---|---|
| `smd` | nothing is in flight when the channel closes; answers belong to requests; the entry point's `smd_uninit` returns with both ends closed; `alloc_freed` is only set once the RPM can see the close; no wait is left without a wake-up; closing ends | 3 requests: first, middle and last; both builds; 3 probes: fail, retry, last; poll limit 1: finish or reset |
| `smd_refused` (violation) | the first request comes before the RPM has opened the channel: it is refused, and `smd_read` spins | as `smd` |
| `smd_receive` | the header copied out is that of the packet on its way; every call whose request was accepted returns; implements `PacketPipe` | 7 words, packets of 3 to 5: every start and every way to wrap, in header, between and in payload; 4 packets go round twice |
| `key_queue` | unwritten slots are never read; implements `DropOldestQueue` | 5 slots, 2 keys: all fillings, all wraps |
| `console` | each function gets each queued key once and none is missed; a claim is served until its handle is given up; `WaitForKey` is truthful; notifications drain | 3 slots and 2 presses, so that two keys that each match two registrations overflow the notification queue; 2 clients, 2 nodes and 2 registrations held at a time, equal, covering or matching one key; one whole and one partial key.  That the key queue overflows while a signalled `WaitForKey` stands takes more presses, and is covered by the theorem `WaitedKey` |
| `keys` | one report per hold of Power, repeats spaced, silent holds only in combinations | 3 keys, polls 0 or 1 unit apart, thresholds 1, 2, 3: each is reached exactly and passed |
| `i2c` | the bus carries the messages byte by byte, however they are packed and whatever the last transfer left; reads are whole; every transfer ends | blocks of 4 and a FIFO of 8 entries keep the ratio of the hardware; one and two messages, the callers' shapes and those that reach each way of packing; reads longer than a read command; any number of transfers in a row |
| `mmc_io` | blocks go where they were asked; success of many blocks means all were moved; no command outlives its call; a command starts clean; calls return | medium of 6 blocks, commands of 3, lines of 2: calls inside, across the end and past it, of no, one, one and a bit and nearly two commands, with full and partial lines; 2 retries: one and the last |
| `mmc_silent` (violation) | a single block that was not moved is reported as a success | as above |
| `mmc_card` | both ends agree whenever data moves, but for the two ways named; the phase chosen is at three quarters of a longest run; the way ends | 5 phases: every pattern, runs that wrap and ties; 3 driver types, of which the card has two or only the default; an eMMC with and without HS200 and double data rate behind a controller with and without eight lines and SDR104; in the other slot an SD card, wide or not, an eMMC of each sort, or none |
| `timer` | stopped means quiet; the reload belongs to the period; ticks are not early but for the fraction of a count; a running timer ticks on | 4 periods: a whole number of counts, one that is rounded, one the register takes as expired, one whose product is cut off; a register of 32 values |
| `touch` | the probe finds function 12 and ends; one reading per point at TPL_CALLBACK; nothing kept is lost; what is delivered is newer each time | 8 page tables: found at once, later, on a second page, listed twice, behind too many functions, absent, pages that cannot be selected, an empty page; 4 readings: one for each field of a call and one after |

Deadlock is checked where the system cannot stop (`key_queue`, `keys`, `i2c`).  The channel ends in
`finished`, `asserted` or `reset`, or stays in `smd_read` for ever after a refused request, which
is the violation run `smd_refused`; the console ends where a freed node was followed; the FIFO
model after its last packet or with a read nobody answers, the eMMC models in `off`, `ready` and
`failed`, the timer after the end of boot services once time has passed, the touch model after its
last reading with the driver stopped.

Fairness: the processor executes (main line), the interrupt controller delivers what is pending
and unmasked (handler), the RPM serves its doorbell (it is a separate processor whose work the
code waits for without limits), a signalled event is dispatched, and time passes.  The QUP
controller gets strong fairness for working off its FIFO and receiving: the driver pauses it in
every turn and lets it run again before it looks for input, so it is never kept from working
for good.  The eMMC controller and its card get *none*: `CallsReturn` must hold whatever they
do, because every loop of the driver counts.  No fairness is assumed for clients, presses,
touches or timer events.

## Proofs

Every theorem has the form `Spec => []P` (or an action property) and is proved from an
inductive invariant; each invariant was checked with TLC before it was proved.  The constants'
assumptions are the `ASSUME`s of the modules, which the runs evaluate.  Conditions beyond them
are hypotheses of the theorem that needs them:

| Module | Proved | Hypothesis | Invariant, and why the property alone is not inductive |
|---|---|---|---|
| `Keypad_proofs` | lemmas: what push, pop, clear and dropping a prefix do to the sequence `Contents` of a ring | | |
| | `RingTypeOK`, `NoUnwrittenKey`, `ImplementsQueue` | | `GoodRing`: the slots from `Head` to `Tail`, around the end, hold keys - the types of the indices say nothing of the slots; the refinement is one case per operation |
| | `ClaimServed` | | `ListOK`: the list is a sequence of nodes with handles of their own; `ClaimsOK`: every claim whose handle was not given up has a node with its function whose data covers the claim's, also when a later registration was given an earlier node |
| | `WaitedKeyIsThere` | | `QueueOK`: a good ring, no longer than the keys pressed, with a whole key in it while the signal stands; the steps that take keys need that the skipped ones are partial |
| | `CalledPerCopy` | | `OwedOK`: a node is owed the copies in the notify queue that match it (a cardinality) and, until the walk is past it, the one being handed out; a push of several copies and a pop are followed through that count |
| | `PowerReportedOnce`, `RepeatsAreSpaced` | | `KeysOK`: of each key, its context, the number of its reports and the time since the last one together: a repeating key is in a long press and its `Time` behind the real one |
| | `NoSilentHold` | `PowerFirst`: Power heads the list, as it does | `HoldsTold`: a key past 500 ms was reported or is part of a combination |
| `SmdChannel_proofs` | `NothingInFlightWhenClosing`, `AnswerMatchesRequest`, `FreedIsAnnounced` | | `Handshake` ties both streams to where the main line stands; `OneRequest`: a request or its answer is in flight only while the main line waits for it |
| | `UninitReturnsClosed`, `CloseNotLost` | `StallSettles` | `CloseStages`: the close has one stage for each of the RPM's answers, none of which can come early once the channel has settled |
| `SmdReceive_proofs` | `HeaderIntact`, `ImplementsPipe` | `~Streaming`: header and payload are each published in one piece | where the words between `read_index` and `write_index` come from, as positions in the packets sent, at each stage of the reader; the unsigned difference is then what the code takes it for |
| `I2cQup_proofs` | `ReadIntact` | | `ReadInv`: where the driver stands in the array at each label; the bytes asked for and not stored are in FIFO, on the bus and in the command together exactly `cnt`, or an error has emptied all three and the transfer cannot end well; what is stored is all up to the driver's place |
| | `WireFollowsMessages` | `Paired`: no third message follows two writes to one address | `BusOK`: the entries in the FIFO are a path from the bus's place in the array to the driver's - the wire alone says nothing of what is still to come |
| `ArchTimer_proofs` | `TypeOK`, `StoppedIsQuiet`, `ReloadFitsPeriod`, `TickNotEarly` | | `ControlOK` (what is enabled and masked at each step), `SettingsOK` (when period and ticks may differ), `TimeOK`: `left` and `since` together make the loaded count at least |
| `TouchPointer_proofs` | `TouchKept`, `OneReadingAtCallback`, `NewerEachTime` | | `AnnouncedOK`, `CopiedOK`, `KeptOK`: the order of the readings in fields, copy and history at each step of a call |
| | `ProbeFindsF12` | | `ProbeInv`: the entries the probe has passed, page by page, hold no function 12; the position in the flattened table follows from it |
| `MmcBlockIo_proofs` | `TransfersWhereAsked`, `DmaWithinCommand`, `CleanStart` | | `Asked`: the command is the piece of the call that is due; `Engine`: at rest outside a command; `Moves`: table, progress and command agree, so the next line is the next piece of the buffer |
| | `SuccessOfManyBlocks` | `MaxTrans # 1`: a full command is not a single block | `Pieces`: what the commands of a call have moved joins up to the blocks before the next one; `Progress` says it of the command in hand |
| `MmcCardInit_proofs` | `DataOnAgreedBus` | | `BusOK`: width and mode of both ends at every label, and that only an SD card comes by the labels where it may be slow |
| | `LongestRunChosen` | | `HitsInOrder`: the table lists the working phases in order; the runs the code joins at the end of the circle are the runs on the circle |

The packing loop of the I2C driver has no bound but the array, so what `Packed` computes is
proved by induction over its turns (`TurnsKeep`): each turn of `qup_issue_write` or
`qup_issue_read` extends a path from the driver's place, the half word that is held counted as
its last entry, and the loop ends with none held (`PackedLine`).

Only model-checked:

- liveness (`CloseEnds`, `CallReturns`, `NotificationsDrain`, `XferEnds`, `CallsReturn`,
  `TicksGoOn`, `ProbeEnds`, `InitEnds`): fairness is beyond the prover;
- `NoCopyMissed`, the counterpart of `CalledPerCopy`;
- `CloseNotLost` without its hypothesis, and the other properties of the next section, since the
  code breaks them.

## Findings

Disagreements of the code with a passage of the repository.  Two are violation runs; `PROJECT.json`
quotes the passages:

- `mmc_silent`: for one block, or the last one of a longer call, the result of
  `sdhci_send_command` is dropped (`mmc_sdhci.c:1851`) and the call reports what the card
  answered before the data moved.
- `smd_refused`: `smd_init` does not wait for the channel to open, so the RPM may be later than the
  first `smd_write`, which refuses the request; `smd_read` is called all the same
  (`rpm-smd.c:80-83`) and spins (`smd.c:285`), and the `ASSERT` of `Driver.c:189` is not reached.

The others have a configuration of their own beside the runs, with one property that TLC refutes
within a minute:

| Configuration, property | Code | Passage |
|---|---|---|
| `SmdChannel_lost_close.cfg`, `CloseNotLost` | `smd_set_state` writes `ch0` and then `current_state` with interrupts enabled (`smd.c:428`); the handler between the two may finish the close, and its CLOSED is overwritten with CLOSING: `smd_uninit` waits for an event nobody signals | `smd.c:174`: "Wait for the SMD-RPM channel to be closed" |
| `MCKeypadConsole_freed_claim.cfg`, `ClaimStaysAlive` | a registration covered by an earlier one gets the earlier handle, and the first to unregister it ends both (`KeypadTextIn.c:526`) | `KeypadTextIn.c:481`: "Points to the unique handle assigned to the registered notification" |
| `ArchTimer_rounds_down.cfg`, `MinimumPeriod` | periods are rounded down (`TimerDxe.c:130`) | `TimerDxe.c:100`: "the timer period will be rounded up to the nearest timer period" |
| `ArchTimer_overflow.cfg`, `MinimumPeriod` | the count is cut to 32 bits by the register (`QcomQTimerDxeTimerLib.c:20`) | `TimerDxe.c:220`: "TimerPeriod defines the minimum time between timer interrupts" |
| `MCMmcCardInit_slow_sd.cfg`, `TakenOnAgreedBus` | the switch status of an SD card is not read (`mmc_sdhci.c:1434`) | `mmc_sdhci.c:1673`: "Set the clock & high speed mode" |
| `MCMmcCardInit_narrow_ddr.cfg`, `TakenOnAgreedBus` | double data rate sets eight lines whatever the controller has (`mmc_sdhci.c:881`) | `mmc_sdhci.c:1532`: "Set the bus width based on host, target capbilities" |
| `MCMmcCardInit_dll.cfg`, `PhaseIsSet` | if the delay line does not take the chosen phase, the tuning returns 0 (`sdhci_msm.c:887`) | `sdhci_msm.c:763`: "Return  : 0 on Success, 1 on Failure" |
| `MCMmcCardInit_stale.cfg`, `ChosenPhaseWorked` | the tuning buffer is not cleared, and errors are not reported while tuning, so a phase that brought nothing passes after one that worked (`sdhci_msm.c:837`) | the same |
| `MCMmcCardInit_strength.cfg`, `ChangeIsKnown` | whether the driver type is restored depends on the last attempt only (`sdhci_msm.c:849`) | `sdhci_msm.c:856`: "Restore the driver strength to default value" |

Seen on instances that no run keeps, where the code has limits that nothing in it contradicts:

- `SmdChannel`: a channel found by the last probe is counted as a time-out.
- `SmdReceive` with `Streaming = TRUE`: after `write_index` wraps and before `read_index` does,
  `smd_read` returns words that have not been written.
- `I2cQup` with a write longer than the FIFO in block mode: blocks are written without a look
  at the room, and the FIFO overruns (`i2c_qup.c:862`); no caller writes that much.
- `I2cQup` with three messages of which the first two are writes to one address (`Paired` does
  not hold): the second may fill a block to its last half word, which is kept for a next entry
  (`i2c_qup.c:500`) and forgotten when the next block begins.  Seen with writes of 5, 1 and 2
  bytes and the constants of `MCI2cQup.cfg`; callers pass two messages at most.

## Not modelled

Of the repository's lines nine in ten are font tables, the vendored graphics, PNG and C
libraries and firmware tables; they have no behaviour of their own, and the share of lines this
project covers is small for that reason.  Of the program's own code:

- register set-up that runs once, before any concurrency: clocks, pins, PCI Express, display,
  serial ports, platform start, board tables;
- drivers whose state no second actor touches: the SPMI arbiter and the PMIC helpers (one user,
  the keypad's poll), the GPIO interrupts (nobody registers one), BAM (nobody calls it), SPI (one
  transfer at start);
- functions without state: heap addresses, dates, delays, the packing of RPM messages;
- within modelled parts: the words of the send FIFO, RPM_CMD_TYPE messages and failing
  shared-memory reads of `smd.c`; start and stop of the keypad's driver binding; the caps-lock
  part of `SetState`; `dev->suspended` and the byte counts of block mode in `i2c_qup.c`; the power
  and clock sequence, CSD and CID, HS400, erase, write protection and RPMB of the eMMC.
