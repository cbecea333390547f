# Verification of the APBA control driver

This directory models the APBA control driver (`src/apba.c`) in TLA+. It
model-checks the models with TLC and proves the main invariants with TLAPS.
`spec.md` describes the system. The driver controls a removable mod (the
APBA) and its companion chip (the APBE).

## The system and its parts

| Part | Code (`src/apba.c`) | State | Modelled in |
|------|---------------------|-------|-------------|
| Power/flash controller | `apba_enable`, `apba_disable`, `apba_on`, `apba_flash_on`, `populate_transports_node`, `apba_enable_store`, `flash_enable_store`, `apba_slave_notify`, `apba_disable_work_func`, `apba_uart_register` | `desired_on`, mclk count, GPIO power, flash routing, `flash_dev_populated`, `mods_uart` | `ApbaPower`, proved in `ApbaPowerProofs`, `ApbaReleaseProofs` and `ApbaRefinementProofs` |
| Firmware flash pipeline | `apba_erase_partition`, `apba_flash_partition`, `apba_compare_partition`, `apba_mtd_erase`, `apba_init_mtd_module`, `erase_partition_store`, `flash_partition_store`, `apba_firmware_callback` | partition contents | `ApbaPower` |
| GPIO sequencer | `apba_seq`, `apba_wake_assert` | pins only | by effect, in `ApbaPower` |
| Message protocol engine | `apba_handle_message` (completion branches), `apba_mode_store`, `apba_baud_store`, `apba_log_show` | three completions, `mode`, UART rate of each end, transmit lock | `ApbaProtocol` (partly), proved in `ApbaProtocolProofs` |
| Log ring buffer | LOG_IND branch of `apba_handle_message`, `apba_log_show` drain | `apba_log_fifo` (16 KiB) under `log_mutex` | `ApbaLog`, proved in `ApbaLogProofs` |
| Interrupt-reason dispatcher | `apba_action_on_int_reason`, `apba_notify_abpe_attach`, `apba_apbe_attach_work_func`, `apbe_power_store` | APBE power, attach state, `master_intf` | `ApbaDispatch` (with `ApbaPower`), proved in `ApbaDispatchProofs` |
| Wake ISR | `apba_isr` | none (reads `desired_on`) | `ApbaDispatch` |
| Abstract controller | spec.md section 4.2 (intent, power, flash mode) | `want`, `on`, `routed` | `ApbaModes`, mapped in `ApbaPowerRefinement` |
| Probe / remove / config | `apba_ctrl_probe`, `apba_parse_seq`, `apba_gpio_setup`, `apba_int_setup`, `apba_ctrl_remove` | set-up only | Init of `ApbaPower` |
| Greybus audio commands | `src/audio-gb-cmds.c` | none | not modelled (marshalling) |

### How the parts interact

The APBA is driven from several execution contexts:

- sysfs writes (user threads);
- the `slave_notify` callback from the MuC core, which runs `apba_enable` on SLAVE_STATE_ENABLED;
- the delayed work item `apba_disable_work`, scheduled one second after SLAVE_STATE_DISABLED, which runs `apba_disable`;
- the asynchronous firmware callback after probe, which flashes the boot partition and then enables mod detection (`muc_enable_det`), so slave notifications only begin after it;
- the transport's receive path (`apba_handle_message`);
- the wake interrupt thread.

Nothing locks the controller's state. spec.md (section 5) says correctness
rests on only one power transition being active at a time.

A partition operation brackets the flash work:

1. `apba_on(false)`;
2. `apba_flash_on(true)`;
3. lookup, compare, erase, write;
4. `apba_flash_on(false)`;
5. if `desired_on`, `apba_on(true)`.

That bracket is what makes flashing and normal operation mutually exclusive.

## Module `ApbaPower`

### Threads, steps and state

Each context is an *actor* with a program counter `pc` and a call record
`job`: the operation kind, partition, image and `err` local.

Every call inside a driver function that changes shared state is its own
step. So is every read of shared state whose result is used later: the
`desired_on` tests in `apba_disable` and after flashing. That makes the
check-then-act windows visible to TLC.

| Variable | Code |
|----------|------|
| `desiredOn` | `ctrl->desired_on` |
| `clk` | enable count of `ctrl->mclk` (`clk_prepare_enable` / `clk_disable_unprepare`) |
| `powered` | `enable_seq` ran after the last `disable_seq` |
| `flashMode` | `flash_start_seq` ran, SPI flash registered, pinctrl `spi_active` |
| `populated` | `ctrl->flash_dev_populated` |
| `uartReg` / `uartOpen` | `ctrl->mods_uart` set / `mods_uart_open` without a later close |
| `content` | per MTD partition: the first page and the rest |
| `apbeOn`, `attached` | APBE power and `mod_attach` state as `apba_disable` leaves them |
| `dworkPending` | `apba_disable_work` scheduled and not yet run |
| `det` | `muc_enable_det` called |
| `lastNotify` | ghost: last slave state notified |
| `ops` | number of operations started, bounded by `MaxOps` |

### Actions

Entry actions (each sets the thread's label):

- `ApbaEnableStore`, `ErasePartitionStore`, `FlashPartitionStore`;
- `FlashEnableStore`, which is atomic: it calls `apba_flash_on` once;
- `SlaveNotifyEnabled` and `SlaveNotifyDisabled`;
- `DisableWorkRun`;
- `FirmwareCallback`, which without firmware enters the bracket at `PFlashOff`;
- `ApbaUartRegister`.

Steps:

- `EnClk` and `EnOn` for `apba_enable`. A clock failure returns with `eclk`.
- `DisCheck`, `DisAct` and `DisOff` for `apba_disable`.
- `POff`, `PFlashOn`, `PLookup`, `PCompare`, `PErase`, `PWrite`, `PFlashOff`, `PCheck`, `PRestore` and `Ret` for the bracket.

The partition steps handle their failures as the code does:

- `PLookup` fails with -ENODEV when the flash device was not populated or the name has no MTD partition.
- `PCompare` may skip when the first pages match. A failed read counts as "different".
- An erase may fail, leaving the partition as it was or with its first page blanked.
- A write may fail after the first page.

Every failure goes to the cleanup path (`PFlashOff`).

`Ret` resets the call record. When the returning thread is the firmware
callback, `Ret` also sets `det` (`muc_enable_det`).

`FlashEnableAttr` says whether the `flash_enable` sysfs attribute is
exposed. `FlashEnableStore` is guarded by it, so runs can ask what the
driver guarantees with and without that attribute.

### Constants and the serialization switch

`Users` is the set of writer threads. `Parts` and `MtdParts` are the names a
writer may give and the ones with an MTD device. `Pages`, `Blank` and `Images`
are the flash data. `NoFw` stands for "no firmware file". `MaxOps` bounds the
operations started.

`Serialized` is the design assumption of spec.md section 5. When it is TRUE,
an entry action starts only when every other actor is idle (`Quiet`). When it
is FALSE, the model runs the contexts as the code does, without any lock.

## Runs

The power runs use `MCApbaPower`:

- one writer `u1`;
- partitions `{"apba", "boot"}`, where only `apba` is an MTD partition, so lookup failure happens;
- three images, two of which share their first page, so the compare both skips and flashes;
- `MaxOps = 4`.

Four operations allow any two enable/disable/flash transitions, a
notification pair and the boot callback, which is what each violation below
needs. `CHECK_DEADLOCK FALSE` because the bounded driver stops once no
operation is left to start. The real driver then waits for input, which is
not a deadlock.

`FairSpec` adds weak fairness on every actor's `Step` and on
`DisableWorkRun`. This is justified because each actor is a kernel thread
or work item that is not blocked indefinitely inside these functions:
sequences sleep for bounded times, and MTD calls return. A scheduled
delayed work item runs once its timer fires. No fairness is put on entry
actions (user writes, notifications), which may never happen.

| Run | cfg | Expect | Property | What it shows |
|-----|-----|--------|----------|---------------|
| `power_serial` | `MCApbaPower.cfg` | pass (123,585 distinct states) | `TypeOK`, `NoFlashAccessWhileApbaRuns`, `PowerFollowsIntent`, `FlashReleasedOnReturn`, `DisableNotificationHonoured` | With serialized transitions and `FairSpec`, the following hold. The bracket keeps flashing and normal operation apart. Power equals `desired_on` whenever no call is in flight. Every partition operation releases the flash on each exit path. The clock count never underflows. A pending deferred disable always ends with the APBA off. |
| `power_concurrent` | `MCApbaPower_concurrent.cfg` | violation | `NoFlashAccessWhileApbaRuns` | As the code runs, unserialized, `flash_enable_store` (or `apba_enable` from `slave_notify`) can act in the middle of the boot firmware flash. |
| `flash_skip_corrupt` | `MCApbaPower_skip.cfg` | violation | `FlashSuccessMeansImage` | A write that fails past the first page defeats the compare heuristic. The next flash skips and returns 0 over a corrupt partition. |
| `stale_disable_work` | `MCApbaPower_stale.cfg` | violation | `DeferredDisableNotStale` | A SLAVE_STATE_ENABLED arriving within a second of SLAVE_STATE_DISABLED does not cancel the deferred `apba_disable`. Once the ENABLED's `apba_enable` has powered the APBA up, the work's `apba_disable` passes its `desired_on` check and powers the APBE and the APBA down. The property fires on that `DisAct` step, not on the work merely starting. |

Each property of `power_serial` has a mutant, a plausible bug in the code it
is about, which TLC must catch:

| Mutant | Bug | Breaks |
|--------|-----|--------|
| `DisCheckNoGuard` | `apba_disable` without its `!desired_on` early return | `TypeOK` (the clock underflows) |
| `POffSkipped` | the bracket does not power the APBA down | `NoFlashAccessWhileApbaRuns` |
| `PCheckNoRestore` | no restore after flashing | `PowerFollowsIntent` |
| `FlashOnFalseKeepPopulated` | `flash_dev_populated` not cleared | `FlashReleasedOnReturn` |
| `DisableWorkRunSkipped` | the work function returns without calling `apba_disable` | `DisableNotificationHonoured` |

### The abstract controller and the refinement

`ApbaModes` is the controller spec.md section 4.2 describes. It has three
booleans:

- `want`: the intent;
- `on`: the APBA is powered;
- `routed`: the flash is routed to the host.

`on` and `routed` are never TRUE together. Power may come up only when it
is wanted and the flash is not routed. Routing may start only when the
APBA is off.

`ApbaPowerRefinement` instantiates it with `want <- desiredOn`,
`on <- powered`, `routed <- flashMode`. `AbsSpec` is checked by the
`dispatch_serial` run (see `ApbaDispatch` below) and proved in
`ApbaRefinementProofs`. That run uses the power controller with the
dispatcher composed beside it, `Serialized`, and no `flash_enable`
attribute. The `POffSkipped` mutant breaks it.

It holds only without the attribute. `flash_enable_store` routes the flash
in any power state, and `apba_enable` does not look at flash mode. Two
sequential writes therefore violate it: 1 to `flash_enable`, then 1 to
`apba_enable`. That is the same missing interlock that the
`power_concurrent` finding reports at `src/apba.c:606`.

## Module `ApbaLog` (log ring buffer)

`log` is `apba_log_fifo` as a sequence of bytes. Each byte is abstracted to
the number of the LOG_IND frame that carried it, or to `Garbage` for a byte
copied from beyond the received payload. The ghost `history` is the byte
stream the APBA sent.

- `LogInd(f)` is the whole LOG_IND branch. It computes `of`, evicts `MIN(of, APBA_MSG_SIZE_MAX)` bytes with `KfifoOut` when `of > 0`, then appends `msg->size` bytes with `KfifoIn`, which truncates at capacity as `kfifo_in` does.
- `LogShow` is the drain of `apba_log_show`: `kfifo_out` of `PAGE_SIZE - 1` bytes.

Both run under `log_mutex`, so each is one atomic step.

A frame `f` has a header size and a received length. The instance uses
`LogSize = 4`, `MsgSizeMax = 2` and `PageRead = 3`. These are small stand-ins
for 16 KiB, the message maximum and a page. They keep the proportions the
code has: a message is smaller than the buffer, and a read is smaller than
the buffer. Six frames fill, overflow and drain the buffer several times.

| Run | cfg | Expect | What it shows |
|-----|-----|--------|---------------|
| `log_serial` | `MCApbaLog.cfg` | pass (613 states) | With honest frames (size = received length ≤ `MsgSizeMax`), `LogIsSuffix` holds: the log is always a suffix of what the APBA sent, with no gap and no foreign byte. The `LogIndShortEvict` mutant (evicting one byte too few) breaks it, because `kfifo_in` then truncates the new frame. |
| `log_overread` | `MCApbaLog_long.cfg` | violation | A frame with header size 3 but 2 bytes received copies a byte from beyond the payload into the log. The code never compares `msg->size` with `len` (line 1091). |

## Module `ApbaProtocol` (requests, acknowledgements, UART rate)

There are two user threads. Each thread runs `apba_mode_store`,
`apba_baud_store` or `apba_log_show` as a sequence of labelled steps:

- the send, or a send the transport refuses;
- for baud, `mods_uart_lock_tx(true)` as a separate step after the send, as in the code;
- a wait that ends by taking a completion or by timing out (the timeout is always possible);
- the return.

`done[k]` is the `done` count of `struct completion` kind `k`:

- `complete()` adds one;
- a successful wait takes one;
- nothing resets it, as in the code.

Frames carry the rate they were sent at. A receiver whose rate differs
drops the frame as noise.

`HostRecv` is `apba_handle_message`'s completion branches. For BAUD_ACK
(`HandleBaudAck`), the host switches rate only if the ACK is accepted, then
completes. `ApbaRecv` is the APBA firmware, which is not in this repository
and is modelled from spec.md:

- it echoes MODE and LOG requests;
- it answers BAUD at its old rate and switches if it accepts.

`Lose` drops a frame when `Lossy`.

Two users, two modes and two rates, with `MaxWrites = 3` calls and
`MaxWire = 3` frames per direction, are enough for every trace below. Each
trace takes two calls of two threads, or one call and one lost or late
frame.

The protocol runs check safety only, under `Spec`, with no fairness.

| Run | cfg | Expect | Property | What it shows |
|-----|-----|--------|----------|---------------|
| `protocol_lossy` | `MCApbaProtocol.cfg` | pass (188,004 states) | `TxUnlockedAtRest`, `HostSwitchesOnlyToApbaRate` | On a UART that may lose frames, with two callers, the following hold. The transmit lock is released on both return paths of `apba_baud_store`. The host only ever switches to the rate the APBA is at: an ACK is applied only when accepted, and the APBA hears nothing sent at a rate it has left. |
| `protocol_desync` | `MCApbaProtocol_desync.cfg` | violation | `BaudAgreesAtRest` | A lost accepted BAUD_ACK leaves the APBA at the new rate and the host at the old one, for good: once all is quiet the two ends disagree. |
| `protocol_window` | `MCApbaProtocol_window.cfg` | violation | `NoFrameAtStaleRate` | A request sent between the BAUD send and `lock_tx` is queued at the old rate behind the BAUD request. |
| `protocol_stale` | `MCApbaProtocol_stale.cfg` | violation | `ModeSetOnlyWhenApplied` | One writer, so no two mode requests overlap. Its mode write times out, and it writes again. The late echo of the first request completes the second wait, which stores a value the APBA has not applied. |

The mutants of the passing run are:

- `HandleBaudAckIgnoringAccept` breaks `HostSwitchesOnlyToApbaRate`.
- `BaudTimeoutKeepLock` breaks `TxUnlockedAtRest`.

An accepted BAUD_ACK that arrives after its write returned -EAGAIN still
switches the host. That contradicts spec.md's promise that a timeout leaves
the baud unchanged. No property here catches it, because it brings the two
ends together and the model does not record return values.

## Module `ApbaDispatch` (interrupt reasons, attach work, wake ISR)

`ApbaDispatch` extends `ApbaPower`. Every power step leaves the dispatcher's
variables alone. Its variables are:

- `rxPc`: the receive context, idle or asleep inside APBE_RESET;
- `attachQ`: queued attach work items, per `present` value;
- `woke`: whether the last forwarded wake found the transport open.

The constant `ApbePowerAttr` says whether user space writes the
`apbe_power` attribute, as `FlashEnableAttr` does for `flash_enable`.

Its actions are:

- `IntReason`: the guard shared by all reasons. It needs an open transport and, as the code checks, a master interface (any slave notification).
- `IntApbeOn`, `IntApbeReset` then `ResetOn`, `IntConnected`, `IntDisconnected`: one action per reason.
- `NotifyAttach`: queues an attach work item, or fails as `kzalloc` may.
- `AttachWork(p)`: runs a queued item in any order.
- `Isr`: `apba_isr`.
- `ApbePowerStore`: `apbe_power_store`. It powers the APBE on or off once `master_intf` is set, with no lock, whatever the receive context is doing.

A write of 1 to `apbe_power` while the receive context sleeps inside
APBE_RESET powers the APBE on before the 250 ms off period that spec.md
section 4.6 promises is over. TLC reaches this in ten steps. No run
checks it, because it needs a user writing the debug attribute during a
reset; it is listed as a hazard in `PROJECT.json`.

The receive path runs `apba_handle_message` in one context, so a second
INT_REASON waits until the first one's msleep is over. This is an
assumption about `mods_uart`, which is not in this repository.

The runs use the serialized power model with one writer, `MaxOps = 4` and
`MaxInts = 2`. Two interrupts are enough for an INT_REASON to arrive while
the receive context still sleeps in an APBE_RESET, and for a wake to meet
an INT_REASON.

| Run | cfg | Expect | Property | What it shows |
|-----|-----|--------|----------|---------------|
| `dispatch_serial` | `MCApbaDispatch.cfg` | pass (1,176,738 states) | `AbsSpec` | Without the `flash_enable` attribute, and with `apbe_power` writes, the composition still implements `ApbaModes`. Mutant: `POffSkipped`. |
| `dispatch_unwanted` | `MCApbaDispatch_unwanted.cfg` | violation | `InterruptsIgnoredUnlessOn` | No `apbe_power` writes, since the question is about interrupts. `apba_isr` forwards a wake to a registered but closed transport, because it tests `desired_on`, which `apba_enable` sets before opening the transport. The same property fails in other ways too. An APBE_ON, an APBE_RESET, or an APBE_CONNECTED attach item, handled while `apba_disable` runs, powers or attaches the APBE after the disable. |

Even with serialized sysfs and notification calls, the violations remain.
The receive path, the wake interrupt and the workqueue are not among the
contexts that spec.md serializes.

## What is proved (`ApbaPowerProofs`)

The module proves, for all constants that satisfy the `ASSUME`s of
`ApbaPower`, under `Serialized`:

- `Invariance`: `Serialized /\ Spec => []IInv`;
- `TypeCorrect`: `[]TypeOK`;
- `FlashExclusion`: `[]NoFlashAccessWhileApbaRuns`;
- `PowerIntent`: `[]PowerFollowsIntent`.

The `ASSUME`s are:

- `MtdParts \subseteq Parts`;
- `Blank \notin Pages`;
- images are records of pages;
- `MaxOps \in Nat`;
- the named contexts are not user threads.

The invariants are not inductive as they stand. They hold only because of
what each thread's position in its call implies. The strengthening `IInv`
says:

- `OneBusy`: at most one actor is inside a call (from `Quiet`).
- `ClockInv`: `desired_on` implies that the clock count is at least 1. This is why `clk - 1` in `apba_disable` stays in `Nat`.
- At rest, power equals intent.
- `ActorOK` holds for every actor. It records, per label, what the call's steps rely on:
  - at `EnClk`, `DisCheck`, `POff` and `Ret`, power equals intent;
  - at `DisAct`, the APBA is powered and wanted;
  - between `PFlashOn` and `PWrite`, the APBA is off;
  - from `PLookup` to `PWrite`, the flash is routed;
  - at `PFlashOff` and `PCheck`, the APBA is off unless this is the firmware callback's no-firmware path, where power already equals intent;
  - the job's kind, image and partition match the label.

The argument, in the order the lemmas run:

- `InitIInv`: the initial state satisfies `IInv`.
- One lemma per action shows that the action preserves `IInv`.
- `StepFrame` and `StartFrame` reduce "all actors" to "the stepping actor" using `OneBusy`.
- `NextIInv` combines the per-action lemmas.
- `PTL` closes `Invariance`.
- The three corollaries follow because `IInv` implies each property.

TLC also checked `IInv` as an invariant on the `power_serial` instance before
the proof was written.

Only TLC checks these:

- the properties that fail (the violation runs above);
- the liveness property `DisableNotificationHonoured` (run
  `power_serial`). TLAPS does not handle liveness under fairness, or
  ENABLED.

Every safety property of a passing run is proved: the ones above and in
the sections below.

## The release proof (`ApbaReleaseProofs`)

`FlashReleased` states `Serialized /\ Spec => []FlashReleasedOnReturn`: a
flash or erase call reaches its return only with `flash_mode` off and the
partition cache dropped, on its error paths too.

`IInv` records where the flash is routed but not what the tail of a call
has undone. The strengthening is `FInv == IInv /\ Released`. `Released`
says, per thread, through `RecOK`:

- at a power label (`EnClk` .. `DisOff`) the job is an enable or a disable;
- at `PCheck`, `PRestore` and `Ret` of a partition job, flash mode is off
  and the cache is not populated.

`PFlashOff` establishes the second conjunct (it calls
`apba_flash_on(false)` and drops the cache). Every later step of the tail
keeps it, and by `OneBusy` no other thread runs meanwhile. `NextFInv` has
one lemma per group of actions: power steps, partition head, `PFlashOff`,
tail, return, call entry, the sysfs stores, the notification contexts.

## The dispatcher proofs (`ApbaDispatchProofs`)

- `DTypeCorrect`: `Serialized /\ DSpec => []DTypeOK`. The invariant is
  `DInv == IInv /\ DispatchOK`. `ApbeFrame` shows that a dispatcher step,
  which changes at most the APBE power and the attach flag, keeps `IInv`.
  `apbe_power` writes are among those steps. Power steps keep `DispatchOK`
  by leaving the dispatcher's state alone. No run checks `DTypeOK`: its
  own conjuncts follow from the guards. The theorem is listed because
  `DInv` is the invariant the refinement below rests on.

## The protocol proofs (`ApbaProtocolProofs`)

These hold for every set of callers, modes and rates, every `MaxWire` and
`MaxWrites`, lossy or not.

- `TxUnlocked`: `Spec => []TxUnlockedAtRest`.

It rests on `PInv`, which is `TypeOK` plus three conjuncts:

- `ArgsOK`: a call in flight holds a value of its own kind.
- Every queued frame is `WellFormed`: its value fits its type.
- `LockHeld`: `txLocked` implies that some caller is at `BaudWait`.
  `BaudLock` takes the lock and enters the wait; both ways out of the
  wait release it.

`WellFormed` is needed so that a `BAUD_ACK` sets a rate from `Bauds`.

- `BaudSwitch`: `Spec => HostSwitchesOnlyToApbaRate`. This is an action
  property: every step that changes `hostBaud` sets it to `apbaBaud`.

The proof uses the strengthening `SInv`, three facts about the queues:

- `AckCarriesApbaRate`: a *real switch* is an accepted `BAUD_ACK`, heard
  at the host's rate, that names another rate. Such an ack names the
  APBA's rate and is the newest frame towards the host.
- `ApbaAheadDeaf`: while the APBA's rate differs from the host's, no
  frame towards it is at the APBA's rate.
- `CurrentRateLast`: towards the APBA, every frame behind one at the
  host's rate is also at the host's rate.

The argument:

- The APBA hears a frame only in sync (`ApbaAheadDeaf`). Then every
  queued request is at the common rate (`CurrentRateLast`), and no ack
  towards the host is a real switch. So the ack it appends is the only
  possible real switch, and it names the rate the APBA moves to
  (`HeardOK`).
- When the host applies a real switch, that ack was the last frame, so
  the host's queue is then empty. The APBA was ahead, so it heard
  nothing queued towards it, and all three facts hold vacuously
  afterwards (`SwitchOK`).
- `mods_uart_apba_send` appends at the host's rate (`SendOK`).
- Dropping the head, whether by delivery or by loss, keeps all three
  facts (`TailOK`).

The queue facts are stated as operators `AckOK`, `DeafOK` and `LastOK`
of a sequence and two rates, so that these lemmas are about sequences
alone. TLC checked `PInv /\ SInv` as an invariant of the
`protocol_lossy` instance, and of one with 4 writes and 4 queued frames,
before the proof was written.

## The refinement proof (`ApbaRefinementProofs`)

`Refinement` states
`Serialized /\ ~FlashEnableAttr /\ Spec => AbsSpec` and holds for all
constants.

`IInv` alone does not give it. An abstract `PowerUp` requires the flash not
to be routed, and `IInv` does not say who may hold flash mode. The
strengthening is `RInv == IInv /\ FlashHeld`. `FlashHeld` says that if
flash mode is on, some actor is inside a partition bracket, between
`PLookup` and `PFlashOff`. Without the `flash_enable` attribute, only the
bracket switches flash mode on, and it switches it off before leaving.
With `OneBusy`, this means no `EnOn` can run while the flash is routed.

The argument:

- `StepHeld` and `StartHeld` show that every action preserves `FlashHeld`, per case of the stepping actor's label.
- `RInvariance` gives `[]RInv`.
- `StepAbs` maps each step:
  - `EnOn` and `PRestore` to `PowerUp`;
  - `POff` and `DisOff` to `PowerDown`;
  - `PFlashOn` to `Route`;
  - `PFlashOff` to `Unroute`;
  - `EnClk` and `DisAct` to `Enable` and `Disable`;
  - every other step to a stutter.
- `PTL` combines these into `AbsSpec`.

## The dispatcher refinement proof (`ApbaDispatchProofs`)

`DRefinement` states
`Serialized /\ ~FlashEnableAttr /\ DSpec => AbsSpec` for the whole
composition of the power controller with the interrupt dispatcher, the
attach work queue, `apba_isr` and `apbe_power_store`. The `dispatch_serial` run checks the
same property on a small instance.

The inductive invariant is `DInv /\ FlashHeld`. `DInv` is `IInv` plus the
dispatcher's own facts, and `FlashHeld` is the strengthening used in
`ApbaRefinementProofs`. TLC checked `DInv /\ FlashHeld` as an invariant of
the `dispatch_serial` instance (1,176,738 states) before the proof was
written.

The argument:

- `DispatchStutters`: a step that is not a power-controller step leaves
  `pc`, `desiredOn`, `powered` and `flashMode` unchanged. The interrupt
  handlers and `apbe_power_store` power only the APBE. The attach work
  only changes the attach count. `apba_isr` only forwards.
- `DNextRInv` preserves the invariant. `DInv'` comes from `DNextDInv`.
  `FlashHeld'` comes from `NextHeld` on a power step, and from
  `DispatchStutters` otherwise.
- `DNextAbs` maps a power step to an `ApbaModes` step through `NextAbs`, and
  every dispatcher step to a stutter.
- `PTL` combines these into `AbsSpec`.

## The log proof (`ApbaLogProofs`)

`LogSuffixInvariant` states `HonestFrames => (Spec => []LogIsSuffix)` for
every value of `LogSize`, `MsgSizeMax` and `PageRead`. `HonestFrames` says
two things:

- every frame's header size is the number of bytes received, at most
  `MsgSizeMax`;
- `MsgSizeMax <= LogSize`, which is true of the code's constants.

`LogIsSuffix` alone is not inductive. The step needs the length of the log
to be at most the capacity, so the strengthening `LInv` adds that bound and
the types of `log`, `history` and `sent`. The argument:

- Take the suffix start `k` of the current log.
- `LogIndInv`: when `of > 0`, `EvictArith` shows that `of <= size <= MsgSizeMax`.
  So exactly `of` bytes are evicted (`DropSuffix`), which leaves room for the whole frame.
  `kfifo_in` then copies all of it (`SubSeqFull`), and since the frame is honest, `Payload = Sent`.
  The new log is the suffix of the new history starting at `k + of` (`SuffixConcat`).
  When `of <= 0` the frame fits and the start stays at `k`.
- `LogShowInv`: a drain of `n` bytes moves the start to `k + n` (`DropSuffix`).
- `InitLInv` and `NextLInv` are combined with `PTL`.

The `log_serial` run checks the same property on a 4-byte instance. The
`log_overread` run shows why the honesty hypothesis is needed.

## Not modelled, and why

- **The PM branches of `apba_handle_message`, and `apba_wake_assert`.** These forward to the transport's power management, which is outside this repository.
- **The early returns of the protocol requests when no transport is registered.** `ApbaProtocol` assumes a registered transport. `apba_log_show` would pass NULL to the transport in that case (a hazard listed in `PROJECT.json`).
- **Composition of `ApbaProtocol` and `ApbaLog` with `ApbaPower`.** The protocol requests do not read power state. The drain of `apba_log_show` after its completion is `ApbaLog`'s `LogShow`.
- **Short writes that return 0 (unchecked `retlen`), and `memcmp` past a firmware image shorter than a page.** These need image sizes, which the page abstraction leaves out.
- **GPIO sequence execution, device-tree parsing, sysfs formatting, module lifecycle.** These are configuration or I/O and keep no driver state. spec.md places them out of scope.
- **`ctrl->mode = 0` in `apba_on(false)`.** It would couple `ApbaProtocol`'s `mode` to power. No property here reads `mode` across a power cycle.
- **The audio command layer.** It is request marshalling without state.

## Next steps

- A byte-level image model for the short-write and short-image hazards.
