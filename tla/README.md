# global-net-proxy: TLA+ models, model checking and proofs

This directory holds a verification project for global-net-proxy: TLA+ modules
translated from the Rust, shell and C sources, TLC configurations that check them
on small instances, and TLAPS proofs of the main safety properties for all
values of the constants. `PROJECT.json` is the machine-readable index: the
components, the runs, the source lines behind each definition, a mutant for
every checked property, the disagreements found, the hazards, the theorems.

Contents: 1 the system, 2 the plan, 3 what is modelled and how, 4 properties and
runs, 5 bounds, 6 fairness, 7 proofs, 8 disagreements between code and text,
9 what is not modelled.

## 1. The system (inventory)

global-net-proxy keeps a set of machines online through a proxy tunnel. A
client runs sing-box as a system service; sing-box reaches the server over
hysteria2 (QUIC, `hy2-out`) or, as a fallback, over ssh (`ssh-out`). The
project's own logic is in three Rust crates and one shell script; sing-box,
systemd, cron and git are external. One of the hosts (aipro) is connected by a
USB Wi-Fi adapter, for which the repository carries a patched AIC8800 kernel
driver. By size most of `src/` is that driver; its repairs are logged in
`deploy/aipro-wifi/docs` and `driver/aic8800-ugreen-src/logs/EXPERIMENTS.md`.

| component | source | state it keeps | operations | hard behaviours |
|---|---|---|---|---|
| guard | `gnp-client/src/guard.rs` | `var/guard-state.json` | one tick a minute: probe, back off, freeze, unfreeze, heal, alert | several system calls per tick, death and failure between any two, ticks that overlap, timing |
| switch | `gnp-client/src/switch.rs` | selector default in `config.json`, choice in the running sing-box | `set_selector` (guard and `gnpc switch`) | two stores, no transaction |
| clash_api client | `gnp-client/src/api.rs` | none | PUT, delay probe, `/proxies` | lost or late answers |
| config | `gnp-core/src/config.rs` | `config.json` | load, save | truncate-then-write, concurrent writers |
| service | `gnp-core/src/service.rs` | the service manager's units | start, stop, is_running | privileges missing, ignored errors |
| tick.sh | `deploy/scheduler/tick.sh` | day marker | guard, rules-update, tick.d | no mutual exclusion between minutes |
| rules-update | `gnp-client/src/update_rules.rs`, `install.rs` | rule files | download, kill, start | restarts sing-box beside the guard |
| install, settings | `gnp-core/src/install.rs`, `settings.rs` | `config.toml`, `config.json` | render, check | write before check |
| scheduler, install_sched | `gnp-core/src/scheduler.rs`, `gnp-client/src/install_sched.rs` | crontab, launchd plists | read, filter, write | unreadable crontab taken for empty |
| migrate | `gnp-client/src/migrate.rs` | legacy and new services, directories | six-phase migration, rollback | two services on port 1080, death between phases |
| register | `gnp-client/src/register.rs` | peer pool in a git repository | pick, mark used, push | clients racing for a peer |
| gnps | `gnp-server/src/main.rs` | server `config.toml`, `config.json`, pending users | deploy, gen-user, add-user, pregen, activate | lost update, half-done activation, cut-over |
| probe | `gnp-client/src/probe.rs` | none | handshake and MTU diagnosis | boundary values |
| driver: command manager | `rwnx_cmds.c`, `rwnx_send_msg` | command list, slots, one command buffer | send, confirm, time out, defer to a worker | callers, worker and confirmations interleave; late answers |
| driver: USB data path | `aicwf_usb.c`, `aicwf_txrxif.c` | URB lists, counts, queue state | send, submit, complete, receive, remove | handlers in interrupt context beside two threads; wakeups; unplugging |
| driver: receive reordering | `rwnx_rx.c` | sorted list, expected number, timer | hold, release, time out, flush | wrapping numbers; timer, work and arrivals |
| proxy, tunnel, platform, cleanup, recover, main | the rest of `crates/` | none between runs | system commands | nearly pure I/O |

How they interact. `tick.sh` starts `gnpc guard` every minute whether or not
the last one has ended. The guard probes through clash_api and, to freeze,
unfreeze or heal, calls `switch::set_selector`, the same function as the manual
`gnpc switch`. `set_selector` loads `config.json`, writes it back with the new
default, and PUTs the choice to the running sing-box; when sing-box restarts it
takes the choice from `config.json`. `gnpc migrate` wires the tick first, so
that the guard may start the new service while the migration still runs. Inside
the driver, commands and frames share the state of the bus and nothing else;
received frames pass from the USB receive thread to the reordering.
`guard-state.json` is private to the guard
but shared by all its ticks. Nothing locks any of these files.

What makes each component correct:

- guard: a freeze always has enough failed probes behind it; a freeze is undone
  when hy2 returns; a manual choice is respected by healing; traffic ends up on
  a channel that works; an outage and a recovery are noticed in bounded time.
- switch: the config is the commit point; after any failure the config and the
  running choice agree, or the failure is one that excuses it.
- config: no command leaves an unreadable file behind.
- service: a stopped or crashed sing-box comes back.
- tick.sh, rules-update: one update a day, no restart storm with the guard.
- migrate, gnps deploy: at each moment at most one service on the port, and a
  death at any step is repaired by running the command again.
- register, gnps users: a peer is given to one client; a user reported
  activated is in the configuration the server runs.
- crontab: other lines of the user survive every command.
- command manager: one writer of the command buffer; each caller gets its own
  answer, or an error; nothing is left behind; nobody waits for ever.
- USB data path: no lost wakeup of the threads or of the network; no lost URB;
  the removal ends.
- reordering: frames leave in order across the wrap of the numbers; a missing
  one is given up in time, neither early nor never.

## 2. The plan

Order, most important behaviour first. Steps 1 to 8 are done.

1. `SingBox`, `Switch`, `Guard`: the channel.
2. `FailureDetector` as the abstract specification of the guard's state file,
   with `Guard` shown to implement it.
3. `GuardTiming`: backoff, jitter, alert repetition; `GuardTiming_proofs`.
4. `Guard_proofs`, `Guard_serial_proofs`, `Guard_history_proofs`.
5. `Migrate`: the hand-over of port 1080 with the guard's start of a dead
   service, the rollback, deaths and reboots; `Migrate_proofs`.
6. `CmdMgr`: the driver's command manager; `CmdMgr_proofs`.
7. `UsbBus`, `UsbTx`, `UsbRx`, `UsbData`: the driver's data path;
   `UsbData_proofs`.
8. `Reorder`: the driver's receive reordering; `Reorder_proofs`.
9. Not yet built: `ServerUsers` (`add_user_and_apply`, `gen-user`, `pregen`,
   `activate` with deaths and two operators): an activated user is in the running
   configuration, no user whose password was handed out is lost.
   `ServerCutover`: `Migrate`'s protocol on the server. `Register`: clients,
   clones, the shared branch; a peer has at most one client. `TickSh` and
   `Crontab`: the rules window beside the guard; one successful update a day,
   foreign lines kept. The life cycle of stations beside `Reorder`.
10. Proofs: every safety property of the passing runs has its theorem. Left are
   the safety halves of the liveness properties of `Migrate`, `UsbData` and the
   guard, as `SomebodyPushes` and `SomebodyLooks` are for `CmdMgr` and `Reorder`.

Each module has its parameters as CONSTANTS with a named assumption where a
proof needs one, one action per system call, and no recursive operator. One run
per question.

## 3. What is modelled, and how

`SingBox` (external world): `cfg` is the selector's default in `config.json`, or
`"empty"` / `"garbled"`; `svc` is the gnpc service; `hot` the selector's choice
in the running sing-box; `urltest` the member that `auto-out` uses; `hy2Up` the
path. `Boot` is a start with the config on disk: the cache file does not store
the selected outbound, so `hot` starts as `cfg`. Faults are taken from
`FaultKinds` by `Strike`, at most `MaxFaults` of them, and remembered in `seen`
so that a property can say which faults excuse it:

| fault | what it is |
|---|---|
| write | config.json cannot be opened for writing |
| enospc | it is truncated, then the content cannot be written |
| api | a clash_api call gets no answer; a PUT may have been carried out all the same |
| systemctl | start fails, or stop has no effect (stop reports success) |
| crash | sing-box dies |
| kill | a gnpc process dies between two of its system calls |
| stwrite | guard-state.json cannot be written; the old file or none remains |
| latency | urltest prefers ssh although hy2 works (tolerance) |

`Switch` is `set_selector`, one action per system call: `SetLoad`, `SetOpen`
(truncation), `SetWrite`, `SetPut`, `SetFallback`. `pc[p]` is where process p
stands, `site[p]` the place it was called from (manual, unfreeze, heal, freeze)
and `After` where that caller goes on. A second writer in the middle of a save is
modelled by `Overwrite`: the longer text's tail survives a shorter one.
`pin`, `owner` and `written` are history variables.

`Guard` is `tick()`: `TickBegin` (read the state file, possibly torn by another
tick's save), `TickAlive` (address, liveness, start, backoff), `ProbeOk` or
`ProbeErr`, `TickHeal` (`/proxies`), `TickDecide` (`heal_action`), the calls of
`set_selector`, `TickStop` and `TickStart` after a freeze, `TickSave`. Users run
`ManualSwitch`, `GnpcStop`, `GnpcStart`. `Kill` ends any process anywhere.
`Serial = TRUE` means that nobody starts a command while another one runs;
`FALSE` is what tick.sh really guarantees, which is nothing.

`FailureDetector` is the abstract specification of the state file: two fields,
two atomic steps. `Guard` instantiates it with `failures <- file.failures,
frozen <- file.frozen`.

`GuardTiming` is one guard with ticks that do not overlap, on a clock: seconds
between ticks, backoff with its shift, cap and integer jitter as in the code,
alert repetition. The absolute times of the state file are kept as distances
from now. Every jitter percentage from 80 to 120 is possible.

`Migrate` is `gnpc migrate` on Linux from the moment it wires the tick
(`Prepare`), one action per group of system calls: `StopSystem`, `StopUser`,
`Load`, the three steps of `verify_new_service`, `Rollback` and `RollbackNew`, or
`Purge` and `Archive`. systemd is three sets, what is installed, enabled and
wanted (running, or run again after a failure), and `holder`, who has port 1080;
`Binds` is any wanted service that finds the port free. `machine` is chosen at
the start: who runs the migration, whether the tick may start services, whether
the new service can run, and which legacy service there was. `GuardTick`,
`NewServiceStops`, `Reboot` and `Killed` may come between any two actions.

`CmdMgr` is `rwnx_send_msg` and the command manager. A call goes through
`TakeSlot`, `Enqueue` (the whole locked part of `cmd_mgr_queue`) and the steps of
`aicwf_set_cmd_tx`, which no lock protects: `Fill` (the command buffer), `TxMsg`
(`msg_finished` is cleared), `Submit` (the one URB, refused when it is still out)
and `TxDone` (the wait for `msg_finished`, or the time-out that kills the URB).
Then it waits for its confirmation; or
`Enqueue` leaves it to the worker and the call returns. A message that needs no
confirmation (kind `direct`) goes through the same steps without the list and
gives its slot back (`FreeDirect`). `Transferred` is the moment the device takes
what the buffer then holds, `UrbDone` the completion handler: a confirmation may
come before the handler has run, or before the sender has noticed. The worker
(`WorkStart`, `WorkScan`, `WorkClear`) pushes the first command only. `MsgInd` is
a confirmation, matched by its id; a request carries who sent it, which the code
cannot see, so that a property can tell whose answer it was. `TimesOut` and
`Crash` are two steps, since the confirmation may come between them.

`UsbTx` and `UsbRx` are the halves of the data path over `UsbBus`; `UsbData`
composes them with the removal of the adapter. URBs are interchangeable, so the
lists are counts. What different locks protect is read and written in different
steps: posting, the wakeup and the water mark in `aicwf_usb_bus_txdata`; giving
the URB back and the other water mark in the completion; queueing, counting,
the wakeup and the submissions in `aicwf_usb_rx_complete`; the queue and the
count in `aicwf_process_rxframes`. `bustx_trgg` and `busrx_trgg` are completion
counts. `MCUsbData` lets a behaviour exercise one half, since the halves share
only the bus; the proofs are about both at once.

`Reorder` is one traffic id of one station. A frame is its position in the
sender's stream and the code sees `Sn`, its number modulo `SnMod`. `HoldFrame` is
`reord_process_unit` for a frame that is not late: `Checked`
(`reord_need_check`), `Enqueued`, and `Release`, with the timer. The loops over
the list are stated by where they stop: `Place` (the first frame that is not
older), `Following` (the first number that is missing), `FirstAhead` (the first
frame that must wait). `LateFrame` and
`DuplicateFrame` are its other outcomes. `TimerFires`, `TimeoutHandler` and
`TimeoutWorker` are three steps, as are those of `reord_flush_tid`.

Abstractions that matter:

- A restart of the driver (re-probe), by which the crashed state of the command
  manager ends, is a new behaviour.
- A killed caller is a history (`killed`), by confirmation id; a direct message
  sent beside another message, or before an earlier one's URB has completed, is
  another (`beside`).
- The firmware confirms a request at most once, at any time later, or never.
- The receive thread's handling of a frame is one step; a frame it gives up for
  lack of memory is `RxGivesUp`.
- Frames of equal number are far enough apart in the stream that the code's
  window arithmetic can tell them apart (`ReorderAssumption`); beyond that the
  802.11 block-ack protocol itself breaks down.
- `failures` counts no further than `FreezeAfter` (Guard) or `7 + FreezeAfter`
  (GuardTiming): the code compares with `>=` and caps the shift at 6.
- Of the times in the state file, Guard keeps whether `next_probe_ms` has passed
  (`wait`); GuardTiming keeps the numbers.
- Writing guard-state.json (a few hundred bytes) is one step, and a read inside
  it can be torn; writing config.json is two steps, because other programs
  (sing-box at boot, a second writer) meet the file in between.
- `TickAlive` makes three calls in one step. Each only reads, apart from the
  start, which is the last one.
- The configuration has both channels. With hy2 alone, `set_selector` fails at
  its first check and the guard can only report.
- The platform is Linux with systemd; `is-active` itself does not fail.
- The `[guard]` settings do not change during a behaviour.
- `FreezeAfter` is at least 1. With 0 the code behaves as with 1, since it only
  compares after a failure.

## 4. Properties and runs

| run | instance | question |
|---|---|---|
| `channel_serial` | 1 tick, 1 user, serial, all 8 faults, 2 of them | what is left behind when any two things go wrong |
| `channel_overlap` | 2 ticks, overlapping at every call, faults write/api/stwrite, 1 | what survives overlap |
| `channel_live` | 1 tick, faults api/crash/latency/systemctl, 2, fair | does traffic end up where it works |
| `guard_timing` | settings 2/60/180, tick delay 0 or 1 s | detection times |
| `migrate_linux` | 2 migrations, 1 reboot, 1 stop, all machines, fair | what a migration may leave behind, wherever it dies |
| `cmd_mgr` | 3 calls, 3 slots, list of 2, 1 id, which may be killed, fair | who answers whom, and does everybody return |
| `usb_data` | 8 TX URBs (marks 2, 6), 3 RX URBs, queue of 3, 3 failures, fair | lost wakeups, lost URBs, removal |
| `rx_reorder` | numbers mod 18, window 4, 21 frames, fair | order and delay of delivery |
| `migrate_rollback` | as `migrate_linux` | a failed migration restores the old service (violated) |
| `channel_killed_freeze` | 1 tick, 1 kill | "account first, then act" (violated) |
| `channel_failed_freeze` | 1 tick, write and latency, fair | a failed freeze falls to ssh by itself (violated) |
| `channel_manual_pin` | 1 tick, 1 user, no faults | a manual choice is not overridden (violated) |

Properties of the passing runs:

- `FreezeIsAccounted`: when nobody runs and the guard's own ssh-out is in the
  config, the state file says frozen, unless a file or process fault struck.
- `QuiescentAgreement`: at rest the running choice is the config's, unless an
  API call was lost or a process or write died halfway.
- `ConfigSurvives`: config.json is unreadable at rest only after a death or a
  full disk inside a save.
- `HealNeverOverridesPin`: healing never moves away from a manual hy2 or ssh
  choice that is still in force.
- `FreezeNeedsStreak`: a freeze has `FreezeAfter` failed probes in a row behind
  it, unless a tick died or could not save.
- `DetectorSpec`: refinement of `FailureDetector`.
- `FrozenIsCounted`, `HotWasCommitted`: hold even when ticks overlap.
- `RecoversToHy2`, `DegradesToSsh`, `ServiceComesBack`: liveness.
- `RecoveryNoticed` (four minutes), `FreezesInTime` (three minutes),
  `AlertsKeepComing` (30 minutes and one backoff).

- `WayBack`: until a migration has verified the new service, the legacy unit and
  its directory are in place. `ServedAgain`: the port does not stay unserved.
  `NewServiceWins`: after a good end by root, the new service has the port, also
  after a reboot or a stop.
- `OneWriter`: the command buffer is not filled again before the device has
  taken what it holds; a confirmation that overtakes the end of the send lets the
  next caller in, and that is early enough. `OwnAnswer`: a call that succeeds was
  answered by its own confirmation. Both hold until one of two things happens,
  which the code does nothing to prevent. A caller is killed while it waits: its
  late
  confirmation may complete a command of the same id before it is sent; the next
  command then fills the buffer under it, is sent twice, and its second
  confirmation may answer yet another caller, of any id. (So an exception for the
  killed id alone would be too narrow: with four calls it is violated.) Or a
  direct message is sent beside another message, or before the URB of an earlier
  one has completed: nothing keeps it away from the buffer, and the same double
  sending follows.
  `NoDanglingCommand`: without
  a timeout no listed slot is free and no answer buffer has gone.
  `NothingLeftBehind`: at rest the list is empty and every slot is free.
  `CallsReturn`, `DeferredIsPushed`: liveness.
- `PostedIsSeen`, `ReceivedIsSeen`: what is posted or queued has a thread at work
  on it or a wakeup coming. `StoppedForAReason`: stopped queues have a completion
  to wait for. `ReceptionGoesOn`: idle receive URBs are accounted for by failures. This
  is about the data endpoint, which is the one modelled; the message endpoint's
  handler does lose an URB when its queue overflows (section 9).
  `QueuesWake`, `RemovalEnds`: liveness.
- `OutInOrder`, `NoneSkippedEarly`, `LateIsOld`, `HeldWithinWindow`: delivery in
  the order of the stream, a gap passed over only by the timer or by a frame a
  window newer, no new frame taken for an old one, a list that stays sorted and
  within the window. `HeldComesOut`: nothing is held for ever.

Each has a mutant in `PROJECT.json` that breaks it: the order of 2026-10-05 (hot
switch before the config), a backoff cap of one hour, a freeze that does not
restart sing-box, a count compared before it is incremented, and so on. The
mutants are the operators marked "Mutant:" in the modules; no specification uses
them.

`FreezeIsAccounted`, `ConfigSurvives`, `QuiescentAgreement` and `DetectorSpec`
do not hold when commands overlap: one tick can save an older state over the
frozen mark, two writers can garble config.json, and two ticks can count a probe
against the same old state. The documentation promises nothing for that case, so
these are hazards in `PROJECT.json`, not findings.

## 5. Bounds, and why they are enough

- Ticks: one when serial (a tick keeps nothing in memory for the next one, so a
  second process adds no behaviour), two when overlapping: every pair of calls
  of two ticks is interleaved. Three would only add a third reader of the same
  two files.
- Users: one, with all three targets and stop and start, again because serial
  commands hold no memory.
- `FreezeAfter = 2`, the default: the count can be below, at and beyond it.
- `MaxFaults = 2` in the serial run: one fault that spoils something and one
  that hits the repair. In `channel_overlap` one fault, to keep the run short;
  the theorems cover any number.
- `channel_live` leaves out the faults that hit files or processes: with "write"
  `DegradesToSsh` fails (section 8), with "kill" so does recovery.
- `Migrate`: two migrations (the second meets what the first left in any state),
  one reboot, one stop. A third would meet the same states again.
- `CmdMgr`: three calls make a list with a first, a last and one that is refused.
  With one id every confirmation fits every command that waits, which is the
  hardest case for the matching. The safety properties were also checked with two
  ids (4.9 million states, without the liveness, which takes too long there), and
  the theorems are for any set of ids.
  The list is shorter than the array, as in the driver (16 and 40), so both
  limits are met: the list's by a third call, the array's by slots that a
  timeout leaves on the list.
- `UsbTx`: water marks at 25% and 75% of the URBs, as in the driver, with the
  distance between them large enough for a stop and a wake to cross. `UsbRx`: as
  many failures as URBs, so that reception may stop altogether. Completions are
  counted up to 2: one more than is needed to let a thread wake for nothing.
- `Reorder`: the stream is longer than the numbers, so that they wrap while
  frames are held; at most one frame in a row is lost, so that
  `MaxLost + 2 * WSize <= SnMod \div 2` (the driver's 64 and 4096 leave room for
  1920).
- Time: `Delays = {0, 1}`; a tick that is up to a second late is enough to fall
  before or after a backoff of whole minutes, and the theorems of section 7 cover
  longer delays. The worst moment for a path change
  is right after a tick, so that is where it happens.

## 6. Fairness

`FairSpec` assumes weak fairness of each tick's steps, of `set_selector`'s steps,
of time (`BackoffElapses`), of urltest leaving a dead member and of systemd's
restart. Justification: cron starts a tick every minute; every call in a tick has
a timeout (curl -m, systemctl's own) or ends by itself; urltest probes every
three minutes and the unit has `Restart=on-failure`. Nothing is assumed of the
path, the faults, the users, or urltest's return to hy2: the tolerance may keep
it on ssh for ever, which is what the guard's healing is for.

`Migrate`: cron's tick and systemd's starts are fair; the migration is not, it
may stop anywhere. `CmdMgr`: as long as some call inside the driver or the worker
can take a step, one of them does, as the kernel schedules them and both waits
have a timeout; this one weak fairness for all of them is less than fairness for
each. The firmware owes no answer and the host controller no completion, and
nothing is assumed of `UsbDown` or `Killed`. `UsbData`: threads (real-time priority),
handlers and the removal go on, and the host controller gives every URB back;
nothing is assumed of traffic. `Reorder`: the kernel runs timers and queued work;
nothing is assumed of the sender.

## 7. Proofs

All proofs are checked by TLAPS 1.4.5 (SMT with Z3, Zenon, LS4), for every set
of ticks and users, every `FreezeAfter`, every `FaultKinds` and `MaxFaults`.
The assumptions are `FaultAssumption`, `ProcAssumption` and `GuardAssumption`,
which TLC evaluates on every run of `MCGuard`; for the data path
`BusAssumption`, `TxAssumption` and `RxAssumption` (any number of URBs, any
ordered water marks), `MigrateAssumption`, and `CmdMgrAssumption` (any finite
array of slots, any number of calls, any list limit above zero),
`TimingAssumption` (any settings above zero; a tick is less than a whole period
late, or it would be the next one), and `ReorderAssumption` (an even number
space, room in half of it for two windows and the frames lost in a row).

`Guard_proofs` (commands may overlap):

- `TypeCorrect`: TypeOK is inductive, one lemma per group of actions.
- `FrozenCounted`: not inductive by itself, since the file is written from a
  tick's memory: `CountedInv` says the same of the file and of every copy.
- `HotCommitted`: `CommitInv` adds the two ways a choice reaches the running
  selector: the config (at boot) and the target of a PUT, both already written.

`Guard_serial_proofs` (ASSUME Serial):

- `ConfigInductive`: `ConfigInv`, with `OneRunning` (one process at a time),
  `WriteWindow` and `WrittenTarget` (what the file holds inside a switch),
  `ConfigWhole` and `HotAgrees` (the two claims, weakened inside the window).
- `ConfigIsWhole` and `HotIsConfig` follow from it: inside the window somebody
  runs, so at rest the claims hold.
- `FreezeAccounted`: `MarkInv` follows the frozen mark from memory to the file:
  `MarkSurvives` (the mark is in the file or in a tick that is past its write),
  `MarkHeld` (no tick forgets it but the one that replaces ssh-out) and
  `FreezeArgs` (who calls `set_selector` with what).

`Guard_history_proofs` (ASSUME Serial):

- `FreezeHasStreak`: `StreakInv` follows the count of failed probes in a row from
  the file to the tick's memory and back: in the file until the probe
  (`CountSaved`), in the memory of a running tick (`CountHeld`), and full in every
  step of a freeze. A death or a lost save breaks it, hence the excuse.
- `HealingSparesPin`: `PinInv` says that while a manual choice stands in the
  config, sing-box runs it (`PinInHot`) and a tick about to decide has seen it
  (`PinInView`); a manual switch under way has no pin, and what a tick wrote is the
  guard's (`GuardWrote`). So `heal_action` finds nothing to heal.

- `ImplementsDetector`: `DetectorInv` says that a tick's copy is the file's
  state, a reset one, or the file's with one more failure; so the save, or the
  reset by a lost save, is one step of `FailureDetector`.

`GuardTiming_proofs` (the arithmetic of backoff and detection, for any settings
that the theorem does not bound):

- `TypeCorrect` from `TimingInv`, which also says (`RecoveryWaits`) that the time
  hy2 has been back and the wait still ahead never add up to more than the longest
  backoff; `AlertWaits` says the like of the last alert.
- `RecoveryIsNoticed` and `AlertsRepeat` assume `BackoffCap < 200`: the cap times
  120% of jitter must stay below four ticks. The default is 180; with 200 both
  bounds can be missed.
- `FreezeComesInTime` assumes `FreezeAfter <= 2`, `BackoffBase <= 60` (the
  defaults) and ticks at most 48 seconds late. `FreezeNears` bounds the age of an
  outage by the count of failures and the wait. With 49 seconds the backoff
  after a late first probe (up to 72 seconds) may outlast the next two ticks.

`UsbData_proofs` (both halves at once, over `UsbData`'s own `Spec`):

- `TypeCorrect`: the two halves and the removal keep each other's types.
- `PostedSeen` and `StoppedRightly` from `TxInv`, which is `TxTypeOK` (each URB in
  one place) with both claims and the fact that the thread exits only on a bus
  that is down; `BusInv` ties the bus to its removal.
- `ReceptionCorrect` and `ReceivedSeen` from `RxInv`. `ReceivedIsSeen` is not
  inductive: `Counted` relates the count to the queue and to where handler and
  thread stand, and `QuietIsEmpty` says that a thread that waits without a wakeup
  has an empty queue.

`Migrate_proofs`:

- `TypeCorrect`, and `WayBackStaysOpen` from `VerifiedFirst`: whoever purges or
  archives has verified the new service.

`CmdMgr_proofs` (any interleaving of callers, worker, firmware and kills):

- `Invariant`: `IInv` says how the list alone keeps two pushes apart. `Ordered`:
  done commands first, then at most one in progress, then those left to the
  worker. `Owned`, `HeldIsListed` and `LeftToTheWorker` say which process each
  slot belongs to. `Quiet`, until a kill or a direct message disturbs the list:
  the request in progress is all that the firmware has or the URB will bring it
  (`Owed`), so no confirmation can complete a command that was not sent. `Apart`:
  an URB that carries a direct message still has its sender, who has not been told
  of an earlier completion, and no request is sent twice. After a timeout the slot of a listed command may be taken again
  and its id overwritten; then a confirmation may hit a command left to the
  worker, and `Stuck` says why that one is never pushed. `Sane` is what holds
  until a timeout.
- `BufferHasOneWriter`, `ListedBelongs`, `RestIsEmpty` and `TypeCorrect` follow:
  two list commands are kept apart by `Ordered`, a list command from the URB that
  is out by `Owed`, and a direct message by nothing but the exception.
- `AnsweredByOwn`: a call returns success only by `Confirmed`, and by `Quiet` the
  completion its slot then holds is its own request's.
- `SomebodyPushes`, the safety half of `DeferredIsPushed`: while a command is left
  to the worker on a bus that is up, the worker is due or some call is under way
  (the call that finds the list no longer empty behind it wakes the worker).
- The helper lemmas are about the list (`Removed`, `Appended`) and the lowest
  free slot (`LowestIsMember`).

`Reorder_proofs` (any number space, window and stream within the assumption):

- Number lemmas: `SnPlus` (counting on from a number is counting on from its
  frame), `SnLessInOrder` and `SnApart` (two frames less than half the number
  space apart are told apart, and put in order, by their numbers).
- `Invariant`: `IInv` finds the frame behind the number. Either nothing has come
  since the last flush (`Fresh`), or there is a place e of the stream
  (`Flowing(e)`) whose number is the one expected: it lies above what has left
  the list, below all that is held, within a window of the newest frame, and it
  directly follows what has left unless the window has moved past it. Everything
  is then less than half the number space apart, so the code's comparisons of
  numbers are comparisons of frames. `After(e, n)` is where an arriving frame n
  moves e; the list lemmas say that `Place`, `Following` and `FirstAhead` exist
  and what they give on a sorted list.
- `TypeCorrect`, `ListInOrder` (for `HeldWithinWindow`), `NoneMistakenForOld` (for
  `LateIsOld`), `DeliversInOrder` (for `OutInOrder`) and `SkipsNoneEarly` (for
  `NoneSkippedEarly`) follow from it; the last two are about steps.
- `SomebodyLooks`, the safety half of `HeldComesOut`: on a bus that is up, frames
  are held only while the timer, its handler or the worker is due.
- The driver's constants satisfy the assumption: 4096 numbers and a window of 64
  leave room for 1920 frames lost in a row.

The inductive invariants of the guard were model-checked on the instance of
`channel_serial`, that of the command manager on the
instance of `cmd_mgr`, that of the
reordering on the instance of `rx_reorder`.

Only model-checked: the liveness properties (`RecoversToHy2`, `DegradesToSsh`,
`ServiceComesBack`, `ServedAgain`, `NewServiceWins`, `CallsReturn`,
`DeferredIsPushed`, `QueuesWake`, `RemovalEnds`, `HeldComesOut`), since liveness
under fairness and ENABLED are out of TLAPS's reach; and the four violation runs,
which are counterexamples. `FreezeIsAccounted`, `QuiescentAgreement`,
`ConfigSurvives`, `HealNeverOverridesPin`, `FreezeNeedsStreak` and `DetectorSpec`
are proved for serial commands only, where alone they hold.

## 8. Disagreements between the code and its text

- `channel_killed_freeze`: guard.rs:169-171 says that the freeze is accounted for
  before it acts. The mark is set in memory and saved after the switch, the stop,
  a sleep and the start; a tick that dies in between (power loss, OOM, a user's
  kill) leaves ssh-out as a default that looks like a manual choice, and the
  client stays on ssh.
- `channel_failed_freeze`: guard.rs:177 says that urltest falls to ssh by itself
  when the freeze fails. It does as long as the selector is at auto-out; after
  healing forced hy2-out it is not, and the freeze is not tried again.
- `channel_manual_pin`: usage.md:507 says the guard does not override a manual
  choice. It does, by freezing, and by unfreezing when the choice was made while
  frozen. Only the healing respects it (`HealNeverOverridesPin`).

- `migrate_rollback`: migrate.rs:154 and :161-162 report that the old service is
  back as it was. The user's legacy `sing-box` was disabled and stopped by
  `stop_legacy_services`, and `rollback_legacy` does not know it.

Some of what the driver does is a hazard rather than a disagreement, because no
text promises otherwise: a killed caller's confirmation may complete another
command of the same id, and by a second sending of the next one answer a caller
of another id; a message without a confirmation fills the command buffer under a
command that is being sent; a command left to the worker when the adapter goes makes
a polling caller poll for ever; a frame given up for lack of memory stops the
wakeups of the receive thread; a failed submission frees its URB without waking
the network. The properties name these cases as their exceptions.

## 9. Not modelled

Planned: server users, cut-over, registration, crontab, rules-update, the life
cycle of stations (section 2). Left out: macOS and Windows service handling; logs, notifications
and the heartbeat; the text of configurations and API calls; the probing of real
networks; system proxy settings and manual repair commands, which keep no state
and read nothing back; installers and deployment assets; the macOS variant of the
migration.

Of the Wi-Fi driver, 78,000 lines of C, the three parts above are modelled because
they are concurrent and because the repository's own patches touch them. The
rest (cfg80211 callbacks in `rwnx_main.c`, message construction in
`rwnx_msg_tx.c`, regulatory and calibration tables, firmware download, the SDIO
variant, debug files) is third-party code, most of which translates between
kernel and firmware structures. Inside the modelled parts these are left out:
`cmd_mgr_queue_force_defer`, which `rwnx_send_msg1` uses once, to remove an
interface; `cmd_mgr_drain`; the message endpoint's receive half, which is not like
the data endpoint's: on overflow `aicwf_usb_msg_rx_complete` frees the frame and
neither puts the URB back nor submits another (aicwf_usb.c:720-724), so that
`ReceptionGoesOn` would fail there, and a failed submission returns 0
(aicwf_usb.c:910-918); the URB
counter kept for debugging; the semaphore that waits for the disconnect
callback; suspend; the shared pool of 250 frames and the removal of a station
while its frames are reordered.
