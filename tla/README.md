# A formal model of BridgeVM

BridgeVM runs Windows 11 on Arm and other guests on Apple silicon, on
Hypervisor.framework. This directory holds TLA+ modules that model its core, TLC
configurations that check them on small instances, and proofs checked by TLAPS.
Paths below are relative to `src/`; `hvf` stands for `crates/bridgevm-hvf/src` and
`probe` for `crates/bridgevm-hvf/examples/hvf_gic_boot_probe` (the program that owns
the vCPU threads and the run loops).

Two parts are modelled. The first is the storage path, from a guest's doorbell to
data that survives a power loss, because that is where threads, locks, timeouts,
rings and durability meet, and where a mistake loses data. The second is what all
devices rest on: how vCPU threads start, stop, pause and fail, and how the userspace
interrupt controller gets an interrupt to the CPU it is for.

## The system

| Component | State | Operations | What is hard |
|---|---|---|---|
| NVMe controller (`hvf/nvme/queue.rs`, `admin.rs`, `configuration.rs`, ...) | registers, rings, pending bits, slots held, asynchronous event requests | doorbells, drain, queue creation and deletion, CC writes, cold reset | completions that come late, ring capacity, phase tags, resets under running jobs |
| Flush worker (`nvme/flush_worker.rs`, `flush_mode.rs`) | inbox, finished list, deadline, per-disk `owed` and `last_full` | defer, batch, sync, settle, publish | another thread; a promise kept later; failing syncs |
| I/O worker (`nvme/io_worker.rs`, `unlocked_io.rs`) | one handoff word per batch, an inbox | hand over, spin, park, give up, finish | timeout against completion; lost wakeups; drop and join |
| vCPU run loops (`probe/probe_runtime.rs`, `secondary_vcpu.rs`, `vcpu_coordination*`, `vcpu_final_state/`) | shutdown flag, terminal signal, drain gate, published handles | run, drain, CPU_ON, stop, reset | every vCPU is a thread; joins; RAM wiped or unmapped |
| PSCI (`hvf/psci.rs`, `probe/psci_adapter.rs`) | Off, OnPending, On per vCPU | CPU_ON, CPU_OFF, SYSTEM_OFF, SYSTEM_RESET | racing calls, shutdown in between |
| Pause gate (`probe/pause_gate.rs`) | requested, parked, in_loop, offset and its version | pause, resume, park | a pause abandoned at its deadline |
| Userspace GIC (`hvf/userspace_gic/`, `probe/usgic_bridge.rs`) | pending, active, enabled, priorities, routes, WFI lot | acknowledge, deactivate, register writes, kick | spurious or lost interrupts, a kick racing a sleep |
| MSI-X, PCI (`hvf/msix.rs`, `hvf/pcie/`) | table, pending bits, config space | raise, mask, drain | a vector masked when it is raised |
| virtio queues and devices (`hvf/virtio_*`) | indices, pending work | notify, pop, push used | publication order, wrap at 2^16 |
| xHCI and HID (`hvf/xhci/`) | slots, endpoints, rings with cycle bits | commands, transfers, events | cycle bits, full event ring, endpoint states |
| HD Audio (`hvf/hda/`, `probe/hda_*`) | streams, PCM ring | service tick, audio callback | a lock-free ring between two threads |
| NAT (`hvf/net_nat/`) | connections, reply queue | outbound, reply, evict | TCP splice, bounded queues |
| GPU, display, input, firmware tables, UART, TPM | devices' registers | MMIO | mostly sequential |
| Snapshots, managed pairs, checkpoints (`hvf/snapshot_*`, `managed_pair*`, `checkpoint/`) | staging directories, records, leases | stage, seal, publish, recover | crash between any two steps |
| Storage, import, media leases (`crates/bridgevm-storage`, `bridgevm-media`) | bundles, metadata, lock files | import, publish, lease | check-then-publish, two processes |
| HVF runtime (`crates/bridgevm-hvf-runtime`) | owned child processes | spawn, signal, wait | a wait whose result is uncertain |
| Daemon, API, CLI, launch plans, agents, macOS app, scripts | requests, plans | dispatch | outside the core |

How they interact: a guest's store to a doorbell leaves `hv_vcpu_run` on one vCPU
thread, which takes the platform mutex, calls the controller, and so drains the
rings. Jobs that would block (a FLUSH, a READ or a WRITE of a file) are given to
worker threads. The workers never take the platform mutex. They put results into
`Shared.finished` and call `FLUSH_DONE_HOOK`, which kicks vCPU 0 out of the guest;
vCPU 0 posts the completions at its next entry and raises MSI-X vectors through the
interrupt controller. System reset and the end of the run join the secondary vCPUs,
which join their workers, before guest RAM is wiped or unmapped.

## The modules

| Module | Role |
|---|---|
| `NvmeQueues` | the queue engine: rings, doorbells, fetch, deferral, completion, admin commands, resets; with a guest driver |
| `NvmeService` | what a driver is promised: each request answered at most once |
| `NvmeRefinement` | the refinement mapping from `NvmeQueues` to `NvmeService` |
| `NvmeInvariant` | the inductive invariants of `NvmeQueues`, each with the one before: `Inductive`, `WorkInvariant` (what stalled queues need), `ServiceInvariant` (what exactly-once answers need) |
| `NvmeQueuesProofs` | proofs of the first two and of what follows from them |
| `NvmeServiceProofs` | proofs of `ServiceInvariant`, `AnsweredOnce` and the refinement of `NvmeService` |
| `NvmeHandoff` | the vCPU loops, their I/O workers, the flush worker's hook, stop and reset |
| `NvmeHandoffProofs` | its inductive invariant and proofs |
| `NvmeDurability` | the flush worker's loop with time, the three sync modes, failures, shutdown |
| `NvmeDurabilityProofs` | its inductive invariant and proofs |
| `VcpuLifecycle` | PSCI, the owner threads of the secondaries, their handles, failure, shutdown, the next generation |
| `VcpuLifecycleProofs` | its inductive invariant and proofs |
| `PauseGate` | pause and resume of the guest, with its clock |
| `PauseGateProofs` | the inductive invariant of `PauseGate` and its proofs |
| `UserspaceGic` | the userspace GICv3 as a value, one operator per access |
| `UserspaceGicProofs` | what each access keeps and whom it kicks, as lemmas |
| `GicBridge` | vCPU threads and a device thread that use it: traps, samples, kicks, WFI |
| `GicBridgeProofs` | the inductive invariant of `GicBridge` and its proofs |
| `MC...` | constants for TLC |

The modules of the storage path cut the same code at different places. `NvmeQueues`
takes a worker to be any thread that finishes a job at any time, and a drain to be
asked for in the end; `NvmeHandoff` shows the vCPUs and threads that make this so,
with a batch as one unit and the rings abstracted; `NvmeDurability` opens what
`NvmeQueues` calls "the sync has finished" and follows the data. In the same way
`NvmeHandoff` takes for granted that a vCPU asked to exit leaves the guest and that
owners can be joined, `VcpuLifecycle` shows how they come to end, and `PauseGate`
what happens at the top of their loops. `GicBridge` composes the device of
`UserspaceGic` with the threads that share it.

### NvmeQueues

The platform lock is explicit. `pc` is "free", or tells how far the lock holder is:
"cc" (`write_cc` waits for the jobs in flight), "enter" (`process_into`), "take" and
"post" (`complete_flushes`), "scan" (the loop over `pending_sq_bits`). Between these
steps worker threads publish and the guest driver, on other vCPUs, writes
submissions and reaps completions; no other register write happens, which is what
the lock gives.

| TLA+ | code |
|---|---|
| `HasSpace` | `cq_has_space` with `flush_reserved_slots` (`completion_capacity.rs`) |
| `Posted` | `post_completion`, `write_cqe_at_tail` |
| `EnterProcess`, `TakeFinished`, `SyncFinished`, `PostFinished`, `AllPosted` | `process_into`, `complete_flushes`, `post_finished` |
| `StartScan`, `LeaveSq`, `FetchAdmin`, `FetchFlush`, `FetchIo`, `FetchInline` | the scan of `process_into`, `process_sq` and what it dispatches to |
| `BeginCc`, `ApplyCc` | `write_cc`, `process_shutdown_notification`, `reset_registers_keep_disks` |
| `Release` | `take_finished`: the finished jobs give back their slots and their count |
| `Unlock` | the vCPU takes the I/O queued for it (`take_io`) and lets go of the lock |
| `FinishIo`, `FinishFlush` | `NvmeIo::run`, the flush worker's `publish` |
| `Submit`, `Reap` | the guest driver: external |

Commands are records with an operation and an identity, not byte layouts: "rw",
"fua" (a WRITE whose data must be synced first), "flush", and "inline" for all that
`process_sq` answers on the spot. The driver obeys the NVMe specification: it does
not overrun its submission ring, does not use an identifier that is outstanding,
deletes a completion queue only after the submission queues on it, creates only
queues that it does not have, and gives up the requests of a deleted queue only
after it has looked at all completions. Without these rules the guest could only
confuse itself, so the properties would have no meaning. Ring sizes are constants
per queue.

### NvmeHandoff

A batch is one `NvmeIo` with its `Handoff`. A vCPU (`vpc`) goes from the top of its
loop through the pre-run drain into the guest, leaves it for a doorbell, takes its
batch, sends it to its worker, spins, checks, parks, gives up or is woken, and holds
the lock a second time to post what was published. `phase` is the handoff word
("pending", "done", "detached"); `wpc` is the worker, which publishes the batch,
finishes the handoff, notifies under the mutex, and calls the hook if the waiter is
gone. `exit` is the pending `hv_vcpus_exit` of vCPU 0, `gate` the `PreRunDrainGate`.
A worker thread that cannot be started makes the vCPU run its batch inline; a
secondary may fail at any time and drops its batch unrun. The end of vCPU 0's loop
joins the secondaries and their workers, then either resets the platform and wipes
RAM for the next boot, or drops vCPU 0's worker and unmaps.

### NvmeDurability

A disk has data in the page cache (`dirty`) and a `debt`: the age of the oldest
acknowledged flush that is not on the platters yet. In the ordered mode the worker
syncs with a barrier while the last full sync is younger than `DURABLE_WITHIN` and
owes a full sync; when the deadline passes, it settles. One worker serves both disks
with one deadline. A cold reset lets the worker go (the other cause, attaching a
second namespace, happens while the machine is put together): its channel closes, it
settles and ends, and its successor may run beside it. Shutdown syncs inline and
fully, after the jobs in flight. Time is in ticks; only ages and what is left of a
deadline are kept, so the state is finite. A worker's iteration takes at most `Lag`
ticks.

### VcpuLifecycle

Vcpu 0 is the primary. `pc` is where each thread is: an owner thread looks at its
state under its mutex ("owner"), creates the vCPU and publishes its handle the first
time, starts it, runs it and at the end withdraws the handle and destroys it.
Sections under a state mutex that call nothing are one step, so a notification that
comes between the check and the wait of `Look` (which `notify_shutdown` rules out by
taking that mutex) cannot be expressed; the handle mutex is held over
`hv_vcpus_exit`, so it is a variable.

| TLA+ | code |
|---|---|
| `CpuOn`, `Notify`, `CpuOff`, `RequestTerminal` | `handle_cpu_on`, `handle_secondary_psci`, `SecondaryTerminalSignal` |
| `Look`, `Create`, `Publish`, `Start`, `Withdraw`, `Destroy` | the owner's loop and `create_secondary_hvf_vcpu`, its guard and `withdraw_vcpu` |
| `Top`, `Run`, `Canceled`, `Exit` | `run_secondary_until_parked` |
| `Fail`, `Report` | `record_run_error` and the exit it requests of vCPU 0 |
| `CheckBefore`, `CheckAfter`, `CheckTerminal` | `run_primary_with_secondary_check` and the checks after it |
| `Shutdown`, `NotifyShutdown`, `Hold`, `Request`, `Join` | `shutdown_and_join`, `request_exit_if_published`, `merge_run_error` |
| `GicKick` | `UsGicBridge::kick` with the bridge's own handles |
| `Reboot` | the next generation after SYSTEM_RESET |

The entry point that a call asks for is the number of that call, so that
`StartsAsAsked` tells calls apart. `first` is a history variable.

### PauseGate

The mutex of the gate is held over one step only, but for `resume`, whose three
stores are seen by threads that do not take it: `Resume`, `Bump`, `Release`. A
secondary is outside its loop ("off"), at its top, parked or on its way into the
guest; `before_run` looks at `requested` without the mutex (`Check`), then under it
(`Gate`). `take_offset` reads the version and then the offset (`TakeVersion`,
`TakeOffset`). `mach` is the host counter, `vt` the offset each vCPU has been given,
`ran` the history of ticks that passed while not paused. `Expire` is the deadline of
the pause.

### UserspaceGic and GicBridge

The device is a record: distributor and redistributors as banks of enabled, pending
and active bits, levels and inputs of SPIs, priorities, routes, and per CPU the
interface registers and the list of acknowledged interrupts. Each access is an
operator that returns the device after it and the CPUs to kick, as the code returns
a mask. In `GicBridge` an access is one step under the device's mutex; `CarryOut`
then reaches the CPUs of `kicks` one by one. A vCPU's thread samples its line
("entry"), is in the guest, traps, and on WFI reads the line (`Wfi`) before it
enters the lot (`Park`). The lot is the set of vCPUs whose `pc` is "parked". A
sleeper is not in `hv_vcpu_run`, so the two halves of a kick, for the lot and for
HVF, reach different vCPUs and are one step. The timer expires at any time; how the
thread learns of it (an exit, or a look before the run) is `vtimer_exit` and
`Synthesize`. `Init` is the state after the guest's bring-up, everything enabled;
`Reset` goes back to `New`.

## The runs

| Run | Instance | Shows |
|---|---|---|
| `NvmeIo` | one I/O queue, rings of 3, a FUA WRITE, a FLUSH and a command answered on the spot, all workers on | capacity, phase tags, exactly-once answers |
| `NvmeLifecycle` | rings of 2, a FUA WRITE again and again, queues created and deleted, CC cleared and set, cold reset | jobs never outlive their queues; admin commands run alone; `NvmeQueues` implements `NvmeService` |
| `NvmeShared` | two submission queues on one completion queue of 2, SHN writes, syncs with the worker | a stalled queue is found again; no fetch after shutdown; the inductive invariant `ServiceInvariant`: capacity, ring order and exactly-once answers on a shared queue included |
| `NvmeLive` | one I/O queue, two commands, two event requests with a limit of one, fairness | each I/O command is answered, so the lock is always released; an event request past the limit is answered once |
| `HandoffSafe` | vCPU 0 and a secondary, two batches, one of them FUA | no completion without somebody to post it; a finished handoff always awakens; one owner of an answer; no transfer touches RAM that is wiped or unmapped |
| `HandoffLive` | the same, one batch, fairness of the vCPUs, for two properties of the workers too | a vCPU never waits for a transfer without bound; what is published is drained; stop and reset end |
| `DurableModes` | all modes, two disks, two worker threads, interval 1, lag 1 | an answered flush is durable within the interval and the lag; a shutdown that reports complete left nothing volatile |
| `DurableRetries` | all modes, failing syncs, one worker | durable mode owes nothing; a debt is kept until paid, and paid in the end |
| `PauseGate` | two secondaries, two pauses, two host ticks | the guest stands still while paused; no clock shows a pause; a pause takes; who is parked is freed |
| `Lifecycle` | two secondaries, two CPU_ON calls, one reboot | started once, as asked; a handle under request is alive; the verdict; the machine ends |
| `LifecycleStale` | the same | expected to be violated: the GIC bridge's handles outlive their vCPUs (see below) |
| `GicBridge` | two CPUs, one SPI, an SGI and the timer of CPU 1, two priorities, one change of configuration | no rise of a line is missed; interrupts in service nest; a masked timer is lost only if the guest clears its interrupt |

The bounds. A ring of 2 holds one entry and is full at once, so every command meets
the full-ring paths; a ring of 3 adds entries in different laps, wraps with entries
outstanding and two completions of one drain. Indices wrap, so the behaviours are
not bounded in length: no NVMe run has a bound on steps. Two batches are enough for
a vCPU to begin the next batch while its worker still has the one it gave up on, and
for a FUA sync to overlap a transfer. Two disks are what the controller has. Two
workers are the one let go and its successor; `DurableModes` lets the next one start
only when one of them has ended, which bounds threads, not behaviours of those two.
Its two workers are interchangeable, so it uses symmetry. `Lag` must be at least 1:
with none, a worker would do everything in no time. `MaxPauses` = 2 lets a pause
that was given up be followed by others (pauses that are given up are not counted),
with `MaxMach` = 2 ticks to fall into a pause, between two or outside; the proofs
have neither bound. `MaxStarts` = 2 is two racing calls, or a second start after
CPU_OFF; `MaxResets` = 1 a second generation with what the first left behind.
`MaxWrites` = 1 allows one change of configuration from the state the guest sets up
(a route, a trigger, a priority, an enable, pending, active or group bit, the mask,
the binary point, split EOI) anywhere between any number of interrupts; a second one
multiplies the states beyond a run of minutes.

Deadlock is checked in all runs but `HandoffSafe`, `HandoffLive`, `Lifecycle` and
`LifecycleStale`, because there the machine is meant to stop: when vCPU 0 is "gone"
or has "joined" its process ends.

Fairness. `NvmeQueues`: threads run (weak fairness of the lock holder, of each
transfer and each sync); who wants the platform lock gets it in the end, and the
driver rings what it wrote and reaps what it sees (strong fairness, as other vCPUs
may take the lock in between); a drain follows a publication, which `NvmeHandoff`
justifies (`DrainedEventually`). `NvmeHandoff`: `WaitSpec` has the vCPUs' fairness
only, which is enough for `WaitBounded`: vCPU threads are scheduled and time passes
for a parked waiter. The other two properties have `WorkersRun` as a hypothesis:
workers are scheduled, transfers end, and the lock is fair enough that no drain is
passed over for ever. Nothing is assumed of the guest, which may stay in guest code
for ever unless the hook's exit is pending. `NvmeDurability`: time passes, worker
threads run, and a full sync that is tried for ever succeeds at some point.
`PauseGate`: threads run, who waits for the gate's mutex gets it, and HVF ends a run
it was asked to end; the guest need not exit, nor the host resume, nor the deadline
pass. `VcpuLifecycle`: the same of its threads; that a guest leaves `hv_vcpu_run` by
itself is not assumed. `GicBridge` has safety only: a sleeper that a kick has missed
is woken by a timeout, and a device's interrupt is served when the guest pleases.
`std::sync::Mutex` does not promise fairness; that the host does not starve a thread
is an assumption.

Each property is also checked the other way round: definitions marked `Mutant` are
plausible mistakes in the code, and with one of them in place of the definition
after it, the property fails.

### What LifecycleStale finds

`UsGicBridge::kick` (`probe/usgic_bridge.rs:347-358`) requests exits of handles in
the bridge's own arrays. `register_vcpu` stores them when a vCPU is created
(`probe/secondary_vcpu.rs:185`), and nothing takes them back. An owner that ends
early, after a failure or at shutdown, withdraws the handle of its control under the
mutex and destroys its vCPU: "This closes both the stale-value and
load-versus-destroy races on early secondary-thread exits"
(`secondary_vcpu.rs:158-159`). It does for the control's handle, and `BarrierHolds`
is checked. The bridge's copy stays, and another vCPU whose write asks for a kick of
that CPU names a destroyed vCPU in `hv_vcpus_exit`. The same holds for `reset`
(`usgic_bridge.rs:280-287`) between two generations. Both only with the userspace
GIC, which `BRIDGEVM_USERSPACE_GIC=1` selects.

## The proofs

`NvmeQueuesProofs` proves for every set of queues and commands and all ring sizes
(assumptions `QueueIds`, `Commands`, `RingSizes`, `Settings`, nothing else):

- `InductiveAlways`: `Inductive` holds in all reachable states;
- from it `TypesHold`, `RingsNeverOverrun`, `PhaseTagsAlwaysTell`,
  `QueuesAlwaysOutliveJobs`, and the action properties `AdminAlwaysRunsAlone` and
  `ShutdownAlwaysStopsFetching`.

None of the invariants is inductive alone. That a completion ring is not overrun
rests on each job holding a slot, so `SlotsHeld` counts them, pool by pool: a job
that moves between pools leaves the sum as it is, and arithmetic on the
cardinalities of finite sets (lemmas on adding and removing one job) does the rest.
That phase tags tell rests on where tags are (`PhasesLaid`) and on where the guest
reads (`GuestBetween`); posting at the tail and reaping at the head each move one
end. Wrapping is by lemmas on `Succ` and `Dist`, proved without division. That
deletions meet no job rests on `HolderPlace`: an admin command is fetched only in a
scan whose completions were waited for until nothing was in flight, and `inFlight`
bounds the jobs (`SlotsHeld`). Each action has its preservation lemma; the
invariance theorem has one case per action.

The module goes on, from the same assumptions, to `WorkAlwaysMarked`
(`WorkInvariant`) and from it `NothingStranded`. That a rung command waits only for
room, when the lock is free, must be said of the whole hold: a queue with work is in
`pending`, and one that the holder will not visit again before it unlocks (`Behind`)
has a full ring (`WorkMarked`). Full counts the answers being posted with those held
(`Load`), since taking a finished job gives its slot back before its answer is in
the ring; the sum is then the same before and after `TakeFinished`, `PostFinished`
and `SyncFinished`, so no room appears behind the scan (`FullStays`, `FullPosted`),
and the ring of a live queue is neither created nor deleted (`AdminKeepsRing`). Only
the head doorbell makes room, and it is followed by a scan of all that is pending.

`NvmeServiceProofs` proves, from the same assumptions, `ServiceAlwaysKept`
(`ServiceInvariant`), and from it `AlwaysAnsweredOnce` and `QueuesImplementService`:
each step of the engine and its driver maps to a step of `NvmeService` or to none.
`AnsweredOnce` counts the places of a command: unread slots of its submission ring,
jobs in each pool, unread completions. A fetch, a transfer, a sync and a post each
take it from one place and put it in another (`OnceMoved`, with lemmas on how a step
changes each count). That this is so rests on four groups of facts, none inductive
without the others:

- the rings are read in order (`SqInOrder`), and the heads that the unread entries
  of a queue report go up (`EntriesKnown`), so a driver that clears the slots up to
  a reported head clears none still to be fetched (`ReapClears`);
- an unread entry is in the ring its queue completes to as long as that queue lives
  (`EntriesKnown`), so no entry of a deleted queue is taken for one of a queue
  created later with its number;
- what an admin completion reports stays so until the driver takes it
  (`ReportsTrue`), since one creation or deletion of a queue is outstanding at a
  time (`OneAtATime`): the driver's queues are those it was told of (`DriverKnows`);
- a creation waits in the ring only for a queue that is not in use, and when the
  deletion of a completion queue waits there, all unread entries are of queues to be
  deleted later (`CreationsWait`, `DeletionsWait`): so a completion queue is empty
  when it is deleted (`DeletedCqRead`), and the commands of a submission queue whose
  deletion is taken have no answer left (`DeletedGone`).

The last two hold because of what a driver may submit (`MaySubmit`). Each action has
a lemma for its shape (what it does to entries, requests and queues) and lemmas for
what it keeps. For the refinement, a step that leaves entries and requests alone is
a stutter (`MapQuiet`), a post is an `Answer` (`MapPosts`), a completion taken is a
`Take`, or a `TakeDeleted` when it reports a deletion (`MapReap`), and both kinds of
reset are `Reset` (`ResetFresh`).

`PauseGateProofs` proves for any finite set of secondaries, any number of pauses and
ticks (assumptions `Threads`, `Bounds`): `GateInvariant`, and from it `GateTypes`
(the counters `in_loop` and `parked` count), `PausedGuestStandsStill` and
`GuestClockHolds`. That nobody runs while paused is not inductive: a pause is taken
when `parked >= in_loop`, so the invariant says that the counters are the
cardinalities of two sets of threads, one within the other; equal cardinalities then
make the sets equal, so everybody in the loop is parked (`FrozenOK`), and who enters
afterwards meets the request at the gate. The clock needs `VersionOK`: who has
applied the current version has the current offset, except between the two stores of
`resume`, when nobody can be on the way into the guest; and `ClockOK`: the offset is
the time that all pauses took.

`VcpuLifecycleProofs` proves for any number of vCPUs, CPU_ON calls and generations
(the module's assumptions): `LifecycleInvariant`, and from it `LifecycleTypes`,
`RunsAsAsked`, `BarrierAlwaysHolds` and `VerdictStands`. The invariant ties an
owner's place in its code to PSCI's state (`StartOK`: an entry point is read in
OnPending only, which no other call can leave before the owner does) and vCPU 0's
place to what has been reported (`StopOK`: the verdict is computed after the joins,
when nobody is left to fail). That a handle under request is alive follows from
`HandleOK`: it is still published, and publication is inside its vCPU's life.

`NvmeHandoffProofs` proves for any vCPUs and batches: `HandoffInvariant`, and from
it `HandoffTypes`, `CompletionsAreDrained`, `SleeperIsAwoken`, `OneAnswerOnly` and
`RamOutlives`. No two of a vCPU's batches, a worker's batch and what is queued are
the same (`Apart`); then each vCPU can be looked at alone (`EachOK`): where its
batch is (`HandOK`), what the handoff word says of waiter and worker (`PhaseOK`),
and how the worker's thread stands to its vCPU (`ThreadOK`). `TeardownOK` follows
the joins. The proof asked for an assumption that the module did not state: the
value for "no vCPU has the lock" must not be the name of one.

`NvmeDurabilityProofs` proves for any disks, workers, modes, intervals and lags:
`DurableInvariant`, and from it `DurableTypes`, `AcknowledgedInTime`,
`ShutdownLosesNothing` and the action property `DebtsStand`. An age is bounded only
with the deadline of whoever is to pay: `DebtOK` gives each debt a worker that owes
it (`Pays`), and bounds the age by what is left of that worker's deadline or, in an
iteration, by the ticks it has used. The proof gave a better bound than the one
stated first, the interval and twice the lag: the iteration that meets the deadline
is the only one whose slowness counts.

`GicBridgeProofs`, on the lemmas of `UserspaceGicProofs`, proves for any CPUs,
interrupts, priorities and any number of configuration writes: `BridgeInvariant`,
and from it `BridgeTypes`, `RisesAreTold` and `InterruptsNest`; and the action
property `TimersLostByClearingOnly`, from what each access does to the timer's bits
(`TimerRaised`, `TimerEnded`, ...), for a state in which a timer is lost is
reachable and does not say who lost it. Each access has a lemma (`SendMsiGood`,
`AcknowledgeGood`, ...) that it leaves the device in order (`Fine`) and that each
line it raises, but its own caller's, is among the kicks it returns; for those that
compare lines only at an SPI's target, or kick nobody, it shows that nobody else
sees more (`Sees`). `GicBridge` then needs one more fact, that a vCPU's thread
carries out its kicks before anything else (`KicksFirst`). Nesting is not inductive
by priorities as the registers have them, which the guest may change under an active
interrupt; it is by those in the list, as taken (`Nested`), where an access only
removes or drops entries (`Thinned`) and an acknowledge adds one above the running
group (`BestCandidate`). The bound of the list rests on `Distinct`: entries of one
interrupt, dropped or not, are of strictly rising priority groups. The bound stated
first, interrupts in use plus priorities, held in runs with one configuration write
and was refuted by the attempt to prove it: by writes to `ICC_AP1R` and
`GICR_ICACTIVER0` a guest can have several dropped entries of one interrupt, one for
each group at most. `Retired` is a recursive function; that it has a value for every
list is shown by a least counterexample (`RetiredDefined`), as is its effect.

Model-checked only: liveness, which is out of the prover's reach, as is ENABLED:
`EveryIoAnswered`, `DrainedEventually`, `TeardownEnds`, `WaitBounded`, `DebtPaid`,
`PauseTakes` and the others that the runs check under fairness. Every invariant,
every other action property and the refinement has its theorem.

## What the code does that a reader may not expect

- `process_into` scans the lowest queue first. On a completion queue that is shared
  and stays full, a higher submission queue can starve; so `EveryIoAnswered` is
  checked with one I/O queue, and `NoStrandedWork` says what holds with several.
- A flush worker that was let go settles once, and ignores a failure there
  (`flush_mode.rs:117`). `DebtKept` and `DebtPaid` leave such a worker out.
  `DurableModes`, without failures, includes it.
- A full sync that fails keeps the debt, and the next attempt is `DURABLE_WITHIN`
  later; the interval is promised of syncs that succeed.
- A pause that is given up leaves `requested` false, but secondaries that had parked
  still count until they run: the next pause may begin with them parked.
  `NobodyRunsPaused` holds all the same, since who wakes and finds a request sleeps
  again.
- A vCPU that reads its line low on WFI, and is kicked before it enters the lot,
  sleeps for the whole millisecond of its time limit
  (`probe/usgic_bridge.rs:173-175`): the exit requested of HVF does not wake it.
  `NoMissedRise` says that the request is there when it runs again.
- The host's timer is unmasked only by an end of interrupt or a deactivation of
  INTID 27 through the system registers (`usgic_bridge.rs:450-459`), or by a reset,
  although the comment at its head (lines 11-13) says that `pre_run` does so when the
  timer stops asserting. A guest that clears the timer's pending or active bit
  through `GICR_ICPENDR0` or `GICR_ICACTIVER0` while it is masked (lines 465-493),
  as a kernel may when it brings up a CPU, has no timer any more until it ends
  INTID 27 all the same. The guest of `GicBridge` makes these writes, so a masked
  timer without an interrupt (`Lost`) is reachable: the timer is latched, another
  CPU enters the guest and clears its bit, and that is all it takes.
  `LostByClearingOnly` says that no other step does this: for a guest that does
  not clear the bit of a masked timer, what lines 277-281 are there for holds.
- A write to `GICR_ISACTIVER0`, to `ICFGR`, to a binary point and to the EOI mode
  kicks nobody, for each can only lower a line or changes the writer's own.

## Not modelled

Within NVMe: PRP walks, the bytes of commands and of identify, log and feature
pages, overlay disks, export and the saved state; panics of worker threads and the
recovery in `defer_flush` from a worker that panicked (`flush_worker.rs:254` drops
its count of jobs). Guest RAM is written by a transfer as one step. Memory ordering:
the atomics of the handoff are taken to be sequentially consistent (they are acquire
and release on one word, with the rest under a mutex).

Of the vCPU life cycle: AFFINITY_INFO, the wake coordinator's statistics, the reboot
watchdog, the diagnostics of a final state, and the text of a stop's reason. Of the
pause: the poll of `input.ctl` that asks for it, and the count of time asleep in a
log line. Of the userspace GIC: Group 0, `GICR_WAKER`, registers that are only read
(HPPIR, RPR, identification), `BPR0`, the LPI registers, and the WFI variant that
sleeps instead of parking (`BRIDGEVM_USGIC_WFI_NAP`). The in-kernel GIC of macOS is
external.

Other components: see the plan; user interface, scripts, packaging, plan builders
and table generators hold no protocol and stay out.

## Plan

Done: `NvmeQueues` with its service, refinement and proofs; `NvmeHandoff`;
`NvmeDurability`; `VcpuLifecycle`; `PauseGate`; `UserspaceGic` and `GicBridge`; the
proofs of all of them.

Left, in this order:

1. `MsixDelivery`: raise, mask, pending, drain, between the controller and the
   interrupt controller. No interrupt lost or doubled while masks change.
2. `Virtqueue`: available and used rings with wrap, one module for the devices;
   `XhciRings`: cycle bits, event ring full, endpoint states.
3. `PcmRing`: the audio ring between tick and callback; proof of its bound.
4. `ImportTransaction`, `SnapshotPublish`, `ManagedPair`: staging, publication and
   recovery with a crash between any two steps, refining "old or new, never
   between".
5. `OwnedChild`: ownership of a child process when a wait is uncertain.

Related questions share a run, and the set of runs is kept to what can be checked in
a quarter of an hour; a new component takes the place of a run whose questions the
proofs answer for all constants (`NvmeIo`'s capacity and phase tags, `PauseGate`'s
safety).
