---------------------------- MODULE NvmeHandoff ----------------------------
(***************************************************************************)
(* Who finishes an NVMe transfer, and who posts its completion             *)
(* (src/crates/bridgevm-hvf/src/nvme/io_worker.rs, flush_worker.rs and the *)
(* vCPU loops of examples/hvf_gic_boot_probe/).                            *)
(*                                                                         *)
(* A vCPU that left the guest for a doorbell takes the READs and WRITEs it *)
(* queued, drops the platform lock, hands them to its own worker thread    *)
(* and waits at most NVME_IO_WAIT: it spins, then parks.  What it gave up  *)
(* on is published by the worker, which asks vCPU0 for a drain.  Syncs go  *)
(* to the flush worker, which asks for a drain after every batch.  A reset *)
(* or shutdown of the machine joins the secondary vCPUs and their workers  *)
(* and then wipes, or unmaps, the guest RAM the transfers use.             *)
(*                                                                         *)
(* A batch is one NvmeIo with its Handoff; the controller underneath is    *)
(* module NvmeQueues.  The batches stand for ever new ones: an identifier  *)
(* is used again once nobody refers to it.  Time is not counted: a spin or *)
(* a wait may run out at any moment.                                       *)
(***************************************************************************)
EXTENDS Naturals, Sequences, SequencesExt

CONSTANTS
  Primary,     \* vCPU0
  Secondaries, \* the other vCPUs
  Batch,       \* batches of transfers, or of syncs
  Fua,         \* those whose data must be synced before they complete
  NoBatch

Vcpu == {Primary} \cup Secondaries

ASSUME Vcpus == Primary \notin Secondaries /\ "nobody" \notin Vcpu
ASSUME Batches == Fua \subseteq Batch /\ NoBatch \notin Batch

VARIABLES
  \* the controller, under the platform lock
  place,    \* where each batch is: "free", "out" (in vCPU's or worker's
            \* hands), "data" (published, its sync comes next), "done"
            \* (published), "sync" (in the flush worker's hands)
  platform, \* the vCPU that holds the platform lock across steps, if any
  \* each vCPU's thread
  vpc,      \* where it is in its loop
  mine,     \* the batch it took
  inbox,    \* NvmeIoWorker.inbox; its sender is dropped when owner is FALSE
  started,  \* NvmeIoWorker.thread: "no", "yes", or "failed" to start
  owner,    \* the NvmeIoWorker has not been dropped
  \* each vCPU's worker thread
  wpc, cur, \* where it is, and the batch it has
  phase,    \* Handoff.phase of each batch
  fpc,      \* the flush worker
  \* the run loops
  exit,     \* hv_vcpus_exit(vCPU0) is pending
  gate,     \* PreRunDrainGate.secondary_pending
  failed,   \* a secondary vCPU recorded a run error
  shutdown  \* SecondaryVcpuSet.shutdown, and vCPU0 has left its run loop

vcpu   == <<vpc, mine, started, owner>>
worker == <<wpc, cur, inbox, phase>>
loops  == <<exit, gate, failed, shutdown>>
vars   == <<place, platform, vcpu, worker, fpc, loops>>

Free == platform = "nobody"
Go(v, to) == vpc' = [vpc EXCEPT ![v] = to]

-----------------------------------------------------------------------------
(* The controller, in one hold of the platform lock *)

(* complete_flushes: the published batches are posted, or go on to their
   sync.                                                                   *)
Drained(p) ==
  [b \in Batch |-> CASE p[b] = "data" -> "sync"
                     [] p[b] = "done" -> "free"
                     [] OTHER -> p[b]]

InFlight == {b \in Batch : place[b] # "free"}
Unpublished == {b \in Batch : place[b] \in {"out", "sync"}}

(* Mutant: every WRITE is given a sync. *)
PublishedForSync(b) == {[place EXCEPT ![b] = to] : to \in {"data", "done"}}

(* What io.run publishes: a failed FUA write needs no sync. *)
Published(b) ==
  {[place EXCEPT ![b] = to] : to \in IF b \in Fua THEN {"data", "done"} ELSE {"done"}}

(* Nobody refers to b's last use any more. *)
Unused(b) == /\ place[b] = "free"
             /\ \A v \in Vcpu : b \notin {mine[v], cur[v]} \cup ToSet(inbox[v])

-----------------------------------------------------------------------------
(* A vCPU's loop *)

(* Every data abort of a secondary re-arms the drain before its next run. *)
MarkPending(v) == gate' = (gate \/ v # Primary)

(* Mutant: vCPU0 uses the gate of the secondaries. *)
PreRunGated(v) ==
  /\ vpc[v] = "top" /\ ~(shutdown /\ v # Primary)
  /\ IF gate THEN Free /\ place' = Drained(place) ELSE UNCHANGED place
  /\ gate' = FALSE
  /\ Go(v, "enter")
  /\ UNCHANGED <<platform, mine, started, owner, worker, fpc, exit, failed, shutdown>>

(* The pre-run drain: always on vCPU0, on the others when the gate says so. *)
PreRun(v) ==
  /\ vpc[v] = "top" /\ ~(shutdown /\ v # Primary)
  /\ IF v = Primary \/ gate THEN Free /\ place' = Drained(place)
                            ELSE UNCHANGED place
  /\ gate' = (gate /\ v = Primary)
  /\ Go(v, "enter")
  /\ UNCHANGED <<platform, mine, started, owner, worker, fpc, exit, failed, shutdown>>

(* hv_vcpu_run.  An exit requested since the last run cancels it at once. *)
Enter(v) ==
  /\ vpc[v] = "enter"
  /\ IF v = Primary THEN ~exit /\ ~failed ELSE ~shutdown
  /\ Go(v, "guest")
  /\ UNCHANGED <<place, platform, mine, started, owner, worker, fpc, loops>>

(* EXIT_CANCELED *)
Cancel(v) ==
  /\ vpc[v] \in {"enter", "guest"}
  /\ IF v = Primary THEN exit /\ ~failed ELSE shutdown
  /\ exit' = (exit /\ v # Primary)
  /\ Go(v, "top")
  /\ UNCHANGED <<place, platform, mine, started, owner, worker, fpc, gate, failed,
                 shutdown>>

(* Any other exit that is not for the NVMe controller. *)
OtherExit(v) ==
  /\ vpc[v] = "guest"
  /\ Go(v, "top")
  /\ UNCHANGED <<place, platform, mine, started, owner, worker, fpc, loops>>

(* A doorbell that queued nothing to run off the lock; FLUSHes perhaps. *)
Doorbell(v) ==
  /\ vpc[v] = "guest" /\ Free
  /\ place' \in {Drained(place)} \cup
       {[Drained(place) EXCEPT ![b] = "sync"] : b \in {c \in Batch : Unused(c)}}
  /\ MarkPending(v)
  /\ Go(v, "top")
  /\ UNCHANGED <<platform, mine, started, owner, worker, fpc, exit, failed, shutdown>>

(* A doorbell that queued READs or WRITEs: take_nvme_io ends the hold. *)
IoDoorbell(v, b) ==
  /\ vpc[v] = "guest" /\ Free /\ Unused(b)
  /\ place' = [Drained(place) EXCEPT ![b] = "out"]
  /\ mine' = [mine EXCEPT ![v] = b]
  /\ Go(v, "run")
  /\ UNCHANGED <<platform, started, owner, worker, fpc, loops>>

(* An admin doorbell or a write of CC: the lock is held until every batch in
   flight is done.                                                         *)
WaitDoorbell(v) ==
  /\ vpc[v] = "guest" /\ Free
  /\ platform' = v
  /\ Go(v, "wait")
  /\ UNCHANGED <<place, mine, started, owner, worker, fpc, loops>>

(* complete_flushes' loop *)
WaitRound(v) ==
  /\ vpc[v] = "wait" /\ Unpublished = {}
  /\ place' = Drained(place)
  /\ IF InFlight # {} THEN UNCHANGED <<platform, gate, vpc>>
     ELSE platform' = "nobody" /\ MarkPending(v) /\ Go(v, "top")
  /\ UNCHANGED <<mine, started, owner, worker, fpc, exit, failed, shutdown>>

(* NvmeIoWorker::run.  Its thread starts with the first batch; without one the
   vCPU runs the transfers itself.                                         *)
Send(v) ==
  /\ vpc[v] = "run"
  /\ \E s \in {"yes", "failed"} :
       /\ started[v] # "no" => s = started[v]
       /\ started' = [started EXCEPT ![v] = s]
       /\ IF s = "yes"
            THEN /\ inbox' = [inbox EXCEPT ![v] = Append(@, mine[v])]
                 /\ phase' = [phase EXCEPT ![mine[v]] = "pending"]
                 /\ Go(v, "spin")
            ELSE /\ Go(v, "inline")
                 /\ UNCHANGED <<inbox, phase>>
  /\ UNCHANGED <<place, platform, mine, owner, wpc, cur, fpc, loops>>

RunInline(v) ==
  /\ vpc[v] = "inline"
  /\ place' \in Published(mine[v])
  /\ Go(v, "hold")
  /\ UNCHANGED <<platform, mine, started, owner, worker, fpc, loops>>

(* The second hold: a drain posts what finished in time. *)
SecondHold(v) ==
  /\ vpc[v] = "hold" /\ Free
  /\ place' = Drained(place)
  /\ mine' = [mine EXCEPT ![v] = NoBatch]
  /\ MarkPending(v)
  /\ Go(v, "top")
  /\ UNCHANGED <<platform, started, owner, worker, fpc, exit, failed, shutdown>>

-----------------------------------------------------------------------------
(* Handoff::wait.  "check", "expired" and "park" hold the handoff's lock.  *)

Locked(v) == vpc[v] \in {"check", "expired", "park"}
Waiting(v) == vpc[v] \in {"spin", "parked"} \/ Locked(v)
Phase(v) == phase[mine[v]]

(* Spinning sees DONE, or runs out and locks. *)
Spin(v) ==
  /\ vpc[v] = "spin"
  /\ \/ Phase(v) = "done" /\ Go(v, "hold")
     \/ Go(v, "check")
  /\ UNCHANGED <<place, platform, mine, started, owner, worker, fpc, loops>>

(* The load of the phase; some of the deadline is left ... *)
Check(v) ==
  /\ vpc[v] = "check"
  /\ Go(v, IF Phase(v) = "pending" THEN "park" ELSE "hold")
  /\ UNCHANGED <<place, platform, mine, started, owner, worker, fpc, loops>>

(* ... or nothing is. *)
Expire(v) ==
  /\ vpc[v] = "check" /\ Phase(v) = "pending"
  /\ Go(v, "expired")
  /\ UNCHANGED <<place, platform, mine, started, owner, worker, fpc, loops>>

(* Mutant: the phase is stored, whatever became of it since the load. *)
GiveUpBlindly(v) ==
  /\ vpc[v] = "expired"
  /\ phase' = [phase EXCEPT ![mine[v]] = "detached"]
  /\ mine' = [mine EXCEPT ![v] = NoBatch]
  /\ MarkPending(v) /\ Go(v, "top")
  /\ UNCHANGED <<place, platform, started, owner, wpc, cur, inbox, fpc, exit, failed,
                 shutdown>>

(* The deadline is over: compare_exchange(PENDING, DETACHED). *)
GiveUp(v) ==
  /\ vpc[v] = "expired"
  /\ IF Phase(v) = "pending"
       THEN /\ phase' = [phase EXCEPT ![mine[v]] = "detached"]
            /\ mine' = [mine EXCEPT ![v] = NoBatch]
            /\ MarkPending(v)
            /\ Go(v, "top")
       ELSE Go(v, "hold") /\ UNCHANGED <<phase, mine, gate>>
  /\ UNCHANGED <<place, platform, started, owner, wpc, cur, inbox, fpc, exit, failed,
                 shutdown>>

(* Condvar::wait_timeout unlocks ... *)
Park(v) ==
  /\ vpc[v] = "park"
  /\ Go(v, "parked")
  /\ UNCHANGED <<place, platform, mine, started, owner, worker, fpc, loops>>

(* Mutant: Condvar::wait, without a time. *)
TimeOutNever(v) == FALSE

(* ... and locks again when its time is up. *)
TimeOut(v) ==
  /\ vpc[v] = "parked"
  /\ Go(v, "check")
  /\ UNCHANGED <<place, platform, mine, started, owner, worker, fpc, loops>>

-----------------------------------------------------------------------------
(* A worker thread: serve, next *)

Receive(v) ==
  /\ started[v] = "yes" /\ wpc[v] = "idle" /\ inbox[v] # <<>>
  /\ cur' = [cur EXCEPT ![v] = Head(inbox[v])]
  /\ inbox' = [inbox EXCEPT ![v] = Tail(@)]
  /\ wpc' = [wpc EXCEPT ![v] = "transfer"]
  /\ UNCHANGED <<place, platform, vcpu, phase, fpc, loops>>

(* io.run: the transfers, and then the batch is published. *)
Transfer(v) ==
  /\ wpc[v] = "transfer"
  /\ place' \in Published(cur[v])
  /\ wpc' = [wpc EXCEPT ![v] = "finish"]
  /\ UNCHANGED <<platform, vcpu, cur, inbox, phase, fpc, loops>>

(* Handoff::finish: compare_exchange(PENDING, DONE). *)
Finish(v) ==
  /\ wpc[v] = "finish"
  /\ IF phase[cur[v]] = "pending"
       THEN /\ phase' = [phase EXCEPT ![cur[v]] = "done"]
            /\ wpc' = [wpc EXCEPT ![v] = "notify"]
       ELSE /\ wpc' = [wpc EXCEPT ![v] = "hook"]
            /\ UNCHANGED phase
  /\ UNCHANGED <<place, platform, vcpu, cur, inbox, fpc, loops>>

Idle(v) == /\ wpc' = [wpc EXCEPT ![v] = "idle"]
           /\ cur' = [cur EXCEPT ![v] = NoBatch]

(* Mutant: the handoff's lock is not taken. *)
NotifyUnlocked(v) ==
  /\ wpc[v] = "notify"
  /\ IF vpc[v] = "parked" /\ mine[v] = cur[v] THEN Go(v, "check") ELSE UNCHANGED vpc
  /\ Idle(v)
  /\ UNCHANGED <<place, platform, mine, started, owner, inbox, phase, fpc, loops>>

(* notify_one, under the handoff's lock *)
Notify(v) ==
  /\ wpc[v] = "notify"
  /\ ~(Locked(v) /\ mine[v] = cur[v])
  /\ IF vpc[v] = "parked" /\ mine[v] = cur[v] THEN Go(v, "check") ELSE UNCHANGED vpc
  /\ Idle(v)
  /\ UNCHANGED <<place, platform, mine, started, owner, inbox, phase, fpc, loops>>

(* FLUSH_DONE_HOOK *)
Hook(v) ==
  /\ wpc[v] = "hook"
  /\ exit' = TRUE
  /\ Idle(v)
  /\ UNCHANGED <<place, platform, vcpu, inbox, phase, fpc, gate, failed, shutdown>>

(* The owner let it go and its inbox is empty. *)
WorkerEnds(v) ==
  /\ started[v] = "yes" /\ wpc[v] = "idle" /\ inbox[v] = <<>> /\ ~owner[v]
  /\ wpc' = [wpc EXCEPT ![v] = "ended"]
  /\ UNCHANGED <<place, platform, vcpu, cur, inbox, phase, fpc, loops>>

(* The flush worker: a batch of syncs is published, then the hook. *)
Sync ==
  /\ fpc = "idle"
  /\ \E S \in SUBSET {b \in Batch : place[b] = "sync"} :
       /\ S # {}
       /\ place' = [b \in Batch |-> IF b \in S THEN "done" ELSE place[b]]
  /\ fpc' = "hook"
  /\ UNCHANGED <<platform, vcpu, worker, loops>>
SyncHook ==
  /\ fpc = "hook"
  /\ fpc' = "idle" /\ exit' = TRUE
  /\ UNCHANGED <<place, platform, vcpu, worker, gate, failed, shutdown>>

-----------------------------------------------------------------------------
(* The machine stops or is reset *)

(* An exit that ends vCPU v's loop drops what it took unrun: that fails. *)
DropTaken(v) ==
  /\ place' = IF vpc[v] = "run" THEN [place EXCEPT ![mine[v]] = "done"] ELSE place
  /\ mine' = [mine EXCEPT ![v] = NoBatch]

(* A secondary cannot go on (a run error, an interrupt it cannot deliver): it
   records that and kicks vCPU0.                                           *)
SecondaryFails(v) ==
  /\ v # Primary /\ vpc[v] \in {"top", "enter", "guest", "run"}
  /\ DropTaken(v)
  /\ failed' = TRUE /\ exit' = TRUE
  /\ owner' = [owner EXCEPT ![v] = FALSE]
  /\ Go(v, "ended")
  /\ UNCHANGED <<platform, started, worker, fpc, gate, shutdown>>

(* Mutant: the worker is joined before its sender is dropped. *)
SecondaryStopsJoinsFirst(v) ==
  /\ v # Primary /\ vpc[v] = "top" /\ shutdown
  /\ Go(v, "ended")
  /\ UNCHANGED <<place, platform, mine, started, owner, worker, fpc, loops>>

(* A secondary sees the shutdown at the top of its loop; its worker is dropped
   with its thread's other variables.                                      *)
SecondaryStops(v) ==
  /\ v # Primary /\ vpc[v] = "top" /\ shutdown
  /\ owner' = [owner EXCEPT ![v] = FALSE]
  /\ Go(v, "ended")
  /\ UNCHANGED <<place, platform, mine, started, worker, fpc, loops>>

(* The drop joins the worker thread, if there is one. *)
Joined(v) == vpc[v] = "ended" /\ (started[v] = "yes" => wpc[v] = "ended")

(* vCPU0 leaves its run loop, for whatever reason: shutdown_and_join.  A
   secondary's error is looked for around hv_vcpu_run.                     *)
Stop ==
  /\ vpc[Primary] \in {"top", "guest", "run"} \/ (vpc[Primary] = "enter" /\ failed)
  /\ DropTaken(Primary)
  /\ shutdown' = TRUE
  /\ Go(Primary, "join")
  /\ UNCHANGED <<platform, started, owner, worker, fpc, exit, gate, failed>>

JoinSecondaries ==
  /\ vpc[Primary] = "join" /\ \A v \in Secondaries : Joined(v)
  /\ \/ Go(Primary, "reset") /\ UNCHANGED owner
     \/ Go(Primary, "drop") /\ owner' = [owner EXCEPT ![Primary] = FALSE]
  /\ UNCHANGED <<place, platform, mine, started, worker, fpc, loops>>

(* Mutant: the reset does not wait for the batches in flight. *)
ResetPlatformNoWait ==
  /\ vpc[Primary] = "reset" /\ Free
  /\ place' = [b \in Batch |-> "free"]
  /\ Go(Primary, "wipe")
  /\ UNCHANGED <<platform, mine, started, owner, worker, fpc, loops>>

(* VirtPlatform::reset: the controller waits for what is in flight, vCPU0's
   own worker's included, and drops its completions.                       *)
ResetPlatform ==
  /\ vpc[Primary] = "reset" /\ Free
  /\ Unpublished = {}
  /\ place' = [b \in Batch |-> "free"]
  /\ Go(Primary, "wipe")
  /\ UNCHANGED <<platform, mine, started, owner, worker, fpc, loops>>

(* Guest RAM is cleared for the next boot, with new secondary threads. *)
WipeRam ==
  /\ vpc[Primary] = "wipe"
  /\ vpc' = [v \in Vcpu |-> "top"]
  /\ started' = [v \in Vcpu |-> IF v = Primary THEN started[v] ELSE "no"]
  /\ wpc' = [v \in Vcpu |-> IF v = Primary THEN wpc[v] ELSE "idle"]
  /\ owner' = [v \in Vcpu |-> TRUE]
  /\ shutdown' = FALSE /\ failed' = FALSE /\ gate' = TRUE
  /\ UNCHANGED <<place, platform, mine, cur, inbox, phase, fpc, exit>>

(* vCPU0's worker was declared after the RAM backing, so it is joined first. *)
UnmapRam ==
  /\ vpc[Primary] = "drop"
  /\ started[Primary] = "yes" => wpc[Primary] = "ended"
  /\ Go(Primary, "gone")
  /\ UNCHANGED <<place, platform, mine, started, owner, worker, fpc, loops>>

-----------------------------------------------------------------------------
Init ==
  /\ place = [b \in Batch |-> "free"] /\ platform = "nobody"
  /\ vpc = [v \in Vcpu |-> "top"] /\ mine = [v \in Vcpu |-> NoBatch]
  /\ inbox = [v \in Vcpu |-> <<>>] /\ started = [v \in Vcpu |-> "no"]
  /\ owner = [v \in Vcpu |-> TRUE]
  /\ wpc = [v \in Vcpu |-> "idle"] /\ cur = [v \in Vcpu |-> NoBatch]
  /\ phase = [b \in Batch |-> "pending"] /\ fpc = "idle"
  /\ exit = FALSE /\ gate = TRUE /\ failed = FALSE /\ shutdown = FALSE

(* What a vCPU thread does without the guest's, a failure's or a stop's help. *)
VcpuStep(v) ==
  \/ PreRun(v) \/ Enter(v) \/ Cancel(v) \/ WaitRound(v) \/ Send(v) \/ RunInline(v)
  \/ SecondHold(v) \/ Spin(v) \/ Check(v) \/ Expire(v) \/ GiveUp(v) \/ Park(v) \/ TimeOut(v)
  \/ SecondaryStops(v)
GuestStep(v) ==
  /\ v = Primary => ~failed
  /\ \/ OtherExit(v) \/ Doorbell(v) \/ WaitDoorbell(v)
     \/ \E b \in Batch : IoDoorbell(v, b)
WorkerStep(v) ==
  Receive(v) \/ Transfer(v) \/ Finish(v) \/ Notify(v) \/ Hook(v) \/ WorkerEnds(v)
Teardown == JoinSecondaries \/ ResetPlatform \/ WipeRam \/ UnmapRam

Next ==
  \/ \E v \in Vcpu : VcpuStep(v) \/ GuestStep(v) \/ WorkerStep(v) \/ SecondaryFails(v)
  \/ Sync \/ SyncHook \/ Stop \/ Teardown

Spec == Init /\ [][Next]_vars

(* Every vCPU thread runs on, and time passes for one that waits: however long
   the transfers take.                                                     *)
VcpusRun ==
  \A v \in Vcpu : WF_vars(VcpuStep(v)) /\ SF_vars(Expire(v))
WaitSpec == Spec /\ VcpusRun

(* Transfers and syncs end too, and who asks for the platform lock gets it in
   the end.  Nothing makes the guest leave hv_vcpu_run.                    *)
WorkersRun ==
  /\ \A v \in Vcpu : /\ WF_vars(WorkerStep(v))
                     /\ SF_vars(PreRun(v)) /\ SF_vars(SecondHold(v))
  /\ WF_vars(Sync) /\ WF_vars(SyncHook)
  /\ WF_vars(failed /\ Stop) /\ WF_vars(Teardown)

-----------------------------------------------------------------------------
(* Properties *)

(* The values of the variables; only the data of a FUA write awaits a sync. *)
TypeOK ==
  /\ place \in [Batch -> {"free", "out", "data", "done", "sync"}]
  /\ \A b \in Batch : place[b] = "data" => b \in Fua
  /\ platform \in Vcpu \cup {"nobody"}
  /\ vpc \in [Vcpu -> {"top", "enter", "guest", "wait", "run", "inline", "spin",
                       "check", "expired", "park", "parked", "hold", "ended",
                       "join", "reset", "wipe", "drop", "gone"}]
  /\ mine \in [Vcpu -> Batch \cup {NoBatch}]
  /\ inbox \in [Vcpu -> Seq(Batch)]
  /\ started \in [Vcpu -> {"no", "yes", "failed"}] /\ owner \in [Vcpu -> BOOLEAN]
  /\ wpc \in [Vcpu -> {"idle", "transfer", "finish", "notify", "hook", "ended"}]
  /\ cur \in [Vcpu -> Batch \cup {NoBatch}]
  /\ phase \in [Batch -> {"pending", "done", "detached"}]
  /\ fpc \in {"idle", "hook"}
  /\ {exit, gate, failed, shutdown} \subseteq BOOLEAN

(* Somebody who needs nobody else's help will drain batch b: vCPU0, which is
   not on its way into the guest or has been asked to leave it; the vCPU that
   waits for b; or the thread that published b and has yet to say so.      *)
WillDrain(b) ==
  \/ vpc[Primary] \notin {"enter", "guest"} \/ exit \/ failed
  \/ platform # "nobody" \/ fpc = "hook"
  \/ \E v \in Vcpu : \/ mine[v] = b /\ (Waiting(v) \/ vpc[v] = "hold")
                     \/ cur[v] = b /\ wpc[v] \in {"finish", "hook"}

(* No completion is stranded: between the worker's compare_exchange, the
   timeout's, the hook, the exit request and vCPU0's pre-run drain there is no
   moment at which a published batch waits for the next exit the guest happens
   to make.                                                                *)
NoLostCompletion ==
  ~shutdown => \A b \in Batch : place[b] \in {"data", "done"} => WillDrain(b)

(* A vCPU never sleeps out its deadline for a batch that is already done: if
   the phase has changed the notification is still to come, because the vCPU
   holds the handoff's lock from its last look at the phase until it sleeps. *)
AwokenByFinish ==
  \A v \in Vcpu : vpc[v] = "parked" /\ Phase(v) # "pending" =>
                    wpc[v] = "notify" /\ cur[v] = mine[v]

(* A batch somebody still waits for is never handed to a drain request as
   well, and one nobody waits for always is: the two compare_exchanges agree. *)
OneAnswer ==
  \A v \in Vcpu :
    /\ wpc[v] = "hook" => mine[v] # cur[v]
    /\ wpc[v] = "notify" => mine[v] = cur[v] \/ phase[cur[v]] = "done"
    /\ vpc[v] = "hold" => place[mine[v]] # "out"

(* The transfers' pointers stay good: guest RAM is wiped for the next boot, or
   unmapped, only when no transfer is running or queued on any thread.     *)
RamOutlivesTransfers ==
  vpc[Primary] \in {"wipe", "gone"} =>
    \A v \in Vcpu : wpc[v] # "transfer" /\ vpc[v] # "inline" /\ inbox[v] = <<>>

(* A doorbell keeps its vCPU out of the guest for a bounded time, however slow
   the disk.                                                               *)
WaitBounded == \A v \in Vcpu : Waiting(v) ~> ~Waiting(v)

(* Every published batch is posted or goes on to its sync, though the guest
   may never exit by itself again.                                         *)
DrainedEventually ==
  WorkersRun => \A b \in Batch :
    place[b] \in {"data", "done"} ~>
      (place[b] \notin {"data", "done"} \/ shutdown)

(* The joins and waits of a reset or a shutdown of the machine all end. *)
TeardownEnds == WorkersRun => (shutdown ~> (~shutdown \/ vpc[Primary] = "gone"))
=============================================================================
