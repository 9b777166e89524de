--------------------------- MODULE NvmeDurability ---------------------------
(***************************************************************************)
(* When acknowledged NVMe writes survive a power loss                      *)
(* (src/crates/bridgevm-hvf/src/nvme/flush_mode.rs, flush_worker.rs and    *)
(* the shutdown of configuration.rs).                                      *)
(*                                                                         *)
(* In the ordered mode the flush worker answers a FLUSH with a barrier and *)
(* owes the disk a full sync, within DURABLE_WITHIN; `durable` syncs fully *)
(* every time and `fast` promises nothing.  A worker serves both disks     *)
(* with one deadline, is let go by a reset or a namespace change and may   *)
(* live on beside its successor.  A clean shutdown syncs everything.       *)
(*                                                                         *)
(* Time is in ticks, and passes while a worker is busy for at most Lag     *)
(* ticks of one iteration.  Ages and what is left of deadlines are kept,   *)
(* not times.  A job is the set of disks it syncs; jobs alike are one, for *)
(* a worker takes all that wait and syncs each disk once.                  *)
(***************************************************************************)
EXTENDS Integers, FiniteSetsExt

CONSTANTS
  Disk,     \* 1 (NSID 1) and perhaps 2
  Written,  \* the disks whose WRITEs are followed
  Worker,   \* the worker threads that can exist at once
  NoWorker,
  Modes,    \* BRIDGEVM_NVME_FLUSH: "ordered", "durable" or "fast"
  Within,   \* DURABLE_WITHIN
  Lag,      \* what an iteration of a worker takes at most
  Failures  \* syncs may fail

ASSUME Disks == Disk \subseteq Nat /\ Written \subseteq Disk
ASSUME Settings == Modes \subseteq {"ordered", "durable", "fast"} /\ Failures \in BOOLEAN
ASSUME Times == Within \in Nat /\ Lag \in Nat /\ NoWorker \notin Worker

None == -1                  \* no deadline, no debt
Bound == Within + Lag   \* an acknowledged write is durable by then

VARIABLES
  mode,     \* the flush mode of this run
  \* the controller
  jobs,     \* FlushWorker.jobs: the worker it sends to
  async,    \* async_flush
  shst,     \* CSTS.SHST: "no", "complete", or "failed" (with CFS)
  writing,  \* disks with a WRITE in flight
  fua,      \* disks with a FUA WRITE whose sync comes next (Finished.sync_next)
  \* the disks
  dirty,    \* disks with data in the page cache only
  debt,     \* the age of the oldest acknowledged flush not yet durable
  \* each worker
  pc,       \* "off", "recv", "sync", "settle", or "last" (it settles and ends)
  inbox,    \* jobs sent to it
  batch,    \* jobs it has taken
  todo,     \* disks still to be synced or settled
  bad,      \* disks whose sync failed for this batch
  weak,     \* disks of this batch not fully synced since it was taken
  age,      \* the age of DiskSync.last_full; Within once it is that old or None
  owed,     \* disks whose DiskSync.owed is set
  due,      \* what is left of the deadline, or None
  spent     \* the ticks of this iteration

setting    == <<mode, async>>
controller == <<setting, jobs, shst, writing, fua>>
disks      == <<dirty, debt>>
queue      == <<inbox, batch>>
syncs      == <<todo, bad, weak>>
timer      == <<due, spent>>
owes       == <<age, owed>>
vars       == <<controller, disks, pc, queue, syncs, timer, owes>>

Outcomes(D) == IF Failures THEN SUBSET D ELSE {{}}   \* the disks that may fail
InFlight == \E w \in Worker : inbox[w] \cup batch[w] # {}

(* full_sync of the disks D: all that was written to them is durable, what
   any worker's batch is for included.                                     *)
Durable(D) ==
  /\ dirty' = dirty \ D
  /\ debt' = [d \in Disk |-> IF d \in D THEN None ELSE debt[d]]
  /\ weak' = [w \in Worker |-> weak[w] \ D]

-----------------------------------------------------------------------------
(* The controller *)

StartWrite(d) ==
  /\ shst = "no" /\ d \in Written \ writing
  /\ writing' = writing \cup {d}
  /\ UNCHANGED <<setting, jobs, shst, fua, disks, pc, queue, syncs, timer, owes>>

EndWrite(d) ==
  /\ d \in writing
  /\ writing' = writing \ {d}
  /\ dirty' = dirty \cup {d}
  /\ fua' \in {fua, fua \cup {d}}
  /\ UNCHANGED <<setting, jobs, shst, debt, pc, queue, syncs, timer, owes>>

(* A FLUSH of the disks D, or the sync of a FUA write: a shutdown ends the
   first, for no command is fetched any more.                              *)
Flushes(D) ==
  \/ shst = "no" /\ UNCHANGED fua
  \/ \E d \in fua : D = {d} /\ fua' = fua \ {d}

(* defer_flush: a worker is started for the first job. *)
DeferFlush(D) ==
  /\ async /\ Flushes(D)
  /\ \/ /\ jobs # NoWorker
        /\ inbox' = [inbox EXCEPT ![jobs] = @ \cup {D}]
        /\ UNCHANGED <<jobs, pc, age>>
     \/ /\ jobs = NoWorker
        /\ \E w \in Worker :
             /\ pc[w] = "off"
             /\ jobs' = w
             /\ pc' = [pc EXCEPT ![w] = "recv"]
             /\ inbox' = [inbox EXCEPT ![w] = {D}]
             /\ age' = [age EXCEPT ![w] = [d \in Disk |-> Within]]
  /\ UNCHANGED <<setting, shst, writing, disks, batch, syncs, timer, owed>>

(* The worker cannot be started: no flush is deferred any more. *)
StartFails ==
  /\ async /\ jobs = NoWorker
  /\ async' = FALSE
  /\ UNCHANGED <<mode, jobs, shst, writing, fua, disks, pc, queue, syncs, timer, owes>>

(* sync_inline for the guest, which is told of a failure *)
SyncInline(D) ==
  IF mode = "fast" THEN UNCHANGED <<disks, weak>>
  ELSE \E bads \in Outcomes(D) : Durable(D \ bads)

FlushInline(D) ==
  /\ ~async /\ Flushes(D)
  /\ SyncInline(D)
  /\ UNCHANGED <<setting, jobs, shst, writing, pc, queue, todo, bad, timer, owes>>

(* The write cache is turned off, by an admin command: what is in flight, the
   syncs of FUA writes included, is waited for.                            *)
CacheOff ==
  /\ shst = "no" /\ writing = {} /\ fua = {} /\ ~InFlight
  /\ SyncInline(Disk)
  /\ UNCHANGED <<controller, pc, queue, todo, bad, timer, owes>>

(* Mutant: the shutdown does not wait for the transfers in flight. *)
ShutdownNoWait ==
  /\ shst = "no"
  /\ \E bads \in Outcomes(Disk) :
       /\ Durable(Disk \ bads)
       /\ shst' = IF bads = {} THEN "complete" ELSE "failed"
  /\ UNCHANGED <<setting, jobs, writing, fua, pc, queue, todo, bad, timer, owes>>

(* CC.SHN: once nothing is in flight every disk is synced fully. *)
Shutdown ==
  /\ shst = "no" /\ writing = {} /\ ~InFlight
  /\ \E bads \in Outcomes(Disk) :
       /\ Durable(Disk \ bads)
       /\ shst' = IF bads = {} THEN "complete" ELSE "failed"
  /\ UNCHANGED <<setting, jobs, writing, fua, pc, queue, todo, bad, timer, owes>>

(* A cold reset lets the worker go once nothing is in flight. *)
ColdReset ==
  /\ writing = {} /\ ~InFlight
  /\ jobs' = NoWorker /\ shst' = "no" /\ fua' = {}
  /\ UNCHANGED <<setting, writing, disks, pc, queue, syncs, timer, owes>>

-----------------------------------------------------------------------------
(* A worker's loop *)

Begin(w, to) == /\ pc' = [pc EXCEPT ![w] = to]
                /\ spent' = [spent EXCEPT ![w] = 0]

(* Mutant: a batch syncs every disk, needed or not. *)
ReceiveForAll(w) ==
  /\ pc[w] = "recv" /\ inbox[w] # {}
  /\ Begin(w, "sync")
  /\ batch' = [batch EXCEPT ![w] = inbox[w]]
  /\ inbox' = [inbox EXCEPT ![w] = {}]
  /\ todo' = [todo EXCEPT ![w] = Disk]
  /\ weak' = [weak EXCEPT ![w] = UNION inbox[w]]
  /\ UNCHANGED <<controller, disks, bad, due, owes>>

(* recv gets a job, and try_iter the others that wait. *)
Receive(w) ==
  /\ pc[w] = "recv" /\ inbox[w] # {}
  /\ Begin(w, "sync")
  /\ batch' = [batch EXCEPT ![w] = inbox[w]]
  /\ inbox' = [inbox EXCEPT ![w] = {}]
  /\ todo' = [todo EXCEPT ![w] = UNION inbox[w]]
  /\ weak' = [weak EXCEPT ![w] = UNION inbox[w]]
  /\ UNCHANGED <<controller, disks, bad, due, owes>>

BarrierSuffices(w, d) == mode = "ordered" /\ age[w][d] < Within

(* DiskSync::full_sync *)
FullSync(w, d) ==
  /\ Durable({d})
  /\ age' = [age EXCEPT ![w][d] = 0]
  /\ owed' = [owed EXCEPT ![w] = @ \ {d}]

(* F_BARRIERFSYNC: nothing is durable yet. *)
Barrier(w, d) ==
  /\ owed' = [owed EXCEPT ![w] = @ \cup {d}]
  /\ UNCHANGED <<disks, weak, age>>

(* DiskSync::sync, the first disk first *)
SyncDisk(w) ==
  /\ pc[w] = "sync" /\ todo[w] # {}
  /\ LET d == Min(todo[w]) IN
       /\ todo' = [todo EXCEPT ![w] = @ \ {d}]
       /\ \/ /\ IF mode = "fast" THEN UNCHANGED <<disks, weak, owes>>
                ELSE IF BarrierSuffices(w, d) THEN Barrier(w, d)
                ELSE FullSync(w, d)
             /\ UNCHANGED bad
          \/ /\ Failures
             /\ bad' = [bad EXCEPT ![w] = @ \cup {d}]
             /\ UNCHANGED <<disks, weak, owes>>
  /\ UNCHANGED <<controller, pc, queue, timer>>

(* Mutant: a job succeeds if one of its disks does. *)
AnsweredByOne(w) == UNION {D \in batch[w] : D \ bad[w] # {}}

(* The disks of the jobs that are answered with success *)
Answered(w) == UNION {D \in batch[w] : D \cap bad[w] = {}}

Stops(w) == jobs # w
Passed(w) == due[w] = 0

(* Mutant: only a worker with nothing else to do looks at the deadline. *)
LookWhenIdle(w) ==
  /\ pc' = [pc EXCEPT ![w] = "recv"]
  /\ due' = IF due[w] = None /\ owed[w] # {} THEN [due EXCEPT ![w] = Within] ELSE due
  /\ UNCHANGED todo

(* The jobs are published, then the deadline is looked at. *)
Look(w) ==
  IF Passed(w)
    THEN /\ pc' = [pc EXCEPT ![w] = "settle"]
         /\ todo' = [todo EXCEPT ![w] = owed[w]]
         /\ due' = [due EXCEPT ![w] = Within]
    ELSE /\ pc' = [pc EXCEPT ![w] = "recv"]
         /\ due' = IF due[w] = None /\ owed[w] # {}
                     THEN [due EXCEPT ![w] = Within] ELSE due
         /\ UNCHANGED todo

Publish(w) ==
  /\ pc[w] = "sync" /\ todo[w] = {}
  /\ debt' = [d \in Disk |-> IF d \in weak[w] \cap Answered(w) /\ debt[d] = None
                               THEN 0 ELSE debt[d]]
  /\ batch' = [batch EXCEPT ![w] = {}]
  /\ weak' = [weak EXCEPT ![w] = {}]
  /\ bad' = [bad EXCEPT ![w] = {}]
  /\ Look(w)
  /\ UNCHANGED <<controller, dirty, inbox, spent, owes>>

(* recv_timeout is over, or the controller has dropped its sender.  In the
   code `due` is then None until the debts are settled; what is left of the
   next deadline counts from this look.                                    *)
Awake(w) ==
  /\ pc[w] = "recv" /\ inbox[w] = {} /\ (Passed(w) \/ Stops(w))
  /\ Begin(w, IF Stops(w) THEN "last" ELSE "settle")
  /\ todo' = [todo EXCEPT ![w] = owed[w]]
  /\ due' = [due EXCEPT ![w] = Within]
  /\ UNCHANGED <<controller, disks, queue, bad, weak, owes>>

(* DiskSync::settle: a failure leaves it owed. *)
Settle(w) ==
  /\ pc[w] \in {"settle", "last"} /\ todo[w] # {}
  /\ LET d == Min(todo[w]) IN
       /\ todo' = [todo EXCEPT ![w] = @ \ {d}]
       /\ FullSync(w, d) \/ (Failures /\ UNCHANGED <<disks, weak, owes>>)
  /\ UNCHANGED <<controller, pc, queue, bad, timer>>

(* Mutant: a failed full sync is not tried again before the next flush. *)
RearmNever(w) == [due EXCEPT ![w] = None]

Rearm(w) == IF owed[w] = {} THEN [due EXCEPT ![w] = None] ELSE due

(* Mutant: what was not paid is struck off all the same. *)
SettledForgets(w) ==
  /\ pc[w] = "settle" /\ todo[w] = {}
  /\ pc' = [pc EXCEPT ![w] = "recv"]
  /\ due' = [due EXCEPT ![w] = None]
  /\ owed' = [owed EXCEPT ![w] = {}]
  /\ UNCHANGED <<controller, disks, queue, syncs, spent, age>>

(* The next deadline is set for what could not be paid. *)
Settled(w) ==
  /\ pc[w] = "settle" /\ todo[w] = {}
  /\ pc' = [pc EXCEPT ![w] = "recv"]
  /\ due' = Rearm(w)
  /\ UNCHANGED <<controller, disks, queue, syncs, spent, owes>>

(* A worker let go ends whatever it still owes. *)
Ends(w) ==
  /\ pc[w] = "last" /\ todo[w] = {}
  /\ pc' = [pc EXCEPT ![w] = "off"]
  /\ due' = [due EXCEPT ![w] = None]
  /\ owed' = [owed EXCEPT ![w] = {}]
  /\ UNCHANGED <<controller, disks, queue, syncs, spent, age>>

-----------------------------------------------------------------------------
(* Time *)

Older(a, most) == Min({a + 1, most})
Busy(w) == pc[w] \in {"sync", "settle", "last"}
Awaken(w) == pc[w] = "recv" /\ (inbox[w] # {} \/ Passed(w) \/ Stops(w))

(* A worker that can go on does, and gets to the end of its iteration. *)
Tick ==
  /\ \A w \in Worker : ~Awaken(w) /\ (Busy(w) => spent[w] < Lag)
  /\ spent' = [w \in Worker |-> IF Busy(w) THEN spent[w] + 1 ELSE 0]
  /\ due' = [w \in Worker |-> IF due[w] > 0 THEN due[w] - 1 ELSE due[w]]
  /\ age' = [w \in Worker |-> [d \in Disk |-> Older(age[w][d], Within)]]
  /\ debt' = [d \in Disk |-> IF debt[d] = None THEN None
                                               ELSE Older(debt[d], Bound + 1)]
  /\ UNCHANGED <<controller, dirty, pc, queue, syncs, owed>>

-----------------------------------------------------------------------------
Init ==
  /\ mode \in Modes
  /\ jobs = NoWorker /\ async = TRUE /\ shst = "no" /\ writing = {} /\ fua = {}
  /\ dirty = {} /\ debt = [d \in Disk |-> None]
  /\ pc = [w \in Worker |-> "off"]
  /\ inbox = [w \in Worker |-> {}] /\ batch = [w \in Worker |-> {}]
  /\ todo = [w \in Worker |-> {}] /\ bad = [w \in Worker |-> {}]
  /\ weak = [w \in Worker |-> {}]
  /\ age = [w \in Worker |-> [d \in Disk |-> Within]]
  /\ owed = [w \in Worker |-> {}]
  /\ due = [w \in Worker |-> None] /\ spent = [w \in Worker |-> 0]

WorkerStep(w) ==
  Receive(w) \/ SyncDisk(w) \/ Publish(w) \/ Awake(w) \/ Settle(w) \/ Settled(w) \/ Ends(w)
Controller ==
  \/ \E d \in Disk : StartWrite(d) \/ EndWrite(d)
  \/ \E D \in SUBSET Disk \ {{}} : DeferFlush(D) \/ FlushInline(D)
  \/ StartFails \/ CacheOff \/ Shutdown \/ ColdReset

Next == Controller \/ (\E w \in Worker : WorkerStep(w)) \/ Tick

Spec == Init /\ [][Next]_vars

(* Time passes, worker threads run, and a full sync tried again and again
   succeeds in the end.                                                    *)
LiveSpec ==
  /\ Spec /\ SF_vars(Tick)
  /\ \A w \in Worker :
       /\ WF_vars(WorkerStep(w))
       /\ \A d \in Disk : SF_vars(Settle(w) /\ d = Min(todo[w]) /\ d \notin owed'[w])

-----------------------------------------------------------------------------
(* Properties *)

(* The values of the variables; a batch syncs no disk that none of its jobs
   is for.                                                                 *)
TypeOK ==
  /\ jobs \in Worker \cup {NoWorker} /\ async \in BOOLEAN
  /\ shst \in {"no", "complete", "failed"}
  /\ UNION {writing, fua, dirty} \subseteq Disk
  /\ debt \in [Disk -> None .. Bound + 1]
  /\ pc \in [Worker -> {"off", "recv", "sync", "settle", "last"}]
  /\ {inbox, batch} \subseteq [Worker -> SUBSET SUBSET Disk]
  /\ {todo, bad, weak, owed} \subseteq [Worker -> SUBSET Disk]
  /\ age \in [Worker -> [Disk -> 0 .. Within]]
  /\ due \in [Worker -> None .. Within] /\ spent \in [Worker -> 0 .. Lag]
  /\ \A w \in Worker : bad[w] \cup weak[w] \subseteq UNION batch[w]

(* In the ordered mode syncs that do not fail make every acknowledged flush
   durable within a second of its completion, give or take the worker's own
   slowness, whichever disk it is busy with and whoever let it go.  In the
   durable mode nothing is acknowledged before it is durable, whatever fails. *)
Promise == CASE mode = "durable" -> None
             [] mode = "ordered" /\ ~Failures -> Bound
             [] OTHER -> Bound + 1
DurableWithin == \A d \in Disk : debt[d] <= Promise

(* A guest that sees CSTS.SHST = complete may be powered off: no disk has data
   that a power loss takes, transfers that were in flight included, in any
   mode.                                                                   *)
ShutdownDurable == shst = "complete" => dirty = {} /\ writing = {}

(* A worker strikes a debt off only when the disk is durable or when it was let
   go: a failed sync, a job for the other disk or a new deadline never does. *)
DebtKept ==
  [][\A w \in Worker : \A d \in owed[w] \ owed'[w] :
        debt'[d] = None \/ pc'[w] = "off"]_vars

(* A debt is paid without the guest's help, however often the sync fails
   first, unless its worker is let go.                                     *)
DebtPaid ==
  \A w \in Worker, d \in Disk :
    debt[d] # None /\ d \in owed[w] ~> debt[d] = None \/ pc[w] \in {"last", "off"}
=============================================================================
