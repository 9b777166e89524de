----------------------------- MODULE NvmeQueues -----------------------------
(***************************************************************************)
(* The queue engine of the NVMe controller of bridgevm-hvf                 *)
(* (src/crates/bridgevm-hvf/src/nvme/): submission and completion rings,   *)
(* doorbells, the drain that fetches, executes and completes commands, the *)
(* slots held for commands that finish later on a worker thread (deferred  *)
(* FLUSH, READ/WRITE off the platform lock, FUA writes whose sync follows),*)
(* queue creation and deletion, CC.EN reset, CC.SHN shutdown and the       *)
(* platform's cold reset.                                                  *)
(*                                                                         *)
(* The platform lock is explicit: pc is "free", or says how far the vCPU   *)
(* that holds it has come.  Worker threads never take it; they only move   *)
(* jobs into `finished'.  The guest driver runs beside the lock holder, on *)
(* other vCPUs, and touches only guest memory until it writes a register.  *)
(*                                                                         *)
(* A command value carries its opcode class and its identity (the command  *)
(* identifier): the driver never has the same value outstanding twice on a *)
(* queue.  A queue identifier always gets the same size.                   *)
(***************************************************************************)
EXTENDS Integers, FiniteSets

CONSTANTS
  IoQ,         \* I/O queue identifiers in use, out of 1..max_io_queues
  IoCmd,       \* NVM commands: records with an op in IoOps
  AdminCmd,    \* admin commands: [op : AdminOps, q : IoQ, cq : Q]
  NoCmd,       \* content of a ring slot the driver has cleared
  SqSize,      \* entries of each submission ring
  CqSize,      \* entries of each completion ring
  AerLimit,    \* MAX_ASYNC_EVENT_REQUESTS
  AsyncFlush,  \* set_nvme_async_flush: FLUSH on the worker thread
  UnlockedIo,  \* set_nvme_unlocked_io: READ and WRITE off the platform lock
  CcWrites     \* the register writes the guest makes: subset of CcWrite

Q == {0} \cup IoQ                  \* queue 0 is the admin queue
Cmd == IoCmd \cup AdminCmd

(* "rw": READ, or WRITE without FUA; "fua": WRITE that must reach media first;
   "flush": FLUSH of a write-back raw file; "inline": everything process_sq
   answers on the spot (bad range, bad opcode, memory-backed disk, TRIM).   *)
IoOps == {"rw", "fua", "flush", "inline"}
AdminOps == {"createCq", "createSq", "deleteCq", "deleteSq", "aer", "inline"}

(* What one write does to CC: EN and whether SHN asks for a shutdown; or the
   platform's cold reset, which is not a register write (op "cold").         *)
CcWrite == [op : {"cc", "cold"}, en : BOOLEAN, shn : BOOLEAN]

ASSUME QueueIds == IoQ \subseteq Nat \ {0}
ASSUME Commands == /\ \A c \in IoCmd : c.op \in IoOps
                   /\ AdminCmd \subseteq [op : AdminOps, q : IoQ, cq : Q]
                   /\ IoCmd \cap AdminCmd = {}
                   /\ NoCmd \notin Cmd
ASSUME RingSizes == /\ SqSize \in [Q -> Nat \ {0, 1}]
                    /\ CqSize \in [Q -> Nat \ {0, 1}]
ASSUME Settings == /\ AerLimit \in Nat
                   /\ AsyncFlush \in BOOLEAN
                   /\ UnlockedIo \in BOOLEAN
                   /\ CcWrites \subseteq CcWrite

VARIABLES
  \* controller registers and settings
  en,        \* CC.EN (and CSTS.RDY, which follows it)
  shst,      \* CSTS.SHST; "processing" lasts only with CSTS.CFS set
  aer,       \* pending_async_event_requests
  async,     \* async_flush
  worker,    \* a flush worker thread is running (FlushWorker.jobs is Some)
  \* queues
  sq, cq,    \* sqs and cqs
  pending,   \* pending_sq_bits
  \* commands that finish later
  held,      \* flush_reserved: completion slots held, per CQ
  inFlight,  \* FlushWorker.in_flight
  untaken,   \* FlushWorker.io
  running,   \* READs and WRITEs taken by vCPUs and their transfer threads
  flushing,  \* the flush worker's inbox and current batch
  finished,  \* Shared.finished
  \* the platform lock holder
  pc,        \* where it is
  req,       \* the CcWrite it is applying, when pc = "cc"
  wait,      \* complete_flushes' argument
  poll,      \* this hold is a drain: complete_flushes only
  taking,    \* finished jobs taken from `finished' and not yet handled
  todo,      \* pending_word: queues still to visit in this pass
  \* guest memory
  sqMem, cqMem,
  \* the guest driver
  gTail,     \* next free slot of each submission ring
  gSqHead,   \* SQ head it last read in a completion
  gCqHead,   \* next completion slot it looks at
  gPhase,    \* phase tag it expects there
  open,      \* commands submitted and not yet reaped, per SQ
  gSq, gCq   \* I/O queues it knows to exist

regs   == <<en, shst, aer>>
setup  == <<async, worker>>
rings  == <<sq, cq, pending>>
pools  == <<untaken, running, flushing, finished>>
counts == <<held, inFlight>>
holder == <<req, wait, poll, taking, todo>>
memory == <<sqMem, cqMem>>
driver == <<gTail, gSqHead, gCqHead, gPhase, open, gSq, gCq>>
vars   == <<regs, setup, rings, pools, counts, pc, holder, memory, driver>>

Job == [sqid : Q, cqid : Q, cmd : Cmd, sync : BOOLEAN, ok : BOOLEAN]
Entry == [sqid : Q, cmd : Cmd \cup {NoCmd}, sqHead : Nat, ok : BOOLEAN,
          phase : BOOLEAN]

NoSq == [live |-> FALSE, head |-> 0, tail |-> 0, cqid |-> 0]
NoCq == [live |-> FALSE, head |-> 0, tail |-> 0, phase |-> FALSE]
NewSq(c) == [live |-> TRUE, head |-> 0, tail |-> 0, cqid |-> c]
NewCq == [live |-> TRUE, head |-> 0, tail |-> 0, phase |-> TRUE]
Zeroed(p) == [sqid |-> 0, cmd |-> NoCmd, sqHead |-> 0, ok |-> FALSE, phase |-> p]
NoReq == [op |-> "cc", en |-> FALSE, shn |-> FALSE]

(* Each operator with Mutant in its comment is the definition after it with a
   plausible mistake; the properties are checked to tell them apart.       *)

(* Mutant: no wrap. *)
SuccNoWrap(i, n) == i + 1
(* (i + 1) % n and (t + n - h) % n for indices below n. *)
Succ(i, n) == IF i + 1 = n THEN 0 ELSE i + 1
Dist(h, t, n) == IF t >= h THEN t - h ELSE t + n - h

Of(S, c) == {j \in S : j.cqid = c}
Failed(S) == {[j EXCEPT !.ok = FALSE, !.sync = FALSE] : j \in S}

-----------------------------------------------------------------------------
(* Completion rings *)

(* Mutant: the slots held for jobs in flight are not counted. *)
HasSpaceIgnoringHeld(c) ==
  cq[c].live /\ Dist(cq[c].head, cq[c].tail, CqSize[c]) + 1 < CqSize[c]

(* Mutant: the slot that stays empty is used. *)
HasSpaceOffByOne(c) ==
  cq[c].live /\ Dist(cq[c].head, cq[c].tail, CqSize[c]) + held[c] < CqSize[c]

(* cq_has_space: one slot stays empty, and every job in flight holds one. *)
HasSpace(c) ==
  /\ cq[c].live
  /\ Dist(cq[c].head, cq[c].tail, CqSize[c]) + 1 + held[c] < CqSize[c]

HasWork(q) == sq[q].live /\ sq[q].head # sq[q].tail

(* Mutant: the phase tag survives the wrap. *)
PostedSamePhase(f, c) ==
  [f EXCEPT ![c].tail = Succ(@, CqSize[c])]

(* The ring state after post_completion on ring c of f. *)
Posted(f, c) ==
  LET tail == Succ(f[c].tail, CqSize[c])
  IN [f EXCEPT ![c].tail = tail, ![c].phase = IF tail = 0 THEN ~@ ELSE @]

(* Guest memory after post_completion: the entry carries the current SQ head
   and the ring's phase tag.                                               *)
Written(mem, c, q, cmd, ok, sqHead) ==
  [mem EXCEPT ![c][cq[c].tail] =
     [sqid |-> q, cmd |-> cmd, sqHead |-> sqHead, ok |-> ok,
      phase |-> cq[c].phase]]

-----------------------------------------------------------------------------
(* Register writes.  Each takes the lock, acts and then runs process_into. *)

(* write_doorbell, even index *)
RingSq(q) ==
  /\ pc = "free"
  /\ IF sq[q].live
       THEN /\ sq' = [sq EXCEPT ![q].tail = gTail[q]]
            /\ pending' = IF sq[q].head # gTail[q] THEN pending \cup {q}
                                                   ELSE pending \ {q}
       ELSE UNCHANGED <<sq, pending>>
  /\ pc' = "enter"
  /\ UNCHANGED <<regs, setup, cq, pools, counts, holder, memory, driver>>

(* Mutant: room in a completion ring does not resume the queues it stalled. *)
RingCqOnly(c) ==
  /\ pc = "free"
  /\ cq' = IF cq[c].live THEN [cq EXCEPT ![c].head = gCqHead[c]] ELSE cq
  /\ UNCHANGED <<regs, setup, sq, pending, pools, counts, pc, holder, memory,
                 driver>>

(* write_doorbell, odd index *)
RingCq(c) ==
  /\ pc = "free"
  /\ IF cq[c].live THEN cq' = [cq EXCEPT ![c].head = gCqHead[c]]
                   ELSE UNCHANGED cq
  /\ pc' = "enter"
  /\ UNCHANGED <<regs, setup, sq, pending, pools, counts, holder, memory, driver>>

(* Any other register write, a doorbell value at or above the queue size
   included: nothing modelled changes before process_into.                *)
OtherWrite ==
  /\ pc = "free"
  /\ pc' = "enter"
  /\ UNCHANGED <<regs, setup, rings, pools, counts, holder, memory, driver>>

(* A pre-run or post-exit drain: poll_nvme_flushes. *)
Drain ==
  /\ pc = "free"
  /\ finished # {}
  /\ pc' = "take" /\ poll' = TRUE /\ wait' = FALSE
  /\ UNCHANGED <<regs, setup, rings, pools, counts, req, taking, todo, memory, driver>>

(* write_cc and reset_registers_keep_disks begin by waiting for every job in
   flight; jobs nobody took fail first (fail_untaken_io).                  *)
BeginCc(w) ==
  /\ pc = "free"
  /\ pc' = "cc" /\ req' = w
  /\ finished' = finished \cup Failed(untaken)
  /\ untaken' = {}
  /\ UNCHANGED <<regs, setup, rings, running, flushing, counts, wait, poll,
                 taking, todo, memory, driver>>

AllFinished == Cardinality(finished) >= inFlight

Minus(n, k) == IF n >= k THEN n - k ELSE 0

(* Mutant: the finished jobs are read and not taken. *)
ReleaseNotTaken ==
  /\ inFlight' = Minus(inFlight, Cardinality(finished))
  /\ held' = [c \in Q |-> Minus(held[c], Cardinality(Of(finished, c)))]
  /\ UNCHANGED finished

(* take_finished releases the slots of everything it takes. *)
Release ==
  /\ inFlight' = inFlight - Cardinality(finished)
  /\ held' = [c \in Q |-> Minus(held[c], Cardinality(Of(finished, c)))]
  /\ finished' = {}

(* The driver forgets what it had outstanding on a controller it resets, and
   clears its rings.                                                       *)
DriverForgets ==
  /\ sqMem' = [q \in Q |-> [i \in 0..SqSize[q]-1 |-> NoCmd]]
  /\ cqMem' = [c \in Q |-> [i \in 0..CqSize[c]-1 |-> Zeroed(FALSE)]]
  /\ gTail' = [q \in Q |-> 0] /\ gSqHead' = [q \in Q |-> 0]
  /\ gCqHead' = [c \in Q |-> 0] /\ gPhase' = [c \in Q |-> TRUE]
  /\ open' = [q \in Q |-> {}]
  /\ gSq' = {} /\ gCq' = {}

(* A driver zeroes the memory of a ring before it creates the queue. *)
FreshSq(q) ==
  /\ sqMem' = [sqMem EXCEPT ![q] = [i \in 0..SqSize[q]-1 |-> NoCmd]]
  /\ gTail' = [gTail EXCEPT ![q] = 0]
  /\ gSqHead' = [gSqHead EXCEPT ![q] = 0]
ZeroedCq(c) == [cqMem EXCEPT ![c] = [i \in 0..CqSize[c]-1 |-> Zeroed(FALSE)]]
FreshCq(c) ==
  /\ gCqHead' = [gCqHead EXCEPT ![c] = 0]
  /\ gPhase' = [gPhase EXCEPT ![c] = TRUE]

(* The namespaces' full sync at a shutdown may fail: CFS, SHST unfinished. *)
Shutdown(w, s) ==
  IF w.shn /\ s = "none" THEN shst' \in {"complete", "processing"}
                         ELSE shst' = s

(* CC.EN 0 -> 1 *)
Enable ==
  /\ req.op = "cc" /\ ~en /\ req.en
  /\ en' = TRUE
  /\ sq' = [sq EXCEPT ![0] = NewSq(0)]
  /\ cq' = [cq EXCEPT ![0] = NewCq]
  /\ pending' = {}
  /\ Shutdown(req, "none")
  /\ FreshSq(0) /\ FreshCq(0) /\ cqMem' = ZeroedCq(0)
  /\ UNCHANGED <<aer, setup, counts, finished, open, gSq, gCq>>

(* CC.EN 1 -> 0: the completions in flight go with their queues. *)
Disable ==
  /\ req.op = "cc" /\ en /\ ~req.en
  /\ en' = FALSE /\ aer' = 0
  /\ Release
  /\ sq' = [q \in Q |-> NoSq] /\ cq' = [c \in Q |-> NoCq]
  /\ pending' = {}
  /\ Shutdown(req, "none")
  /\ DriverForgets
  /\ UNCHANGED setup

(* CC written without changing EN *)
KeepEnable ==
  /\ req.op = "cc" /\ en = req.en
  /\ Shutdown(req, shst)
  /\ UNCHANGED <<en, aer, setup, rings, counts, finished, memory, driver>>

(* reset_registers_keep_disks: a fresh controller on the same disks. *)
ColdReset ==
  /\ req.op = "cold"
  /\ en' = FALSE /\ aer' = 0 /\ shst' = "none"
  /\ worker' = FALSE
  /\ finished' = {} /\ inFlight' = 0 /\ held' = [c \in Q |-> 0]
  /\ sq' = [q \in Q |-> NoSq] /\ cq' = [c \in Q |-> NoCq]
  /\ pending' = {}
  /\ DriverForgets
  /\ UNCHANGED async

ApplyCc ==
  /\ pc = "cc"
  /\ AllFinished
  /\ Enable \/ Disable \/ KeepEnable \/ ColdReset
  /\ pc' = IF req.op = "cold" THEN "free" ELSE "enter"
  /\ req' = NoReq
  /\ UNCHANGED <<untaken, running, flushing, wait, poll, taking, todo>>

-----------------------------------------------------------------------------
(* process_into and complete_flushes *)

(* Mutant: queues are drained after a shutdown notification too. *)
StartScanAlways == pc' = "scan" /\ todo' = pending

StartScan ==
  /\ pc' = "scan"
  /\ todo' = IF shst = "none" THEN pending ELSE {}

(* Mutant: an admin command does not wait. *)
EnterProcessNoWait ==
  /\ pc = "enter"
  /\ IF finished # {}
       THEN pc' = "take" /\ wait' = FALSE /\ poll' = FALSE /\ UNCHANGED todo
       ELSE StartScan /\ UNCHANGED <<wait, poll>>
  /\ UNCHANGED <<regs, setup, rings, pools, counts, req, taking, memory, driver>>

(* A pending admin doorbell makes it wait for every job in flight. *)
EnterProcess ==
  /\ pc = "enter"
  /\ LET admin == 0 \in pending
     IN IF finished # {} \/ (admin /\ inFlight > 0)
          THEN /\ pc' = "take" /\ wait' = admin /\ poll' = FALSE
               /\ IF admin THEN /\ finished' = finished \cup Failed(untaken)
                                /\ untaken' = {}
                           ELSE UNCHANGED <<finished, untaken>>
               /\ UNCHANGED todo
          ELSE /\ StartScan
               /\ UNCHANGED <<wait, poll, finished, untaken>>
  /\ UNCHANGED <<regs, setup, rings, running, flushing, counts, req, taking,
                 memory, driver>>

TakeFinished ==
  /\ pc = "take"
  /\ wait => AllFinished
  /\ taking' = finished
  /\ Release
  /\ pc' = "post"
  /\ UNCHANGED <<regs, setup, rings, untaken, running, flushing, req, wait,
                 poll, todo, memory, driver>>

(* hold_completion_slot and the in_flight count *)
Hold(c) ==
  /\ held' = [held EXCEPT ![c] = @ + 1]
  /\ inFlight' = inFlight + 1

(* defer_flush succeeds: the worker, started now if need be, gets the job. *)
DeferFlush(q, c, cmd) ==
  /\ async
  /\ worker' = TRUE
  /\ UNCHANGED async
  /\ flushing' = flushing \cup
       {[sqid |-> q, cqid |-> c, cmd |-> cmd, sync |-> FALSE, ok |-> TRUE]}
  /\ Hold(c)

(* defer_flush declines: async flush is off, or the thread cannot start,
   which turns it off.                                                     *)
FlushInline ==
  /\ ~(async /\ worker)
  /\ async' = FALSE
  /\ UNCHANGED <<worker, flushing, counts>>

(* One job of post_finished's loop: the sync of a FUA write comes next. *)
SyncFinished(j) ==
  /\ pc = "post" /\ j \in taking /\ j.sync
  /\ taking' = taking \ {j}
  /\ DeferFlush(j.sqid, j.cqid, j.cmd)
  /\ UNCHANGED <<regs, rings, untaken, running, finished, pc, req, wait, poll,
                 todo, memory, driver>>

(* One job of post_finished's loop: its completion, if its queues still
   exist.  A FUA write that could not be handed on syncs here, and that may
   fail.                                                                   *)
PostFinished(j, ok) ==
  /\ pc = "post" /\ j \in taking
  /\ IF j.sync THEN FlushInline
               ELSE ok = j.ok /\ UNCHANGED <<setup, flushing, counts>>
  /\ taking' = taking \ {j}
  /\ IF sq[j.sqid].live /\ cq[j.cqid].live
       THEN /\ cqMem' = Written(cqMem, j.cqid, j.sqid, j.cmd, ok, sq[j.sqid].head)
            /\ cq' = Posted(cq, j.cqid)
       ELSE UNCHANGED <<cqMem, cq>>
  /\ UNCHANGED <<regs, sq, pending, untaken, running, finished, pc, req, wait,
                 poll, todo, sqMem, driver>>

(* Mutant: one round, although the syncs of FUA writes may have been queued. *)
AllPostedOnce ==
  /\ pc = "post" /\ taking = {}
  /\ IF poll THEN pc' = "free" /\ UNCHANGED todo ELSE StartScan
  /\ UNCHANGED <<regs, setup, rings, pools, counts, req, wait, poll, taking,
                 memory, driver>>

(* complete_flushes goes round again while it must wait and jobs remain. *)
AllPosted ==
  /\ pc = "post" /\ taking = {}
  /\ IF wait /\ inFlight > 0 THEN pc' = "take" /\ UNCHANGED todo
     ELSE IF poll THEN pc' = "free" /\ UNCHANGED todo
     ELSE StartScan
  /\ UNCHANGED <<regs, setup, rings, pools, counts, req, wait, poll, taking,
                 memory, driver>>

-----------------------------------------------------------------------------
(* process_sq *)

Next1(S) == CHOOSE q \in S : \A r \in S : q <= r

(* Mutant: a stalled queue is forgotten. *)
LeaveSqForgets ==
  /\ pc = "scan" /\ todo # {}
  /\ LET q == Next1(todo)
     IN /\ ~HasWork(q) \/ ~HasSpace(sq[q].cqid)
        /\ todo' = todo \ {q}
        /\ pending' = pending \ {q}
  /\ UNCHANGED <<regs, setup, sq, cq, pools, counts, pc, req, wait, poll,
                 taking, memory, driver>>

(* The queue is empty, gone, or its completion ring is full. *)
LeaveSq ==
  /\ pc = "scan" /\ todo # {}
  /\ LET q == Next1(todo)
     IN /\ ~HasWork(q) \/ ~HasSpace(sq[q].cqid)
        /\ todo' = todo \ {q}
        /\ pending' = IF HasWork(q) THEN pending ELSE pending \ {q}
  /\ UNCHANGED <<regs, setup, sq, cq, pools, counts, pc, req, wait, poll,
                 taking, memory, driver>>

(* The command at the head of queue q, which has work and a slot to answer
   in; `advanced' is sqs with the head past it.                            *)
Fetch(q, cmd) ==
  /\ pc = "scan" /\ q \in todo /\ q = Next1(todo)
  /\ HasWork(q) /\ HasSpace(sq[q].cqid)
  /\ cmd = sqMem[q][sq[q].head]

Advanced(q) == [sq EXCEPT ![q].head = Succ(@, SqSize[q])]

(* FLUSH to the worker; also, with READ and WRITE on the lock, the sync of a
   write that must reach media, once its data is in the file.              *)
FetchFlush(q, cmd) ==
  /\ q # 0
  /\ Fetch(q, cmd)
  /\ cmd.op = "flush" \/ (cmd.op = "fua" /\ ~UnlockedIo)
  /\ sq' = Advanced(q)
  /\ DeferFlush(q, sq[q].cqid, cmd)
  /\ UNCHANGED <<regs, cq, pending, untaken, running, finished, pc, holder,
                 memory, driver>>

(* defer_io: a READ or WRITE runs after the vCPU drops the lock. *)
FetchIo(q, cmd) ==
  /\ q # 0
  /\ Fetch(q, cmd)
  /\ cmd.op \in {"rw", "fua"} /\ UnlockedIo
  /\ sq' = Advanced(q)
  /\ untaken' = untaken \cup {[sqid |-> q, cqid |-> sq[q].cqid, cmd |-> cmd,
                               sync |-> cmd.op = "fua", ok |-> TRUE]}
  /\ Hold(sq[q].cqid)
  /\ UNCHANGED <<regs, setup, cq, pending, running, flushing, finished, pc,
                 holder, memory, driver>>

(* execute_io, and a synced write whose data part failed: answered at once,
   in success or failure.                                                  *)
FetchInline(q, cmd, ok) ==
  /\ q # 0
  /\ Fetch(q, cmd)
  /\ \/ cmd.op = "inline" /\ UNCHANGED <<setup, flushing, counts>>
     \/ cmd.op = "flush" /\ FlushInline
     \/ cmd.op = "rw" /\ ~UnlockedIo /\ UNCHANGED <<setup, flushing, counts>>
     \/ /\ cmd.op = "fua" /\ ~UnlockedIo
        /\ FlushInline \/ (~ok /\ UNCHANGED <<setup, flushing, counts>>)
  /\ sq' = Advanced(q)
  /\ cqMem' = Written(cqMem, sq[q].cqid, q, cmd, ok, Advanced(q)[q].head)
  /\ cq' = Posted(cq, sq[q].cqid)
  /\ UNCHANGED <<regs, pending, untaken, running, finished, pc, holder, sqMem,
                 driver>>

(* execute_admin.  The completion goes to ring 0 of f and mem, which already
   have the command's own effect on the rings.                             *)
Answer(f, mem, cmd, ok) ==
  /\ cq' = Posted(f, 0)
  /\ cqMem' = Written(mem, 0, 0, cmd, ok, Advanced(0)[0].head)

(* admin_create_io_cq *)
CreateCq(cmd) ==
  LET ok == ~cq[cmd.q].live
  IN /\ cmd.op = "createCq"
     /\ IF ok THEN /\ Answer([cq EXCEPT ![cmd.q] = NewCq], ZeroedCq(cmd.q), cmd, ok)
                   /\ FreshCq(cmd.q)
              ELSE /\ Answer(cq, cqMem, cmd, ok)
                   /\ UNCHANGED <<gCqHead, gPhase>>
     /\ sq' = Advanced(0)
     /\ UNCHANGED <<aer, pending, sqMem, gTail, gSqHead>>

(* admin_create_io_sq *)
CreateSq(cmd) ==
  LET ok == cmd.cq # 0 /\ cq[cmd.cq].live /\ ~sq[cmd.q].live
  IN /\ cmd.op = "createSq"
     /\ IF ok THEN /\ sq' = [Advanced(0) EXCEPT ![cmd.q] = NewSq(cmd.cq)]
                   /\ pending' = pending \ {cmd.q}
                   /\ FreshSq(cmd.q)
              ELSE /\ sq' = Advanced(0)
                   /\ UNCHANGED <<pending, sqMem, gTail, gSqHead>>
     /\ Answer(cq, cqMem, cmd, ok)
     /\ UNCHANGED <<aer, gCqHead, gPhase>>

(* admin_delete_io_queue, DELETE I/O SQ: what it had not fetched is aborted. *)
DeleteSq(cmd) ==
  LET ok == sq[cmd.q].live
  IN /\ cmd.op = "deleteSq"
     /\ IF ok THEN /\ sq' = [Advanced(0) EXCEPT ![cmd.q] = NoSq]
                   /\ pending' = pending \ {cmd.q}
              ELSE sq' = Advanced(0) /\ UNCHANGED pending
     /\ Answer(cq, cqMem, cmd, ok)
     /\ UNCHANGED <<aer, sqMem, gTail, gSqHead, gCqHead, gPhase>>

(* admin_delete_io_queue, DELETE I/O CQ: refused while an SQ posts to it. *)
DeleteCq(cmd) ==
  LET ok == cq[cmd.q].live /\ \A q \in Q : sq[q].live => sq[q].cqid # cmd.q
  IN /\ cmd.op = "deleteCq"
     /\ Answer(IF ok THEN [cq EXCEPT ![cmd.q] = NoCq] ELSE cq, cqMem, cmd, ok)
     /\ sq' = Advanced(0)
     /\ UNCHANGED <<aer, pending, sqMem, gTail, gSqHead, gCqHead, gPhase>>

(* Mutant: an accepted request is answered as well. *)
AsyncEventAnswered(cmd) ==
  /\ cmd.op = "aer"
  /\ aer' = IF aer < AerLimit THEN aer + 1 ELSE aer
  /\ Answer(cq, cqMem, cmd, aer < AerLimit)
  /\ sq' = Advanced(0)
  /\ UNCHANGED <<pending, sqMem, gTail, gSqHead, gCqHead, gPhase>>

(* admin_async_event_request: kept without a completion, up to the limit. *)
AsyncEvent(cmd) ==
  /\ cmd.op = "aer"
  /\ IF aer < AerLimit THEN /\ aer' = aer + 1
                            /\ UNCHANGED <<cq, cqMem>>
                       ELSE /\ Answer(cq, cqMem, cmd, FALSE)
                            /\ UNCHANGED aer
  /\ sq' = Advanced(0)
  /\ UNCHANGED <<pending, sqMem, gTail, gSqHead, gCqHead, gPhase>>

(* Identify, Get/Set Features, Get Log Page, Security, unknown opcodes. *)
OtherAdmin(cmd) ==
  /\ cmd.op = "inline"
  /\ \E ok \in BOOLEAN : Answer(cq, cqMem, cmd, ok)
  /\ sq' = Advanced(0)
  /\ UNCHANGED <<aer, pending, sqMem, gTail, gSqHead, gCqHead, gPhase>>

FetchAdmin(cmd) ==
  /\ Fetch(0, cmd)
  /\ \/ CreateCq(cmd) \/ CreateSq(cmd) \/ DeleteSq(cmd) \/ DeleteCq(cmd)
     \/ AsyncEvent(cmd) \/ OtherAdmin(cmd)
  /\ UNCHANGED <<en, shst, setup, pools, counts, pc, holder, open, gSq, gCq>>

(* The pass is over: the vCPU takes the READs and WRITEs it queued (take_io)
   and drops the lock; its transfer thread runs them.                      *)
Unlock ==
  /\ pc = "scan" /\ todo = {}
  /\ pc' = "free"
  /\ running' = running \cup untaken
  /\ untaken' = {}
  /\ UNCHANGED <<regs, setup, rings, flushing, finished, counts, holder,
                 memory, driver>>

-----------------------------------------------------------------------------
(* Worker threads, without the lock *)

(* NvmeIo::run, or its Drop for a job nobody ran (it fails). *)
FinishIo(j, ok) ==
  /\ j \in running
  /\ running' = running \ {j}
  /\ finished' = finished \cup {[j EXCEPT !.ok = ok, !.sync = @ /\ ok]}
  /\ UNCHANGED <<regs, setup, rings, untaken, flushing, counts, pc, holder,
                 memory, driver>>

(* The flush worker publishes a job of its batch. *)
FinishFlush(j, ok) ==
  /\ j \in flushing
  /\ flushing' = flushing \ {j}
  /\ finished' = finished \cup {[j EXCEPT !.ok = ok]}
  /\ UNCHANGED <<regs, setup, rings, untaken, running, counts, pc, holder,
                 memory, driver>>

-----------------------------------------------------------------------------
(* The guest driver *)

Knows(q) == IF q = 0 THEN en ELSE q \in gSq
Polls(c) == IF c = 0 THEN en ELSE cq[c].live

(* The entry the driver looks at on ring c, and whether it is new to it. *)
Looks(c) == cqMem[c][gCqHead[c]]
Sees(c) == Polls(c) /\ Looks(c).phase = gPhase[c]

Lifecycle(q, ops) == {a \in open[0] : a.op \in ops /\ a.q = q}

(* What a correct driver may submit: see the README. *)
MaySubmit(q, cmd) ==
  /\ Knows(q)
  /\ cmd \notin open[q]
  /\ IF q # 0 THEN cmd \in IoCmd /\ Lifecycle(q, {"deleteSq"}) = {}
     ELSE /\ cmd \in AdminCmd
          /\ cmd.op = "createSq" => /\ cmd.q \notin gSq /\ open[cmd.q] = {}
                                    /\ Lifecycle(cmd.q, {"createSq", "deleteSq"}) = {}
          /\ cmd.op = "deleteSq" => Lifecycle(cmd.q, {"createSq", "deleteSq"}) = {}
          /\ cmd.op = "createCq" => /\ cmd.q \notin gCq
                                    /\ Lifecycle(cmd.q, {"createCq", "deleteCq"}) = {}
          /\ cmd.op = "deleteCq" =>
               /\ Lifecycle(cmd.q, {"createCq", "deleteCq"}) = {}
               /\ ~Sees(cmd.q)
               /\ \A s \in gSq : sq[s].cqid = cmd.q => open[s] = {}

(* Write a command into the ring; the doorbell may follow later. *)
Submit(q, cmd) ==
  /\ MaySubmit(q, cmd)
  /\ Succ(gTail[q], SqSize[q]) # gSqHead[q]
  /\ sqMem' = [sqMem EXCEPT ![q][gTail[q]] = cmd]
  /\ gTail' = [gTail EXCEPT ![q] = Succ(@, SqSize[q])]
  /\ open' = [open EXCEPT ![q] = @ \cup {cmd}]
  /\ UNCHANGED <<regs, setup, rings, pools, counts, pc, holder, cqMem, gSqHead,
                 gCqHead, gPhase, gSq, gCq>>

(* Ring indices from h up to, not including, t. *)
Between(h, t, n) ==
  {i \in 0..n-1 : IF h <= t THEN h <= i /\ i < t ELSE h <= i \/ i < t}

(* Take the next completion off ring c.  A driver looks at every completion
   ring before it gives up the requests of an SQ it deleted.  It clears the
   slots it is done with, keeping the phase tag.                           *)
Reap(c) ==
  LET e == Looks(c)
      cmd == e.cmd
      next == Succ(gCqHead[c], CqSize[c])
      deleted == IF e.sqid = 0 /\ e.ok /\ cmd.op = "deleteSq" THEN {cmd.q} ELSE {}
      Changed(S, create, delete) ==
        IF e.sqid = 0 /\ e.ok /\ cmd.op = create THEN S \cup {cmd.q}
        ELSE IF e.sqid = 0 /\ e.ok /\ cmd.op = delete THEN S \ {cmd.q} ELSE S
  IN /\ Sees(c)
     /\ deleted # {} => \A d \in gCq : ~Sees(d)
     /\ cqMem' = [cqMem EXCEPT ![c][gCqHead[c]] = Zeroed(e.phase)]
     /\ gCqHead' = [gCqHead EXCEPT ![c] = next]
     /\ gPhase' = [gPhase EXCEPT ![c] = IF next = 0 THEN ~@ ELSE @]
     /\ gSqHead' = [gSqHead EXCEPT ![e.sqid] = e.sqHead]
     /\ sqMem' = [sqMem EXCEPT ![e.sqid] =
          [i \in 0..SqSize[e.sqid]-1 |->
             IF i \in Between(gSqHead[e.sqid], e.sqHead, SqSize[e.sqid])
               THEN NoCmd ELSE @[i]]]
     /\ open' = [q \in Q |-> IF q \in deleted THEN {}
                             ELSE IF q = e.sqid THEN open[q] \ {cmd} ELSE open[q]]
     /\ gSq' = Changed(gSq, "createSq", "deleteSq")
     /\ gCq' = Changed(gCq, "createCq", "deleteCq")
     /\ UNCHANGED <<regs, setup, rings, pools, counts, pc, holder, gTail>>

-----------------------------------------------------------------------------
Init ==
  /\ en = FALSE /\ shst = "none" /\ aer = 0
  /\ async = AsyncFlush /\ worker = FALSE
  /\ sq = [q \in Q |-> NoSq] /\ cq = [c \in Q |-> NoCq] /\ pending = {}
  /\ held = [c \in Q |-> 0] /\ inFlight = 0
  /\ untaken = {} /\ running = {} /\ flushing = {} /\ finished = {}
  /\ pc = "free" /\ req = NoReq /\ wait = FALSE /\ poll = FALSE
  /\ taking = {} /\ todo = {}
  /\ sqMem = [q \in Q |-> [i \in 0..SqSize[q]-1 |-> NoCmd]]
  /\ cqMem = [c \in Q |-> [i \in 0..CqSize[c]-1 |-> Zeroed(FALSE)]]
  /\ gTail = [q \in Q |-> 0] /\ gSqHead = [q \in Q |-> 0]
  /\ gCqHead = [c \in Q |-> 0] /\ gPhase = [c \in Q |-> TRUE]
  /\ open = [q \in Q |-> {}] /\ gSq = {} /\ gCq = {}

(* Steps of the vCPU that holds the platform lock. *)
Holder ==
  \/ ApplyCc \/ EnterProcess \/ TakeFinished \/ AllPosted \/ LeaveSq \/ Unlock
  \/ \E j \in taking : SyncFinished(j) \/ \E ok \in BOOLEAN : PostFinished(j, ok)
  \/ \E cmd \in AdminCmd : FetchAdmin(cmd)
  \/ \E q \in IoQ, cmd \in IoCmd :
        \/ FetchFlush(q, cmd) \/ FetchIo(q, cmd)
        \/ \E ok \in BOOLEAN : FetchInline(q, cmd, ok)

Transfers == \E j \in running, ok \in BOOLEAN : FinishIo(j, ok)
Syncs == \E j \in flushing, ok \in BOOLEAN : FinishFlush(j, ok)

Registers ==
  \/ \E q \in Q : (Knows(q) /\ RingSq(q)) \/ (Polls(q) /\ RingCq(q))
  \/ OtherWrite
  \/ \E w \in CcWrites : BeginCc(w)

Next ==
  \/ Holder \/ Transfers \/ Syncs \/ Drain \/ Registers
  \/ \E q \in Q, cmd \in Cmd : Submit(q, cmd)
  \/ \E c \in Q : Reap(c)

Spec == Init /\ [][Next]_vars

(* The lock holder and the worker threads keep going; a drain is asked for
   whenever a job is published (module NvmeHandoff); the driver rings what it
   wrote and reaps what it sees.                                           *)
Fairness ==
  /\ WF_vars(Holder)
  /\ \A q \in Q, cmd \in IoCmd :
       /\ WF_vars(\E j \in running : j.sqid = q /\ j.cmd = cmd /\ FinishIo(j, TRUE))
       /\ WF_vars(\E j \in flushing : j.sqid = q /\ j.cmd = cmd /\ FinishFlush(j, TRUE))
  /\ SF_vars(Drain)
  /\ \A q \in Q : /\ SF_vars(sq[q].tail # gTail[q] /\ Knows(q) /\ RingSq(q))
                   /\ SF_vars(cq[q].head # gCqHead[q] /\ Polls(q) /\ RingCq(q))
                   /\ WF_vars(Reap(q))

LiveSpec == Spec /\ Fairness

-----------------------------------------------------------------------------
(* Properties *)

Jobs == untaken \cup running \cup flushing \cup finished

RegistersOK ==
  /\ en \in BOOLEAN /\ shst \in {"none", "processing", "complete"}
  /\ aer \in Nat /\ async \in BOOLEAN /\ worker \in BOOLEAN
SqRings ==
  {f \in [Q -> [live : BOOLEAN, head : Nat, tail : Nat, cqid : Q]] :
     \A q \in Q : f[q].head < SqSize[q] /\ f[q].tail < SqSize[q]}
CqRings ==
  {f \in [Q -> [live : BOOLEAN, head : Nat, tail : Nat, phase : BOOLEAN]] :
     \A c \in Q : f[c].head < CqSize[c] /\ f[c].tail < CqSize[c]}
RingsOK == sq \in SqRings /\ cq \in CqRings /\ pending \in SUBSET Q
JobsOK ==
  /\ held \in [Q -> Nat] /\ inFlight \in Nat
  /\ untaken \in SUBSET Job /\ running \in SUBSET Job
  /\ flushing \in SUBSET Job /\ finished \in SUBSET Job
  /\ taking \in SUBSET Job
HolderOK ==
  /\ pc \in {"free", "cc", "enter", "take", "post", "scan"}
  /\ req \in CcWrite /\ wait \in BOOLEAN /\ poll \in BOOLEAN
  /\ todo \in SUBSET Q
MemoryOK ==
  /\ DOMAIN sqMem = Q /\ DOMAIN cqMem = Q
  /\ \A q \in Q : sqMem[q] \in [0..SqSize[q]-1 -> Cmd \cup {NoCmd}]
  /\ \A c \in Q : cqMem[c] \in [0..CqSize[c]-1 -> Entry]
DriverOK ==
  /\ gTail \in [Q -> Nat] /\ gSqHead \in [Q -> Nat] /\ gCqHead \in [Q -> Nat]
  /\ \A q \in Q : gTail[q] < SqSize[q] /\ gSqHead[q] < SqSize[q]
  /\ \A c \in Q : gCqHead[c] < CqSize[c]
  /\ gPhase \in [Q -> BOOLEAN]
  /\ open \in [Q -> SUBSET Cmd]
  /\ gSq \in SUBSET IoQ /\ gCq \in SUBSET IoQ

(* Every variable keeps its type, and every ring index stays below the size of
   its ring: process_sq, post_completion and the driver wrap them.         *)
TypeOK == RegistersOK /\ RingsOK /\ JobsOK /\ HolderOK /\ MemoryOK /\ DriverOK

(* A completion ring is never overrun: its unconsumed entries, the slots held
   for jobs in flight and the completions being posted fit in it, with the
   slot NVMe keeps empty to spare.  cq_has_space admits a command only then,
   so that a completion never overwrites one the guest has not read, however
   late it comes.                                                           *)
RingCapacity ==
  \A c \in Q : cq[c].live =>
    Dist(cq[c].head, cq[c].tail, CqSize[c]) + held[c]
      + Cardinality(Of(taking, c)) < CqSize[c]

Unreaped(c) == Between(gCqHead[c], cq[c].tail, CqSize[c])

(* The phase tags tell the guest exactly which entries are new: reading slot
   after slot from where it is, it takes an entry for new if and only if
   post_completion put it there and it has not taken it yet.               *)
PhaseTagsTell ==
  \A c \in Q : cq[c].live =>
    \A i \in 0..CqSize[c]-1 :
      (cqMem[c][i].phase = (IF i >= gCqHead[c] THEN gPhase[c] ELSE ~gPhase[c]))
        <=> i \in Unreaped(c)

(* Where a command the driver submitted on q is now. *)
Unfetched(q, cmd) ==
  IF sq[q].live
    THEN {i \in Between(sq[q].head, gTail[q], SqSize[q]) : sqMem[q][i] = cmd}
    ELSE {}
Copies(S, q, cmd) == Cardinality({j \in S : j.sqid = q /\ j.cmd = cmd})
Completions(q, cmd) ==
  UNION {{<<c, i>> : i \in {i \in Unreaped(c) : /\ cqMem[c][i].sqid = q
                                               /\ cqMem[c][i].cmd = cmd}}
         : c \in {c \in Q : cq[c].live}}
Places(q, cmd) ==
  Cardinality(Unfetched(q, cmd)) + Cardinality(Completions(q, cmd))
  + Copies(untaken, q, cmd) + Copies(running, q, cmd) + Copies(flushing, q, cmd)
  + Copies(finished, q, cmd) + Copies(taking, q, cmd)

(* No command is lost and none is answered twice, or to a queue created since:
   each command the driver has outstanding is in exactly one place - still in
   the ring, in one worker's hands, finished, or one unread completion - and
   nothing else is anywhere.  Only deleting its submission queue lets a
   command vanish; an accepted AER stays with the controller.              *)
AnsweredOnce ==
  /\ \A q \in Q, cmd \in Cmd :
       LET n == Places(q, cmd) IN
         IF cmd \in open[q] THEN n = 1 \/ (n = 0 /\ (~sq[q].live \/ cmd.op = "aer"))
                            ELSE n = 0
  /\ en => Cardinality({c \in open[0] : c.op = "aer" /\ Places(0, c) = 0}) = aer

(* Queue deletion and reset never meet a pending completion: the queues a job
   will complete to stay as they were when it was fetched until it has
   completed.  In particular a reset controller writes guest RAM no more.   *)
QueuesOutliveJobs ==
  \A j \in Jobs \cup taking :
    /\ sq[j.sqid].live /\ sq[j.sqid].cqid = j.cqid
    /\ cq[j.cqid].live

(* When the lock is free, nothing is left that only the lock holder would
   pick up: a rung command waits only for room in its completion ring, which
   the doorbell that makes room will scan for.                             *)
NoStrandedWork ==
  pc = "free" =>
    /\ untaken = {} /\ taking = {}
    /\ shst = "none" => \A q \in Q : HasWork(q) =>
                          q \in pending /\ ~HasSpace(sq[q].cqid)

(* An admin command runs only when no job is in flight: deletions, and the
   write-cache switch, see every earlier command finished.                 *)
AdminRunsAlone ==
  [][en /\ en' /\ sq'[0].head # sq[0].head => inFlight = 0 /\ Jobs = {}]_vars

(* Once a shutdown notification is accepted no command is fetched until the
   controller is reset.                                                    *)
ShutdownStopsFetching ==
  [][shst # "none" /\ shst' # "none" =>
       \A q \in Q : sq'[q].live => sq'[q].head = sq[q].head]_vars

(* Every I/O command is answered and reaped, unless the guest shuts the
   controller down (a deleted or reset queue's commands are given up).  So
   every wait for the workers, with the platform lock held, ends.          *)
EveryIoAnswered ==
  \A q \in IoQ, cmd \in IoCmd :
    cmd \in open[q] ~> (cmd \notin open[q] \/ shst # "none")

=============================================================================
