--------------------------- MODULE NvmeInvariant ---------------------------
(***************************************************************************)
(* The inductive invariant behind the safety theorems of NvmeQueuesProofs. *)
(***************************************************************************)
EXTENDS NvmeQueues

Others(S, c) == {j \in S : j.cqid # c}

(* The admin pair lives while the controller is enabled; every other
   submission queue completes to an I/O completion queue.                  *)
QueuesLinked ==
  /\ en => cq[0].live
  /\ sq[0].live => en
  /\ ~en => sq[0].head = 0
  /\ sq[0].cqid = 0
  /\ \A q \in IoQ : sq[q].live => sq[q].cqid \in IoQ

(* There are finitely many jobs, all of I/O commands. *)
JobsAreIo ==
  /\ IsFiniteSet(untaken) /\ IsFiniteSet(running) /\ IsFiniteSet(flushing)
  /\ IsFiniteSet(finished) /\ IsFiniteSet(taking)
  /\ \A j \in Jobs \cup taking : j.sqid \in IoQ /\ j.cqid \in IoQ

(* Each job has its slot and its place in in_flight: no slot or count is given
   back twice.  Stated pool by pool, so that moving a job is arithmetic.   *)
SlotsHeld ==
  /\ held[0] = 0
  /\ \A c \in Q :
       /\ held[c] >= Cardinality(Of(untaken, c)) + Cardinality(Of(running, c))
                      + Cardinality(Of(flushing, c)) + Cardinality(Of(finished, c))
       /\ inFlight >= held[c]
             + Cardinality(Others(untaken, c)) + Cardinality(Others(running, c))
             + Cardinality(Others(flushing, c)) + Cardinality(Others(finished, c))

(* Where the lock holder is says what it may find. *)
HolderPlace ==
  /\ pc # "post" => taking = {}
  /\ pc \in {"take", "post"} /\ ~poll => wait = (0 \in pending)
  /\ pc = "scan" /\ 0 \in todo => inFlight = 0
  /\ pc = "scan" /\ todo # {} => shst = "none"

(* The slots before the tail carry the tag of this lap, the others that of the
   lap before.                                                             *)
PhasesLaid ==
  \A c \in Q : cq[c].live =>
    \A i \in 0..CqSize[c]-1 :
      cqMem[c][i].phase = (IF i < cq[c].tail THEN cq[c].phase ELSE ~cq[c].phase)

(* The guest reads between the head it last rang and the tail, and knows the
   lap it is in.                                                           *)
GuestBetween ==
  \A c \in Q : cq[c].live =>
    /\ Dist(cq[c].head, gCqHead[c], CqSize[c])
         <= Dist(cq[c].head, cq[c].tail, CqSize[c])
    /\ gPhase[c] = (IF gCqHead[c] <= cq[c].tail THEN cq[c].phase
                                                ELSE ~cq[c].phase)

(* Entries name a head of the submission queue they belong to, and successful
   admin completions an admin command.                                     *)
GoodEntry ==
  {e \in Entry : /\ e.sqHead < SqSize[e.sqid]
                 /\ e.sqid = 0 /\ e.ok => e.cmd \in AdminCmd}
EntriesOK == \A c \in Q : cqMem[c] \in [0..CqSize[c]-1 -> GoodEntry]

(* Together: an invariant that every step preserves, from which the safety
   properties of the queue engine follow.                                  *)
Inductive ==
  /\ TypeOK
  /\ QueuesLinked /\ JobsAreIo /\ SlotsHeld /\ HolderPlace
  /\ PhasesLaid /\ GuestBetween /\ EntriesOK
  /\ RingCapacity /\ QueuesOutliveJobs

-----------------------------------------------------------------------------
(* Entries not consumed, slots held and completions being posted on ring c:
   a command whose completion would not fit beside them must wait.         *)
Load(c) ==
  Dist(cq[c].head, cq[c].tail, CqSize[c]) + held[c] + Cardinality(Of(taking, c))
Full(c) == Load(c) + 1 >= CqSize[c]

(* The lock holder will not look at queue q again before the lock is free: a
   drain looks at none, a scan at those still to visit.                    *)
Behind(q) ==
  \/ pc = "free"
  \/ pc \in {"take", "post"} /\ poll
  \/ pc = "scan" /\ q \notin todo

(* A queue that lives has a ring to complete to; one with work is marked
   pending, and left behind only when that ring is full.                   *)
WorkMarked(q) ==
  /\ sq[q].live => en /\ cq[sq[q].cqid].live
  /\ HasWork(q) => q \in pending
  /\ HasWork(q) /\ shst = "none" /\ Behind(q) => Full(sq[q].cqid)

(* What NoStrandedWork needs besides Inductive to survive every step: READs
   and WRITEs wait to be taken only while the queues are scanned.          *)
WorkInvariant ==
  /\ Inductive
  /\ pc # "scan" => untaken = {}
  /\ \A q \in Q : WorkMarked(q)
-----------------------------------------------------------------------------
(* Entries of ring c the driver has not taken, how many it takes before entry
   i, and how far index h of queue q is past the head it last read.         *)
Unread(c) == IF cq[c].live THEN Unreaped(c) ELSE {}
Ahead(c, i) == Dist(gCqHead[c], i, CqSize[c])
Past(q, h) == Dist(gSqHead[q], h, SqSize[q])

(* Submission rings are read and written in order: the driver's last known
   head, the controller's, the tail it was told, the driver's tail.        *)
SqInOrder ==
  \A q \in Q : sq[q].live =>
    /\ Past(q, sq[q].head) <= Past(q, sq[q].tail)
    /\ Past(q, sq[q].tail) <= Past(q, gTail[q])

(* An unread entry came from the queue it names, which still completes to the
   ring it is in, if it lives; the heads a queue's entries carry go up.     *)
EntryKnown(c, i) ==
  LET e == cqMem[c][i]
  IN /\ e.cmd \in Cmd /\ (e.sqid = 0 <=> c = 0)
     /\ c = 0 => e.cmd \in AdminCmd
     /\ c # 0 => c \in gCq
     /\ sq[e.sqid].live =>
          /\ sq[e.sqid].cqid = c
          /\ Past(e.sqid, e.sqHead) <= Past(e.sqid, sq[e.sqid].head)
          /\ \A k \in Unread(c) :
               cqMem[c][k].sqid = e.sqid /\ Ahead(c, i) <= Ahead(c, k)
                 => Past(e.sqid, e.sqHead) <= Past(e.sqid, cqMem[c][k].sqHead)
EntriesKnown == \A c \in Q : \A i \in Unread(c) : EntryKnown(c, i)

(* What a successful admin completion reports stays so until it is taken. *)
Reports(i, op, q) == LET e == cqMem[0][i]
                     IN e.ok /\ e.cmd.op = op /\ e.cmd.q = q
ReportsTrue ==
  \A i \in Unread(0), q \in IoQ :
    /\ Reports(i, "createCq", q) => cq[q].live
    /\ Reports(i, "deleteCq", q) => ~cq[q].live
    /\ Reports(i, "deleteSq", q) => ~sq[q].live
    /\ Reports(i, "createSq", q) =>
         /\ sq[q].live /\ sq[q].cqid = cqMem[0][i].cmd.cq
         /\ \A k \in Unread(0) : Reports(k, "createCq", cqMem[0][i].cmd.cq)
                                   => Ahead(0, k) < Ahead(0, i)

(* The queues the driver uses are those it was told of. *)
DriverKnows ==
  /\ en => sq[0].live
  /\ ~en => /\ gSq = {} /\ gCq = {}
            /\ \A q \in Q : open[q] = {} /\ ~cq[q].live
  /\ \A q \in IoQ :
       /\ open[q] # {} => q \in gSq
       /\ q \in gSq /\ sq[q].live => sq[q].cqid \in gCq
       /\ cq[q].live => q \in gCq \/ \E i \in Unread(0) : Reports(i, "createCq", q)

(* One creation or deletion of a queue is outstanding at a time. *)
CqOps == {"createCq", "deleteCq"}
SqOps == {"createSq", "deleteSq"}
OneAtATime ==
  \A a \in open[0], b \in open[0] :
    a.q = b.q /\ ({a.op, b.op} \subseteq CqOps \/ {a.op, b.op} \subseteq SqOps) => a = b

(* A creation still in the ring is of a submission queue the driver does not
   use; when the deletion of a completion queue is there, the queues of its
   unread entries live, and are deleted after it.                          *)
CreationsWait ==
  \A a \in AdminCmd : a.op = "createSq" /\ Unfetched(0, a) # {} => a.q \notin gSq
DeletionsWait ==
  \A a \in AdminCmd : \A i \in Unfetched(0, a) :
    a.op = "deleteCq" /\ cq[a.q].live =>
      /\ \A k \in Unread(a.q) : sq[cqMem[a.q][k].sqid].live
      /\ \A b \in AdminCmd : \A k \in Unfetched(0, b) :
           /\ b.op = "deleteSq" /\ sq[b.q].live /\ sq[b.q].cqid = a.q
           /\ open[b.q] # {}
           => Dist(sq[0].head, i, SqSize[0]) < Dist(sq[0].head, k, SqSize[0])

(* Cardinalities of what AnsweredOnce counts mean something. *)
Counted == /\ IsFiniteSet(open[0])
           /\ \A q \in Q, cmd \in Cmd : IsFiniteSet(Completions(q, cmd))

(* A controller that is not enabled has no AER parked. *)
NoneParked == ~en => aer = 0

(* What AnsweredOnce needs besides WorkInvariant to survive every step. *)
ServiceInvariant ==
  /\ WorkInvariant
  /\ SqInOrder /\ EntriesKnown /\ ReportsTrue /\ DriverKnows
  /\ OneAtATime /\ CreationsWait /\ DeletionsWait
  /\ Counted /\ NoneParked /\ AnsweredOnce
=============================================================================
