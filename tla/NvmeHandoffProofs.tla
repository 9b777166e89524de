-------------------------- MODULE NvmeHandoffProofs --------------------------
(***************************************************************************)
(* Proofs about NvmeHandoff for any set of vCPUs and batches: a transfer   *)
(* is finished by one side, its completion is drained by somebody, and the *)
(* guest's RAM outlives it.                                                *)
(***************************************************************************)
EXTENDS NvmeHandoff, SequenceTheorems, TLAPS

(* A batch is in one vCPU's hands: the vCPU has it, its worker has it, or it
   lies in the inbox between them, once.                                   *)
Has(v) == ({mine[v], cur[v]} \cup ToSet(inbox[v])) \ {NoBatch}
Apart == \A v, w \in Vcpu : v # w => Has(v) \cap Has(w) = {}
Once(s) == \A i, j \in DOMAIN s : s[i] = s[j] => i = j
Holding == {"run", "inline", "spin", "check", "expired", "park", "parked", "hold"}
HandOK(v) ==
  /\ mine[v] # NoBatch <=> vpc[v] \in Holding
  /\ cur[v] # NoBatch <=> wpc[v] \in {"transfer", "finish", "notify", "hook"}
  /\ Once(inbox[v]) /\ cur[v] \notin ToSet(inbox[v])

(* What is not published is out, and what was sent is pending exactly while its
   vCPU waits for it.                                                      *)
Sent(v, b) == b \in ToSet(inbox[v]) \/ (b = cur[v] /\ wpc[v] \in {"transfer", "finish"})
PhaseOK(v) ==
  /\ vpc[v] \in {"run", "inline"} =>
       place[mine[v]] = "out" /\ mine[v] # cur[v] /\ mine[v] \notin ToSet(inbox[v])
  /\ vpc[v] = "hold" => place[mine[v]] # "out" /\ ~Sent(v, mine[v])
  /\ \A b \in ToSet(inbox[v]) : place[b] = "out"
  /\ wpc[v] = "transfer" => place[cur[v]] = "out"
  /\ wpc[v] = "finish" => place[cur[v]] # "out"
  /\ \A b \in Batch : Sent(v, b) =>
       phase[b] = (IF mine[v] = b THEN "pending" ELSE "detached")
  /\ wpc[v] = "notify" => phase[cur[v]] = "done"
  /\ wpc[v] = "hook" => mine[v] # cur[v]
  /\ Waiting(v) =>
       \/ Phase(v) = "pending" /\ Sent(v, mine[v])
       \/ Phase(v) = "done" /\ place[mine[v]] # "out"
  /\ vpc[v] \in {"park", "parked"} /\ Phase(v) # "pending" =>
       wpc[v] = "notify" /\ cur[v] = mine[v]

(* Who is gone has no thread left, and nothing is sent to a worker that ended. *)
ThreadOK(v) ==
  /\ ~owner[v] => vpc[v] \in {"ended", "drop", "gone"}
  /\ wpc[v] = "ended" => ~owner[v] /\ inbox[v] = <<>>
  /\ started[v] # "yes" => inbox[v] = <<>> /\ wpc[v] = "idle"
TeardownOK ==
  /\ vpc[Primary] \in {"reset", "wipe", "drop", "gone"} =>
       \A v \in Secondaries : Joined(v)
  /\ vpc[Primary] = "wipe" => inbox[Primary] = <<>> /\ wpc[Primary] # "transfer"
  /\ vpc[Primary] = "gone" /\ started[Primary] = "yes" => wpc[Primary] = "ended"

EachOK == \A v \in Vcpu : HandOK(v) /\ PhaseOK(v) /\ ThreadOK(v)
HandoffInv == TypeOK /\ Apart /\ EachOK /\ TeardownOK /\ NoLostCompletion

-----------------------------------------------------------------------------
(* The inbox and the drain *)

(* A batch more at the end of an inbox. *)
LEMMA Appended ==
  ASSUME NEW S, NEW s \in Seq(S), NEW b \in S
  PROVE  /\ Append(s, b) \in Seq(S)
         /\ ToSet(Append(s, b)) = ToSet(s) \cup {b}
         /\ Once(s) /\ b \notin ToSet(s) => Once(Append(s, b))
<1>1. /\ Append(s, b) \in Seq(S) /\ Len(s) \in Nat
      /\ DOMAIN s = 1 .. Len(s) /\ DOMAIN Append(s, b) = 1 .. Len(s) + 1
  OBVIOUS
<1>2. /\ \A i \in 1 .. Len(s) : Append(s, b)[i] = s[i]
      /\ Append(s, b)[Len(s) + 1] = b
  OBVIOUS
<1>3. ToSet(Append(s, b)) = ToSet(s) \cup {b}
  BY <1>1, <1>2 DEF ToSet
<1>4. Once(s) /\ b \notin ToSet(s) => Once(Append(s, b))
  BY <1>1, <1>2 DEF ToSet, Once
<1> QED
  BY <1>1, <1>3, <1>4

(* The first batch taken out of an inbox. *)
LEMMA Taken ==
  ASSUME NEW S, NEW s \in Seq(S), s # <<>>
  PROVE  /\ Head(s) \in S /\ Tail(s) \in Seq(S)
         /\ ToSet(s) = ToSet(Tail(s)) \cup {Head(s)}
         /\ Once(s) => Once(Tail(s)) /\ Head(s) \notin ToSet(Tail(s))
<1>1. /\ Head(s) \in S /\ Tail(s) \in Seq(S) /\ Len(s) \in Nat \ {0}
      /\ DOMAIN s = 1 .. Len(s) /\ DOMAIN Tail(s) = 1 .. Len(s) - 1
  BY HeadTailProperties, EmptySeq, LenProperties
<1>2. Head(s) = s[1] /\ \A i \in 1 .. Len(s) - 1 : Tail(s)[i] = s[i + 1]
  BY HeadTailProperties, <1>1
<1>3. \A i \in 1 .. Len(s) : i = 1 \/ (i - 1 \in 1 .. Len(s) - 1 /\ s[i] = Tail(s)[i - 1])
  BY <1>1, <1>2
<1>4. ToSet(s) = ToSet(Tail(s)) \cup {Head(s)}
  <2>1. ToSet(s) \subseteq ToSet(Tail(s)) \cup {Head(s)}
    <3>1. ASSUME NEW i \in 1 .. Len(s)
          PROVE  s[i] \in ToSet(Tail(s)) \cup {Head(s)}
      BY <1>1, <1>2, <1>3, <3>1 DEF ToSet
    <3> QED
      BY <1>1, <3>1 DEF ToSet
  <2>2. ToSet(Tail(s)) \cup {Head(s)} \subseteq ToSet(s)
    BY <1>1, <1>2 DEF ToSet
  <2> QED
    BY <2>1, <2>2
<1>5. ASSUME Once(s)
      PROVE  Once(Tail(s)) /\ Head(s) \notin ToSet(Tail(s))
  <2>1. Once(Tail(s))
    BY <1>1, <1>2, <1>5 DEF Once
  <2>2. Head(s) \notin ToSet(Tail(s))
    BY <1>1, <1>2, <1>5 DEF Once, ToSet
  <2> QED
    BY <2>1, <2>2
<1> QED
  BY <1>1, <1>4, <1>5

(* Nothing is in an empty inbox, and only batches are in any. *)
LEMMA Inboxes ==
  /\ ToSet(<<>>) = {} /\ Once(<<>>)
  /\ \A s \in Seq(Batch) : ToSet(s) \subseteq Batch /\ (ToSet(s) = {} => s = <<>>)
<1>1. ToSet(<<>>) = {} /\ Once(<<>>)
  BY DEF ToSet, Once
<1>2. ASSUME NEW s \in Seq(Batch)
      PROVE  ToSet(s) \subseteq Batch /\ (ToSet(s) = {} => s = <<>>)
  BY <1>2, LenProperties, EmptySeq, Taken DEF ToSet
<1> QED
  BY <1>1, <1>2

(* A drain leaves nothing published, and what is out stays out. *)
LEMMA Drain ==
  ASSUME place \in [Batch -> {"free", "out", "data", "done", "sync"}]
  PROVE  /\ Drained(place) \in [Batch -> {"free", "out", "sync"}]
         /\ \A b \in Batch : Drained(place)[b] = "out" <=> place[b] = "out"
<1>1. ASSUME NEW b \in Batch
      PROVE  /\ Drained(place)[b] \in {"free", "out", "sync"}
             /\ Drained(place)[b] = "out" <=> place[b] = "out"
  <2>1. CASE place[b] = "data"
    BY <2>1 DEF Drained
  <2>2. CASE place[b] = "done"
    BY <2>2 DEF Drained
  <2>3. CASE place[b] \in {"free", "out", "sync"}
    BY <2>3 DEF Drained
  <2> QED
    BY <2>1, <2>2, <2>3
<1>2. Drained(place) = [b \in Batch |-> Drained(place)[b]]
  BY DEF Drained
<1> QED
  BY <1>1, <1>2

-----------------------------------------------------------------------------
(* One vCPU at a time *)

(* All that one vCPU's thread and its worker may do. *)
ByVcpu(v) ==
  \/ VcpuStep(v) \/ GuestStep(v) \/ WorkerStep(v) \/ SecondaryFails(v)
  \/ (v = Primary /\ Stop)

(* They leave the other vCPUs alone ... *)
LEMMA Alone ==
  ASSUME TypeOK, NEW v \in Vcpu, ByVcpu(v), NEW w \in Vcpu, w # v
  PROVE  /\ vpc'[w] = vpc[w] /\ mine'[w] = mine[w] /\ started'[w] = started[w]
         /\ owner'[w] = owner[w]
         /\ wpc'[w] = wpc[w] /\ cur'[w] = cur[w] /\ inbox'[w] = inbox[w]
<1>1. CASE VcpuStep(v)
  BY <1>1 DEF VcpuStep, PreRun, Enter, Cancel, WaitRound, Send, RunInline, SecondHold, Spin,
     Check, Expire, GiveUp, Park, TimeOut, SecondaryStops, Go, TypeOK, vcpu, worker
<1>2. CASE GuestStep(v)
  BY <1>2 DEF GuestStep, OtherExit, Doorbell, WaitDoorbell, IoDoorbell, Go, TypeOK, vcpu, worker
<1>3. CASE WorkerStep(v)
  BY <1>3 DEF WorkerStep, Receive, Transfer, Finish, Notify, Hook, WorkerEnds, Idle, Go,
     TypeOK, vcpu, worker
<1>4. CASE SecondaryFails(v) \/ (v = Primary /\ Stop)
  BY <1>4 DEF SecondaryFails, Stop, DropTaken, Go, TypeOK, vcpu, worker
<1> QED
  BY <1>1, <1>2, <1>3, <1>4 DEF ByVcpu

(* ... and the batches in other hands. *)
LEMMA Elsewhere ==
  ASSUME TypeOK, NEW v \in Vcpu, HandOK(v), ByVcpu(v),
         NEW w \in Vcpu, NEW b \in Has(w), b \in Batch, b \notin Has(v)
  PROVE  phase'[b] = phase[b] /\ (place'[b] = "out" <=> place[b] = "out")
<1>1. ~Unused(b) /\ b # mine[v] /\ b # cur[v]
  BY DEF Unused, Has, ToSet
<1>2. CASE VcpuStep(v)
  BY <1>1, <1>2, Drain DEF VcpuStep, PreRun, Enter, Cancel, WaitRound, Send, RunInline,
     SecondHold, Spin, Check, Expire, GiveUp, Park, TimeOut, SecondaryStops, Published,
     TypeOK, worker
<1>3. CASE GuestStep(v)
  BY <1>1, <1>3, Drain DEF GuestStep, OtherExit, Doorbell, WaitDoorbell, IoDoorbell,
     TypeOK, worker
<1>4. CASE WorkerStep(v)
  BY <1>1, <1>4 DEF WorkerStep, Receive, Transfer, Finish, Notify, Hook, WorkerEnds,
     Published, TypeOK
<1>5. CASE SecondaryFails(v) \/ (v = Primary /\ Stop)
  BY <1>1, <1>5 DEF SecondaryFails, Stop, DropTaken, TypeOK, worker
<1> QED
  BY <1>2, <1>3, <1>4, <1>5 DEF ByVcpu

(* What a vCPU takes is unused; all else it has it had. *)
LEMMA Takes ==
  ASSUME TypeOK, NEW v \in Vcpu, HandOK(v), ByVcpu(v), NEW b \in Has(v)'
  PROVE  b \in Has(v) \/ Unused(b)
<1>1. CASE VcpuStep(v)
  <2>1. CASE Send(v)
    <3>1. mine[v] \in Batch
      BY <2>1 DEF Send, HandOK, Holding, TypeOK
    <3>2. inbox'[v] = inbox[v] \/ inbox'[v] = Append(inbox[v], mine[v])
      BY <2>1 DEF Send, TypeOK
    <3>3. ToSet(inbox'[v]) \subseteq ToSet(inbox[v]) \cup {mine[v]}
      <4>1. ToSet(Append(inbox[v], mine[v])) = ToSet(inbox[v]) \cup {mine[v]}
        BY <3>1, Appended DEF TypeOK
      <4> QED
        BY <3>2, <4>1
    <3> QED
      BY <2>1, <3>3 DEF Send, Has
  <2>2. CASE ~Send(v)
    BY <1>1, <2>2 DEF VcpuStep, PreRun, Enter, Cancel, WaitRound, RunInline, SecondHold,
       Spin, Check, Expire, GiveUp, Park, TimeOut, SecondaryStops, Has, TypeOK, vcpu, worker
  <2> QED
    BY <2>1, <2>2
<1>2. CASE GuestStep(v)
  BY <1>2 DEF GuestStep, OtherExit, Doorbell, WaitDoorbell, IoDoorbell, Has, TypeOK, vcpu, worker
<1>3. CASE WorkerStep(v)
  <2>1. CASE Receive(v)
    BY <2>1, Taken DEF Receive, Has, TypeOK, vcpu
  <2>2. CASE ~Receive(v)
    BY <1>3, <2>2 DEF WorkerStep, Transfer, Finish, Notify, Hook, WorkerEnds, Idle,
       Has, TypeOK, vcpu
  <2> QED
    BY <2>1, <2>2
<1>4. CASE SecondaryFails(v) \/ (v = Primary /\ Stop)
  BY <1>4 DEF SecondaryFails, Stop, DropTaken, Has, TypeOK, vcpu, worker
<1> QED
  BY <1>1, <1>2, <1>3, <1>4 DEF ByVcpu

(* So no two have the same batch. *)
LEMMA ApartStep ==
  ASSUME TypeOK, Apart, NEW v \in Vcpu, HandOK(v), ByVcpu(v)
  PROVE  Apart'
<1>1. ASSUME NEW w \in Vcpu, w # v
      PROVE  Has(w)' = Has(w) /\ Has(v)' \cap Has(w) = {}
  <2>1. Has(w)' = Has(w)
    BY <1>1, Alone DEF Has
  <2>2. ASSUME NEW b \in Has(w)
        PROVE  b \notin Has(v) /\ ~Unused(b)
    BY <1>1, <2>2 DEF Apart, Unused, Has
  <2> QED
    BY <2>1, <2>2, Takes
<1> QED
  BY <1>1 DEF Apart

(* And what is right of the other vCPUs stays right. *)
LEMMA OthersKept ==
  ASSUME TypeOK, Apart, NEW v \in Vcpu, HandOK(v), ByVcpu(v),
         NEW w \in Vcpu, w # v, HandOK(w), PhaseOK(w), ThreadOK(w)
  PROVE  HandOK(w)' /\ PhaseOK(w)' /\ ThreadOK(w)'
<1>1. HandOK(w)' /\ ThreadOK(w)'
  BY Alone DEF HandOK, ThreadOK
<1>2. ASSUME NEW b \in Batch, b \in {mine[w], cur[w]} \cup ToSet(inbox[w])
      PROVE  phase'[b] = phase[b] /\ (place'[b] = "out" <=> place[b] = "out")
  <2>1. b \in Has(w) /\ b \notin Has(v)
    BY <1>2, Batches DEF Has, Apart
  <2> QED
    BY <2>1, Elsewhere
<1>3. /\ vpc[w] \in Holding => mine[w] \in Batch
      /\ wpc[w] \in {"transfer", "finish", "notify", "hook"} => cur[w] \in Batch
      /\ ToSet(inbox[w]) \subseteq Batch
  BY Inboxes DEF TypeOK, HandOK
<1>4. \A b \in Batch : Sent(w, b)' <=> Sent(w, b)
  BY Alone DEF Sent
<1>5. (Waiting(w) <=> Waiting(w)') /\ (Waiting(w) => vpc[w] \in Holding)
  BY Alone DEF Waiting, Locked, Holding
<1> QED
  BY <1>1, <1>2, <1>3, <1>4, <1>5, Alone DEF PhaseOK, Phase, Holding, Sent

-----------------------------------------------------------------------------
(* The vCPU that moves *)

(* Its steps in its loop, before it takes a batch and after it has none.   *)
LEMMA RunLoopStep ==
  ASSUME TypeOK, NEW v \in Vcpu, HandOK(v), PhaseOK(v),
         \/ PreRun(v) \/ Enter(v) \/ Cancel(v) \/ WaitRound(v) \/ SecondaryStops(v)
         \/ OtherExit(v) \/ Doorbell(v) \/ WaitDoorbell(v)
         \/ SecondaryFails(v) \/ (v = Primary /\ Stop)
  PROVE  HandOK(v)' /\ PhaseOK(v)'
<1>1. CASE PreRun(v) \/ WaitRound(v) \/ Doorbell(v)
  BY <1>1, Drain, Inboxes, Batches DEF PreRun, WaitRound, Doorbell, Go, TypeOK, HandOK, PhaseOK,
     Sent, Holding, Waiting, Locked, Phase, Unused, worker
<1>2. CASE Enter(v) \/ Cancel(v) \/ SecondaryStops(v) \/ OtherExit(v) \/ WaitDoorbell(v)
  BY <1>2, Batches DEF Enter, Cancel, SecondaryStops, OtherExit, WaitDoorbell, Go, TypeOK,
     HandOK, PhaseOK, Sent, Holding, Waiting, Locked, Phase, worker
<1>3. CASE SecondaryFails(v) \/ (v = Primary /\ Stop)
  BY <1>3, Inboxes, Batches DEF SecondaryFails, Stop, DropTaken, Go, TypeOK, HandOK, PhaseOK, Sent,
     Holding, Waiting, Locked, Phase, worker
<1> QED
  BY <1>1, <1>2, <1>3

(* It takes a batch, runs it itself and posts it. *)
LEMMA InlineStep ==
  ASSUME TypeOK, NEW v \in Vcpu, HandOK(v), PhaseOK(v),
         \/ (\E b \in Batch : IoDoorbell(v, b)) \/ RunInline(v) \/ SecondHold(v)
  PROVE  HandOK(v)' /\ PhaseOK(v)'
<1>1. ASSUME NEW b \in Batch, IoDoorbell(v, b)
      PROVE  HandOK(v)' /\ PhaseOK(v)'
  BY <1>1, Drain, Inboxes, Batches DEF IoDoorbell, Go, TypeOK, HandOK, PhaseOK, Sent, Holding,
     Waiting, Locked, Phase, Unused, worker
<1>2. CASE RunInline(v)
  BY <1>2, Inboxes, Batches DEF RunInline, Published, Go, TypeOK, HandOK, PhaseOK, Sent, Holding,
     Waiting, Locked, Phase, worker
<1>3. CASE SecondHold(v)
  BY <1>3, Drain, Inboxes, Batches DEF SecondHold, Go, TypeOK, HandOK, PhaseOK, Sent, Holding,
     Waiting, Locked, Phase, worker
<1> QED
  BY <1>1, <1>2, <1>3

(* It hands the batch to its worker and waits. *)
LEMMA SendStep ==
  ASSUME TypeOK, NEW v \in Vcpu, HandOK(v), PhaseOK(v), Send(v)
  PROVE  HandOK(v)' /\ PhaseOK(v)'
<1>1. /\ vpc[v] = "run" /\ mine[v] \in Batch /\ mine[v] # cur[v]
      /\ mine[v] \notin ToSet(inbox[v]) /\ inbox[v] \in Seq(Batch)
  BY DEF Send, HandOK, PhaseOK, Holding, TypeOK
<1>2. CASE Go(v, "inline") /\ UNCHANGED <<inbox, phase>>
  BY <1>1, <1>2, Batches DEF Send, Go, TypeOK, HandOK, PhaseOK, Sent, Holding, Waiting, Locked,
     Phase
<1>3. CASE /\ Go(v, "spin") /\ inbox' = [inbox EXCEPT ![v] = Append(@, mine[v])]
           /\ phase' = [phase EXCEPT ![mine[v]] = "pending"]
  <2>1. /\ ToSet(inbox'[v]) = ToSet(inbox[v]) \cup {mine[v]} /\ Once(inbox'[v])
    BY <1>1, <1>3, Appended DEF TypeOK, HandOK
  <2> QED
    BY <1>1, <1>3, <2>1, Inboxes, Batches DEF Send, Go, TypeOK, HandOK, PhaseOK, Sent, Holding,
       Waiting, Locked, Phase
<1> QED
  BY <1>2, <1>3 DEF Send

(* The wait ends because the batch is done or the deadline is over. *)
LEMMA WaitStep ==
  ASSUME TypeOK, NEW v \in Vcpu, HandOK(v), PhaseOK(v),
         Spin(v) \/ Check(v) \/ Expire(v) \/ GiveUp(v) \/ Park(v) \/ TimeOut(v)
  PROVE  HandOK(v)' /\ PhaseOK(v)'
<1>1. CASE Spin(v) \/ Check(v) \/ Expire(v) \/ Park(v) \/ TimeOut(v)
  BY <1>1, Inboxes, Batches DEF Spin, Check, Expire, Park, TimeOut, Go, TypeOK, HandOK, PhaseOK,
     Sent, Holding, Waiting, Locked, Phase, worker
<1>2. CASE GiveUp(v)
  BY <1>2, Inboxes, Batches DEF GiveUp, Go, TypeOK, HandOK, PhaseOK, Sent, Holding, Waiting, Locked,
     Phase
<1> QED
  BY <1>1, <1>2

(* Its worker takes the batch, publishes it and finishes the handoff. *)
LEMMA WorkStep ==
  ASSUME TypeOK, NEW v \in Vcpu, HandOK(v), PhaseOK(v), WorkerStep(v)
  PROVE  HandOK(v)' /\ PhaseOK(v)'
<1>1. CASE Receive(v)
  <2>1. /\ Head(inbox[v]) \in Batch /\ cur'[v] = Head(inbox[v])
        /\ ToSet(inbox[v]) = ToSet(inbox'[v]) \cup {cur'[v]}
        /\ Once(inbox'[v]) /\ cur'[v] \notin ToSet(inbox'[v])
    BY <1>1, Taken DEF Receive, TypeOK, HandOK
  <2>2. wpc[v] = "idle" /\ wpc'[v] = "transfer" /\ UNCHANGED <<vpc, mine, place, phase>>
    BY <1>1 DEF Receive, TypeOK, vcpu
  <2>3. \A b \in Batch : Sent(v, b)' <=> Sent(v, b)
    BY <2>1, <2>2 DEF Sent
  <2> QED
    BY <2>1, <2>2, <2>3, Inboxes, Batches DEF TypeOK, HandOK, PhaseOK, Sent, Holding, Waiting,
       Locked, Phase
<1>2. CASE Transfer(v)
  BY <1>2, Inboxes, Batches DEF Transfer, Published, TypeOK, HandOK, PhaseOK, Sent, Holding,
     Waiting, Locked, Phase, vcpu
<1>3. CASE Finish(v)
  BY <1>3, Inboxes, Batches DEF Finish, TypeOK, HandOK, PhaseOK, Sent, Holding, Waiting, Locked,
     Phase, vcpu
<1>4. CASE Notify(v) \/ Hook(v) \/ WorkerEnds(v)
  BY <1>4, Inboxes, Batches DEF Notify, Hook, WorkerEnds, Idle, Go, TypeOK, HandOK, PhaseOK, Sent,
     Holding, Waiting, Locked, Phase, vcpu
<1> QED
  BY <1>1, <1>2, <1>3, <1>4 DEF WorkerStep

(* Its threads come and go as they should. *)
LEMMA ThreadStep ==
  ASSUME TypeOK, NEW v \in Vcpu, HandOK(v), ThreadOK(v), ByVcpu(v)
  PROVE  ThreadOK(v)'
<1>1. CASE VcpuStep(v)
  <2>1. CASE Send(v)
    BY <2>1 DEF Send, Go, ThreadOK, TypeOK
  <2>2. CASE SecondaryStops(v)
    BY <2>2 DEF SecondaryStops, Go, ThreadOK, TypeOK, worker
  <2>3. CASE ~Send(v) /\ ~SecondaryStops(v)
    BY <1>1, <2>3 DEF VcpuStep, PreRun, Enter, Cancel, WaitRound, RunInline, SecondHold,
       Spin, Check, Expire, GiveUp, Park, TimeOut, Go, ThreadOK, TypeOK, vcpu, worker
  <2> QED
    BY <2>1, <2>2, <2>3
<1>2. CASE GuestStep(v)
  BY <1>2 DEF GuestStep, OtherExit, Doorbell, WaitDoorbell, IoDoorbell, Go, ThreadOK, TypeOK,
     vcpu, worker
<1>3. CASE WorkerStep(v)
  BY <1>3, EmptySeq DEF WorkerStep, Receive, Transfer, Finish, Notify, Hook, WorkerEnds, Idle, Go,
     ThreadOK, TypeOK, vcpu
<1>4. CASE SecondaryFails(v) \/ (v = Primary /\ Stop)
  BY <1>4 DEF SecondaryFails, Stop, Go, ThreadOK, TypeOK, worker
<1> QED
  BY <1>1, <1>2, <1>3, <1>4 DEF ByVcpu

(* So a step of one vCPU keeps every vCPU right. *)
LEMMA EachStep ==
  ASSUME TypeOK, Apart, EachOK, NEW v \in Vcpu, ByVcpu(v)
  PROVE  EachOK'
<1>1. HandOK(v) /\ PhaseOK(v) /\ ThreadOK(v)
  BY DEF EachOK
<1>2. HandOK(v)' /\ PhaseOK(v)'
  BY <1>1, RunLoopStep, InlineStep, SendStep, WaitStep, WorkStep DEF ByVcpu, VcpuStep, GuestStep
<1>3. ThreadOK(v)'
  BY <1>1, ThreadStep
<1>4. ASSUME NEW w \in Vcpu, w # v
      PROVE  HandOK(w)' /\ PhaseOK(w)' /\ ThreadOK(w)'
  BY <1>1, <1>4, OthersKept DEF EachOK
<1> QED
  BY <1>2, <1>3, <1>4 DEF EachOK

(* The end of the machine and its next start, too: when vCPU 0 wipes the RAM the
   others are joined, so that they have nothing.                           *)
LEMMA TeardownEach ==
  ASSUME TypeOK, Apart, EachOK, TeardownOK, Teardown
  PROVE  EachOK' /\ Apart'
<1>1. CASE JoinSecondaries \/ UnmapRam
  <2>1. UNCHANGED <<mine, cur, inbox, wpc, phase, place, started>>
    BY <1>1 DEF JoinSecondaries, UnmapRam, worker
  <2>2. ASSUME NEW v \in Vcpu
        PROVE  \/ vpc'[v] = vpc[v] /\ owner'[v] = owner[v]
               \/ /\ vpc[v] \in {"join", "drop"}
                  /\ vpc'[v] \in {"reset", "drop", "gone"}
                  /\ owner'[v] \/ vpc'[v] \in {"drop", "gone"}
                  /\ owner'[v] => owner[v]
    <3>1. ThreadOK(v)
      BY <2>2 DEF EachOK
    <3>2. CASE v = Primary
      BY <1>1, <3>1, <3>2 DEF JoinSecondaries, UnmapRam, Go, TypeOK, ThreadOK
    <3>3. CASE v # Primary
      BY <1>1, <3>3 DEF JoinSecondaries, UnmapRam, Go, TypeOK
    <3> QED
      BY <3>2, <3>3
  <2>3. ASSUME NEW v \in Vcpu
        PROVE  HandOK(v)' /\ PhaseOK(v)' /\ ThreadOK(v)'
    <3>1. HandOK(v) /\ PhaseOK(v) /\ ThreadOK(v)
      BY <2>3 DEF EachOK
    <3>2. CASE vpc'[v] = vpc[v] /\ owner'[v] = owner[v]
      BY <2>1, <3>1, <3>2 DEF HandOK, PhaseOK, ThreadOK, Sent, Waiting, Locked, Phase
    <3>3. CASE /\ vpc[v] \in {"join", "drop"}
               /\ vpc'[v] \in {"reset", "drop", "gone"}
               /\ owner'[v] \/ vpc'[v] \in {"drop", "gone"}
               /\ owner'[v] => owner[v]
      <4>1. HandOK(v)' /\ ThreadOK(v)'
        BY <2>1, <3>1, <3>3 DEF HandOK, ThreadOK, Holding
      <4>2. PhaseOK(v)'
        BY <2>1, <3>1, <3>3 DEF PhaseOK, Sent, Waiting, Locked, Phase
      <4> QED
        BY <4>1, <4>2
    <3> QED
      BY <2>2, <2>3, <3>2, <3>3
  <2> QED
    BY <2>1, <2>3 DEF EachOK, Apart, Has
<1>2. CASE ResetPlatform
  <2>1. UNCHANGED <<mine, cur, inbox, wpc, phase, started, owner>>
    BY <1>2 DEF ResetPlatform, worker
  <2>2. \A b \in Batch : place[b] # "out" /\ place'[b] = "free"
    BY <1>2 DEF ResetPlatform, Unpublished
  <2>3. ASSUME NEW v \in Vcpu
        PROVE  \/ vpc'[v] = vpc[v]
               \/ vpc[v] = "reset" /\ vpc'[v] = "wipe"
    BY <1>2, <2>3 DEF ResetPlatform, Go, TypeOK
  <2>4. ASSUME NEW v \in Vcpu
        PROVE  HandOK(v)' /\ PhaseOK(v)' /\ ThreadOK(v)'
    BY <2>1, <2>2, <2>3, <2>4, Inboxes, Batches DEF TypeOK, EachOK, HandOK, PhaseOK, ThreadOK, Sent,
       Holding, Waiting, Locked, Phase
  <2> QED
    BY <2>1, <2>4 DEF EachOK, Apart, Has
<1>3. CASE WipeRam
  <2>1. UNCHANGED <<mine, cur, inbox, phase, place>> /\ \A v \in Vcpu : vpc'[v] = "top" /\ owner'[v]
    BY <1>3 DEF WipeRam
  <2>2. ASSUME NEW v \in Vcpu
        PROVE  HandOK(v)' /\ PhaseOK(v)' /\ ThreadOK(v)'
    <3>1. CASE v = Primary
      <4>1. wpc'[v] = wpc[v] /\ started'[v] = started[v] /\ mine[v] = NoBatch /\ wpc[v] # "ended"
        BY <1>3, <3>1 DEF WipeRam, EachOK, HandOK, ThreadOK, Holding
      <4> QED
        BY <2>1, <2>2, <4>1, Inboxes, Batches DEF TypeOK, EachOK, HandOK, PhaseOK, ThreadOK, Sent,
           Holding, Waiting, Locked, Phase
    <3>2. CASE v # Primary
      <4>1. /\ wpc'[v] = "idle" /\ inbox[v] = <<>>
            /\ mine[v] = NoBatch /\ cur[v] = NoBatch
        BY <1>3, <3>2 DEF WipeRam, TeardownOK, Joined, Vcpu, EachOK, HandOK, ThreadOK, Holding
      <4> QED
        BY <2>1, <2>2, <4>1, Inboxes, Batches DEF TypeOK, EachOK, HandOK, PhaseOK, ThreadOK, Sent,
           Holding, Waiting, Locked, Phase
    <3> QED
      BY <3>1, <3>2
  <2> QED
    BY <2>1, <2>2 DEF EachOK, Apart, Has
<1> QED
  BY <1>1, <1>2, <1>3 DEF Teardown

(* The flush worker takes nothing out of another's hands. *)
LEMMA SyncEach ==
  ASSUME TypeOK, Apart, EachOK, Sync \/ SyncHook
  PROVE  EachOK' /\ Apart'
<1>1. UNCHANGED <<vpc, mine, started, owner, wpc, cur, inbox, phase>>
  BY DEF Sync, SyncHook, vcpu, worker
<1>2. \A b \in Batch : place'[b] = "out" <=> place[b] = "out"
  BY DEF Sync, SyncHook
<1>3. ASSUME NEW v \in Vcpu
      PROVE  HandOK(v)' /\ PhaseOK(v)' /\ ThreadOK(v)'
  BY <1>1, <1>2, <1>3, Inboxes, Batches DEF TypeOK, EachOK, HandOK, PhaseOK, ThreadOK, Sent,
     Holding, Waiting, Locked, Phase
<1> QED
  BY <1>1, <1>3 DEF EachOK, Apart, Has

-----------------------------------------------------------------------------
(* The end of the machine *)

(* A joined vCPU and its worker do nothing more. *)
LEMMA JoinedIsOver ==
  ASSUME TypeOK, EachOK, NEW v \in Vcpu, v # Primary, Joined(v)
  PROVE  ~ByVcpu(v)
<1>1. /\ vpc[v] = "ended"
      /\ \/ wpc[v] = "ended"
         \/ wpc[v] = "idle" /\ inbox[v] = <<>> /\ started[v] # "yes"
  BY DEF Joined, EachOK, ThreadOK
<1>2. ~VcpuStep(v)
  BY <1>1 DEF VcpuStep, PreRun, Enter, Cancel, WaitRound, Send, RunInline, SecondHold, Spin,
     Check, Expire, GiveUp, Park, TimeOut, SecondaryStops
<1>3. ~GuestStep(v) /\ ~SecondaryFails(v)
  BY <1>1 DEF GuestStep, OtherExit, Doorbell, WaitDoorbell, IoDoorbell, SecondaryFails
<1>4. ~WorkerStep(v)
  BY <1>1 DEF WorkerStep, Receive, Transfer, Finish, Notify, Hook, WorkerEnds
<1> QED
  BY <1>2, <1>3, <1>4 DEF ByVcpu

(* Only the teardown itself gets vCPU 0 past the joins, and there its thread
   waits for nothing but the teardown.                                     *)
LEMMA PastTheJoins ==
  ASSUME TypeOK, ByVcpu(Primary), vpc'[Primary] \in {"reset", "wipe", "drop", "gone"}
  PROVE  vpc'[Primary] = vpc[Primary] /\ WorkerStep(Primary)
<1>1. Primary \in Vcpu
  BY DEF Vcpu
<1>2. ~VcpuStep(Primary)
  BY <1>1 DEF VcpuStep, PreRun, Enter, Cancel, WaitRound, Send, RunInline, SecondHold, Spin,
     Check, Expire, GiveUp, Park, TimeOut, SecondaryStops, Go, TypeOK
<1>3. ~GuestStep(Primary) /\ ~SecondaryFails(Primary) /\ ~Stop
  BY <1>1 DEF GuestStep, OtherExit, Doorbell, WaitDoorbell, IoDoorbell, SecondaryFails, Stop,
     Go, TypeOK
<1>4. WorkerStep(Primary)
  BY <1>2, <1>3 DEF ByVcpu
<1> QED
  BY <1>1, <1>4 DEF WorkerStep, Receive, Transfer, Finish, Notify, Hook, WorkerEnds, Go, TypeOK,
     vcpu

(* Every step keeps the teardown right: what is not joined yet keeps vCPU 0 from
   going on, and what is joined does not come back.                        *)
LEMMA TeardownStep ==
  ASSUME TypeOK, EachOK, TeardownOK, [Next]_vars
  PROVE  TeardownOK'
<1>1. Primary \in Vcpu /\ Secondaries \subseteq Vcpu /\ \A v \in Secondaries : v # Primary
  BY Vcpus DEF Vcpu
<1>2. ASSUME NEW v \in Vcpu, ByVcpu(v), v # Primary
      PROVE  TeardownOK'
  <2>1. vpc[Primary] \notin {"reset", "wipe", "drop", "gone"}
    BY <1>2, JoinedIsOver DEF TeardownOK, Vcpu
  <2>2. vpc'[Primary] = vpc[Primary]
    BY <1>1, <1>2, Alone
  <2> QED
    BY <2>1, <2>2 DEF TeardownOK
<1>3. ASSUME ByVcpu(Primary)
      PROVE  TeardownOK'
  <2>1. CASE vpc'[Primary] \notin {"reset", "wipe", "drop", "gone"}
    BY <2>1 DEF TeardownOK
  <2>2. CASE vpc'[Primary] \in {"reset", "wipe", "drop", "gone"}
    <3>1. vpc'[Primary] = vpc[Primary] /\ WorkerStep(Primary)
      BY <1>3, <2>2, PastTheJoins
    <3>2. \A v \in Secondaries : Joined(v)'
      BY <1>1, <1>3, <2>2, <3>1, Alone DEF TeardownOK, Joined
    <3>3. inbox[Primary] = <<>> /\ wpc[Primary] # "transfer" =>
            inbox'[Primary] = <<>> /\ wpc'[Primary] # "transfer"
      BY <1>1, <3>1 DEF WorkerStep, Receive, Transfer, Finish, Notify, Hook, WorkerEnds, Idle,
         TypeOK
    <3>4. started'[Primary] = started[Primary] /\ wpc[Primary] # "ended"
      BY <1>1, <3>1 DEF WorkerStep, Receive, Transfer, Finish, Notify, Hook, WorkerEnds,
         TypeOK, vcpu
    <3> QED
      BY <3>1, <3>2, <3>3, <3>4 DEF TeardownOK
  <2> QED
    BY <2>1, <2>2
<1>4. CASE JoinSecondaries
  BY <1>1, <1>4 DEF JoinSecondaries, Go, Joined, TeardownOK, TypeOK, worker
<1>5. CASE ResetPlatform
  <2>1. inbox[Primary] = <<>> /\ wpc[Primary] # "transfer"
    <3>1. \A b \in Batch : place[b] # "out"
      BY <1>5 DEF ResetPlatform, Unpublished
    <3>2. wpc[Primary] # "transfer"
      BY <1>1, <3>1 DEF EachOK, HandOK, PhaseOK, TypeOK
    <3>3. ToSet(inbox[Primary]) = {}
      BY <1>1, <3>1, Inboxes DEF EachOK, PhaseOK, TypeOK
    <3> QED
      BY <1>1, <3>2, <3>3, Inboxes DEF TypeOK
  <2> QED
    BY <1>1, <1>5, <2>1 DEF ResetPlatform, Go, Joined, TeardownOK, TypeOK, worker
<1>6. CASE WipeRam
  BY <1>1, <1>6 DEF WipeRam, TeardownOK
<1>7. CASE UnmapRam
  BY <1>1, <1>7 DEF UnmapRam, Go, Joined, TeardownOK, TypeOK, worker
<1>8. CASE Sync \/ SyncHook \/ UNCHANGED vars
  BY <1>8 DEF Sync, SyncHook, vars, vcpu, worker, TeardownOK, Joined
<1> QED
  BY <1>1, <1>2, <1>3, <1>4, <1>5, <1>6, <1>7, <1>8 DEF Next, Teardown, ByVcpu

-----------------------------------------------------------------------------
(* The values of the variables *)

(* The flags are flags. *)
LEMMA FlagsStep ==
  ASSUME TypeOK, [Next]_vars
  PROVE  {exit, gate, failed, shutdown}' \subseteq BOOLEAN
<1>1. exit \in BOOLEAN /\ gate \in BOOLEAN /\ failed \in BOOLEAN /\ shutdown \in BOOLEAN
  BY DEF TypeOK
<1>2. exit' \in BOOLEAN /\ gate' \in BOOLEAN
  <2>1. ASSUME NEW v \in Vcpu, ByVcpu(v)
        PROVE  exit' \in BOOLEAN /\ gate' \in BOOLEAN
    BY <1>1, <2>1 DEF ByVcpu, VcpuStep, PreRun, Enter, Cancel, WaitRound, Send, RunInline,
       SecondHold, Spin, Check, Expire, GiveUp, Park, TimeOut, SecondaryStops, GuestStep,
       OtherExit, Doorbell, WaitDoorbell, IoDoorbell, WorkerStep, Receive, Transfer, Finish,
       Notify, Hook, WorkerEnds, SecondaryFails, Stop, MarkPending, loops
  <2> QED
    BY <1>1, <2>1 DEF Next, ByVcpu, Sync, SyncHook, Teardown, JoinSecondaries, ResetPlatform,
       WipeRam, UnmapRam, vars, loops, Vcpu
<1>3. failed' \in BOOLEAN /\ shutdown' \in BOOLEAN
  <2>1. ASSUME NEW v \in Vcpu, ByVcpu(v)
        PROVE  failed' \in BOOLEAN /\ shutdown' \in BOOLEAN
    BY <1>1, <2>1 DEF ByVcpu, VcpuStep, PreRun, Enter, Cancel, WaitRound, Send, RunInline,
       SecondHold, Spin, Check, Expire, GiveUp, Park, TimeOut, SecondaryStops, GuestStep,
       OtherExit, Doorbell, WaitDoorbell, IoDoorbell, WorkerStep, Receive, Transfer, Finish,
       Notify, Hook, WorkerEnds, SecondaryFails, Stop, loops
  <2> QED
    BY <1>1, <2>1 DEF Next, ByVcpu, Sync, SyncHook, Teardown, JoinSecondaries, ResetPlatform,
       WipeRam, UnmapRam, vars, loops, Vcpu
<1> QED
  BY <1>2, <1>3

(* The first part of the type invariant: where batches may be. *)
PlaceOK ==
  /\ place \in [Batch -> {"free", "out", "data", "done", "sync"}]
  /\ \A b \in Batch : place[b] = "data" => b \in Fua

(* Who publishes publishes a batch of its own. *)
LEMMA PlaceStep ==
  ASSUME TypeOK, EachOK, [Next]_vars
  PROVE  PlaceOK'
<1>1. PlaceOK
  BY DEF TypeOK, PlaceOK
<1>2. ASSUME \/ place' = Drained(place)
             \/ \E b \in Batch, to \in {"out", "sync"} :
                  place' = [Drained(place) EXCEPT ![b] = to]
      PROVE  PlaceOK'
  BY <1>1, <1>2, Drain DEF PlaceOK
<1>3. ASSUME NEW b \in Batch, place' \in Published(b) \/ place' = [place EXCEPT ![b] = "done"]
      PROVE  PlaceOK'
  BY <1>1, <1>3 DEF PlaceOK, Published
<1>4. CASE place' = place
  BY <1>1, <1>4 DEF PlaceOK
<1>5. ASSUME NEW v \in Vcpu, ByVcpu(v)
      PROVE  PlaceOK'
  <2>1. /\ wpc[v] = "transfer" => cur[v] \in Batch
        /\ vpc[v] \in {"run", "inline"} => mine[v] \in Batch
    BY <1>5 DEF EachOK, HandOK, Holding, TypeOK
  <2>2. CASE VcpuStep(v)
    BY <1>2, <1>3, <1>4, <2>1, <2>2 DEF VcpuStep, PreRun, Enter, Cancel, WaitRound, Send,
       RunInline, SecondHold, Spin, Check, Expire, GiveUp, Park, TimeOut, SecondaryStops
  <2>3. CASE GuestStep(v)
    BY <1>2, <1>4, <2>3 DEF GuestStep, OtherExit, Doorbell, WaitDoorbell, IoDoorbell
  <2>4. CASE WorkerStep(v)
    BY <1>3, <1>4, <2>1, <2>4 DEF WorkerStep, Receive, Transfer, Finish, Notify, Hook, WorkerEnds
  <2>5. CASE SecondaryFails(v) \/ (v = Primary /\ Stop)
    BY <1>3, <1>4, <2>1, <2>5 DEF SecondaryFails, Stop, DropTaken
  <2> QED
    BY <1>5, <2>2, <2>3, <2>4, <2>5 DEF ByVcpu
<1>6. CASE Sync
  BY <1>1, <1>6 DEF Sync, PlaceOK
<1>7. CASE SyncHook \/ UNCHANGED vars
  BY <1>4, <1>7 DEF SyncHook, vars
<1>8. CASE Teardown
  <2>1. CASE ResetPlatform
    BY <2>1 DEF ResetPlatform, PlaceOK
  <2> QED
    BY <1>4, <1>8, <2>1 DEF Teardown, JoinSecondaries, WipeRam, UnmapRam
<1> QED
  BY <1>5, <1>6, <1>7, <1>8 DEF Next, ByVcpu, Vcpu

(* The second part: the threads and what they hold. *)
ThreadsOK ==
  /\ platform \in Vcpu \cup {"nobody"}
  /\ vpc \in [Vcpu -> {"top", "enter", "guest", "wait", "run", "inline", "spin",
                       "check", "expired", "park", "parked", "hold", "ended",
                       "join", "reset", "wipe", "drop", "gone"}]
  /\ mine \in [Vcpu -> Batch \cup {NoBatch}]
  /\ inbox \in [Vcpu -> Seq(Batch)]
  /\ started \in [Vcpu -> {"no", "yes", "failed"}] /\ owner \in [Vcpu -> BOOLEAN]
  /\ wpc \in [Vcpu -> {"idle", "transfer", "finish", "notify", "hook", "ended"}]
  /\ cur \in [Vcpu -> Batch \cup {NoBatch}]
  /\ phase \in [Batch -> {"pending", "done", "detached"}]
  /\ fpc \in {"idle", "hook"}

(* Every thread goes to a place of its own, and sends and takes batches. *)
LEMMA ThreadsStep ==
  ASSUME TypeOK, EachOK, [Next]_vars
  PROVE  ThreadsOK'
<1>1. ThreadsOK
  BY DEF TypeOK, ThreadsOK
<1>2. ASSUME NEW v \in Vcpu, Send(v)
      PROVE  ThreadsOK'
  <2>1. mine[v] \in Batch
    BY <1>2 DEF Send, EachOK, HandOK, Holding, TypeOK
  <2>2. Append(inbox[v], mine[v]) \in Seq(Batch)
    BY <1>1, <2>1, Appended DEF ThreadsOK
  <2>3. inbox' \in [Vcpu -> Seq(Batch)] /\ phase' \in [Batch -> {"pending", "done", "detached"}]
    BY <1>1, <1>2, <2>2 DEF Send, ThreadsOK
  <2>4. started' \in [Vcpu -> {"no", "yes", "failed"}]
    BY <1>1, <1>2 DEF Send, ThreadsOK
  <2>5. vpc' = [vpc EXCEPT ![v] = "spin"] \/ vpc' = [vpc EXCEPT ![v] = "inline"]
    BY <1>2 DEF Send, Go
  <2> QED
    BY <1>1, <1>2, <2>3, <2>4, <2>5 DEF Send, ThreadsOK
<1>3. ASSUME NEW v \in Vcpu, Receive(v)
      PROVE  ThreadsOK'
  <2>1. Head(inbox[v]) \in Batch /\ Tail(inbox[v]) \in Seq(Batch)
    BY <1>1, <1>3, Taken DEF Receive, ThreadsOK
  <2> QED
    BY <1>1, <1>3, <2>1 DEF Receive, ThreadsOK, vcpu
<1>4. ASSUME NEW v \in Vcpu, VcpuStep(v), ~Send(v)
      PROVE  ThreadsOK'
  BY <1>1, <1>4 DEF VcpuStep, PreRun, Enter, Cancel, WaitRound, RunInline, SecondHold, Spin,
     Check, Expire, GiveUp, Park, TimeOut, SecondaryStops, Go, ThreadsOK, vcpu, worker
<1>5. ASSUME NEW v \in Vcpu, GuestStep(v)
      PROVE  ThreadsOK'
  <2>1. CASE OtherExit(v) \/ Doorbell(v)
    BY <1>1, <2>1 DEF OtherExit, Doorbell, Go, ThreadsOK, vcpu, worker
  <2>2. CASE WaitDoorbell(v) \/ \E b \in Batch : IoDoorbell(v, b)
    BY <1>1, <2>2 DEF WaitDoorbell, IoDoorbell, Go, ThreadsOK, vcpu, worker
  <2> QED
    BY <1>5, <2>1, <2>2 DEF GuestStep
<1>6. ASSUME NEW v \in Vcpu, WorkerStep(v), ~Receive(v)
      PROVE  ThreadsOK'
  <2>1. CASE Transfer(v) \/ Finish(v)
    BY <1>1, <2>1 DEF Transfer, Finish, ThreadsOK, vcpu
  <2>2. CASE Notify(v) \/ Hook(v) \/ WorkerEnds(v)
    BY <1>1, <2>2 DEF Notify, Hook, WorkerEnds, Idle, Go, ThreadsOK, vcpu
  <2> QED
    BY <1>6, <2>1, <2>2 DEF WorkerStep
<1>7. ASSUME NEW v \in Vcpu, SecondaryFails(v)
      PROVE  ThreadsOK'
  BY <1>1, <1>7 DEF SecondaryFails, DropTaken, Go, ThreadsOK, worker
<1>8. ASSUME Stop \/ JoinSecondaries \/ ResetPlatform \/ UnmapRam
      PROVE  ThreadsOK'
  BY <1>1, <1>8 DEF Stop, DropTaken, JoinSecondaries, ResetPlatform, UnmapRam, Go, ThreadsOK,
     vcpu, worker
<1>9. CASE WipeRam
  BY <1>1, <1>9 DEF WipeRam, ThreadsOK
<1>10. CASE Sync \/ SyncHook \/ UNCHANGED vars
  BY <1>1, <1>10 DEF Sync, SyncHook, ThreadsOK, vars, vcpu, worker
<1> QED
  BY <1>2, <1>3, <1>4, <1>5, <1>6, <1>7, <1>8, <1>9, <1>10 DEF Next, Teardown

-----------------------------------------------------------------------------
(* Who drains *)

(* No step but the next boot takes the shutdown back. *)
LEMMA ShutdownStands ==
  ASSUME shutdown, [Next]_vars, ~Teardown
  PROVE  shutdown'
<1>1. ASSUME NEW v \in Vcpu, ByVcpu(v)
      PROVE  shutdown'
  BY <1>1 DEF ByVcpu, VcpuStep, PreRun, Enter, Cancel, WaitRound, Send, RunInline,
     SecondHold, Spin, Check, Expire, GiveUp, Park, TimeOut, SecondaryStops, GuestStep,
     OtherExit, Doorbell, WaitDoorbell, IoDoorbell, WorkerStep, Receive, Transfer, Finish,
     Notify, Hook, WorkerEnds, SecondaryFails, Stop, loops
<1> QED
  BY <1>1 DEF Next, ByVcpu, Sync, SyncHook, Stop, vars, loops

(* What is published after a step was published before, and who would drain it
   still will or passes it on; or it is published now, by somebody who will. *)
LEMMA DrainStep ==
  ASSUME TypeOK, EachOK, NoLostCompletion, [Next]_vars
  PROVE  NoLostCompletion'
<1> SUFFICES ASSUME ~shutdown', NEW b \in Batch, place'[b] \in {"data", "done"}
             PROVE  WillDrain(b)'
  BY DEF NoLostCompletion
<1>1. Primary \in Vcpu
  BY DEF Vcpu
<1>2. CASE Teardown
  BY <1>1, <1>2 DEF Teardown, JoinSecondaries, ResetPlatform, WipeRam, UnmapRam, Go, TypeOK,
     WillDrain
<1>3. CASE ~Teardown
  <2>1. place[b] \in {"data", "done"} => WillDrain(b)
    BY <1>3, ShutdownStands DEF NoLostCompletion
  <2>2. ASSUME NEW v \in Vcpu,
               Doorbell(v) \/ (\E c \in Batch : IoDoorbell(v, c)) \/ SecondHold(v)
        PROVE  WillDrain(b)'
    <3>1. Drained(place)[b] \notin {"data", "done"}
          /\ Drained(place) \in [Batch -> {"free", "out", "sync"}]
      BY Drain DEF TypeOK
    <3>2. CASE Doorbell(v)
      BY <3>1, <3>2 DEF Doorbell
    <3>3. CASE (\E c \in Batch : IoDoorbell(v, c)) \/ SecondHold(v)
      BY <3>1, <3>3 DEF IoDoorbell, SecondHold
    <3> QED
      BY <2>2, <3>2, <3>3
  <2>3. ASSUME NEW v \in Vcpu, PreRun(v)
        PROVE  WillDrain(b)'
    <3>1. place' # Drained(place)
      BY Drain DEF TypeOK
    <3>2. v # Primary /\ place' = place
      BY <2>3, <3>1 DEF PreRun
    <3> QED
      BY <1>1, <2>1, <2>3, <3>2 DEF PreRun, Go, WillDrain, Waiting, Locked, TypeOK, worker
  <2>4. ASSUME NEW v \in Vcpu, Enter(v) \/ Cancel(v) \/ SecondaryStops(v) \/ OtherExit(v)
        PROVE  WillDrain(b)'
    BY <1>1, <2>1, <2>4 DEF Enter, Cancel, SecondaryStops, OtherExit, Go, WillDrain, Waiting,
       Locked, TypeOK, worker, loops
  <2>5. ASSUME NEW v \in Vcpu, WaitRound(v)
        PROVE  WillDrain(b)'
    BY <1>1, <2>1, <2>5, Drain DEF WaitRound, Go, WillDrain, Waiting, Locked, TypeOK, worker,
       loops, InFlight
  <2>6. ASSUME NEW v \in Vcpu, WaitDoorbell(v)
        PROVE  WillDrain(b)'
    BY <2>6, Vcpus DEF WaitDoorbell, WillDrain
  <2>7. ASSUME NEW v \in Vcpu, Send(v)
        PROVE  WillDrain(b)'
    BY <1>1, <2>1, <2>7 DEF Send, Go, WillDrain, Waiting, Locked, TypeOK, loops
  <2>8. ASSUME NEW v \in Vcpu, RunInline(v)
        PROVE  WillDrain(b)'
    BY <1>1, <2>1, <2>8 DEF RunInline, Published, Go, WillDrain, Waiting, Locked, TypeOK,
       worker, loops
  <2>9. ASSUME NEW v \in Vcpu, Spin(v) \/ Check(v) \/ Expire(v) \/ Park(v) \/ TimeOut(v)
        PROVE  WillDrain(b)'
    BY <1>1, <2>1, <2>9 DEF Spin, Check, Expire, Park, TimeOut, Go, WillDrain, Waiting, Locked,
       TypeOK, worker, loops
  <2>10. ASSUME NEW v \in Vcpu, HandOK(v), PhaseOK(v), GiveUp(v)
         PROVE  WillDrain(b)'
    BY <1>1, <2>1, <2>10 DEF GiveUp, Go, WillDrain, Waiting, Locked, TypeOK, loops, HandOK,
       PhaseOK, Phase, Sent, Holding
  <2>11. ASSUME NEW v \in Vcpu, WorkerEnds(v) \/ Receive(v) \/ Hook(v)
         PROVE  WillDrain(b)'
    BY <1>1, <2>1, <2>11 DEF WorkerEnds, Receive, Hook, Idle, WillDrain, Waiting, Locked,
       TypeOK, vcpu, loops
  <2>12. ASSUME NEW v \in Vcpu, Transfer(v)
         PROVE  WillDrain(b)'
    BY <1>1, <2>1, <2>12 DEF Transfer, Published, WillDrain, Waiting, Locked, TypeOK, vcpu,
       loops
  <2>13. ASSUME NEW v \in Vcpu, HandOK(v), PhaseOK(v), Finish(v)
         PROVE  WillDrain(b)'
    BY <1>1, <2>1, <2>13 DEF Finish, WillDrain, Waiting, Locked, TypeOK, vcpu, loops, HandOK,
       PhaseOK, Phase, Sent, Holding
  <2>14. ASSUME NEW v \in Vcpu, Notify(v)
         PROVE  WillDrain(b)'
    BY <1>1, <2>1, <2>14 DEF Notify, Idle, Go, WillDrain, Waiting, Locked, TypeOK, vcpu, loops
  <2>15. ASSUME NEW v \in Vcpu, SecondaryFails(v)
         PROVE  WillDrain(b)'
    BY <2>15 DEF SecondaryFails, WillDrain
  <2>16. CASE Sync \/ SyncHook \/ Stop
    BY <2>1, <2>16 DEF Sync, SyncHook, Stop, WillDrain, Waiting, Locked, TypeOK, vcpu, worker,
       loops
  <2>17. CASE UNCHANGED vars
    BY <2>1, <2>17 DEF WillDrain, Waiting, Locked, vars, vcpu, worker, loops
  <2> QED
    BY <1>3, <2>2, <2>3, <2>4, <2>5, <2>6, <2>7, <2>8, <2>9, <2>10, <2>11, <2>12, <2>13,
       <2>14, <2>15, <2>16, <2>17
    DEF Next, EachOK, VcpuStep, GuestStep, WorkerStep
<1> QED
  BY <1>2, <1>3

-----------------------------------------------------------------------------
(* Theorems *)

(* The invariant holds at the start. *)
LEMMA InitHandoff == Init => HandoffInv
<1> SUFFICES ASSUME Init PROVE HandoffInv
  OBVIOUS
<1>1. TypeOK
  <2>1. {exit, gate, failed, shutdown} \subseteq BOOLEAN
    BY DEF Init
  <2>2. inbox \in [Vcpu -> Seq(Batch)]
    BY EmptySeq DEF Init
  <2> QED
    BY <2>1, <2>2 DEF Init, TypeOK
<1>2. ASSUME NEW v \in Vcpu
      PROVE  HandOK(v) /\ PhaseOK(v) /\ ThreadOK(v)
  BY <1>2, Inboxes, Batches DEF Init, HandOK, PhaseOK, ThreadOK, Sent, Holding, Waiting, Locked
<1>3. Apart
  BY Inboxes DEF Init, Apart, Has
<1>4. TeardownOK /\ NoLostCompletion
  BY DEF Init, Vcpu, TeardownOK, NoLostCompletion
<1> QED
  BY <1>1, <1>2, <1>3, <1>4 DEF HandoffInv, EachOK

(* Every step keeps it. *)
LEMMA HandoffStep == HandoffInv /\ [Next]_vars => HandoffInv'
<1> SUFFICES ASSUME HandoffInv, [Next]_vars PROVE HandoffInv'
  OBVIOUS
<1>1. TypeOK /\ Apart /\ EachOK /\ TeardownOK /\ NoLostCompletion
  BY DEF HandoffInv
<1>2. TypeOK'
  BY <1>1, FlagsStep, PlaceStep, ThreadsStep DEF TypeOK, PlaceOK, ThreadsOK
<1>3. EachOK' /\ Apart'
  <2>1. ASSUME NEW v \in Vcpu, ByVcpu(v)
        PROVE  EachOK' /\ Apart'
    BY <1>1, <2>1, EachStep, ApartStep DEF EachOK
  <2>2. CASE UNCHANGED vars
    <3>1. \A v \in Vcpu : HandOK(v)' /\ PhaseOK(v)' /\ ThreadOK(v)'
      BY <1>1, <2>2 DEF EachOK, HandOK, PhaseOK, ThreadOK, Sent, Waiting, Locked, Phase, vars, vcpu,
         worker
    <3> QED
      BY <1>1, <2>2, <3>1 DEF EachOK, Apart, Has, vars, vcpu, worker
  <2> QED
    BY <1>1, <2>1, <2>2, TeardownEach, SyncEach DEF Next, ByVcpu, Vcpu
<1>4. TeardownOK' /\ NoLostCompletion'
  BY <1>1, TeardownStep, DrainStep
<1> QED
  BY <1>2, <1>3, <1>4 DEF HandoffInv

(* What the handoff, its worker, the drain requests and the teardown maintain
   together, for any vCPUs and batches.                                    *)
THEOREM HandoffInvariant == Spec => []HandoffInv
BY InitHandoff, HandoffStep, PTL DEF Spec

(* The values of the variables: only the data of a FUA write awaits a sync. *)
THEOREM HandoffTypes == Spec => []TypeOK
BY HandoffInvariant, PTL DEF HandoffInv

(* No completion is stranded: there is no moment between the compare_exchanges
   of worker and vCPU, the hook and vCPU 0's pre-run drain at which a published
   batch waits for an exit the guest happens to make.                      *)
THEOREM CompletionsAreDrained == Spec => []NoLostCompletion
BY HandoffInvariant, PTL DEF HandoffInv

(* A vCPU never sleeps out its deadline for a batch that is done: Handoff::wait
   holds the lock Handoff::finish notifies under.                          *)
THEOREM SleeperIsAwoken == Spec => []AwokenByFinish
<1>1. HandoffInv => AwokenByFinish
  BY DEF HandoffInv, EachOK, PhaseOK, AwokenByFinish
<1> QED
  BY <1>1, HandoffInvariant, PTL

(* The two compare_exchanges on Handoff.phase agree: a batch is waited for to
   its end or handed to a drain request, never both and never neither.     *)
THEOREM OneAnswerOnly == Spec => []OneAnswer
<1>1. HandoffInv => OneAnswer
  BY DEF HandoffInv, EachOK, PhaseOK, OneAnswer
<1> QED
  BY <1>1, HandoffInvariant, PTL

(* Guest RAM is wiped or unmapped only when no transfer runs or is queued: the
   drops join the workers, and VirtPlatform::reset waits for vCPU 0's.     *)
THEOREM RamOutlives == Spec => []RamOutlivesTransfers
<1>1. ASSUME HandoffInv, vpc[Primary] \in {"wipe", "gone"}, NEW v \in Vcpu
      PROVE  wpc[v] # "transfer" /\ vpc[v] # "inline" /\ inbox[v] = <<>>
  <2>1. CASE v = Primary
    BY <1>1, <2>1 DEF HandoffInv, EachOK, ThreadOK, TeardownOK
  <2>2. CASE v # Primary
    BY <1>1, <2>2 DEF HandoffInv, EachOK, ThreadOK, TeardownOK, Joined, Vcpu
  <2> QED
    BY <2>1, <2>2
<1>2. HandoffInv => RamOutlivesTransfers
  BY <1>1 DEF RamOutlivesTransfers
<1> QED
  BY <1>2, HandoffInvariant, PTL
=============================================================================
