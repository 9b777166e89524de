------------------------ MODULE NvmeDurabilityProofs ------------------------
(***************************************************************************)
(* Proofs about NvmeDurability for any disks, workers, interval and lag:   *)
(* what is acknowledged is durable in time, what is owed is paid, and a    *)
(* shutdown that reports success has lost nothing.                         *)
(***************************************************************************)
EXTENDS NvmeDurability, WellFoundedInduction, TLAPS

(* A batch syncs disks of its own; a disk written to and not fully synced since
   is still to be synced, has failed or, with a barrier only, is owed.     *)
BatchOK(w) ==
  /\ pc[w] = "sync" => todo[w] \subseteq UNION batch[w]
  /\ pc[w] # "sync" => weak[w] = {} /\ bad[w] = {}
  /\ pc[w] = "sync" /\ mode # "fast" =>
       weak[w] \subseteq todo[w] \cup bad[w] \cup (IF mode = "ordered" THEN owed[w] ELSE {})

(* Worker w will pay disk d's debt: its deadline comes before the debt is too
   old, and what time runs over it is spent in one iteration.              *)
Pays(w, d) ==
  /\ d \in owed[w] /\ pc[w] # "off"
  /\ pc[w] = "recv" => due[w] # None /\ debt[d] + due[w] <= Within
  /\ pc[w] = "sync" =>
       \/ due[w] > 0 /\ debt[d] + due[w] <= Within
       \/ due[w] = 0 /\ debt[d] <= Within + spent[w]
  /\ pc[w] \in {"settle", "last"} => d \in todo[w] /\ debt[d] <= Within + spent[w]
DebtOK ==
  /\ mode = "durable" => \A d \in Disk : debt[d] = None
  /\ mode = "ordered" /\ ~Failures =>
       \A d \in Disk : debt[d] # None => \E w \in Worker : Pays(w, d)

DurableInv ==
  TypeOK /\ (\A w \in Worker : BatchOK(w)) /\ DebtOK /\ ShutdownDurable

-----------------------------------------------------------------------------
(* Numbers *)

(* A set of disks has a first. *)
LEMMA FirstDisk ==
  ASSUME NEW S, S \subseteq Disk, S # {}
  PROVE  Min(S) \in S
<1>1. PICK x \in S : \A y \in S : ~(<<y, x>> \in OpToRel(<, Nat))
  BY NatLessThanWellFounded, WFMin, Disks, Zenon
<1>2. \A y \in S : ~(y < x)
  BY <1>1, Disks DEF OpToRel
<1>3. \A y \in S : x <= y
  BY <1>2, Disks
<1> QED
  BY <1>3 DEF Min

(* An age goes up by one, or has reached what is told apart. *)
LEMMA Ages ==
  ASSUME NEW a \in Int, NEW most \in Int
  PROVE  /\ Older(a, most) \in Int
         /\ Older(a, most) <= a + 1 /\ Older(a, most) <= most
         /\ Older(a, most) = a + 1 \/ Older(a, most) = most
<1>1. CASE a + 1 <= most
  <2>1. Older(a, most) = a + 1
    BY <1>1 DEF Older, Min
  <2> QED
    BY <1>1, <2>1
<1>2. CASE ~(a + 1 <= most)
  <2>1. Older(a, most) = most
    BY <1>2 DEF Older, Min
  <2> QED
    BY <1>2, <2>1
<1> QED
  BY <1>1, <1>2

-----------------------------------------------------------------------------
(* The values of the variables *)

(* A full sync of some disks ends their debts and weakens no batch. *)
LEMMA Synced ==
  ASSUME TypeOK, NEW D \in SUBSET Disk, Durable(D)
  PROVE  /\ dirty' \subseteq Disk /\ debt' \in [Disk -> None .. Bound + 1]
         /\ weak' \in [Worker -> SUBSET Disk]
         /\ \A w \in Worker : weak'[w] = weak[w] \ D
         /\ \A d \in Disk : debt'[d] = (IF d \in D THEN None ELSE debt[d])
<1>1. None \in None .. Bound + 1
  BY Times DEF None, Bound
<1> QED
  BY <1>1 DEF Durable, TypeOK

(* As far as the disks go, a step leaves them alone, syncs some of them, writes,
   publishes or lets time pass.                                            *)
LEMMA InlineSync ==
  ASSUME TypeOK, NEW D \in SUBSET Disk, SyncInline(D)
  PROVE  \/ UNCHANGED <<disks, weak>> /\ mode = "fast"
         \/ \E E \in SUBSET D : Durable(E)
BY DEF SyncInline, Outcomes, TypeOK

(* Every step keeps the variables in their sets. *)
LEMMA TypeStep ==
  ASSUME TypeOK, \A w \in Worker : BatchOK(w), [Next]_vars
  PROVE  TypeOK'
<1> USE DEF TypeOK, vars, controller, setting, disks, queue, syncs, timer, owes
<1>1. ASSUME NEW d \in Disk, StartWrite(d) \/ EndWrite(d)
      PROVE  TypeOK'
  <2>1. CASE StartWrite(d)
    BY <2>1, Disks DEF StartWrite
  <2>2. CASE EndWrite(d)
    BY <2>2 DEF EndWrite
  <2> QED
    BY <1>1, <2>1, <2>2
<1>2. ASSUME NEW D \in SUBSET Disk, DeferFlush(D)
      PROVE  TypeOK'
  <2>1. fua' \subseteq Disk /\ jobs' \in Worker \cup {NoWorker}
    BY <1>2 DEF DeferFlush, Flushes
  <2>2. inbox' \in [Worker -> SUBSET SUBSET Disk]
    <3>1. inbox \in [Worker -> SUBSET SUBSET Disk]
      OBVIOUS
    <3>2. PICK w \in Worker : \/ inbox' = [inbox EXCEPT ![w] = @ \cup {D}]
                             \/ inbox' = [inbox EXCEPT ![w] = {D}]
      BY <1>2 DEF DeferFlush
    <3>3. inbox[w] \cup {D} \in SUBSET SUBSET Disk /\ {D} \in SUBSET SUBSET Disk
      BY <3>1
    <3>4. CASE inbox' = [inbox EXCEPT ![w] = @ \cup {D}]
      BY <3>1, <3>3, <3>4
    <3>5. CASE inbox' = [inbox EXCEPT ![w] = {D}]
      BY <3>1, <3>3, <3>5
    <3> QED
      BY <3>2, <3>4, <3>5
  <2>3. pc' \in [Worker -> {"off", "recv", "sync", "settle", "last"}]
    BY <1>2 DEF DeferFlush
  <2>4. age' \in [Worker -> [Disk -> 0 .. Within]]
    <3>1. age \in [Worker -> [Disk -> 0 .. Within]] /\ Within \in 0 .. Within
      BY Times
    <3>2. \/ age' = age
          \/ \E w \in Worker : age' = [age EXCEPT ![w] = [d \in Disk |-> Within]]
      BY <1>2 DEF DeferFlush
    <3> QED
      BY <3>1, <3>2
  <2> QED
    BY <1>2, <2>1, <2>2, <2>3, <2>4 DEF DeferFlush
<1>3. ASSUME NEW D \in SUBSET Disk, FlushInline(D)
      PROVE  TypeOK'
  <2>1. fua' \subseteq Disk
    BY <1>3 DEF FlushInline, Flushes
  <2>2. CASE UNCHANGED <<disks, weak>>
    BY <1>3, <2>1, <2>2 DEF FlushInline
  <2>3. ASSUME NEW E \in SUBSET D, Durable(E)
        PROVE  TypeOK'
    BY <1>3, <2>1, <2>3, Synced DEF FlushInline
  <2> QED
    BY <1>3, <2>2, <2>3, InlineSync DEF FlushInline
<1>4. CASE StartFails
  BY <1>4 DEF StartFails
<1>5. CASE CacheOff
  <2>1. CASE UNCHANGED <<disks, weak>>
    BY <1>5, <2>1 DEF CacheOff
  <2>2. ASSUME NEW E \in SUBSET Disk, Durable(E)
        PROVE  TypeOK'
    BY <1>5, <2>2, Synced DEF CacheOff
  <2> QED
    BY <1>5, <2>1, <2>2, InlineSync DEF CacheOff
<1>6. CASE Shutdown
  <2>1. PICK E \in SUBSET Disk : Durable(E)
    BY <1>6 DEF Shutdown, Outcomes
  <2>2. shst' \in {"no", "complete", "failed"}
    BY <1>6 DEF Shutdown
  <2> QED
    BY <1>6, <2>1, <2>2, Synced DEF Shutdown
<1>7. CASE ColdReset
  BY <1>7 DEF ColdReset
<1>8. ASSUME NEW w \in Worker, Receive(w)
      PROVE  TypeOK'
  <2>1. UNION inbox[w] \subseteq Disk
    OBVIOUS
  <2>2. /\ weak' \in [Worker -> SUBSET Disk] /\ weak'[w] = UNION inbox[w]
        /\ todo' \in [Worker -> SUBSET Disk]
    BY <1>8, <2>1 DEF Receive
  <2>3. /\ inbox' \in [Worker -> SUBSET SUBSET Disk]
        /\ batch' \in [Worker -> SUBSET SUBSET Disk] /\ batch'[w] = inbox[w]
        /\ bad' = bad /\ bad[w] = {}
        /\ \A v \in Worker : v # w => batch'[v] = batch[v] /\ weak'[v] = weak[v]
    BY <1>8 DEF Receive, BatchOK
  <2>4. \A v \in Worker : bad'[v] \cup weak'[v] \subseteq UNION batch'[v]
    BY <2>2, <2>3
  <2>5. /\ pc' \in [Worker -> {"off", "recv", "sync", "settle", "last"}]
        /\ spent' \in [Worker -> 0 .. Lag]
    BY <1>8, Times DEF Receive, Begin
  <2> QED
    BY <1>8, <2>2, <2>3, <2>4, <2>5 DEF Receive
<1>9. ASSUME NEW w \in Worker, SyncDisk(w)
      PROVE  TypeOK'
  <2> DEFINE d == Min(todo[w])
  <2>1. d \in Disk /\ d \in todo[w] /\ pc[w] = "sync"
    <3>1. todo[w] \subseteq Disk /\ todo[w] # {} /\ pc[w] = "sync"
      BY <1>9 DEF SyncDisk
    <3> QED
      BY <3>1, FirstDisk
  <2>2. d \in UNION batch[w]
    BY <2>1 DEF BatchOK
  <2> HIDE DEF d
  <2>3. CASE UNCHANGED bad
    <3>1. CASE UNCHANGED <<disks, weak, owes>>
      BY <1>9, <2>1, <2>3, <3>1 DEF SyncDisk, d
    <3>2. CASE Barrier(w, d)
      BY <1>9, <2>1, <2>3, <3>2 DEF SyncDisk, Barrier, d
    <3>3. CASE FullSync(w, d)
      BY <1>9, <2>1, <2>3, <3>3, Times, Synced DEF SyncDisk, FullSync, d
    <3> QED
      BY <1>9, <2>3, <3>1, <3>2, <3>3 DEF SyncDisk, d
  <2>4. CASE bad' = [bad EXCEPT ![w] = @ \cup {d}] /\ UNCHANGED <<disks, weak, owes>>
    BY <1>9, <2>1, <2>2, <2>4 DEF SyncDisk, d
  <2> QED
    BY <1>9, <2>3, <2>4 DEF SyncDisk, d
<1>10. ASSUME NEW w \in Worker, Publish(w)
       PROVE  TypeOK'
  <2>1. debt' \in [Disk -> None .. Bound + 1]
    BY <1>10, Times DEF Publish, Bound, None
  <2>2. /\ pc' \in [Worker -> {"off", "recv", "sync", "settle", "last"}]
        /\ todo' \in [Worker -> SUBSET Disk]
        /\ due' \in [Worker -> None .. Within]
    <3>1. owed[w] \in SUBSET Disk /\ Within \in None .. Within
      BY Times DEF None
    <3>2. CASE Passed(w)
      <4>1. /\ pc' = [pc EXCEPT ![w] = "settle"] /\ todo' = [todo EXCEPT ![w] = owed[w]]
            /\ due' = [due EXCEPT ![w] = Within]
        BY <1>10, <3>2 DEF Publish, Look
      <4> QED
        BY <3>1, <4>1
    <3>3. CASE ~Passed(w)
      <4>1. \/ due' = [due EXCEPT ![w] = Within]
            \/ due' = due
        BY <1>10, <3>3 DEF Publish, Look
      <4>2. pc' = [pc EXCEPT ![w] = "recv"] /\ todo' = todo
        BY <1>10, <3>3 DEF Publish, Look
      <4> QED
        BY <3>1, <4>1, <4>2
    <3> QED
      BY <3>2, <3>3
  <2>3. \A v \in Worker : bad'[v] \cup weak'[v] \subseteq UNION batch'[v]
    BY <1>10 DEF Publish
  <2>4. /\ batch' \in [Worker -> SUBSET SUBSET Disk]
        /\ weak' \in [Worker -> SUBSET Disk] /\ bad' \in [Worker -> SUBSET Disk]
    BY <1>10 DEF Publish
  <2> QED
    BY <1>10, <2>1, <2>2, <2>3, <2>4 DEF Publish
<1>11. ASSUME NEW w \in Worker, Awake(w)
       PROVE  TypeOK'
  BY <1>11, Times DEF Awake, Begin, None
<1>12. ASSUME NEW w \in Worker, Settle(w)
       PROVE  TypeOK'
  <2> DEFINE d == Min(todo[w])
  <2>1. d \in Disk
    BY <1>12, FirstDisk DEF Settle
  <2> HIDE DEF d
  <2>2. CASE UNCHANGED <<disks, weak, owes>>
    BY <1>12, <2>1, <2>2 DEF Settle, d
  <2>3. CASE FullSync(w, d)
    <3>1. age' \in [Worker -> [Disk -> 0 .. Within]] /\ owed' \in [Worker -> SUBSET Disk]
      BY <2>1, <2>3, Times DEF FullSync
    <3> QED
      BY <1>12, <2>1, <2>3, <3>1, Synced DEF Settle, FullSync, d
  <2> QED
    BY <1>12, <2>2, <2>3 DEF Settle, d
<1>13. ASSUME NEW w \in Worker, Settled(w)
       PROVE  TypeOK'
  BY <1>13, Times DEF Settled, Rearm, None
<1>14. ASSUME NEW w \in Worker, Ends(w)
       PROVE  TypeOK'
  BY <1>14, Times DEF Ends, None
<1>15. CASE Tick
  <2>1. \A w \in Worker, d \in Disk : Older(age[w][d], Within) \in 0 .. Within
    <3>1. TAKE w \in Worker, d \in Disk
    <3>2. age[w][d] \in 0 .. Within /\ age[w][d] \in Int /\ Within \in Int
      <4>1. age[w][d] \in 0 .. Within
        OBVIOUS
      <4> QED
        BY <4>1, Times
    <3>3. /\ Older(age[w][d], Within) \in Int /\ Older(age[w][d], Within) <= Within
          /\ \/ Older(age[w][d], Within) = age[w][d] + 1
             \/ Older(age[w][d], Within) = Within
      BY <3>2, Ages, Zenon
    <3> QED
      BY <3>2, <3>3
  <2>2. age' \in [Worker -> [Disk -> 0 .. Within]]
    BY <1>15, <2>1 DEF Tick
  <2>3. debt' \in [Disk -> None .. Bound + 1]
    <3>1. ASSUME NEW d \in Disk, debt[d] # None
          PROVE  Older(debt[d], Bound + 1) \in None .. Bound + 1
      <4>1. debt[d] \in 0 .. Bound + 1 /\ Bound \in Int
        BY <3>1, Times DEF Bound, None
      <4>2. /\ Older(debt[d], Bound + 1) \in Int /\ Older(debt[d], Bound + 1) <= Bound + 1
            /\ \/ Older(debt[d], Bound + 1) = debt[d] + 1
               \/ Older(debt[d], Bound + 1) = Bound + 1
        BY <4>1, Ages
      <4> QED
        BY <4>1, <4>2 DEF None
    <3>2. None \in None .. Bound + 1
      BY Times DEF Bound, None
    <3> QED
      BY <1>15, <3>1, <3>2 DEF Tick
  <2>4. spent' \in [Worker -> 0 .. Lag]
    BY <1>15, Times DEF Tick
  <2>5. due' \in [Worker -> None .. Within]
    BY <1>15, Times DEF Tick, None
  <2> QED
    BY <1>15, <2>2, <2>3, <2>4, <2>5 DEF Tick
<1>16. CASE UNCHANGED vars
  BY <1>16
<1> QED
  BY <1>1, <1>2, <1>3, <1>4, <1>5, <1>6, <1>7, <1>8, <1>9, <1>10, <1>11, <1>12, <1>13,
     <1>14, <1>15, <1>16
  DEF Next, Controller, WorkerStep

-----------------------------------------------------------------------------
(* The batches *)

(* What others do to a worker's batch is at most to sync its disks. *)
LEMMA BatchKept ==
  ASSUME NEW w \in Worker, BatchOK(w), mode' = mode,
         pc'[w] = pc[w], todo'[w] = todo[w], batch'[w] = batch[w], bad'[w] = bad[w],
         owed'[w] = owed[w], weak'[w] \subseteq weak[w]
  PROVE  BatchOK(w)'
BY DEF BatchOK

(* A batch syncs its own disks, and leaves none of them aside. *)
LEMMA BatchStep ==
  ASSUME TypeOK, \A w \in Worker : BatchOK(w), [Next]_vars
  PROVE  (\A w \in Worker : BatchOK(w))'
<1> USE DEF vars, controller, setting, disks, queue, syncs, timer, owes
<1> DEFINE Kept == \A w \in Worker : BatchOK(w)'
<1>1. \A w \in Worker : bad[w] \subseteq Disk /\ todo[w] \subseteq Disk
  BY DEF TypeOK
<1>2. ASSUME NEW D \in SUBSET Disk,
             UNCHANGED weak \/ Durable(D), UNCHANGED <<mode, pc, batch, bad, todo, owed>>
      PROVE  Kept
  <2>1. \A w \in Worker : weak'[w] \subseteq weak[w]
    BY <1>2, Synced
  <2> QED
    BY <1>2, <2>1, BatchKept
<1>3. ASSUME NEW d \in Disk, StartWrite(d) \/ EndWrite(d)
      PROVE  Kept
  BY <1>2, <1>3 DEF StartWrite, EndWrite
<1>4. ASSUME NEW D \in SUBSET Disk, DeferFlush(D)
      PROVE  Kept
  <2> SUFFICES ASSUME NEW w \in Worker PROVE BatchOK(w)'
    OBVIOUS
  <2>1. /\ UNCHANGED <<mode, weak, batch, bad, todo, owed>>
        /\ \/ pc'[w] = pc[w]
           \/ pc[w] = "off" /\ pc'[w] = "recv"
    BY <1>4 DEF DeferFlush, TypeOK
  <2> QED
    BY <2>1 DEF BatchOK
<1>5. ASSUME NEW D \in SUBSET Disk, FlushInline(D)
      PROVE  Kept
  BY <1>2, <1>5, InlineSync DEF FlushInline
<1>6. CASE StartFails
  BY <1>2, <1>6 DEF StartFails
<1>7. CASE CacheOff
  BY <1>2, <1>7, InlineSync DEF CacheOff
<1>8. CASE Shutdown
  BY <1>2, <1>8 DEF Shutdown, Outcomes
<1>9. CASE ColdReset
  BY <1>2, <1>9 DEF ColdReset
<1>10. ASSUME NEW v \in Worker, WorkerStep(v)
       PROVE  Kept
  <2> SUFFICES ASSUME NEW w \in Worker PROVE BatchOK(w)'
    OBVIOUS
  <2>1. CASE Receive(v)
    <3>1. CASE w = v
      BY <2>1, <3>1 DEF Receive, Begin, BatchOK, TypeOK
    <3>2. CASE w # v
      BY <2>1, <3>2, BatchKept DEF Receive, Begin, TypeOK
    <3> QED
      BY <3>1, <3>2
  <2>2. CASE SyncDisk(v)
    <3> DEFINE d == Min(todo[v])
    <3>1. d \in Disk /\ d \in todo[v] /\ pc[v] = "sync"
      BY <1>1, <2>2, FirstDisk DEF SyncDisk
    <3> HIDE DEF d
    <3>2. /\ mode' = mode /\ pc' = pc /\ batch' = batch
          /\ todo' = [todo EXCEPT ![v] = @ \ {d}]
      BY <2>2 DEF SyncDisk, d
    <3>3. \/ mode = "fast" /\ UNCHANGED <<weak, owed, bad>>
          \/ mode = "ordered" /\ Barrier(v, d) /\ UNCHANGED bad
          \/ FullSync(v, d) /\ UNCHANGED bad
          \/ bad' = [bad EXCEPT ![v] = @ \cup {d}] /\ UNCHANGED <<weak, owed>>
      BY <2>2 DEF SyncDisk, BarrierSuffices, d
    <3>4. CASE mode = "fast" /\ UNCHANGED <<weak, owed, bad>>
      BY <3>1, <3>2, <3>4 DEF BatchOK, TypeOK
    <3>5. CASE mode = "ordered" /\ Barrier(v, d) /\ UNCHANGED bad
      BY <3>1, <3>2, <3>5 DEF BatchOK, Barrier, TypeOK
    <3>6. CASE FullSync(v, d) /\ UNCHANGED bad
      <4>1. /\ \A u \in Worker : weak'[u] = weak[u] \ {d}
            /\ owed' = [owed EXCEPT ![v] = @ \ {d}]
        BY <3>1, <3>6, Synced DEF FullSync
      <4> QED
        BY <3>1, <3>2, <3>6, <4>1 DEF BatchOK, TypeOK
    <3>7. CASE bad' = [bad EXCEPT ![v] = @ \cup {d}] /\ UNCHANGED <<weak, owed>>
      BY <3>1, <3>2, <3>7 DEF BatchOK, TypeOK
    <3> QED
      BY <3>3, <3>4, <3>5, <3>6, <3>7
  <2>3. CASE Publish(v)
    <3>1. /\ mode' = mode /\ owed' = owed
          /\ \A u \in Worker : u # v => /\ pc'[u] = pc[u] /\ todo'[u] = todo[u]
                                        /\ batch'[u] = batch[u] /\ bad'[u] = bad[u]
                                        /\ weak'[u] = weak[u]
      BY <2>3 DEF Publish, Look, TypeOK
    <3>2. weak'[v] = {} /\ bad'[v] = {} /\ pc'[v] # "sync"
      BY <2>3 DEF Publish, Look, TypeOK
    <3>3. CASE w = v
      BY <3>2, <3>3 DEF BatchOK
    <3>4. CASE w # v
      BY <3>1, <3>4, BatchKept
    <3> QED
      BY <3>3, <3>4
  <2>4. CASE Awake(v)
    <3>1. CASE w = v
      BY <2>4, <3>1 DEF Awake, Begin, BatchOK, TypeOK
    <3>2. CASE w # v
      BY <2>4, <3>2, BatchKept DEF Awake, Begin, TypeOK
    <3> QED
      BY <3>1, <3>2
  <2>5. CASE Settle(v)
    <3> DEFINE d == Min(todo[v])
    <3>1. d \in Disk /\ pc[v] # "sync"
      BY <1>1, <2>5, FirstDisk DEF Settle
    <3> HIDE DEF d
    <3>2. /\ mode' = mode /\ pc' = pc /\ batch' = batch /\ bad' = bad
          /\ todo' = [todo EXCEPT ![v] = @ \ {d}]
          /\ FullSync(v, d) \/ UNCHANGED <<weak, owed>>
      BY <2>5 DEF Settle, d
    <3>3. \A u \in Worker : weak'[u] \subseteq weak[u] /\ (u # v => owed'[u] = owed[u])
      BY <3>1, <3>2, Synced DEF FullSync, TypeOK
    <3>4. CASE w = v
      BY <3>1, <3>2, <3>3, <3>4 DEF BatchOK
    <3>5. CASE w # v
      BY <3>2, <3>3, <3>5, BatchKept DEF TypeOK
    <3> QED
      BY <3>4, <3>5
  <2>6. CASE Settled(v)
    BY <2>6 DEF Settled, BatchOK, TypeOK
  <2>7. CASE Ends(v)
    BY <2>7 DEF Ends, BatchOK, TypeOK
  <2> QED
    BY <1>10, <2>1, <2>2, <2>3, <2>4, <2>5, <2>6, <2>7 DEF WorkerStep
<1>11. CASE Tick
  BY <1>2, <1>11 DEF Tick
<1>12. CASE UNCHANGED vars
  BY <1>2, <1>12
<1> QED
  BY <1>3, <1>4, <1>5, <1>6, <1>7, <1>8, <1>9, <1>10, <1>11, <1>12 DEF Next, Controller

-----------------------------------------------------------------------------
(* The debts *)

(* A debt's payer goes on as long as nothing but time passes for it. *)
LEMMA PaysKept ==
  ASSUME NEW w \in Worker, NEW d \in Disk, Pays(w, d), debt'[d] = debt[d],
         d \in owed'[w], UNCHANGED <<pc[w], todo[w], due[w], spent[w]>>
  PROVE  Pays(w, d)'
BY DEF Pays

(* The controller leaves the payers of the debts that remain alone. *)
LEMMA ControllerPays ==
  ASSUME TypeOK, Controller, NEW w \in Worker, NEW d \in Disk, Pays(w, d),
         debt'[d] # None
  PROVE  Pays(w, d)'
<1> USE DEF controller, setting, disks, queue, syncs, timer, owes
<1>1. ASSUME UNCHANGED <<pc[w], todo[w], due[w], spent[w], owed[w]>>,
             debt'[d] = debt[d] \/ \E D \in SUBSET Disk : Durable(D)
      PROVE  Pays(w, d)'
  <2>1. debt'[d] = debt[d]
    BY <1>1, Synced
  <2> QED
    BY <1>1, <2>1, PaysKept DEF Pays
<1>2. ASSUME NEW e \in Disk, StartWrite(e) \/ EndWrite(e)
      PROVE  Pays(w, d)'
  BY <1>1, <1>2 DEF StartWrite, EndWrite
<1>3. ASSUME NEW D \in SUBSET Disk, DeferFlush(D)
      PROVE  Pays(w, d)'
  <2>1. pc'[w] = pc[w]
    BY <1>3 DEF DeferFlush, Pays, TypeOK
  <2> QED
    BY <1>1, <1>3, <2>1 DEF DeferFlush
<1>4. ASSUME NEW D \in SUBSET Disk, FlushInline(D)
      PROVE  Pays(w, d)'
  BY <1>1, <1>4, InlineSync DEF FlushInline
<1>5. CASE StartFails
  BY <1>1, <1>5 DEF StartFails
<1>6. CASE CacheOff
  BY <1>1, <1>6, InlineSync DEF CacheOff
<1>7. CASE Shutdown
  BY <1>1, <1>7 DEF Shutdown, Outcomes
<1>8. CASE ColdReset
  BY <1>1, <1>8 DEF ColdReset
<1> QED
  BY <1>2, <1>3, <1>4, <1>5, <1>6, <1>7, <1>8 DEF Controller

(* A worker pays what it publishes with a barrier only. *)
LEMMA PublishPays ==
  ASSUME TypeOK, NEW v \in Worker, BatchOK(v), Publish(v), mode = "ordered",
         NEW d \in Disk, debt'[d] # None,
         debt[d] # None => \E w \in Worker : Pays(w, d)
  PROVE  \E w \in Worker : Pays(w, d)'
<1>1. /\ debt[d] \in None .. Bound + 1 /\ due[v] \in None .. Within
      /\ spent[v] \in 0 .. Lag /\ Within \in Nat /\ Lag \in Nat
  BY Times DEF TypeOK
<1>2. /\ pc[v] = "sync" /\ todo[v] = {} /\ owed' = owed /\ spent' = spent
      /\ \A u \in Worker : u # v => UNCHANGED <<pc[u], todo[u], due[u]>>
  BY DEF Publish, Look, owes, TypeOK
<1>3. debt'[d] = (IF d \in weak[v] \cap Answered(v) /\ debt[d] = None THEN 0 ELSE debt[d])
  BY DEF Publish
<1>4. /\ Passed(v) => pc'[v] = "settle" /\ todo'[v] = owed[v]
      /\ ~Passed(v) => /\ pc'[v] = "recv"
                       /\ due'[v] = (IF due[v] = None /\ owed[v] # {} THEN Within ELSE due[v])
  BY DEF Publish, Look, TypeOK
<1>5. CASE debt[d] = None
  <2>1. d \in weak[v] \cap Answered(v) /\ debt'[d] = 0
    BY <1>3, <1>5
  <2>2. d \in owed[v]
    BY <1>2, <2>1 DEF BatchOK, Answered
  <2>3. Pays(v, d)'
    BY <1>1, <1>2, <1>4, <2>1, <2>2 DEF Pays, Passed, None
  <2> QED
    BY <2>3
<1>6. CASE debt[d] # None
  <2>1. PICK w \in Worker : Pays(w, d)
    BY <1>6
  <2>2. debt'[d] = debt[d]
    BY <1>3, <1>6
  <2>3. CASE w = v
    BY <1>1, <1>2, <1>4, <2>1, <2>2, <2>3 DEF Pays, Passed, None
  <2>4. CASE w # v
    <3>1. d \in owed'[w] /\ spent'[w] = spent[w]
      BY <1>2, <2>1 DEF Pays
    <3> QED
      BY <1>2, <2>1, <2>2, <2>4, <3>1, PaysKept
  <2> QED
    BY <2>3, <2>4
<1> QED
  BY <1>5, <1>6

(* A tick makes the debt older, and brings its payer's deadline or the end of
   its iteration nearer.                                                   *)
LEMMA TickPays ==
  ASSUME TypeOK, Tick, NEW w \in Worker, NEW d \in Disk, Pays(w, d), debt[d] # None
  PROVE  Pays(w, d)'
<1>1. /\ debt[d] \in 0 .. Bound + 1 /\ due[w] \in None .. Within
      /\ spent[w] \in 0 .. Lag /\ Within \in Nat /\ Lag \in Nat /\ Bound \in Int
  BY Times DEF TypeOK, Bound, None
<1>2. /\ UNCHANGED <<pc, todo, owed>>
      /\ spent'[w] = (IF Busy(w) THEN spent[w] + 1 ELSE 0)
      /\ due'[w] = (IF due[w] > 0 THEN due[w] - 1 ELSE due[w])
  BY DEF Tick, queue, syncs
<1>3. debt'[d] \in Int /\ debt'[d] <= debt[d] + 1
  <2>1. debt'[d] = Older(debt[d], Bound + 1)
    BY DEF Tick
  <2>2. debt[d] \in Int /\ Bound + 1 \in Int
    BY <1>1
  <2> QED
    BY <2>1, <2>2, Ages
<1>4. pc[w] = "recv" => due[w] # 0
  BY DEF Tick, Awaken, Passed
<1>5. Busy(w) <=> pc[w] \in {"sync", "settle", "last"}
  BY DEF Busy
<1>6. pc[w] \in {"recv", "sync", "settle", "last"}
  BY DEF TypeOK, Pays
<1>7. CASE pc[w] = "recv"
  BY <1>1, <1>2, <1>3, <1>4, <1>7 DEF Pays, None
<1>8. CASE pc[w] = "sync"
  BY <1>1, <1>2, <1>3, <1>5, <1>8 DEF Pays, None
<1>9. CASE pc[w] \in {"settle", "last"}
  BY <1>1, <1>2, <1>3, <1>5, <1>9 DEF Pays, None
<1> QED
  BY <1>6, <1>7, <1>8, <1>9

(* In the ordered mode syncs that do not fail leave each debt with its payer. *)
LEMMA OrderedStep ==
  ASSUME TypeOK, \A w \in Worker : BatchOK(w), Next, mode = "ordered", ~Failures,
         NEW d \in Disk, debt'[d] # None,
         debt[d] # None => \E w \in Worker : Pays(w, d)
  PROVE  \E w \in Worker : Pays(w, d)'
<1> USE DEF controller, disks, queue, syncs, timer, owes
<1>1. CASE \E v \in Worker : Publish(v)
  BY <1>1, PublishPays
<1>2. CASE ~ \E v \in Worker : Publish(v)
  <2>1. debt'[d] # None => debt[d] # None
    <3>1. CASE debt' = debt
      BY <3>1
    <3>2. ASSUME NEW D \in SUBSET Disk, Durable(D)
          PROVE  debt'[d] # None => debt[d] # None
      BY <3>2, Synced
    <3>3. CASE Tick
      BY <3>3 DEF Tick
    <3>4. CASE Controller
      BY <3>1, <3>2, <3>4, InlineSync
      DEF Controller, StartWrite, EndWrite, DeferFlush, FlushInline, StartFails, CacheOff,
          Shutdown, ColdReset, Outcomes
    <3>5. ASSUME NEW v \in Worker, WorkerStep(v)
          PROVE  debt'[d] # None => debt[d] # None
      <4>1. \A e \in todo[v] : e \in Disk
        BY DEF TypeOK
      <4>2. CASE SyncDisk(v)
        <5>1. Min(todo[v]) \in Disk
          BY <4>1, <4>2, FirstDisk DEF SyncDisk
        <5> QED
          BY <3>1, <3>2, <4>2, <5>1 DEF SyncDisk, Barrier, FullSync
      <4>3. CASE Settle(v)
        <5>1. Min(todo[v]) \in Disk
          BY <4>1, <4>3, FirstDisk DEF Settle
        <5> QED
          BY <3>1, <3>2, <4>3, <5>1 DEF Settle, FullSync
      <4> QED
        BY <1>2, <3>1, <3>5, <4>2, <4>3 DEF WorkerStep, Receive, Awake, Settled, Ends
    <3> QED
      BY <3>3, <3>4, <3>5 DEF Next
  <2>2. PICK w \in Worker : Pays(w, d)
    BY <2>1
  <2>3. CASE Controller
    BY <2>2, <2>3, ControllerPays
  <2>4. CASE Tick
    BY <2>1, <2>2, <2>4, TickPays
  <2>5. ASSUME NEW v \in Worker, WorkerStep(v)
        PROVE  Pays(w, d)'
    <3>1. /\ debt[d] \in None .. Bound + 1 /\ due[w] \in None .. Within
          /\ spent[w] \in 0 .. Lag /\ Within \in Nat /\ Lag \in Nat
      BY Times DEF TypeOK
    <3>2. CASE Receive(v)
      <4>1. /\ pc[v] = "recv" /\ UNCHANGED <<debt, owed, due>>
            /\ pc'[v] = "sync" /\ spent'[v] = 0
            /\ \A u \in Worker : u # v => UNCHANGED <<pc[u], todo[u], due[u], spent[u]>>
        BY <3>2 DEF Receive, Begin, TypeOK
      <4>2. CASE w = v
        BY <2>2, <3>1, <4>1, <4>2 DEF Pays, None
      <4>3. CASE w # v
        BY <2>2, <4>1, <4>3 DEF Pays
      <4> QED
        BY <4>2, <4>3
    <3>3. CASE SyncDisk(v)
      <4> DEFINE e == Min(todo[v])
      <4>1. e \in Disk /\ pc[v] = "sync"
        BY <3>3, FirstDisk DEF SyncDisk, TypeOK
      <4> HIDE DEF e
      <4>2. /\ pc' = pc /\ due' = due /\ spent' = spent
            /\ todo' = [todo EXCEPT ![v] = @ \ {e}]
            /\ \/ UNCHANGED <<debt, owed>>
               \/ Barrier(v, e)
               \/ FullSync(v, e)
        BY <3>3 DEF SyncDisk, e
      <4>3. d \in owed'[w] /\ debt'[d] = debt[d]
        <5>1. CASE Barrier(v, e)
          BY <2>2, <5>1 DEF Barrier, Pays, TypeOK
        <5>2. CASE FullSync(v, e)
          <6>1. debt'[d] = debt[d] /\ d # e /\ owed' = [owed EXCEPT ![v] = @ \ {e}]
            BY <4>1, <5>2, Synced DEF FullSync
          <6> QED
            BY <2>2, <6>1 DEF Pays, TypeOK
        <5> QED
          BY <2>2, <4>2, <5>1, <5>2 DEF Pays
      <4> QED
        BY <2>2, <4>1, <4>2, <4>3 DEF Pays, TypeOK
    <3>4. CASE Awake(v)
      <4>1. /\ pc[v] = "recv" /\ UNCHANGED <<debt, owed>>
            /\ pc'[v] \in {"settle", "last"} /\ spent'[v] = 0 /\ todo'[v] = owed[v]
            /\ \A u \in Worker : u # v => UNCHANGED <<pc[u], todo[u], due[u], spent[u]>>
        BY <3>4 DEF Awake, Begin, TypeOK
      <4>2. CASE w = v
        BY <2>2, <3>1, <4>1, <4>2 DEF Pays, None
      <4>3. CASE w # v
        BY <2>2, <4>1, <4>3 DEF Pays
      <4> QED
        BY <4>2, <4>3
    <3>5. CASE Settle(v)
      <4> DEFINE e == Min(todo[v])
      <4>1. e \in Disk
        BY <3>5, FirstDisk DEF Settle, TypeOK
      <4> HIDE DEF e
      <4>2. /\ pc' = pc /\ due' = due /\ spent' = spent
            /\ todo' = [todo EXCEPT ![v] = @ \ {e}] /\ FullSync(v, e)
        BY <3>5 DEF Settle, e
      <4>3. debt'[d] = debt[d] /\ d # e /\ owed' = [owed EXCEPT ![v] = @ \ {e}]
        BY <4>1, <4>2, Synced DEF FullSync
      <4> QED
        BY <2>2, <4>2, <4>3 DEF Pays, TypeOK
    <3>6. CASE Settled(v)
      BY <2>2, <3>6, PaysKept DEF Settled, Rearm, Pays, TypeOK
    <3>7. CASE Ends(v)
      BY <2>2, <3>7, PaysKept DEF Ends, Pays, TypeOK
    <3> QED
      BY <1>2, <2>5, <3>2, <3>3, <3>4, <3>5, <3>6, <3>7 DEF WorkerStep
  <2> QED
    BY <2>2, <2>3, <2>4, <2>5 DEF Next
<1> QED
  BY <1>1, <1>2

(* In the durable mode nothing is owed at any time. *)
LEMMA DurableStep ==
  ASSUME TypeOK, \A w \in Worker : BatchOK(w), Next, mode = "durable",
         NEW d \in Disk, debt[d] = None
  PROVE  debt'[d] = None
<1> USE DEF controller, disks, queue, syncs, timer, owes
<1>1. CASE debt' = debt
  BY <1>1
<1>2. ASSUME NEW D \in SUBSET Disk, Durable(D)
      PROVE  debt'[d] = None
  BY <1>2, Synced
<1>3. CASE Tick
  BY <1>3 DEF Tick
<1>4. CASE Controller
  BY <1>1, <1>2, <1>4, InlineSync
  DEF Controller, StartWrite, EndWrite, DeferFlush, FlushInline, StartFails, CacheOff,
      Shutdown, ColdReset, Outcomes
<1>5. ASSUME NEW v \in Worker, WorkerStep(v)
      PROVE  debt'[d] = None
  <2>1. CASE SyncDisk(v) \/ Settle(v)
    <3>1. Min(todo[v]) \in Disk
      BY <2>1, FirstDisk DEF SyncDisk, Settle, TypeOK
    <3> QED
      BY <1>1, <1>2, <2>1, <3>1 DEF SyncDisk, Settle, Barrier, FullSync
  <2>2. CASE Publish(v)
    <3>1. weak[v] \cap Answered(v) = {}
      BY <2>2 DEF Publish, BatchOK, Answered
    <3> QED
      BY <2>2, <3>1 DEF Publish
  <2> QED
    BY <1>1, <1>5, <2>1, <2>2 DEF WorkerStep, Receive, Awake, Settled, Ends
<1> QED
  BY <1>3, <1>4, <1>5 DEF Next

(* Every step keeps what is said of the debts. *)
LEMMA DebtStep ==
  ASSUME TypeOK, \A w \in Worker : BatchOK(w), DebtOK, [Next]_vars
  PROVE  DebtOK'
<1>1. CASE Next
  <2>1. mode' = mode
    BY <1>1 DEF Next, Controller, WorkerStep, StartWrite, EndWrite, DeferFlush, StartFails,
       FlushInline, CacheOff, Shutdown, ColdReset, Receive, SyncDisk, Publish, Awake, Settle,
       Settled, Ends, Tick, controller, setting
  <2>2. ASSUME mode = "durable", NEW d \in Disk
        PROVE  debt'[d] = None
    BY <1>1, <2>2, DurableStep DEF DebtOK
  <2>3. ASSUME mode = "ordered", ~Failures, NEW d \in Disk, debt'[d] # None
        PROVE  \E w \in Worker : Pays(w, d)'
    BY <1>1, <2>3, OrderedStep DEF DebtOK
  <2> QED
    BY <2>1, <2>2, <2>3 DEF DebtOK, None
<1>2. CASE UNCHANGED vars
  BY <1>2 DEF vars, controller, setting, disks, queue, syncs, timer, owes, DebtOK, Pays
<1> QED
  BY <1>1, <1>2

(* Data that was written after a shutdown was reported complete would have been
   in flight, and nothing is.                                              *)
LEMMA ShutdownStep ==
  ASSUME TypeOK, ShutdownDurable, [Next]_vars
  PROVE  ShutdownDurable'
<1> USE DEF ShutdownDurable, vars, controller, setting, disks, queue, syncs, timer, owes
<1>1. ASSUME UNCHANGED <<shst, writing>>,
             UNCHANGED dirty \/ \E D \in SUBSET Disk : Durable(D)
      PROVE  ShutdownDurable'
  BY <1>1 DEF Durable
<1>2. ASSUME NEW d \in Disk, StartWrite(d) \/ EndWrite(d)
      PROVE  ShutdownDurable'
  BY <1>2 DEF StartWrite, EndWrite
<1>3. ASSUME NEW D \in SUBSET Disk, DeferFlush(D) \/ FlushInline(D)
      PROVE  ShutdownDurable'
  BY <1>1, <1>3, InlineSync DEF DeferFlush, FlushInline
<1>4. CASE StartFails \/ CacheOff
  BY <1>1, <1>4, InlineSync DEF StartFails, CacheOff
<1>5. CASE Shutdown
  <2>1. shst' = "complete" => Durable(Disk) /\ writing' = {}
    <3>1. ASSUME shst' = "complete" PROVE Durable(Disk \ {}) /\ writing' = {}
      BY <1>5, <3>1 DEF Shutdown
    <3>2. Disk \ {} = Disk
      OBVIOUS
    <3> QED
      BY <3>1, <3>2
  <2> QED
    BY <2>1, Synced DEF TypeOK, Durable
<1>6. CASE ColdReset
  BY <1>6 DEF ColdReset
<1>7. ASSUME NEW w \in Worker, WorkerStep(w)
      PROVE  ShutdownDurable'
  <2>1. CASE SyncDisk(w) \/ Settle(w)
    <3>1. Min(todo[w]) \in Disk
      BY <2>1, FirstDisk DEF SyncDisk, Settle, TypeOK
    <3> QED
      BY <1>1, <2>1, <3>1 DEF SyncDisk, Settle, Barrier, FullSync
  <2> QED
    BY <1>1, <1>7, <2>1 DEF WorkerStep, Receive, Publish, Awake, Settled, Ends
<1>8. CASE Tick \/ UNCHANGED vars
  BY <1>1, <1>8 DEF Tick
<1> QED
  BY <1>2, <1>3, <1>4, <1>5, <1>6, <1>7, <1>8 DEF Next, Controller

-----------------------------------------------------------------------------
(* The theorems *)

(* Where the program starts, the invariant holds. *)
LEMMA DurableInit == Init => DurableInv
<1> SUFFICES ASSUME Init PROVE DurableInv
  OBVIOUS
<1>1. TypeOK
  BY Times, Settings DEF Init, TypeOK, None, Bound
<1>2. \A w \in Worker : BatchOK(w)
  BY DEF Init, BatchOK
<1>3. DebtOK
  BY DEF Init, DebtOK
<1>4. ShutdownDurable
  BY DEF Init, ShutdownDurable
<1> QED
  BY <1>1, <1>2, <1>3, <1>4 DEF DurableInv

(* The invariant: the values of the variables, the disks of each batch, the
   payer of each debt, and what a shutdown leaves behind.                  *)
THEOREM DurableInvariant == Spec => []DurableInv
<1>1. Init => DurableInv
  BY DurableInit
<1>2. DurableInv /\ [Next]_vars => DurableInv'
  BY TypeStep, BatchStep, DebtStep, ShutdownStep DEF DurableInv
<1> QED
  BY <1>1, <1>2, PTL DEF Spec

(* The flush workers and the controller keep their variables in their sets, and
   a worker fully syncs and fails no disk that its batch is not for.       *)
THEOREM DurableTypes == Spec => []TypeOK
<1>1. DurableInv => TypeOK
  BY DEF DurableInv
<1> QED
  BY <1>1, DurableInvariant, PTL

(* What the flush worker answers is durable within the interval and the lag of
   one iteration in the ordered mode, and at once in the durable one, for any
   number of workers let go and started anew.                              *)
THEOREM AcknowledgedInTime == Spec => []DurableWithin
<1>1. ASSUME TypeOK, DebtOK PROVE DurableWithin
  <2> SUFFICES ASSUME NEW d \in Disk PROVE debt[d] <= Promise
    BY DEF DurableWithin
  <2>1. debt[d] \in None .. Bound + 1 /\ Bound \in Nat /\ Within \in Nat /\ Lag \in Nat
    BY <1>1, Times DEF TypeOK, Bound
  <2>2. CASE mode = "durable"
    <3>1. Promise = None
      BY <2>2 DEF Promise
    <3>2. debt[d] = None
      BY <1>1, <2>2 DEF DebtOK
    <3> QED
      BY <3>1, <3>2 DEF None
  <2>3. CASE mode = "ordered" /\ ~Failures
    <3>1. Promise = Bound
      BY <2>3, Zenon DEF Promise
    <3>2. ASSUME NEW w \in Worker, Pays(w, d)
          PROVE  debt[d] <= Bound
      <4>1. due[w] \in None .. Within /\ spent[w] \in 0 .. Lag
        BY <1>1 DEF TypeOK
      <4>2. pc[w] \in {"recv", "sync", "settle", "last"}
        BY <1>1, <3>2 DEF TypeOK, Pays
      <4> QED
        BY <2>1, <3>2, <4>1, <4>2 DEF Pays, None, Bound
    <3>3. debt[d] # None => \E w \in Worker : Pays(w, d)
      BY <1>1, <2>3 DEF DebtOK
    <3> QED
      BY <2>1, <3>1, <3>2, <3>3 DEF None
  <2>4. CASE mode # "durable" /\ ~(mode = "ordered" /\ ~Failures)
    <3>1. Promise = Bound + 1
      BY <2>4, Zenon DEF Promise
    <3> QED
      BY <2>1, <3>1
  <2> QED
    BY <2>2, <2>3, <2>4
<1>2. DurableInv => DurableWithin
  BY <1>1 DEF DurableInv
<1> QED
  BY <1>2, DurableInvariant, PTL

(* A guest that sees CSTS.SHST = complete has lost nothing: the shutdown waited
   for the transfers in flight and synced every disk, whatever the mode.   *)
THEOREM ShutdownLosesNothing == Spec => []ShutdownDurable
<1>1. DurableInv => ShutdownDurable
  BY DEF DurableInv
<1> QED
  BY <1>1, DurableInvariant, PTL

(* A worker strikes a debt off when it has synced the disk fully or ends. *)
THEOREM DebtsStand == Spec => DebtKept
<1> USE DEF controller, disks, queue, syncs, timer, owes
<1> DEFINE Kept == \A w \in Worker : \A d \in owed[w] \ owed'[w] :
                      debt'[d] = None \/ pc'[w] = "off"
<1>1. ASSUME TypeOK, Next PROVE Kept
  <2>1. CASE owed' = owed
    BY <2>1
  <2>2. ASSUME NEW v \in Worker, SyncDisk(v) \/ Settle(v)
        PROVE  Kept
    <3> DEFINE e == Min(todo[v])
    <3>1. e \in Disk
      BY <1>1, <2>2, FirstDisk DEF SyncDisk, Settle, TypeOK
    <3> HIDE DEF e
    <3>2. owed' = owed \/ Barrier(v, e) \/ FullSync(v, e)
      BY <2>2 DEF SyncDisk, Settle, e
    <3>3. CASE Barrier(v, e)
      BY <1>1, <3>3 DEF Barrier, TypeOK
    <3>4. CASE FullSync(v, e)
      <4>1. debt'[e] = None /\ owed' = [owed EXCEPT ![v] = @ \ {e}]
        BY <1>1, <3>1, <3>4, Synced DEF FullSync
      <4> QED
        BY <1>1, <4>1 DEF TypeOK
    <3> QED
      BY <2>1, <3>2, <3>3, <3>4
  <2>3. ASSUME NEW v \in Worker, Ends(v)
        PROVE  Kept
    BY <1>1, <2>3 DEF Ends, TypeOK
  <2>4. CASE Controller
    BY <2>1, <2>4
    DEF Controller, StartWrite, EndWrite, DeferFlush, FlushInline, StartFails, CacheOff,
        Shutdown, ColdReset
  <2>5. CASE Tick
    BY <2>1, <2>5 DEF Tick
  <2>6. ASSUME NEW v \in Worker, WorkerStep(v)
        PROVE  Kept
    BY <2>1, <2>2, <2>3, <2>6 DEF WorkerStep, Receive, Publish, Awake, Settled
  <2> QED
    BY <1>1, <2>4, <2>5, <2>6 DEF Next
<1>2. TypeOK /\ [Next]_vars => [Kept]_vars
  BY <1>1
<1> HIDE DEF Kept
<1>3. Spec => [][Kept]_vars
  BY <1>2, DurableTypes, PTL DEF Spec
<1> QED
  BY <1>3 DEF DebtKept, Kept
=============================================================================
