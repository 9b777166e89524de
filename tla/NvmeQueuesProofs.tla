------------------------- MODULE NvmeQueuesProofs -------------------------
(***************************************************************************)
(* Safety theorems of NvmeQueues, for every set of queues and commands and *)
(* every ring size: one inductive invariant (module NvmeInvariant), shown  *)
(* part by part to survive every step.                                     *)
(***************************************************************************)
EXTENDS NvmeInvariant, FiniteSetTheorems, TLAPS

-----------------------------------------------------------------------------
(* Ring arithmetic *)

(* Succ stays on the ring. *)
LEMMA SuccOnRing ==
  ASSUME NEW n \in Nat \ {0}, NEW i \in Nat, i < n
  PROVE  Succ(i, n) \in Nat /\ Succ(i, n) < n
BY DEF Succ

(* Dist stays on the ring. *)
LEMMA DistOnRing ==
  ASSUME NEW n \in Nat \ {0}, NEW h \in Nat, NEW t \in Nat, h < n, t < n
  PROVE  Dist(h, t, n) \in Nat /\ Dist(h, t, n) < n /\ Dist(h, h, n) = 0
BY DEF Dist

(* Posting one entry moves the tail one further from the head, as long as a
   slot stays empty.                                                       *)
LEMMA DistOfSucc ==
  ASSUME NEW n \in Nat \ {0}, NEW h \in Nat, NEW t \in Nat, h < n, t < n,
         Dist(h, t, n) + 1 < n
  PROVE  Dist(h, Succ(t, n), n) = Dist(h, t, n) + 1
BY DEF Dist, Succ

(* Between two indices of a ring: consuming from g towards t frees room. *)
LEMMA DistOfHead ==
  ASSUME NEW n \in Nat \ {0}, NEW h \in Nat, NEW g \in Nat, NEW t \in Nat,
         h < n, g < n, t < n, Dist(h, g, n) <= Dist(h, t, n)
  PROVE  Dist(g, t, n) <= Dist(h, t, n)
BY DEF Dist

-----------------------------------------------------------------------------
(* Counting jobs *)

(* The jobs on c and those on other rings share out a pool. *)
LEMMA Shares ==
  ASSUME NEW S, IsFiniteSet(S), NEW c
  PROVE  /\ IsFiniteSet(Of(S, c)) /\ IsFiniteSet(Others(S, c))
         /\ Cardinality(Of(S, c)) \in Nat /\ Cardinality(Others(S, c)) \in Nat
         /\ Cardinality(S) \in Nat
         /\ Cardinality(S) = Cardinality(Of(S, c)) + Cardinality(Others(S, c))
<1>1. Of(S, c) \in SUBSET S /\ Others(S, c) \in SUBSET S
  BY DEF Of, Others
<1>2. IsFiniteSet(Of(S, c)) /\ IsFiniteSet(Others(S, c))
  BY <1>1, FS_Subset
<1>3. Of(S, c) \cup Others(S, c) = S /\ Of(S, c) \cap Others(S, c) = {}
  BY DEF Of, Others
<1>4. Cardinality(S) = Cardinality(Of(S, c)) + Cardinality(Others(S, c)) - 0
  BY <1>2, <1>3, FS_Union, FS_EmptySet
<1> QED
  BY <1>2, <1>4, FS_CardinalityType

(* A pool that gains a job grows by at most one, on that job's ring. *)
LEMMA Gains ==
  ASSUME NEW S, IsFiniteSet(S), NEW j, NEW c
  PROVE  /\ IsFiniteSet(S \cup {j})
         /\ Cardinality(Of(S \cup {j}, c))
              <= Cardinality(Of(S, c)) + (IF j.cqid = c THEN 1 ELSE 0)
         /\ Cardinality(Others(S \cup {j}, c))
              <= Cardinality(Others(S, c)) + (IF j.cqid = c THEN 0 ELSE 1)
<1>1. IsFiniteSet(Of(S, c)) /\ IsFiniteSet(Others(S, c))
      /\ Cardinality(Of(S, c)) \in Nat /\ Cardinality(Others(S, c)) \in Nat
  BY Shares
<1>2. IsFiniteSet(S \cup {j})
  BY FS_AddElement
<1>3. ASSUME NEW T, IsFiniteSet(T)
      PROVE  Cardinality(T \cup {j}) <= Cardinality(T) + 1
  <2>1. Cardinality(T) \in Nat
    BY <1>3, FS_CardinalityType
  <2> QED BY <1>3, <2>1, FS_AddElement
<1>4. CASE j.cqid = c
  <2>1. Of(S \cup {j}, c) = Of(S, c) \cup {j} /\ Others(S \cup {j}, c) = Others(S, c)
    BY <1>4 DEF Of, Others
  <2> QED BY <1>1, <1>2, <1>3, <1>4, <2>1
<1>5. CASE j.cqid # c
  <2>1. Others(S \cup {j}, c) = Others(S, c) \cup {j} /\ Of(S \cup {j}, c) = Of(S, c)
    BY <1>5 DEF Of, Others
  <2> QED BY <1>1, <1>2, <1>3, <1>5, <2>1
<1> QED BY <1>4, <1>5

(* A pool that loses a job shrinks by one, on that job's ring. *)
LEMMA Loses ==
  ASSUME NEW S, IsFiniteSet(S), NEW j \in S, NEW c
  PROVE  /\ IsFiniteSet(S \ {j})
         /\ Cardinality(Of(S \ {j}, c))
              = Cardinality(Of(S, c)) - (IF j.cqid = c THEN 1 ELSE 0)
         /\ Cardinality(Others(S \ {j}, c))
              = Cardinality(Others(S, c)) - (IF j.cqid = c THEN 0 ELSE 1)
<1>1. IsFiniteSet(Of(S, c)) /\ IsFiniteSet(Others(S, c))
      /\ Cardinality(Of(S, c)) \in Nat /\ Cardinality(Others(S, c)) \in Nat
  BY Shares
<1>2. IsFiniteSet(S \ {j})
  BY FS_RemoveElement
<1>3. ASSUME NEW T, IsFiniteSet(T), j \in T
      PROVE  Cardinality(T \ {j}) = Cardinality(T) - 1
  BY <1>3, FS_RemoveElement
<1>4. CASE j.cqid = c
  <2>1. Of(S \ {j}, c) = Of(S, c) \ {j} /\ Others(S \ {j}, c) = Others(S, c)
        /\ j \in Of(S, c)
    BY <1>4 DEF Of, Others
  <2>2. Cardinality(Of(S \ {j}, c)) = Cardinality(Of(S, c)) - 1
    BY <1>1, <1>3, <2>1
  <2> QED BY <1>1, <1>2, <1>4, <2>1, <2>2
<1>5. CASE j.cqid # c
  <2>1. Others(S \ {j}, c) = Others(S, c) \ {j} /\ Of(S \ {j}, c) = Of(S, c)
        /\ j \in Others(S, c)
    BY <1>5 DEF Of, Others
  <2> QED BY <1>1, <1>2, <1>3, <1>5, <2>1
<1> QED BY <1>4, <1>5

(* Failing the jobs of a pool does not multiply them. *)
LEMMA FailedNoMore ==
  ASSUME NEW S, IsFiniteSet(S)
  PROVE  IsFiniteSet(Failed(S)) /\ Cardinality(Failed(S)) <= Cardinality(S)
<1> DEFINE f == [j \in S |-> [j EXCEPT !.ok = FALSE, !.sync = FALSE]]
<1>1. f \in Surjection(S, Failed(S))
  BY DEF Surjection, Failed
<1> QED BY <1>1, FS_Surjection

(* Failed jobs join a pool, each on its own ring. *)
LEMMA JoinFailed ==
  ASSUME NEW S \in SUBSET Job, IsFiniteSet(S), NEW T, IsFiniteSet(T), NEW c
  PROVE  /\ IsFiniteSet(T \cup Failed(S))
         /\ Cardinality(Of(T \cup Failed(S), c))
              <= Cardinality(Of(T, c)) + Cardinality(Of(S, c))
         /\ Cardinality(Others(T \cup Failed(S), c))
              <= Cardinality(Others(T, c)) + Cardinality(Others(S, c))
<1>1. /\ Of(T \cup Failed(S), c) = Of(T, c) \cup Failed(Of(S, c))
      /\ Others(T \cup Failed(S), c) = Others(T, c) \cup Failed(Others(S, c))
  BY DEF Of, Others, Failed, Job
<1>2. ASSUME NEW A, NEW B, IsFiniteSet(A), IsFiniteSet(B)
      PROVE  Cardinality(A \cup Failed(B)) <= Cardinality(A) + Cardinality(B)
  <2>1. IsFiniteSet(Failed(B)) /\ Cardinality(Failed(B)) <= Cardinality(B)
    BY <1>2, FailedNoMore
  <2>2. IsFiniteSet(A \cap Failed(B))
    BY <2>1, FS_Subset, A \cap Failed(B) \in SUBSET Failed(B)
  <2>3. /\ Cardinality(A) \in Nat /\ Cardinality(B) \in Nat
        /\ Cardinality(Failed(B)) \in Nat /\ Cardinality(A \cap Failed(B)) \in Nat
    BY <1>2, <2>1, <2>2, FS_CardinalityType
  <2>4. Cardinality(A \cup Failed(B))
          = Cardinality(A) + Cardinality(Failed(B)) - Cardinality(A \cap Failed(B))
    BY <1>2, <2>1, FS_Union
  <2> QED BY <2>1, <2>3, <2>4
<1>3. IsFiniteSet(T \cup Failed(S))
  BY FailedNoMore, FS_Union
<1> QED BY <1>1, <1>2, <1>3, Shares
-----------------------------------------------------------------------------
(* Types *)

(* Register and setting values. *)
LEMMA RegistersStep ==
  ASSUME TypeOK, [Next]_vars
  PROVE  RegistersOK'
<1> USE DEF RegistersOK, TypeOK, regs, setup, rings, pools, counts, holder, memory, driver
<1>1. CASE Holder
  <2>1. CASE ApplyCc
    <3>1. shst' = shst \/ shst' \in {"none", "processing", "complete"}
      BY <2>1 DEF ApplyCc, Enable, Disable, KeepEnable, ColdReset, Shutdown
    <3>2. en' \in BOOLEAN /\ (aer' = aer \/ aer' = 0)
      BY <2>1 DEF ApplyCc, Enable, Disable, KeepEnable, ColdReset
    <3>3. async' = async /\ (worker' = worker \/ worker' = FALSE)
      BY <2>1 DEF ApplyCc, Enable, Disable, KeepEnable, ColdReset
    <3>4. aer' \in Nat
      BY <3>2
    <3>5. async' \in BOOLEAN /\ worker' \in BOOLEAN
      BY <3>3
    <3>6. shst' \in {"none", "processing", "complete"}
      BY <3>1
    <3> QED BY <3>2, <3>4, <3>5, <3>6
  <2>2. CASE \E cmd \in AdminCmd : FetchAdmin(cmd)
    <3>1. aer' \in {aer, aer + 1}
      BY <2>2 DEF FetchAdmin, CreateCq, CreateSq, DeleteSq, DeleteCq, AsyncEvent, OtherAdmin
    <3> QED BY <2>2, <3>1 DEF FetchAdmin
  <2>3. CASE EnterProcess \/ TakeFinished \/ AllPosted \/ LeaveSq \/ Unlock
    BY <2>3 DEF EnterProcess, TakeFinished, AllPosted, LeaveSq, Unlock
  <2>4. CASE \E j \in taking : SyncFinished(j) \/ \E ok \in BOOLEAN : PostFinished(j, ok)
    BY <2>4 DEF SyncFinished, PostFinished, DeferFlush, FlushInline
  <2>5. CASE \E q \in IoQ, cmd \in IoCmd :
               \/ FetchFlush(q, cmd) \/ FetchIo(q, cmd)
               \/ \E ok \in BOOLEAN : FetchInline(q, cmd, ok)
    <3>1. UNCHANGED <<en, shst, aer>>
      BY <2>5 DEF FetchFlush, FetchIo, FetchInline
    <3>2. async' = async \/ async' = FALSE
      BY <2>5 DEF FetchFlush, FetchIo, FetchInline, DeferFlush, FlushInline
    <3>3. worker' = worker \/ worker' = TRUE
      BY <2>5 DEF FetchFlush, FetchIo, FetchInline, DeferFlush, FlushInline
    <3> QED BY <3>1, <3>2, <3>3
  <2> QED BY <1>1, <2>1, <2>2, <2>3, <2>4, <2>5 DEF Holder
<1>2. CASE Transfers \/ Syncs \/ Drain \/ Registers
  <2>1. UNCHANGED <<regs, setup>>
    BY <1>2 DEF Transfers, Syncs, Drain, Registers, FinishIo, FinishFlush, RingSq,
                RingCq, OtherWrite, BeginCc
  <2> QED BY <2>1
<1>3. CASE (\E q \in Q, cmd \in Cmd : Submit(q, cmd)) \/ \E c \in Q : Reap(c)
  <2>1. CASE \E q \in Q, cmd \in Cmd : Submit(q, cmd)
    BY <2>1 DEF Submit
  <2>2. CASE \E c \in Q : Reap(c)
    BY <2>2 DEF Reap
  <2> QED BY <1>3, <2>1, <2>2
<1>4. CASE UNCHANGED vars
  BY <1>4 DEF vars
<1> QED BY <1>1, <1>2, <1>3, <1>4 DEF Next

(* Queue identifiers and ring sizes. *)
LEMMA Consts ==
  /\ 0 \in Q /\ Q \subseteq Nat /\ IoQ \subseteq Q /\ 0 \notin IoQ
  /\ \A q \in Q : SqSize[q] \in Nat /\ SqSize[q] > 1
  /\ \A c \in Q : CqSize[c] \in Nat /\ CqSize[c] > 1
BY QueueIds, RingSizes DEF Q

(* Submission rings keep their shape. *)
LEMMA SqShapes ==
  ASSUME NEW f \in SqRings, NEW q \in Q
  PROVE  /\ [f EXCEPT ![q].head = Succ(@, SqSize[q])] \in SqRings
         /\ [f EXCEPT ![q] = NoSq] \in SqRings
         /\ \A c \in Q : [f EXCEPT ![q] = NewSq(c)] \in SqRings
         /\ \A t \in Nat : t < SqSize[q] => [f EXCEPT ![q].tail = t] \in SqRings
         /\ [p \in Q |-> NoSq] \in SqRings
<1> DEFINE Ring == [live : BOOLEAN, head : Nat, tail : Nat, cqid : Q]
<1>1. ASSUME NEW r \in Ring, r.head < SqSize[q], r.tail < SqSize[q]
      PROVE  [f EXCEPT ![q] = r] \in SqRings
  BY <1>1 DEF SqRings
<1>2. f[q] \in Ring /\ f[q].head < SqSize[q] /\ f[q].tail < SqSize[q]
  BY DEF SqRings
<1>3. [f EXCEPT ![q].head = Succ(@, SqSize[q])] \in SqRings
  <2> DEFINE r == [f[q] EXCEPT !.head = Succ(@, SqSize[q])]
  <2>1. Succ(f[q].head, SqSize[q]) \in Nat /\ Succ(f[q].head, SqSize[q]) < SqSize[q]
    BY <1>2, Consts, SuccOnRing
  <2>2. r \in Ring /\ r.head < SqSize[q] /\ r.tail < SqSize[q]
    BY <1>2, <2>1
  <2>3. [f EXCEPT ![q] = r] \in SqRings
    BY <1>1, <2>2
  <2> QED BY <2>3
<1>4. NoSq \in Ring /\ NoSq.head = 0 /\ NoSq.tail = 0
  BY Consts DEF NoSq
<1>5. \A c \in Q : NewSq(c) \in Ring /\ NewSq(c).head = 0 /\ NewSq(c).tail = 0
  BY Consts DEF NewSq
<1>6. ASSUME NEW t \in Nat, t < SqSize[q]
      PROVE  [f EXCEPT ![q].tail = t] \in SqRings
  <2> DEFINE r == [f[q] EXCEPT !.tail = t]
  <2>1. r \in Ring /\ r.head < SqSize[q] /\ r.tail < SqSize[q]
    BY <1>2, <1>6
  <2>2. [f EXCEPT ![q] = r] \in SqRings
    BY <1>1, <2>1
  <2> QED BY <2>2
<1>7. [p \in Q |-> NoSq] \in SqRings
  BY <1>4, Consts DEF SqRings
<1>8. [f EXCEPT ![q] = NoSq] \in SqRings
  BY <1>1, <1>4, Consts
<1>9. \A c \in Q : [f EXCEPT ![q] = NewSq(c)] \in SqRings
  BY <1>1, <1>5, Consts
<1> QED BY <1>3, <1>6, <1>7, <1>8, <1>9

(* Completion rings keep their shape. *)
LEMMA CqShapes ==
  ASSUME NEW f \in CqRings, NEW c \in Q
  PROVE  /\ Posted(f, c) \in CqRings
         /\ [f EXCEPT ![c] = NoCq] \in CqRings
         /\ [f EXCEPT ![c] = NewCq] \in CqRings
         /\ \A h \in Nat : h < CqSize[c] => [f EXCEPT ![c].head = h] \in CqRings
         /\ [p \in Q |-> NoCq] \in CqRings
<1> DEFINE Ring == [live : BOOLEAN, head : Nat, tail : Nat, phase : BOOLEAN]
<1>1. ASSUME NEW r \in Ring, r.head < CqSize[c], r.tail < CqSize[c]
      PROVE  [f EXCEPT ![c] = r] \in CqRings
  BY <1>1 DEF CqRings
<1>2. f[c] \in Ring /\ f[c].head < CqSize[c] /\ f[c].tail < CqSize[c]
  BY DEF CqRings
<1>3. Posted(f, c) \in CqRings
  <2>1. Succ(f[c].tail, CqSize[c]) \in Nat /\ Succ(f[c].tail, CqSize[c]) < CqSize[c]
    BY <1>2, Consts, SuccOnRing
  <2>2. Posted(f, c) \in [Q -> Ring]
    BY <2>1 DEF Posted, CqRings
  <2>3. \A d \in Q : Posted(f, c)[d].head = f[d].head
    BY DEF Posted, CqRings
  <2>4. \A d \in Q : Posted(f, c)[d].tail < CqSize[d]
    BY <2>1 DEF Posted, CqRings
  <2> QED BY <2>2, <2>3, <2>4 DEF CqRings
<1>4. /\ NoCq \in Ring /\ NoCq.head = 0 /\ NoCq.tail = 0
      /\ NewCq \in Ring /\ NewCq.head = 0 /\ NewCq.tail = 0
  BY DEF NoCq, NewCq
<1>5. ASSUME NEW h \in Nat, h < CqSize[c]
      PROVE  [f EXCEPT ![c].head = h] \in CqRings
  <2> DEFINE r == [f[c] EXCEPT !.head = h]
  <2>1. r \in Ring /\ r.head < CqSize[c] /\ r.tail < CqSize[c]
    BY <1>2, <1>5
  <2>2. [f EXCEPT ![c] = r] \in CqRings
    BY <1>1, <2>1
  <2> QED BY <2>2
<1>6. [p \in Q |-> NoCq] \in CqRings
  BY <1>4, Consts DEF CqRings
<1>7. [f EXCEPT ![c] = NoCq] \in CqRings
  BY <1>1, <1>4, Consts
<1>8. [f EXCEPT ![c] = NewCq] \in CqRings
  BY <1>1, <1>4, Consts
<1> QED BY <1>3, <1>5, <1>6, <1>7, <1>8

(* Ring indices. *)
LEMMA RingsStep ==
  ASSUME TypeOK, [Next]_vars
  PROVE  RingsOK'
<1> USE DEF TypeOK, RingsOK, regs, setup, rings, pools, counts, holder, memory, driver
<1>1. CASE Holder
  <2>1. CASE ApplyCc
    <3>1. sq' = sq \/ sq' = [sq EXCEPT ![0] = NewSq(0)] \/ sq' = [q \in Q |-> NoSq]
      BY <2>1 DEF ApplyCc, Enable, Disable, KeepEnable, ColdReset
    <3>2. cq' = cq \/ cq' = [cq EXCEPT ![0] = NewCq] \/ cq' = [c \in Q |-> NoCq]
      BY <2>1 DEF ApplyCc, Enable, Disable, KeepEnable, ColdReset
    <3>3. pending' = pending \/ pending' = {}
      BY <2>1 DEF ApplyCc, Enable, Disable, KeepEnable, ColdReset
    <3>4. sq' \in SqRings
      <4>1. sq \in SqRings /\ 0 \in Q
        BY Consts
      <4>2. [sq EXCEPT ![0] = NewSq(0)] \in SqRings /\ [q \in Q |-> NoSq] \in SqRings
        BY <4>1, SqShapes
      <4> QED BY ONLY <3>1, <4>1, <4>2
    <3>5. cq' \in CqRings
      <4>1. cq \in CqRings /\ 0 \in Q
        BY Consts
      <4>2. [cq EXCEPT ![0] = NewCq] \in CqRings /\ [c \in Q |-> NoCq] \in CqRings
        BY <4>1, CqShapes
      <4> QED BY ONLY <3>2, <4>1, <4>2
    <3> QED BY <3>3, <3>4, <3>5
  <2>2. ASSUME NEW cmd \in AdminCmd, FetchAdmin(cmd)
        PROVE  RingsOK'
    <3> USE DEF Answer
    <3>1. cmd.q \in Q /\ cmd.cq \in Q
      BY Commands, Consts
    <3>2. Advanced(0) \in SqRings
      BY Consts, SqShapes DEF Advanced
    <3>3. CASE CreateCq(cmd)
      <4>1. [cq EXCEPT ![cmd.q] = NewCq] \in CqRings
        BY <3>1, CqShapes
      <4>2. Posted(cq, 0) \in CqRings /\ Posted([cq EXCEPT ![cmd.q] = NewCq], 0) \in CqRings
        BY <4>1, CqShapes, Consts
      <4>3. cq' = Posted(cq, 0) \/ cq' = Posted([cq EXCEPT ![cmd.q] = NewCq], 0)
        BY <3>3 DEF CreateCq
      <4>4. sq' = Advanced(0)
        BY <3>3 DEF CreateCq
      <4>5. pending' = pending
        BY <3>3 DEF CreateCq
      <4> QED BY <3>2, <4>2, <4>3, <4>4, <4>5
    <3>4. CASE CreateSq(cmd)
      <4>1. [Advanced(0) EXCEPT ![cmd.q] = NewSq(cmd.cq)] \in SqRings
        BY <3>1, <3>2, SqShapes
      <4>2. Posted(cq, 0) \in CqRings
        BY CqShapes, Consts
      <4> QED BY <3>2, <3>4, <4>1, <4>2 DEF CreateSq
    <3>5. CASE DeleteSq(cmd)
      BY <3>1, <3>2, <3>5, CqShapes, SqShapes, Consts DEF DeleteSq
    <3>6. CASE DeleteCq(cmd)
      BY <3>1, <3>2, <3>6, CqShapes, Consts DEF DeleteCq
    <3>7. CASE AsyncEvent(cmd) \/ OtherAdmin(cmd)
      BY <3>2, <3>7, CqShapes, Consts DEF AsyncEvent, OtherAdmin
    <3> QED BY <2>2, <3>3, <3>4, <3>5, <3>6, <3>7 DEF FetchAdmin
  <2>3. CASE EnterProcess \/ TakeFinished \/ AllPosted \/ Unlock
    BY <2>3 DEF EnterProcess, TakeFinished, AllPosted, Unlock
  <2>4. CASE LeaveSq
    BY <2>4 DEF LeaveSq
  <2>5. ASSUME NEW j \in taking,
               SyncFinished(j) \/ \E ok \in BOOLEAN : PostFinished(j, ok)
        PROVE  RingsOK'
    <3>1. j.cqid \in Q
      BY DEF JobsOK, Job
    <3> QED BY <2>5, <3>1, CqShapes DEF SyncFinished, PostFinished
  <2>6. ASSUME NEW q \in IoQ, NEW cmd \in IoCmd,
               \/ FetchFlush(q, cmd) \/ FetchIo(q, cmd)
               \/ \E ok \in BOOLEAN : FetchInline(q, cmd, ok)
        PROVE  RingsOK'
    <3>1. Advanced(q) \in SqRings
      BY Consts, SqShapes DEF Advanced
    <3>2. sq[q].cqid \in Q
      BY Consts DEF SqRings
    <3> QED BY <2>6, <3>1, <3>2, CqShapes DEF FetchFlush, FetchIo, FetchInline
  <2> QED BY <1>1, <2>1, <2>2, <2>3, <2>4, <2>5, <2>6 DEF Holder
<1>2. CASE Transfers \/ Syncs \/ Drain
  BY <1>2 DEF Transfers, Syncs, Drain, FinishIo, FinishFlush
<1>3. CASE Registers
  <2>1. ASSUME NEW q \in Q, RingSq(q)
        PROVE  RingsOK'
    <3>1. gTail[q] \in Nat /\ gTail[q] < SqSize[q]
      BY DEF DriverOK
    <3>2. [sq EXCEPT ![q].tail = gTail[q]] \in SqRings
      BY <3>1, SqShapes
    <3> QED BY <2>1, <3>2 DEF RingSq
  <2>2. ASSUME NEW c \in Q, RingCq(c)
        PROVE  RingsOK'
    <3>1. gCqHead[c] \in Nat /\ gCqHead[c] < CqSize[c]
      BY DEF DriverOK
    <3>2. [cq EXCEPT ![c].head = gCqHead[c]] \in CqRings
      BY <3>1, CqShapes
    <3> QED BY <2>2, <3>2 DEF RingCq
  <2>3. CASE OtherWrite \/ \E w \in CcWrites : BeginCc(w)
    BY <2>3 DEF OtherWrite, BeginCc
  <2> QED BY <1>3, <2>1, <2>2, <2>3 DEF Registers
<1>4. CASE (\E q \in Q, cmd \in Cmd : Submit(q, cmd)) \/ \E c \in Q : Reap(c)
  <2>1. CASE \E q \in Q, cmd \in Cmd : Submit(q, cmd)
    BY <2>1 DEF Submit
  <2>2. CASE \E c \in Q : Reap(c)
    BY <2>2 DEF Reap
  <2> QED BY <1>4, <2>1, <2>2
<1>5. CASE UNCHANGED vars
  BY <1>5 DEF vars
<1> QED BY <1>1, <1>2, <1>3, <1>4, <1>5 DEF Next

(* The lock holder's own state. *)
LEMMA HolderStep ==
  ASSUME TypeOK, [Next]_vars
  PROVE  HolderOK'
<1> USE DEF TypeOK, HolderOK, holder
<1>1. CASE Holder
  <2>1. CASE ApplyCc
    <3>1. NoReq \in CcWrite
      BY DEF NoReq, CcWrite
    <3> QED BY <2>1, <3>1 DEF ApplyCc
  <2>2. CASE EnterProcess
    <3>1. pc' \in {"take", "scan"} /\ req' = req
      BY <2>2 DEF EnterProcess, StartScan
    <3>2. todo' \in SUBSET Q
      BY <2>2 DEF EnterProcess, StartScan, RingsOK
    <3>3. wait' \in BOOLEAN
      <4>1. UNCHANGED wait \/ wait' = (0 \in pending)
        BY <2>2 DEF EnterProcess
      <4>2. (0 \in pending) \in BOOLEAN
        OBVIOUS
      <4>3. CASE wait' = (0 \in pending)
        BY <4>2, <4>3, Zenon
      <4> QED BY <4>1, <4>3
    <3>4. poll' \in BOOLEAN
      BY <2>2 DEF EnterProcess
    <3> QED BY <3>1, <3>2, <3>3, <3>4
  <2>7. CASE TakeFinished
    BY <2>7 DEF TakeFinished
  <2>3. CASE AllPosted \/ LeaveSq \/ Unlock
    BY <2>3 DEF AllPosted, StartScan, LeaveSq, Unlock, RingsOK
  <2>4. CASE \E j \in taking : SyncFinished(j) \/ \E ok \in BOOLEAN : PostFinished(j, ok)
    BY <2>4 DEF SyncFinished, PostFinished
  <2>5. CASE \E cmd \in AdminCmd : FetchAdmin(cmd)
    BY <2>5 DEF FetchAdmin
  <2>6. CASE \E q \in IoQ, cmd \in IoCmd :
               \/ FetchFlush(q, cmd) \/ FetchIo(q, cmd)
               \/ \E ok \in BOOLEAN : FetchInline(q, cmd, ok)
    BY <2>6 DEF FetchFlush, FetchIo, FetchInline
  <2> QED BY <1>1, <2>1, <2>2, <2>3, <2>4, <2>5, <2>6, <2>7 DEF Holder
<1>2. CASE Transfers \/ Syncs \/ Drain
  BY <1>2 DEF Transfers, Syncs, Drain, FinishIo, FinishFlush
<1>3. CASE Registers
  <2>1. CASE \E q \in Q : (Knows(q) /\ RingSq(q)) \/ (Polls(q) /\ RingCq(q))
    BY <2>1 DEF RingSq, RingCq
  <2>2. CASE OtherWrite
    BY <2>2 DEF OtherWrite
  <2>3. CASE \E w \in CcWrites : BeginCc(w)
    BY <2>3, Settings DEF BeginCc
  <2> QED BY <1>3, <2>1, <2>2, <2>3 DEF Registers
<1>4. CASE (\E q \in Q, cmd \in Cmd : Submit(q, cmd)) \/ \E c \in Q : Reap(c)
  <2>1. CASE \E q \in Q, cmd \in Cmd : Submit(q, cmd)
    BY <2>1 DEF Submit
  <2>2. CASE \E c \in Q : Reap(c)
    BY <2>2 DEF Reap
  <2> QED BY <1>4, <2>1, <2>2
<1>5. CASE UNCHANGED vars
  BY <1>5 DEF vars
<1> QED BY <1>1, <1>2, <1>3, <1>4, <1>5 DEF Next

CqMemOK(m) == DOMAIN m = Q /\ \A c \in Q : m[c] \in [0..CqSize[c]-1 -> GoodEntry]

(* Completion ring memory keeps its shape when one entry changes ... *)
LEMMA EntryPut ==
  ASSUME NEW m, CqMemOK(m),
         NEW c \in Q, NEW i \in 0..CqSize[c]-1, NEW e \in GoodEntry
  PROVE  CqMemOK([m EXCEPT ![c][i] = e])
BY DEF CqMemOK

(* ... and when a ring is zeroed. *)
LEMMA ZeroedOK ==
  /\ \A p \in BOOLEAN : Zeroed(p) \in GoodEntry
  /\ \A c \in Q : [i \in 0..CqSize[c]-1 |-> Zeroed(FALSE)] \in [0..CqSize[c]-1 -> GoodEntry]
BY Consts DEF Zeroed, GoodEntry, Entry

(* post_completion writes a good entry. *)
LEMMA WrittenOK ==
  ASSUME NEW m, CqMemOK(m),
         cq \in CqRings, NEW c \in Q, NEW q \in Q, NEW cmd \in Cmd, NEW ok \in BOOLEAN,
         NEW h \in Nat, h < SqSize[q], q = 0 => cmd \in AdminCmd
  PROVE  CqMemOK(Written(m, c, q, cmd, ok, h))
<1> DEFINE e == [sqid |-> q, cmd |-> cmd, sqHead |-> h, ok |-> ok, phase |-> cq[c].phase]
<1>1. cq[c].tail \in 0..CqSize[c]-1 /\ cq[c].phase \in BOOLEAN
  BY Consts DEF CqRings
<1>2. e \in Entry
  BY <1>1 DEF Entry
<1>3. e \in GoodEntry
  BY <1>2 DEF GoodEntry
<1> HIDE DEF e
<1>4. Written(m, c, q, cmd, ok, h) = [m EXCEPT ![c][cq[c].tail] = e]
  BY DEF Written, e
<1>5. CqMemOK([m EXCEPT ![c][cq[c].tail] = e])
  BY <1>1, <1>3, EntryPut
<1> QED BY <1>4, <1>5

(* A command at the head of a queue, and the head after it. *)
LEMMA AdvancedHead ==
  ASSUME sq \in SqRings, NEW q \in Q
  PROVE  /\ Advanced(q)[q].head \in Nat /\ Advanced(q)[q].head < SqSize[q]
         /\ sq[q].head \in Nat /\ sq[q].head < SqSize[q]
<1>1. Advanced(q) \in SqRings
  BY SqShapes DEF Advanced
<1> QED BY <1>1 DEF SqRings

(* Completion ring memory. *)
LEMMA CqMemStep ==
  ASSUME TypeOK, JobsAreIo, EntriesOK, [Next]_vars
  PROVE  EntriesOK' /\ DOMAIN cqMem' = Q
<1> SUFFICES CqMemOK(cqMem')
  BY DEF CqMemOK, EntriesOK
<1>0. CqMemOK(cqMem)
  BY DEF CqMemOK, EntriesOK, TypeOK, MemoryOK
<1> USE <1>0 DEF memory
<1>1. CASE Holder
  <2>1. CASE ApplyCc
    <3>1. \/ cqMem' = cqMem \/ cqMem' = ZeroedCq(0)
          \/ cqMem' = [c \in Q |-> [i \in 0..CqSize[c]-1 |-> Zeroed(FALSE)]]
      BY <2>1 DEF ApplyCc, Enable, Disable, KeepEnable, ColdReset, DriverForgets
    <3>2. CqMemOK(ZeroedCq(0))
      BY Consts, ZeroedOK DEF ZeroedCq, CqMemOK
    <3>3. CqMemOK([c \in Q |-> [i \in 0..CqSize[c]-1 |-> Zeroed(FALSE)]])
      BY ZeroedOK DEF CqMemOK
    <3> QED BY <3>1, <3>2, <3>3
  <2>2. ASSUME NEW cmd \in AdminCmd, FetchAdmin(cmd)
        PROVE  CqMemOK(cqMem')
    <3> DEFINE after(mem, ok) == Written(mem, 0, 0, cmd, ok, Advanced(0)[0].head)
    <3>1. cmd.q \in Q /\ cmd \in Cmd
      BY Commands, Consts DEF Cmd
    <3>2. CqMemOK(ZeroedCq(cmd.q))
      BY <3>1, ZeroedOK DEF ZeroedCq, CqMemOK
    <3>3. ASSUME NEW ok \in BOOLEAN
          PROVE  CqMemOK(after(cqMem, ok)) /\ CqMemOK(after(ZeroedCq(cmd.q), ok))
      BY <3>1, <3>2, Consts, AdvancedHead, WrittenOK DEF TypeOK, RingsOK
    <3> HIDE DEF after
    <3>4. \/ cqMem' = cqMem \/ \E ok \in BOOLEAN : cqMem' = after(cqMem, ok)
          \/ \E ok \in BOOLEAN : cqMem' = after(ZeroedCq(cmd.q), ok)
      <4>1. CASE CreateCq(cmd)
        <5>1. CASE cq[cmd.q].live
          BY <4>1, <5>1 DEF CreateCq, Answer, after
        <5>2. CASE ~cq[cmd.q].live
          BY <4>1, <5>2 DEF CreateCq, Answer, after
        <5> QED BY <5>1, <5>2
      <4>2. CASE CreateSq(cmd)
        BY <4>2, Zenon DEF CreateSq, Answer, after
      <4>3. CASE DeleteSq(cmd)
        <5>1. sq[cmd.q].live \in BOOLEAN
          BY <3>1 DEF TypeOK, RingsOK, SqRings
        <5> QED BY <4>3, <5>1, Zenon DEF DeleteSq, Answer, after
      <4>4. CASE DeleteCq(cmd)
        BY <4>4, Zenon DEF DeleteCq, Answer, after
      <4>5. CASE AsyncEvent(cmd)
        BY <4>5, Zenon DEF AsyncEvent, Answer, after
      <4>6. CASE OtherAdmin(cmd)
        BY <4>6, Zenon DEF OtherAdmin, Answer, after
      <4> QED BY <2>2, <4>1, <4>2, <4>3, <4>4, <4>5, <4>6 DEF FetchAdmin
    <3> QED BY <1>0, <3>3, <3>4
  <2>3. CASE EnterProcess \/ TakeFinished \/ AllPosted \/ LeaveSq \/ Unlock
    BY <2>3 DEF EnterProcess, TakeFinished, AllPosted, LeaveSq, Unlock
  <2>4. ASSUME NEW j \in taking, SyncFinished(j)
        PROVE  CqMemOK(cqMem')
    BY <2>4 DEF SyncFinished
  <2>5. ASSUME NEW j \in taking, NEW ok \in BOOLEAN, PostFinished(j, ok)
        PROVE  CqMemOK(cqMem')
    <3>1. j.cqid \in Q /\ j.sqid \in Q /\ j.sqid # 0 /\ j.cmd \in Cmd
      BY Consts DEF JobsAreIo, TypeOK, JobsOK, Job
    <3>2. CqMemOK(Written(cqMem, j.cqid, j.sqid, j.cmd, ok, sq[j.sqid].head))
      BY <3>1, AdvancedHead, WrittenOK DEF TypeOK, RingsOK
    <3> QED BY <2>5, <3>2 DEF PostFinished
  <2>6. ASSUME NEW q \in IoQ, NEW cmd \in IoCmd, FetchFlush(q, cmd) \/ FetchIo(q, cmd)
        PROVE  CqMemOK(cqMem')
    BY <2>6 DEF FetchFlush, FetchIo
  <2>7. ASSUME NEW q \in IoQ, NEW cmd \in IoCmd, NEW ok \in BOOLEAN, FetchInline(q, cmd, ok)
        PROVE  CqMemOK(cqMem')
    <3>1. q \in Q /\ q # 0 /\ sq[q].cqid \in Q /\ cmd \in Cmd
      BY Consts DEF TypeOK, RingsOK, SqRings, Cmd
    <3>2. CqMemOK(Written(cqMem, sq[q].cqid, q, cmd, ok, Advanced(q)[q].head))
      BY <3>1, AdvancedHead, WrittenOK DEF TypeOK, RingsOK
    <3> QED BY <2>7, <3>2 DEF FetchInline
  <2> QED BY <1>1, <2>1, <2>2, <2>3, <2>4, <2>5, <2>6, <2>7 DEF Holder
<1>2. CASE Transfers \/ Syncs \/ Drain \/ Registers
  BY <1>2 DEF Transfers, Syncs, Drain, Registers, FinishIo, FinishFlush, RingSq,
              RingCq, OtherWrite, BeginCc
<1>3. CASE \E q \in Q, cmd \in Cmd : Submit(q, cmd)
  BY <1>3 DEF Submit
<1>4. ASSUME NEW c \in Q, Reap(c)
      PROVE  CqMemOK(cqMem')
  <2>1. gCqHead[c] \in 0..CqSize[c]-1
    BY Consts DEF TypeOK, DriverOK
  <2>2. cqMem[c][gCqHead[c]] \in GoodEntry
    BY <2>1 DEF CqMemOK
  <2>3. Zeroed(cqMem[c][gCqHead[c]].phase) \in GoodEntry
    BY <2>2, ZeroedOK DEF GoodEntry, Entry
  <2>4. cqMem' = [cqMem EXCEPT ![c][gCqHead[c]] = Zeroed(cqMem[c][gCqHead[c]].phase)]
    BY <1>4 DEF Reap, Looks
  <2> QED BY <2>1, <2>3, <2>4, EntryPut
<1>5. CASE UNCHANGED vars
  BY <1>5 DEF vars
<1> QED BY <1>1, <1>2, <1>3, <1>4, <1>5 DEF Next

SqMemOK(m) == DOMAIN m = Q /\ \A q \in Q : m[q] \in [0..SqSize[q]-1 -> Cmd \cup {NoCmd}]

(* Submission ring memory. *)
LEMMA SqMemStep ==
  ASSUME TypeOK, EntriesOK, [Next]_vars
  PROVE  SqMemOK(sqMem')
<1>0. SqMemOK(sqMem)
  BY DEF SqMemOK, TypeOK, MemoryOK
<1> USE <1>0 DEF memory
<1>1. ASSUME NEW q \in Q, sqMem' = [sqMem EXCEPT ![q] = [i \in 0..SqSize[q]-1 |-> NoCmd]]
      PROVE  SqMemOK(sqMem')
  BY <1>1 DEF SqMemOK
<1>2. CASE Holder
  <2>1. CASE ApplyCc
    <3>1. \/ sqMem' = sqMem
          \/ sqMem' = [sqMem EXCEPT ![0] = [i \in 0..SqSize[0]-1 |-> NoCmd]]
          \/ sqMem' = [q \in Q |-> [i \in 0..SqSize[q]-1 |-> NoCmd]]
      BY <2>1 DEF ApplyCc, Enable, Disable, KeepEnable, ColdReset, DriverForgets, FreshSq
    <3>2. SqMemOK([q \in Q |-> [i \in 0..SqSize[q]-1 |-> NoCmd]])
      BY DEF SqMemOK
    <3> QED BY <1>1, <3>1, <3>2, Consts
  <2>2. ASSUME NEW cmd \in AdminCmd, FetchAdmin(cmd)
        PROVE  SqMemOK(sqMem')
    <3>1. cmd.q \in Q
      BY Commands, Consts
    <3>2. \/ sqMem' = sqMem
          \/ sqMem' = [sqMem EXCEPT ![cmd.q] = [i \in 0..SqSize[cmd.q]-1 |-> NoCmd]]
      BY <2>2 DEF FetchAdmin, CreateCq, CreateSq, DeleteSq, DeleteCq, AsyncEvent,
                  OtherAdmin, FreshSq
    <3> QED BY <1>1, <3>1, <3>2
  <2>3. CASE \/ EnterProcess \/ TakeFinished \/ AllPosted \/ LeaveSq \/ Unlock
             \/ \E j \in taking : SyncFinished(j) \/ \E ok \in BOOLEAN : PostFinished(j, ok)
    BY <2>3 DEF EnterProcess, TakeFinished, AllPosted, LeaveSq, Unlock, SyncFinished, PostFinished
  <2>4. CASE \E q \in IoQ, cmd \in IoCmd :
               \/ FetchFlush(q, cmd) \/ FetchIo(q, cmd)
               \/ \E ok \in BOOLEAN : FetchInline(q, cmd, ok)
    BY <2>4 DEF FetchFlush, FetchIo, FetchInline
  <2> QED BY <1>2, <2>1, <2>2, <2>3, <2>4 DEF Holder
<1>3. CASE Transfers \/ Syncs \/ Drain \/ Registers
  BY <1>3 DEF Transfers, Syncs, Drain, Registers, FinishIo, FinishFlush, RingSq,
              RingCq, OtherWrite, BeginCc
<1>4. ASSUME NEW q \in Q, NEW cmd \in Cmd, Submit(q, cmd)
      PROVE  SqMemOK(sqMem')
  <2>1. gTail[q] \in 0..SqSize[q]-1
    BY Consts DEF TypeOK, DriverOK
  <2> QED BY <1>4, <2>1 DEF Submit, SqMemOK
<1>5. ASSUME NEW c \in Q, Reap(c)
      PROVE  SqMemOK(sqMem')
  <2> DEFINE e == Looks(c)
             S == Between(gSqHead[e.sqid], e.sqHead, SqSize[e.sqid])
             clear == [i \in 0..SqSize[e.sqid]-1 |->
                         IF i \in S THEN NoCmd ELSE sqMem[e.sqid][i]]
  <2>1. gCqHead[c] \in 0..CqSize[c]-1
    BY Consts DEF TypeOK, DriverOK
  <2>2. e.sqid \in Q
    BY <2>1 DEF Looks, EntriesOK, GoodEntry, Entry
  <2>3. sqMem' = [sqMem EXCEPT ![e.sqid] = clear]
    BY <1>5 DEF Reap
  <2> HIDE DEF e, S
  <2>4. clear \in [0..SqSize[e.sqid]-1 -> Cmd \cup {NoCmd}]
    BY <2>2 DEF SqMemOK
  <2> HIDE DEF clear
  <2> QED BY <2>2, <2>3, <2>4 DEF SqMemOK
<1>6. CASE UNCHANGED vars
  BY <1>6 DEF vars
<1> QED BY <1>2, <1>3, <1>4, <1>5, <1>6 DEF Next

(* The driver's indices and sets. *)
LEMMA DriverStep ==
  ASSUME TypeOK, EntriesOK, [Next]_vars
  PROVE  DriverOK'
<1> USE DEF TypeOK, DriverOK, driver
<1>1. CASE Holder
  <2>1. CASE ApplyCc
    <3>1. CASE UNCHANGED driver
      BY <3>1
    <3>2. CASE FreshSq(0) /\ FreshCq(0) /\ UNCHANGED <<open, gSq, gCq>>
      BY <3>2, Consts DEF FreshSq, FreshCq
    <3>3. CASE DriverForgets
      BY <3>3, Consts DEF DriverForgets
    <3> QED BY <2>1, <3>1, <3>2, <3>3 DEF ApplyCc, Enable, Disable, KeepEnable, ColdReset
  <2>2. ASSUME NEW cmd \in AdminCmd, FetchAdmin(cmd)
        PROVE  DriverOK'
    <3>1. cmd.q \in Q
      BY Commands, Consts
    <3>2. UNCHANGED <<open, gSq, gCq>>
      BY <2>2 DEF FetchAdmin
    <3>3. UNCHANGED <<gTail, gSqHead>> \/ FreshSq(cmd.q)
      BY <2>2 DEF FetchAdmin, CreateCq, CreateSq, DeleteSq, DeleteCq, AsyncEvent, OtherAdmin
    <3>4. UNCHANGED <<gCqHead, gPhase>> \/ FreshCq(cmd.q)
      BY <2>2 DEF FetchAdmin, CreateCq, CreateSq, DeleteSq, DeleteCq, AsyncEvent, OtherAdmin
    <3>5. /\ gTail' \in [Q -> Nat] /\ gSqHead' \in [Q -> Nat]
          /\ \A q \in Q : gTail'[q] < SqSize[q] /\ gSqHead'[q] < SqSize[q]
      BY <3>1, <3>3, Consts DEF FreshSq
    <3>6. gCqHead' \in [Q -> Nat] /\ \A c \in Q : gCqHead'[c] < CqSize[c]
      BY <3>1, <3>4, Consts DEF FreshCq
    <3>7. gPhase' \in [Q -> BOOLEAN]
      BY <3>1, <3>4, Consts DEF FreshCq
    <3> QED BY <3>2, <3>5, <3>6, <3>7
  <2>3. CASE \/ EnterProcess \/ TakeFinished \/ AllPosted \/ LeaveSq \/ Unlock
             \/ \E j \in taking : SyncFinished(j) \/ \E ok \in BOOLEAN : PostFinished(j, ok)
    BY <2>3 DEF EnterProcess, TakeFinished, AllPosted, LeaveSq, Unlock, SyncFinished, PostFinished
  <2>4. CASE \E q \in IoQ, cmd \in IoCmd :
               \/ FetchFlush(q, cmd) \/ FetchIo(q, cmd)
               \/ \E ok \in BOOLEAN : FetchInline(q, cmd, ok)
    BY <2>4 DEF FetchFlush, FetchIo, FetchInline
  <2> QED BY <1>1, <2>1, <2>2, <2>3, <2>4 DEF Holder
<1>2. CASE Transfers \/ Syncs \/ Drain \/ Registers
  BY <1>2 DEF Transfers, Syncs, Drain, Registers, FinishIo, FinishFlush, RingSq,
              RingCq, OtherWrite, BeginCc
<1>3. ASSUME NEW q \in Q, NEW cmd \in Cmd, Submit(q, cmd)
      PROVE  DriverOK'
  <2>1. Succ(gTail[q], SqSize[q]) \in Nat /\ Succ(gTail[q], SqSize[q]) < SqSize[q]
    BY Consts, SuccOnRing
  <2> QED BY <1>3, <2>1 DEF Submit
<1>4. ASSUME NEW c \in Q, Reap(c)
      PROVE  DriverOK'
  <2> DEFINE e == Looks(c)
             next == Succ(gCqHead[c], CqSize[c])
  <2>1. gCqHead[c] \in 0..CqSize[c]-1 /\ next \in Nat /\ next < CqSize[c]
    BY Consts, SuccOnRing
  <2>2. e \in GoodEntry
    BY <2>1 DEF Looks, EntriesOK
  <2>3. e.sqid \in Q /\ e.sqHead \in Nat /\ e.sqHead < SqSize[e.sqid]
    BY <2>2 DEF GoodEntry, Entry
  <2>4. e.sqid = 0 /\ e.ok => e.cmd \in AdminCmd /\ e.cmd.q \in IoQ
    BY <2>2, Commands DEF GoodEntry
  <2>5. gCqHead' = [gCqHead EXCEPT ![c] = next]
        /\ gSqHead' = [gSqHead EXCEPT ![e.sqid] = e.sqHead] /\ gTail' = gTail
    BY <1>4 DEF Reap
  <2>6. gPhase' \in [Q -> BOOLEAN]
    <3>1. gPhase' = [gPhase EXCEPT ![c] = IF next = 0 THEN ~@ ELSE @]
      BY <1>4 DEF Reap
    <3> QED BY <3>1
  <2>7. open' \in [Q -> SUBSET Cmd]
    <3>1. /\ DOMAIN open' = Q
          /\ \A q \in Q : open'[q] \in {{}, open[q] \ {e.cmd}, open[q]}
      BY <1>4 DEF Reap
    <3>2. open' = [q \in Q |-> open'[q]]
      BY <1>4 DEF Reap
    <3> QED BY <3>1, <3>2
  <2>8. gSq' = gSq \/ (e.sqid = 0 /\ e.ok /\ gSq' = gSq \cup {e.cmd.q})
        \/ gSq' = gSq \ {e.cmd.q}
    BY <1>4 DEF Reap
  <2>9. gCq' = gCq \/ (e.sqid = 0 /\ e.ok /\ gCq' = gCq \cup {e.cmd.q})
        \/ gCq' = gCq \ {e.cmd.q}
    BY <1>4 DEF Reap
  <2> HIDE DEF e, next
  <2>10. gSq' \in SUBSET IoQ /\ gCq' \in SUBSET IoQ
    BY <2>4, <2>8, <2>9
  <2>11. /\ gTail' \in [Q -> Nat] /\ gSqHead' \in [Q -> Nat] /\ gCqHead' \in [Q -> Nat]
         /\ \A q \in Q : gTail'[q] < SqSize[q] /\ gSqHead'[q] < SqSize[q]
         /\ \A d \in Q : gCqHead'[d] < CqSize[d]
    BY <2>1, <2>3, <2>5
  <2> QED BY <2>6, <2>7, <2>10, <2>11
<1>5. CASE UNCHANGED vars
  BY <1>5 DEF vars
<1> QED BY <1>1, <1>2, <1>3, <1>4, <1>5 DEF Next

(* What fetching changes of the submission rings ... *)
LEMMA AdvancedAt ==
  ASSUME sq \in SqRings, NEW q \in Q
  PROVE  /\ \A p \in Q : /\ Advanced(q)[p].live = sq[p].live
                         /\ Advanced(q)[p].cqid = sq[p].cqid
                         /\ p # q => Advanced(q)[p] = sq[p]
         /\ Advanced(q)[q].head = Succ(sq[q].head, SqSize[q])
BY DEF Advanced, SqRings

(* ... and what posting changes of the completion rings. *)
LEMMA PostedAt ==
  ASSUME NEW f \in CqRings, NEW c \in Q
  PROVE  /\ \A d \in Q : /\ Posted(f, c)[d].live = f[d].live
                         /\ Posted(f, c)[d].head = f[d].head
                         /\ d # c => Posted(f, c)[d] = f[d]
         /\ Posted(f, c)[c].tail = Succ(f[c].tail, CqSize[c])
         /\ Posted(f, c)[c].phase = IF Succ(f[c].tail, CqSize[c]) = 0 THEN ~f[c].phase
                                                                   ELSE f[c].phase
BY DEF Posted, CqRings

-----------------------------------------------------------------------------
(* Jobs and the slots held for them *)

(* Two pools that become one. *)
LEMMA Joins ==
  ASSUME NEW S, IsFiniteSet(S), NEW T, IsFiniteSet(T), NEW c
  PROVE  /\ IsFiniteSet(S \cup T)
         /\ Cardinality(Of(S \cup T, c)) <= Cardinality(Of(S, c)) + Cardinality(Of(T, c))
         /\ Cardinality(Others(S \cup T, c))
              <= Cardinality(Others(S, c)) + Cardinality(Others(T, c))
<1>1. ASSUME NEW A, NEW B, IsFiniteSet(A), IsFiniteSet(B)
      PROVE  IsFiniteSet(A \cup B) /\ Cardinality(A \cup B) <= Cardinality(A) + Cardinality(B)
  <2>1. IsFiniteSet(A \cap B)
    BY <1>1, FS_Subset, A \cap B \in SUBSET A
  <2>2. Cardinality(A) \in Nat /\ Cardinality(B) \in Nat /\ Cardinality(A \cap B) \in Nat
    BY <1>1, <2>1, FS_CardinalityType
  <2>3. Cardinality(A \cup B) = Cardinality(A) + Cardinality(B) - Cardinality(A \cap B)
    BY <1>1, FS_Union
  <2> QED BY <1>1, <2>2, <2>3, FS_Union
<1>2. Of(S \cup T, c) = Of(S, c) \cup Of(T, c) /\ Others(S \cup T, c) = Others(S, c) \cup Others(T, c)
  BY DEF Of, Others
<1> QED BY <1>1, <1>2, Shares

(* No pool, no jobs on any ring. *)
LEMMA NoJobs ==
  ASSUME NEW c
  PROVE  /\ IsFiniteSet({}) /\ Cardinality(Of({}, c)) = 0
         /\ Cardinality(Others({}, c)) = 0
<1>1. Of({}, c) = {} /\ Others({}, c) = {}
  BY DEF Of, Others
<1> QED BY <1>1, FS_EmptySet

(* in_flight bounds the jobs: when as many have finished, there are no others,
   and when it is zero there are none.                                     *)
LEMMA AllJobsFinished ==
  ASSUME TypeOK, JobsAreIo, SlotsHeld
  PROVE  /\ AllFinished => untaken = {} /\ running = {} /\ flushing = {}
         /\ inFlight = 0 => Jobs = {}
         /\ inFlight = 0 => \A c \in Q : held[c] = 0
         /\ Cardinality(finished) <= inFlight
<1>1. /\ Cardinality(untaken) \in Nat /\ Cardinality(running) \in Nat
      /\ Cardinality(flushing) \in Nat /\ Cardinality(finished) \in Nat
  BY FS_CardinalityType DEF JobsAreIo
<1>2. inFlight >= Cardinality(untaken) + Cardinality(running)
                    + Cardinality(flushing) + Cardinality(finished)
  <2> DEFINE c == 0
  <2>1. ASSUME NEW S, IsFiniteSet(S)
        PROVE  /\ Cardinality(Of(S, c)) \in Nat /\ Cardinality(Others(S, c)) \in Nat
               /\ Cardinality(S) = Cardinality(Of(S, c)) + Cardinality(Others(S, c))
    BY <2>1, Shares
  <2>2. c \in Q
    BY Consts
  <2> HIDE DEF c
  <2>3. held[c] \in Nat /\ inFlight \in Nat
    BY <2>2 DEF TypeOK, JobsOK
  <2> QED BY <2>1, <2>2, <2>3 DEF SlotsHeld, JobsAreIo
<1>3. inFlight \in Nat
  BY DEF TypeOK, JobsOK
<1>4. ASSUME NEW S, IsFiniteSet(S), Cardinality(S) = 0
      PROVE  S = {}
  BY <1>4, FS_EmptySet
<1>5. AllFinished => untaken = {} /\ running = {} /\ flushing = {}
  BY <1>1, <1>2, <1>3, <1>4 DEF AllFinished, JobsAreIo
<1>6. inFlight = 0 => Jobs = {}
  BY <1>1, <1>2, <1>3, <1>4 DEF Jobs, JobsAreIo
<1>7. inFlight = 0 => \A c \in Q : held[c] = 0
  <2> SUFFICES ASSUME inFlight = 0, NEW c \in Q PROVE held[c] = 0
    OBVIOUS
  <2>1. held[c] \in Nat
    BY DEF TypeOK, JobsOK
  <2>2. /\ Cardinality(Others(untaken, c)) \in Nat /\ Cardinality(Others(running, c)) \in Nat
        /\ Cardinality(Others(flushing, c)) \in Nat /\ Cardinality(Others(finished, c)) \in Nat
    BY Shares DEF JobsAreIo
  <2>3. inFlight >= held[c]
             + Cardinality(Others(untaken, c)) + Cardinality(Others(running, c))
             + Cardinality(Others(flushing, c)) + Cardinality(Others(finished, c))
    BY DEF SlotsHeld
  <2> QED BY <2>1, <2>2, <2>3
<1> QED BY <1>1, <1>2, <1>3, <1>5, <1>6, <1>7

(* The numbers SlotsHeld compares are natural numbers. *)
LEMMA PoolCounts ==
  ASSUME TypeOK, JobsAreIo, NEW c \in Q
  PROVE  /\ held[c] \in Nat /\ inFlight \in Nat
         /\ \A S \in {untaken, running, flushing, finished, taking} :
              /\ Cardinality(Of(S, c)) \in Nat /\ Cardinality(Others(S, c)) \in Nat
              /\ IsFiniteSet(S)
<1>1. \A S \in {untaken, running, flushing, finished, taking} : IsFiniteSet(S)
  BY DEF JobsAreIo
<1> QED BY <1>1, Shares DEF TypeOK, JobsOK

(* What the counts say of one ring. *)
SlotsOf(c) ==
  /\ held[c] >= Cardinality(Of(untaken, c)) + Cardinality(Of(running, c))
                 + Cardinality(Of(flushing, c)) + Cardinality(Of(finished, c))
  /\ inFlight >= held[c]
        + Cardinality(Others(untaken, c)) + Cardinality(Others(running, c))
        + Cardinality(Others(flushing, c)) + Cardinality(Others(finished, c))

JobPart == JobsOK /\ JobsAreIo /\ SlotsHeld

(* take_finished *)
LEMMA ReleaseSlots ==
  ASSUME TypeOK, JobsAreIo, SlotsHeld, Release,
         UNCHANGED <<untaken, running, flushing>>, taking' \in {taking, finished}
  PROVE  JobPart'
<1>1. finished' = {} /\ inFlight' = inFlight - Cardinality(finished)
      /\ held' = [c \in Q |-> Minus(held[c], Cardinality(Of(finished, c)))]
  BY DEF Release
<1>2. ASSUME NEW c \in Q
      PROVE  /\ held[c] >= Cardinality(Of(finished, c))
             /\ held'[c] = held[c] - Cardinality(Of(finished, c))
             /\ SlotsOf(c)'
  <2>1. SlotsOf(c)
    BY DEF SlotsHeld, SlotsOf
  <2>2. held'[c] = Minus(held[c], Cardinality(Of(finished, c)))
    BY <1>1
  <2>3. Cardinality(finished) = Cardinality(Of(finished, c)) + Cardinality(Others(finished, c))
    BY Shares DEF JobsAreIo
  <2>4. Cardinality(Of(finished', c)) = 0 /\ Cardinality(Others(finished', c)) = 0
    BY <1>1, NoJobs
  <2>5. held'[c] = held[c] - Cardinality(Of(finished, c))
        /\ held[c] >= Cardinality(Of(finished, c))
    BY <2>1, <2>2, PoolCounts DEF Minus, SlotsOf
  <2>6. SlotsOf(c)'
    BY <1>1, <2>1, <2>3, <2>4, <2>5, PoolCounts DEF SlotsOf
  <2> QED BY <2>5, <2>6
<1>3. inFlight' \in Nat
  BY <1>1, AllJobsFinished, FS_CardinalityType DEF JobsAreIo, TypeOK, JobsOK
<1>4. held' \in [Q -> Nat]
  BY <1>1, <1>2, PoolCounts
<1>5. JobsOK'
  BY <1>1, <1>3, <1>4 DEF TypeOK, JobsOK
<1>6. JobsAreIo'
  BY <1>1, NoJobs DEF JobsAreIo, Jobs
<1>7. held'[0] = 0
  <2>1. held[0] = 0 /\ Cardinality(Of(finished, 0)) \in Nat
    BY Consts, PoolCounts DEF SlotsHeld
  <2> QED BY <1>2, <2>1, Consts
<1>8. SlotsHeld'
  BY <1>2, <1>7 DEF SlotsHeld, SlotsOf
<1> QED BY <1>5, <1>6, <1>8 DEF JobPart

(* hold_completion_slot, for a job that joins the flush worker's inbox or the
   READs and WRITEs to take.                                               *)
LEMMA HoldSlot ==
  ASSUME TypeOK, JobsAreIo, SlotsHeld,
         NEW j \in Job, j.sqid \in IoQ, j.cqid \in IoQ, Hold(j.cqid),
         \/ flushing' = flushing \cup {j} /\ untaken' = untaken
         \/ untaken' = untaken \cup {j} /\ flushing' = flushing,
         UNCHANGED <<running, finished>>, taking' \in SUBSET taking
  PROVE  JobPart'
<1>1. held' = [held EXCEPT ![j.cqid] = @ + 1] /\ inFlight' = inFlight + 1
  BY DEF Hold
<1>2. ASSUME NEW c \in Q
      PROVE  SlotsOf(c)'
  <2>1. SlotsOf(c)
    BY DEF SlotsHeld, SlotsOf
  <2>2. held'[c] = held[c] + (IF j.cqid = c THEN 1 ELSE 0)
    BY <1>1, Consts DEF TypeOK, JobsOK
  <2>3. ASSUME NEW S, IsFiniteSet(S)
        PROVE  /\ Cardinality(Of(S \cup {j}, c)) \in Nat
               /\ Cardinality(Others(S \cup {j}, c)) \in Nat
               /\ Cardinality(Of(S \cup {j}, c))
                    <= Cardinality(Of(S, c)) + (IF j.cqid = c THEN 1 ELSE 0)
               /\ Cardinality(Others(S \cup {j}, c))
                    <= Cardinality(Others(S, c)) + (IF j.cqid = c THEN 0 ELSE 1)
    BY <2>3, Gains, Shares
  <2>4. CASE flushing' = flushing \cup {j} /\ untaken' = untaken
    BY <1>1, <2>1, <2>2, <2>3, <2>4, PoolCounts DEF SlotsOf, JobsAreIo
  <2>5. CASE untaken' = untaken \cup {j} /\ flushing' = flushing
    BY <1>1, <2>1, <2>2, <2>3, <2>5, PoolCounts DEF SlotsOf, JobsAreIo
  <2> QED BY <2>4, <2>5
<1>3. JobsOK'
  <2>1. held \in [Q -> Nat] /\ inFlight \in Nat /\ j.cqid \in Q
    BY Consts DEF TypeOK, JobsOK
  <2>3. held' \in [Q -> Nat]
    <3> DEFINE n == held[j.cqid] + 1
    <3>1. n \in Nat /\ held' = [held EXCEPT ![j.cqid] = n]
      BY <1>1, <2>1
    <3> HIDE DEF n
    <3> QED BY <2>1, <3>1
  <2>4. inFlight' \in Nat
    BY <1>1, <2>1
  <2>2. untaken' \in SUBSET Job /\ flushing' \in SUBSET Job
    BY DEF TypeOK, JobsOK
  <2> QED BY <2>2, <2>3, <2>4 DEF TypeOK, JobsOK
<1>4. IsFiniteSet(taking')
  BY FS_Subset DEF JobsAreIo
<1>5. IsFiniteSet(flushing') /\ IsFiniteSet(untaken')
  BY FS_AddElement DEF JobsAreIo
<1>6. JobsAreIo'
  BY <1>4, <1>5 DEF JobsAreIo, Jobs
<1>7. held'[0] = 0
  BY <1>1, Consts DEF SlotsHeld, TypeOK, JobsOK
<1>8. SlotsHeld'
  BY <1>2, <1>7 DEF SlotsHeld, SlotsOf
<1> QED BY <1>3, <1>6, <1>8 DEF JobPart

(* fail_untaken_io *)
LEMMA FailUntaken ==
  ASSUME TypeOK, JobsAreIo, SlotsHeld,
         finished' = finished \cup Failed(untaken), untaken' = {},
         UNCHANGED <<running, flushing, taking, counts>>
  PROVE  JobPart'
<1> USE DEF counts
<1>1. untaken \in SUBSET Job /\ IsFiniteSet(untaken) /\ IsFiniteSet(finished)
  BY DEF TypeOK, JobsOK, JobsAreIo
<1>2. ASSUME NEW c \in Q
      PROVE  SlotsOf(c)'
  <2>1. SlotsOf(c)
    BY DEF SlotsHeld, SlotsOf
  <2>2. /\ Cardinality(Of(finished', c)) \in Nat /\ Cardinality(Others(finished', c)) \in Nat
        /\ Cardinality(Of(finished', c))
             <= Cardinality(Of(finished, c)) + Cardinality(Of(untaken, c))
        /\ Cardinality(Others(finished', c))
             <= Cardinality(Others(finished, c)) + Cardinality(Others(untaken, c))
    BY <1>1, JoinFailed, Shares
  <2>3. Cardinality(Of(untaken', c)) = 0 /\ Cardinality(Others(untaken', c)) = 0
    BY NoJobs
  <2> QED BY <2>1, <2>2, <2>3, PoolCounts DEF SlotsOf
<1>3. Failed(untaken) \in SUBSET Job /\ \A j \in Failed(untaken) : j.sqid \in IoQ /\ j.cqid \in IoQ
  BY <1>1 DEF Failed, Job, JobsAreIo, Jobs
<1>4. JobsOK'
  BY <1>3 DEF TypeOK, JobsOK
<1>5. IsFiniteSet(finished') /\ IsFiniteSet(untaken')
  BY <1>1, JoinFailed, FS_EmptySet
<1>6. JobsAreIo'
  BY <1>3, <1>5 DEF JobsAreIo, Jobs
<1>7. SlotsHeld'
  BY <1>2 DEF SlotsHeld, SlotsOf
<1> QED BY <1>4, <1>6, <1>7 DEF JobPart

(* A job done on a worker thread moves to finished. *)
LEMMA MoveFinished ==
  ASSUME TypeOK, JobsAreIo, SlotsHeld, NEW j, NEW k \in Job,
         k.sqid = j.sqid, k.cqid = j.cqid, finished' = finished \cup {k},
         \/ j \in running /\ running' = running \ {j} /\ flushing' = flushing
         \/ j \in flushing /\ flushing' = flushing \ {j} /\ running' = running,
         UNCHANGED <<untaken, taking, counts>>
  PROVE  JobPart'
<1> USE DEF counts
<1>1. ASSUME NEW c \in Q
      PROVE  SlotsOf(c)'
  <2>1. SlotsOf(c)
    BY DEF SlotsHeld, SlotsOf
  <2>2. /\ Cardinality(Of(finished', c)) \in Nat /\ Cardinality(Others(finished', c)) \in Nat
        /\ Cardinality(Of(finished', c))
             <= Cardinality(Of(finished, c)) + (IF j.cqid = c THEN 1 ELSE 0)
        /\ Cardinality(Others(finished', c))
             <= Cardinality(Others(finished, c)) + (IF j.cqid = c THEN 0 ELSE 1)
    BY Gains, Shares DEF JobsAreIo
  <2>3. ASSUME NEW S, IsFiniteSet(S), j \in S
        PROVE  /\ Cardinality(Of(S \ {j}, c))
                    = Cardinality(Of(S, c)) - (IF j.cqid = c THEN 1 ELSE 0)
               /\ Cardinality(Others(S \ {j}, c))
                    = Cardinality(Others(S, c)) - (IF j.cqid = c THEN 0 ELSE 1)
    BY <2>3, Loses
  <2>4. CASE j \in running /\ running' = running \ {j} /\ flushing' = flushing
    BY <2>1, <2>2, <2>3, <2>4, PoolCounts DEF SlotsOf, JobsAreIo
  <2>5. CASE j \in flushing /\ flushing' = flushing \ {j} /\ running' = running
    BY <2>1, <2>2, <2>3, <2>5, PoolCounts DEF SlotsOf, JobsAreIo
  <2> QED BY <2>4, <2>5
<1>2. JobsOK'
  BY DEF TypeOK, JobsOK
<1>3. IsFiniteSet(finished') /\ IsFiniteSet(running') /\ IsFiniteSet(flushing')
  BY FS_AddElement, FS_RemoveElement DEF JobsAreIo
<1>4. JobsAreIo'
  BY <1>3 DEF JobsAreIo, Jobs
<1>5. SlotsHeld'
  BY <1>1 DEF SlotsHeld, SlotsOf
<1> QED BY <1>2, <1>4, <1>5 DEF JobPart

(* Job pools, held slots and in_flight. *)
LEMMA JobsStep ==
  ASSUME TypeOK, QueuesLinked, JobsAreIo, SlotsHeld, [Next]_vars
  PROVE  JobPart'
<1>0. ASSUME UNCHANGED <<pools, counts>>, taking' \in SUBSET taking
      PROVE  JobPart'
  <2>1. IsFiniteSet(taking')
    BY <1>0, FS_Subset DEF JobsAreIo
  <2> QED BY <1>0, <2>1 DEF pools, counts, JobPart, JobsOK, JobsAreIo, SlotsHeld, Jobs, TypeOK
<1>1. CASE Holder
  <2>1. CASE ApplyCc
    <3>1. CASE Enable \/ KeepEnable
      <4>1. UNCHANGED <<pools, counts, taking>>
        BY <2>1, <3>1 DEF ApplyCc, Enable, KeepEnable, pools
      <4> QED BY <1>0, <4>1
    <3>2. CASE Disable
      BY <2>1, <3>2, ReleaseSlots DEF ApplyCc, Disable
    <3>3. CASE ColdReset
      <4>1. untaken = {} /\ running = {} /\ flushing = {}
        BY <2>1, AllJobsFinished DEF ApplyCc
      <4>2. /\ UNCHANGED <<untaken, running, flushing, taking>>
            /\ finished' = {} /\ inFlight' = 0 /\ held' = [c \in Q |-> 0]
        BY <2>1, <3>3 DEF ApplyCc, ColdReset
      <4>3. \A c \in Q : Cardinality(Of({}, c)) = 0 /\ Cardinality(Others({}, c)) = 0
        BY NoJobs
      <4>4. JobsOK' /\ JobsAreIo'
        BY <4>1, <4>2, FS_EmptySet DEF TypeOK, JobsOK, JobsAreIo, Jobs
      <4> QED BY <4>1, <4>2, <4>3, <4>4, Consts DEF JobPart, SlotsHeld
    <3> QED BY <2>1, <3>1, <3>2, <3>3 DEF ApplyCc
  <2>2. CASE EnterProcess
    <3>1. CASE UNCHANGED <<untaken, finished>>
      BY <1>0, <2>2, <3>1 DEF EnterProcess, pools
    <3>2. CASE finished' = finished \cup Failed(untaken) /\ untaken' = {}
      BY <2>2, <3>2, FailUntaken DEF EnterProcess
    <3> QED BY <2>2, <3>1, <3>2 DEF EnterProcess
  <2>3. CASE TakeFinished
    BY <2>3, ReleaseSlots DEF TakeFinished
  <2>4. CASE AllPosted \/ LeaveSq
    BY <1>0, <2>4 DEF AllPosted, LeaveSq
  <2>5. CASE Unlock
    <3>1. running' = running \cup untaken /\ untaken' = {}
          /\ UNCHANGED <<flushing, finished, counts, taking>>
      BY <2>5 DEF Unlock, holder
    <3>2. ASSUME NEW c \in Q
          PROVE  SlotsOf(c)'
      <4>1. SlotsOf(c)
        BY DEF SlotsHeld, SlotsOf
      <4>2. /\ Cardinality(Of(running', c)) \in Nat /\ Cardinality(Others(running', c)) \in Nat
            /\ Cardinality(Of(running', c))
                 <= Cardinality(Of(running, c)) + Cardinality(Of(untaken, c))
            /\ Cardinality(Others(running', c))
                 <= Cardinality(Others(running, c)) + Cardinality(Others(untaken, c))
        BY <3>1, Joins, Shares DEF JobsAreIo
      <4>3. Cardinality(Of(untaken', c)) = 0 /\ Cardinality(Others(untaken', c)) = 0
        BY <3>1, NoJobs
      <4> QED BY <3>1, <4>1, <4>2, <4>3, PoolCounts DEF SlotsOf, counts
    <3>3. IsFiniteSet(running') /\ IsFiniteSet(untaken')
      BY <3>1, FS_Union, FS_EmptySet DEF JobsAreIo
    <3>4. JobsOK' /\ JobsAreIo'
      BY <3>1, <3>3 DEF TypeOK, JobsOK, JobsAreIo, Jobs, counts
    <3>5. SlotsHeld'
      BY <3>1, <3>2 DEF SlotsHeld, SlotsOf, counts
    <3> QED BY <3>4, <3>5 DEF JobPart
  <2>6. ASSUME NEW j \in taking, SyncFinished(j)
        PROVE  JobPart'
    <3> DEFINE k == [sqid |-> j.sqid, cqid |-> j.cqid, cmd |-> j.cmd, sync |-> FALSE, ok |-> TRUE]
    <3>1. k \in Job /\ k.sqid \in IoQ /\ k.cqid \in IoQ
      BY DEF TypeOK, JobsOK, JobsAreIo, Job
    <3>2. flushing' = flushing \cup {k} /\ Hold(k.cqid)
      BY <2>6 DEF SyncFinished, DeferFlush
    <3>3. UNCHANGED <<untaken, running, finished>> /\ taking' \in SUBSET taking
      BY <2>6 DEF SyncFinished
    <3> HIDE DEF k
    <3> QED BY <3>1, <3>2, <3>3, HoldSlot
  <2>7. ASSUME NEW j \in taking, NEW ok \in BOOLEAN, PostFinished(j, ok)
        PROVE  JobPart'
    <3>1. UNCHANGED <<pools, counts>> /\ taking' \in SUBSET taking
      BY <2>7 DEF PostFinished, FlushInline, pools
    <3> QED BY <1>0, <3>1
  <2>8. ASSUME NEW cmd \in AdminCmd, FetchAdmin(cmd)
        PROVE  JobPart'
    BY <1>0, <2>8 DEF FetchAdmin, holder
  <2>9. ASSUME NEW q \in IoQ, NEW cmd \in IoCmd, FetchFlush(q, cmd)
        PROVE  JobPart'
    <3> DEFINE k == [sqid |-> q, cqid |-> sq[q].cqid, cmd |-> cmd, sync |-> FALSE, ok |-> TRUE]
    <3>1. sq[q].live
      BY <2>9 DEF FetchFlush, Fetch, HasWork
    <3>2. k \in Job /\ k.sqid \in IoQ /\ k.cqid \in IoQ
      BY <3>1, Consts DEF QueuesLinked, Job, Cmd
    <3>3. flushing' = flushing \cup {k} /\ Hold(k.cqid)
      BY <2>9 DEF FetchFlush, DeferFlush
    <3>4. UNCHANGED <<untaken, running, finished, taking>>
      BY <2>9 DEF FetchFlush, holder
    <3> HIDE DEF k
    <3> QED BY <3>2, <3>3, <3>4, HoldSlot
  <2>10. ASSUME NEW q \in IoQ, NEW cmd \in IoCmd, FetchIo(q, cmd)
         PROVE  JobPart'
    <3> DEFINE k == [sqid |-> q, cqid |-> sq[q].cqid, cmd |-> cmd,
                     sync |-> cmd.op = "fua", ok |-> TRUE]
    <3>1. sq[q].live
      BY <2>10 DEF FetchIo, Fetch, HasWork
    <3>2. k \in Job /\ k.sqid \in IoQ /\ k.cqid \in IoQ
      BY <3>1, Consts DEF QueuesLinked, Job, Cmd
    <3>3. untaken' = untaken \cup {k} /\ Hold(k.cqid)
      BY <2>10 DEF FetchIo
    <3>4. UNCHANGED <<flushing, running, finished, taking>>
      BY <2>10 DEF FetchIo, holder
    <3> HIDE DEF k
    <3> QED BY <3>2, <3>3, <3>4, HoldSlot
  <2>11. ASSUME NEW q \in IoQ, NEW cmd \in IoCmd, NEW ok \in BOOLEAN, FetchInline(q, cmd, ok)
         PROVE  JobPart'
    <3>1. UNCHANGED <<pools, counts, taking>>
      BY <2>11 DEF FetchInline, FlushInline, pools, holder
    <3> QED BY <1>0, <3>1
  <2> QED BY <1>1, <2>1, <2>2, <2>3, <2>4, <2>5, <2>6, <2>7, <2>8, <2>9, <2>10, <2>11 DEF Holder
<1>2. ASSUME NEW j \in running, NEW ok \in BOOLEAN, FinishIo(j, ok)
      PROVE  JobPart'
  <2> DEFINE k == [j EXCEPT !.ok = ok, !.sync = @ /\ ok]
  <2>1. k \in Job /\ k.sqid = j.sqid /\ k.cqid = j.cqid
    BY DEF TypeOK, JobsOK, Job
  <2>2. finished' = finished \cup {k} /\ running' = running \ {j}
        /\ UNCHANGED <<untaken, flushing, taking, counts>>
    BY <1>2 DEF FinishIo, holder
  <2> HIDE DEF k
  <2> QED BY <2>1, <2>2, MoveFinished
<1>3. ASSUME NEW j \in flushing, NEW ok \in BOOLEAN, FinishFlush(j, ok)
      PROVE  JobPart'
  <2> DEFINE k == [j EXCEPT !.ok = ok]
  <2>1. k \in Job /\ k.sqid = j.sqid /\ k.cqid = j.cqid
    BY DEF TypeOK, JobsOK, Job
  <2>2. finished' = finished \cup {k} /\ flushing' = flushing \ {j}
        /\ UNCHANGED <<untaken, running, taking, counts>>
    BY <1>3 DEF FinishFlush, holder
  <2> HIDE DEF k
  <2> QED BY <2>1, <2>2, MoveFinished
<1>4. ASSUME NEW w \in CcWrites, BeginCc(w)
      PROVE  JobPart'
  BY <1>4, FailUntaken DEF BeginCc
<1>5. CASE Drain \/ OtherWrite \/ \E q \in Q : RingSq(q) \/ RingCq(q)
  BY <1>0, <1>5 DEF Drain, OtherWrite, RingSq, RingCq, holder
<1>6. CASE (\E q \in Q, cmd \in Cmd : Submit(q, cmd)) \/ \E c \in Q : Reap(c)
  BY <1>0, <1>6 DEF Submit, Reap, holder
<1>7. CASE UNCHANGED vars
  BY <1>0, <1>7 DEF vars, holder
<1> QED BY <1>1, <1>2, <1>3, <1>4, <1>5, <1>6, <1>7 DEF Next, Transfers, Syncs, Registers

-----------------------------------------------------------------------------
(* Where the lock holder is, and which queues live *)

(* The lowest queue is visited first. *)
LEMMA LowestFirst ==
  ASSUME NEW S \in SUBSET Q, 0 \in S
  PROVE  Next1(S) = 0
<1>1. \A r \in S : r \in Nat
  BY Consts
<1> DEFINE P(q) == \A r \in S : q <= r
<1>2. P(0)
  BY <1>1
<1>3. Next1(S) \in S /\ P(Next1(S))
  BY <1>2, Zenon DEF Next1
<1> QED BY <1>1, <1>3

(* An admin command is fetched only when no job is in flight. *)
LEMMA AdminAlone ==
  ASSUME TypeOK, JobsAreIo, SlotsHeld, HolderPlace, NEW cmd, Fetch(0, cmd)
  PROVE  /\ inFlight = 0 /\ Jobs = {} /\ taking = {} /\ shst = "none"
         /\ \A c \in Q : held[c] = 0
<1>1. pc = "scan" /\ 0 \in todo
  BY DEF Fetch
<1> QED BY <1>1, AllJobsFinished DEF HolderPlace

(* The part of the invariant that says which queues live. *)
LEMMA QueuesStep ==
  ASSUME TypeOK, QueuesLinked, [Next]_vars
  PROVE  QueuesLinked'
<1> USE DEF TypeOK, RingsOK, QueuesLinked
<1>0. ASSUME UNCHANGED <<en, sq>>, cq'[0].live = cq[0].live
      PROVE  QueuesLinked'
  BY <1>0
<1>1. CASE Holder
  <2>1. CASE ApplyCc
    <3>1. CASE Enable
      <4>1. en' = TRUE /\ sq' = [sq EXCEPT ![0] = NewSq(0)] /\ cq' = [cq EXCEPT ![0] = NewCq]
        BY <3>1 DEF Enable
      <4> QED BY <4>1, Consts DEF NewSq, NewCq, SqRings, CqRings
    <3>2. CASE Disable \/ ColdReset
      <4>1. en' = FALSE /\ sq' = [q \in Q |-> NoSq]
        BY <3>2 DEF Disable, ColdReset
      <4> QED BY <4>1, Consts DEF NoSq
    <3>3. CASE KeepEnable
      BY <1>0, <3>3 DEF KeepEnable, rings
    <3> QED BY <2>1, <3>1, <3>2, <3>3 DEF ApplyCc
  <2>2. ASSUME NEW cmd \in AdminCmd, FetchAdmin(cmd)
        PROVE  QueuesLinked'
    <3>1. cmd.q \in IoQ /\ cmd.cq \in Q /\ cmd.q # 0 /\ cmd.q \in Q
      BY Commands, Consts
    <3>2. en' = en /\ sq[0].live
      BY <2>2 DEF FetchAdmin, Fetch, HasWork
    <3>3. cq'[0].live = cq[0].live
      <4>1. PICK f : /\ f = cq \/ f = [cq EXCEPT ![cmd.q] = NewCq] \/ f = [cq EXCEPT ![cmd.q] = NoCq]
                     /\ cq' = cq \/ cq' = Posted(f, 0)
        BY <2>2 DEF FetchAdmin, CreateCq, CreateSq, DeleteSq, DeleteCq, AsyncEvent,
                    OtherAdmin, Answer
      <4>2. f \in CqRings
        BY <3>1, <4>1, CqShapes
      <4>3. f[0] = cq[0]
        BY <3>1, <4>1, Consts DEF CqRings
      <4> QED BY <4>1, <4>2, <4>3, PostedAt, Consts
    <3>4. \/ sq' = Advanced(0)
          \/ cmd.cq # 0 /\ sq' = [Advanced(0) EXCEPT ![cmd.q] = NewSq(cmd.cq)]
          \/ sq' = [Advanced(0) EXCEPT ![cmd.q] = NoSq]
      BY <2>2 DEF FetchAdmin, CreateCq, CreateSq, DeleteSq, DeleteCq, AsyncEvent, OtherAdmin
    <3>5. Advanced(0) \in SqRings /\ Advanced(0)[0].cqid = 0 /\ Advanced(0)[0].live
          /\ \A q \in IoQ : Advanced(0)[q] = sq[q]
      <4>1. Advanced(0) \in SqRings
        BY Consts, SqShapes DEF Advanced
      <4>2. \A q \in IoQ : Advanced(0)[q] = sq[q]
        BY Consts, AdvancedAt
      <4>3. Advanced(0)[0].cqid = sq[0].cqid /\ Advanced(0)[0].live = sq[0].live
        BY Consts, AdvancedAt
      <4> QED BY <3>2, <4>1, <4>2, <4>3
    <3>6. cmd.cq # 0 => cmd.cq \in IoQ
      BY <3>1 DEF Q
    <3> QED BY <3>1, <3>2, <3>3, <3>4, <3>5, <3>6, Consts DEF NewSq, NoSq, SqRings
  <2>3. CASE EnterProcess \/ TakeFinished \/ AllPosted \/ LeaveSq \/ Unlock
    BY <1>0, <2>3 DEF EnterProcess, TakeFinished, AllPosted, LeaveSq, Unlock, regs, rings
  <2>4. ASSUME NEW j \in taking, SyncFinished(j)
        PROVE  QueuesLinked'
    BY <1>0, <2>4 DEF SyncFinished, regs, rings
  <2>5. ASSUME NEW j \in taking, NEW ok \in BOOLEAN, PostFinished(j, ok)
        PROVE  QueuesLinked'
    <3>1. UNCHANGED <<en, sq>>
      BY <2>5 DEF PostFinished, regs
    <3>2. j.cqid \in Q
      BY DEF JobsOK, Job
    <3>3. cq'[0].live = cq[0].live
      BY <2>5, <3>2, Consts DEF PostFinished, Posted, CqRings
    <3> QED BY <1>0, <3>1, <3>3
  <2>6. ASSUME NEW q \in IoQ, NEW cmd \in IoCmd,
               \/ FetchFlush(q, cmd) \/ FetchIo(q, cmd)
               \/ \E ok \in BOOLEAN : FetchInline(q, cmd, ok)
        PROVE  QueuesLinked'
    <3>1. en' = en /\ sq' = Advanced(q)
      BY <2>6 DEF FetchFlush, FetchIo, FetchInline, regs
    <3>2. \A p \in Q : /\ sq'[p].live = sq[p].live /\ sq'[p].cqid = sq[p].cqid
                       /\ p # q => sq'[p] = sq[p]
      BY <3>1, Consts DEF Advanced, SqRings
    <3>3. sq[q].cqid \in Q
      BY Consts DEF SqRings
    <3>4. cq'[0].live = cq[0].live
      BY <2>6, <3>3, Consts DEF FetchFlush, FetchIo, FetchInline, Posted, CqRings
    <3> QED BY <3>1, <3>2, <3>4, Consts
  <2> QED BY <1>1, <2>1, <2>2, <2>3, <2>4, <2>5, <2>6 DEF Holder
<1>2. CASE Transfers \/ Syncs \/ Drain
  BY <1>0, <1>2 DEF Transfers, Syncs, Drain, FinishIo, FinishFlush, regs, rings
<1>3. ASSUME NEW q \in Q, RingSq(q)
      PROVE  QueuesLinked'
  <2>1. en' = en /\ cq' = cq
    BY <1>3 DEF RingSq, regs
  <2>2. ASSUME NEW p \in Q
        PROVE  sq'[p].live = sq[p].live /\ sq'[p].cqid = sq[p].cqid
               /\ sq'[p].head = sq[p].head
    <3>1. sq' = sq \/ sq' = [sq EXCEPT ![q].tail = gTail[q]]
      BY <1>3 DEF RingSq
    <3>2. sq[p] \in [live : BOOLEAN, head : Nat, tail : Nat, cqid : Q] /\ DOMAIN sq = Q
      BY DEF SqRings
    <3> QED BY ONLY <3>1, <3>2
  <2> QED BY <2>1, <2>2, Consts
<1>4. ASSUME NEW c \in Q, RingCq(c)
      PROVE  QueuesLinked'
  <2>1. cq'[0].live = cq[0].live
    BY <1>4, Consts DEF RingCq, CqRings
  <2> QED BY <1>0, <1>4, <2>1 DEF RingCq, regs
<1>5. CASE OtherWrite \/ \E w \in CcWrites : BeginCc(w)
  BY <1>0, <1>5 DEF OtherWrite, BeginCc, regs, rings
<1>6. CASE (\E q \in Q, cmd \in Cmd : Submit(q, cmd)) \/ \E c \in Q : Reap(c)
  BY <1>0, <1>6 DEF Submit, Reap, regs, rings
<1>7. CASE UNCHANGED vars
  BY <1>0, <1>7 DEF vars, regs, rings
<1> QED BY <1>1, <1>2, <1>3, <1>4, <1>5, <1>6, <1>7 DEF Next, Registers

(* The part that says what the lock holder may find. *)
LEMMA PlaceStep ==
  ASSUME TypeOK, JobsAreIo, SlotsHeld, HolderPlace, [Next]_vars
  PROVE  HolderPlace'
<1> USE DEF HolderPlace
<1>0. inFlight \in Nat /\ todo \in SUBSET Q
  BY DEF TypeOK, JobsOK, HolderOK
<1>1. CASE Holder
  <2>1. CASE ApplyCc
    <3>1. pc = "cc" /\ pc' \in {"free", "enter"} /\ taking' = taking
      BY <2>1 DEF ApplyCc
    <3> QED BY <3>1
  <2>2. CASE EnterProcess
    <3>1. pc = "enter" /\ taking' = taking /\ UNCHANGED <<pending, shst, inFlight>>
      BY <2>2 DEF EnterProcess, regs, rings, counts
    <3>2. CASE finished # {} \/ (0 \in pending /\ inFlight > 0)
      <4>1. pc' = "take" /\ wait' = (0 \in pending)
        BY <2>2, <3>2 DEF EnterProcess
      <4> QED BY <3>1, <4>1
    <3>3. CASE ~(finished # {} \/ (0 \in pending /\ inFlight > 0))
      <4>1. pc' = "scan" /\ todo' = IF shst = "none" THEN pending ELSE {}
        BY <2>2, <3>3 DEF EnterProcess, StartScan
      <4> QED BY <1>0, <3>1, <3>3, <4>1
    <3> QED BY <3>2, <3>3
  <2>3. CASE TakeFinished
    BY <2>3 DEF TakeFinished, rings
  <2>4. CASE AllPosted
    <3>1. pc = "post" /\ taking = {} /\ UNCHANGED <<taking, poll, wait, pending, shst, inFlight>>
      BY <2>4 DEF AllPosted, regs, rings, counts
    <3>2. CASE wait /\ inFlight > 0
      <4>1. pc' = "take"
        BY <2>4, <3>2 DEF AllPosted
      <4>2. ~poll => wait = (0 \in pending)
        BY <3>1
      <4> QED BY <3>1, <4>1, <4>2
    <3>3. CASE ~(wait /\ inFlight > 0) /\ poll
      BY <2>4, <3>1, <3>3 DEF AllPosted
    <3>4. CASE ~(wait /\ inFlight > 0) /\ ~poll
      <4>1. pc' = "scan" /\ todo' = IF shst = "none" THEN pending ELSE {}
        BY <2>4, <3>4 DEF AllPosted, StartScan
      <4>2. 0 \in pending => inFlight = 0
        <5>1. 0 \in pending => wait
          BY <3>1, <3>4
        <5> QED BY <1>0, <3>4, <5>1
      <4> QED BY <3>1, <4>1, <4>2
    <3> QED BY <3>2, <3>3, <3>4
  <2>5. CASE LeaveSq
    <3>1. pc = "scan" /\ pc' = pc /\ todo' \in SUBSET todo
          /\ UNCHANGED <<taking, shst, inFlight>>
      BY <2>5 DEF LeaveSq, regs, counts
    <3> QED BY <3>1
  <2>6. CASE Unlock
    BY <2>6 DEF Unlock, holder
  <2>7. CASE \E j \in taking : SyncFinished(j) \/ \E ok \in BOOLEAN : PostFinished(j, ok)
    <3>1. pc = "post" /\ UNCHANGED <<pc, poll, wait, pending>>
      BY <2>7 DEF SyncFinished, PostFinished, rings
    <3> QED BY <3>1
  <2>8. CASE \E cmd \in AdminCmd : FetchAdmin(cmd)
    <3>1. pc = "scan" /\ UNCHANGED <<pc, taking, todo, shst, inFlight>>
      BY <2>8 DEF FetchAdmin, Fetch, holder, counts
    <3> QED BY <3>1
  <2>9. ASSUME NEW q \in IoQ, NEW cmd \in IoCmd,
               \/ FetchFlush(q, cmd) \/ FetchIo(q, cmd)
               \/ \E ok \in BOOLEAN : FetchInline(q, cmd, ok)
        PROVE  HolderPlace'
    <3>1. pc = "scan" /\ UNCHANGED <<pc, taking, todo, shst>> /\ q = Next1(todo)
      BY <2>9 DEF FetchFlush, FetchIo, FetchInline, Fetch, holder, regs
    <3>2. 0 \notin todo
      BY <1>0, <3>1, LowestFirst, Consts
    <3> QED BY <3>1, <3>2
  <2> QED BY <1>1, <2>1, <2>2, <2>3, <2>4, <2>5, <2>6, <2>7, <2>8, <2>9 DEF Holder
<1>2. CASE Transfers \/ Syncs
  BY <1>2 DEF Transfers, Syncs, FinishIo, FinishFlush, regs, rings, counts, holder
<1>3. CASE Drain \/ Registers
  <2>1. pc = "free" /\ taking' = taking
        /\ (pc' \in {"free", "cc", "enter"} \/ (pc' = "take" /\ poll'))
    BY <1>3 DEF Drain, Registers, RingSq, RingCq, OtherWrite, BeginCc, holder
  <2> QED BY <2>1
<1>4. CASE (\E q \in Q, cmd \in Cmd : Submit(q, cmd)) \/ \E c \in Q : Reap(c)
  <2>1. CASE \E q \in Q, cmd \in Cmd : Submit(q, cmd)
    BY <2>1 DEF Submit, regs, rings, counts, holder
  <2>2. CASE \E c \in Q : Reap(c)
    BY <2>2 DEF Reap, regs, rings, counts, holder
  <2> QED BY <1>4, <2>1, <2>2
<1>5. CASE UNCHANGED vars
  BY <1>5 DEF vars, regs, rings, counts, holder
<1> QED BY <1>1, <1>2, <1>3, <1>4, <1>5 DEF Next

(* Failing a job keeps the queues it belongs to. *)
LEMMA FailedKeeps ==
  ASSUME NEW S \in SUBSET Job, NEW k \in Failed(S)
  PROVE  \E j \in S : k.sqid = j.sqid /\ k.cqid = j.cqid
BY DEF Failed, Job

(* The queues a job will complete to stay while it is in flight. *)
LEMMA OutliveStep ==
  ASSUME TypeOK, QueuesLinked, JobsAreIo, SlotsHeld, HolderPlace, QueuesOutliveJobs,
         [Next]_vars
  PROVE  QueuesOutliveJobs'
<1> DEFINE All == Jobs \cup taking
           Kept(j) == /\ sq[j.sqid].live /\ sq[j.sqid].cqid = j.cqid
                      /\ cq[j.cqid].live
<1> USE DEF TypeOK, RingsOK, QueuesOutliveJobs
<1>0. \A j \in All : Kept(j) /\ j.sqid \in Q /\ j.cqid \in Q /\ j.sqid \in IoQ /\ j.cqid \in IoQ
  BY Consts DEF JobsAreIo
<1> SUFFICES ASSUME NEW k \in All'
             PROVE  Kept(k)'
  OBVIOUS
<1>1. ASSUME UNCHANGED <<sq, cq>>,
             k \in All \/ \E j \in All : k.sqid = j.sqid /\ k.cqid = j.cqid
      PROVE  Kept(k)'
  BY <1>0, <1>1
<1>9. k \in Failed(untaken) => \E j \in All : k.sqid = j.sqid /\ k.cqid = j.cqid
  <2>1. untaken \in SUBSET Job /\ untaken \subseteq All
    BY DEF Jobs, JobsOK
  <2>2. k \in Failed(untaken) => \E j \in untaken : k.sqid = j.sqid /\ k.cqid = j.cqid
    BY <2>1, FailedKeeps
  <2> HIDE DEF All
  <2> QED BY ONLY <2>1, <2>2
<1>2. CASE Holder
  <2>1. CASE ApplyCc
    <3>1. taking = {} /\ taking' = {} /\ untaken' = untaken /\ running' = running
          /\ flushing' = flushing /\ untaken = {} /\ running = {} /\ flushing = {}
      BY <2>1, AllJobsFinished DEF ApplyCc, HolderPlace
    <3>2. CASE Disable \/ ColdReset
      <4>1. finished' = {}
        BY <3>2 DEF Disable, ColdReset, Release
      <4> QED BY <3>1, <4>1 DEF Jobs
    <3>3. CASE KeepEnable
      <4>1. finished' = finished /\ UNCHANGED <<sq, cq>>
        BY <3>3 DEF KeepEnable, rings
      <4>2. k \in All
        BY <3>1, <4>1 DEF Jobs
      <4> QED BY <1>1, <4>1, <4>2
    <3>4. CASE Enable
      <4>1. finished' = finished /\ sq' = [sq EXCEPT ![0] = NewSq(0)] /\ cq' = [cq EXCEPT ![0] = NewCq]
        BY <3>4 DEF Enable
      <4>2. k \in All
        BY <3>1, <4>1 DEF Jobs
      <4>3. k.sqid # 0 /\ k.cqid # 0
        BY <1>0, <4>2, Consts
      <4> QED BY <1>0, <4>1, <4>2, <4>3 DEF SqRings, CqRings
    <3> QED BY <2>1, <3>2, <3>3, <3>4 DEF ApplyCc
  <2>2. ASSUME NEW cmd \in AdminCmd, FetchAdmin(cmd)
        PROVE  Kept(k)'
    <3>1. Jobs = {} /\ taking = {}
      BY <2>2, AdminAlone DEF FetchAdmin
    <3>2. Jobs' = {} /\ taking' = {}
      BY <2>2, <3>1 DEF FetchAdmin, pools, holder, Jobs
    <3> QED BY <3>2
  <2>3. CASE EnterProcess
    <3>1. UNCHANGED <<sq, cq>>
      BY <2>3 DEF EnterProcess, rings
    <3>2. k \in All \/ k \in Failed(untaken)
      BY <2>3 DEF EnterProcess, Jobs
    <3> QED BY <1>1, <1>9, <3>1, <3>2
  <2>4. CASE TakeFinished \/ AllPosted \/ LeaveSq \/ Unlock
    <3>1. UNCHANGED <<sq, cq>>
      BY <2>4 DEF TakeFinished, AllPosted, LeaveSq, Unlock, rings
    <3>2. k \in All
      BY <2>4 DEF TakeFinished, AllPosted, LeaveSq, Unlock, Release, Jobs, pools, holder
    <3> QED BY <1>1, <3>1, <3>2
  <2>5. ASSUME NEW j \in taking, SyncFinished(j)
        PROVE  Kept(k)'
    <3>1. UNCHANGED <<sq, cq>>
      BY <2>5 DEF SyncFinished, rings
    <3>2. k \in All \/ (k.sqid = j.sqid /\ k.cqid = j.cqid)
      BY <2>5 DEF SyncFinished, DeferFlush, Jobs
    <3> QED BY <1>1, <3>1, <3>2
  <2>6. ASSUME NEW j \in taking, NEW ok \in BOOLEAN, PostFinished(j, ok)
        PROVE  Kept(k)'
    <3>1. sq' = sq /\ (cq' = cq \/ cq' = Posted(cq, j.cqid))
      BY <2>6 DEF PostFinished
    <3>2. k \in All
      BY <2>6 DEF PostFinished, FlushInline, Jobs
    <3>3. cq'[k.cqid].live = cq[k.cqid].live
      BY <1>0, <3>1, <3>2, PostedAt
    <3> QED BY <1>0, <3>1, <3>2, <3>3
  <2>7. ASSUME NEW q \in IoQ, NEW cmd \in IoCmd,
               FetchFlush(q, cmd) \/ FetchIo(q, cmd)
        PROVE  Kept(k)'
    <3>1. sq' = Advanced(q) /\ cq' = cq /\ sq[q].live /\ cq[sq[q].cqid].live
      BY <2>7 DEF FetchFlush, FetchIo, Fetch, HasWork, HasSpace
    <3>2. k \in All \/ (k.sqid = q /\ k.cqid = sq[q].cqid)
      BY <2>7 DEF FetchFlush, FetchIo, DeferFlush, Jobs, holder
    <3>3. k.sqid \in Q
      BY <1>0, <3>2, Consts
    <3>4. sq'[k.sqid].live = sq[k.sqid].live /\ sq'[k.sqid].cqid = sq[k.sqid].cqid
      BY <3>1, <3>3, AdvancedAt, Consts
    <3> QED BY <1>0, <3>1, <3>2, <3>4
  <2>8. ASSUME NEW q \in IoQ, NEW cmd \in IoCmd, NEW ok \in BOOLEAN, FetchInline(q, cmd, ok)
        PROVE  Kept(k)'
    <3>1. sq' = Advanced(q) /\ cq' = Posted(cq, sq[q].cqid)
      BY <2>8 DEF FetchInline
    <3>2. k \in All
      BY <2>8 DEF FetchInline, FlushInline, Jobs, holder
    <3>3. sq[q].cqid \in Q
      BY Consts DEF SqRings
    <3>4. cq'[k.cqid].live = cq[k.cqid].live
      BY <1>0, <3>1, <3>2, <3>3, PostedAt
    <3>5. k.sqid \in Q /\ q \in Q
      BY <1>0, <3>2, Consts
    <3>6. sq'[k.sqid].live = sq[k.sqid].live /\ sq'[k.sqid].cqid = sq[k.sqid].cqid
      BY <3>1, <3>5, AdvancedAt
    <3> QED BY <1>0, <3>2, <3>4, <3>6
  <2> QED BY <1>2, <2>1, <2>2, <2>3, <2>4, <2>5, <2>6, <2>7, <2>8 DEF Holder
<1>3. ASSUME NEW j \in running, NEW ok \in BOOLEAN, FinishIo(j, ok)
      PROVE  Kept(k)'
  <2>1. k \in All \/ (k.sqid = j.sqid /\ k.cqid = j.cqid)
    BY <1>3 DEF FinishIo, holder, Jobs, JobsOK, Job
  <2>2. j \in All
    BY DEF Jobs
  <2> QED BY <1>1, <1>3, <2>1, <2>2 DEF FinishIo, rings
<1>4. ASSUME NEW j \in flushing, NEW ok \in BOOLEAN, FinishFlush(j, ok)
      PROVE  Kept(k)'
  <2>1. k \in All \/ (k.sqid = j.sqid /\ k.cqid = j.cqid)
    BY <1>4 DEF FinishFlush, holder, Jobs, JobsOK, Job
  <2>2. j \in All
    BY DEF Jobs
  <2> QED BY <1>1, <1>4, <2>1, <2>2 DEF FinishFlush, rings
<1>5. ASSUME NEW w \in CcWrites, BeginCc(w)
      PROVE  Kept(k)'
  <2>1. k \in All \/ k \in Failed(untaken)
    BY <1>5 DEF BeginCc, Jobs
  <2>2. UNCHANGED <<sq, cq>>
    BY <1>5 DEF BeginCc, rings
  <2> QED BY <1>1, <1>9, <2>1, <2>2
<1>6. ASSUME NEW q \in Q, RingSq(q)
      PROVE  Kept(k)'
  <2>1. cq' = cq /\ k \in All
    BY <1>6 DEF RingSq, pools, holder, Jobs
  <2>2. sq'[k.sqid].live = sq[k.sqid].live /\ sq'[k.sqid].cqid = sq[k.sqid].cqid
    BY <1>0, <1>6, <2>1 DEF RingSq, SqRings
  <2> QED BY <1>0, <2>1, <2>2
<1>7. ASSUME NEW c \in Q, RingCq(c)
      PROVE  Kept(k)'
  <2>1. sq' = sq /\ k \in All
    BY <1>7 DEF RingCq, pools, holder, Jobs
  <2>2. cq'[k.cqid].live = cq[k.cqid].live
    BY <1>0, <1>7, <2>1 DEF RingCq, CqRings
  <2> QED BY <1>0, <2>1, <2>2
<1>8. CASE \/ Drain \/ OtherWrite \/ (\E q \in Q, cmd \in Cmd : Submit(q, cmd))
           \/ (\E c \in Q : Reap(c)) \/ UNCHANGED vars
  <2>1. UNCHANGED <<sq, cq, untaken, running, flushing, finished, taking>>
    BY <1>8 DEF Drain, OtherWrite, Submit, Reap, vars, rings, pools, holder
  <2>2. k \in All
    BY <2>1 DEF Jobs
  <2> QED BY <1>1, <2>1, <2>2
<1> QED BY <1>2, <1>3, <1>4, <1>5, <1>6, <1>7, <1>8 DEF Next, Transfers, Syncs, Registers

-----------------------------------------------------------------------------
(* Completion rings *)

(* The ring part of the invariant, for one ring. *)
Ring(c) ==
  cq[c].live =>
    /\ Dist(cq[c].head, cq[c].tail, CqSize[c]) + held[c] + Cardinality(Of(taking, c)) < CqSize[c]
    /\ \A i \in 0..CqSize[c]-1 :
         cqMem[c][i].phase = (IF i < cq[c].tail THEN cq[c].phase ELSE ~cq[c].phase)
    /\ Dist(cq[c].head, gCqHead[c], CqSize[c]) <= Dist(cq[c].head, cq[c].tail, CqSize[c])
    /\ gPhase[c] = (IF gCqHead[c] <= cq[c].tail THEN cq[c].phase ELSE ~cq[c].phase)

(* Ring by ring, it is three conjuncts of the invariant. *)
LEMMA Rings == (\A c \in Q : Ring(c)) <=> RingCapacity /\ PhasesLaid /\ GuestBetween
BY Zenon DEF Ring, RingCapacity, PhasesLaid, GuestBetween

(* Indices of a ring, and what its slots hold. *)
LEMMA RingFacts ==
  ASSUME TypeOK, JobsAreIo, NEW c \in Q
  PROVE  /\ CqSize[c] \in Nat \ {0} /\ CqSize[c] > 1
         /\ cq[c].head \in Nat /\ cq[c].head < CqSize[c]
         /\ cq[c].tail \in Nat /\ cq[c].tail < CqSize[c]
         /\ gCqHead[c] \in Nat /\ gCqHead[c] < CqSize[c]
         /\ held[c] \in Nat /\ Cardinality(Of(taking, c)) \in Nat
BY Consts, PoolCounts DEF TypeOK, RingsOK, CqRings, DriverOK

(* Phase tags are Booleans. *)
LEMMA RingPhases ==
  ASSUME TypeOK, NEW c \in Q
  PROVE  /\ cq[c].phase \in BOOLEAN /\ gPhase[c] \in BOOLEAN
         /\ \A i \in 0..CqSize[c]-1 : cqMem[c][i].phase \in BOOLEAN
BY DEF TypeOK, RingsOK, CqRings, DriverOK, MemoryOK, Entry

(* A ring nothing happens to, while no slot more is held on it. *)
LEMMA RingSame ==
  ASSUME NEW c \in Q, Ring(c), TypeOK, JobsAreIo, held'[c] \in Nat,
         Cardinality(Of(taking', c)) \in Nat,
         cq'[c] = cq[c], cqMem'[c] = cqMem[c], gCqHead'[c] = gCqHead[c],
         gPhase'[c] = gPhase[c],
         held'[c] + Cardinality(Of(taking', c)) <= held[c] + Cardinality(Of(taking, c))
  PROVE  Ring(c)'
<1> SUFFICES ASSUME cq[c].live PROVE Ring(c)'
  BY DEF Ring
<1>1. Dist(cq[c].head, cq[c].tail, CqSize[c]) + held'[c] + Cardinality(Of(taking', c)) < CqSize[c]
  <2>1. Dist(cq[c].head, cq[c].tail, CqSize[c]) \in Nat
    BY RingFacts, DistOnRing
  <2>2. Dist(cq[c].head, cq[c].tail, CqSize[c]) + held[c] + Cardinality(Of(taking, c)) < CqSize[c]
    BY DEF Ring
  <2> QED BY <2>1, <2>2, RingFacts
<1> QED BY <1>1 DEF Ring

(* A ring the vCPU takes a slot of to hold it. *)
LEMMA RingHeld ==
  ASSUME NEW c \in Q, Ring(c), TypeOK, JobsAreIo,
         UNCHANGED <<cq, cqMem, gCqHead, gPhase, taking>>, HasSpace(c), taking = {},
         held'[c] = held[c] + 1
  PROVE  Ring(c)'
<1>1. Cardinality(Of(taking, c)) = 0
  BY NoJobs
<1>2. Dist(cq[c].head, cq[c].tail, CqSize[c]) + held'[c] + Cardinality(Of(taking', c)) < CqSize[c]
  BY <1>1, RingFacts, DistOnRing DEF HasSpace
<1> QED BY <1>2 DEF Ring, HasSpace

(* A ring just created, with no slot held on it. *)
LEMMA RingNew ==
  ASSUME NEW c \in Q, cq'[c] = NewCq,
         cqMem'[c] = [i \in 0..CqSize[c]-1 |-> Zeroed(FALSE)],
         gCqHead'[c] = 0, gPhase'[c] = TRUE, held'[c] = 0, taking' = {}
  PROVE  Ring(c)'
<1>1. Cardinality(Of(taking', c)) = 0
  BY NoJobs
<1>2. CqSize[c] \in Nat /\ CqSize[c] > 1
  BY Consts
<1>3. \A i \in 0..CqSize[c]-1 : cqMem'[c][i].phase = FALSE /\ ~(i < 0)
  BY DEF Zeroed
<1>4. /\ cq'[c].live /\ cq'[c].head = 0 /\ cq'[c].tail = 0 /\ cq'[c].phase = TRUE
      /\ gCqHead'[c] <= cq'[c].tail
  BY DEF NewCq
<1>5. Dist(0, 0, CqSize[c]) = 0
  BY <1>2 DEF Dist
<1>6. Dist(0, 0, CqSize[c]) + held'[c] + Cardinality(Of(taking', c)) < CqSize[c]
  BY <1>1, <1>2, <1>5
<1> QED BY <1>3, <1>4, <1>5, <1>6 DEF Ring

(* A ring an entry is posted to: the guest, which is not behind the head it
   rang, is not overtaken.                                                 *)
LEMMA RingPosted ==
  ASSUME NEW c \in Q, Ring(c), TypeOK, JobsAreIo, cq[c].live, NEW e,
         cq'[c] = Posted(cq, c)[c], e.phase = cq[c].phase,
         cqMem'[c] = [cqMem[c] EXCEPT ![cq[c].tail] = e],
         gCqHead'[c] = gCqHead[c], gPhase'[c] = gPhase[c],
         held'[c] \in Nat, Cardinality(Of(taking', c)) \in Nat,
         Dist(cq[c].head, cq[c].tail, CqSize[c]) + 1 + held'[c]
           + Cardinality(Of(taking', c)) < CqSize[c]
  PROVE  Ring(c)'
<1> DEFINE n == CqSize[c]
           h == cq[c].head
           t == cq[c].tail
           u == Succ(t, n)
           g == gCqHead[c]
<1>1. /\ cq'[c].live = cq[c].live /\ cq'[c].head = h /\ cq'[c].tail = u
      /\ cq'[c].phase = IF u = 0 THEN ~cq[c].phase ELSE cq[c].phase
  <2>1. cq \in CqRings
    BY DEF TypeOK, RingsOK
  <2>2. cq'[c].live = cq[c].live /\ cq'[c].head = h
    <3>1. \A d \in Q : Posted(cq, c)[d].live = cq[d].live /\ Posted(cq, c)[d].head = cq[d].head
      BY <2>1, PostedAt
    <3>2. Posted(cq, c)[c].live = cq[c].live
      BY <3>1
    <3>3. Posted(cq, c)[c].head = h
      BY <3>1
    <3> QED BY <3>2, <3>3
  <2>4. cq'[c].tail = u
    BY <2>1, PostedAt
  <2>3. cq'[c].phase = IF u = 0 THEN ~cq[c].phase ELSE cq[c].phase
    BY <2>1, PostedAt
  <2> QED BY <2>2, <2>3, <2>4
<1>2. n \in Nat \ {0} /\ h \in Nat /\ t \in Nat /\ g \in Nat /\ h < n /\ t < n /\ g < n
  BY RingFacts
<1>3. Dist(h, g, n) <= Dist(h, t, n)
  BY DEF Ring
<1>4. Dist(h, t, n) \in Nat /\ Dist(h, t, n) + 1 < n /\ Dist(h, u, n) = Dist(h, t, n) + 1
  <2>1. Dist(h, t, n) \in Nat
    BY <1>2, DistOnRing
  <2>2. Dist(h, t, n) + 1 < n
    BY <1>2, <2>1
  <2> QED BY <1>2, <2>1, <2>2, DistOfSucc
<1>5. Dist(h, g, n) <= Dist(h, u, n)
  <2>1. Dist(h, g, n) \in Nat
    BY <1>2, DistOnRing
  <2> QED BY <1>3, <1>4, <2>1
<1>6. u = 0 => t = n - 1 /\ g <= t /\ ~(g <= u)
  BY <1>2, <1>3, <1>4 DEF Succ, Dist
<1>7. u # 0 => u = t + 1 /\ (g <= t <=> g <= u)
  BY <1>2, <1>3, <1>4 DEF Succ, Dist
<1>8. gPhase'[c] = (IF g <= u THEN cq'[c].phase ELSE ~cq'[c].phase)
  <2>1. gPhase[c] = (IF g <= t THEN cq[c].phase ELSE ~cq[c].phase)
    BY DEF Ring
  <2>2. CASE u = 0
    BY <1>1, <1>6, <2>1, <2>2, RingPhases
  <2>3. CASE u # 0
    BY <1>1, <1>7, <2>1, <2>3
  <2> QED BY <2>2, <2>3
<1>9. ASSUME NEW i \in 0..n-1
      PROVE  cqMem'[c][i].phase = (IF i < u THEN cq'[c].phase ELSE ~cq'[c].phase)
  <2>0. cqMem[c] \in [0..n-1 -> Entry]
    BY DEF TypeOK, MemoryOK
  <2>1. cqMem'[c][i].phase = (IF i <= t THEN cq[c].phase ELSE ~cq[c].phase)
    <3>1. CASE i = t
      BY <1>2, <2>0, <3>1
    <3>2. CASE i # t
      <4>1. cqMem'[c][i] = cqMem[c][i]
        BY <2>0, <3>2
      <4>2. cqMem[c][i].phase = (IF i < t THEN cq[c].phase ELSE ~cq[c].phase)
        BY DEF Ring
      <4>3. i < t <=> i <= t
        BY <1>2, <3>2
      <4> QED BY <4>1, <4>2, <4>3
    <3> QED BY <3>1, <3>2
  <2>2. CASE u = 0
    <3>1. i <= t /\ ~(i < u)
      BY <1>2, <1>6, <2>2
    <3> QED BY <1>1, <2>1, <2>2, <3>1, RingPhases
  <2>3. CASE u # 0
    <3>1. i <= t <=> i < u
      BY <1>2, <1>7, <2>3
    <3> QED BY <1>1, <2>1, <2>3, <3>1
  <2> QED BY <2>2, <2>3
<1>10. Dist(h, u, n) + held'[c] + Cardinality(Of(taking', c)) < n
  BY <1>2, <1>4
<1> HIDE DEF u
<1> QED BY <1>1, <1>5, <1>8, <1>9, <1>10 DEF Ring

(* A ring the guest takes an entry off: there is one, by the phase tags. *)
LEMMA RingReaped ==
  ASSUME NEW c \in Q, Ring(c), TypeOK, JobsAreIo, cq[c].live,
         UNCHANGED <<cq, held, taking>>,
         Looks(c).phase = gPhase[c],
         cqMem'[c] = [cqMem[c] EXCEPT ![gCqHead[c]] = Zeroed(Looks(c).phase)],
         gCqHead'[c] = Succ(gCqHead[c], CqSize[c]),
         gPhase'[c] = IF Succ(gCqHead[c], CqSize[c]) = 0 THEN ~gPhase[c] ELSE gPhase[c]
  PROVE  Ring(c)'
<1> DEFINE n == CqSize[c]
           h == cq[c].head
           t == cq[c].tail
           g == gCqHead[c]
           k == Succ(g, n)
<1>1. n \in Nat \ {0} /\ h \in Nat /\ t \in Nat /\ g \in Nat /\ h < n /\ t < n /\ g < n
  BY RingFacts
<1>2. Dist(h, g, n) <= Dist(h, t, n)
  BY DEF Ring
<1>3. gPhase[c] = (IF g <= t THEN cq[c].phase ELSE ~cq[c].phase)
  BY DEF Ring
<1>4. cqMem[c][g].phase = (IF g < t THEN cq[c].phase ELSE ~cq[c].phase)
  BY <1>1 DEF Ring
<1>5. g # t
  <2> SUFFICES ASSUME g = t PROVE FALSE
    OBVIOUS
  <2>1. g <= t /\ ~(g < t)
    BY <1>1
  <2> QED BY <1>3, <1>4, <2>1, RingPhases DEF Looks
<1>6. Dist(h, k, n) <= Dist(h, t, n)
  BY <1>1, <1>2, <1>5 DEF Dist, Succ
<1>7. k = 0 => ~(g <= t) /\ k <= t
  BY <1>1, <1>2, <1>5 DEF Dist, Succ
<1>8. k # 0 => (g <= t <=> k <= t)
  BY <1>1, <1>2, <1>5 DEF Dist, Succ
<1>9. gPhase'[c] = (IF k <= t THEN cq[c].phase ELSE ~cq[c].phase)
  <2>1. CASE k = 0
    BY <1>3, <1>7, <2>1, RingPhases
  <2>2. CASE k # 0
    BY <1>3, <1>8, <2>2
  <2> QED BY <2>1, <2>2
<1>10. ASSUME NEW i \in 0..n-1
       PROVE  cqMem'[c][i].phase = cqMem[c][i].phase
  <2>1. cqMem[c] \in [0..n-1 -> Entry]
    BY DEF TypeOK, MemoryOK
  <2>2. CASE i = g
    BY <2>1, <2>2 DEF Zeroed, Looks
  <2>3. CASE i # g
    BY <2>1, <2>3
  <2> QED BY <2>2, <2>3
<1> HIDE DEF k
<1> QED BY <1>6, <1>9, <1>10 DEF Ring, k

(* A ring whose head doorbell the guest rings. *)
LEMMA RingRung ==
  ASSUME NEW c \in Q, Ring(c), TypeOK, JobsAreIo, cq[c].live,
         UNCHANGED <<cqMem, held, taking, gCqHead, gPhase>>,
         cq' = [cq EXCEPT ![c].head = gCqHead[c]]
  PROVE  Ring(c)'
<1> DEFINE n == CqSize[c]
<1>1. /\ n \in Nat \ {0} /\ cq[c].head \in Nat /\ cq[c].tail \in Nat /\ gCqHead[c] \in Nat
      /\ cq[c].head < n /\ cq[c].tail < n /\ gCqHead[c] < n
      /\ held[c] \in Nat /\ Cardinality(Of(taking, c)) \in Nat
  BY RingFacts
<1>2. /\ cq'[c].live /\ cq'[c].head = gCqHead[c] /\ cq'[c].tail = cq[c].tail
      /\ cq'[c].phase = cq[c].phase
  BY DEF TypeOK, RingsOK, CqRings
<1>3. Dist(gCqHead[c], cq[c].tail, n) <= Dist(cq[c].head, cq[c].tail, n)
  BY <1>1, DistOfHead DEF Ring
<1>4. Dist(gCqHead[c], gCqHead[c], n) = 0 /\ Dist(gCqHead[c], cq[c].tail, n) \in Nat
      /\ Dist(cq[c].head, cq[c].tail, n) \in Nat
  BY <1>1, DistOnRing
<1>5. Dist(gCqHead[c], cq[c].tail, n) + held[c] + Cardinality(Of(taking, c)) < n
  BY <1>1, <1>3, <1>4 DEF Ring
<1> QED BY <1>2, <1>4, <1>5 DEF Ring

(* The entry post_completion writes. *)
NewEntry(c, q, cmd, ok, h) ==
  [sqid |-> q, cmd |-> cmd, sqHead |-> h, ok |-> ok, phase |-> cq[c].phase]

(* A completion posted to the admin ring, another ring being as before or
   just created.                                                           *)
LEMMA RingsAnswered ==
  ASSUME TypeOK, JobsAreIo, NEW c \in Q, \A d \in Q : Ring(d), NEW f \in CqRings, NEW m,
         DOMAIN m = Q, f[0] = cq[0], m[0] = cqMem[0], NEW q, NEW cmd, NEW ok, NEW h,
         cq' = Posted(f, 0), cqMem' = Written(m, 0, q, cmd, ok, h),
         UNCHANGED <<held, taking>>, taking = {}, held[c] = 0, HasSpace(0), held[0] = 0,
         \/ c = 0 /\ gCqHead'[0] = gCqHead[0] /\ gPhase'[0] = gPhase[0]
         \/ c # 0 /\ ~f[c].live
         \/ c # 0 /\ f[c] = cq[c] /\ m[c] = cqMem[c]
                  /\ gCqHead'[c] = gCqHead[c] /\ gPhase'[c] = gPhase[c]
         \/ c # 0 /\ f[c] = NewCq /\ m[c] = [i \in 0..CqSize[c]-1 |-> Zeroed(FALSE)]
                  /\ gCqHead'[c] = 0 /\ gPhase'[c] = TRUE
  PROVE  Ring(c)'
<1>1. 0 \in Q /\ Cardinality(Of(taking, c)) = 0 /\ Cardinality(Of(taking, 0)) = 0
  BY NoJobs, Consts
<1>2. c # 0 => cq'[c] = f[c] /\ cqMem'[c] = m[c]
  BY <1>1, PostedAt DEF Written
<1>3. CASE c = 0
  <2> DEFINE e == NewEntry(0, q, cmd, ok, h)
  <2>1. cqMem'[0] = [cqMem[0] EXCEPT ![cq[0].tail] = e] /\ e.phase = cq[0].phase
    BY <1>1 DEF Written, NewEntry
  <2> HIDE DEF e
  <2>2. cq'[0] = Posted(cq, 0)[0]
    <3>1. cq \in CqRings
      BY DEF TypeOK, RingsOK
    <3> QED BY <1>1, <3>1 DEF Posted, CqRings
  <2>3. Dist(cq[0].head, cq[0].tail, CqSize[0]) + 1 + held'[0] + Cardinality(Of(taking', 0)) < CqSize[0]
    <3>1. Dist(cq[0].head, cq[0].tail, CqSize[0]) \in Nat
      BY <1>1, RingFacts, DistOnRing
    <3> QED BY <1>1, <3>1, RingFacts DEF HasSpace
  <2>4. held'[0] \in Nat /\ Cardinality(Of(taking', 0)) \in Nat
    BY <1>1
  <2> QED BY <1>1, <1>3, <2>1, <2>2, <2>3, <2>4, RingPosted DEF HasSpace
<1>4. CASE c # 0 /\ ~f[c].live
  BY <1>2, <1>4 DEF Ring
<1>5. CASE c # 0 /\ f[c] = cq[c] /\ m[c] = cqMem[c]
                 /\ gCqHead'[c] = gCqHead[c] /\ gPhase'[c] = gPhase[c]
  BY <1>1, <1>2, <1>5, RingSame
<1>6. CASE c # 0 /\ f[c] = NewCq /\ m[c] = [i \in 0..CqSize[c]-1 |-> Zeroed(FALSE)]
                 /\ gCqHead'[c] = 0 /\ gPhase'[c] = TRUE
  BY <1>2, <1>6, RingNew
<1> QED BY <1>3, <1>4, <1>5, <1>6

(* Every ring, under every step. *)
LEMMA RingStep ==
  ASSUME Inductive, [Next]_vars, NEW c \in Q
  PROVE  Ring(c)'
<1> USE DEF Inductive
<1>0. /\ \A d \in Q : Ring(d)
      /\ cq \in CqRings /\ sq \in SqRings /\ DOMAIN cqMem = Q
      /\ held[c] \in Nat /\ Cardinality(Of(taking, c)) \in Nat
      /\ pc # "post" => Cardinality(Of(taking, c)) = 0
  <2>1. pc # "post" => Cardinality(Of(taking, c)) = 0
    BY NoJobs DEF HolderPlace
  <2> QED BY <2>1, Rings, RingFacts DEF TypeOK, RingsOK, MemoryOK
<1>same. ASSUME cq'[c] = cq[c], cqMem'[c] = cqMem[c], gCqHead'[c] = gCqHead[c],
                gPhase'[c] = gPhase[c], UNCHANGED <<held, taking>>
         PROVE  Ring(c)'
  BY <1>0, <1>same, RingSame
<1>1. CASE Holder
  <2>1. CASE ApplyCc
    <3>1. taking = {} /\ taking' = {}
      BY <2>1 DEF ApplyCc, HolderPlace
    <3>2. CASE Enable
      <4>1. /\ cq' = [cq EXCEPT ![0] = NewCq] /\ cqMem' = ZeroedCq(0) /\ held' = held
            /\ gCqHead' = [gCqHead EXCEPT ![0] = 0] /\ gPhase' = [gPhase EXCEPT ![0] = TRUE]
        BY <3>2 DEF Enable, FreshCq, counts
      <4>2. CASE c = 0
        <5>1. /\ cq'[c] = NewCq /\ cqMem'[c] = [i \in 0..CqSize[c]-1 |-> Zeroed(FALSE)]
              /\ gCqHead'[c] = 0 /\ gPhase'[c] = TRUE /\ held'[c] = 0
          BY <1>0, <4>1, <4>2, Consts DEF CqRings, ZeroedCq, TypeOK, DriverOK, SlotsHeld
        <5> QED BY <3>1, <5>1, RingNew
      <4>3. CASE c # 0
        <5>1. /\ cq'[c] = cq[c] /\ cqMem'[c] = cqMem[c]
              /\ gCqHead'[c] = gCqHead[c] /\ gPhase'[c] = gPhase[c]
          BY <1>0, <4>1, <4>3 DEF CqRings, ZeroedCq, TypeOK, DriverOK
        <5> QED BY <1>same, <3>1, <4>1, <5>1
      <4> QED BY <4>2, <4>3
    <3>3. CASE Disable \/ ColdReset
      <4>1. cq' = [d \in Q |-> NoCq]
        BY <3>3 DEF Disable, ColdReset
      <4> QED BY <4>1 DEF Ring, NoCq
    <3>4. CASE KeepEnable
      BY <1>same, <3>1, <3>4 DEF KeepEnable, rings, memory, driver, counts
    <3> QED BY <2>1, <3>2, <3>3, <3>4 DEF ApplyCc
  <2>2. CASE TakeFinished
    <3>1. /\ pc = "take" /\ taking' = finished /\ UNCHANGED <<cq, cqMem, gCqHead, gPhase>>
          /\ held'[c] = Minus(held[c], Cardinality(Of(finished, c)))
      BY <2>2 DEF TakeFinished, Release, rings, memory, driver
    <3>2. Cardinality(Of(taking, c)) = 0 /\ Cardinality(Of(finished, c)) \in Nat
      BY <1>0, <3>1, PoolCounts
    <3>3. held[c] >= Cardinality(Of(finished, c))
      <4>1. SlotsOf(c)
        BY DEF SlotsHeld, SlotsOf
      <4> QED BY <4>1, PoolCounts DEF SlotsOf
    <3>4. held'[c] \in Nat /\ held'[c] + Cardinality(Of(taking', c)) = held[c]
      BY <1>0, <3>1, <3>2, <3>3 DEF Minus
    <3> QED BY <1>0, <3>1, <3>2, <3>4, RingSame
  <2>3. CASE EnterProcess \/ AllPosted \/ LeaveSq \/ Unlock
    BY <1>same, <2>3 DEF EnterProcess, AllPosted, LeaveSq, Unlock, rings, memory, driver, counts, holder
  <2>4. ASSUME NEW j \in taking, SyncFinished(j)
        PROVE  Ring(c)'
    <3>1. /\ UNCHANGED <<cq, cqMem, gCqHead, gPhase>> /\ taking' = taking \ {j}
          /\ held' = [held EXCEPT ![j.cqid] = @ + 1]
      BY <2>4 DEF SyncFinished, DeferFlush, Hold, rings, memory, driver
    <3>2. Cardinality(Of(taking', c)) = Cardinality(Of(taking, c)) - (IF j.cqid = c THEN 1 ELSE 0)
          /\ Cardinality(Of(taking', c)) \in Nat
      BY <3>1, Loses, Shares DEF JobsAreIo
    <3>3. held'[c] = held[c] + (IF j.cqid = c THEN 1 ELSE 0)
      BY <3>1 DEF TypeOK, JobsOK
    <3>4. held'[c] \in Nat
          /\ held'[c] + Cardinality(Of(taking', c)) <= held[c] + Cardinality(Of(taking, c))
      BY <1>0, <3>2, <3>3
    <3> QED BY <1>0, <3>1, <3>2, <3>4, RingSame
  <2>5. ASSUME NEW j \in taking, NEW ok \in BOOLEAN, PostFinished(j, ok)
        PROVE  Ring(c)'
    <3>1. /\ cq' = Posted(cq, j.cqid)
          /\ cqMem' = Written(cqMem, j.cqid, j.sqid, j.cmd, ok, sq[j.sqid].head)
          /\ cq[j.cqid].live
      BY <2>5 DEF PostFinished, QueuesOutliveJobs
    <3>2. UNCHANGED <<held, gCqHead, gPhase>> /\ taking' = taking \ {j}
      BY <2>5 DEF PostFinished, FlushInline, counts, driver
    <3>3. j.cqid \in Q
      BY Consts DEF JobsAreIo
    <3>4. Cardinality(Of(taking', c)) = Cardinality(Of(taking, c)) - (IF j.cqid = c THEN 1 ELSE 0)
          /\ Cardinality(Of(taking', c)) \in Nat
      BY <3>2, Loses, Shares DEF JobsAreIo
    <3>5. CASE c = j.cqid
      <4> DEFINE e == NewEntry(c, j.sqid, j.cmd, ok, sq[j.sqid].head)
      <4>1. cqMem'[c] = [cqMem[c] EXCEPT ![cq[c].tail] = e] /\ e.phase = cq[c].phase
        BY <1>0, <3>1, <3>5 DEF Written, NewEntry
      <4> HIDE DEF e
      <4>2. Dist(cq[c].head, cq[c].tail, CqSize[c]) \in Nat /\ CqSize[c] \in Nat
        BY RingFacts, DistOnRing
      <4>3. Dist(cq[c].head, cq[c].tail, CqSize[c]) + held[c] + Cardinality(Of(taking, c)) < CqSize[c]
        BY <1>0, <3>1, <3>5 DEF Ring
      <4>4. Dist(cq[c].head, cq[c].tail, CqSize[c]) + 1 + held'[c]
              + Cardinality(Of(taking', c)) < CqSize[c]
        BY <1>0, <3>2, <3>4, <3>5, <4>2, <4>3
      <4> QED BY <1>0, <3>1, <3>2, <3>4, <3>5, <4>1, <4>4, RingPosted
    <3>6. CASE c # j.cqid
      <4>1. cq'[c] = cq[c] /\ cqMem'[c] = cqMem[c]
        BY <1>0, <3>1, <3>3, <3>6, PostedAt DEF Written
      <4>2. held'[c] = held[c] /\ Cardinality(Of(taking', c)) = Cardinality(Of(taking, c))
        BY <1>0, <3>2, <3>4, <3>6
      <4>3. gCqHead'[c] = gCqHead[c] /\ gPhase'[c] = gPhase[c]
        BY <3>2
      <4> QED BY <1>0, <4>1, <4>2, <4>3, RingSame
    <3> QED BY <3>5, <3>6
  <2>6. ASSUME NEW cmd \in AdminCmd, FetchAdmin(cmd)
        PROVE  Ring(c)'
    <3>1. /\ cmd.q \in Q /\ cmd.q # 0 /\ 0 \in Q
          /\ taking = {} /\ held[c] = 0 /\ held[0] = 0 /\ HasSpace(0) /\ UNCHANGED <<held, taking>>
      <4>1. cmd.q \in Q /\ cmd.q # 0 /\ 0 \in Q
        BY Commands, Consts
      <4>2. taking = {} /\ held[c] = 0 /\ held[0] = 0
        BY <2>6, <4>1, AdminAlone DEF FetchAdmin
      <4>3. HasSpace(0)
        BY <2>6 DEF FetchAdmin, Fetch, QueuesLinked
      <4>4. UNCHANGED <<held, taking>>
        BY <2>6 DEF FetchAdmin, counts, holder
      <4> QED BY <4>1, <4>2, <4>3, <4>4
    <3> DEFINE h == Advanced(0)[0].head
    <3>2. ASSUME NEW ok, cq' = Posted(cq, 0), cqMem' = Written(cqMem, 0, 0, cmd, ok, h),
                 UNCHANGED <<gCqHead, gPhase>>
          PROVE  Ring(c)'
      <4> HIDE DEF h
      <4> QED BY <1>0, <3>1, <3>2, RingsAnswered
    <3>3. CASE CreateCq(cmd)
      <4>1. CASE cq[cmd.q].live
        BY <3>2, <3>3, <4>1 DEF CreateCq, Answer
      <4>2. CASE ~cq[cmd.q].live
        <5> DEFINE f == [cq EXCEPT ![cmd.q] = NewCq]
                   ok == ~cq[cmd.q].live
        <5>1. /\ cq' = Posted(f, 0) /\ cqMem' = Written(ZeroedCq(cmd.q), 0, 0, cmd, ok, h)
              /\ gCqHead' = [gCqHead EXCEPT ![cmd.q] = 0]
              /\ gPhase' = [gPhase EXCEPT ![cmd.q] = TRUE]
          BY <3>3, <4>2 DEF CreateCq, Answer, FreshCq
        <5>2. f \in CqRings
          BY <1>0, <3>1, CqShapes
        <5>3. f[0] = cq[0] /\ (c # cmd.q => f[c] = cq[c]) /\ f[cmd.q] = NewCq
          BY <1>0, <3>1 DEF CqRings
        <5>4. /\ DOMAIN ZeroedCq(cmd.q) = Q /\ ZeroedCq(cmd.q)[0] = cqMem[0]
              /\ c # cmd.q => ZeroedCq(cmd.q)[c] = cqMem[c]
              /\ ZeroedCq(cmd.q)[cmd.q] = [i \in 0..CqSize[cmd.q]-1 |-> Zeroed(FALSE)]
          BY <1>0, <3>1 DEF ZeroedCq
        <5>5. /\ gCqHead'[0] = gCqHead[0] /\ gPhase'[0] = gPhase[0]
              /\ c # cmd.q => gCqHead'[c] = gCqHead[c] /\ gPhase'[c] = gPhase[c]
              /\ gCqHead'[cmd.q] = 0 /\ gPhase'[cmd.q] = TRUE
          BY <3>1, <5>1 DEF TypeOK, DriverOK
        <5> HIDE DEF f, ok, h
        <5> QED BY <1>0, <3>1, <5>1, <5>2, <5>3, <5>4, <5>5, RingsAnswered
      <4> QED BY <4>1, <4>2
    <3>4. CASE CreateSq(cmd)
      BY <3>2, <3>4 DEF CreateSq, Answer
    <3>5. CASE DeleteSq(cmd)
      BY <3>2, <3>5 DEF DeleteSq, Answer
    <3>6. CASE DeleteCq(cmd)
      <4> DEFINE ok == cq[cmd.q].live /\ \A q \in Q : sq[q].live => sq[q].cqid # cmd.q
                 f == IF ok THEN [cq EXCEPT ![cmd.q] = NoCq] ELSE cq
      <4>1. /\ cq' = Posted(f, 0) /\ cqMem' = Written(cqMem, 0, 0, cmd, ok, h)
            /\ UNCHANGED <<gCqHead, gPhase>>
        BY <3>6 DEF DeleteCq, Answer
      <4> HIDE DEF ok, h
      <4>2. CASE ok
        <5>1. f = [cq EXCEPT ![cmd.q] = NoCq] /\ cq \in CqRings
          BY <1>0, <4>2
        <5>2. f \in CqRings
          BY <3>1, <5>1, CqShapes
        <5>3. DOMAIN cq = Q /\ ~NoCq.live
          BY <5>1 DEF CqRings, NoCq
        <5> HIDE DEF f
        <5>4. f[0] = cq[0] /\ (c # cmd.q => f[c] = cq[c]) /\ ~f[cmd.q].live
          BY <1>0, <3>1, <5>1, <5>3
        <5> QED BY <1>0, <3>1, <4>1, <5>2, <5>4, RingsAnswered
      <4>3. CASE ~ok
        BY <3>2, <4>1, <4>3
      <4> QED BY <4>2, <4>3
    <3>7. CASE AsyncEvent(cmd)
      <4>1. CASE aer < AerLimit
        BY <1>same, <3>1, <3>7, <4>1 DEF AsyncEvent
      <4>2. CASE ~(aer < AerLimit)
        BY <3>2, <3>7, <4>2 DEF AsyncEvent, Answer
      <4> QED BY <4>1, <4>2
    <3>8. CASE OtherAdmin(cmd)
      BY <3>2, <3>8 DEF OtherAdmin, Answer
    <3> QED BY <2>6, <3>3, <3>4, <3>5, <3>6, <3>7, <3>8 DEF FetchAdmin
  <2>7. ASSUME NEW q \in IoQ, NEW cmd \in IoCmd, FetchFlush(q, cmd) \/ FetchIo(q, cmd)
        PROVE  Ring(c)'
    <3>1. /\ UNCHANGED <<cq, cqMem, gCqHead, gPhase, taking>> /\ HasSpace(sq[q].cqid)
          /\ held' = [held EXCEPT ![sq[q].cqid] = @ + 1] /\ pc = "scan"
      BY <2>7 DEF FetchFlush, FetchIo, Fetch, DeferFlush, Hold, rings, memory, driver, holder
    <3>2. taking = {}
      BY <3>1 DEF HolderPlace
    <3>3. held'[c] = held[c] + (IF c = sq[q].cqid THEN 1 ELSE 0)
      BY <3>1 DEF TypeOK, JobsOK
    <3>4. CASE c = sq[q].cqid
      BY <1>0, <3>1, <3>2, <3>3, <3>4, RingHeld
    <3>5. CASE c # sq[q].cqid
      <4>1. held'[c] = held[c]
        BY <1>0, <3>3, <3>5
      <4> QED BY <1>0, <3>1, <4>1, RingSame
    <3> QED BY <3>4, <3>5
  <2>8. ASSUME NEW q \in IoQ, NEW cmd \in IoCmd, NEW ok \in BOOLEAN, FetchInline(q, cmd, ok)
        PROVE  Ring(c)'
    <3>1. /\ cq' = Posted(cq, sq[q].cqid)
          /\ cqMem' = Written(cqMem, sq[q].cqid, q, cmd, ok, Advanced(q)[q].head)
          /\ UNCHANGED <<held, taking, gCqHead, gPhase>> /\ HasSpace(sq[q].cqid) /\ pc = "scan"
      BY <2>8 DEF FetchInline, FlushInline, Fetch, counts, driver, holder
    <3>2. sq[q].cqid \in Q
      BY <1>0, Consts DEF SqRings
    <3>3. CASE c = sq[q].cqid
      <4> DEFINE e == NewEntry(c, q, cmd, ok, Advanced(q)[q].head)
      <4>1. cqMem'[c] = [cqMem[c] EXCEPT ![cq[c].tail] = e] /\ e.phase = cq[c].phase
        BY <1>0, <3>1, <3>3 DEF Written, NewEntry
      <4> HIDE DEF e
      <4>2. Dist(cq[c].head, cq[c].tail, CqSize[c]) \in Nat /\ CqSize[c] \in Nat
        BY RingFacts, DistOnRing
      <4>3. cq[c].live /\ Dist(cq[c].head, cq[c].tail, CqSize[c]) + 1 + held[c] < CqSize[c]
        BY <3>1, <3>3 DEF HasSpace
      <4>4. Dist(cq[c].head, cq[c].tail, CqSize[c]) + 1 + held'[c]
              + Cardinality(Of(taking', c)) < CqSize[c]
        BY <1>0, <3>1, <4>2, <4>3
      <4> QED BY <1>0, <3>1, <3>3, <4>1, <4>3, <4>4, RingPosted
    <3>4. CASE c # sq[q].cqid
      <4>1. cq'[c] = cq[c] /\ cqMem'[c] = cqMem[c]
        BY <1>0, <3>1, <3>2, <3>4, PostedAt DEF Written
      <4> QED BY <1>same, <3>1, <4>1
    <3> QED BY <3>3, <3>4
  <2> QED BY <1>1, <2>1, <2>2, <2>3, <2>4, <2>5, <2>6, <2>7, <2>8 DEF Holder
<1>2. CASE Transfers \/ Syncs \/ Drain \/ OtherWrite
           \/ (\E q \in Q : RingSq(q)) \/ (\E w \in CcWrites : BeginCc(w))
  BY <1>same, <1>2 DEF Transfers, Syncs, Drain, OtherWrite, FinishIo, FinishFlush, RingSq,
       BeginCc, rings, memory, driver, counts, holder
<1>3. ASSUME NEW d \in Q, RingCq(d)
      PROVE  Ring(c)'
  <2>1. UNCHANGED <<cqMem, held, taking, gCqHead, gPhase>>
    BY <1>3 DEF RingCq, memory, counts, holder, driver
  <2>2. CASE c = d /\ cq[c].live
    <3>1. cq' = [cq EXCEPT ![c].head = gCqHead[c]]
      BY <1>3, <2>2 DEF RingCq
    <3> QED BY <1>0, <2>1, <2>2, <3>1, RingRung
  <2>3. CASE c # d \/ ~cq[c].live
    <3>1. cq'[c] = cq[c]
      BY <1>0, <1>3, <2>3 DEF RingCq, CqRings
    <3> QED BY <1>same, <2>1, <3>1
  <2> QED BY <2>2, <2>3
<1>4. CASE \E q \in Q, cmd \in Cmd : Submit(q, cmd)
  BY <1>same, <1>4 DEF Submit, rings, counts, holder
<1>5. ASSUME NEW d \in Q, Reap(d)
      PROVE  Ring(c)'
  <2>1. /\ UNCHANGED <<cq, held, taking>> /\ Polls(d) /\ Looks(d).phase = gPhase[d]
        /\ cqMem' = [cqMem EXCEPT ![d][gCqHead[d]] = Zeroed(Looks(d).phase)]
        /\ gCqHead' = [gCqHead EXCEPT ![d] = Succ(gCqHead[d], CqSize[d])]
        /\ gPhase' = [gPhase EXCEPT ![d] = IF Succ(gCqHead[d], CqSize[d]) = 0 THEN ~@ ELSE @]
    BY <1>5 DEF Reap, Sees, rings, counts, holder
  <2>2. CASE c = d
    <3>1. cq[c].live
      BY <2>1, <2>2 DEF Polls, QueuesLinked
    <3>2. cqMem'[c] = [cqMem[c] EXCEPT ![gCqHead[c]] = Zeroed(Looks(c).phase)]
      BY <1>0, <2>1, <2>2
    <3>3. gCqHead'[c] = Succ(gCqHead[c], CqSize[c])
      BY <2>1, <2>2 DEF TypeOK, DriverOK
    <3>4. gPhase'[c] = IF Succ(gCqHead[c], CqSize[c]) = 0 THEN ~gPhase[c] ELSE gPhase[c]
      BY <2>1, <2>2 DEF TypeOK, DriverOK
    <3> QED BY <1>0, <2>1, <2>2, <3>1, <3>2, <3>3, <3>4, RingReaped
  <2>3. CASE c # d
    <3>1. cqMem'[c] = cqMem[c] /\ gCqHead'[c] = gCqHead[c] /\ gPhase'[c] = gPhase[c]
      BY <1>0, <2>1, <2>3 DEF TypeOK, DriverOK
    <3> QED BY <1>same, <2>1, <3>1
  <2> QED BY <2>2, <2>3
<1>6. CASE UNCHANGED vars
  BY <1>same, <1>6 DEF vars, rings, memory, driver, counts, holder
<1> QED BY <1>1, <1>2, <1>3, <1>4, <1>5, <1>6 DEF Next, Registers

-----------------------------------------------------------------------------
(* The theorems *)

(* with_disk_backend: the invariant holds of a new controller. *)
LEMMA InitInductive == Init => Inductive
<1> SUFFICES ASSUME Init PROVE Inductive
  OBVIOUS
<1> USE DEF Init
<1>1. RegistersOK
  BY Settings DEF RegistersOK
<1>2. RingsOK
  BY Consts DEF RingsOK, SqRings, CqRings, NoSq, NoCq
<1>3. JobsOK
  BY DEF JobsOK
<1>4. HolderOK
  BY DEF HolderOK, NoReq, CcWrite
<1>5. EntriesOK
  BY ZeroedOK DEF EntriesOK
<1>6. MemoryOK
  BY <1>5 DEF MemoryOK, EntriesOK, GoodEntry
<1>7. DriverOK
  BY Consts DEF DriverOK
<1>8. QueuesLinked
  BY Consts DEF QueuesLinked, NoSq
<1>9. JobsAreIo
  BY FS_EmptySet DEF JobsAreIo, Jobs
<1>10. SlotsHeld
  BY NoJobs, Consts DEF SlotsHeld
<1>11. HolderPlace
  BY DEF HolderPlace
<1>12. RingCapacity /\ PhasesLaid /\ GuestBetween
  BY DEF RingCapacity, PhasesLaid, GuestBetween, NoCq
<1>13. QueuesOutliveJobs
  BY DEF QueuesOutliveJobs, Jobs
<1> QED
  BY <1>1, <1>2, <1>3, <1>4, <1>5, <1>6, <1>7, <1>8, <1>9, <1>10, <1>11, <1>12, <1>13
  DEF Inductive, TypeOK

(* Every step preserves it. *)
LEMMA StepInductive == Inductive /\ [Next]_vars => Inductive'
<1> SUFFICES ASSUME Inductive, [Next]_vars PROVE Inductive'
  OBVIOUS
<1>1. TypeOK /\ QueuesLinked /\ JobsAreIo /\ SlotsHeld /\ HolderPlace /\ EntriesOK
      /\ QueuesOutliveJobs
  BY DEF Inductive
<1>2. RegistersOK' /\ RingsOK' /\ HolderOK' /\ DriverOK'
  BY <1>1, RegistersStep, RingsStep, HolderStep, DriverStep
<1>3. JobsOK' /\ JobsAreIo' /\ SlotsHeld'
  BY <1>1, JobsStep DEF JobPart
<1>4. EntriesOK' /\ DOMAIN cqMem' = Q /\ SqMemOK(sqMem')
  BY <1>1, CqMemStep, SqMemStep
<1>5. MemoryOK'
  BY <1>4 DEF MemoryOK, SqMemOK, EntriesOK, GoodEntry
<1>6. QueuesLinked' /\ HolderPlace' /\ QueuesOutliveJobs'
  BY <1>1, QueuesStep, PlaceStep, OutliveStep
<1>7. \A c \in Q : Ring(c)'
  BY RingStep
<1>8. RingCapacity' /\ PhasesLaid' /\ GuestBetween'
  BY <1>7, Zenon DEF Ring, RingCapacity, PhasesLaid, GuestBetween
<1> QED BY <1>2, <1>3, <1>4, <1>5, <1>6, <1>8 DEF Inductive, TypeOK

(* The inductive invariant holds in every reachable state. *)
THEOREM InductiveAlways == Spec => []Inductive
BY InitInductive, StepInductive, PTL DEF Spec

(* Types hold, and every ring index stays on its ring. *)
THEOREM TypesHold == Spec => []TypeOK
<1>1. Inductive => TypeOK
  BY DEF Inductive
<1> QED BY <1>1, InductiveAlways, PTL

(* No completion ring is ever overrun, however late the completions of
   deferred commands come: cq_has_space and the held slots suffice.        *)
THEOREM RingsNeverOverrun == Spec => []RingCapacity
<1>1. Inductive => RingCapacity
  BY DEF Inductive
<1> QED BY <1>1, InductiveAlways, PTL

(* The guest recognises exactly the entries it has not taken yet. *)
THEOREM PhaseTagsAlwaysTell == Spec => []PhaseTagsTell
<1>1. Inductive => PhaseTagsTell
  <2> SUFFICES ASSUME Inductive, NEW c \in Q, cq[c].live, NEW i \in 0..CqSize[c]-1
               PROVE  (cqMem[c][i].phase = (IF i >= gCqHead[c] THEN gPhase[c] ELSE ~gPhase[c]))
                        <=> i \in Unreaped(c)
    BY DEF PhaseTagsTell
  <2> DEFINE g == gCqHead[c]
             t == cq[c].tail
             p == cq[c].phase
  <2>1. /\ cqMem[c][i].phase = (IF i < t THEN p ELSE ~p)
        /\ gPhase[c] = (IF g <= t THEN p ELSE ~p)
    BY DEF Inductive, PhasesLaid, GuestBetween
  <2>2. p \in BOOLEAN /\ g \in Nat /\ t \in Nat /\ i \in Nat
    BY RingPhases, RingFacts DEF Inductive
  <2>3. i \in Unreaped(c) <=> IF g <= t THEN g <= i /\ i < t ELSE g <= i \/ i < t
    BY RingFacts DEF Unreaped, Between, Inductive
  <2> HIDE DEF g, t, p
  <2>4. CASE g <= t
    <3>1. (i < t \/ i >= g) /\ (i >= g <=> g <= i)
      BY <2>2, <2>4
    <3> QED BY <2>1, <2>2, <2>3, <2>4, <3>1 DEF g
  <2>5. CASE ~(g <= t)
    <3>1. ~(i < t /\ i >= g) /\ (i >= g <=> g <= i)
      BY <2>2, <2>5
    <3> QED BY <2>1, <2>2, <2>3, <2>5, <3>1 DEF g
  <2> QED BY <2>4, <2>5
<1> QED BY <1>1, InductiveAlways, PTL

(* Queues are deleted and controllers reset only when no job would complete
   to them any more.                                                       *)
THEOREM QueuesAlwaysOutliveJobs == Spec => []QueuesOutliveJobs
<1>1. Inductive => QueuesOutliveJobs
  BY DEF Inductive
<1> QED BY <1>1, InductiveAlways, PTL

(* The only steps that move the head of a submission ring, short of those that
   create, delete or reset it, fetch a command.                            *)
LEMMA HeadMoves ==
  ASSUME TypeOK, QueuesLinked, [Next]_vars, NEW q \in Q,
         sq'[q].live \/ (q = 0 /\ en'), sq'[q].head # sq[q].head
  PROVE  \E p \in Q, cmd \in Cmd : Fetch(p, cmd) /\ (q = 0 => p = 0)
<1> USE DEF TypeOK, RingsOK
<1>1. CASE Holder
  <2>1. CASE ApplyCc
    <3>1. CASE Enable
      <4>1. sq' = [sq EXCEPT ![0] = NewSq(0)] /\ ~en
        BY <3>1 DEF Enable
      <4>2. sq[0].head = 0
        BY <4>1 DEF QueuesLinked
      <4>3. sq'[q].head = sq[q].head
        BY <4>1, <4>2, Consts DEF NewSq, SqRings
      <4> QED BY <4>3
    <3>2. CASE Disable \/ ColdReset
      <4>1. en' = FALSE /\ sq' = [p \in Q |-> NoSq]
        BY <3>2 DEF Disable, ColdReset
      <4>2. sq'[q].live = FALSE
        BY <4>1 DEF NoSq
      <4> QED BY <4>1, <4>2
    <3>3. CASE KeepEnable
      BY <3>3 DEF KeepEnable, rings
    <3> QED BY <2>1, <3>1, <3>2, <3>3 DEF ApplyCc
  <2>2. ASSUME NEW cmd \in AdminCmd, FetchAdmin(cmd)
        PROVE  \E p \in Q, k \in Cmd : Fetch(p, k) /\ (q = 0 => p = 0)
    <3>1. Fetch(0, cmd) /\ cmd \in Cmd
      BY <2>2 DEF FetchAdmin, Cmd
    <3> QED BY <3>1, Consts
  <2>3. CASE EnterProcess \/ TakeFinished \/ AllPosted \/ LeaveSq \/ Unlock
    BY <2>3 DEF EnterProcess, TakeFinished, AllPosted, LeaveSq, Unlock, rings
  <2>4. ASSUME NEW j \in taking,
               SyncFinished(j) \/ \E ok \in BOOLEAN : PostFinished(j, ok)
        PROVE  FALSE
    BY <2>4 DEF SyncFinished, PostFinished, rings
  <2>5. ASSUME NEW p \in IoQ, NEW cmd \in IoCmd,
               \/ FetchFlush(p, cmd) \/ FetchIo(p, cmd)
               \/ \E ok \in BOOLEAN : FetchInline(p, cmd, ok)
        PROVE  \E r \in Q, k \in Cmd : Fetch(r, k) /\ (q = 0 => r = 0)
    <3>1. Fetch(p, cmd) /\ sq' = Advanced(p) /\ cmd \in Cmd /\ p \in Q
      BY <2>5, Consts DEF FetchFlush, FetchIo, FetchInline, Cmd
    <3>2. q = p
      BY <3>1, AdvancedAt
    <3> QED BY <3>1, <3>2
  <2> QED BY <1>1, <2>1, <2>2, <2>3, <2>4, <2>5 DEF Holder
<1>2. CASE Transfers \/ Syncs \/ Drain
  BY <1>2 DEF Transfers, Syncs, Drain, FinishIo, FinishFlush, rings
<1>3. CASE Registers
  <2>1. ASSUME NEW p \in Q, RingSq(p)
        PROVE  FALSE
    <3>1. sq' = sq \/ sq' = [sq EXCEPT ![p].tail = gTail[p]]
      BY <2>1 DEF RingSq
    <3>2. sq[q] \in [live : BOOLEAN, head : Nat, tail : Nat, cqid : Q] /\ DOMAIN sq = Q
      BY DEF SqRings
    <3> QED BY <3>1, <3>2
  <2>2. ASSUME NEW c \in Q, RingCq(c)
        PROVE  FALSE
    BY <2>2 DEF RingCq
  <2>3. CASE OtherWrite \/ \E w \in CcWrites : BeginCc(w)
    BY <2>3 DEF OtherWrite, BeginCc, rings
  <2> QED BY <1>3, <2>1, <2>2, <2>3 DEF Registers
<1>4. CASE (\E p \in Q, cmd \in Cmd : Submit(p, cmd)) \/ \E c \in Q : Reap(c)
  BY <1>4 DEF Submit, Reap, rings
<1>5. CASE UNCHANGED vars
  BY <1>5 DEF vars, rings
<1> QED BY <1>1, <1>2, <1>3, <1>4, <1>5 DEF Next

(* While the controller stays enabled, an admin command is fetched only when
   no I/O command is in flight on a worker thread.                         *)
THEOREM AdminAlwaysRunsAlone == Spec => AdminRunsAlone
<1>1. ASSUME Inductive, [Next]_vars, en, en', sq'[0].head # sq[0].head
      PROVE  inFlight = 0 /\ Jobs = {}
  <2>1. PICK cmd \in Cmd : Fetch(0, cmd)
    BY <1>1, HeadMoves, Consts DEF Inductive
  <2> QED BY <1>1, <2>1, AdminAlone DEF Inductive
<1>2. Inductive /\ [Next]_vars
        => [en /\ en' /\ sq'[0].head # sq[0].head => inFlight = 0 /\ Jobs = {}]_vars
  BY <1>1
<1> QED BY <1>2, InductiveAlways, PTL DEF Spec, AdminRunsAlone

(* After a shutdown notification nothing is fetched until the next reset. *)
THEOREM ShutdownAlwaysStopsFetching == Spec => ShutdownStopsFetching
<1>1. ASSUME Inductive, [Next]_vars, shst # "none", shst' # "none",
             NEW q \in Q, sq'[q].live
      PROVE  sq'[q].head = sq[q].head
  <2>1. SUFFICES ASSUME sq'[q].head # sq[q].head PROVE FALSE
    OBVIOUS
  <2>2. PICK p \in Q, cmd \in Cmd : Fetch(p, cmd)
    BY <1>1, <2>1, HeadMoves DEF Inductive
  <2>3. pc = "scan" /\ todo # {}
    BY <2>2 DEF Fetch
  <2> QED BY <1>1, <2>3 DEF Inductive, HolderPlace
<1>2. Inductive /\ [Next]_vars
        => [shst # "none" /\ shst' # "none" =>
              \A q \in Q : sq'[q].live => sq'[q].head = sq[q].head]_vars
  BY <1>1
<1> QED BY <1>2, InductiveAlways, PTL DEF Spec, ShutdownStopsFetching

-----------------------------------------------------------------------------
(* No work is stranded: WorkInvariant *)

(* WorkMarked of queue q, whose completion ring is c. *)
Marked(q, c) ==
  sq[q].cqid = c =>
    /\ sq[q].live => en /\ cq[c].live
    /\ HasWork(q) => q \in pending
    /\ HasWork(q) /\ shst = "none" /\ Behind(q) => Full(c)

(* Every queue has one completion ring. *)
LEMMA MarkedAll ==
  ASSUME TypeOK, NEW q \in Q
  PROVE  WorkMarked(q) <=> \A c \in Q : Marked(q, c)
<1>1. sq[q].cqid \in Q
  BY DEF TypeOK, RingsOK, SqRings
<1> QED BY <1>1, Zenon DEF WorkMarked, Marked

(* A queue to which the step does nothing, and whose ring keeps no more room
   than it had.                                                            *)
LEMMA MarkedSame ==
  ASSUME NEW q \in Q, NEW c \in Q, Marked(q, c), sq'[q] = sq[q],
         sq[q].live /\ sq[q].cqid = c =>
           /\ en => en'
           /\ cq[c].live => cq'[c].live
           /\ HasWork(q) /\ q \in pending => q \in pending'
           /\ HasWork(q) /\ q \in pending /\ shst' = "none" /\ Behind(q)' =>
                shst = "none" /\ Behind(q) /\ (Full(c) => Full(c)')
  PROVE  Marked(q, c)'
<1>1. HasWork(q)' <=> HasWork(q)
  BY DEF HasWork
<1>2. HasWork(q) => sq[q].live
  BY DEF HasWork
<1> QED BY <1>1, <1>2 DEF Marked

(* A ring posts nothing and the slots it holds, or is about to use, do not
   become fewer.                                                           *)
LEMMA FullStays ==
  ASSUME TypeOK, JobsAreIo, NEW c \in Q, cq'[c] = cq[c],
         held'[c] \in Nat, Cardinality(Of(taking', c)) \in Nat,
         held'[c] + Cardinality(Of(taking', c)) >= held[c] + Cardinality(Of(taking, c))
  PROVE  Full(c) => Full(c)'
<1>1. Dist(cq[c].head, cq[c].tail, CqSize[c]) \in Nat
  BY RingFacts, DistOnRing
<1> QED BY <1>1, RingFacts DEF Full, Load

(* A ring posts one entry, with room for it, and gives up one slot at most. *)
LEMMA FullPosted ==
  ASSUME TypeOK, JobsAreIo, NEW c \in Q, cq'[c] = Posted(cq, c)[c],
         Dist(cq[c].head, cq[c].tail, CqSize[c]) + 1 < CqSize[c],
         held'[c] \in Nat, Cardinality(Of(taking', c)) \in Nat,
         held'[c] + Cardinality(Of(taking', c)) + 1
           >= held[c] + Cardinality(Of(taking, c))
  PROVE  Full(c) => Full(c)'
<1> DEFINE n == CqSize[c]
           h == cq[c].head
           t == cq[c].tail
<1>1. cq'[c].head = h /\ cq'[c].tail = Succ(t, n)
  <2>1. cq \in CqRings
    BY DEF TypeOK, RingsOK
  <2>2. \A d \in Q : Posted(cq, c)[d].head = cq[d].head
    BY <2>1, PostedAt
  <2>3. Posted(cq, c)[c].tail = Succ(t, n)
    BY <2>1, PostedAt
  <2> QED BY <2>2, <2>3
<1>2. n \in Nat \ {0} /\ h \in Nat /\ t \in Nat /\ h < n /\ t < n
  BY RingFacts
<1>3. Dist(h, Succ(t, n), n) = Dist(h, t, n) + 1
  BY <1>2, DistOfSucc
<1>4. Dist(h, t, n) \in Nat
  BY <1>2, DistOnRing
<1>5. held[c] \in Nat /\ Cardinality(Of(taking, c)) \in Nat
  BY RingFacts
<1>6. Load(c) = Dist(h, t, n) + held[c] + Cardinality(Of(taking, c))
  BY DEF Load
<1>7. Load(c)' = Dist(h, t, n) + 1 + held'[c] + Cardinality(Of(taking', c))
  BY <1>1, <1>3 DEF Load
<1> HIDE DEF n, h, t
<1>8. Load(c)' >= Load(c) /\ Load(c) \in Nat /\ Load(c)' \in Nat
  BY <1>4, <1>5, <1>6, <1>7
<1> QED BY <1>2, <1>8 DEF Full, n

(* The slot a job gives up when it is taken off the list being posted. *)
LEMMA OneTaken ==
  ASSUME TypeOK, JobsAreIo, NEW j \in taking, taking' = taking \ {j}, NEW c \in Q
  PROVE  /\ Cardinality(Of(taking', c))
              = Cardinality(Of(taking, c)) - (IF j.cqid = c THEN 1 ELSE 0)
         /\ Cardinality(Of(taking', c)) \in Nat
  BY Loses, Shares DEF JobsAreIo

(* An admin command leaves the ring of every I/O queue that outlives it as it
   was: a completion queue is created where none lived, and not deleted while
   a submission queue posts to it.                                         *)
LEMMA AdminKeepsRing ==
  ASSUME TypeOK, QueuesLinked, NEW cmd \in AdminCmd, FetchAdmin(cmd),
         NEW q \in IoQ, NEW c \in Q, sq[q].live, sq[q].cqid = c, cq[c].live
  PROVE  cq'[c] = cq[c]
<1>1. cmd.q \in Q /\ cmd.q # 0 /\ 0 \in Q /\ q \in Q
  BY Commands, Consts
<1>2. cq \in CqRings
  BY DEF TypeOK, RingsOK
<1>3. c # 0
  BY Consts DEF QueuesLinked
<1>4. ASSUME NEW f \in CqRings, f[c] = cq[c], cq' = cq \/ cq' = Posted(f, 0)
      PROVE  cq'[c] = cq[c]
  BY <1>1, <1>3, <1>4, PostedAt
<1>5. CASE CreateCq(cmd)
  <2>1. CASE cq[cmd.q].live
    BY <1>2, <1>4, <1>5, <2>1 DEF CreateCq, Answer
  <2>2. CASE ~cq[cmd.q].live
    <3> DEFINE f == [cq EXCEPT ![cmd.q] = NewCq]
    <3>1. cq' = Posted(f, 0)
      BY <1>5, <2>2 DEF CreateCq, Answer
    <3>2. f \in CqRings
      BY <1>1, <1>2, CqShapes
    <3>3. f[c] = cq[c]
      BY <1>2, <2>2 DEF CqRings
    <3> HIDE DEF f
    <3> QED BY <1>4, <3>1, <3>2, <3>3
  <2> QED BY <2>1, <2>2
<1>6. CASE DeleteCq(cmd)
  <2> DEFINE ok == cq[cmd.q].live /\ \A p \in Q : sq[p].live => sq[p].cqid # cmd.q
             f == IF ok THEN [cq EXCEPT ![cmd.q] = NoCq] ELSE cq
  <2>1. cq' = Posted(f, 0)
    BY <1>6 DEF DeleteCq, Answer
  <2>2. f \in CqRings
    BY <1>1, <1>2, CqShapes
  <2>3. f[c] = cq[c]
    <3>1. ok => c # cmd.q
      BY <1>1
    <3> QED BY <1>2, <3>1 DEF CqRings
  <2> HIDE DEF ok, f
  <2> QED BY <1>4, <2>1, <2>2, <2>3
<1>7. CASE CreateSq(cmd) \/ DeleteSq(cmd) \/ AsyncEvent(cmd) \/ OtherAdmin(cmd)
  <2>1. cq' = cq \/ cq' = Posted(cq, 0)
    BY <1>7 DEF CreateSq, DeleteSq, AsyncEvent, OtherAdmin, Answer
  <2> QED BY <1>2, <1>4, <2>1
<1> QED BY <1>5, <1>6, <1>7 DEF FetchAdmin

(* Admin commands: a queue created has no work yet, a queue deleted has none
   any more, and the admin queue itself is still to be visited.            *)
LEMMA MarkedAdmin ==
  ASSUME WorkInvariant, Inductive', NEW cmd \in AdminCmd, FetchAdmin(cmd),
         NEW q \in Q, NEW c \in Q
  PROVE  Marked(q, c)'
<1> USE DEF WorkInvariant, Inductive
<1>1. cmd.q \in Q /\ cmd.q # 0 /\ 0 \in Q
  BY Commands, Consts
<1>2. /\ Fetch(0, cmd) /\ UNCHANGED <<en, shst, pc, poll, todo, held, taking>>
      /\ pc = "scan" /\ 0 \in todo /\ HasWork(0)
  BY DEF FetchAdmin, Fetch, holder, counts
<1>3. sq \in SqRings /\ cq \in CqRings /\ Marked(q, c) /\ WorkMarked(0)
  BY MarkedAll, Consts DEF TypeOK, RingsOK
<1>4. CASE q = 0
  <2>1. sq'[0].cqid = 0 /\ (sq'[0].live => en' /\ cq'[0].live)
    BY DEF QueuesLinked
  <2>2. pending' = pending \/ pending' = pending \ {cmd.q}
    BY DEF FetchAdmin, CreateCq, CreateSq, DeleteSq, DeleteCq, AsyncEvent, OtherAdmin
  <2>3. 0 \in pending'
    BY <1>1, <1>2, <1>3, <2>2 DEF WorkMarked
  <2>4. ~Behind(0)'
    BY <1>2 DEF Behind
  <2> QED BY <1>4, <2>1, <2>3, <2>4 DEF Marked
<1>5. CASE q # 0
  <2>1. q \in IoQ /\ Advanced(0)[q] = sq[q] /\ Advanced(0) \in SqRings
    BY <1>1, <1>3, <1>5, AdvancedAt, SqShapes DEF Q, Advanced
  <2>2. \/ sq'[q] = sq[q] /\ (q \in pending => q \in pending')
        \/ sq'[q] = NoSq
        \/ sq'[q] = NewSq(cmd.cq) /\ cq'[cmd.cq].live
    <3>1. CASE CreateSq(cmd)
      <4> DEFINE ok == cmd.cq # 0 /\ cq[cmd.cq].live /\ ~sq[cmd.q].live
      <4>1. CASE ok /\ q = cmd.q
        <5>1. sq' = [Advanced(0) EXCEPT ![cmd.q] = NewSq(cmd.cq)] /\ cq' = Posted(cq, 0)
          BY <3>1, <4>1 DEF CreateSq, Answer
        <5>2. sq'[q] = NewSq(cmd.cq)
          BY <2>1, <4>1, <5>1 DEF SqRings
        <5>3. cmd.cq \in Q
          BY Commands
        <5>4. cq'[cmd.cq].live
          BY <1>1, <1>3, <4>1, <5>1, <5>3, PostedAt
        <5> QED BY <5>2, <5>4
      <4>2. CASE ~ok
        BY <2>1, <3>1, <4>2 DEF CreateSq
      <4>3. CASE ok /\ q # cmd.q
        <5>1. sq' = [Advanced(0) EXCEPT ![cmd.q] = NewSq(cmd.cq)] /\ pending' = pending \ {cmd.q}
          BY <3>1, <4>3 DEF CreateSq
        <5>2. sq'[q] = Advanced(0)[q]
          BY <2>1, <4>3, <5>1 DEF SqRings
        <5> QED BY <2>1, <4>3, <5>1, <5>2
      <4> HIDE DEF ok
      <4> QED BY <4>1, <4>2, <4>3
    <3>2. CASE DeleteSq(cmd)
      <4>1. CASE sq[cmd.q].live
        <5>1. sq' = [Advanced(0) EXCEPT ![cmd.q] = NoSq] /\ pending' = pending \ {cmd.q}
          BY <3>2, <4>1 DEF DeleteSq
        <5>2. sq'[q] = IF q = cmd.q THEN NoSq ELSE Advanced(0)[q]
          BY <2>1, <5>1 DEF SqRings
        <5> QED BY <2>1, <5>1, <5>2
      <4>2. CASE ~sq[cmd.q].live
        BY <2>1, <3>2, <4>2 DEF DeleteSq
      <4> QED BY <4>1, <4>2
    <3>3. CASE CreateCq(cmd) \/ DeleteCq(cmd) \/ AsyncEvent(cmd) \/ OtherAdmin(cmd)
      <4>1. sq' = Advanced(0) /\ pending' = pending
        BY <3>3 DEF CreateCq, DeleteCq, AsyncEvent, OtherAdmin
      <4> QED BY <2>1, <4>1
    <3> QED BY <3>1, <3>2, <3>3 DEF FetchAdmin
  <2>3. CASE sq'[q] = NoSq
    BY <2>3 DEF Marked, HasWork, NoSq
  <2>4. CASE sq'[q] = NewSq(cmd.cq) /\ cq'[cmd.cq].live
    <3>1. en'
      BY <2>4, <1>2, <1>3 DEF WorkMarked, HasWork
    <3> QED BY <2>4, <3>1 DEF Marked, HasWork, NewSq
  <2>5. CASE sq'[q] = sq[q] /\ (q \in pending => q \in pending')
    <3>1. Behind(q)' <=> Behind(q)
      BY <1>2 DEF Behind
    <3>2. ASSUME sq[q].live, sq[q].cqid = c
          PROVE  cq'[c] = cq[c]
      BY <1>3, <2>1, <3>2, AdminKeepsRing DEF Marked
    <3>3. cq'[c] = cq[c] => (Full(c) => Full(c)')
      BY <1>2 DEF Full, Load
    <3> QED BY <1>2, <1>3, <2>5, <3>1, <3>2, <3>3, MarkedSame
  <2> QED BY <2>2, <2>3, <2>4, <2>5
<1> QED BY <1>4, <1>5

(* The queue and the ring of a fetched I/O command: the queue is still to be
   visited, and the ring has one place less.                               *)
LEMMA MarkedFetch ==
  ASSUME WorkInvariant, Inductive', NEW p \in IoQ, NEW cmd \in IoCmd,
         \/ FetchFlush(p, cmd) \/ FetchIo(p, cmd)
         \/ \E ok \in BOOLEAN : FetchInline(p, cmd, ok),
         NEW q \in Q, NEW c \in Q
  PROVE  Marked(q, c)'
<1> USE DEF WorkInvariant, Inductive
<1>1. /\ Fetch(p, cmd) /\ UNCHANGED <<en, shst, pc, poll, todo, pending, taking>>
      /\ sq' = Advanced(p) /\ pc = "scan" /\ p \in todo /\ HasWork(p) /\ p \in Q
      /\ HasSpace(sq[p].cqid) /\ taking = {}
  BY Consts DEF FetchFlush, FetchIo, FetchInline, Fetch, regs, holder, HolderPlace
<1>2. sq \in SqRings /\ cq \in CqRings /\ Marked(q, c) /\ sq[p].cqid \in Q
  BY <1>1, MarkedAll DEF TypeOK, RingsOK, SqRings
<1>3. held[c] \in Nat /\ held'[c] \in Nat /\ Cardinality(Of(taking, c)) \in Nat
  BY PoolCounts DEF TypeOK, JobsOK
<1>4. /\ cq'[c].live = cq[c].live
      /\ Full(c) => Full(c)'
  <2>1. ASSUME FetchFlush(p, cmd) \/ FetchIo(p, cmd)
        PROVE  cq' = cq /\ held'[c] >= held[c]
    <3>1. cq' = cq /\ held' = [held EXCEPT ![sq[p].cqid] = @ + 1]
      BY <2>1 DEF FetchFlush, FetchIo, DeferFlush, Hold
    <3>2. held'[c] = IF c = sq[p].cqid THEN held[c] + 1 ELSE held[c]
      BY <3>1 DEF TypeOK, JobsOK
    <3> QED BY <1>3, <3>1, <3>2
  <2>2. ASSUME NEW ok \in BOOLEAN, FetchInline(p, cmd, ok)
        PROVE  cq' = Posted(cq, sq[p].cqid) /\ held' = held
    BY <2>2 DEF FetchInline, FlushInline, counts
  <2>3. CASE FetchFlush(p, cmd) \/ FetchIo(p, cmd)
    BY <1>1, <1>3, <2>1, <2>3, FullStays
  <2>4. CASE \E ok \in BOOLEAN : FetchInline(p, cmd, ok)
    <3>1. cq' = Posted(cq, sq[p].cqid) /\ held' = held
      BY <2>2, <2>4
    <3>2. cq'[c].live = cq[c].live
      BY <1>2, <3>1, PostedAt
    <3>3. CASE c = sq[p].cqid
      <4>1. Dist(cq[c].head, cq[c].tail, CqSize[c]) \in Nat /\ CqSize[c] \in Nat
        BY RingFacts, DistOnRing
      <4>2. Dist(cq[c].head, cq[c].tail, CqSize[c]) + 1 < CqSize[c]
        BY <1>1, <1>3, <3>3, <4>1 DEF HasSpace
      <4> QED BY <1>1, <1>3, <3>1, <3>2, <3>3, <4>2, FullPosted
    <3>4. CASE c # sq[p].cqid
      <4>1. cq'[c] = cq[c]
        BY <1>2, <3>1, <3>4, PostedAt
      <4> QED BY <1>1, <1>3, <3>1, <4>1, FullStays
    <3> QED BY <3>3, <3>4
  <2> QED BY <1>1, <2>3, <2>4
<1>5. CASE q = p
  <2>1. sq'[q].live = sq[q].live /\ sq'[q].cqid = sq[q].cqid
    BY <1>1, <1>2, <1>5, AdvancedAt
  <2>2. q \in pending'
    BY <1>1, <1>5 DEF WorkMarked
  <2>3. ~Behind(q)'
    BY <1>1, <1>5 DEF Behind
  <2> QED BY <1>1, <1>2, <1>4, <2>1, <2>2, <2>3 DEF Marked
<1>6. CASE q # p
  <2>1. sq'[q] = sq[q]
    BY <1>1, <1>2, <1>6, AdvancedAt
  <2>2. Behind(q)' <=> Behind(q)
    BY <1>1 DEF Behind
  <2> QED BY <1>1, <1>2, <1>4, <2>1, <2>2, MarkedSame
<1> QED BY <1>5, <1>6

(* Every queue and every ring, under every step. *)
LEMMA MarkedStep ==
  ASSUME WorkInvariant, Inductive', [Next]_vars, NEW q \in Q, NEW c \in Q
  PROVE  Marked(q, c)'
<1> USE DEF WorkInvariant, Inductive
<1>0. /\ sq \in SqRings /\ cq \in CqRings /\ Marked(q, c)
      /\ pc # "post" => taking = {} /\ Cardinality(Of(taking, c)) = 0
      /\ held[c] \in Nat /\ Cardinality(Of(taking, c)) \in Nat
      /\ held'[c] \in Nat /\ Cardinality(Of(taking', c)) \in Nat
  <2>1. IsFiniteSet(taking') /\ held'[c] \in Nat
    BY DEF JobsAreIo, TypeOK, JobsOK
  <2>2. Cardinality(Of(taking', c)) \in Nat
    BY <2>1, Shares
  <2>3. pc # "post" => taking = {} /\ Cardinality(Of(taking, c)) = 0
    BY NoJobs DEF HolderPlace
  <2> QED BY <2>1, <2>2, <2>3, MarkedAll, PoolCounts DEF TypeOK, RingsOK
<1>same. ASSUME UNCHANGED <<sq, en, shst, pending>>, cq'[c].live = cq[c].live,
                HasWork(q) /\ q \in pending /\ shst = "none" /\ Behind(q)' =>
                  Behind(q) /\ (Full(c) => Full(c)')
         PROVE  Marked(q, c)'
  BY <1>0, <1>same, MarkedSame
<1>full. ASSUME cq'[c] = cq[c],
                held'[c] + Cardinality(Of(taking', c)) >= held[c] + Cardinality(Of(taking, c))
         PROVE  Full(c) => Full(c)'
  BY <1>0, <1>full, FullStays
<1>1. CASE Holder
  <2>1. CASE ApplyCc
    <3>1. CASE Enable \/ KeepEnable
      <4>1. pc' = "enter" /\ ~Behind(q)'
        BY <2>1, <3>1 DEF ApplyCc, Enable, KeepEnable, Behind
      <4>2. CASE KeepEnable
        <5>1. UNCHANGED <<sq, cq, pending, en>>
          BY <4>2 DEF KeepEnable, rings
        <5> QED BY <1>0, <4>1, <5>1, MarkedSame
      <4>3. CASE Enable
        <5>1. /\ en' = TRUE /\ ~en /\ sq' = [sq EXCEPT ![0] = NewSq(0)]
              /\ cq' = [cq EXCEPT ![0] = NewCq]
          BY <4>3 DEF Enable
        <5>2. ~sq[q].live
          BY <5>1 DEF WorkMarked
        <5>3. CASE q = 0
          BY <1>0, <5>1, <5>3, Consts DEF Marked, HasWork, NewSq, NewCq, SqRings, CqRings
        <5>4. CASE q # 0
          BY <1>0, <5>1, <5>2, <5>4 DEF Marked, HasWork, SqRings
        <5> QED BY <5>3, <5>4
      <4> QED BY <3>1, <4>2, <4>3
    <3>2. CASE Disable \/ ColdReset
      <4>1. sq' = [p \in Q |-> NoSq]
        BY <3>2 DEF Disable, ColdReset
      <4> QED BY <4>1 DEF Marked, HasWork, NoSq
    <3> QED BY <2>1, <3>1, <3>2 DEF ApplyCc
  <2>2. CASE EnterProcess
    <3>1. UNCHANGED <<sq, cq, pending, en, shst>>
      BY <2>2 DEF EnterProcess, regs, rings
    <3>2. \/ pc' = "take" /\ poll' = FALSE
          \/ pc' = "scan" /\ todo' = IF shst = "none" THEN pending ELSE {}
      BY <2>2 DEF EnterProcess, StartScan
    <3>3. q \in pending /\ shst = "none" => ~Behind(q)'
      BY <3>2 DEF Behind
    <3> QED BY <1>same, <3>1, <3>3
  <2>3. CASE TakeFinished
    <3>1. /\ pc = "take" /\ pc' = "post" /\ taking' = finished /\ poll' = poll
          /\ UNCHANGED <<sq, cq, pending, en, shst>>
          /\ held'[c] = Minus(held[c], Cardinality(Of(finished, c)))
      BY <2>3 DEF TakeFinished, Release, regs, rings
    <3>2. Cardinality(Of(taking, c)) = 0 /\ Cardinality(Of(finished, c)) \in Nat
      BY <1>0, <3>1, PoolCounts
    <3>3. held[c] >= Cardinality(Of(finished, c))
      <4>1. SlotsOf(c)
        BY DEF SlotsHeld, SlotsOf
      <4> QED BY <4>1, PoolCounts DEF SlotsOf
    <3>4. held'[c] + Cardinality(Of(taking', c)) = held[c]
      BY <1>0, <3>1, <3>2, <3>3 DEF Minus
    <3>5. Full(c) => Full(c)'
      BY <1>0, <1>full, <3>1, <3>2, <3>4
    <3>6. Behind(q)' => Behind(q)
      BY <3>1 DEF Behind
    <3> QED BY <1>same, <3>1, <3>5, <3>6
  <2>4. CASE AllPosted
    <3>1. /\ pc = "post" /\ UNCHANGED <<sq, cq, pending, en, shst, poll, held, taking>>
          /\ \/ pc' = "take"
             \/ pc' = "free" /\ poll
             \/ pc' = "scan" /\ todo' = IF shst = "none" THEN pending ELSE {}
      BY <2>4 DEF AllPosted, StartScan, regs, rings, counts
    <3>2. q \in pending /\ shst = "none" /\ Behind(q)' => Behind(q)
      BY <3>1 DEF Behind
    <3>3. Full(c) => Full(c)'
      BY <3>1 DEF Full, Load
    <3> QED BY <1>same, <3>1, <3>2, <3>3
  <2>5. CASE LeaveSq
    <3> DEFINE p == Next1(todo)
    <3>1. /\ pc = "scan" /\ UNCHANGED <<sq, cq, en, shst, poll, held, taking, pc>>
          /\ ~HasWork(p) \/ ~HasSpace(sq[p].cqid)
          /\ todo' = todo \ {p}
          /\ pending' = IF HasWork(p) THEN pending ELSE pending \ {p}
      BY <2>5 DEF LeaveSq, regs, counts
    <3> HIDE DEF p
    <3>2. HasWork(q) /\ q \in pending => q \in pending'
      BY <3>1
    <3>3. Full(c) <=> Full(c)'
      BY <3>1 DEF Full, Load
    <3>4. CASE q = p
      <4>1. ASSUME HasWork(q), sq[q].cqid = c
            PROVE  Full(c)
        <5>1. cq[c].live /\ ~HasSpace(c)
          BY <1>0, <3>1, <3>4, <4>1 DEF Marked, HasWork
        <5>2. Cardinality(Of(taking, c)) = 0
          BY <1>0, <3>1
        <5>3. Dist(cq[c].head, cq[c].tail, CqSize[c]) \in Nat /\ CqSize[c] \in Nat
          BY RingFacts, DistOnRing
        <5> QED BY <1>0, <5>1, <5>2, <5>3 DEF HasSpace, Full, Load
      <4> QED BY <1>0, <3>1, <3>2, <3>3, <4>1 DEF Marked, HasWork
    <3>5. CASE q # p
      <4>1. Behind(q)' => Behind(q)
        BY <3>1, <3>5 DEF Behind
      <4> QED BY <1>0, <3>1, <3>2, <3>3, <4>1, MarkedSame
    <3> QED BY <3>4, <3>5
  <2>6. CASE Unlock
    <3>1. /\ pc = "scan" /\ todo = {} /\ UNCHANGED <<sq, cq, pending, en, shst, held, taking>>
      BY <2>6 DEF Unlock, regs, rings, counts, holder
    <3>2. Behind(q) /\ (Full(c) => Full(c)')
      BY <3>1 DEF Behind, Full, Load
    <3> QED BY <1>same, <3>1, <3>2
  <2>7. ASSUME NEW j \in taking, SyncFinished(j)
        PROVE  Marked(q, c)'
    <3>1. /\ UNCHANGED <<sq, cq, pending, en, shst, pc, poll, todo>>
          /\ taking' = taking \ {j} /\ held' = [held EXCEPT ![j.cqid] = @ + 1]
      BY <2>7 DEF SyncFinished, DeferFlush, Hold, regs, rings
    <3>2. held'[c] = held[c] + (IF j.cqid = c THEN 1 ELSE 0)
      BY <3>1 DEF TypeOK, JobsOK
    <3>3. held'[c] + Cardinality(Of(taking', c)) >= held[c] + Cardinality(Of(taking, c))
      <4>1. Cardinality(Of(taking', c))
              = Cardinality(Of(taking, c)) - (IF j.cqid = c THEN 1 ELSE 0)
        BY <3>1, OneTaken
      <4> QED BY <1>0, <3>2, <4>1
    <3>4. Behind(q)' <=> Behind(q)
      BY <3>1 DEF Behind
    <3> QED BY <1>same, <1>full, <3>1, <3>3, <3>4
  <2>8. ASSUME NEW j \in taking, NEW ok \in BOOLEAN, PostFinished(j, ok)
        PROVE  Marked(q, c)'
    <3>1. /\ cq' = Posted(cq, j.cqid) /\ cq[j.cqid].live /\ j.cqid \in Q
          /\ taking' = taking \ {j} /\ held' = held
          /\ UNCHANGED <<sq, pending, en, shst, pc, poll, todo>>
      BY <2>8, Consts DEF PostFinished, FlushInline, QueuesOutliveJobs, JobsAreIo, regs, counts
    <3>2. Cardinality(Of(taking', c)) = Cardinality(Of(taking, c)) - (IF j.cqid = c THEN 1 ELSE 0)
      BY <3>1, OneTaken
    <3>3. Behind(q)' <=> Behind(q)
      BY <3>1 DEF Behind
    <3>4. cq'[c].live = cq[c].live
      BY <1>0, <3>1, PostedAt
    <3>5. Full(c) => Full(c)'
      <4>1. CASE c = j.cqid
        <5>1. Dist(cq[c].head, cq[c].tail, CqSize[c]) \in Nat /\ CqSize[c] \in Nat
          BY RingFacts, DistOnRing
        <5>2. Dist(cq[c].head, cq[c].tail, CqSize[c]) + held[c]
                + Cardinality(Of(taking, c)) < CqSize[c]
          BY <3>1, <4>1 DEF RingCapacity
        <5>3. Dist(cq[c].head, cq[c].tail, CqSize[c]) + 1 < CqSize[c]
          BY <1>0, <3>2, <4>1, <5>1, <5>2
        <5>4. cq'[c] = Posted(cq, c)[c]
          BY <3>1, <4>1
        <5>5. held'[c] + Cardinality(Of(taking', c)) + 1
                >= held[c] + Cardinality(Of(taking, c))
          BY <1>0, <3>1, <3>2, <4>1
        <5> QED BY <1>0, <5>3, <5>4, <5>5, FullPosted
      <4>2. CASE c # j.cqid
        <5>1. cq'[c] = cq[c]
          BY <1>0, <3>1, <4>2, PostedAt
        <5> QED BY <1>0, <1>full, <3>1, <3>2, <4>2, <5>1
      <4> QED BY <4>1, <4>2
    <3> QED BY <1>same, <3>1, <3>3, <3>4, <3>5
  <2>9. ASSUME NEW cmd \in AdminCmd, FetchAdmin(cmd)
        PROVE  Marked(q, c)'
    BY <2>9, MarkedAdmin
  <2>10. ASSUME NEW p \in IoQ, NEW cmd \in IoCmd,
                \/ FetchFlush(p, cmd) \/ FetchIo(p, cmd)
                \/ \E ok \in BOOLEAN : FetchInline(p, cmd, ok)
         PROVE  Marked(q, c)'
    BY <2>10, MarkedFetch
  <2> QED BY <1>1, <2>1, <2>2, <2>3, <2>4, <2>5, <2>6, <2>7, <2>8, <2>9, <2>10 DEF Holder
<1>2. ASSUME NEW p \in Q, RingSq(p)
      PROVE  Marked(q, c)'
  <2>1. /\ UNCHANGED <<cq, en, shst>> /\ ~Behind(q)'
        /\ IF sq[p].live
             THEN /\ sq' = [sq EXCEPT ![p].tail = gTail[p]]
                  /\ pending' = IF sq[p].head # gTail[p] THEN pending \cup {p} ELSE pending \ {p}
             ELSE UNCHANGED <<sq, pending>>
    BY <1>2 DEF RingSq, regs, Behind
  <2>2. CASE q = p /\ sq[p].live
    <3>1. sq'[q].live /\ sq'[q].cqid = sq[q].cqid /\ sq'[q].head = sq[q].head
          /\ sq'[q].tail = gTail[q]
      BY <1>0, <2>1, <2>2 DEF SqRings
    <3> QED BY <1>0, <2>1, <2>2, <3>1 DEF Marked, HasWork
  <2>3. CASE q # p \/ ~sq[p].live
    <3>1. sq'[q] = sq[q] /\ (q \in pending => q \in pending')
      BY <1>0, <2>1, <2>3 DEF SqRings
    <3> QED BY <1>0, <2>1, <3>1, MarkedSame
  <2> QED BY <2>2, <2>3
<1>3. ASSUME NEW d \in Q, RingCq(d)
      PROVE  Marked(q, c)'
  <2>1. UNCHANGED <<sq, pending, en, shst>> /\ ~Behind(q)'
    BY <1>3 DEF RingCq, regs, Behind
  <2>2. cq'[c].live = cq[c].live
    BY <1>0, <1>3 DEF RingCq, CqRings
  <2> QED BY <1>same, <2>1, <2>2
<1>4. CASE OtherWrite \/ \E w \in CcWrites : BeginCc(w)
  <2>1. UNCHANGED <<sq, cq, pending, en, shst>> /\ ~Behind(q)'
    BY <1>4 DEF OtherWrite, BeginCc, regs, rings, Behind
  <2> QED BY <1>same, <2>1
<1>5. CASE \/ Drain \/ Transfers \/ Syncs \/ (\E p \in Q, cmd \in Cmd : Submit(p, cmd))
           \/ (\E d \in Q : Reap(d)) \/ UNCHANGED vars
  <2>1. UNCHANGED <<sq, cq, pending, en, shst, held, taking, todo>>
        /\ (UNCHANGED <<pc, poll>> \/ pc = "free")
    BY <1>5 DEF Drain, Transfers, Syncs, FinishIo, FinishFlush, Submit, Reap, vars,
                regs, rings, counts, holder
  <2>2. (Behind(q)' => Behind(q)) /\ (Full(c) => Full(c)')
    BY <2>1 DEF Behind, Full, Load
  <2> QED BY <1>same, <2>1, <2>2
<1> QED BY <1>1, <1>2, <1>3, <1>4, <1>5 DEF Next, Registers

(* Only a scan queues READs and WRITEs, and it ends by taking them. *)
LEMMA UntakenStep ==
  ASSUME WorkInvariant, [Next]_vars
  PROVE  pc' # "scan" => untaken' = {}
<1> USE DEF WorkInvariant
<1>1. CASE Holder
  <2>1. CASE ApplyCc \/ EnterProcess \/ TakeFinished \/ AllPosted \/ Unlock
    BY <2>1 DEF ApplyCc, EnterProcess, TakeFinished, AllPosted, Unlock, StartScan, pools
  <2>2. CASE \E j \in taking : SyncFinished(j) \/ \E ok \in BOOLEAN : PostFinished(j, ok)
    BY <2>2 DEF SyncFinished, PostFinished
  <2>3. CASE \/ LeaveSq \/ (\E cmd \in AdminCmd : FetchAdmin(cmd))
             \/ \E q \in IoQ, cmd \in IoCmd :
                   \/ FetchFlush(q, cmd) \/ FetchIo(q, cmd)
                   \/ \E ok \in BOOLEAN : FetchInline(q, cmd, ok)
    BY <2>3 DEF LeaveSq, FetchAdmin, FetchFlush, FetchIo, FetchInline, Fetch, holder
  <2> QED BY <1>1, <2>1, <2>2, <2>3 DEF Holder
<1>2. CASE Transfers \/ Syncs \/ Drain \/ Registers
  BY <1>2 DEF Transfers, Syncs, Drain, Registers, FinishIo, FinishFlush, RingSq, RingCq,
              OtherWrite, BeginCc, pools
<1>3. CASE \/ (\E q \in Q, cmd \in Cmd : Submit(q, cmd)) \/ (\E c \in Q : Reap(c))
           \/ UNCHANGED vars
  BY <1>3 DEF Submit, Reap, pools, vars
<1> QED BY <1>1, <1>2, <1>3 DEF Next

-----------------------------------------------------------------------------
(* The theorems *)

(* WorkInvariant holds at the start ... *)
LEMMA InitWork == Init => WorkInvariant
<1> SUFFICES ASSUME Init PROVE WorkInvariant
  OBVIOUS
<1>1. \A q \in Q : WorkMarked(q)
  BY DEF Init, WorkMarked, HasWork, NoSq
<1> QED BY <1>1, InitInductive DEF WorkInvariant, Init

(* ... and every step keeps it. *)
LEMMA WorkStep == WorkInvariant /\ [Next]_vars => WorkInvariant'
<1> SUFFICES ASSUME WorkInvariant, [Next]_vars PROVE WorkInvariant'
  OBVIOUS
<1>1. Inductive'
  BY StepInductive DEF WorkInvariant
<1>2. \A q \in Q, c \in Q : Marked(q, c)'
  BY <1>1, MarkedStep
<1>3. \A q \in Q : WorkMarked(q)'
  <2> SUFFICES ASSUME NEW q \in Q PROVE WorkMarked(q)'
    OBVIOUS
  <2>1. sq'[q].cqid \in Q
    BY <1>1 DEF Inductive, TypeOK, RingsOK, SqRings
  <2> QED BY <1>2, <2>1, Zenon DEF WorkMarked, Marked
<1> QED BY <1>1, <1>3, UntakenStep DEF WorkInvariant

(* Every step of the controller, its workers and the guest marks the queues
   that have work and leaves none behind but at a full ring, for any queues,
   commands and ring sizes.                                                *)
THEOREM WorkAlwaysMarked == Spec => []WorkInvariant
BY InitWork, WorkStep, PTL DEF Spec

(* When the platform lock is free, no READ or WRITE is left untaken and no
   answer unposted, and a rung command waits only for room in its completion
   ring, whose head doorbell will scan for it.                             *)
THEOREM NothingStranded == Spec => []NoStrandedWork
<1>1. WorkInvariant => NoStrandedWork
  <2> SUFFICES ASSUME WorkInvariant, pc = "free" PROVE NoStrandedWork
    BY DEF NoStrandedWork
  <2>1. untaken = {} /\ taking = {}
    BY DEF WorkInvariant, Inductive, HolderPlace
  <2>2. ASSUME NEW q \in Q, HasWork(q), shst = "none"
        PROVE  q \in pending /\ ~HasSpace(sq[q].cqid)
    <3>1. q \in pending /\ Full(sq[q].cqid) /\ sq[q].cqid \in Q
      BY <2>2 DEF WorkInvariant, WorkMarked, Behind, Inductive, TypeOK, RingsOK, SqRings
    <3>2. PICK c \in Q : c = sq[q].cqid
      BY <3>1
    <3>3. Cardinality(Of(taking, c)) = 0
      BY <2>1, NoJobs
    <3>4. Dist(cq[c].head, cq[c].tail, CqSize[c]) \in Nat /\ CqSize[c] \in Nat /\ held[c] \in Nat
      BY RingFacts, DistOnRing DEF WorkInvariant, Inductive
    <3> QED BY <3>1, <3>2, <3>3, <3>4 DEF Full, Load, HasSpace
  <2> QED BY <2>1, <2>2 DEF NoStrandedWork
<1> QED BY <1>1, WorkAlwaysMarked, PTL
=============================================================================
