------------------------- MODULE NvmeServiceProofs -------------------------
(***************************************************************************)
(* No command is lost and none is answered twice in NvmeQueues, and it     *)
(* implements NvmeService, for every set of queues and commands and every  *)
(* ring size: the invariant ServiceInvariant (module NvmeInvariant), part  *)
(* by part, and the steps of NvmeService that each step maps to.           *)
(***************************************************************************)
EXTENDS NvmeRefinement, NvmeQueuesProofs

-----------------------------------------------------------------------------
(* Distances on a ring *)

(* An index is between h and t when it is nearer to h than t is. *)
LEMMA BetweenDist ==
  ASSUME NEW n \in Nat \ {0}, NEW h \in Nat, NEW t \in Nat, h < n, t < n, NEW i \in 0..n-1
  PROVE  i \in Between(h, t, n) <=> Dist(h, i, n) < Dist(h, t, n)
  BY DEF Between, Dist

(* Indices equally far are equal. *)
LEMMA DistTells ==
  ASSUME NEW n \in Nat \ {0}, NEW h \in Nat, NEW i \in Nat, NEW k \in Nat,
         h < n, i < n, k < n, Dist(h, i, n) = Dist(h, k, n)
  PROVE  i = k
  BY DEF Dist

(* Moving on by one brings every other index one nearer. *)
LEMMA DistFromNext ==
  ASSUME NEW n \in Nat \ {0}, NEW h \in Nat, NEW t \in Nat, h < n, t < n, h # t
  PROVE  Dist(Succ(h, n), t, n) = Dist(h, t, n) - 1 /\ Dist(h, t, n) > 0
  BY DEF Dist, Succ

(* A tail that does not run into the head leaves one slot empty. *)
LEMMA DistRoom ==
  ASSUME NEW n \in Nat \ {0}, NEW h \in Nat, NEW t \in Nat, h < n, t < n, Succ(t, n) # h
  PROVE  Dist(h, t, n) + 1 < n /\ Dist(h, Succ(t, n), n) = Dist(h, t, n) + 1
  BY DEF Dist, Succ

(* Moving on to g brings what lies behind g nearer by as much. *)
LEMMA DistFrom ==
  ASSUME NEW n \in Nat \ {0}, NEW h \in Nat, NEW g \in Nat, NEW t \in Nat,
         h < n, g < n, t < n, Dist(h, g, n) <= Dist(h, t, n)
  PROVE  Dist(g, t, n) = Dist(h, t, n) - Dist(h, g, n)
  BY DEF Dist

-----------------------------------------------------------------------------
(* Copies of a command among jobs *)

Match(j, q, cmd) == IF j.sqid = q /\ j.cmd = cmd THEN 1 ELSE 0
CopiesOf(S, q, cmd) == {j \in S : j.sqid = q /\ j.cmd = cmd}

(* The copies of a command in a pool are finitely many. *)
LEMMA CopiesNat ==
  ASSUME NEW S, IsFiniteSet(S), NEW q, NEW cmd
  PROVE  /\ Copies(S, q, cmd) \in Nat /\ IsFiniteSet(CopiesOf(S, q, cmd))
         /\ Copies(S, q, cmd) = Cardinality(CopiesOf(S, q, cmd))
         /\ Copies(S, q, cmd) = 0 <=> CopiesOf(S, q, cmd) = {}
         /\ Copies({}, q, cmd) = 0
<1>1. CopiesOf(S, q, cmd) \subseteq S
  BY DEF CopiesOf
<1>2. IsFiniteSet(CopiesOf(S, q, cmd))
  BY <1>1, FS_Subset
<1>3. Copies(S, q, cmd) = Cardinality(CopiesOf(S, q, cmd))
  BY DEF Copies, CopiesOf
<1>4. Copies({}, q, cmd) = 0
  <2>1. {j \in {} : j.sqid = q /\ j.cmd = cmd} = {}
    OBVIOUS
  <2> QED BY <2>1, FS_EmptySet DEF Copies
<1> QED BY <1>2, <1>3, <1>4, FS_CardinalityType, FS_EmptySet

(* A job leaves a pool. *)
LEMMA CopiesLose ==
  ASSUME NEW S, IsFiniteSet(S), NEW j \in S, NEW q, NEW cmd
  PROVE  Copies(S \ {j}, q, cmd) = Copies(S, q, cmd) - Match(j, q, cmd)
<1>1. CASE j.sqid = q /\ j.cmd = cmd
  <2>1. CopiesOf(S \ {j}, q, cmd) = CopiesOf(S, q, cmd) \ {j} /\ j \in CopiesOf(S, q, cmd)
    BY <1>1 DEF CopiesOf
  <2>2. Cardinality(CopiesOf(S, q, cmd) \ {j}) = Cardinality(CopiesOf(S, q, cmd)) - 1
    BY <2>1, CopiesNat, FS_RemoveElement
  <2> QED BY <1>1, <2>1, <2>2 DEF Match, Copies, CopiesOf
<1>2. CASE ~(j.sqid = q /\ j.cmd = cmd)
  <2>1. CopiesOf(S \ {j}, q, cmd) = CopiesOf(S, q, cmd)
    BY <1>2 DEF CopiesOf
  <2>2. Match(j, q, cmd) = 0
    BY <1>2 DEF Match
  <2>3. Copies(S \ {j}, q, cmd) = Copies(S, q, cmd)
    BY <2>1 DEF Copies, CopiesOf
  <2>4. Copies(S, q, cmd) \in Nat
    BY CopiesNat
  <2> QED BY <2>2, <2>3, <2>4
<1> QED BY <1>1, <1>2

(* A job joins a pool without a copy of its command. *)
LEMMA CopiesGain ==
  ASSUME NEW S, IsFiniteSet(S), NEW j, Copies(S, j.sqid, j.cmd) = 0, NEW q, NEW cmd
  PROVE  Copies(S \cup {j}, q, cmd) = Copies(S, q, cmd) + Match(j, q, cmd)
<1>1. CASE j.sqid = q /\ j.cmd = cmd
  <2>1. CopiesOf(S, q, cmd) = {} /\ Copies(S, q, cmd) = 0
    <3>1. Copies(S, q, cmd) = 0
      BY <1>1
    <3> QED BY <3>1, CopiesNat
  <2>2. CopiesOf(S \cup {j}, q, cmd) = {j}
    BY <1>1, <2>1 DEF CopiesOf
  <2>3. Copies(S \cup {j}, q, cmd) = 1
    BY <2>2, FS_Singleton DEF Copies, CopiesOf
  <2>4. Match(j, q, cmd) = 1
    BY <1>1 DEF Match
  <2> QED BY <2>1, <2>3, <2>4
<1>2. CASE ~(j.sqid = q /\ j.cmd = cmd)
  <2>1. CopiesOf(S \cup {j}, q, cmd) = CopiesOf(S, q, cmd)
    BY <1>2 DEF CopiesOf
  <2>2. Match(j, q, cmd) = 0
    BY <1>2 DEF Match
  <2>3. Copies(S \cup {j}, q, cmd) = Copies(S, q, cmd)
    BY <2>1 DEF Copies, CopiesOf
  <2>4. Copies(S, q, cmd) \in Nat
    BY CopiesNat
  <2> QED BY <2>2, <2>3, <2>4
<1> QED BY <1>1, <1>2

(* Two pools become one, with at most one copy of the command in them. *)
LEMMA CopiesJoin ==
  ASSUME NEW S, IsFiniteSet(S), NEW T, IsFiniteSet(T), NEW q, NEW cmd,
         Copies(T, q, cmd) + Copies(S, q, cmd) <= 1
  PROVE  Copies(T \cup S, q, cmd) = Copies(T, q, cmd) + Copies(S, q, cmd)
<1>1. CopiesOf(T \cup S, q, cmd) = CopiesOf(T, q, cmd) \cup CopiesOf(S, q, cmd)
  BY DEF CopiesOf
<1>2. Copies(T \cup S, q, cmd) = Cardinality(CopiesOf(T \cup S, q, cmd))
  BY DEF Copies, CopiesOf
<1>3. /\ Copies(T, q, cmd) \in Nat /\ Copies(S, q, cmd) \in Nat
      /\ Copies(T, q, cmd) = 0 <=> CopiesOf(T, q, cmd) = {}
      /\ Copies(S, q, cmd) = 0 <=> CopiesOf(S, q, cmd) = {}
      /\ Copies(T, q, cmd) = Cardinality(CopiesOf(T, q, cmd))
      /\ Copies(S, q, cmd) = Cardinality(CopiesOf(S, q, cmd))
  BY CopiesNat
<1>4. CASE CopiesOf(S, q, cmd) = {}
  BY <1>1, <1>2, <1>3, <1>4
<1>5. CASE CopiesOf(T, q, cmd) = {}
  BY <1>1, <1>2, <1>3, <1>5
<1> QED BY <1>3, <1>4, <1>5

(* A failed job is a job of the same command. *)
LEMMA CopiesFailed ==
  ASSUME NEW S \in SUBSET Job, IsFiniteSet(S), NEW q, NEW cmd, Copies(S, q, cmd) <= 1
  PROVE  Copies(Failed(S), q, cmd) = Copies(S, q, cmd)
<1> DEFINE fail(j) == [j EXCEPT !.ok = FALSE, !.sync = FALSE]
<1>1. \A j \in S : fail(j).sqid = j.sqid /\ fail(j).cmd = j.cmd
  BY DEF Job
<1>2. CopiesOf(Failed(S), q, cmd) = {fail(j) : j \in CopiesOf(S, q, cmd)}
  BY <1>1 DEF CopiesOf, Failed
<1>3. IsFiniteSet(Failed(S))
  BY FailedNoMore
<1>4. /\ Copies(S, q, cmd) \in Nat
      /\ Copies(S, q, cmd) = 0 <=> CopiesOf(S, q, cmd) = {}
      /\ Copies(S, q, cmd) = Cardinality(CopiesOf(S, q, cmd))
      /\ Copies(Failed(S), q, cmd) = 0 <=> CopiesOf(Failed(S), q, cmd) = {}
      /\ Copies(Failed(S), q, cmd) = Cardinality(CopiesOf(Failed(S), q, cmd))
  BY <1>3, CopiesNat
<1> HIDE DEF fail
<1>5. CASE CopiesOf(S, q, cmd) = {}
  <2>1. CopiesOf(Failed(S), q, cmd) = {}
    BY <1>2, <1>5
  <2> QED BY <1>4, <1>5, <2>1
<1>6. CASE Cardinality(CopiesOf(S, q, cmd)) = 1
  <2>1. PICK j : CopiesOf(S, q, cmd) = {j}
    BY <1>6, CopiesNat, FS_Singleton
  <2>2. CopiesOf(Failed(S), q, cmd) = {fail(j)}
    BY <1>2, <2>1
  <2> QED BY <1>4, <1>6, <2>2, FS_Singleton
<1> QED BY <1>4, <1>5, <1>6

-----------------------------------------------------------------------------
(* What a step does to the unread entries of the completion rings *)

(* Nothing: what was unread is, in the same order. *)
SameEntries(c) ==
  /\ Unread(c)' = Unread(c)
  /\ \A i \in Unread(c) : cqMem'[c][i] = cqMem[c][i] /\ Ahead(c, i)' = Ahead(c, i)

(* It adds entry e behind them, on ring c only. *)
Posts(c, e) ==
  /\ cq[c].live /\ cq[c].tail \in 0..CqSize[c]-1 /\ cq[c].tail \notin Unread(c)
  /\ Unread(c)' = Unread(c) \cup {cq[c].tail}
  /\ cqMem'[c][cq[c].tail] = e
  /\ \A i \in Unread(c) \cup {cq[c].tail} : Ahead(c, i)' = Ahead(c, i)
  /\ \A i \in Unread(c) : cqMem'[c][i] = cqMem[c][i] /\ Ahead(c, i) < Ahead(c, cq[c].tail)
  /\ \A d \in Q \ {c} : SameEntries(d)

(* It takes the first of ring c. *)
Takes(c) ==
  /\ cq[c].live /\ gCqHead[c] \in Unread(c) /\ Ahead(c, gCqHead[c]) = 0
  /\ Unread(c)' = Unread(c) \ {gCqHead[c]}
  /\ \A i \in Unread(c)' : /\ cqMem'[c][i] = cqMem[c][i]
                           /\ Ahead(c, i)' = Ahead(c, i) - 1
                           /\ Ahead(c, i) > 0
  /\ \A d \in Q \ {c} : SameEntries(d)

(* The unread entries are those nearer to the driver's head than the tail. *)
LEMMA UnreadFacts ==
  ASSUME TypeOK, JobsAreIo, NEW c \in Q
  PROVE  /\ Unread(c) \subseteq 0..CqSize[c]-1
         /\ \A i \in 0..CqSize[c]-1 :
              /\ Ahead(c, i) \in Nat
              /\ i \in Unread(c) <=> cq[c].live /\ Ahead(c, i) < Ahead(c, cq[c].tail)
         /\ Ahead(c, cq[c].tail) \in Nat /\ Ahead(c, gCqHead[c]) = 0
         /\ ~cq[c].live => Unread(c) = {}
<1>1. /\ CqSize[c] \in Nat \ {0} /\ cq[c].tail \in Nat /\ cq[c].tail < CqSize[c]
      /\ gCqHead[c] \in Nat /\ gCqHead[c] < CqSize[c]
  BY RingFacts
<1>2. \A i \in 0..CqSize[c]-1 : Ahead(c, i) \in Nat
  BY <1>1, DistOnRing DEF Ahead
<1>3. Ahead(c, cq[c].tail) \in Nat /\ Ahead(c, gCqHead[c]) = 0
  BY <1>1, DistOnRing DEF Ahead
<1>4. ASSUME NEW i \in 0..CqSize[c]-1
      PROVE  i \in Unread(c) <=> cq[c].live /\ Ahead(c, i) < Ahead(c, cq[c].tail)
  BY <1>1, BetweenDist DEF Unread, Unreaped, Ahead
<1>5. Unread(c) \subseteq 0..CqSize[c]-1
  BY DEF Unread, Unreaped, Between
<1> QED BY <1>2, <1>3, <1>4, <1>5 DEF Unread

(* A ring nothing happens to. *)
LEMMA EntriesStay ==
  ASSUME NEW c \in Q, cq'[c].live = cq[c].live, cq'[c].tail = cq[c].tail,
         cqMem'[c] = cqMem[c], gCqHead'[c] = gCqHead[c]
  PROVE  SameEntries(c)
  BY DEF SameEntries, Unread, Unreaped, Ahead

(* A ring whose head alone may move. *)
LEMMA EntriesStayHead ==
  ASSUME TypeOK, UNCHANGED <<cqMem, gCqHead>>,
         cq' = cq \/ \E d \in Q : \E h : cq' = [cq EXCEPT ![d].head = h]
  PROVE  \A c \in Q : SameEntries(c) /\ cq'[c].live = cq[c].live
<1> SUFFICES ASSUME NEW c \in Q PROVE SameEntries(c) /\ cq'[c].live = cq[c].live
  OBVIOUS
<1>1. cq'[c].live = cq[c].live /\ cq'[c].tail = cq[c].tail
  BY DEF TypeOK, RingsOK, CqRings
<1> QED BY <1>1, EntriesStay

(* post_completion adds one entry. *)
LEMMA EntriesPosted ==
  ASSUME TypeOK, JobsAreIo, GuestBetween, NEW c \in Q, cq[c].live, NEW e,
         Dist(cq[c].head, cq[c].tail, CqSize[c]) + 1 < CqSize[c],
         cq'[c] = Posted(cq, c)[c],
         cqMem'[c] = [cqMem[c] EXCEPT ![cq[c].tail] = e], gCqHead'[c] = gCqHead[c],
         \A d \in Q \ {c} : SameEntries(d)
  PROVE  Posts(c, e)
<1> DEFINE n == CqSize[c]
           t == cq[c].tail
           g == gCqHead[c]
<1>1. /\ n \in Nat \ {0} /\ t \in Nat /\ t < n /\ g \in Nat /\ g < n
      /\ cq[c].head \in Nat /\ cq[c].head < n
  BY RingFacts
<1>2. cq'[c].live /\ cq'[c].tail = Succ(t, n)
  BY PostedAt DEF TypeOK, RingsOK
<1>3. Dist(g, t, n) + 1 < n
  <2>1. Dist(cq[c].head, g, n) <= Dist(cq[c].head, t, n)
    BY DEF GuestBetween
  <2>2. Dist(g, t, n) <= Dist(cq[c].head, t, n)
    BY <1>1, <2>1, DistOfHead
  <2>3. Dist(g, t, n) \in Nat /\ Dist(cq[c].head, t, n) \in Nat
    BY <1>1, DistOnRing
  <2> QED BY <1>1, <2>2, <2>3
<1>4. Dist(g, Succ(t, n), n) = Dist(g, t, n) + 1 /\ Succ(t, n) \in Nat /\ Succ(t, n) < n
  BY <1>1, <1>3, DistOfSucc, SuccOnRing
<1>5. Unread(c) = {i \in 0..n-1 : Dist(g, i, n) < Dist(g, t, n)}
  BY UnreadFacts DEF Ahead
<1>6. Unread(c)' = {i \in 0..n-1 : Dist(g, i, n) < Dist(g, Succ(t, n), n)}
  <2>1. Unread(c)' = Between(g, Succ(t, n), n)
    BY <1>2 DEF Unread, Unreaped
  <2>2. \A i \in 0..n-1 : i \in Between(g, Succ(t, n), n)
                            <=> Dist(g, i, n) < Dist(g, Succ(t, n), n)
    BY <1>1, <1>4, BetweenDist
  <2>3. Between(g, Succ(t, n), n) \subseteq 0..n-1
    BY DEF Between
  <2> QED BY <2>1, <2>2, <2>3
<1>7. \A i \in 0..n-1 : /\ Dist(g, i, n) \in Nat
                        /\ Dist(g, i, n) = Dist(g, t, n) => i = t
  <2> SUFFICES ASSUME NEW i \in 0..n-1
               PROVE  Dist(g, i, n) \in Nat /\ (Dist(g, i, n) = Dist(g, t, n) => i = t)
    OBVIOUS
  <2>1. i \in Nat /\ i < n
    BY <1>1
  <2>2. Dist(g, i, n) \in Nat
    BY <1>1, <2>1, DistOnRing
  <2>3. ASSUME Dist(g, i, n) = Dist(g, t, n)
        PROVE  i = t
    BY <1>1, <2>1, <2>3, DistTells
  <2> QED BY <2>2, <2>3
<1>8. Dist(g, t, n) \in Nat
  BY <1>1, <1>7
<1>9. Unread(c)' = Unread(c) \cup {t} /\ t \notin Unread(c)
  BY <1>1, <1>4, <1>5, <1>6, <1>7, <1>8
<1>10. cqMem[c] \in [0..n-1 -> Entry]
  BY DEF TypeOK, MemoryOK
<1>11. /\ cqMem'[c][t] = e
       /\ \A i \in Unread(c) : cqMem'[c][i] = cqMem[c][i]
  BY <1>1, <1>5, <1>9, <1>10
<1>12. /\ \A i \in Unread(c) \cup {t} : Ahead(c, i)' = Ahead(c, i)
       /\ \A i \in Unread(c) : Ahead(c, i) < Ahead(c, t)
  BY <1>5 DEF Ahead
<1> QED BY <1>1, <1>9, <1>11, <1>12 DEF Posts

(* The driver takes an entry it has not taken. *)
LEMMA EntriesTaken ==
  ASSUME Inductive, NEW c \in Q, Reap(c)
  PROVE  Takes(c)
<1> USE DEF Inductive
<1> DEFINE n == CqSize[c]
           t == cq[c].tail
           g == gCqHead[c]
<1>1. /\ n \in Nat \ {0} /\ n > 1 /\ t \in Nat /\ t < n /\ g \in Nat /\ g < n
  BY RingFacts
<1>2. cq[c].live /\ Looks(c).phase = gPhase[c]
  BY DEF Reap, Sees, Polls, QueuesLinked
<1>3. /\ gCqHead' = [gCqHead EXCEPT ![c] = Succ(g, n)]
      /\ cqMem' = [cqMem EXCEPT ![c][g] = Zeroed(Looks(c).phase)] /\ cq' = cq
  BY DEF Reap, rings
<1>4. g # t
  <2>1. cqMem[c][g].phase = IF g < t THEN cq[c].phase ELSE ~cq[c].phase
    BY <1>1, <1>2 DEF PhasesLaid
  <2>2. gPhase[c] = IF g <= t THEN cq[c].phase ELSE ~cq[c].phase
    BY <1>2 DEF GuestBetween
  <2>3. cq[c].phase \in BOOLEAN
    BY RingPhases
  <2>4. cqMem[c][g].phase = gPhase[c]
    BY <1>2 DEF Looks
  <2>5. CASE g = t
    <3>1. gPhase[c] = cq[c].phase /\ cqMem[c][g].phase = ~cq[c].phase
      BY <1>1, <2>1, <2>2, <2>5
    <3> QED BY <2>3, <2>4, <3>1
  <2> QED BY <2>5
<1>5. gCqHead'[c] = Succ(g, n) /\ \A d \in Q \ {c} : gCqHead'[d] = gCqHead[d]
  BY <1>3 DEF TypeOK, DriverOK
<1>6. /\ \A i \in 0..n-1 : i # g => cqMem'[c][i] = cqMem[c][i]
      /\ \A d \in Q \ {c} : cqMem'[d] = cqMem[d]
  BY <1>1, <1>3 DEF TypeOK, MemoryOK
<1>7. Succ(g, n) \in Nat /\ Succ(g, n) < n
  BY <1>1, SuccOnRing
<1>8. /\ Dist(g, g, n) = 0 /\ Dist(g, t, n) \in Nat
      /\ \A i \in 0..n-1 : Dist(g, i, n) \in Nat
  BY <1>1, DistOnRing
<1>9. \A i \in 0..n-1 : i # g => Dist(Succ(g, n), i, n) = Dist(g, i, n) - 1 /\ Dist(g, i, n) > 0
  BY <1>1, DistFromNext
<1>10. Dist(Succ(g, n), g, n) = n - 1 /\ Dist(g, t, n) < n
  BY <1>1 DEF Dist, Succ
<1>11. Unread(c) = {i \in 0..n-1 : Dist(g, i, n) < Dist(g, t, n)}
  BY <1>2, UnreadFacts DEF Ahead
<1>12. Unread(c)' = {i \in 0..n-1 : Dist(Succ(g, n), i, n) < Dist(Succ(g, n), t, n)}
  <2>1. Unread(c)' = Between(Succ(g, n), t, n)
    BY <1>2, <1>3, <1>5 DEF Unread, Unreaped
  <2>2. \A i \in 0..n-1 : i \in Between(Succ(g, n), t, n)
                            <=> Dist(Succ(g, n), i, n) < Dist(Succ(g, n), t, n)
    BY <1>1, <1>7, BetweenDist
  <2>3. Between(Succ(g, n), t, n) \subseteq 0..n-1
    BY DEF Between
  <2> QED BY <2>1, <2>2, <2>3
<1>13. Dist(Succ(g, n), t, n) = Dist(g, t, n) - 1 /\ Dist(g, t, n) > 0
  BY <1>1, <1>4, DistFromNext
<1>14. g \in Unread(c)
  BY <1>1, <1>8, <1>11, <1>13
<1>15. Unread(c)' = Unread(c) \ {g}
  BY <1>1, <1>8, <1>9, <1>10, <1>11, <1>12, <1>13
<1>16. \A i \in Unread(c)' : /\ cqMem'[c][i] = cqMem[c][i]
                             /\ Ahead(c, i)' = Ahead(c, i) - 1 /\ Ahead(c, i) > 0
  BY <1>5, <1>6, <1>9, <1>11, <1>15 DEF Ahead
<1>17. \A d \in Q \ {c} : SameEntries(d)
  BY <1>3, <1>5, <1>6, EntriesStay
<1> QED BY <1>2, <1>8, <1>14, <1>15, <1>16, <1>17 DEF Takes, Ahead

-----------------------------------------------------------------------------
(* Where the copies of a command are, and what a step does to their number *)

Entries(q, cmd) ==
  {x \in Q \X Nat : /\ x[2] \in Unread(x[1])
                    /\ cqMem[x[1]][x[2]].sqid = q /\ cqMem[x[1]][x[2]].cmd = cmd}

(* The completions of a command, by ring and index. *)
LEMMA CompletionsAre ==
  ASSUME NEW q, NEW cmd
  PROVE  /\ Completions(q, cmd) = Entries(q, cmd)
         /\ Completions(q, cmd)' = Entries(q, cmd)'
<1>1. \A c \in Q : 0..CqSize[c]-1 \subseteq Nat
  BY Consts
<1>2. \A c \in Q : Unread(c) \subseteq Nat /\ (cq[c].live => Unread(c) = Unreaped(c))
  BY <1>1 DEF Unread, Unreaped, Between
<1>3. \A c \in Q : Unread(c)' \subseteq Nat /\ (cq'[c].live => Unread(c)' = Unreaped(c)')
  BY <1>1 DEF Unread, Unreaped, Between
<1>4. \A c \in Q : ~cq[c].live => Unread(c) = {}
  BY DEF Unread
<1>5. \A c \in Q : ~cq'[c].live => Unread(c)' = {}
  BY DEF Unread
<1>6. Completions(q, cmd) = Entries(q, cmd)
  <2>1. ASSUME NEW x PROVE x \in Completions(q, cmd) <=> x \in Entries(q, cmd)
    <3>1. x \in Completions(q, cmd) <=>
            \E c \in Q : \E i \in Unread(c) :
              x = <<c, i>> /\ cqMem[c][i].sqid = q /\ cqMem[c][i].cmd = cmd
      BY <1>2, <1>4 DEF Completions
    <3> QED BY <1>2, <3>1 DEF Entries
  <2> QED BY <2>1
<1>7. Completions(q, cmd)' = Entries(q, cmd)'
  <2>1. ASSUME NEW x PROVE x \in Completions(q, cmd)' <=> x \in Entries(q, cmd)'
    <3>1. x \in Completions(q, cmd)' <=>
            \E c \in Q : \E i \in Unread(c)' :
              x = <<c, i>> /\ cqMem'[c][i].sqid = q /\ cqMem'[c][i].cmd = cmd
      BY <1>3, <1>5 DEF Completions
    <3> QED BY <1>3, <3>1 DEF Entries
  <2> QED BY <2>1
<1> QED BY <1>6, <1>7

(* The same entries are the same completions. *)
LEMMA CompletionsStay ==
  ASSUME \A c \in Q : SameEntries(c), NEW q, NEW cmd
  PROVE  Completions(q, cmd)' = Completions(q, cmd)
<1>1. Entries(q, cmd)' = Entries(q, cmd)
  BY DEF Entries, SameEntries
<1> QED BY <1>1, CompletionsAre

(* An entry is one completion more of its command ... *)
LEMMA CompletionsGain ==
  ASSUME NEW c \in Q, NEW e, Posts(c, e), CqSize[c] \in Nat, NEW q, NEW cmd,
         IsFiniteSet(Completions(q, cmd))
  PROVE  /\ IsFiniteSet(Completions(q, cmd)')
         /\ Cardinality(Completions(q, cmd)')
              = Cardinality(Completions(q, cmd)) + Match(e, q, cmd)
         /\ Match(e, q, cmd) = 1 =>
              Completions(q, cmd)' = Completions(q, cmd) \cup {<<c, cq[c].tail>>}
         /\ Match(e, q, cmd) = 0 => Completions(q, cmd)' = Completions(q, cmd)
<1>x. PICK x : x = <<c, cq[c].tail>>
  OBVIOUS
<1>1. x \in Q \X Nat /\ x[1] = c /\ x[2] = cq[c].tail
  BY <1>x DEF Posts
<1>2. x \notin Entries(q, cmd)
  BY <1>1 DEF Entries, Posts
<1>3. \A y \in Q \X Nat : y # x =>
        /\ y[2] \in Unread(y[1])' <=> y[2] \in Unread(y[1])
        /\ y[2] \in Unread(y[1]) => cqMem'[y[1]][y[2]] = cqMem[y[1]][y[2]]
  <2> SUFFICES ASSUME NEW d \in Q, NEW i \in Nat, <<d, i>> # x
               PROVE  /\ i \in Unread(d)' <=> i \in Unread(d)
                      /\ i \in Unread(d) => cqMem'[d][i] = cqMem[d][i]
    BY <1>x
  <2>1. CASE d = c
    BY <1>x, <2>1 DEF Posts
  <2>2. CASE d # c
    BY <2>2 DEF Posts, SameEntries
  <2> QED BY <2>1, <2>2
<1>4. x[2] \in Unread(x[1])' /\ cqMem'[x[1]][x[2]] = e
  BY <1>1 DEF Posts
<1>5. IsFiniteSet(Entries(q, cmd)) /\ Cardinality(Entries(q, cmd)) \in Nat
  BY CompletionsAre, FS_CardinalityType
<1>near. \A y \in Q \X Nat : y # x => (y \in Entries(q, cmd)' <=> y \in Entries(q, cmd))
  BY <1>3 DEF Entries
<1>within. Entries(q, cmd) \subseteq Q \X Nat /\ Entries(q, cmd)' \subseteq Q \X Nat
  BY DEF Entries
<1>6. CASE e.sqid = q /\ e.cmd = cmd
  <2>1. Entries(q, cmd)' = Entries(q, cmd) \cup {x}
    <3>1. x \in Entries(q, cmd)'
      BY <1>1, <1>4, <1>6 DEF Entries
    <3> QED BY <3>1, <1>near, <1>within
  <2>2. /\ IsFiniteSet(Entries(q, cmd) \cup {x})
        /\ Cardinality(Entries(q, cmd) \cup {x}) = Cardinality(Entries(q, cmd)) + 1
    BY <1>2, <1>5, FS_AddElement
  <2>3. Match(e, q, cmd) = 1
    BY <1>6 DEF Match
  <2> QED BY <1>x, <2>1, <2>2, <2>3, CompletionsAre
<1>7. CASE ~(e.sqid = q /\ e.cmd = cmd)
  <2>1. Entries(q, cmd)' = Entries(q, cmd)
    <3>1. x \notin Entries(q, cmd)'
      BY <1>1, <1>4, <1>7 DEF Entries
    <3> QED BY <1>2, <3>1, <1>near, <1>within
  <2>2. Match(e, q, cmd) = 0
    BY <1>7 DEF Match
  <2> QED BY <1>5, <2>1, <2>2, CompletionsAre
<1> QED BY <1>6, <1>7

(* ... until the driver takes it. *)
LEMMA CompletionsLose ==
  ASSUME NEW c \in Q, Takes(c), gCqHead[c] \in Nat, NEW q, NEW cmd,
         IsFiniteSet(Completions(q, cmd))
  PROVE  /\ IsFiniteSet(Completions(q, cmd)')
         /\ Cardinality(Completions(q, cmd)')
              = Cardinality(Completions(q, cmd)) - Match(Looks(c), q, cmd)
         /\ Completions(q, cmd)' \subseteq Completions(q, cmd)
         /\ Match(Looks(c), q, cmd) = 0 => Completions(q, cmd)' = Completions(q, cmd)
<1>x. PICK x : x = <<c, gCqHead[c]>>
  OBVIOUS
<1>1. x \in Q \X Nat /\ x[1] = c /\ x[2] = gCqHead[c]
  BY <1>x
<1>2. \A y \in Q \X Nat : y # x =>
        /\ y[2] \in Unread(y[1])' <=> y[2] \in Unread(y[1])
        /\ y[2] \in Unread(y[1]) => cqMem'[y[1]][y[2]] = cqMem[y[1]][y[2]]
  <2> SUFFICES ASSUME NEW d \in Q, NEW i \in Nat, <<d, i>> # x
               PROVE  /\ i \in Unread(d)' <=> i \in Unread(d)
                      /\ i \in Unread(d) => cqMem'[d][i] = cqMem[d][i]
    BY <1>x
  <2>1. CASE d = c
    BY <1>x, <2>1 DEF Takes
  <2>2. CASE d # c
    BY <2>2 DEF Takes, SameEntries
  <2> QED BY <2>1, <2>2
<1>3. x[2] \in Unread(x[1]) /\ x[2] \notin Unread(x[1])' /\ cqMem[x[1]][x[2]] = Looks(c)
  BY <1>1 DEF Takes, Looks
<1>4. IsFiniteSet(Entries(q, cmd)) /\ Cardinality(Entries(q, cmd)) \in Nat
  BY CompletionsAre, FS_CardinalityType
<1>near. \A y \in Q \X Nat : y # x => (y \in Entries(q, cmd)' <=> y \in Entries(q, cmd))
  BY <1>2 DEF Entries
<1>within. Entries(q, cmd) \subseteq Q \X Nat /\ Entries(q, cmd)' \subseteq Q \X Nat
  BY DEF Entries
<1>5. CASE Looks(c).sqid = q /\ Looks(c).cmd = cmd
  <2>1. Entries(q, cmd)' = Entries(q, cmd) \ {x} /\ x \in Entries(q, cmd)
    <3>1. x \in Entries(q, cmd) /\ x \notin Entries(q, cmd)'
      BY <1>1, <1>3, <1>5 DEF Entries
    <3> QED BY <3>1, <1>near, <1>within
  <2>2. /\ IsFiniteSet(Entries(q, cmd) \ {x})
        /\ Cardinality(Entries(q, cmd) \ {x}) = Cardinality(Entries(q, cmd)) - 1
    BY <1>4, <2>1, FS_RemoveElement
  <2>3. Match(Looks(c), q, cmd) = 1
    BY <1>5 DEF Match
  <2> QED BY <2>1, <2>2, <2>3, CompletionsAre
<1>6. CASE ~(Looks(c).sqid = q /\ Looks(c).cmd = cmd)
  <2>1. Entries(q, cmd)' = Entries(q, cmd)
    <3>1. x \notin Entries(q, cmd) /\ x \notin Entries(q, cmd)'
      BY <1>1, <1>3, <1>6 DEF Entries
    <3> QED BY <3>1, <1>near, <1>within
  <2>2. Match(Looks(c), q, cmd) = 0
    BY <1>6 DEF Match
  <2> QED BY <1>4, <2>1, <2>2, CompletionsAre
<1> QED BY <1>5, <1>6

(* Indices of a submission ring. *)
LEMMA SqFacts ==
  ASSUME TypeOK, NEW q \in Q
  PROVE  /\ SqSize[q] \in Nat \ {0} /\ SqSize[q] > 1
         /\ sq[q].head \in Nat /\ sq[q].head < SqSize[q]
         /\ sq[q].tail \in Nat /\ sq[q].tail < SqSize[q]
         /\ gTail[q] \in Nat /\ gTail[q] < SqSize[q]
         /\ gSqHead[q] \in Nat /\ gSqHead[q] < SqSize[q]
         /\ sq[q].live \in BOOLEAN /\ sq[q].cqid \in Q
  BY Consts DEF TypeOK, RingsOK, SqRings, DriverOK

(* The copies of a command in a submission ring, by distance from the head. *)
LEMMA UnfetchedFacts ==
  ASSUME TypeOK, NEW q \in Q, NEW cmd
  PROVE  /\ Unfetched(q, cmd) \subseteq 0..SqSize[q]-1
         /\ IsFiniteSet(Unfetched(q, cmd)) /\ Cardinality(Unfetched(q, cmd)) \in Nat
         /\ Cardinality(Unfetched(q, cmd)) = 0 <=> Unfetched(q, cmd) = {}
         /\ \A i \in 0..SqSize[q]-1 :
              i \in Unfetched(q, cmd) <=>
                /\ sq[q].live /\ sqMem[q][i] = cmd
                /\ Dist(sq[q].head, i, SqSize[q]) < Dist(sq[q].head, gTail[q], SqSize[q])
<1>1. /\ SqSize[q] \in Nat \ {0} /\ sq[q].head \in Nat /\ sq[q].head < SqSize[q]
      /\ gTail[q] \in Nat /\ gTail[q] < SqSize[q]
  BY SqFacts
<1>2. Unfetched(q, cmd) \subseteq 0..SqSize[q]-1
  BY DEF Unfetched, Between
<1>3. IsFiniteSet(Unfetched(q, cmd))
  <2>1. SqSize[q] - 1 \in Int
    BY <1>1
  <2>2. IsFiniteSet(0..SqSize[q]-1)
    BY <2>1, FS_Interval
  <2> QED BY <1>2, <2>2, FS_Subset
<1>4. ASSUME NEW i \in 0..SqSize[q]-1
      PROVE  i \in Between(sq[q].head, gTail[q], SqSize[q])
               <=> Dist(sq[q].head, i, SqSize[q]) < Dist(sq[q].head, gTail[q], SqSize[q])
  BY <1>1, BetweenDist
<1>5. \A i \in 0..SqSize[q]-1 :
        i \in Unfetched(q, cmd) <=>
          /\ sq[q].live /\ sqMem[q][i] = cmd
          /\ Dist(sq[q].head, i, SqSize[q]) < Dist(sq[q].head, gTail[q], SqSize[q])
  BY <1>4 DEF Unfetched
<1> QED BY <1>2, <1>3, <1>5, FS_CardinalityType, FS_EmptySet

(* A submission ring nothing happens to between head and tail. *)
LEMMA UnfetchedStay ==
  ASSUME NEW q \in Q, sq'[q].live = sq[q].live, sq'[q].head = sq[q].head,
         gTail'[q] = gTail[q], sqMem'[q] = sqMem[q], NEW cmd
  PROVE  Unfetched(q, cmd)' = Unfetched(q, cmd)
  BY DEF Unfetched

(* Fetching takes one copy out of the ring, that at the head. *)
LEMMA UnfetchedFetch ==
  ASSUME TypeOK, TypeOK', SqInOrder, NEW q \in Q, NEW one, HasWork(q),
         one = sqMem[q][sq[q].head],
         sq'[q].live, sq'[q].head = Succ(sq[q].head, SqSize[q]),
         gTail'[q] = gTail[q], sqMem'[q] = sqMem[q], NEW cmd
  PROVE  /\ sq[q].head \in Unfetched(q, one)
         /\ Unfetched(q, cmd)' = Unfetched(q, cmd) \ {sq[q].head}
         /\ Cardinality(Unfetched(q, cmd)')
              = Cardinality(Unfetched(q, cmd)) - (IF cmd = one THEN 1 ELSE 0)
<1> DEFINE n == SqSize[q]
           h == sq[q].head
           t == gTail[q]
<1>1. /\ n \in Nat \ {0} /\ h \in Nat /\ h < n /\ t \in Nat /\ t < n
      /\ sq[q].tail \in Nat /\ sq[q].tail < n /\ gSqHead[q] \in Nat /\ gSqHead[q] < n
  BY SqFacts
<1>2. sq[q].live /\ h # sq[q].tail
  BY DEF HasWork
<1>3. h # t
  <2>1. /\ Dist(gSqHead[q], h, n) <= Dist(gSqHead[q], sq[q].tail, n)
        /\ Dist(gSqHead[q], sq[q].tail, n) <= Dist(gSqHead[q], t, n)
    BY <1>2 DEF SqInOrder, Past
  <2>2. Dist(gSqHead[q], h, n) = Dist(gSqHead[q], sq[q].tail, n) => h = sq[q].tail
    BY <1>1, DistTells
  <2>3. Dist(gSqHead[q], h, n) \in Nat /\ Dist(gSqHead[q], sq[q].tail, n) \in Nat
    BY <1>1, DistOnRing
  <2> QED BY <1>2, <2>1, <2>2, <2>3
<1>4. /\ Dist(Succ(h, n), t, n) = Dist(h, t, n) - 1 /\ Dist(h, t, n) > 0
      /\ Dist(h, h, n) = 0 /\ Dist(h, t, n) \in Nat /\ Dist(h, t, n) < n
  BY <1>1, <1>3, DistFromNext, DistOnRing
<1>5. Dist(Succ(h, n), h, n) = n - 1
  BY <1>1 DEF Dist, Succ
<1>6. ASSUME NEW i \in 0..n-1, i # h
      PROVE  Dist(Succ(h, n), i, n) = Dist(h, i, n) - 1 /\ Dist(h, i, n) \in Nat
  <2>1. i \in Nat /\ i < n
    BY <1>1
  <2>2. Dist(Succ(h, n), i, n) = Dist(h, i, n) - 1
    BY <1>1, <1>6, <2>1, DistFromNext
  <2>3. Dist(h, i, n) \in Nat
    BY <1>1, <2>1, DistOnRing
  <2> QED BY <2>2, <2>3
<1>7. \A i \in 0..n-1 : i \in Unfetched(q, cmd) <=>
        sqMem[q][i] = cmd /\ Dist(h, i, n) < Dist(h, t, n)
  BY <1>2, UnfetchedFacts
<1>8. \A i \in 0..n-1 : i \in Unfetched(q, cmd)' <=>
        sqMem[q][i] = cmd /\ Dist(Succ(h, n), i, n) < Dist(Succ(h, n), t, n)
  <2>1. Succ(h, n) \in Nat /\ Succ(h, n) < n
    BY <1>1, SuccOnRing
  <2>2. ASSUME NEW i \in 0..n-1
        PROVE  i \in Between(Succ(h, n), t, n) <=> Dist(Succ(h, n), i, n) < Dist(Succ(h, n), t, n)
    BY <1>1, <2>1, BetweenDist
  <2>3. Unfetched(q, cmd)' = {i \in Between(Succ(h, n), t, n) : sqMem[q][i] = cmd}
    BY DEF Unfetched
  <2> QED BY <2>2, <2>3
<1>9. Unfetched(q, cmd) \subseteq 0..n-1 /\ Unfetched(q, cmd)' \subseteq 0..n-1
  BY DEF Unfetched, Between
<1>10. h \in 0..n-1 /\ h \in Unfetched(q, one)
  <2>1. h \in 0..n-1
    BY <1>1
  <2> QED BY <1>2, <1>4, <2>1, UnfetchedFacts
<1>11. h \notin Unfetched(q, cmd)'
  <2>1. ~(n - 1 < Dist(h, t, n) - 1)
    BY <1>1, <1>4
  <2> QED BY <1>4, <1>5, <1>8, <1>10, <2>1
<1>12. \A i \in 0..n-1 : i # h => (i \in Unfetched(q, cmd)' <=> i \in Unfetched(q, cmd))
  BY <1>4, <1>6, <1>7, <1>8
<1>13. Unfetched(q, cmd)' = Unfetched(q, cmd) \ {h}
  BY <1>9, <1>11, <1>12
<1>14. IsFiniteSet(Unfetched(q, cmd)) /\ Cardinality(Unfetched(q, cmd)) \in Nat
  BY UnfetchedFacts
<1>15. CASE cmd = one
  <2>1. h \in Unfetched(q, cmd)
    BY <1>10, <1>15
  <2>2. Cardinality(Unfetched(q, cmd) \ {h}) = Cardinality(Unfetched(q, cmd)) - 1
    BY <1>14, <2>1, FS_RemoveElement
  <2> QED BY <1>10, <1>13, <1>15, <2>2
<1>16. CASE cmd # one
  <2>1. h \notin Unfetched(q, cmd)
    BY <1>7, <1>10, <1>16
  <2>2. Unfetched(q, cmd) \ {h} = Unfetched(q, cmd)
    BY <2>1
  <2>3. Cardinality(Unfetched(q, cmd)') = Cardinality(Unfetched(q, cmd))
    BY <1>13, <2>2
  <2> QED BY <1>10, <1>13, <1>14, <1>16, <2>3
<1> QED BY <1>15, <1>16

(* The driver adds one copy, of a command that was not there, at its tail. *)
LEMMA UnfetchedSubmit ==
  ASSUME TypeOK, SqInOrder, NEW q \in Q, NEW one, Succ(gTail[q], SqSize[q]) # gSqHead[q],
         Unfetched(q, one) = {}, sq'[q] = sq[q], sq[q].live,
         gTail'[q] = Succ(gTail[q], SqSize[q]),
         sqMem'[q] = [sqMem[q] EXCEPT ![gTail[q]] = one], NEW cmd
  PROVE  /\ cmd = one => Unfetched(q, cmd)' = {gTail[q]}
         /\ cmd # one => Unfetched(q, cmd)' = Unfetched(q, cmd)
         /\ \A i \in Unfetched(q, cmd) :
              Dist(sq[q].head, i, SqSize[q]) < Dist(sq[q].head, gTail[q], SqSize[q])
<1> DEFINE n == SqSize[q]
           h == sq[q].head
           t == gTail[q]
           g == gSqHead[q]
<1>1. /\ n \in Nat \ {0} /\ h \in Nat /\ h < n /\ t \in Nat /\ t < n
      /\ sq[q].tail \in Nat /\ sq[q].tail < n /\ g \in Nat /\ g < n
  BY SqFacts
<1>2. Dist(g, h, n) <= Dist(g, t, n)
  <2>1. /\ Dist(g, h, n) <= Dist(g, sq[q].tail, n)
        /\ Dist(g, sq[q].tail, n) <= Dist(g, t, n)
    BY DEF SqInOrder, Past
  <2>2. Dist(g, h, n) \in Nat /\ Dist(g, sq[q].tail, n) \in Nat /\ Dist(g, t, n) \in Nat
    BY <1>1, DistOnRing
  <2> QED BY <2>1, <2>2
<1>3. Dist(g, t, n) + 1 < n /\ Dist(g, h, n) \in Nat /\ Dist(g, t, n) \in Nat
  BY <1>1, DistRoom, DistOnRing
<1>4. Dist(h, t, n) = Dist(g, t, n) - Dist(g, h, n)
  BY <1>1, <1>2, DistFrom
<1>5. Dist(h, t, n) \in Nat /\ Dist(h, t, n) + 1 < n
  <2>1. Dist(h, t, n) \in Nat
    BY <1>1, DistOnRing
  <2> QED BY <1>1, <1>3, <1>4, <2>1
<1>6. /\ Dist(h, Succ(t, n), n) = Dist(h, t, n) + 1
      /\ Succ(t, n) \in Nat /\ Succ(t, n) < n
  BY <1>1, <1>5, DistOfSucc, SuccOnRing
<1>7. /\ sqMem'[q][t] = one
      /\ \A i \in 0..n-1 : i # t => sqMem'[q][i] = sqMem[q][i]
  BY <1>1 DEF TypeOK, MemoryOK
<1>8. \A i \in 0..n-1 : i \in Unfetched(q, cmd)' <=>
        sqMem'[q][i] = cmd /\ Dist(h, i, n) < Dist(h, t, n) + 1
  <2>1. ASSUME NEW i \in 0..n-1
        PROVE  i \in Between(h, Succ(t, n), n) <=> Dist(h, i, n) < Dist(h, Succ(t, n), n)
    BY <1>1, <1>6, BetweenDist
  <2>2. Unfetched(q, cmd)' = {i \in Between(h, Succ(t, n), n) : sqMem'[q][i] = cmd}
    BY DEF Unfetched
  <2> QED BY <1>6, <2>1, <2>2
<1>9. \A i \in 0..n-1 : i \in Unfetched(q, cmd) <=>
        sqMem[q][i] = cmd /\ Dist(h, i, n) < Dist(h, t, n)
  BY UnfetchedFacts
<1>10. ASSUME NEW i \in 0..n-1
       PROVE  Dist(h, i, n) \in Nat /\ (Dist(h, i, n) = Dist(h, t, n) => i = t)
  <2>1. i \in Nat /\ i < n
    BY <1>1
  <2>2. Dist(h, i, n) \in Nat
    BY <1>1, <2>1, DistOnRing
  <2>3. ASSUME Dist(h, i, n) = Dist(h, t, n)
        PROVE  i = t
    BY <1>1, <2>1, <2>3, DistTells
  <2> QED BY <2>2, <2>3
<1>11. Unfetched(q, cmd) \subseteq 0..n-1 /\ Unfetched(q, cmd)' \subseteq 0..n-1
  BY DEF Unfetched, Between
<1>12. t \in 0..n-1 /\ t \notin Unfetched(q, cmd)
  <2>1. t \in 0..n-1
    BY <1>1
  <2> QED BY <1>5, <1>9, <2>1
<1>13. \A i \in 0..n-1 : i # t => (i \in Unfetched(q, cmd)' <=> i \in Unfetched(q, cmd))
  BY <1>5, <1>7, <1>8, <1>9, <1>10
<1>14. t \in Unfetched(q, cmd)' <=> cmd = one
  BY <1>5, <1>7, <1>8, <1>12
<1>15. CASE cmd = one
  BY <1>9, <1>11, <1>12, <1>13, <1>14, <1>15
<1>16. CASE cmd # one
  BY <1>9, <1>11, <1>12, <1>13, <1>14, <1>16
<1> QED BY <1>15, <1>16

-----------------------------------------------------------------------------
(* What AnsweredOnce says of one copy *)

(* The places of a command can be added up. *)
LEMMA Numbers ==
  ASSUME TypeOK, JobsAreIo, Counted, NEW q \in Q, NEW cmd \in Cmd
  PROVE  /\ Cardinality(Unfetched(q, cmd)) \in Nat
         /\ Cardinality(Completions(q, cmd)) \in Nat
         /\ Copies(untaken, q, cmd) \in Nat /\ Copies(running, q, cmd) \in Nat
         /\ Copies(flushing, q, cmd) \in Nat /\ Copies(finished, q, cmd) \in Nat
         /\ Copies(taking, q, cmd) \in Nat
         /\ Places(q, cmd) \in Nat
<1>1. Cardinality(Unfetched(q, cmd)) \in Nat
  BY UnfetchedFacts
<1>2. Cardinality(Completions(q, cmd)) \in Nat
  BY FS_CardinalityType DEF Counted
<1>3. /\ Copies(untaken, q, cmd) \in Nat /\ Copies(running, q, cmd) \in Nat
      /\ Copies(flushing, q, cmd) \in Nat /\ Copies(finished, q, cmd) \in Nat
      /\ Copies(taking, q, cmd) \in Nat
  BY CopiesNat DEF JobsAreIo
<1> QED BY <1>1, <1>2, <1>3 DEF Places

(* A command is in one place at most, and only while it is outstanding. *)
LEMMA OnePlace ==
  ASSUME TypeOK, JobsAreIo, Counted, AnsweredOnce, NEW q \in Q, NEW cmd \in Cmd
  PROVE  /\ Places(q, cmd) <= 1 /\ (Places(q, cmd) > 0 => cmd \in open[q])
         /\ sq[q].live /\ cmd.op # "aer" /\ cmd \in open[q] => Places(q, cmd) = 1
<1>1. Places(q, cmd) \in Nat
  BY Numbers
<1>2. IF cmd \in open[q] THEN \/ Places(q, cmd) = 1
                              \/ Places(q, cmd) = 0 /\ (~sq[q].live \/ cmd.op = "aer")
                         ELSE Places(q, cmd) = 0
  BY DEF AnsweredOnce
<1> QED BY <1>1, <1>2

(* A command still in its ring is nowhere else. *)
LEMMA OneUnfetched ==
  ASSUME TypeOK, JobsAreIo, Counted, AnsweredOnce, NEW q \in Q, NEW cmd \in Cmd,
         Unfetched(q, cmd) # {}
  PROVE  /\ cmd \in open[q] /\ Places(q, cmd) = 1
         /\ Cardinality(Unfetched(q, cmd)) = 1
         /\ Completions(q, cmd) = {}
         /\ Copies(untaken, q, cmd) = 0 /\ Copies(running, q, cmd) = 0
         /\ Copies(flushing, q, cmd) = 0 /\ Copies(finished, q, cmd) = 0
         /\ Copies(taking, q, cmd) = 0
<1>1. Cardinality(Unfetched(q, cmd)) # 0
  BY UnfetchedFacts
<1>2. /\ cmd \in open[q] /\ Places(q, cmd) = 1
      /\ Cardinality(Unfetched(q, cmd)) = 1 /\ Cardinality(Completions(q, cmd)) = 0
      /\ Copies(untaken, q, cmd) = 0 /\ Copies(running, q, cmd) = 0
      /\ Copies(flushing, q, cmd) = 0 /\ Copies(finished, q, cmd) = 0
      /\ Copies(taking, q, cmd) = 0
  BY <1>1, Numbers, OnePlace DEF Places
<1>3. Completions(q, cmd) = {}
  BY <1>2, FS_EmptySet DEF Counted
<1> QED BY <1>2, <1>3

(* So is a command with an unread entry. *)
LEMMA OneCompletion ==
  ASSUME TypeOK, JobsAreIo, Counted, AnsweredOnce, EntriesKnown,
         NEW c \in Q, NEW i \in Unread(c), NEW e, e = cqMem[c][i]
  PROVE  /\ e.sqid \in Q /\ e.cmd \in Cmd /\ e.cmd \in open[e.sqid]
         /\ Places(e.sqid, e.cmd) = 1
         /\ Completions(e.sqid, e.cmd) = {<<c, i>>}
         /\ Unfetched(e.sqid, e.cmd) = {}
         /\ Copies(untaken, e.sqid, e.cmd) = 0 /\ Copies(running, e.sqid, e.cmd) = 0
         /\ Copies(flushing, e.sqid, e.cmd) = 0 /\ Copies(finished, e.sqid, e.cmd) = 0
         /\ Copies(taking, e.sqid, e.cmd) = 0
<1>1. i \in 0..CqSize[c]-1 /\ i \in Nat
  BY UnreadFacts, Consts
<1>2. e.sqid \in Q /\ e.cmd \in Cmd
  BY <1>1 DEF TypeOK, MemoryOK, Entry, EntriesKnown, EntryKnown
<1>3. <<c, i>> \in Completions(e.sqid, e.cmd)
  BY <1>1, CompletionsAre DEF Entries
<1>4. IsFiniteSet(Completions(e.sqid, e.cmd)) /\ Cardinality(Completions(e.sqid, e.cmd)) # 0
  BY <1>2, <1>3, FS_EmptySet DEF Counted
<1>5. /\ Places(e.sqid, e.cmd) <= 1
      /\ Places(e.sqid, e.cmd) > 0 => e.cmd \in open[e.sqid]
  BY <1>2, OnePlace
<1>6. /\ Cardinality(Unfetched(e.sqid, e.cmd)) \in Nat
      /\ Cardinality(Completions(e.sqid, e.cmd)) \in Nat
      /\ Copies(untaken, e.sqid, e.cmd) \in Nat /\ Copies(running, e.sqid, e.cmd) \in Nat
      /\ Copies(flushing, e.sqid, e.cmd) \in Nat /\ Copies(finished, e.sqid, e.cmd) \in Nat
      /\ Copies(taking, e.sqid, e.cmd) \in Nat
  BY <1>2, Numbers
<1>7. /\ e.cmd \in open[e.sqid] /\ Places(e.sqid, e.cmd) = 1
      /\ Cardinality(Unfetched(e.sqid, e.cmd)) = 0
      /\ Cardinality(Completions(e.sqid, e.cmd)) = 1
      /\ Copies(untaken, e.sqid, e.cmd) = 0 /\ Copies(running, e.sqid, e.cmd) = 0
      /\ Copies(flushing, e.sqid, e.cmd) = 0 /\ Copies(finished, e.sqid, e.cmd) = 0
      /\ Copies(taking, e.sqid, e.cmd) = 0
  BY <1>4, <1>5, <1>6 DEF Places
<1>8. Completions(e.sqid, e.cmd) = {<<c, i>>}
  <2>1. PICK x : Completions(e.sqid, e.cmd) = {x}
    BY <1>4, <1>7, FS_Singleton
  <2> QED BY <1>3, <2>1
<1>9. Unfetched(e.sqid, e.cmd) = {}
  BY <1>2, <1>7, UnfetchedFacts
<1> QED BY <1>2, <1>7, <1>8, <1>9

(* And so is the command of a job. *)
LEMMA OneJob ==
  ASSUME TypeOK, JobsAreIo, Counted, AnsweredOnce, NEW j \in Jobs \cup taking
  PROVE  /\ j.sqid \in Q /\ j.sqid # 0 /\ j.cmd \in Cmd /\ j.cmd \in open[j.sqid]
         /\ Places(j.sqid, j.cmd) = 1
         /\ Copies(untaken, j.sqid, j.cmd) = IF j \in untaken THEN 1 ELSE 0
         /\ Copies(running, j.sqid, j.cmd) = IF j \in running THEN 1 ELSE 0
         /\ Copies(flushing, j.sqid, j.cmd) = IF j \in flushing THEN 1 ELSE 0
         /\ Copies(finished, j.sqid, j.cmd) = IF j \in finished THEN 1 ELSE 0
         /\ Copies(taking, j.sqid, j.cmd) = IF j \in taking THEN 1 ELSE 0
         /\ Unfetched(j.sqid, j.cmd) = {} /\ Completions(j.sqid, j.cmd) = {}
<1>1. j.sqid \in Q /\ j.sqid # 0 /\ j.cmd \in Cmd
  BY Consts DEF JobsAreIo, TypeOK, JobsOK, Jobs, Job
<1>2. ASSUME NEW S, IsFiniteSet(S), j \in S
      PROVE  Copies(S, j.sqid, j.cmd) # 0
  <2>1. j \in CopiesOf(S, j.sqid, j.cmd)
    BY <1>2 DEF CopiesOf
  <2> QED BY <1>2, <2>1, CopiesNat
<1>3. /\ j \in untaken => Copies(untaken, j.sqid, j.cmd) # 0
      /\ j \in running => Copies(running, j.sqid, j.cmd) # 0
      /\ j \in flushing => Copies(flushing, j.sqid, j.cmd) # 0
      /\ j \in finished => Copies(finished, j.sqid, j.cmd) # 0
      /\ j \in taking => Copies(taking, j.sqid, j.cmd) # 0
  BY <1>2 DEF JobsAreIo
<1>4. \/ j \in untaken \/ j \in running \/ j \in flushing \/ j \in finished \/ j \in taking
  BY DEF Jobs
<1>5. /\ Cardinality(Unfetched(j.sqid, j.cmd)) \in Nat
      /\ Cardinality(Completions(j.sqid, j.cmd)) \in Nat
      /\ Copies(untaken, j.sqid, j.cmd) \in Nat /\ Copies(running, j.sqid, j.cmd) \in Nat
      /\ Copies(flushing, j.sqid, j.cmd) \in Nat /\ Copies(finished, j.sqid, j.cmd) \in Nat
      /\ Copies(taking, j.sqid, j.cmd) \in Nat
  BY <1>1, Numbers
<1>6. /\ Places(j.sqid, j.cmd) <= 1
      /\ Places(j.sqid, j.cmd) > 0 => j.cmd \in open[j.sqid]
  BY <1>1, OnePlace
<1>7. /\ j.cmd \in open[j.sqid] /\ Places(j.sqid, j.cmd) = 1
      /\ Copies(untaken, j.sqid, j.cmd) = IF j \in untaken THEN 1 ELSE 0
      /\ Copies(running, j.sqid, j.cmd) = IF j \in running THEN 1 ELSE 0
      /\ Copies(flushing, j.sqid, j.cmd) = IF j \in flushing THEN 1 ELSE 0
      /\ Copies(finished, j.sqid, j.cmd) = IF j \in finished THEN 1 ELSE 0
      /\ Copies(taking, j.sqid, j.cmd) = IF j \in taking THEN 1 ELSE 0
      /\ Cardinality(Unfetched(j.sqid, j.cmd)) = 0
      /\ Cardinality(Completions(j.sqid, j.cmd)) = 0
  <2> DEFINE u == Cardinality(Unfetched(j.sqid, j.cmd))
             c == Cardinality(Completions(j.sqid, j.cmd))
             u1 == Copies(untaken, j.sqid, j.cmd)
             u2 == Copies(running, j.sqid, j.cmd)
             u3 == Copies(flushing, j.sqid, j.cmd)
             u4 == Copies(finished, j.sqid, j.cmd)
             u5 == Copies(taking, j.sqid, j.cmd)
  <2>1. Places(j.sqid, j.cmd) = u + c + u1 + u2 + u3 + u4 + u5
    BY DEF Places
  <2>2. u \in Nat /\ c \in Nat /\ u1 \in Nat /\ u2 \in Nat /\ u3 \in Nat /\ u4 \in Nat /\ u5 \in Nat
    BY <1>5
  <2>3. /\ j \in untaken => u1 # 0
        /\ j \in running => u2 # 0
        /\ j \in flushing => u3 # 0
        /\ j \in finished => u4 # 0
        /\ j \in taking => u5 # 0
    BY <1>3
  <2> HIDE DEF u, c, u1, u2, u3, u4, u5
  <2>4. u1 # 0 \/ u2 # 0 \/ u3 # 0 \/ u4 # 0 \/ u5 # 0
    BY <1>4, <2>3
  <2>5. u + c + u1 + u2 + u3 + u4 + u5 = 1
    BY <1>6, <2>1, <2>2, <2>4
  <2>6. /\ u = 0 /\ c = 0
        /\ u1 \in {0, 1} /\ u2 \in {0, 1} /\ u3 \in {0, 1} /\ u4 \in {0, 1} /\ u5 \in {0, 1}
    BY <2>2, <2>4, <2>5
  <2>7. /\ u1 = 1 <=> j \in untaken
        /\ u2 = 1 <=> j \in running
        /\ u3 = 1 <=> j \in flushing
        /\ u4 = 1 <=> j \in finished
        /\ u5 = 1 <=> j \in taking
    BY <1>4, <2>2, <2>3, <2>5
  <2>8. j.cmd \in open[j.sqid] /\ Places(j.sqid, j.cmd) = 1
    BY <1>6, <2>1, <2>5
  <2> QED BY <2>6, <2>7, <2>8 DEF u, c, u1, u2, u3, u4, u5
<1>8. Unfetched(j.sqid, j.cmd) = {} /\ Completions(j.sqid, j.cmd) = {}
  BY <1>1, <1>7, UnfetchedFacts, FS_EmptySet DEF Counted
<1> QED BY <1>1, <1>7, <1>8

(* No command moves to or from where it is counted. *)
LEMMA OnceSame ==
  ASSUME TypeOK, AnsweredOnce, UNCHANGED <<open, aer>>, en' => en,
         \A q \in Q, cmd \in Cmd : Places(q, cmd)' = Places(q, cmd),
         \A q \in Q : sq'[q].live => sq[q].live
  PROVE  AnsweredOnce'
<1>1. ASSUME NEW q \in Q, NEW cmd \in Cmd
      PROVE  IF cmd \in open'[q]
               THEN \/ Places(q, cmd)' = 1
                    \/ Places(q, cmd)' = 0 /\ (~sq'[q].live \/ cmd.op = "aer")
               ELSE Places(q, cmd)' = 0
  BY DEF AnsweredOnce
<1>2. {c \in open[0] : c.op = "aer" /\ Places(0, c)' = 0}
        = {c \in open[0] : c.op = "aer" /\ Places(0, c) = 0}
  <2>1. \A c \in open[0] : Places(0, c)' = Places(0, c)
    BY Consts DEF TypeOK, DriverOK
  <2> QED BY <2>1
<1>3. en' => Cardinality({c \in open[0] : c.op = "aer" /\ Places(0, c)' = 0}) = aer
  BY <1>2 DEF AnsweredOnce
<1> QED BY <1>1, <1>3 DEF AnsweredOnce

(* A step that leaves the driver's memory and every entry and command in the
   rings where it is; doorbells and jobs may change.                       *)
Quiet ==
  /\ UNCHANGED <<en, aer, memory, driver>>
  /\ \A q \in Q : /\ sq'[q].live = sq[q].live /\ sq'[q].head = sq[q].head
                  /\ sq'[q].cqid = sq[q].cqid
                  /\ cq'[q].live = cq[q].live /\ cq'[q].tail = cq[q].tail

(* Entries and commands are what they were. *)
LEMMA QuietSame ==
  ASSUME Quiet
  PROVE  /\ \A c \in Q : /\ SameEntries(c) /\ Unread(c)' = Unread(c)
                         /\ \A i : Ahead(c, i)' = Ahead(c, i)
         /\ \A q \in Q : \A h : Past(q, h)' = Past(q, h)
         /\ \A q \in Q : \A cmd : Unfetched(q, cmd)' = Unfetched(q, cmd)
         /\ \A q \in Q : \A cmd : Completions(q, cmd)' = Completions(q, cmd)
<1>1. UNCHANGED <<sqMem, cqMem, gTail, gSqHead, gCqHead>>
  BY DEF Quiet, memory, driver
<1>2. \A c \in Q : SameEntries(c)
  BY <1>1, EntriesStay DEF Quiet
<1>3. \A c \in Q : Unread(c)' = Unread(c) /\ \A i : Ahead(c, i)' = Ahead(c, i)
  BY <1>1, <1>2 DEF SameEntries, Ahead
<1>4. \A q \in Q : \A cmd : Unfetched(q, cmd)' = Unfetched(q, cmd)
  BY <1>1, UnfetchedStay DEF Quiet
<1>5. \A q \in Q : \A cmd : Completions(q, cmd)' = Completions(q, cmd)
  BY <1>2, CompletionsStay
<1> QED BY <1>1, <1>2, <1>3, <1>4, <1>5 DEF Past

(* Every part of the invariant that is about them stays. *)
LEMMA QuietKeeps ==
  ASSUME TypeOK, EntriesKnown, ReportsTrue, DriverKnows, OneAtATime, CreationsWait,
         DeletionsWait, Counted, JobsAreIo, Quiet
  PROVE  /\ EntriesKnown' /\ ReportsTrue' /\ DriverKnows' /\ OneAtATime'
         /\ CreationsWait' /\ DeletionsWait' /\ Counted'
<1>1. /\ UNCHANGED <<en, cqMem, open, gSq, gCq, gSqHead>>
      /\ \A q \in Q : /\ sq'[q].live = sq[q].live /\ sq'[q].head = sq[q].head
                      /\ sq'[q].cqid = sq[q].cqid /\ cq'[q].live = cq[q].live
  BY DEF Quiet, memory, driver
<1>2. /\ \A c \in Q : Unread(c)' = Unread(c) /\ \A i : Ahead(c, i)' = Ahead(c, i)
      /\ \A q \in Q : \A h : Past(q, h)' = Past(q, h)
      /\ \A q \in Q : \A cmd : Unfetched(q, cmd)' = Unfetched(q, cmd)
      /\ \A q \in Q : \A cmd : Completions(q, cmd)' = Completions(q, cmd)
  BY QuietSame
<1>3. \A c \in Q : \A i \in Unread(c) : cqMem[c][i].sqid \in Q
  BY UnreadFacts DEF TypeOK, MemoryOK, Entry
<1>4. EntriesKnown'
  BY <1>1, <1>2, <1>3 DEF EntriesKnown, EntryKnown
<1>5. ReportsTrue'
  BY <1>1, <1>2, Consts DEF ReportsTrue, Reports
<1>6. DriverKnows'
  BY <1>1, <1>2, Consts DEF DriverKnows, Reports
<1>7. OneAtATime'
  BY <1>1 DEF OneAtATime
<1>8. CreationsWait'
  BY <1>1, <1>2, Consts DEF CreationsWait
<1>9. DeletionsWait'
  <2>1. \A a \in AdminCmd : a.q \in Q
    BY Commands, Consts
  <2> SUFFICES ASSUME NEW a \in AdminCmd, NEW i \in Unfetched(0, a)', a.op = "deleteCq",
                      cq'[a.q].live
               PROVE  /\ \A k \in Unread(a.q)' : sq'[cqMem'[a.q][k].sqid].live
                      /\ \A b \in AdminCmd : \A k \in Unfetched(0, b)' :
                           /\ b.op = "deleteSq" /\ sq'[b.q].live /\ sq'[b.q].cqid = a.q
                           /\ open'[b.q] # {}
                           => Dist(sq'[0].head, i, SqSize[0]) < Dist(sq'[0].head, k, SqSize[0])
    BY DEF DeletionsWait
  <2>2. i \in Unfetched(0, a) /\ cq[a.q].live
    BY <1>1, <1>2, <2>1, Consts
  <2>3. \A k \in Unread(a.q)' : sq'[cqMem'[a.q][k].sqid].live
    BY <1>1, <1>2, <1>3, <2>1, <2>2 DEF DeletionsWait
  <2>4. ASSUME NEW b \in AdminCmd, NEW k \in Unfetched(0, b)',
               b.op = "deleteSq" /\ sq'[b.q].live /\ sq'[b.q].cqid = a.q /\ open'[b.q] # {}
        PROVE  Dist(sq'[0].head, i, SqSize[0]) < Dist(sq'[0].head, k, SqSize[0])
    <3>1. k \in Unfetched(0, b) /\ sq'[0].head = sq[0].head
      BY <1>1, <1>2, Consts
    <3>2. sq[b.q].live /\ sq[b.q].cqid = a.q /\ open[b.q] # {}
      BY <1>1, <2>1, <2>4
    <3> QED BY <2>2, <2>4, <3>1, <3>2 DEF DeletionsWait
  <2> QED BY <2>3, <2>4
<1>10. Counted'
  BY <1>1, <1>2 DEF Counted
<1> QED BY <1>4, <1>5, <1>6, <1>7, <1>8, <1>9, <1>10

(* The copies of a command held as jobs. *)
Held(q, cmd) ==
  Copies(untaken, q, cmd) + Copies(running, q, cmd) + Copies(flushing, q, cmd)
  + Copies(finished, q, cmd) + Copies(taking, q, cmd)

(* Moving jobs from pool to pool keeps AnsweredOnce. *)
LEMMA QuietOnce ==
  ASSUME TypeOK, JobsAreIo, JobsAreIo', Counted, AnsweredOnce, Quiet,
         \A q \in Q, cmd \in Cmd : Held(q, cmd)' = Held(q, cmd)
  PROVE  AnsweredOnce'
<1>1. ASSUME NEW q \in Q, NEW cmd \in Cmd
      PROVE  Places(q, cmd)' = Places(q, cmd)
  <2>1. /\ Cardinality(Unfetched(q, cmd)') = Cardinality(Unfetched(q, cmd))
        /\ Cardinality(Completions(q, cmd)') = Cardinality(Completions(q, cmd))
        /\ Cardinality(Unfetched(q, cmd)) \in Nat /\ Cardinality(Completions(q, cmd)) \in Nat
    BY QuietSame, Numbers
  <2>2. /\ Copies(untaken, q, cmd) \in Nat /\ Copies(running, q, cmd) \in Nat
        /\ Copies(flushing, q, cmd) \in Nat /\ Copies(finished, q, cmd) \in Nat
        /\ Copies(taking, q, cmd) \in Nat
    BY CopiesNat DEF JobsAreIo
  <2>3. /\ Copies(untaken, q, cmd)' \in Nat /\ Copies(running, q, cmd)' \in Nat
        /\ Copies(flushing, q, cmd)' \in Nat /\ Copies(finished, q, cmd)' \in Nat
        /\ Copies(taking, q, cmd)' \in Nat
    BY CopiesNat DEF JobsAreIo
  <2>4. Held(q, cmd)' = Held(q, cmd)
    OBVIOUS
  <2>5. Places(q, cmd) = Cardinality(Unfetched(q, cmd)) + Cardinality(Completions(q, cmd))
                           + Held(q, cmd)
    BY <2>1, <2>2 DEF Held, Places
  <2>6. Places(q, cmd)' = Cardinality(Unfetched(q, cmd)') + Cardinality(Completions(q, cmd)')
                            + Held(q, cmd)'
    BY <2>1, <2>3 DEF Held, Places
  <2> QED BY <2>1, <2>4, <2>5, <2>6
<1> QED BY <1>1, OnceSame DEF Quiet, driver

(* A job goes from one pool to another, its result settled or not. *)
LEMMA JobMoves ==
  ASSUME NEW A, IsFiniteSet(A), NEW B, IsFiniteSet(B), NEW j \in A, NEW k,
         k.sqid = j.sqid, k.cmd = j.cmd,
         Copies(A, j.sqid, j.cmd) + Copies(B, j.sqid, j.cmd) <= 1, NEW q, NEW cmd
  PROVE  Copies(A \ {j}, q, cmd) + Copies(B \cup {k}, q, cmd)
           = Copies(A, q, cmd) + Copies(B, q, cmd)
<1>1. Copies(A, j.sqid, j.cmd) \in Nat /\ Copies(B, j.sqid, j.cmd) \in Nat
  BY CopiesNat
<1>2. Copies(A, j.sqid, j.cmd) # 0
  <2>1. j \in CopiesOf(A, j.sqid, j.cmd)
    BY DEF CopiesOf
  <2> QED BY <2>1, CopiesNat
<1>3. Copies(B, k.sqid, k.cmd) = 0
  BY <1>1, <1>2
<1>4. /\ Copies(A \ {j}, q, cmd) = Copies(A, q, cmd) - Match(j, q, cmd)
      /\ Copies(B \cup {k}, q, cmd) = Copies(B, q, cmd) + Match(k, q, cmd)
  BY <1>3, CopiesLose, CopiesGain
<1>5. Match(j, q, cmd) = Match(k, q, cmd) /\ Match(j, q, cmd) \in Nat
  BY DEF Match
<1>6. Copies(A, q, cmd) \in Nat /\ Copies(B, q, cmd) \in Nat
  BY CopiesNat
<1> QED BY <1>4, <1>5, <1>6

(* There is at most one job for a command. *)
LEMMA OneHeld ==
  ASSUME TypeOK, JobsAreIo, Counted, AnsweredOnce, NEW q \in Q, NEW cmd \in Cmd
  PROVE  /\ Copies(untaken, q, cmd) \in Nat /\ Copies(running, q, cmd) \in Nat
         /\ Copies(flushing, q, cmd) \in Nat /\ Copies(finished, q, cmd) \in Nat
         /\ Copies(taking, q, cmd) \in Nat
         /\ Copies(untaken, q, cmd) + Copies(running, q, cmd) + Copies(flushing, q, cmd)
             + Copies(finished, q, cmd) + Copies(taking, q, cmd) <= 1
  BY Numbers, OnePlace DEF Places

(* fail_untaken_io *)
LEMMA HeldFail ==
  ASSUME TypeOK, JobsAreIo, Counted, AnsweredOnce, NEW q \in Q, NEW cmd \in Cmd,
         finished' = finished \cup Failed(untaken), untaken' = {},
         UNCHANGED <<running, flushing, taking>>
  PROVE  Held(q, cmd)' = Held(q, cmd)
<1>1. /\ Copies(untaken, q, cmd) \in Nat /\ Copies(finished, q, cmd) \in Nat
      /\ Copies(untaken, q, cmd) + Copies(finished, q, cmd) <= 1
      /\ Copies(running, q, cmd) \in Nat /\ Copies(flushing, q, cmd) \in Nat
      /\ Copies(taking, q, cmd) \in Nat
  BY OneHeld
<1>2. untaken \in SUBSET Job /\ IsFiniteSet(untaken) /\ IsFiniteSet(finished)
      /\ IsFiniteSet(Failed(untaken))
  BY FailedNoMore DEF TypeOK, JobsOK, JobsAreIo
<1>3. Copies(Failed(untaken), q, cmd) = Copies(untaken, q, cmd)
  BY <1>1, <1>2, CopiesFailed
<1>4. Copies(finished', q, cmd) = Copies(finished, q, cmd) + Copies(untaken, q, cmd)
  BY <1>1, <1>2, <1>3, CopiesJoin
<1>5. Copies(untaken', q, cmd) = 0
  BY <1>2, CopiesNat
<1>6. /\ Copies(running', q, cmd) = Copies(running, q, cmd)
      /\ Copies(flushing', q, cmd) = Copies(flushing, q, cmd)
      /\ Copies(taking', q, cmd) = Copies(taking, q, cmd)
  OBVIOUS
<1>7. Held(q, cmd)' = Copies(untaken', q, cmd) + Copies(running', q, cmd)
        + Copies(flushing', q, cmd) + Copies(finished', q, cmd) + Copies(taking', q, cmd)
  BY DEF Held, Copies
<1> QED BY <1>1, <1>4, <1>5, <1>6, <1>7 DEF Held

(* take_io *)
LEMMA HeldUnlock ==
  ASSUME TypeOK, JobsAreIo, Counted, AnsweredOnce, NEW q \in Q, NEW cmd \in Cmd,
         running' = running \cup untaken, untaken' = {},
         UNCHANGED <<flushing, finished, taking>>
  PROVE  Held(q, cmd)' = Held(q, cmd)
<1>1. /\ Copies(untaken, q, cmd) \in Nat /\ Copies(finished, q, cmd) \in Nat
      /\ Copies(untaken, q, cmd) + Copies(running, q, cmd) <= 1
      /\ Copies(running, q, cmd) \in Nat /\ Copies(flushing, q, cmd) \in Nat
      /\ Copies(taking, q, cmd) \in Nat
  BY OneHeld
<1>2. Copies(running', q, cmd) = Copies(running, q, cmd) + Copies(untaken, q, cmd)
  BY <1>1, CopiesJoin DEF JobsAreIo
<1>3. Copies(untaken', q, cmd) = 0
  BY CopiesNat DEF JobsAreIo
<1>4. /\ Copies(finished', q, cmd) = Copies(finished, q, cmd)
      /\ Copies(flushing', q, cmd) = Copies(flushing, q, cmd)
      /\ Copies(taking', q, cmd) = Copies(taking, q, cmd)
  OBVIOUS
<1>5. Held(q, cmd)' = Copies(untaken', q, cmd) + Copies(running', q, cmd)
        + Copies(flushing', q, cmd) + Copies(finished', q, cmd) + Copies(taking', q, cmd)
  BY DEF Held, Copies
<1> QED BY <1>1, <1>2, <1>3, <1>4, <1>5 DEF Held

(* take_finished *)
LEMMA HeldTake ==
  ASSUME TypeOK, JobsAreIo, NEW q \in Q, NEW cmd \in Cmd,
         taking = {}, taking' = finished, finished' = {},
         UNCHANGED <<untaken, running, flushing>>
  PROVE  Held(q, cmd)' = Held(q, cmd)
<1>1. /\ Copies(untaken, q, cmd) \in Nat /\ Copies(running, q, cmd) \in Nat
      /\ Copies(flushing, q, cmd) \in Nat /\ Copies(finished, q, cmd) \in Nat
      /\ Copies(taking, q, cmd) = 0 /\ Copies(finished', q, cmd) = 0
      /\ Copies(taking', q, cmd) = Copies(finished, q, cmd)
  BY CopiesNat DEF JobsAreIo
<1>2. Held(q, cmd)' = Copies(untaken, q, cmd) + Copies(running, q, cmd)
        + Copies(flushing, q, cmd) + Copies(finished', q, cmd) + Copies(taking', q, cmd)
  BY DEF Held, Copies
<1> QED BY <1>1, <1>2 DEF Held

(* A job is moved. *)
LEMMA HeldMove ==
  ASSUME TypeOK, JobsAreIo, Counted, AnsweredOnce, NEW q \in Q, NEW cmd \in Cmd,
         NEW j \in Jobs \cup taking, NEW k, k.sqid = j.sqid, k.cmd = j.cmd,
         \/ /\ j \in running /\ running' = running \ {j} /\ finished' = finished \cup {k}
            /\ UNCHANGED <<untaken, flushing, taking>>
         \/ /\ j \in flushing /\ flushing' = flushing \ {j} /\ finished' = finished \cup {k}
            /\ UNCHANGED <<untaken, running, taking>>
         \/ /\ j \in taking /\ taking' = taking \ {j} /\ flushing' = flushing \cup {k}
            /\ UNCHANGED <<untaken, running, finished>>
  PROVE  Held(q, cmd)' = Held(q, cmd)
<1> DEFINE a == j.sqid
           b == j.cmd
<1>1. /\ Copies(untaken, q, cmd) \in Nat /\ Copies(finished, q, cmd) \in Nat
      /\ Copies(running, q, cmd) \in Nat /\ Copies(flushing, q, cmd) \in Nat
      /\ Copies(taking, q, cmd) \in Nat
  BY OneHeld
<1>2. /\ Copies(running, a, b) + Copies(finished, a, b) <= 1
      /\ Copies(flushing, a, b) + Copies(finished, a, b) <= 1
      /\ Copies(taking, a, b) + Copies(flushing, a, b) <= 1
  <2>1. a \in Q /\ b \in Cmd
    BY OneJob
  <2>2. /\ Copies(untaken, a, b) \in Nat /\ Copies(running, a, b) \in Nat
        /\ Copies(flushing, a, b) \in Nat /\ Copies(finished, a, b) \in Nat
        /\ Copies(taking, a, b) \in Nat
        /\ Copies(untaken, a, b) + Copies(running, a, b) + Copies(flushing, a, b)
             + Copies(finished, a, b) + Copies(taking, a, b) <= 1
    BY <2>1, OneHeld
  <2> QED BY <2>2
<1>3. Held(q, cmd)' = Copies(untaken', q, cmd) + Copies(running', q, cmd)
        + Copies(flushing', q, cmd) + Copies(finished', q, cmd) + Copies(taking', q, cmd)
  BY DEF Held, Copies
<1>4. /\ IsFiniteSet(running) /\ IsFiniteSet(flushing) /\ IsFiniteSet(finished)
      /\ IsFiniteSet(taking)
      /\ \A S : IsFiniteSet(S) => Copies(S, q, cmd) \in Nat
  BY CopiesNat DEF JobsAreIo
<1>5. CASE /\ j \in running /\ running' = running \ {j} /\ finished' = finished \cup {k}
           /\ UNCHANGED <<untaken, flushing, taking>>
  <2>1. Copies(running', q, cmd) + Copies(finished', q, cmd)
          = Copies(running, q, cmd) + Copies(finished, q, cmd)
    BY <1>2, <1>4, <1>5, JobMoves
  <2>2. IsFiniteSet(running') /\ IsFiniteSet(finished')
    BY <1>4, <1>5, FS_RemoveElement, FS_AddElement
  <2>3. /\ Copies(running', q, cmd) \in Nat /\ Copies(finished', q, cmd) \in Nat
    BY <1>4, <2>2
  <2> QED BY <1>1, <1>3, <1>5, <2>1, <2>3 DEF Held
<1>6. CASE /\ j \in flushing /\ flushing' = flushing \ {j} /\ finished' = finished \cup {k}
           /\ UNCHANGED <<untaken, running, taking>>
  <2>1. Copies(flushing', q, cmd) + Copies(finished', q, cmd)
          = Copies(flushing, q, cmd) + Copies(finished, q, cmd)
    BY <1>2, <1>4, <1>6, JobMoves
  <2>2. IsFiniteSet(flushing') /\ IsFiniteSet(finished')
    BY <1>4, <1>6, FS_RemoveElement, FS_AddElement
  <2>3. /\ Copies(flushing', q, cmd) \in Nat /\ Copies(finished', q, cmd) \in Nat
    BY <1>4, <2>2
  <2> QED BY <1>1, <1>3, <1>6, <2>1, <2>3 DEF Held
<1>7. CASE /\ j \in taking /\ taking' = taking \ {j} /\ flushing' = flushing \cup {k}
           /\ UNCHANGED <<untaken, running, finished>>
  <2>1. Copies(taking', q, cmd) + Copies(flushing', q, cmd)
          = Copies(taking, q, cmd) + Copies(flushing, q, cmd)
    BY <1>2, <1>4, <1>7, JobMoves
  <2>2. IsFiniteSet(taking') /\ IsFiniteSet(flushing')
    BY <1>4, <1>7, FS_RemoveElement, FS_AddElement
  <2>3. /\ Copies(taking', q, cmd) \in Nat /\ Copies(flushing', q, cmd) \in Nat
    BY <1>4, <2>2
  <2> QED BY <1>1, <1>3, <1>7, <2>1, <2>3 DEF Held
<1> QED BY <1>5, <1>6, <1>7

(* A quiet step keeps the order on the submission rings, when the only tail
   that moves is one the driver rings.                                     *)
LEMMA QuietOrder ==
  ASSUME TypeOK, SqInOrder, Quiet,
         \A q \in Q : sq'[q].tail \in {sq[q].tail, gTail[q]}
  PROVE  SqInOrder'
<1> SUFFICES ASSUME NEW q \in Q, sq'[q].live
             PROVE  /\ Past(q, sq'[q].head) <= Past(q, sq'[q].tail)
                    /\ Past(q, sq'[q].tail) <= Past(q, gTail[q])
  BY DEF SqInOrder, Past, Quiet, driver
<1>1. /\ Past(q, sq[q].head) <= Past(q, sq[q].tail)
      /\ Past(q, sq[q].tail) <= Past(q, gTail[q]) /\ sq'[q].head = sq[q].head
  BY DEF SqInOrder, Quiet
<1>2. Past(q, sq[q].head) \in Nat /\ Past(q, sq[q].tail) \in Nat /\ Past(q, gTail[q]) \in Nat
  BY SqFacts, DistOnRing DEF Past
<1>3. CASE sq'[q].tail = sq[q].tail
  BY <1>1, <1>3
<1>4. CASE sq'[q].tail = gTail[q]
  BY <1>1, <1>2, <1>4
<1> QED BY <1>3, <1>4

(* The rings at rest make a quiet step. *)
LEMMA QuietRings ==
  ASSUME UNCHANGED <<en, aer, sq, cq, memory, driver>>
  PROVE  Quiet /\ \A q \in Q : sq'[q].tail = sq[q].tail
  BY DEF Quiet

(* The steps that move doorbells and jobs only. *)
QuietNext ==
  \/ ApplyCc /\ KeepEnable
  \/ EnterProcess \/ TakeFinished \/ AllPosted \/ LeaveSq \/ Unlock
  \/ \E j \in taking : SyncFinished(j)
  \/ Transfers \/ Syncs \/ Drain \/ Registers \/ UNCHANGED vars

(* Each of them leaves entries, requests and heads alone, and keeps both. *)
LEMMA QuietSteps ==
  ASSUME Inductive, Inductive', Counted, AnsweredOnce, SqInOrder, QuietNext
  PROVE  Quiet /\ SqInOrder' /\ AnsweredOnce'
<1> USE DEF Inductive
<1>0. /\ \A q \in Q : sq[q] \in [live : BOOLEAN, head : Nat, tail : Nat, cqid : Q]
      /\ DOMAIN sq = Q
      /\ \A c \in Q : cq[c] \in [live : BOOLEAN, head : Nat, tail : Nat, phase : BOOLEAN]
      /\ DOMAIN cq = Q
  BY DEF TypeOK, RingsOK, SqRings, CqRings
<1>same. UNCHANGED <<pools, taking>> => \A q \in Q, cmd \in Cmd : Held(q, cmd)' = Held(q, cmd)
  BY DEF Held, Copies, pools
<1>fail. /\ finished' = finished \cup Failed(untaken) /\ untaken' = {}
         /\ UNCHANGED <<running, flushing, taking>>
         => \A q \in Q, cmd \in Cmd : Held(q, cmd)' = Held(q, cmd)
  BY HeldFail
<1> DEFINE Good == /\ Quiet /\ \A q \in Q : sq'[q].tail \in {sq[q].tail, gTail[q]}
                   /\ \A q \in Q, cmd \in Cmd : Held(q, cmd)' = Held(q, cmd)
<1> SUFFICES Good
  BY QuietOrder, QuietOnce
<1>1. CASE ApplyCc /\ KeepEnable
  <2>1. UNCHANGED <<en, aer, sq, cq, memory, driver, finished, untaken, running, flushing, taking>>
    BY <1>1 DEF ApplyCc, KeepEnable, rings
  <2> QED BY <1>same, <2>1, QuietRings DEF pools
<1>2. CASE EnterProcess
  <2>1. UNCHANGED <<en, aer, sq, cq, memory, driver, running, flushing, taking>>
    BY <1>2 DEF EnterProcess, regs, rings
  <2>2. \/ UNCHANGED <<untaken, finished>>
        \/ finished' = finished \cup Failed(untaken) /\ untaken' = {}
    BY <1>2 DEF EnterProcess
  <2>3. \A q \in Q, cmd \in Cmd : Held(q, cmd)' = Held(q, cmd)
    BY <1>same, <1>fail, <2>1, <2>2 DEF pools
  <2> QED BY <2>1, <2>3, QuietRings
<1>3. CASE TakeFinished
  <2>1. UNCHANGED <<en, aer, sq, cq, memory, driver, untaken, running, flushing>>
    BY <1>3 DEF TakeFinished, regs, rings
  <2>2. taking = {} /\ taking' = finished /\ finished' = {}
    BY <1>3 DEF TakeFinished, Release, HolderPlace
  <2>3. \A q \in Q, cmd \in Cmd : Held(q, cmd)' = Held(q, cmd)
    BY <2>1, <2>2, HeldTake
  <2> QED BY <2>1, <2>3, QuietRings
<1>4. CASE AllPosted \/ LeaveSq
  <2>1. UNCHANGED <<en, aer, sq, cq, memory, driver, pools, taking>>
    BY <1>4 DEF AllPosted, LeaveSq, regs, rings
  <2> QED BY <1>same, <2>1, QuietRings
<1>5. CASE Unlock
  <2>1. UNCHANGED <<en, aer, sq, cq, memory, driver, flushing, finished, taking>>
    BY <1>5 DEF Unlock, regs, rings, holder
  <2>2. running' = running \cup untaken /\ untaken' = {}
    BY <1>5 DEF Unlock
  <2>3. \A q \in Q, cmd \in Cmd : Held(q, cmd)' = Held(q, cmd)
    BY <2>1, <2>2, HeldUnlock
  <2> QED BY <2>1, <2>3, QuietRings
<1>6. ASSUME NEW j \in taking, SyncFinished(j)
      PROVE  Good
  <2>1. UNCHANGED <<en, aer, sq, cq, memory, driver, untaken, running, finished>>
    BY <1>6 DEF SyncFinished, regs, rings
  <2>2. PICK k : /\ k.sqid = j.sqid /\ k.cmd = j.cmd /\ taking' = taking \ {j}
                 /\ flushing' = flushing \cup {k}
    BY <1>6 DEF SyncFinished, DeferFlush
  <2>3. \A q \in Q, cmd \in Cmd : Held(q, cmd)' = Held(q, cmd)
    BY <2>1, <2>2, HeldMove
  <2> QED BY <2>1, <2>3, QuietRings
<1>7. CASE Transfers
  <2>1. PICK j \in running, ok \in BOOLEAN : FinishIo(j, ok)
    BY <1>7 DEF Transfers
  <2>2. UNCHANGED <<en, aer, sq, cq, memory, driver, untaken, flushing, taking>>
    BY <2>1 DEF FinishIo, regs, rings, holder
  <2>3. j \in Job /\ j \in Jobs \cup taking
    BY DEF TypeOK, JobsOK, Jobs
  <2>4. PICK k : /\ k.sqid = j.sqid /\ k.cmd = j.cmd /\ running' = running \ {j}
                 /\ finished' = finished \cup {k}
    BY <2>1, <2>3 DEF FinishIo, Job
  <2>5. \A q \in Q, cmd \in Cmd : Held(q, cmd)' = Held(q, cmd)
    BY <2>2, <2>3, <2>4, HeldMove
  <2> QED BY <2>2, <2>5, QuietRings
<1>8. CASE Syncs
  <2>1. PICK j \in flushing, ok \in BOOLEAN : FinishFlush(j, ok)
    BY <1>8 DEF Syncs
  <2>2. UNCHANGED <<en, aer, sq, cq, memory, driver, untaken, running, taking>>
    BY <2>1 DEF FinishFlush, regs, rings, holder
  <2>3. j \in Job /\ j \in Jobs \cup taking
    BY DEF TypeOK, JobsOK, Jobs
  <2>4. PICK k : /\ k.sqid = j.sqid /\ k.cmd = j.cmd /\ flushing' = flushing \ {j}
                 /\ finished' = finished \cup {k}
    BY <2>1, <2>3 DEF FinishFlush, Job
  <2>5. \A q \in Q, cmd \in Cmd : Held(q, cmd)' = Held(q, cmd)
    BY <2>2, <2>3, <2>4, HeldMove
  <2> QED BY <2>2, <2>5, QuietRings
<1>9. CASE Drain \/ OtherWrite \/ UNCHANGED vars
  <2>1. UNCHANGED <<en, aer, sq, cq, memory, driver, pools, taking>>
    BY <1>9 DEF Drain, OtherWrite, vars, regs, rings, holder
  <2> QED BY <1>same, <2>1, QuietRings
<1>10. ASSUME NEW w \in CcWrites, BeginCc(w)
       PROVE  Good
  <2>1. UNCHANGED <<en, aer, sq, cq, memory, driver, running, flushing, taking>>
    BY <1>10 DEF BeginCc, regs, rings
  <2>2. finished' = finished \cup Failed(untaken) /\ untaken' = {}
    BY <1>10 DEF BeginCc
  <2> QED BY <1>fail, <2>1, <2>2, QuietRings
<1>11. ASSUME NEW p \in Q, RingSq(p)
       PROVE  Good
  <2>1. UNCHANGED <<en, aer, cq, memory, driver, pools, taking>>
    BY <1>11 DEF RingSq, regs, holder
  <2>2. sq' = sq \/ sq' = [sq EXCEPT ![p].tail = gTail[p]]
    BY <1>11 DEF RingSq
  <2>3. \A q \in Q : /\ sq'[q].live = sq[q].live /\ sq'[q].head = sq[q].head
                     /\ sq'[q].cqid = sq[q].cqid /\ sq'[q].tail \in {sq[q].tail, gTail[q]}
    BY <1>0, <2>2
  <2> QED BY <1>same, <2>1, <2>3 DEF Quiet
<1>12. ASSUME NEW p \in Q, RingCq(p)
       PROVE  Good
  <2>1. UNCHANGED <<en, aer, sq, memory, driver, pools, taking>>
    BY <1>12 DEF RingCq, regs, holder
  <2>2. cq' = cq \/ cq' = [cq EXCEPT ![p].head = gCqHead[p]]
    BY <1>12 DEF RingCq
  <2>3. \A c \in Q : cq'[c].live = cq[c].live /\ cq'[c].tail = cq[c].tail
    BY <1>0, <2>2
  <2> QED BY <1>same, <2>1, <2>3 DEF Quiet
<1> HIDE DEF Good
<1> QED BY <1>1, <1>2, <1>3, <1>4, <1>5, <1>6, <1>7, <1>8, <1>9, <1>10, <1>11, <1>12
        DEF QuietNext, Registers

-----------------------------------------------------------------------------
(* Serving an I/O queue: its head moves on, or a completion is posted for it,
   or both.                                                                *)

(* A fetch brings the head nearer to the tail. *)
LEMMA HeadAdvances ==
  ASSUME TypeOK, SqInOrder, NEW q \in Q, HasWork(q)
  PROVE  /\ Past(q, Succ(sq[q].head, SqSize[q])) = Past(q, sq[q].head) + 1
         /\ Past(q, sq[q].head) + 1 <= Past(q, sq[q].tail)
<1> DEFINE n == SqSize[q]
           h == sq[q].head
           t == sq[q].tail
           g == gSqHead[q]
<1>1. /\ n \in Nat \ {0} /\ h \in Nat /\ h < n /\ t \in Nat /\ t < n /\ g \in Nat /\ g < n
  BY SqFacts
<1>2. sq[q].live /\ h # t
  BY DEF HasWork
<1>3. /\ Dist(g, h, n) \in Nat /\ Dist(g, t, n) \in Nat /\ Dist(g, t, n) < n
      /\ Dist(g, h, n) = Dist(g, t, n) => h = t
  BY <1>1, DistOnRing, DistTells
<1>4. Dist(g, h, n) <= Dist(g, t, n)
  BY <1>2 DEF SqInOrder, Past
<1>5. Dist(g, h, n) + 1 <= Dist(g, t, n) /\ Dist(g, h, n) + 1 < n
  BY <1>1, <1>2, <1>3, <1>4
<1>6. Dist(g, Succ(h, n), n) = Dist(g, h, n) + 1
  BY <1>1, <1>5, DistOfSucc
<1> QED BY <1>5, <1>6 DEF Past

(* What happens to queue q and to no other. *)
Serves(q) ==
  /\ UNCHANGED <<en, aer, sqMem, driver>>
  /\ \A p \in Q : /\ sq'[p].live = sq[p].live /\ sq'[p].cqid = sq[p].cqid
                  /\ sq'[p].tail = sq[p].tail /\ cq'[p].live = cq[p].live
                  /\ p # q => sq'[p].head = sq[p].head
  /\ \/ sq'[q].head = sq[q].head
     \/ HasWork(q) /\ sq'[q].head = Succ(sq[q].head, SqSize[q])

(* A completion for queue q, which completes to c, or none. *)
Completes(q, c, e) ==
  \/ \A d \in Q : SameEntries(d)
  \/ Posts(c, e) /\ e.sqid = q /\ e.cmd \in Cmd /\ e.sqHead = sq'[q].head

(* Serving a queue keeps its ring in order: the head stops at the tail. *)
LEMMA ServedOrder ==
  ASSUME TypeOK, SqInOrder, NEW q \in Q, Serves(q)
  PROVE  /\ SqInOrder'
         /\ \A p \in Q : /\ sq[p].live => Past(p, sq[p].head) <= Past(p, sq'[p].head)
                         /\ \A h : Past(p, h)' = Past(p, h)
<1>1. \A p \in Q : /\ sq'[p].live = sq[p].live /\ sq'[p].tail = sq[p].tail
                   /\ p # q => sq'[p].head = sq[p].head
  BY DEF Serves
<1>2. \A p \in Q : \A h : Past(p, h)' = Past(p, h)
  BY DEF Past, Serves, driver
<1>3. gTail' = gTail
  BY DEF Serves, driver
<1>4. ASSUME NEW p \in Q, sq[p].live
      PROVE  /\ Past(p, sq[p].head) <= Past(p, sq'[p].head)
             /\ Past(p, sq'[p].head) <= Past(p, sq[p].tail)
             /\ Past(p, sq[p].tail) <= Past(p, gTail[p])
  <2>1. /\ Past(p, sq[p].head) <= Past(p, sq[p].tail)
        /\ Past(p, sq[p].tail) <= Past(p, gTail[p])
    BY <1>4 DEF SqInOrder
  <2>2. Past(p, sq[p].head) \in Nat /\ Past(p, sq[p].tail) \in Nat
    BY SqFacts, DistOnRing DEF Past
  <2>3. CASE sq'[p].head = sq[p].head
    BY <2>1, <2>2, <2>3
  <2>4. CASE p = q /\ HasWork(q) /\ sq'[q].head = Succ(sq[q].head, SqSize[q])
    <3>1. /\ Past(p, sq'[p].head) = Past(p, sq[p].head) + 1
          /\ Past(p, sq[p].head) + 1 <= Past(p, sq[p].tail)
      BY <2>4, HeadAdvances
    <3> QED BY <2>1, <2>2, <3>1
  <2> QED BY <1>1, <2>3, <2>4 DEF Serves
<1>5. SqInOrder'
  <2> SUFFICES ASSUME NEW p \in Q, sq'[p].live
               PROVE  /\ Past(p, sq'[p].head) <= Past(p, sq'[p].tail)
                      /\ Past(p, sq'[p].tail) <= Past(p, gTail[p])
    BY <1>3 DEF SqInOrder, Past, Serves, driver
  <2> QED BY <1>1, <1>4
<1> QED BY <1>2, <1>4, <1>5

(* The entry posted, if any, is the last of its queue and carries its head: what
   is known of unread entries stays so.                                    *)
LEMMA ServedKnown ==
  ASSUME TypeOK, JobsAreIo, SqInOrder, EntriesKnown, DriverKnows, NEW q \in IoQ, Serves(q),
         sq[q].live, NEW c \in Q, sq[q].cqid = c, c # 0, NEW e, Completes(q, c, e),
         open[q] # {}
  PROVE  EntriesKnown'
<1>0. q \in Q /\ q # 0
  BY Consts
<1>1. /\ UNCHANGED <<gCq, gSqHead>>
      /\ \A p \in Q : sq'[p].live = sq[p].live /\ sq'[p].cqid = sq[p].cqid
  BY DEF Serves, driver
<1>2. \A p \in Q : /\ sq[p].live => Past(p, sq[p].head) <= Past(p, sq'[p].head)
                   /\ \A h : Past(p, h)' = Past(p, h)
  BY <1>0, ServedOrder
<1>3. c \in gCq
  BY DEF DriverKnows
<1>4. \A d \in Q : \A i \in Unread(d) :
        cqMem[d][i].sqid \in Q /\ cqMem[d][i].sqHead \in Nat
  BY UnreadFacts DEF TypeOK, MemoryOK, Entry
<1> SUFFICES ASSUME NEW d \in Q, NEW i \in Unread(d)'
             PROVE  EntryKnown(d, i)'
  BY DEF EntriesKnown
<1>5. \A p \in Q : /\ sq[p].head \in Nat /\ SqSize[p] \in Nat /\ gSqHead[p] \in Nat
                   /\ sq'[p].head \in Nat
                   /\ \A h \in Nat : Past(p, h) \in Int
  <2>1. \A p \in Q : /\ SqSize[p] \in Nat \ {0} /\ sq[p].head \in Nat
                     /\ sq[p].head < SqSize[p] /\ gSqHead[p] \in Nat
    BY SqFacts
  <2>2. \A p \in Q : sq'[p].head = sq[p].head \/ sq'[p].head = Succ(sq[p].head, SqSize[p])
    BY DEF Serves
  <2>3. \A p \in Q : sq'[p].head \in Nat
    BY <2>1, <2>2, SuccOnRing
  <2>4. \A p \in Q : \A h \in Nat : Past(p, h) \in Int
    BY <2>1 DEF Past, Dist
  <2> QED BY <2>1, <2>3, <2>4
<1>old. ASSUME i \in Unread(d), cqMem'[d][i] = cqMem[d][i],
               \A k \in Unread(d)' :
                 \/ /\ k \in Unread(d) /\ cqMem'[d][k] = cqMem[d][k]
                    /\ Ahead(d, i)' = Ahead(d, i) /\ Ahead(d, k)' = Ahead(d, k)
                 \/ d = c /\ cqMem'[d][k].sqid = q /\ cqMem'[d][k].sqHead = sq'[q].head
        PROVE  EntryKnown(d, i)'
  <2>1. PICK f : f = cqMem[d][i]
    OBVIOUS
  <2>2. /\ EntryKnown(d, i) /\ cqMem'[d][i] = f /\ f.sqid \in Q /\ f.sqHead \in Nat
    BY <1>4, <1>old, <2>1 DEF EntriesKnown
  <2>3. /\ f.cmd \in Cmd /\ (f.sqid = 0 <=> d = 0) /\ (d = 0 => f.cmd \in AdminCmd)
        /\ d # 0 => d \in gCq
    BY <2>1, <2>2 DEF EntryKnown
  <2>4. ASSUME sq[f.sqid].live
        PROVE  /\ sq[f.sqid].cqid = d
               /\ Past(f.sqid, f.sqHead) <= Past(f.sqid, sq[f.sqid].head)
               /\ \A k \in Unread(d) : cqMem[d][k].sqid = f.sqid /\ Ahead(d, i) <= Ahead(d, k)
                    => Past(f.sqid, f.sqHead) <= Past(f.sqid, cqMem[d][k].sqHead)
    BY <2>1, <2>2, <2>4 DEF EntryKnown
  <2>5. ASSUME sq[f.sqid].live
        PROVE  Past(f.sqid, f.sqHead) <= Past(f.sqid, sq'[f.sqid].head)
    <3>1. /\ Past(f.sqid, f.sqHead) <= Past(f.sqid, sq[f.sqid].head)
          /\ Past(f.sqid, sq[f.sqid].head) <= Past(f.sqid, sq'[f.sqid].head)
      BY <1>2, <2>2, <2>4, <2>5
    <3>2. /\ Past(f.sqid, f.sqHead) \in Int /\ Past(f.sqid, sq[f.sqid].head) \in Int
          /\ Past(f.sqid, sq'[f.sqid].head) \in Int
      BY <1>5, <2>2
    <3> QED BY <3>1, <3>2
  <2>6. ASSUME sq[f.sqid].live, NEW k \in Unread(d)', cqMem'[d][k].sqid = f.sqid,
               Ahead(d, i)' <= Ahead(d, k)'
        PROVE  Past(f.sqid, f.sqHead) <= Past(f.sqid, cqMem'[d][k].sqHead)
    <3>1. CASE /\ k \in Unread(d) /\ cqMem'[d][k] = cqMem[d][k]
               /\ Ahead(d, i)' = Ahead(d, i) /\ Ahead(d, k)' = Ahead(d, k)
      BY <2>4, <2>6, <3>1
    <3>2. CASE cqMem'[d][k].sqid = q /\ cqMem'[d][k].sqHead = sq'[q].head
      BY <2>5, <2>6, <3>2
    <3> QED BY <1>old, <3>1, <3>2
  <2>7. \A h : Past(f.sqid, h)' = Past(f.sqid, h)
    BY <1>2, <2>2
  <2>8. sq'[f.sqid].live = sq[f.sqid].live /\ sq'[f.sqid].cqid = sq[f.sqid].cqid /\ gCq' = gCq
    BY <1>1, <2>2
  <2>9. EntryKnown(d, i)' =
         (/\ f.cmd \in Cmd /\ (f.sqid = 0 <=> d = 0)
          /\ d = 0 => f.cmd \in AdminCmd
          /\ d # 0 => d \in gCq'
          /\ sq'[f.sqid].live =>
             /\ sq'[f.sqid].cqid = d
             /\ Past(f.sqid, f.sqHead)' <= Past(f.sqid, sq[f.sqid].head)'
             /\ \A k \in Unread(d)' :
                  cqMem'[d][k].sqid = f.sqid /\ Ahead(d, i)' <= Ahead(d, k)'
                    => Past(f.sqid, f.sqHead)' <= Past(f.sqid, cqMem[d][k].sqHead)')
    BY <2>2 DEF EntryKnown
  <2>10. /\ Past(f.sqid, sq[f.sqid].head)' = Past(f.sqid, sq'[f.sqid].head)
         /\ \A k : Past(f.sqid, cqMem[d][k].sqHead)' = Past(f.sqid, cqMem'[d][k].sqHead)
    BY <1>1 DEF Past
  <2> QED BY <2>3, <2>4, <2>5, <2>6, <2>7, <2>8, <2>9, <2>10
<1>6. CASE \A x \in Q : SameEntries(x)
  BY <1>old, <1>6 DEF SameEntries
<1>7. CASE Posts(c, e) /\ e.sqid = q /\ e.cmd \in Cmd /\ e.sqHead = sq'[q].head
  <2>1. CASE d # c
    BY <1>7, <1>old, <2>1 DEF Posts, SameEntries
  <2>2. CASE d = c /\ i \in Unread(c)
    BY <1>7, <1>old, <2>2 DEF Posts
  <2>3. CASE d = c /\ i = cq[c].tail
    <3>1. cqMem'[d][i] = e
      BY <1>7, <2>3 DEF Posts
    <3>2. \A k \in Unread(d)' : Ahead(d, i)' <= Ahead(d, k)' => k = i
      <4>1. \A k \in Unread(c) : /\ Ahead(c, k)' = Ahead(c, k) /\ Ahead(c, i)' = Ahead(c, i)
                                 /\ Ahead(c, k) < Ahead(c, i)
        BY <1>7, <2>3 DEF Posts
      <4>2. \A k \in Unread(c) : Ahead(c, k) \in Nat
        BY UnreadFacts
      <4>3. Ahead(c, i) \in Nat
        BY <2>3, UnreadFacts
      <4>4. Unread(d)' = Unread(c) \cup {i}
        BY <1>7, <2>3 DEF Posts
      <4> QED BY <2>3, <4>1, <4>2, <4>3, <4>4
    <3>3. Past(q, e.sqHead)' = Past(q, sq[q].head)' /\ Past(q, sq[q].head)' \in Int
      <4>1. Past(q, sq[q].head)' = Past(q, sq'[q].head)
        BY <1>1 DEF Past
      <4> QED BY <1>0, <1>2, <1>5, <1>7, <4>1
    <3>4. sq'[q].cqid = d
      BY <1>0, <1>1, <2>3
    <3> QED BY <1>0, <1>1, <1>3, <1>7, <2>3, <3>1, <3>2, <3>3, <3>4 DEF EntryKnown
  <2> QED BY <1>7, <2>1, <2>2, <2>3 DEF Posts
<1> QED BY <1>6, <1>7 DEF Completes

(* The rest of the invariant, queues and the driver's knowledge being what
   they were.                                                              *)
LEMMA ServedKeeps ==
  ASSUME TypeOK, JobsAreIo, ReportsTrue, DriverKnows, OneAtATime, CreationsWait,
         DeletionsWait, EntriesKnown, NEW q \in IoQ, Serves(q), sq[q].live,
         NEW c \in Q, sq[q].cqid = c, c # 0, NEW e, Completes(q, c, e)
  PROVE  ReportsTrue' /\ DriverKnows' /\ OneAtATime' /\ CreationsWait' /\ DeletionsWait'
<1>0. q \in Q /\ q # 0 /\ 0 \in Q /\ IoQ \subseteq Q /\ 0 \notin IoQ
  BY Consts
<1>1. /\ UNCHANGED <<en, open, gSq, gCq, gTail, sqMem>>
      /\ \A p \in Q : /\ sq'[p].live = sq[p].live /\ sq'[p].cqid = sq[p].cqid
                      /\ cq'[p].live = cq[p].live
      /\ sq'[0].head = sq[0].head
  BY <1>0 DEF Serves, driver
<1>2. /\ Unread(0)' = Unread(0)
      /\ \A i \in Unread(0) : cqMem'[0][i] = cqMem[0][i] /\ Ahead(0, i)' = Ahead(0, i)
  BY <1>0 DEF Completes, Posts, SameEntries
<1>3. \A a : Unfetched(0, a)' = Unfetched(0, a)
  BY <1>0, <1>1, UnfetchedStay
<1>4. ReportsTrue'
  BY <1>0, <1>1, <1>2 DEF ReportsTrue, Reports
<1>5. DriverKnows'
  BY <1>0, <1>1, <1>2 DEF DriverKnows, Reports
<1>6. OneAtATime'
  BY <1>1 DEF OneAtATime
<1>7. CreationsWait'
  BY <1>1, <1>3 DEF CreationsWait
<1>8. \A d \in Q : \A k \in Unread(d)' :
        \/ k \in Unread(d) /\ cqMem'[d][k] = cqMem[d][k]
        \/ cqMem'[d][k].sqid = q
  <2> SUFFICES ASSUME NEW d \in Q, NEW k \in Unread(d)'
               PROVE  \/ k \in Unread(d) /\ cqMem'[d][k] = cqMem[d][k]
                      \/ cqMem'[d][k].sqid = q
    OBVIOUS
  <2>1. CASE \A x \in Q : SameEntries(x)
    BY <2>1 DEF SameEntries
  <2>2. CASE Posts(c, e) /\ e.sqid = q
    <3>1. CASE d # c
      BY <2>2, <3>1 DEF Posts, SameEntries
    <3>2. CASE d = c
      BY <2>2, <3>2 DEF Posts
    <3> QED BY <3>1, <3>2
  <2> QED BY <2>1, <2>2 DEF Completes
<1>9. \A d \in Q : \A k \in Unread(d) : cqMem[d][k].sqid \in Q
  BY UnreadFacts DEF TypeOK, MemoryOK, Entry
<1>10. \A a \in AdminCmd : a.q \in Q
  BY <1>0, Commands
<1>11. DeletionsWait'
  <2> SUFFICES ASSUME NEW a \in AdminCmd, NEW i \in Unfetched(0, a)', a.op = "deleteCq",
                      cq'[a.q].live
               PROVE  /\ \A k \in Unread(a.q)' : sq'[cqMem'[a.q][k].sqid].live
                      /\ \A b \in AdminCmd : \A k \in Unfetched(0, b)' :
                           /\ b.op = "deleteSq" /\ sq'[b.q].live /\ sq'[b.q].cqid = a.q
                           /\ open'[b.q] # {}
                           => Dist(sq'[0].head, i, SqSize[0]) < Dist(sq'[0].head, k, SqSize[0])
    BY DEF DeletionsWait
  <2>1. i \in Unfetched(0, a) /\ cq[a.q].live
    BY <1>1, <1>3, <1>10
  <2>2. \A k \in Unread(a.q)' : sq'[cqMem'[a.q][k].sqid].live
    <3> SUFFICES ASSUME NEW k \in Unread(a.q)' PROVE sq'[cqMem'[a.q][k].sqid].live
      OBVIOUS
    <3>1. CASE k \in Unread(a.q) /\ cqMem'[a.q][k] = cqMem[a.q][k]
      <4>1. sq[cqMem[a.q][k].sqid].live
        BY <2>1, <3>1 DEF DeletionsWait
      <4> QED BY <1>1, <1>9, <1>10, <3>1, <4>1
    <3>2. CASE cqMem'[a.q][k].sqid = q
      BY <1>0, <1>1, <3>2
    <3> QED BY <1>8, <1>10, <3>1, <3>2
  <2>3. ASSUME NEW b \in AdminCmd, NEW k \in Unfetched(0, b)',
               b.op = "deleteSq" /\ sq'[b.q].live /\ sq'[b.q].cqid = a.q /\ open'[b.q] # {}
        PROVE  Dist(sq'[0].head, i, SqSize[0]) < Dist(sq'[0].head, k, SqSize[0])
    <3>1. k \in Unfetched(0, b)
      BY <1>3
    <3>2. sq[b.q].live /\ sq[b.q].cqid = a.q /\ open[b.q] # {}
      BY <1>1, <1>10, <2>3
    <3> QED BY <1>1, <2>1, <2>3, <3>1, <3>2 DEF DeletionsWait
  <2> QED BY <2>2, <2>3
<1> QED BY <1>4, <1>5, <1>6, <1>7, <1>11

(* post_completion on a ring with room, when no other ring changes. *)
LEMMA PostsEntry ==
  ASSUME TypeOK, JobsAreIo, GuestBetween, NEW c \in Q, cq[c].live,
         Dist(cq[c].head, cq[c].tail, CqSize[c]) + 1 < CqSize[c],
         NEW q, NEW cmd, NEW ok, NEW h,
         cq' = Posted(cq, c), cqMem' = Written(cqMem, c, q, cmd, ok, h), gCqHead' = gCqHead
  PROVE  /\ Posts(c, NewEntry(c, q, cmd, ok, h))
         /\ \A d \in Q : cq'[d].live = cq[d].live
<1> DEFINE e == NewEntry(c, q, cmd, ok, h)
<1>1. cq \in CqRings /\ DOMAIN cqMem = Q
  BY DEF TypeOK, RingsOK, MemoryOK
<1>2. /\ cqMem'[c] = [cqMem[c] EXCEPT ![cq[c].tail] = e]
      /\ \A d \in Q \ {c} : cqMem'[d] = cqMem[d]
  BY <1>1 DEF Written, NewEntry
<1>3. /\ cq'[c] = Posted(cq, c)[c]
      /\ \A d \in Q : cq'[d].live = cq[d].live /\ (d # c => cq'[d] = cq[d])
  BY <1>1, PostedAt
<1> HIDE DEF e
<1>4. \A d \in Q \ {c} : SameEntries(d)
  BY <1>2, <1>3, EntriesStay
<1>5. Posts(c, e)
  BY <1>2, <1>3, <1>4, EntriesPosted
<1> QED BY <1>3, <1>5 DEF e

(* The places of a command before and after a step, by where it is. *)
LEMMA PlacesSum ==
  ASSUME TypeOK, JobsAreIo, JobsAreIo', Counted, Counted', NEW q \in Q, NEW cmd \in Cmd,
         Cardinality(Unfetched(q, cmd)') \in Nat
  PROVE  /\ Places(q, cmd) = Cardinality(Unfetched(q, cmd)) + Cardinality(Completions(q, cmd))
                               + Held(q, cmd)
         /\ Places(q, cmd)' = Cardinality(Unfetched(q, cmd)')
                                + Cardinality(Completions(q, cmd)') + Held(q, cmd)'
         /\ Cardinality(Unfetched(q, cmd)) \in Nat /\ Cardinality(Completions(q, cmd)) \in Nat
         /\ Cardinality(Completions(q, cmd)') \in Nat
         /\ Held(q, cmd) \in Nat /\ Held(q, cmd)' \in Nat
<1>1. /\ Cardinality(Unfetched(q, cmd)) \in Nat /\ Cardinality(Completions(q, cmd)) \in Nat
      /\ Copies(untaken, q, cmd) \in Nat /\ Copies(running, q, cmd) \in Nat
      /\ Copies(flushing, q, cmd) \in Nat /\ Copies(finished, q, cmd) \in Nat
      /\ Copies(taking, q, cmd) \in Nat
  BY Numbers
<1>2. /\ Copies(untaken, q, cmd)' \in Nat /\ Copies(running, q, cmd)' \in Nat
      /\ Copies(flushing, q, cmd)' \in Nat /\ Copies(finished, q, cmd)' \in Nat
      /\ Copies(taking, q, cmd)' \in Nat
  BY CopiesNat DEF JobsAreIo
<1>3. Cardinality(Completions(q, cmd)') \in Nat
  BY FS_CardinalityType DEF Counted
<1>4. /\ Places(q, cmd) = Cardinality(Unfetched(q, cmd)) + Cardinality(Completions(q, cmd))
                            + Held(q, cmd)
      /\ Held(q, cmd) \in Nat
  BY <1>1 DEF Held, Places
<1>5. /\ Places(q, cmd)' = Cardinality(Unfetched(q, cmd)')
                             + Cardinality(Completions(q, cmd)') + Held(q, cmd)'
      /\ Held(q, cmd)' \in Nat
  BY <1>2, <1>3 DEF Held, Places
<1> QED BY <1>1, <1>3, <1>4, <1>5

(* One completion more, one place less: no command moves but from one place to
   another.                                                                *)
LEMMA OnceMoved ==
  ASSUME TypeOK, JobsAreIo, JobsAreIo', Counted, Counted', AnsweredOnce,
         UNCHANGED <<open, aer, en>>, \A q \in Q : sq'[q].live => sq[q].live,
         \A q \in Q, cmd \in Cmd :
           Cardinality(Unfetched(q, cmd)') + Cardinality(Completions(q, cmd)') + Held(q, cmd)'
             = Cardinality(Unfetched(q, cmd)) + Cardinality(Completions(q, cmd)) + Held(q, cmd),
         \A q \in Q, cmd \in Cmd : Cardinality(Unfetched(q, cmd)') \in Nat
  PROVE  AnsweredOnce'
<1>1. ASSUME NEW q \in Q, NEW cmd \in Cmd
      PROVE  Places(q, cmd)' = Places(q, cmd)
  BY PlacesSum
<1> QED BY <1>1, OnceSame

(* The parts of the invariant beside WorkInvariant. *)
ServiceParts ==
  /\ SqInOrder /\ EntriesKnown /\ ReportsTrue /\ DriverKnows
  /\ OneAtATime /\ CreationsWait /\ DeletionsWait /\ Counted

(* post_finished puts one entry on the ring the job's queue completes to. *)
LEMMA PostShape ==
  ASSUME ServiceInvariant, NEW j \in taking, NEW ok, PostFinished(j, ok)
  PROVE  LET q == j.sqid
             c == j.cqid
         IN /\ q \in IoQ /\ q \in Q /\ c \in IoQ /\ c \in Q /\ c # 0
            /\ sq[q].live /\ sq[q].cqid = c /\ cq[c].live
            /\ cq' = Posted(cq, c)
            /\ cqMem' = Written(cqMem, c, q, j.cmd, ok, sq[q].head)
            /\ sq' = sq
            /\ UNCHANGED <<en, aer, sqMem, driver, untaken, running, finished, flushing>>
            /\ taking' = taking \ {j}
            /\ Posts(c, NewEntry(c, q, j.cmd, ok, sq[q].head))
            /\ \A d \in Q : cq'[d].live = cq[d].live
<1> USE DEF ServiceInvariant, WorkInvariant, Inductive
<1> DEFINE q == j.sqid
           c == j.cqid
           e == NewEntry(c, q, j.cmd, ok, sq[q].head)
<1>1. q \in IoQ /\ q \in Q /\ c \in IoQ /\ c \in Q /\ c # 0
  BY Consts DEF JobsAreIo
<1>2. sq[q].live /\ sq[q].cqid = c /\ cq[c].live
  BY DEF QueuesOutliveJobs
<1>3. /\ cq' = Posted(cq, c) /\ cqMem' = Written(cqMem, c, q, j.cmd, ok, sq[q].head)
      /\ sq' = sq /\ UNCHANGED <<en, aer, sqMem, driver, untaken, running, finished, flushing>>
      /\ taking' = taking \ {j}
  BY <1>2 DEF PostFinished, FlushInline, regs
<1>4. Dist(cq[c].head, cq[c].tail, CqSize[c]) + 1 < CqSize[c]
  <2>1. Cardinality(Of(taking, c)) \in Nat /\ Cardinality(Of(taking, c)) # 0
    <3>1. IsFiniteSet(Of(taking, c))
      BY Shares DEF JobsAreIo
    <3>2. j \in Of(taking, c)
      BY DEF Of
    <3> QED BY <3>1, <3>2, FS_CardinalityType, FS_EmptySet
  <2>2. Dist(cq[c].head, cq[c].tail, CqSize[c]) + held[c]
          + Cardinality(Of(taking, c)) < CqSize[c]
    BY <1>1, <1>2 DEF RingCapacity
  <2>3. Dist(cq[c].head, cq[c].tail, CqSize[c]) \in Nat /\ held[c] \in Nat
        /\ CqSize[c] \in Nat
    BY <1>1, RingFacts, DistOnRing
  <2> QED BY <2>1, <2>2, <2>3
<1>5. gCqHead' = gCqHead
  BY <1>3 DEF driver
<1>6. Posts(c, e) /\ \A d \in Q : cq'[d].live = cq[d].live
  BY <1>1, <1>2, <1>3, <1>4, <1>5, PostsEntry
<1> QED BY <1>1, <1>2, <1>3, <1>6

(* post_finished posts the completion of one job. *)
LEMMA ServicePost ==
  ASSUME ServiceInvariant, Inductive', NEW j \in taking, NEW ok, PostFinished(j, ok)
  PROVE  ServiceParts' /\ AnsweredOnce'
<1> USE DEF ServiceInvariant, WorkInvariant, Inductive
<1> DEFINE q == j.sqid
           c == j.cqid
           e == NewEntry(c, q, j.cmd, ok, sq[q].head)
<1>0. /\ q \in IoQ /\ q \in Q /\ c \in IoQ /\ c \in Q /\ c # 0
      /\ sq[q].live /\ sq[q].cqid = c /\ cq[c].live
      /\ cq' = Posted(cq, c) /\ cqMem' = Written(cqMem, c, q, j.cmd, ok, sq[q].head)
      /\ sq' = sq /\ UNCHANGED <<en, aer, sqMem, driver, untaken, running, finished, flushing>>
      /\ taking' = taking \ {j}
      /\ Posts(c, e) /\ \A d \in Q : cq'[d].live = cq[d].live
  BY PostShape
<1>1. q \in IoQ /\ q \in Q /\ c \in IoQ /\ c \in Q /\ c # 0
  BY <1>0
<1>2. sq[q].live /\ sq[q].cqid = c /\ cq[c].live
  BY <1>0
<1>3. /\ cq' = Posted(cq, c) /\ cqMem' = Written(cqMem, c, q, j.cmd, ok, sq[q].head)
      /\ sq' = sq /\ UNCHANGED <<en, aer, sqMem, driver, untaken, running, finished, flushing>>
      /\ taking' = taking \ {j}
  BY <1>0
<1>6. Posts(c, e) /\ \A d \in Q : cq'[d].live = cq[d].live
  BY <1>0
<1>7. j.cmd \in Cmd /\ e.sqid = q /\ e.cmd = j.cmd /\ e.sqHead = sq'[q].head
  BY <1>3 DEF NewEntry, TypeOK, JobsOK, Job
<1>8. /\ j.cmd \in open[q]
  BY OneJob
<1>9. Serves(q)
  BY <1>3, <1>6 DEF Serves
<1>10. Completes(q, c, e)
  BY <1>6, <1>7 DEF Completes
<1>11. SqInOrder'
  BY <1>1, <1>9, ServedOrder
<1>12. EntriesKnown'
  BY <1>1, <1>2, <1>8, <1>9, <1>10, ServedKnown
<1>13. ReportsTrue' /\ DriverKnows' /\ OneAtATime' /\ CreationsWait' /\ DeletionsWait'
  BY <1>1, <1>2, <1>9, <1>10, ServedKeeps
<1>14. ASSUME NEW p \in Q, NEW cmd \in Cmd
       PROVE  /\ IsFiniteSet(Completions(p, cmd)')
              /\ Cardinality(Unfetched(p, cmd)') \in Nat
              /\ Cardinality(Unfetched(p, cmd)') + Cardinality(Completions(p, cmd)')
                   + Held(p, cmd)'
                   = Cardinality(Unfetched(p, cmd)) + Cardinality(Completions(p, cmd))
                       + Held(p, cmd)
  <2>1. Unfetched(p, cmd)' = Unfetched(p, cmd)
    BY <1>3, UnfetchedStay DEF driver
  <2>2. /\ IsFiniteSet(Completions(p, cmd)')
        /\ Cardinality(Completions(p, cmd)')
             = Cardinality(Completions(p, cmd)) + Match(e, p, cmd)
    <3>1. CqSize[c] \in Nat /\ IsFiniteSet(Completions(p, cmd))
      BY <1>1, RingFacts DEF Counted
    <3> QED BY <1>1, <1>6, <3>1, CompletionsGain
  <2>3. Match(e, p, cmd) = Match(j, p, cmd) /\ Match(j, p, cmd) \in Nat
    BY <1>7 DEF Match
  <2>4. Copies(taking \ {j}, p, cmd) = Copies(taking, p, cmd) - Match(j, p, cmd)
    BY CopiesLose DEF JobsAreIo
  <2>5. Held(p, cmd)' = Copies(untaken, p, cmd) + Copies(running, p, cmd)
          + Copies(flushing, p, cmd) + Copies(finished, p, cmd) + Copies(taking', p, cmd)
    BY <1>3 DEF Held, Copies
  <2>6. /\ Cardinality(Unfetched(p, cmd)) \in Nat /\ Cardinality(Completions(p, cmd)) \in Nat
        /\ Copies(untaken, p, cmd) \in Nat /\ Copies(running, p, cmd) \in Nat
        /\ Copies(flushing, p, cmd) \in Nat /\ Copies(finished, p, cmd) \in Nat
        /\ Copies(taking, p, cmd) \in Nat
    BY Numbers
  <2>7. Held(p, cmd)' = Held(p, cmd) - Match(j, p, cmd) /\ Held(p, cmd) \in Nat
    BY <1>3, <2>3, <2>4, <2>5, <2>6 DEF Held
  <2> HIDE DEF e
  <2> QED BY <2>1, <2>2, <2>3, <2>6, <2>7
<1>15. Counted'
  BY <1>3, <1>14 DEF Counted, driver
<1>16. AnsweredOnce'
  BY <1>3, <1>14, <1>15, OnceMoved DEF driver
<1> QED BY <1>11, <1>12, <1>13, <1>15, <1>16 DEF ServiceParts

(* What every fetch from an I/O queue has in common. *)
LEMMA Fetched ==
  ASSUME ServiceInvariant, Inductive', NEW q \in IoQ, NEW cmd \in IoCmd, Fetch(q, cmd),
         sq' = Advanced(q), UNCHANGED <<en, aer, sqMem, driver>>,
         \A d \in Q : cq'[d].live = cq[d].live,
         NEW c \in Q, sq[q].cqid = c, NEW e, Completes(q, c, e)
  PROVE  /\ SqInOrder' /\ EntriesKnown' /\ ReportsTrue' /\ DriverKnows' /\ OneAtATime'
         /\ CreationsWait' /\ DeletionsWait'
         /\ Unfetched(q, cmd) # {} /\ cmd \in Cmd /\ q \in Q /\ c # 0
         /\ \A p \in Q : sq'[p].live => sq[p].live
         /\ \A p \in Q, one \in Cmd :
              /\ Cardinality(Unfetched(p, one)') \in Nat
              /\ Cardinality(Unfetched(p, one)') = Cardinality(Unfetched(p, one))
                   - (IF p = q /\ one = cmd THEN 1 ELSE 0)
<1> USE DEF ServiceInvariant, WorkInvariant, Inductive
<1>1. q \in Q /\ q # 0 /\ cmd \in Cmd /\ sq \in SqRings
  BY Consts DEF Cmd, TypeOK, RingsOK
<1>2. HasWork(q) /\ cmd = sqMem[q][sq[q].head] /\ sq[q].live
  BY DEF Fetch, HasWork
<1>3. c # 0
  BY <1>2, Consts DEF QueuesLinked
<1>4. /\ \A p \in Q : /\ sq'[p].live = sq[p].live /\ sq'[p].cqid = sq[p].cqid
                      /\ sq'[p].tail = sq[p].tail
                      /\ p # q => sq'[p] = sq[p]
      /\ sq'[q].head = Succ(sq[q].head, SqSize[q])
  <2>1. /\ \A p \in Q : /\ sq'[p].live = sq[p].live /\ sq'[p].cqid = sq[p].cqid
                        /\ p # q => sq'[p] = sq[p]
        /\ sq'[q].head = Succ(sq[q].head, SqSize[q])
    BY <1>1, AdvancedAt
  <2>2. sq'[q].tail = sq[q].tail
    BY <1>1 DEF Advanced, SqRings
  <2> QED BY <2>1, <2>2
<1>5. Serves(q)
  BY <1>2, <1>4 DEF Serves
<1>6. gTail' = gTail
  BY DEF driver
<1>7. /\ sq[q].head \in Unfetched(q, cmd)
      /\ \A one : Cardinality(Unfetched(q, one)')
           = Cardinality(Unfetched(q, one)) - (IF one = cmd THEN 1 ELSE 0)
  BY <1>1, <1>2, <1>4, <1>6, UnfetchedFetch
<1>8. cmd \in open[q]
  BY <1>1, <1>7, OneUnfetched
<1>9. SqInOrder'
  BY <1>1, <1>5, ServedOrder
<1>10. EntriesKnown'
  BY <1>1, <1>2, <1>3, <1>5, <1>8, ServedKnown
<1>11. ReportsTrue' /\ DriverKnows' /\ OneAtATime' /\ CreationsWait' /\ DeletionsWait'
  BY <1>2, <1>3, <1>5, ServedKeeps
<1>12. ASSUME NEW p \in Q, NEW one \in Cmd
       PROVE  /\ Cardinality(Unfetched(p, one)') \in Nat
              /\ Cardinality(Unfetched(p, one)') = Cardinality(Unfetched(p, one))
                   - (IF p = q /\ one = cmd THEN 1 ELSE 0)
  <2>1. Cardinality(Unfetched(p, one)) \in Nat
    BY UnfetchedFacts
  <2>2. CASE p = q
    <3>1. Cardinality(Unfetched(p, one)') = Cardinality(Unfetched(p, one))
                   - (IF one = cmd THEN 1 ELSE 0)
      BY <1>7, <2>2
    <3>2. one = cmd => Cardinality(Unfetched(p, one)) # 0
      BY <1>7, <2>2, UnfetchedFacts
    <3> QED BY <2>1, <2>2, <3>1, <3>2
  <2>3. CASE p # q
    <3>1. Unfetched(p, one)' = Unfetched(p, one)
      BY <1>4, <1>6, <2>3, UnfetchedStay
    <3> QED BY <2>1, <2>3, <3>1
  <2> QED BY <2>2, <2>3
<1> QED BY <1>1, <1>3, <1>4, <1>7, <1>9, <1>10, <1>11, <1>12

(* defer_flush and defer_io: the command becomes a job. *)
LEMMA ServiceDefer ==
  ASSUME ServiceInvariant, Inductive', NEW q \in IoQ, NEW cmd \in IoCmd,
         FetchFlush(q, cmd) \/ FetchIo(q, cmd)
  PROVE  ServiceParts' /\ AnsweredOnce'
<1> USE DEF ServiceInvariant, WorkInvariant, Inductive
<1>1. /\ Fetch(q, cmd) /\ sq' = Advanced(q) /\ cq' = cq
      /\ UNCHANGED <<en, aer, sqMem, cqMem, driver, running, finished, taking>>
  BY DEF FetchFlush, FetchIo, regs, memory, holder
<1>2. PICK j : /\ j.sqid = q /\ j.cmd = cmd
               /\ \/ flushing' = flushing \cup {j} /\ untaken' = untaken
                  \/ untaken' = untaken \cup {j} /\ flushing' = flushing
  BY DEF FetchFlush, FetchIo, DeferFlush
<1>3. \A d \in Q : SameEntries(d) /\ cq'[d].live = cq[d].live
  BY <1>1, EntriesStay DEF driver
<1>4. q \in Q
  BY Consts
<1>5. PICK c \in Q : sq[q].cqid = c
  BY <1>4, SqFacts
<1>6. Completes(q, c, j)
  BY <1>3 DEF Completes
<1>7. /\ SqInOrder' /\ EntriesKnown' /\ ReportsTrue' /\ DriverKnows' /\ OneAtATime'
      /\ CreationsWait' /\ DeletionsWait'
      /\ Unfetched(q, cmd) # {} /\ cmd \in Cmd
      /\ \A p \in Q : sq'[p].live => sq[p].live
      /\ \A p \in Q, one \in Cmd :
           /\ Cardinality(Unfetched(p, one)') \in Nat
           /\ Cardinality(Unfetched(p, one)') = Cardinality(Unfetched(p, one))
                - (IF p = q /\ one = cmd THEN 1 ELSE 0)
  BY <1>1, <1>3, <1>5, <1>6, Fetched
<1>8. \A p \in Q, one \in Cmd : Completions(p, one)' = Completions(p, one)
  BY <1>3, CompletionsStay
<1>9. Counted'
  BY <1>1, <1>8 DEF Counted, driver
<1>10. Copies(untaken, q, cmd) = 0 /\ Copies(flushing, q, cmd) = 0
  BY <1>4, <1>7, OneUnfetched
<1>11. ASSUME NEW p \in Q, NEW one \in Cmd
       PROVE  Cardinality(Unfetched(p, one)') + Cardinality(Completions(p, one)') + Held(p, one)'
                = Cardinality(Unfetched(p, one)) + Cardinality(Completions(p, one))
                    + Held(p, one)
  <2>1. /\ Cardinality(Unfetched(p, one)) \in Nat /\ Cardinality(Completions(p, one)) \in Nat
        /\ Copies(untaken, p, one) \in Nat /\ Copies(running, p, one) \in Nat
        /\ Copies(flushing, p, one) \in Nat /\ Copies(finished, p, one) \in Nat
        /\ Copies(taking, p, one) \in Nat
    BY Numbers
  <2>2. Match(j, p, one) = IF p = q /\ one = cmd THEN 1 ELSE 0
    BY <1>2 DEF Match
  <2>3. /\ Copies(flushing \cup {j}, p, one) = Copies(flushing, p, one) + Match(j, p, one)
        /\ Copies(untaken \cup {j}, p, one) = Copies(untaken, p, one) + Match(j, p, one)
    BY <1>2, <1>10, CopiesGain DEF JobsAreIo
  <2>4. Held(p, one)' = Copies(untaken', p, one) + Copies(running, p, one)
          + Copies(flushing', p, one) + Copies(finished, p, one) + Copies(taking, p, one)
    BY <1>1 DEF Held, Copies
  <2>5. Match(j, p, one) \in Nat
    BY <2>2
  <2>6. Held(p, one)' = Held(p, one) + Match(j, p, one) /\ Held(p, one) \in Nat
    <3>1. CASE flushing' = flushing \cup {j} /\ untaken' = untaken
      BY <2>1, <2>3, <2>4, <2>5, <3>1 DEF Held
    <3>2. CASE untaken' = untaken \cup {j} /\ flushing' = flushing
      BY <2>1, <2>3, <2>4, <2>5, <3>2 DEF Held
    <3> QED BY <1>2, <3>1, <3>2
  <2>7. Cardinality(Unfetched(p, one)') = Cardinality(Unfetched(p, one)) - Match(j, p, one)
    BY <1>7, <2>2
  <2>8. Cardinality(Completions(p, one)') = Cardinality(Completions(p, one))
    BY <1>8
  <2> QED BY <2>1, <2>5, <2>6, <2>7, <2>8
<1>12. AnsweredOnce'
  BY <1>1, <1>7, <1>9, <1>11, OnceMoved DEF driver
<1> QED BY <1>7, <1>9, <1>12 DEF ServiceParts

(* execute_io puts one entry on the ring the command's queue completes to. *)
LEMMA InlineShape ==
  ASSUME ServiceInvariant, NEW q \in IoQ, NEW cmd \in IoCmd, NEW ok, FetchInline(q, cmd, ok),
         NEW c \in Q, sq[q].cqid = c
  PROVE  LET h == Advanced(q)[q].head
             e == NewEntry(c, q, cmd, ok, h)
         IN /\ q \in Q /\ Fetch(q, cmd) /\ sq' = Advanced(q)
            /\ UNCHANGED <<en, aer, sqMem, driver, untaken, running, finished, taking>>
            /\ flushing' = flushing
            /\ e.sqid = q /\ e.cmd = cmd /\ e.sqHead = sq'[q].head /\ cmd \in Cmd
            /\ Posts(c, e) /\ \A d \in Q : cq'[d].live = cq[d].live
<1> USE DEF ServiceInvariant, WorkInvariant, Inductive
<1>0. q \in Q
  BY Consts
<1> DEFINE h == Advanced(q)[q].head
           e == NewEntry(c, q, cmd, ok, h)
<1>1. /\ Fetch(q, cmd) /\ sq' = Advanced(q) /\ cq' = Posted(cq, c)
      /\ cqMem' = Written(cqMem, c, q, cmd, ok, h)
      /\ UNCHANGED <<en, aer, sqMem, driver, untaken, running, finished, taking>>
      /\ flushing' = flushing
  BY DEF FetchInline, FlushInline, regs, holder
<1>2. cq[c].live /\ Dist(cq[c].head, cq[c].tail, CqSize[c]) + 1 < CqSize[c]
  <2>1. HasSpace(c)
    BY <1>1 DEF Fetch
  <2>2. /\ Dist(cq[c].head, cq[c].tail, CqSize[c]) \in Nat /\ held[c] \in Nat
        /\ CqSize[c] \in Nat
    BY RingFacts, DistOnRing
  <2> QED BY <2>1, <2>2 DEF HasSpace
<1>3. gCqHead' = gCqHead
  BY <1>1 DEF driver
<1>4. e.sqid = q /\ e.cmd = cmd /\ e.sqHead = sq'[q].head /\ cmd \in Cmd
  BY <1>1 DEF NewEntry, Cmd
<1> HIDE DEF h
<1>5. Posts(c, e) /\ \A d \in Q : cq'[d].live = cq[d].live
  BY <1>1, <1>2, <1>3, PostsEntry
<1> QED BY <1>0, <1>1, <1>4, <1>5 DEF h

(* execute_io: the command is answered at once. *)
LEMMA ServiceInline ==
  ASSUME ServiceInvariant, Inductive', NEW q \in IoQ, NEW cmd \in IoCmd, NEW ok,
         FetchInline(q, cmd, ok)
  PROVE  ServiceParts' /\ AnsweredOnce'
<1> USE DEF ServiceInvariant, WorkInvariant, Inductive
<1>0. q \in Q
  BY Consts
<1>c. PICK c \in Q : sq[q].cqid = c
  BY <1>0, SqFacts
<1> DEFINE e == NewEntry(c, q, cmd, ok, Advanced(q)[q].head)
<1>1. /\ Fetch(q, cmd) /\ sq' = Advanced(q)
      /\ UNCHANGED <<en, aer, sqMem, driver, untaken, running, finished, taking>>
      /\ flushing' = flushing
      /\ e.sqid = q /\ e.cmd = cmd /\ e.sqHead = sq'[q].head /\ cmd \in Cmd
      /\ Posts(c, e) /\ \A d \in Q : cq'[d].live = cq[d].live
  BY <1>c, InlineShape
<1>4. e.sqid = q /\ e.cmd = cmd /\ e.sqHead = sq'[q].head /\ cmd \in Cmd
  BY <1>1
<1>5. Posts(c, e) /\ \A d \in Q : cq'[d].live = cq[d].live
  BY <1>1
<1> HIDE DEF e
<1>6. Completes(q, c, e)
  BY <1>4, <1>5 DEF Completes
<1>7. /\ SqInOrder' /\ EntriesKnown' /\ ReportsTrue' /\ DriverKnows' /\ OneAtATime'
      /\ CreationsWait' /\ DeletionsWait'
      /\ \A p \in Q : sq'[p].live => sq[p].live
      /\ \A p \in Q, one \in Cmd :
           /\ Cardinality(Unfetched(p, one)') \in Nat
           /\ Cardinality(Unfetched(p, one)') = Cardinality(Unfetched(p, one))
                - (IF p = q /\ one = cmd THEN 1 ELSE 0)
  BY <1>1, <1>5, <1>6, <1>c, Fetched
<1>8. ASSUME NEW p \in Q, NEW one \in Cmd
      PROVE  /\ IsFiniteSet(Completions(p, one)')
             /\ Cardinality(Completions(p, one)')
                  = Cardinality(Completions(p, one)) + Match(e, p, one)
  <2>1. CqSize[c] \in Nat /\ IsFiniteSet(Completions(p, one))
    BY RingFacts DEF Counted
  <2> QED BY <1>5, <2>1, CompletionsGain
<1>9. Counted'
  BY <1>1, <1>8 DEF Counted, driver
<1>10. ASSUME NEW p \in Q, NEW one \in Cmd
       PROVE  Cardinality(Unfetched(p, one)') + Cardinality(Completions(p, one)') + Held(p, one)'
                = Cardinality(Unfetched(p, one)) + Cardinality(Completions(p, one))
                    + Held(p, one)
  <2>1. /\ Cardinality(Unfetched(p, one)) \in Nat /\ Cardinality(Completions(p, one)) \in Nat
        /\ Copies(untaken, p, one) \in Nat /\ Copies(running, p, one) \in Nat
        /\ Copies(flushing, p, one) \in Nat /\ Copies(finished, p, one) \in Nat
        /\ Copies(taking, p, one) \in Nat
    BY Numbers
  <2>2. /\ Match(e, p, one) = IF p = q /\ one = cmd THEN 1 ELSE 0
        /\ Match(e, p, one) \in Nat
    BY <1>4 DEF Match
  <2>3. Held(p, one)' = Held(p, one) /\ Held(p, one) \in Nat
    BY <1>1, <2>1 DEF Held, Copies
  <2>4. Cardinality(Unfetched(p, one)') = Cardinality(Unfetched(p, one)) - Match(e, p, one)
    BY <1>7, <2>2
  <2> QED BY <1>8, <2>1, <2>2, <2>3, <2>4
<1>11. AnsweredOnce'
  BY <1>1, <1>7, <1>9, <1>10, OnceMoved DEF driver
<1> QED BY <1>7, <1>9, <1>11 DEF ServiceParts

-----------------------------------------------------------------------------
(* Admin commands: what each does to the queue it names, and its answer *)

(* The answer goes to the admin ring, whatever the command did to a ring on
   which nothing is unread.                                                *)
LEMMA AnswerPosts ==
  ASSUME TypeOK, JobsAreIo, GuestBetween, HasSpace(0), NEW f \in CqRings, f[0] = cq[0],
         NEW m, DOMAIN m = Q, m[0] = cqMem[0], NEW cmd, NEW ok, Answer(f, m, cmd, ok),
         gCqHead'[0] = gCqHead[0],
         \A d \in IoQ :
           \/ f[d] = cq[d] /\ m[d] = cqMem[d] /\ gCqHead'[d] = gCqHead[d]
           \/ Unread(d) = {} /\ (~f[d].live \/ (f[d] = NewCq /\ gCqHead'[d] = 0))
  PROVE  /\ Posts(0, NewEntry(0, 0, cmd, ok, Advanced(0)[0].head))
         /\ \A d \in Q : cq'[d].live = f[d].live
<1> DEFINE e == NewEntry(0, 0, cmd, ok, Advanced(0)[0].head)
<1>0. 0 \in Q /\ cq \in CqRings
  BY Consts DEF TypeOK, RingsOK
<1>1. cq' = Posted(f, 0) /\ cqMem' = Written(m, 0, 0, cmd, ok, Advanced(0)[0].head)
  BY DEF Answer
<1>2. /\ cqMem'[0] = [cqMem[0] EXCEPT ![cq[0].tail] = e]
      /\ \A d \in IoQ : cqMem'[d] = m[d]
  BY <1>0, <1>1, Consts DEF Written, NewEntry
<1>3. /\ \A d \in Q : cq'[d].live = f[d].live /\ (d # 0 => cq'[d] = f[d])
      /\ cq'[0] = Posted(cq, 0)[0]
  <2>1. Posted(f, 0)[0] = Posted(cq, 0)[0]
    BY <1>0 DEF Posted, CqRings
  <2> QED BY <1>0, <1>1, <2>1, PostedAt
<1> HIDE DEF e
<1>4. ASSUME NEW d \in Q \ {0}
      PROVE  SameEntries(d)
  <2>1. d \in IoQ /\ cq'[d] = f[d] /\ cqMem'[d] = m[d]
    BY <1>2, <1>3 DEF Q
  <2>2. CASE f[d] = cq[d] /\ m[d] = cqMem[d] /\ gCqHead'[d] = gCqHead[d]
    BY <2>1, <2>2, EntriesStay
  <2>3. CASE Unread(d) = {} /\ ~f[d].live
    <3>1. Unread(d)' = {}
      BY <2>1, <2>3 DEF Unread
    <3> QED BY <2>3, <3>1 DEF SameEntries
  <2>4. CASE Unread(d) = {} /\ f[d] = NewCq /\ gCqHead'[d] = 0
    <3>1. Unread(d)' = Between(0, 0, CqSize[d])
      BY <2>1, <2>4 DEF Unread, Unreaped, NewCq
    <3>2. Between(0, 0, CqSize[d]) = {}
      BY DEF Between
    <3> QED BY <2>4, <3>1, <3>2 DEF SameEntries
  <2> QED BY <2>1, <2>2, <2>3, <2>4
<1>5. cq[0].live /\ Dist(cq[0].head, cq[0].tail, CqSize[0]) + 1 < CqSize[0]
  <2>1. /\ Dist(cq[0].head, cq[0].tail, CqSize[0]) \in Nat /\ held[0] \in Nat
        /\ CqSize[0] \in Nat
    BY <1>0, RingFacts, DistOnRing
  <2> QED BY <2>1 DEF HasSpace
<1>6. Posts(0, e)
  BY <1>0, <1>2, <1>3, <1>4, <1>5, EntriesPosted
<1> QED BY <1>3, <1>6 DEF e

(* A submission queue a step leaves alone. *)
KeepsSq(q) == /\ sq'[q] = sq[q] /\ sqMem'[q] = sqMem[q] /\ gTail'[q] = gTail[q]
              /\ gSqHead'[q] = gSqHead[q]

(* What an admin command does to queues, other than the admin queue. *)
AdminEffect(cmd, ok) ==
  /\ \A q \in Q : q # cmd.q => cq'[q].live = cq[q].live
  /\ \A q \in IoQ : q # cmd.q => KeepsSq(q)
  /\ \/ /\ KeepsSq(cmd.q) /\ cq'[cmd.q].live = cq[cmd.q].live
        /\ ok => cmd.op \notin CqOps \cup SqOps
     \/ /\ ok /\ cmd.op = "createCq"
        /\ KeepsSq(cmd.q) /\ ~cq[cmd.q].live /\ cq'[cmd.q].live
     \/ /\ ok /\ cmd.op = "deleteCq"
        /\ KeepsSq(cmd.q) /\ cq[cmd.q].live /\ ~cq'[cmd.q].live
     \/ /\ ok /\ cmd.op = "createSq"
        /\ cq'[cmd.q].live = cq[cmd.q].live /\ ~sq[cmd.q].live
        /\ sq'[cmd.q] = NewSq(cmd.cq) /\ cmd.cq \in IoQ
        /\ gTail'[cmd.q] = 0 /\ gSqHead'[cmd.q] = 0
     \/ /\ ok /\ cmd.op = "deleteSq"
        /\ cq'[cmd.q].live = cq[cmd.q].live /\ sq[cmd.q].live /\ ~sq'[cmd.q].live
        /\ gTail' = gTail /\ gSqHead' = gSqHead

(* What it does to the admin queue, and its answer, which an accepted AER does
   not get yet.                                                            *)
AdminOutcome(cmd) ==
  /\ sq'[0].live = sq[0].live /\ sq'[0].cqid = sq[0].cqid /\ sq'[0].tail = sq[0].tail
  /\ sq'[0].head = Succ(sq[0].head, SqSize[0])
  /\ sqMem'[0] = sqMem[0] /\ gTail'[0] = gTail[0] /\ gSqHead'[0] = gSqHead[0]
  /\ \/ /\ cmd.op = "aer" /\ aer' = aer + 1 /\ AdminEffect(cmd, FALSE)
        /\ \A d \in Q : SameEntries(d)
     \/ \E ok \in BOOLEAN :
          /\ aer' = aer /\ AdminEffect(cmd, ok)
          /\ Posts(0, NewEntry(0, 0, cmd, ok, sq'[0].head))

(* What is fetched is in the ring. *)
LEMMA AtHead ==
  ASSUME TypeOK, SqInOrder, NEW q \in Q, HasWork(q)
  PROVE  sq[q].head \in Unfetched(q, sqMem[q][sq[q].head])
<1> DEFINE n == SqSize[q]
           h == sq[q].head
           t == gTail[q]
<1>1. /\ n \in Nat \ {0} /\ h \in Nat /\ h < n /\ t \in Nat /\ t < n
      /\ sq[q].tail \in Nat /\ sq[q].tail < n /\ gSqHead[q] \in Nat /\ gSqHead[q] < n
  BY SqFacts
<1>2. /\ Past(q, h) \in Nat /\ Past(q, sq[q].tail) \in Nat /\ Past(q, t) \in Nat
  BY <1>1, DistOnRing DEF Past
<1>3. Past(q, h) < Past(q, t)
  <2>1. Past(q, h) + 1 <= Past(q, sq[q].tail)
    BY HeadAdvances
  <2>2. Past(q, sq[q].tail) <= Past(q, t)
    BY DEF HasWork, SqInOrder
  <2> QED BY <1>2, <2>1, <2>2
<1>4. h # t
  BY <1>2, <1>3
<1>5. Dist(h, h, n) = 0 /\ Dist(h, t, n) > 0 /\ h \in 0..n-1
  <2>1. Dist(h, t, n) > 0
    BY <1>1, <1>4, DistFromNext
  <2>2. Dist(h, h, n) = 0
    BY <1>1, DistOnRing
  <2> HIDE DEF h, t, n
  <2> QED BY <1>1, <2>1, <2>2
<1>6. sq[q].live
  BY DEF HasWork
<1> QED BY <1>5, <1>6, UnfetchedFacts

(* A completion queue is deleted only when the driver has read it: no queue
   that could have posted to it lives.                                     *)
LEMMA DeletedCqRead ==
  ASSUME ServiceInvariant, NEW cmd \in AdminCmd, Fetch(0, cmd), cmd.op = "deleteCq",
         cq[cmd.q].live, \A q \in Q : sq[q].live => sq[q].cqid # cmd.q
  PROVE  Unread(cmd.q) = {}
<1> USE DEF ServiceInvariant, WorkInvariant, Inductive
<1>0. 0 \in Q /\ cmd.q \in Q
  BY Commands, Consts
<1>1. sq[0].head \in Unfetched(0, cmd)
  BY <1>0, AtHead DEF Fetch
<1>2. ASSUME NEW k \in Unread(cmd.q)
      PROVE  FALSE
  <2>1. sq[cqMem[cmd.q][k].sqid].live
    BY <1>1, <1>2 DEF DeletionsWait
  <2>2. sq[cqMem[cmd.q][k].sqid].cqid = cmd.q
    BY <1>0, <2>1 DEF EntriesKnown, EntryKnown
  <2>3. cqMem[cmd.q][k].sqid \in Q
    BY <1>0, UnreadFacts DEF TypeOK, MemoryOK, Entry
  <2> QED BY <2>1, <2>2, <2>3
<1> QED BY <1>2

(* Unfolding the handlers once: whichever it is, and whether it succeeds. *)
LEMMA AdminShape ==
  ASSUME ServiceInvariant, NEW cmd \in AdminCmd, FetchAdmin(cmd)
  PROVE  AdminOutcome(cmd)
<1> USE DEF ServiceInvariant, WorkInvariant, Inductive
<1>0. /\ 0 \in Q /\ cmd.q \in Q /\ cmd.q \in IoQ /\ cmd.q # 0 /\ cmd.cq \in Q /\ IoQ \subseteq Q
      /\ 0 \notin IoQ /\ cq \in CqRings /\ sq \in SqRings /\ DOMAIN cqMem = Q
      /\ cmd.op \in AdminOps
  BY Commands, Consts DEF TypeOK, RingsOK, MemoryOK
<1>1. Fetch(0, cmd) /\ HasSpace(0)
  <2>1. Fetch(0, cmd) /\ HasWork(0) /\ sq[0].cqid = 0
    BY DEF FetchAdmin, Fetch, QueuesLinked
  <2> QED BY <2>1 DEF Fetch
<1>2. /\ \A q \in IoQ : Advanced(0)[q] = sq[q]
      /\ Advanced(0)[0].live = sq[0].live /\ Advanced(0)[0].cqid = sq[0].cqid
      /\ Advanced(0)[0].head = Succ(sq[0].head, SqSize[0])
      /\ Advanced(0)[0].tail = sq[0].tail /\ Advanced(0) \in SqRings
  <2>1. Advanced(0)[0].tail = sq[0].tail
    BY <1>0 DEF Advanced, SqRings
  <2>2. Advanced(0) \in SqRings
    BY <1>0, SqShapes DEF Advanced
  <2> QED BY <1>0, <2>1, <2>2, AdvancedAt
<1> DEFINE Admin0 == /\ sq'[0] = Advanced(0)[0] /\ sqMem'[0] = sqMem[0]
                     /\ gTail'[0] = gTail[0] /\ gSqHead'[0] = gSqHead[0]
           Answered(ok) == Posts(0, NewEntry(0, 0, cmd, ok, Advanced(0)[0].head))
<1>3. ASSUME Admin0,
             \/ /\ cmd.op = "aer" /\ aer' = aer + 1 /\ AdminEffect(cmd, FALSE)
                /\ \A d \in Q : SameEntries(d)
             \/ \E ok \in BOOLEAN : aer' = aer /\ AdminEffect(cmd, ok) /\ Answered(ok)
      PROVE  AdminOutcome(cmd)
  BY <1>2, <1>3 DEF AdminOutcome
<1>4. ASSUME NEW ok \in BOOLEAN, Answer(cq, cqMem, cmd, ok), UNCHANGED gCqHead
      PROVE  Answered(ok) /\ \A d \in Q : cq'[d].live = cq[d].live
  <2>1. \A d \in IoQ : cq[d] = cq[d] /\ cqMem[d] = cqMem[d] /\ gCqHead'[d] = gCqHead[d]
    BY <1>4
  <2> QED BY <1>0, <1>1, <1>4, <2>1, AnswerPosts
<1>5. ASSUME sq' = Advanced(0), UNCHANGED <<sqMem, gTail, gSqHead>>
      PROVE  Admin0 /\ \A q \in IoQ : KeepsSq(q)
  BY <1>2, <1>5 DEF KeepsSq
<1>6. ASSUME NEW ok \in BOOLEAN, ok => cmd.op \notin CqOps \cup SqOps,
             Answer(cq, cqMem, cmd, ok), sq' = Advanced(0),
             UNCHANGED <<aer, sqMem, gTail, gSqHead, gCqHead>>
      PROVE  AdminOutcome(cmd)
  <2>1. Answered(ok) /\ \A d \in Q : cq'[d].live = cq[d].live
    BY <1>4, <1>6
  <2>2. Admin0 /\ \A q \in IoQ : KeepsSq(q)
    BY <1>5, <1>6
  <2>3. AdminEffect(cmd, ok)
    BY <1>0, <1>6, <2>1, <2>2 DEF AdminEffect
  <2> HIDE DEF Answered, Admin0
  <2> QED BY <1>3, <1>6, <2>1, <2>2, <2>3
<1>7. CASE CreateCq(cmd)
  <2>1. CASE cq[cmd.q].live
    <3>1. /\ Answer(cq, cqMem, cmd, FALSE) /\ sq' = Advanced(0)
          /\ UNCHANGED <<aer, sqMem, gTail, gSqHead, gCqHead>>
      BY <1>7, <2>1 DEF CreateCq
    <3> QED BY <1>6, <3>1
  <2>2. CASE ~cq[cmd.q].live
    <3> DEFINE f == [cq EXCEPT ![cmd.q] = NewCq]
               m == ZeroedCq(cmd.q)
    <3>1. /\ Answer(f, m, cmd, TRUE) /\ sq' = Advanced(0) /\ cmd.op = "createCq"
          /\ gCqHead' = [gCqHead EXCEPT ![cmd.q] = 0]
          /\ UNCHANGED <<aer, sqMem, gTail, gSqHead>>
      BY <1>7, <2>2 DEF CreateCq, FreshCq
    <3>2. /\ f \in CqRings /\ f[0] = cq[0] /\ f[cmd.q] = NewCq
          /\ \A d \in IoQ : d # cmd.q => f[d] = cq[d]
      BY <1>0, CqShapes DEF CqRings
    <3>3. /\ DOMAIN m = Q /\ m[0] = cqMem[0] /\ \A d \in IoQ : d # cmd.q => m[d] = cqMem[d]
      BY <1>0 DEF ZeroedCq
    <3>4. /\ gCqHead'[cmd.q] = 0 /\ gCqHead'[0] = gCqHead[0]
          /\ \A d \in IoQ : d # cmd.q => gCqHead'[d] = gCqHead[d]
      BY <1>0, <3>1 DEF TypeOK, DriverOK
    <3>5. Unread(cmd.q) = {}
      BY <2>2 DEF Unread
    <3> HIDE DEF f, m
    <3>6. \A d \in IoQ :
           \/ f[d] = cq[d] /\ m[d] = cqMem[d] /\ gCqHead'[d] = gCqHead[d]
           \/ Unread(d) = {} /\ (~f[d].live \/ (f[d] = NewCq /\ gCqHead'[d] = 0))
      BY <3>2, <3>3, <3>4, <3>5
    <3>a. /\ Answer(f, m, cmd, TRUE) /\ f \in CqRings /\ f[0] = cq[0]
          /\ DOMAIN m = Q /\ m[0] = cqMem[0] /\ gCqHead'[0] = gCqHead[0]
      BY <3>1, <3>2, <3>3, <3>4
    <3>7. Answered(TRUE) /\ \A d \in Q : cq'[d].live = f[d].live
      BY <1>1, <3>a, <3>6, AnswerPosts
    <3>8. Admin0 /\ \A q \in IoQ : KeepsSq(q)
      BY <1>5, <3>1
    <3>9. AdminEffect(cmd, TRUE)
      <4>1. /\ cq'[cmd.q].live /\ \A d \in Q : d # cmd.q => cq'[d].live = cq[d].live
        <5>1. cmd.q \in Q /\ f[cmd.q].live
          BY <1>0, <3>2 DEF NewCq
        <5>2. \A d \in Q : d # cmd.q => f[d] = cq[d]
          BY <3>2 DEF Q
        <5> QED BY <3>7, <5>1, <5>2
      <4> QED BY <1>0, <2>2, <3>1, <3>8, <4>1 DEF AdminEffect
    <3> HIDE DEF Answered, Admin0
    <3> QED BY <1>3, <3>1, <3>7, <3>8, <3>9
  <2> QED BY <2>1, <2>2
<1>8. CASE DeleteCq(cmd)
  <2> DEFINE ok == cq[cmd.q].live /\ \A q \in Q : sq[q].live => sq[q].cqid # cmd.q
  <2>1. CASE ~ok
    <3>1. /\ Answer(cq, cqMem, cmd, FALSE) /\ sq' = Advanced(0)
          /\ UNCHANGED <<aer, sqMem, gTail, gSqHead, gCqHead>>
      BY <1>8, <2>1 DEF DeleteCq
    <3> QED BY <1>6, <3>1
  <2>2. CASE ok
    <3> DEFINE f == [cq EXCEPT ![cmd.q] = NoCq]
    <3>1. /\ Answer(f, cqMem, cmd, TRUE) /\ sq' = Advanced(0) /\ cmd.op = "deleteCq"
          /\ UNCHANGED <<aer, sqMem, gTail, gSqHead, gCqHead>>
      BY <1>8, <2>2 DEF DeleteCq
    <3>2. /\ f \in CqRings /\ f[0] = cq[0] /\ ~f[cmd.q].live
          /\ \A d \in IoQ : d # cmd.q => f[d] = cq[d]
      BY <1>0, CqShapes DEF CqRings, NoCq
    <3>5. Unread(cmd.q) = {}
      BY <1>1, <2>2, <3>1, DeletedCqRead
    <3>6. \A d \in IoQ :
           \/ f[d] = cq[d] /\ cqMem[d] = cqMem[d] /\ gCqHead'[d] = gCqHead[d]
           \/ Unread(d) = {} /\ (~f[d].live \/ (f[d] = NewCq /\ gCqHead'[d] = 0))
      BY <3>1, <3>2, <3>5
    <3> HIDE DEF f
    <3>7. Answered(TRUE) /\ \A d \in Q : cq'[d].live = f[d].live
      BY <1>0, <1>1, <3>1, <3>2, <3>6, AnswerPosts
    <3>8. Admin0 /\ \A q \in IoQ : KeepsSq(q)
      BY <1>5, <3>1
    <3>9. AdminEffect(cmd, TRUE)
      BY <1>0, <2>2, <3>1, <3>2, <3>7, <3>8 DEF AdminEffect, Q
    <3> HIDE DEF Answered, Admin0
    <3> QED BY <1>3, <3>1, <3>7, <3>8, <3>9
  <2> QED BY <2>1, <2>2
<1>9. CASE CreateSq(cmd)
  <2> DEFINE ok == cmd.cq # 0 /\ cq[cmd.cq].live /\ ~sq[cmd.q].live
  <2>1. CASE ~ok
    <3>1. /\ Answer(cq, cqMem, cmd, FALSE) /\ sq' = Advanced(0)
          /\ UNCHANGED <<aer, sqMem, gTail, gSqHead, gCqHead>>
      BY <1>9, <2>1 DEF CreateSq
    <3> QED BY <1>6, <3>1
  <2>2. CASE ok
    <3>1. /\ Answer(cq, cqMem, cmd, TRUE) /\ sq' = [Advanced(0) EXCEPT ![cmd.q] = NewSq(cmd.cq)]
          /\ FreshSq(cmd.q) /\ UNCHANGED <<aer, gCqHead>> /\ cmd.op = "createSq"
      BY <1>9, <2>2 DEF CreateSq
    <3>2. Answered(TRUE) /\ \A d \in Q : cq'[d].live = cq[d].live
      BY <1>4, <3>1
    <3>3. /\ sq'[cmd.q] = NewSq(cmd.cq) /\ sq'[0] = Advanced(0)[0]
          /\ \A q \in IoQ : q # cmd.q => sq'[q] = sq[q]
      BY <1>0, <1>2, <3>1 DEF SqRings
    <3>4. /\ gTail'[cmd.q] = 0 /\ gSqHead'[cmd.q] = 0 /\ gTail'[0] = gTail[0]
          /\ gSqHead'[0] = gSqHead[0] /\ sqMem'[0] = sqMem[0]
          /\ \A q \in IoQ : q # cmd.q => /\ sqMem'[q] = sqMem[q] /\ gTail'[q] = gTail[q]
                                         /\ gSqHead'[q] = gSqHead[q]
      BY <1>0, <3>1 DEF FreshSq, TypeOK, DriverOK, MemoryOK
    <3>5. cmd.cq \in IoQ
      BY <1>0, <2>2 DEF Q
    <3>6. AdminEffect(cmd, TRUE)
      BY <1>0, <2>2, <3>1, <3>2, <3>3, <3>4, <3>5 DEF AdminEffect, KeepsSq
    <3> HIDE DEF Answered
    <3> QED BY <1>3, <3>1, <3>2, <3>3, <3>4, <3>6
  <2> QED BY <2>1, <2>2
<1>10. CASE DeleteSq(cmd)
  <2>1. CASE ~sq[cmd.q].live
    <3>0. sq[cmd.q].live = FALSE
      BY <1>0, <2>1, SqFacts
    <3>1. /\ Answer(cq, cqMem, cmd, FALSE) /\ sq' = Advanced(0)
          /\ UNCHANGED <<aer, sqMem, gTail, gSqHead, gCqHead>>
      BY <1>10, <3>0 DEF DeleteSq
    <3> QED BY <1>6, <3>1
  <2>2. CASE sq[cmd.q].live
    <3>1. /\ Answer(cq, cqMem, cmd, TRUE) /\ sq' = [Advanced(0) EXCEPT ![cmd.q] = NoSq]
          /\ UNCHANGED <<aer, sqMem, gTail, gSqHead, gCqHead>> /\ cmd.op = "deleteSq"
      BY <1>10, <2>2 DEF DeleteSq
    <3>2. Answered(TRUE) /\ \A d \in Q : cq'[d].live = cq[d].live
      BY <1>4, <3>1
    <3>3. /\ ~sq'[cmd.q].live /\ sq'[0] = Advanced(0)[0]
          /\ \A q \in IoQ : q # cmd.q => sq'[q] = sq[q]
      BY <1>0, <1>2, <3>1 DEF SqRings, NoSq
    <3>4. AdminEffect(cmd, TRUE)
      BY <1>0, <2>2, <3>1, <3>2, <3>3 DEF AdminEffect, KeepsSq
    <3> HIDE DEF Answered
    <3> QED BY <1>3, <3>1, <3>2, <3>3, <3>4
  <2> QED BY <2>1, <2>2
<1>11. CASE OtherAdmin(cmd)
  <2>1. PICK ok \in BOOLEAN : Answer(cq, cqMem, cmd, ok)
    BY <1>11 DEF OtherAdmin
  <2>2. /\ sq' = Advanced(0) /\ UNCHANGED <<aer, sqMem, gTail, gSqHead, gCqHead>>
        /\ cmd.op \notin CqOps \cup SqOps
    BY <1>11 DEF OtherAdmin, CqOps, SqOps
  <2> QED BY <1>6, <2>1, <2>2
<1>12. CASE AsyncEvent(cmd)
  <2>1. CASE aer < AerLimit
    <3>1. /\ aer' = aer + 1 /\ sq' = Advanced(0) /\ cmd.op = "aer"
          /\ UNCHANGED <<cq, cqMem, sqMem, gTail, gSqHead, gCqHead>>
      BY <1>12, <2>1 DEF AsyncEvent
    <3>2. \A d \in Q : SameEntries(d)
      BY <3>1, EntriesStay
    <3>3. Admin0 /\ \A q \in IoQ : KeepsSq(q)
      BY <1>5, <3>1
    <3>4. AdminEffect(cmd, FALSE)
      BY <1>0, <3>1, <3>3 DEF AdminEffect
    <3> HIDE DEF Answered, Admin0
    <3> QED BY <1>3, <3>1, <3>2, <3>3, <3>4
  <2>2. CASE ~(aer < AerLimit)
    <3>1. /\ Answer(cq, cqMem, cmd, FALSE) /\ sq' = Advanced(0)
          /\ UNCHANGED <<aer, sqMem, gTail, gSqHead, gCqHead>>
      BY <1>12, <2>2 DEF AsyncEvent
    <3> QED BY <1>6, <3>1
  <2> QED BY <2>1, <2>2
<1> QED BY <1>7, <1>8, <1>9, <1>10, <1>11, <1>12 DEF FetchAdmin

(* What the steps of the proof need to know of a fetched admin command: it is
   nowhere else, no other command that creates or deletes the same queue is
   outstanding, and a queue it creates has no commands.                    *)
AdminFacts(cmd) ==
  /\ UNCHANGED <<en, pools, taking, open, gSq, gCq>>
  /\ en /\ sq[0].live /\ HasWork(0) /\ cmd = sqMem[0][sq[0].head]
  /\ cmd \in open[0] /\ sq[0].head \in Unfetched(0, cmd)
  /\ Completions(0, cmd) = {} /\ Places(0, cmd) = 1
  /\ Unfetched(0, cmd)' = {}
  /\ \A one : Unfetched(0, one)' = Unfetched(0, one) \ {sq[0].head}
  /\ \A one : Cardinality(Unfetched(0, one)')
                = Cardinality(Unfetched(0, one)) - (IF one = cmd THEN 1 ELSE 0)
  /\ \A a \in open[0] :
       /\ a.q = cmd.q /\ a.op \in CqOps /\ cmd.op \in CqOps => a = cmd
       /\ a.q = cmd.q /\ a.op \in SqOps /\ cmd.op \in SqOps => a = cmd
  /\ cmd.op = "createSq" => cmd.q \notin gSq /\ open[cmd.q] = {}
  /\ \A q \in Q : q # 0 => q \in IoQ

(* They hold of every admin command the drain fetches. *)
LEMMA AdminKnows ==
  ASSUME ServiceInvariant, Inductive', NEW cmd \in AdminCmd, FetchAdmin(cmd)
  PROVE  AdminFacts(cmd)
<1> USE DEF ServiceInvariant, WorkInvariant, Inductive
<1>0. /\ 0 \in Q /\ cmd.q \in Q /\ cmd.q \in IoQ /\ cmd \in Cmd
      /\ \A q \in Q : q # 0 => q \in IoQ
  BY Commands, Consts DEF Cmd, Q
<1>1. /\ UNCHANGED <<en, pools, taking, open, gSq, gCq>>
      /\ HasWork(0) /\ sq[0].live /\ cmd = sqMem[0][sq[0].head]
  BY DEF FetchAdmin, Fetch, HasWork, holder
<1>2. en
  BY <1>1 DEF QueuesLinked
<1>3. sq[0].head \in Unfetched(0, cmd)
  BY <1>0, <1>1, AtHead
<1>4. /\ cmd \in open[0] /\ Places(0, cmd) = 1 /\ Completions(0, cmd) = {}
      /\ Cardinality(Unfetched(0, cmd)) = 1
  BY <1>0, <1>3, OneUnfetched
<1>5. /\ sq'[0].live /\ sq'[0].head = Succ(sq[0].head, SqSize[0])
      /\ gTail'[0] = gTail[0] /\ sqMem'[0] = sqMem[0]
  BY <1>1, AdminShape DEF AdminOutcome
<1>6. /\ \A one : Unfetched(0, one)' = Unfetched(0, one) \ {sq[0].head}
      /\ \A one : Cardinality(Unfetched(0, one)')
                   = Cardinality(Unfetched(0, one)) - (IF one = cmd THEN 1 ELSE 0)
  <2> SUFFICES ASSUME NEW one
               PROVE  /\ Unfetched(0, one)' = Unfetched(0, one) \ {sq[0].head}
                      /\ Cardinality(Unfetched(0, one)')
                           = Cardinality(Unfetched(0, one)) - (IF one = cmd THEN 1 ELSE 0)
    OBVIOUS
  <2> QED BY <1>0, <1>1, <1>5, UnfetchedFetch
<1>7. Unfetched(0, cmd)' = {}
  <2>1. PICK x : Unfetched(0, cmd) = {x}
    BY <1>0, <1>4, UnfetchedFacts, FS_Singleton
  <2> QED BY <1>3, <1>6, <2>1
<1>8. ASSUME NEW a \in open[0]
      PROVE  /\ a.q = cmd.q /\ a.op \in CqOps /\ cmd.op \in CqOps => a = cmd
             /\ a.q = cmd.q /\ a.op \in SqOps /\ cmd.op \in SqOps => a = cmd
  BY <1>4 DEF OneAtATime
<1>9. cmd.op = "createSq" => cmd.q \notin gSq /\ open[cmd.q] = {}
  BY <1>0, <1>3 DEF CreationsWait, DriverKnows
<1> QED BY <1>0, <1>1, <1>2, <1>3, <1>4, <1>6, <1>7, <1>8, <1>9 DEF AdminFacts

(* The ring of every other queue holds what it held, but that of a queue
   deleted.                                                                *)
LEMMA AdminUnfetched ==
  ASSUME ServiceInvariant, NEW cmd \in AdminCmd, AdminOutcome(cmd),
         NEW q \in IoQ, NEW one
  PROVE  \/ Unfetched(q, one)' = Unfetched(q, one)
         \/ ~sq'[q].live /\ Unfetched(q, one)' = {}
<1> USE DEF ServiceInvariant, WorkInvariant, Inductive
<1>0. q \in Q /\ cmd.q \in IoQ
  BY Commands, Consts
<1>1. PICK ok : AdminEffect(cmd, ok)
  BY DEF AdminOutcome
<1>2. CASE KeepsSq(q)
  BY <1>0, <1>2, UnfetchedStay DEF KeepsSq
<1>3. CASE ~sq'[q].live
  BY <1>3 DEF Unfetched
<1>4. CASE q = cmd.q /\ ~sq[q].live /\ sq'[q] = NewSq(cmd.cq) /\ gTail'[q] = 0
  <2>1. Unfetched(q, one) = {}
    BY <1>4 DEF Unfetched
  <2>2. Between(0, 0, SqSize[q]) = {}
    BY DEF Between
  <2>3. Unfetched(q, one)' = {}
    BY <1>4, <2>2 DEF Unfetched, NewSq
  <2> QED BY <2>1, <2>3
<1> QED BY <1>0, <1>1, <1>2, <1>3, <1>4 DEF AdminEffect

(* Order on the submission rings. *)
LEMMA AdminOrder ==
  ASSUME ServiceInvariant, NEW cmd \in AdminCmd, AdminOutcome(cmd), AdminFacts(cmd)
  PROVE  SqInOrder'
<1> USE DEF ServiceInvariant, WorkInvariant, Inductive
<1>0. 0 \in Q /\ cmd.q \in IoQ /\ IoQ \subseteq Q
  BY Commands, Consts
<1>1. PICK ok : AdminEffect(cmd, ok)
  BY DEF AdminOutcome
<1> SUFFICES ASSUME NEW q \in Q, sq'[q].live
             PROVE  /\ Dist(gSqHead'[q], sq'[q].head, SqSize[q])
                         <= Dist(gSqHead'[q], sq'[q].tail, SqSize[q])
                    /\ Dist(gSqHead'[q], sq'[q].tail, SqSize[q])
                         <= Dist(gSqHead'[q], gTail'[q], SqSize[q])
  BY DEF SqInOrder, Past
<1>2. CASE q = 0
  <2>1. /\ Dist(gSqHead[0], Succ(sq[0].head, SqSize[0]), SqSize[0])
             = Dist(gSqHead[0], sq[0].head, SqSize[0]) + 1
        /\ Dist(gSqHead[0], sq[0].head, SqSize[0]) + 1
             <= Dist(gSqHead[0], sq[0].tail, SqSize[0])
    BY <1>0, HeadAdvances DEF AdminFacts, Past
  <2>2. Dist(gSqHead[0], sq[0].tail, SqSize[0]) <= Dist(gSqHead[0], gTail[0], SqSize[0])
    BY <1>0 DEF AdminFacts, SqInOrder, Past
  <2> QED BY <1>2, <2>1, <2>2 DEF AdminOutcome
<1>3. CASE KeepsSq(q)
  BY <1>3 DEF KeepsSq, SqInOrder, Past
<1>4. CASE sq'[q] = NewSq(cmd.cq) /\ gTail'[q] = 0 /\ gSqHead'[q] = 0
  <2>1. Dist(0, 0, SqSize[q]) = 0
    BY DEF Dist
  <2> QED BY <1>4, <2>1 DEF NewSq
<1>5. q # 0 => q \in IoQ
  BY DEF AdminFacts
<1> QED BY <1>1, <1>2, <1>3, <1>4, <1>5 DEF AdminEffect

(* The queues that live, and those an unread entry names. *)
LEMMA AdminQueues ==
  ASSUME ServiceInvariant, NEW cmd \in AdminCmd, AdminOutcome(cmd), AdminFacts(cmd),
         NEW q \in Q, open[q] # {}, sq'[q].live
  PROVE  /\ sq[q].live /\ sq'[q].cqid = sq[q].cqid /\ \A h : Past(q, h)' = Past(q, h)
         /\ sq'[q].head = IF q = 0 THEN Succ(sq[0].head, SqSize[0]) ELSE sq[q].head
<1>1. PICK ok : AdminEffect(cmd, ok)
  BY DEF AdminOutcome
<1>2. cmd.q \in IoQ /\ (q # 0 => q \in IoQ) /\ cmd.q # 0
  BY Commands, Consts DEF AdminFacts
<1>3. CASE q = 0
  BY <1>3 DEF AdminOutcome, Past, AdminFacts
<1>4. CASE q # 0 /\ KeepsSq(q)
  BY <1>4 DEF KeepsSq, Past
<1>5. CASE q = cmd.q /\ cmd.op = "createSq"
  BY <1>5 DEF AdminFacts
<1> QED BY <1>1, <1>2, <1>3, <1>4, <1>5 DEF AdminEffect

(* An unread entry is an old one, or the answer behind all others. *)
OldEntry(d, i) == /\ i \in Unread(d) /\ cqMem'[d][i] = cqMem[d][i]
                  /\ Ahead(d, i)' = Ahead(d, i)
AnswerAt(cmd, i) ==
  /\ cqMem'[0][i].sqid = 0 /\ cqMem'[0][i].cmd = cmd /\ cqMem'[0][i].sqHead = sq'[0].head
  /\ cqMem'[0][i].ok \in BOOLEAN /\ AdminEffect(cmd, cqMem'[0][i].ok)
  /\ \A k \in Unread(0)' : k = i \/ (OldEntry(0, k) /\ Ahead(0, k)' < Ahead(0, i)')

(* An admin command adds its answer at most, and changes no other entry. *)
LEMMA AdminEntries ==
  ASSUME ServiceInvariant, NEW cmd \in AdminCmd, AdminOutcome(cmd)
  PROVE  /\ \A d \in Q : Unread(d) \subseteq Unread(d)' /\ \A i \in Unread(d) : OldEntry(d, i)
         /\ \A d \in Q : \A i \in Unread(d)' : OldEntry(d, i) \/ (d = 0 /\ AnswerAt(cmd, i))
         /\ \/ \E i \in Unread(0)' : AnswerAt(cmd, i)
            \/ AdminEffect(cmd, FALSE)
<1> USE DEF ServiceInvariant, WorkInvariant, Inductive
<1>0. 0 \in Q
  BY Consts
<1>1. CASE AdminEffect(cmd, FALSE) /\ \A d \in Q : SameEntries(d)
  BY <1>1 DEF SameEntries, OldEntry
<1>2. ASSUME NEW ok \in BOOLEAN, AdminEffect(cmd, ok),
             Posts(0, NewEntry(0, 0, cmd, ok, sq'[0].head))
      PROVE  /\ \A d \in Q : Unread(d) \subseteq Unread(d)' /\ \A i \in Unread(d) : OldEntry(d, i)
             /\ \A d \in Q : \A i \in Unread(d)' : OldEntry(d, i) \/ (d = 0 /\ AnswerAt(cmd, i))
             /\ \E i \in Unread(0)' : AnswerAt(cmd, i)
  <2> DEFINE e == NewEntry(0, 0, cmd, ok, sq'[0].head)
  <2>1. /\ e.sqid = 0 /\ e.cmd = cmd /\ e.sqHead = sq'[0].head /\ e.ok = ok
    BY DEF NewEntry
  <2>2. Posts(0, e)
    BY <1>2
  <2> HIDE DEF e
  <2>3. PICK t : t = cq[0].tail
    OBVIOUS
  <2>4. /\ t \notin Unread(0) /\ Unread(0)' = Unread(0) \cup {t} /\ cqMem'[0][t] = e
        /\ \A i \in Unread(0) : /\ cqMem'[0][i] = cqMem[0][i] /\ Ahead(0, i)' = Ahead(0, i)
                                /\ Ahead(0, i) < Ahead(0, t)
        /\ Ahead(0, t)' = Ahead(0, t)
    BY <2>2, <2>3 DEF Posts
  <2>5. \A d \in Q \ {0} : SameEntries(d)
    BY <2>2 DEF Posts
  <2>6. /\ \A i \in Unread(0) : OldEntry(0, i)
        /\ \A d \in Q \ {0} : Unread(d)' = Unread(d) /\ \A i \in Unread(d) : OldEntry(d, i)
    BY <2>4, <2>5 DEF OldEntry, SameEntries
  <2>7. AnswerAt(cmd, t)
    BY <1>2, <2>1, <2>4, <2>6 DEF AnswerAt
  <2>8. \A d \in Q : Unread(d) \subseteq Unread(d)' /\ \A i \in Unread(d) : OldEntry(d, i)
    BY <2>4, <2>6
  <2>9. ASSUME NEW d \in Q, NEW i \in Unread(d)'
        PROVE  OldEntry(d, i) \/ (d = 0 /\ AnswerAt(cmd, i))
    BY <2>4, <2>6, <2>7
  <2> QED BY <2>4, <2>7, <2>8, <2>9
<1> QED BY <1>1, <1>2 DEF AdminOutcome

(* What entries say of their queues. *)
LEMMA AdminKnown ==
  ASSUME ServiceInvariant, NEW cmd \in AdminCmd, AdminOutcome(cmd), AdminFacts(cmd), TypeOK'
  PROVE  EntriesKnown'
<1> USE DEF ServiceInvariant, WorkInvariant, Inductive
<1>0. 0 \in Q /\ cmd \in Cmd
  BY Consts DEF Cmd
<1> SUFFICES ASSUME NEW d \in Q, NEW i \in Unread(d)'
             PROVE  EntryKnown(d, i)'
  BY DEF EntriesKnown
<1>1. \A c \in Q : \A j \in Unread(c)' : OldEntry(c, j) \/ (c = 0 /\ AnswerAt(cmd, j))
  BY AdminEntries
<1>2. gCq' = gCq
  BY DEF AdminFacts
<1>nat. \A p \in Q : \A h \in Nat : Past(p, h) \in Int /\ Past(p, h)' \in Int
  <2>1. \A p \in Q : /\ SqSize[p] \in Nat \ {0} /\ gSqHead[p] \in Nat /\ gSqHead'[p] \in Nat
    BY SqFacts DEF TypeOK, DriverOK
  <2> QED BY <2>1 DEF Past, Dist
<1>zero. /\ Past(0, Succ(sq[0].head, SqSize[0])) = Past(0, sq[0].head) + 1
         /\ sq'[0].head = Succ(sq[0].head, SqSize[0]) /\ sq[0].head \in Nat /\ sq'[0].head \in Nat
         /\ \A h : Past(0, h)' = Past(0, h)
  <2>1. sq[0].head \in Nat /\ sq'[0].head \in Nat
    BY <1>0, SqFacts DEF TypeOK, RingsOK, SqRings
  <2> QED BY <1>0, <2>1, HeadAdvances DEF AdminFacts, AdminOutcome, Past
<1>3. CASE OldEntry(d, i)
  <2>1. PICK f : f = cqMem[d][i]
    OBVIOUS
  <2>2. /\ EntryKnown(d, i) /\ cqMem'[d][i] = f /\ i \in Unread(d)
        /\ f.sqid \in Q /\ f.sqHead \in Nat /\ open[f.sqid] # {}
    <3>1. i \in Unread(d) /\ cqMem'[d][i] = f
      BY <1>3, <2>1 DEF OldEntry
    <3>2. f.sqid \in Q /\ f.cmd \in open[f.sqid]
      BY <2>1, <3>1, OneCompletion
    <3>3. f.sqHead \in Nat
      BY <2>1, <3>1, UnreadFacts DEF TypeOK, MemoryOK, Entry
    <3> QED BY <3>1, <3>2, <3>3 DEF EntriesKnown
  <2>3. /\ f.cmd \in Cmd /\ (f.sqid = 0 <=> d = 0) /\ (d = 0 => f.cmd \in AdminCmd)
        /\ d # 0 => d \in gCq
    BY <2>1, <2>2 DEF EntryKnown
  <2>4. ASSUME sq'[f.sqid].live
        PROVE  /\ sq'[f.sqid].cqid = d
               /\ Past(f.sqid, f.sqHead)' <= Past(f.sqid, sq[f.sqid].head)'
               /\ \A k \in Unread(d)' :
                    cqMem'[d][k].sqid = f.sqid /\ Ahead(d, i)' <= Ahead(d, k)'
                      => Past(f.sqid, f.sqHead)' <= Past(f.sqid, cqMem[d][k].sqHead)'
    <3>1. /\ sq[f.sqid].live /\ sq'[f.sqid].cqid = sq[f.sqid].cqid
          /\ \A h : Past(f.sqid, h)' = Past(f.sqid, h)
          /\ sq'[f.sqid].head = IF f.sqid = 0 THEN Succ(sq[0].head, SqSize[0])
                                               ELSE sq[f.sqid].head
      BY <2>2, <2>4, AdminQueues
    <3>2. /\ sq[f.sqid].cqid = d
          /\ Past(f.sqid, f.sqHead) <= Past(f.sqid, sq[f.sqid].head)
          /\ \A k \in Unread(d) : cqMem[d][k].sqid = f.sqid /\ Ahead(d, i) <= Ahead(d, k)
               => Past(f.sqid, f.sqHead) <= Past(f.sqid, cqMem[d][k].sqHead)
      BY <2>1, <2>2, <3>1 DEF EntryKnown
    <3>3. Past(f.sqid, f.sqHead)' = Past(f.sqid, f.sqHead)
      BY <3>1
    <3>4. Past(f.sqid, sq[f.sqid].head)' = Past(f.sqid, sq'[f.sqid].head)
      BY <3>1 DEF Past
    <3>5. Past(f.sqid, f.sqHead) <= Past(f.sqid, sq'[f.sqid].head)
      <4>1. CASE f.sqid = 0
        <5>1. Past(0, f.sqHead) <= Past(0, sq[0].head)
          BY <3>2, <4>1
        <5>2. Past(0, f.sqHead) \in Int /\ Past(0, sq[0].head) \in Int
          BY <1>0, <1>nat, <1>zero, <2>2
        <5>3. Past(0, sq'[0].head) = Past(0, sq[0].head) + 1
          BY <1>zero
        <5> QED BY <4>1, <5>1, <5>2, <5>3
      <4>2. CASE f.sqid # 0
        BY <3>1, <3>2, <4>2
      <4> QED BY <4>1, <4>2
    <3>6. ASSUME NEW k \in Unread(d)', cqMem'[d][k].sqid = f.sqid, Ahead(d, i)' <= Ahead(d, k)'
          PROVE  Past(f.sqid, f.sqHead)' <= Past(f.sqid, cqMem[d][k].sqHead)'
      <4>1. Past(f.sqid, cqMem[d][k].sqHead)' = Past(f.sqid, cqMem'[d][k].sqHead)
        BY <3>1 DEF Past
      <4>2. CASE OldEntry(d, k)
        BY <1>3, <3>2, <3>3, <3>6, <4>1, <4>2 DEF OldEntry
      <4>3. CASE AnswerAt(cmd, k) /\ d = 0
        <5>1. cqMem'[d][k].sqHead = sq'[f.sqid].head
          BY <3>6, <4>3 DEF AnswerAt
        <5> QED BY <3>3, <3>5, <4>1, <5>1
      <4> QED BY <1>1, <4>2, <4>3
    <3> QED BY <3>1, <3>2, <3>3, <3>4, <3>5, <3>6
  <2>5. EntryKnown(d, i)' =
         (/\ f.cmd \in Cmd /\ (f.sqid = 0 <=> d = 0)
          /\ d = 0 => f.cmd \in AdminCmd
          /\ d # 0 => d \in gCq'
          /\ sq'[f.sqid].live =>
             /\ sq'[f.sqid].cqid = d
             /\ Past(f.sqid, f.sqHead)' <= Past(f.sqid, sq[f.sqid].head)'
             /\ \A k \in Unread(d)' :
                  cqMem'[d][k].sqid = f.sqid /\ Ahead(d, i)' <= Ahead(d, k)'
                    => Past(f.sqid, f.sqHead)' <= Past(f.sqid, cqMem[d][k].sqHead)')
    BY <2>2 DEF EntryKnown
  <2> QED BY <1>2, <2>3, <2>4, <2>5
<1>4. CASE d = 0 /\ AnswerAt(cmd, i)
  <2>1. /\ cqMem'[0][i].sqid = 0 /\ cqMem'[0][i].cmd = cmd /\ cqMem'[0][i].sqHead = sq'[0].head
        /\ \A k \in Unread(0)' : k = i \/ Ahead(0, k)' < Ahead(0, i)'
    BY <1>4 DEF AnswerAt
  <2>2. sq'[0].cqid = 0
    BY DEF QueuesLinked, AdminOutcome
  <2>3. Past(0, sq[0].head)' \in Int
    BY <1>0, <1>nat, <1>zero DEF Past
  <2>4. \A k \in Unread(0)' : Ahead(0, k)' \in Int
    <3>1. \A k \in Unread(0)' : k \in Int
      BY <1>0, Consts DEF Unread, Unreaped, Between
    <3>2. gCqHead'[0] \in Nat /\ CqSize[0] \in Nat
      BY <1>0, Consts DEF TypeOK, DriverOK
    <3> QED BY <3>1, <3>2 DEF Ahead, Dist
  <2>5. \A k \in Unread(0)' : Ahead(0, i)' <= Ahead(0, k)' => k = i
    BY <1>4, <2>1, <2>4
  <2> QED BY <1>0, <1>4, <2>1, <2>2, <2>3, <2>5 DEF EntryKnown
<1> QED BY <1>1, <1>3, <1>4

(* What successful answers report, and the queues the driver knows. *)
LEMMA AdminReports ==
  ASSUME ServiceInvariant, NEW cmd \in AdminCmd, AdminOutcome(cmd), AdminFacts(cmd)
  PROVE  ReportsTrue' /\ DriverKnows'
<1> USE DEF ServiceInvariant, WorkInvariant, Inductive
<1>0. /\ 0 \in Q /\ cmd.q \in IoQ /\ IoQ \subseteq Q /\ 0 \notin IoQ
  BY Commands, Consts
<1>old. /\ Unread(0) \subseteq Unread(0)' /\ \A i \in Unread(0) : OldEntry(0, i)
        /\ \A i \in Unread(0)' : OldEntry(0, i) \/ AnswerAt(cmd, i)
        /\ (\E i \in Unread(0)' : AnswerAt(cmd, i)) \/ AdminEffect(cmd, FALSE)
  BY <1>0, AdminEntries
<1>other. ASSUME NEW i \in Unread(0), NEW op, NEW q \in IoQ, Reports(i, op, q)
          PROVE  /\ q = cmd.q => ~(op \in CqOps /\ cmd.op \in CqOps)
                 /\ q = cmd.q => ~(op \in SqOps /\ cmd.op \in SqOps)
                 /\ cqMem[0][i].cmd \in AdminCmd
  <2> PICK f : f = cqMem[0][i]
    OBVIOUS
  <2>1. /\ f.sqid \in Q /\ f.cmd \in open[f.sqid] /\ Completions(f.sqid, f.cmd) = {<<0, i>>}
    BY <1>0, OneCompletion
  <2>2. f.sqid = 0 /\ f.cmd \in AdminCmd
    BY <1>0 DEF EntriesKnown, EntryKnown
  <2>3. f.cmd # cmd
    BY <2>1, <2>2 DEF AdminFacts
  <2>4. f.cmd.op = op /\ f.cmd.q = q
    BY <1>other DEF Reports
  <2> QED BY <2>1, <2>2, <2>3, <2>4 DEF AdminFacts
<1>kept. ASSUME NEW q \in IoQ
         PROVE  /\ ~(q = cmd.q /\ cmd.op \in CqOps) => cq'[q].live = cq[q].live
                /\ ~(q = cmd.q /\ cmd.op \in SqOps) => sq'[q] = sq[q]
  <2>1. PICK ok : AdminEffect(cmd, ok)
    BY DEF AdminOutcome
  <2> QED BY <1>0, <2>1 DEF AdminEffect, KeepsSq, CqOps, SqOps
<1>lives. ASSUME NEW q \in IoQ, sq[q].live
          PROVE  sq[q].cqid \in IoQ /\ cq[sq[q].cqid].live
  <2>1. WorkMarked(q)
    BY <1>0
  <2> QED BY <1>lives, <2>1 DEF WorkMarked, QueuesLinked
<1>1. ReportsTrue'
  <2> SUFFICES ASSUME NEW i \in Unread(0)', NEW q \in IoQ
               PROVE  /\ Reports(i, "createCq", q)' => cq'[q].live
                      /\ Reports(i, "deleteCq", q)' => ~cq'[q].live
                      /\ Reports(i, "deleteSq", q)' => ~sq'[q].live
                      /\ Reports(i, "createSq", q)' =>
                           /\ sq'[q].live /\ sq'[q].cqid = cqMem'[0][i].cmd.cq
                           /\ \A k \in Unread(0)' : Reports(k, "createCq", cqMem[0][i].cmd.cq)'
                                                     => Ahead(0, k)' < Ahead(0, i)'
    BY DEF ReportsTrue
  <2>1. CASE OldEntry(0, i)
    <3>1. i \in Unread(0) /\ cqMem'[0][i] = cqMem[0][i] /\ Ahead(0, i)' = Ahead(0, i)
      BY <2>1 DEF OldEntry
    <3>2. \A op : Reports(i, op, q)' <=> Reports(i, op, q)
      BY <3>1 DEF Reports
    <3>3. /\ Reports(i, "createCq", q) => cq[q].live
          /\ Reports(i, "deleteCq", q) => ~cq[q].live
          /\ Reports(i, "deleteSq", q) => ~sq[q].live
          /\ Reports(i, "createSq", q) =>
               /\ sq[q].live /\ sq[q].cqid = cqMem[0][i].cmd.cq
               /\ \A k \in Unread(0) : Reports(k, "createCq", cqMem[0][i].cmd.cq)
                                         => Ahead(0, k) < Ahead(0, i)
      BY <3>1 DEF ReportsTrue
    <3>4. Reports(i, "createCq", q)' => cq'[q].live
      BY <1>other, <1>kept, <3>1, <3>2, <3>3 DEF CqOps
    <3>5. Reports(i, "deleteCq", q)' => ~cq'[q].live
      BY <1>other, <1>kept, <3>1, <3>2, <3>3 DEF CqOps
    <3>6. Reports(i, "deleteSq", q)' => ~sq'[q].live
      BY <1>other, <1>kept, <3>1, <3>2, <3>3 DEF SqOps
    <3>7. ASSUME Reports(i, "createSq", q)'
          PROVE  /\ sq'[q].live /\ sq'[q].cqid = cqMem'[0][i].cmd.cq
                 /\ \A k \in Unread(0)' : Reports(k, "createCq", cqMem[0][i].cmd.cq)'
                                           => Ahead(0, k)' < Ahead(0, i)'
      <4>1. Reports(i, "createSq", q)
        BY <3>2, <3>7
      <4>2. sq'[q] = sq[q]
        BY <1>other, <1>kept, <3>1, <4>1 DEF SqOps
      <4>3. PICK c \in IoQ : c = cqMem[0][i].cmd.cq /\ c = sq[q].cqid /\ cq[c].live
        BY <1>lives, <3>3, <4>1
      <4>4. ASSUME NEW k \in Unread(0)', Reports(k, "createCq", c)'
            PROVE  Ahead(0, k)' < Ahead(0, i)'
        <5>1. CASE OldEntry(0, k)
          BY <3>1, <3>3, <4>1, <4>3, <4>4, <5>1 DEF OldEntry, Reports
        <5>2. CASE AnswerAt(cmd, k)
          <6>1. AdminEffect(cmd, TRUE) /\ cmd.op = "createCq" /\ cmd.q = c
            <7>1. cqMem'[0][k].ok = TRUE /\ cmd.op = "createCq" /\ cmd.q = c
              BY <4>4, <5>2 DEF AnswerAt, Reports
            <7> QED BY <5>2, <7>1 DEF AnswerAt
          <6>2. ~cq[c].live
            BY <6>1 DEF AdminEffect, CqOps
          <6> QED BY <4>3, <6>2
        <5> QED BY <1>old, <5>1, <5>2
      <4>5. sq'[q].live /\ sq'[q].cqid = cqMem'[0][i].cmd.cq
        BY <3>1, <3>3, <4>1, <4>2
      <4>6. \A k \in Unread(0)' : Reports(k, "createCq", cqMem[0][i].cmd.cq)'
                                           => Ahead(0, k)' < Ahead(0, i)'
        BY <3>1, <4>3, <4>4 DEF Reports
      <4> QED BY <4>5, <4>6
    <3> QED BY <3>4, <3>5, <3>6, <3>7
  <2>2. CASE AnswerAt(cmd, i)
    <3>1. /\ cqMem'[0][i].cmd = cmd /\ cqMem'[0][i].ok \in BOOLEAN
          /\ AdminEffect(cmd, cqMem'[0][i].ok)
          /\ \A k \in Unread(0)' : k = i \/ Ahead(0, k)' < Ahead(0, i)'
      BY <2>2 DEF AnswerAt
    <3>2. ASSUME NEW op, Reports(i, op, q)'
          PROVE  AdminEffect(cmd, TRUE) /\ cmd.op = op /\ cmd.q = q
      <4>1. cqMem'[0][i].ok = TRUE /\ cmd.op = op /\ cmd.q = q
        BY <3>1, <3>2 DEF Reports
      <4> QED BY <3>1, <4>1
    <3>3. Reports(i, "createCq", q)' => cq'[q].live
      BY <3>2 DEF AdminEffect, CqOps
    <3>4. Reports(i, "deleteCq", q)' => ~cq'[q].live
      BY <3>2 DEF AdminEffect, CqOps
    <3>5. Reports(i, "deleteSq", q)' => ~sq'[q].live
      BY <3>2 DEF AdminEffect, SqOps
    <3>6. ASSUME Reports(i, "createSq", q)'
          PROVE  /\ sq'[q].live /\ sq'[q].cqid = cqMem'[0][i].cmd.cq
                 /\ \A k \in Unread(0)' : Reports(k, "createCq", cqMem[0][i].cmd.cq)'
                                           => Ahead(0, k)' < Ahead(0, i)'
      <4>1. AdminEffect(cmd, TRUE) /\ cmd.op = "createSq" /\ cmd.q = q
        BY <3>2, <3>6
      <4>2. sq'[q] = NewSq(cmd.cq)
        BY <4>1 DEF AdminEffect, SqOps
      <4>3. \A k : ~(k = i /\ Reports(k, "createCq", cqMem[0][i].cmd.cq)')
        BY <3>6 DEF Reports
      <4> QED BY <3>1, <4>2, <4>3 DEF NewSq
    <3> QED BY <3>3, <3>4, <3>5, <3>6
  <2> QED BY <1>old, <2>1, <2>2
<1>2. DriverKnows'
  <2>1. en' /\ sq'[0].live /\ UNCHANGED <<open, gSq, gCq>>
    BY DEF AdminFacts, AdminOutcome
  <2>2. ASSUME NEW q \in IoQ
        PROVE  /\ open'[q] # {} => q \in gSq'
               /\ q \in gSq' /\ sq'[q].live => sq'[q].cqid \in gCq'
               /\ cq'[q].live => q \in gCq' \/ \E i \in Unread(0)' : Reports(i, "createCq", q)'
    <3>1. /\ open[q] # {} => q \in gSq
          /\ q \in gSq /\ sq[q].live => sq[q].cqid \in gCq
          /\ cq[q].live => q \in gCq \/ \E i \in Unread(0) : Reports(i, "createCq", q)
      BY DEF DriverKnows
    <3>2. ASSUME q \in gSq, sq'[q].live
          PROVE  sq'[q].cqid \in gCq
      <4>1. PICK ok : AdminEffect(cmd, ok)
        BY DEF AdminOutcome
      <4>2. sq'[q] = sq[q]
        BY <3>2, <4>1 DEF AdminEffect, KeepsSq, AdminFacts
      <4> QED BY <3>1, <3>2, <4>2
    <3>3. ASSUME cq'[q].live, cq[q].live
          PROVE  q \in gCq \/ \E i \in Unread(0)' : Reports(i, "createCq", q)'
      <4>1. ASSUME NEW i \in Unread(0), Reports(i, "createCq", q)
            PROVE  i \in Unread(0)' /\ Reports(i, "createCq", q)'
        BY <1>old, <4>1 DEF OldEntry, Reports
      <4> QED BY <3>1, <3>3, <4>1
    <3>4. ASSUME cq'[q].live, ~cq[q].live
          PROVE  \E i \in Unread(0)' : Reports(i, "createCq", q)'
      <4>1. ~AdminEffect(cmd, FALSE)
        BY <1>0, <3>4 DEF AdminEffect
      <4>2. PICK i \in Unread(0)' : AnswerAt(cmd, i)
        BY <1>old, <4>1
      <4>3. cqMem'[0][i].ok \in BOOLEAN /\ AdminEffect(cmd, cqMem'[0][i].ok)
        BY <4>2 DEF AnswerAt
      <4>4. cqMem'[0][i].ok /\ cmd.op = "createCq" /\ cmd.q = q
        <5>1. PICK ok : ok = cqMem'[0][i].ok
          OBVIOUS
        <5>2. AdminEffect(cmd, ok)
          BY <4>3, <5>1
        <5>3. ok /\ cmd.op = "createCq" /\ cmd.q = q
          BY <1>0, <3>4, <5>2 DEF AdminEffect
        <5> QED BY <5>1, <5>3
      <4>5. cqMem'[0][i].cmd = cmd
        BY <4>2 DEF AnswerAt
      <4>6. Reports(i, "createCq", q)'
        BY <4>4, <4>5 DEF Reports
      <4> QED BY <4>6
    <3> QED BY <2>1, <3>1, <3>2, <3>3, <3>4
  <2> QED BY <2>1, <2>2 DEF DriverKnows
<1> QED BY <1>1, <1>2

(* What waits in the admin ring behind the command fetched. *)
LEMMA AdminWaits ==
  ASSUME ServiceInvariant, TypeOK', NEW cmd \in AdminCmd, AdminOutcome(cmd), AdminFacts(cmd)
  PROVE  OneAtATime' /\ CreationsWait' /\ DeletionsWait'
<1> USE DEF ServiceInvariant, WorkInvariant, Inductive
<1>0. /\ 0 \in Q /\ cmd.q \in IoQ /\ IoQ \subseteq Q /\ 0 \notin IoQ
      /\ \A a \in AdminCmd : a \in Cmd /\ a.q \in IoQ
  BY Commands, Consts DEF Cmd
<1>1. /\ UNCHANGED <<open, gSq>>
      /\ \A one : Unfetched(0, one)' \subseteq Unfetched(0, one) \ {sq[0].head}
      /\ sq[0].head \in Unfetched(0, cmd) /\ Unfetched(0, cmd)' = {}
  BY DEF AdminFacts
<1>2. OneAtATime'
  BY <1>1 DEF OneAtATime
<1>3. CreationsWait'
  BY <1>1 DEF CreationsWait
<1>4. PICK ok : AdminEffect(cmd, ok)
  BY DEF AdminOutcome
<1>5. ASSUME NEW a \in AdminCmd, NEW i \in Unfetched(0, a)', a.op = "deleteCq", cq'[a.q].live
      PROVE  /\ \A k \in Unread(a.q)' : sq'[cqMem'[a.q][k].sqid].live
             /\ \A b \in AdminCmd : \A k \in Unfetched(0, b)' :
                  /\ b.op = "deleteSq" /\ sq'[b.q].live /\ sq'[b.q].cqid = a.q
                  /\ open[b.q] # {}
                  => Dist(sq'[0].head, i, SqSize[0]) < Dist(sq'[0].head, k, SqSize[0])
  <2>1. /\ i \in Unfetched(0, a) /\ i # sq[0].head /\ a # cmd
    BY <1>1, <1>5
  <2>2. a \in open[0] /\ a.q \in IoQ /\ a.q \in Q /\ a.q # 0
    BY <1>0, <2>1, OneUnfetched
  <2>3. ~(a.q = cmd.q /\ cmd.op = "createCq")
    BY <1>5, <2>1, <2>2 DEF AdminFacts, CqOps
  <2>4. cq[a.q].live
    BY <1>4, <1>5, <2>2, <2>3 DEF AdminEffect
  <2>5. /\ \A k \in Unread(a.q) : sq[cqMem[a.q][k].sqid].live
        /\ \A b \in AdminCmd : \A k \in Unfetched(0, b) :
             /\ b.op = "deleteSq" /\ sq[b.q].live /\ sq[b.q].cqid = a.q
             /\ open[b.q] # {}
             => Dist(sq[0].head, i, SqSize[0]) < Dist(sq[0].head, k, SqSize[0])
    BY <1>5, <2>1, <2>4 DEF DeletionsWait
  <2>6. /\ SqSize[0] \in Nat \ {0} /\ sq[0].head \in Nat /\ sq[0].head < SqSize[0]
        /\ \A b : Unfetched(0, b) \subseteq 0..SqSize[0]-1
        /\ sq'[0].head = Succ(sq[0].head, SqSize[0])
    BY <1>0, SqFacts, UnfetchedFacts DEF AdminOutcome
  <2>7. i \in Nat /\ i < SqSize[0]
    BY <2>1, <2>6
  <2>8. /\ Dist(sq'[0].head, i, SqSize[0]) = Dist(sq[0].head, i, SqSize[0]) - 1
        /\ Dist(sq[0].head, i, SqSize[0]) > 0
    BY <2>1, <2>6, <2>7, DistFromNext
  <2>9. Dist(sq[0].head, sq[0].head, SqSize[0]) = 0 /\ Dist(sq[0].head, i, SqSize[0]) \in Nat
    BY <2>6, <2>7, DistOnRing
  <2>10. ASSUME NEW k \in Unread(a.q)'
         PROVE  sq'[cqMem'[a.q][k].sqid].live
    <3>1. OldEntry(a.q, k)
      BY <2>2, AdminEntries
    <3>2. k \in Unread(a.q) /\ cqMem'[a.q][k] = cqMem[a.q][k]
      BY <3>1 DEF OldEntry
    <3>3. PICK s : s = cqMem[a.q][k].sqid
      OBVIOUS
    <3>4. s \in Q /\ open[s] # {} /\ sq[s].live
      BY <2>2, <2>5, <3>2, <3>3, OneCompletion
    <3>5. s # 0 /\ sq[s].cqid = a.q
      BY <2>2, <3>2, <3>3, <3>4 DEF EntriesKnown, EntryKnown
    <3>6. ~(s = cmd.q /\ cmd.op = "deleteSq")
      BY <1>1, <2>5, <2>8, <2>9, <3>4, <3>5
    <3>7. s \in IoQ
      BY <3>4, <3>5 DEF AdminFacts
    <3>8. sq'[s].live
      BY <1>4, <3>4, <3>6, <3>7 DEF AdminEffect, KeepsSq, NewSq
    <3> QED BY <3>2, <3>3, <3>8
  <2>11. ASSUME NEW b \in AdminCmd, NEW k \in Unfetched(0, b)',
                b.op = "deleteSq", sq'[b.q].live, sq'[b.q].cqid = a.q, open[b.q] # {}
         PROVE  Dist(sq'[0].head, i, SqSize[0]) < Dist(sq'[0].head, k, SqSize[0])
    <3>1. sq[b.q].live /\ sq[b.q].cqid = a.q
      BY <1>0, <2>11, AdminQueues
    <3>2. k \in Unfetched(0, b) /\ k # sq[0].head
      BY <1>1, <2>11
    <3>3. Dist(sq[0].head, i, SqSize[0]) < Dist(sq[0].head, k, SqSize[0])
      BY <2>5, <2>11, <3>1, <3>2
    <3>4. k \in Nat /\ k < SqSize[0]
      BY <2>6, <3>2
    <3>5. Dist(sq'[0].head, k, SqSize[0]) = Dist(sq[0].head, k, SqSize[0]) - 1
      BY <2>6, <3>2, <3>4, DistFromNext
    <3>6. Dist(sq[0].head, k, SqSize[0]) \in Nat
      BY <2>6, <3>4, DistOnRing
    <3> QED BY <2>8, <2>9, <3>3, <3>5, <3>6
  <2> QED BY <2>10, <2>11
<1>6. DeletionsWait'
  BY <1>1, <1>5 DEF DeletionsWait
<1> QED BY <1>2, <1>3, <1>6

(* So are the copies of a command in a ring after a step. *)
LEMMA UnfetchedLater ==
  ASSUME NEW q \in Q, NEW cmd
  PROVE  IsFiniteSet(Unfetched(q, cmd)') /\ Cardinality(Unfetched(q, cmd)') \in Nat
<1>1. SqSize[q] - 1 \in Int
  BY Consts
<1>2. IsFiniteSet(0..SqSize[q]-1)
  BY <1>1, FS_Interval
<1>3. Unfetched(q, cmd)' \subseteq 0..SqSize[q]-1
  BY DEF Unfetched, Between
<1> QED BY <1>2, <1>3, FS_Subset, FS_CardinalityType

(* No command is lost or answered twice by an admin command; an AER that gets
   no answer yet is counted in aer.                                        *)
LEMMA AdminOnce ==
  ASSUME ServiceInvariant, Inductive', NEW cmd \in AdminCmd, AdminOutcome(cmd), AdminFacts(cmd)
  PROVE  Counted' /\ AnsweredOnce'
<1> USE DEF ServiceInvariant, WorkInvariant, Inductive
<1>0. /\ 0 \in Q /\ cmd \in Cmd /\ \A q \in Q : q # 0 => q \in IoQ
  BY Consts DEF Cmd, AdminFacts
<1>1. /\ UNCHANGED <<open, en>> /\ en /\ cmd \in open[0] /\ sq[0].live /\ sq'[0].live
      /\ IsFiniteSet(open[0])
  BY <1>0 DEF AdminFacts, AdminOutcome, Counted
<1>2. \A q, one : Held(q, one)' = Held(q, one)
  BY DEF AdminFacts, pools, Held, Copies
<1>3. \A one : Cardinality(Unfetched(0, one)')
                 = Cardinality(Unfetched(0, one)) - (IF one = cmd THEN 1 ELSE 0)
  BY DEF AdminFacts
<1>4. \A q \in Q, one \in Cmd : Cardinality(Unfetched(q, one)') \in Nat
  BY UnfetchedLater
<1>5. \/ /\ cmd.op = "aer" /\ aer' = aer + 1
         /\ Counted' /\ \A q \in Q, one \in Cmd : Completions(q, one)' = Completions(q, one)
      \/ /\ aer' = aer /\ Counted'
         /\ \A q \in Q, one \in Cmd :
              Cardinality(Completions(q, one)') = Cardinality(Completions(q, one))
                + (IF q = 0 /\ one = cmd THEN 1 ELSE 0)
  <2>1. CASE cmd.op = "aer" /\ aer' = aer + 1 /\ \A d \in Q : SameEntries(d)
    <3>1. \A q \in Q, one \in Cmd : Completions(q, one)' = Completions(q, one)
      BY <2>1, CompletionsStay
    <3> QED BY <1>1, <2>1, <3>1 DEF Counted
  <2>2. ASSUME NEW ok \in BOOLEAN, aer' = aer, Posts(0, NewEntry(0, 0, cmd, ok, sq'[0].head))
        PROVE  /\ aer' = aer /\ Counted'
               /\ \A q \in Q, one \in Cmd :
                    Cardinality(Completions(q, one)') = Cardinality(Completions(q, one))
                      + (IF q = 0 /\ one = cmd THEN 1 ELSE 0)
    <3> DEFINE e == NewEntry(0, 0, cmd, ok, sq'[0].head)
    <3>1. e.sqid = 0 /\ e.cmd = cmd
      BY DEF NewEntry
    <3>2. Posts(0, e) /\ CqSize[0] \in Nat
      BY <1>0, <2>2, Consts
    <3> HIDE DEF e
    <3>3. ASSUME NEW q \in Q, NEW one \in Cmd
          PROVE  /\ IsFiniteSet(Completions(q, one)')
                 /\ Cardinality(Completions(q, one)')
                      = Cardinality(Completions(q, one)) + Match(e, q, one)
      <4>1. IsFiniteSet(Completions(q, one))
        BY DEF Counted
      <4> QED BY <1>0, <3>2, <4>1, CompletionsGain
    <3>4. \A q, one : Match(e, q, one) = IF q = 0 /\ one = cmd THEN 1 ELSE 0
      BY <3>1 DEF Match
    <3> QED BY <1>1, <2>2, <3>3, <3>4 DEF Counted
  <2> QED BY <2>1, <2>2 DEF AdminOutcome
<1>6. ASSUME NEW q \in Q, NEW one \in Cmd
      PROVE  /\ Places(q, one) = Cardinality(Unfetched(q, one))
                  + Cardinality(Completions(q, one)) + Held(q, one)
             /\ Places(q, one)' = Cardinality(Unfetched(q, one)')
                  + Cardinality(Completions(q, one)') + Held(q, one)'
             /\ Cardinality(Unfetched(q, one)) \in Nat
             /\ Cardinality(Completions(q, one)) \in Nat
             /\ Cardinality(Unfetched(q, one)') \in Nat
             /\ Cardinality(Completions(q, one)') \in Nat
             /\ Held(q, one) \in Nat /\ Held(q, one)' = Held(q, one)
  <2>1. Counted' /\ Cardinality(Unfetched(q, one)') \in Nat
    BY <1>4, <1>5
  <2> QED BY <1>2, <2>1, PlacesSum
<1>7. ASSUME NEW q \in Q, q # 0, NEW one \in Cmd
      PROVE  IF one \in open[q]
               THEN \/ Places(q, one)' = 1
                    \/ Places(q, one)' = 0 /\ (~sq'[q].live \/ one.op = "aer")
               ELSE Places(q, one)' = 0
  <2>1. Cardinality(Completions(q, one)') = Cardinality(Completions(q, one))
    BY <1>5, <1>6, <1>7
  <2>2. /\ IF one \in open[q]
             THEN \/ Places(q, one) = 1
                  \/ Places(q, one) = 0 /\ (~sq[q].live \/ one.op = "aer")
             ELSE Places(q, one) = 0
    BY DEF AnsweredOnce
  <2>3. CASE Unfetched(q, one)' = Unfetched(q, one)
    <3>1. Places(q, one)' = Places(q, one)
      BY <1>6, <2>1, <2>3
    <3>2. one \in open[q] /\ sq'[q].live => sq[q].live
      BY AdminQueues
    <3> QED BY <2>2, <3>1, <3>2
  <2>4. CASE ~sq'[q].live /\ Unfetched(q, one)' = {}
    <3>1. Cardinality(Unfetched(q, one)') = 0
      BY <2>4, FS_EmptySet
    <3>2. Places(q, one)' \in Nat /\ Places(q, one)' <= Places(q, one)
      BY <1>6, <2>1, <3>1
    <3> QED BY <2>2, <2>4, <3>2
  <2>5. q \in IoQ
    BY <1>0, <1>7
  <2> QED BY <2>3, <2>4, <2>5, AdminUnfetched
<1>8. Places(0, cmd) = 1
  BY DEF AdminFacts
<1>9. CASE /\ aer' = aer
           /\ \A q \in Q, one \in Cmd :
                Cardinality(Completions(q, one)') = Cardinality(Completions(q, one))
                  + (IF q = 0 /\ one = cmd THEN 1 ELSE 0)
  <2>1. ASSUME NEW one \in Cmd
        PROVE  Places(0, one)' = Places(0, one)
    BY <1>0, <1>3, <1>6, <1>9
  <2>2. {c \in open[0] : c.op = "aer" /\ Places(0, c)' = 0}
          = {c \in open[0] : c.op = "aer" /\ Places(0, c) = 0}
    <3>1. \A c \in open[0] : c \in Cmd
      BY <1>0 DEF TypeOK, DriverOK
    <3> QED BY <2>1, <3>1
  <2>3. ASSUME NEW one \in Cmd
        PROVE  IF one \in open[0]
                 THEN \/ Places(0, one)' = 1
                      \/ Places(0, one)' = 0 /\ (~sq'[0].live \/ one.op = "aer")
                 ELSE Places(0, one)' = 0
    BY <1>0, <1>1, <2>1 DEF AnsweredOnce
  <2>4. Cardinality({c \in open[0] : c.op = "aer" /\ Places(0, c)' = 0}) = aer'
    BY <1>1, <1>9, <2>2 DEF AnsweredOnce
  <2>5. \A q \in Q, one \in Cmd : IF one \in open'[q]
               THEN \/ Places(q, one)' = 1
                    \/ Places(q, one)' = 0 /\ (~sq'[q].live \/ one.op = "aer")
               ELSE Places(q, one)' = 0
    BY <1>1, <1>7, <2>3
  <2> QED BY <1>1, <1>5, <2>4, <2>5 DEF AnsweredOnce
<1>10. CASE /\ cmd.op = "aer" /\ aer' = aer + 1
            /\ \A q \in Q, one \in Cmd : Completions(q, one)' = Completions(q, one)
  <2>1. ASSUME NEW one \in Cmd
        PROVE  Places(0, one)' = Places(0, one) - (IF one = cmd THEN 1 ELSE 0)
    BY <1>0, <1>3, <1>6, <1>10
  <2>2. {c \in open[0] : c.op = "aer" /\ Places(0, c)' = 0}
          = {c \in open[0] : c.op = "aer" /\ Places(0, c) = 0} \cup {cmd}
    <3>1. \A c \in open[0] : c \in Cmd
      BY <1>0 DEF TypeOK, DriverOK
    <3>2. \A c \in open[0] : Places(0, c) \in Nat
      BY <1>0, <3>1, Numbers
    <3>3. \A c \in open[0] : c # cmd => Places(0, c)' = Places(0, c)
      BY <2>1, <3>1, <3>2
    <3>4. Places(0, cmd)' = 0
      BY <1>0, <1>8, <2>1
    <3> QED BY <1>1, <1>10, <3>3, <3>4
  <2>3. ASSUME NEW one \in Cmd
        PROVE  IF one \in open[0]
                 THEN \/ Places(0, one)' = 1
                      \/ Places(0, one)' = 0 /\ (~sq'[0].live \/ one.op = "aer")
                 ELSE Places(0, one)' = 0
    <3>1. CASE one = cmd
      BY <1>1, <1>8, <1>10, <2>1, <3>1
    <3>2. CASE one # cmd
      <4>1. Places(0, one)' = Places(0, one)
        BY <1>0, <2>1, <3>2, Numbers
      <4> QED BY <1>0, <1>1, <4>1 DEF AnsweredOnce
    <3> QED BY <3>1, <3>2
  <2>4. Cardinality({c \in open[0] : c.op = "aer" /\ Places(0, c)' = 0}) = aer'
    <3> DEFINE S == {c \in open[0] : c.op = "aer" /\ Places(0, c) = 0}
    <3>1. IsFiniteSet(S) /\ cmd \notin S
      BY <1>1, <1>8, FS_Subset
    <3>2. Cardinality(S) = aer
      BY <1>1 DEF AnsweredOnce
    <3> HIDE DEF S
    <3>3. Cardinality(S \cup {cmd}) = aer + 1
      BY <3>1, <3>2, FS_AddElement
    <3> QED BY <1>10, <2>2, <3>3 DEF S
  <2>5. \A q \in Q, one \in Cmd : IF one \in open'[q]
               THEN \/ Places(q, one)' = 1
                    \/ Places(q, one)' = 0 /\ (~sq'[q].live \/ one.op = "aer")
               ELSE Places(q, one)' = 0
    BY <1>1, <1>7, <2>3
  <2> QED BY <1>1, <1>5, <2>4, <2>5 DEF AnsweredOnce
<1> QED BY <1>5, <1>9, <1>10

(* An admin command keeps the whole invariant. *)
LEMMA ServiceAdmin ==
  ASSUME ServiceInvariant, Inductive', NEW cmd \in AdminCmd, FetchAdmin(cmd)
  PROVE  ServiceParts' /\ AnsweredOnce'
<1>1. AdminOutcome(cmd) /\ AdminFacts(cmd)
  BY AdminShape, AdminKnows
<1>2. TypeOK'
  BY DEF Inductive
<1>3. SqInOrder' /\ EntriesKnown' /\ ReportsTrue' /\ DriverKnows'
  BY <1>1, <1>2, AdminOrder, AdminKnown, AdminReports
<1>4. OneAtATime' /\ CreationsWait' /\ DeletionsWait' /\ Counted' /\ AnsweredOnce'
  BY <1>1, <1>2, AdminWaits, AdminOnce
<1> QED BY <1>3, <1>4 DEF ServiceParts

-----------------------------------------------------------------------------
(* The driver *)

(* A driver that sees nothing new on a ring has taken everything. *)
LEMMA UnreadIsSeen ==
  ASSUME Inductive, DriverKnows, NEW c \in Q, Unread(c) # {}
  PROVE  Sees(c)
<1> USE DEF Inductive
<1> DEFINE n == CqSize[c]
           t == cq[c].tail
           g == gCqHead[c]
<1>1. /\ n \in Nat \ {0} /\ n > 1 /\ t \in Nat /\ t < n /\ g \in Nat /\ g < n
  BY RingFacts
<1>2. cq[c].live /\ g # t
  <2>1. ASSUME g = t
        PROVE  Between(g, t, n) = {}
    <3>1. \A i \in 0..n-1 : ~(g <= i /\ i < g)
      BY <1>1
    <3> QED BY <1>1, <2>1, <3>1 DEF Between
  <2>2. cq[c].live /\ Between(g, t, n) # {}
    BY DEF Unread, Unreaped
  <2> HIDE DEF g, t, n
  <2> QED BY <2>1, <2>2 DEF t, g, n
<1>3. cqMem[c][g].phase = IF g < t THEN cq[c].phase ELSE ~cq[c].phase
  BY <1>1, <1>2 DEF PhasesLaid
<1>4. gPhase[c] = IF g <= t THEN cq[c].phase ELSE ~cq[c].phase
  BY <1>2 DEF GuestBetween
<1>5. g < t <=> g <= t
  BY <1>1, <1>2
<1>6. Looks(c).phase = gPhase[c]
  BY <1>3, <1>4, <1>5 DEF Looks
<1>7. Polls(c)
  <2>1. c = 0 => en
    BY <1>2 DEF DriverKnows
  <2> QED BY <1>2, <2>1 DEF Polls
<1> QED BY <1>6, <1>7 DEF Sees

(* The rings and commands after Submit. *)
Submits(q, cmd) ==
  /\ UNCHANGED <<en, aer, sq, cq, pools, taking, cqMem, gSqHead, gCqHead, gSq, gCq>>
  /\ \A p \in Q : p # q => /\ gTail'[p] = gTail[p] /\ sqMem'[p] = sqMem[p]
                           /\ open'[p] = open[p]
  /\ gTail'[q] = Succ(gTail[q], SqSize[q]) /\ gTail[q] \in 0..SqSize[q]-1
  /\ open'[q] = open[q] \cup {cmd} /\ cmd \notin open[q]
  /\ Unfetched(q, cmd) = {}
  /\ \A p \in Q : \A one :
       /\ p # q \/ one # cmd => Unfetched(p, one)' = Unfetched(p, one)
       /\ ~sq[p].live => Unfetched(p, one)' = Unfetched(p, one)
  /\ sq[q].live => Unfetched(q, cmd)' = {gTail[q]}
  /\ \A one : \A i \in Unfetched(q, one) :
       Dist(sq[q].head, i, SqSize[q]) < Dist(sq[q].head, gTail[q], SqSize[q])
  /\ IF q = 0 THEN cmd \in AdminCmd /\ en /\ sq[0].live
              ELSE cmd \in IoCmd /\ q \in IoQ /\ q \in gSq

(* A submission does just that. *)
LEMMA SubmitShape ==
  ASSUME ServiceInvariant, NEW q \in Q, NEW cmd \in Cmd, Submit(q, cmd)
  PROVE  Submits(q, cmd)
<1> USE DEF ServiceInvariant, WorkInvariant, Inductive
<1>1. /\ UNCHANGED <<en, aer, sq, cq, pools, taking, cqMem, gSqHead, gCqHead, gSq, gCq>>
      /\ sqMem' = [sqMem EXCEPT ![q][gTail[q]] = cmd]
      /\ gTail' = [gTail EXCEPT ![q] = Succ(gTail[q], SqSize[q])]
      /\ open' = [open EXCEPT ![q] = open[q] \cup {cmd}] /\ cmd \notin open[q]
      /\ Succ(gTail[q], SqSize[q]) # gSqHead[q]
  BY DEF Submit, MaySubmit, regs, rings, holder
<1>2. /\ \A p \in Q : p # q => /\ gTail'[p] = gTail[p] /\ sqMem'[p] = sqMem[p]
                               /\ open'[p] = open[p]
      /\ gTail'[q] = Succ(gTail[q], SqSize[q]) /\ open'[q] = open[q] \cup {cmd}
      /\ sqMem'[q] = [sqMem[q] EXCEPT ![gTail[q]] = cmd]
  BY <1>1 DEF TypeOK, DriverOK, MemoryOK
<1>3. gTail[q] \in 0..SqSize[q]-1
  BY SqFacts
<1>4. Unfetched(q, cmd) = {}
  BY <1>1, OneUnfetched
<1>5. ASSUME NEW p \in Q, NEW one, p # q
      PROVE  Unfetched(p, one)' = Unfetched(p, one)
  BY <1>1, <1>2, <1>5, UnfetchedStay
<1>6. ASSUME NEW p \in Q, NEW one, ~sq[p].live
      PROVE  Unfetched(p, one)' = Unfetched(p, one)
  BY <1>1, <1>6 DEF Unfetched
<1>7. ASSUME NEW one, sq[q].live
      PROVE  /\ cmd = one => Unfetched(q, one)' = {gTail[q]}
             /\ cmd # one => Unfetched(q, one)' = Unfetched(q, one)
             /\ \A i \in Unfetched(q, one) :
                  Dist(sq[q].head, i, SqSize[q]) < Dist(sq[q].head, gTail[q], SqSize[q])
  BY <1>1, <1>2, <1>4, <1>7, UnfetchedSubmit
<1>8. \A one : \A i \in Unfetched(q, one) :
       Dist(sq[q].head, i, SqSize[q]) < Dist(sq[q].head, gTail[q], SqSize[q])
  BY <1>7 DEF Unfetched
<1>9. IF q = 0 THEN cmd \in AdminCmd /\ en /\ sq[0].live
               ELSE cmd \in IoCmd /\ q \in IoQ /\ q \in gSq
  BY DEF Submit, MaySubmit, Knows, DriverKnows, Q
<1> QED BY <1>1, <1>2, <1>3, <1>4, <1>5, <1>6, <1>7, <1>8, <1>9 DEF Submits

(* It keeps what is known of rings, entries and of the driver: a creation is
   submitted for a queue not in use, a deletion when nothing is outstanding. *)
LEMMA SubmitKeeps ==
  ASSUME ServiceInvariant, NEW q \in Q, NEW cmd \in Cmd, Submit(q, cmd), Submits(q, cmd)
  PROVE  /\ SqInOrder' /\ EntriesKnown' /\ ReportsTrue' /\ DriverKnows'
         /\ OneAtATime' /\ CreationsWait' /\ DeletionsWait'
<1> USE DEF ServiceInvariant, WorkInvariant, Inductive
<1>0. /\ 0 \in Q /\ IoQ \subseteq Q /\ 0 \notin IoQ
      /\ \A a \in AdminCmd : a \in Cmd /\ a.q \in IoQ
      /\ \A p \in Q : p # 0 => p \in IoQ
  BY Commands, Consts DEF Cmd, Q
<1>1. /\ UNCHANGED <<en, aer, sq, cq, cqMem, gSqHead, gCqHead, gSq, gCq>>
      /\ \A p \in Q : p # q => gTail'[p] = gTail[p] /\ open'[p] = open[p]
      /\ gTail'[q] = Succ(gTail[q], SqSize[q])
      /\ open'[q] = open[q] \cup {cmd}
      /\ IF q = 0 THEN cmd \in AdminCmd /\ en /\ sq[0].live
                  ELSE cmd \in IoCmd /\ q \in IoQ /\ q \in gSq
  BY DEF Submits
<1>2. SqInOrder'
  <2> SUFFICES ASSUME NEW p \in Q, sq[p].live
               PROVE  /\ Past(p, sq[p].head) <= Past(p, sq[p].tail)
                      /\ Past(p, sq[p].tail) <= Past(p, gTail'[p])
    BY <1>1 DEF SqInOrder, Past
  <2>1. /\ Past(p, sq[p].head) <= Past(p, sq[p].tail)
        /\ Past(p, sq[p].tail) <= Past(p, gTail[p])
    BY DEF SqInOrder
  <2>2. CASE p = q
    <3>1. Succ(gTail[q], SqSize[q]) # gSqHead[q]
      BY DEF Submit
    <3>2. Past(q, Succ(gTail[q], SqSize[q])) = Past(q, gTail[q]) + 1
      BY <3>1, SqFacts, DistRoom DEF Past
    <3>3. /\ Past(q, gTail[q]) \in Nat /\ Past(q, sq[q].tail) \in Nat
      BY SqFacts, DistOnRing DEF Past
    <3> QED BY <1>1, <2>1, <2>2, <3>2, <3>3
  <2> QED BY <1>1, <2>1, <2>2
<1>3. EntriesKnown'
  BY <1>1 DEF EntriesKnown, EntryKnown, Unread, Unreaped, Ahead, Past
<1>4. ReportsTrue'
  BY <1>1 DEF ReportsTrue, Reports, Unread, Unreaped, Ahead
<1>5. DriverKnows'
  <2>1. ~en => q # 0 /\ gSq = {}
    BY <1>1 DEF DriverKnows
  <2>2. en
    BY <1>1, <2>1
  <2>3. \A p \in IoQ : open'[p] # {} => p \in gSq
    BY <1>0, <1>1 DEF DriverKnows
  <2>4. /\ en => sq[0].live
        /\ \A p \in IoQ :
             /\ p \in gSq /\ sq[p].live => sq[p].cqid \in gCq
             /\ cq[p].live => p \in gCq \/ \E i \in Unread(0) : Reports(i, "createCq", p)
    BY DEF DriverKnows
  <2>5. \A p \in IoQ :
          cq'[p].live => p \in gCq' \/ \E i \in Unread(0)' : Reports(i, "createCq", p)'
    BY <1>1, <2>4 DEF Reports, Unread, Unreaped
  <2> QED BY <1>1, <2>2, <2>3, <2>4, <2>5 DEF DriverKnows
<1>6. OneAtATime'
  <2>1. CASE q # 0
    BY <1>0, <1>1, <2>1 DEF OneAtATime
  <2>2. CASE q = 0
    <3>1. ASSUME NEW b \in open[0], b.q = cmd.q,
                 \/ b.op \in CqOps /\ cmd.op \in CqOps
                 \/ b.op \in SqOps /\ cmd.op \in SqOps
          PROVE  FALSE
      <4>1. /\ cmd.op = "createSq" => Lifecycle(cmd.q, {"createSq", "deleteSq"}) = {}
            /\ cmd.op = "deleteSq" => Lifecycle(cmd.q, {"createSq", "deleteSq"}) = {}
            /\ cmd.op = "createCq" => Lifecycle(cmd.q, {"createCq", "deleteCq"}) = {}
            /\ cmd.op = "deleteCq" => Lifecycle(cmd.q, {"createCq", "deleteCq"}) = {}
        BY <2>2 DEF Submit, MaySubmit
      <4> QED BY <3>1, <4>1 DEF Lifecycle, CqOps, SqOps
    <3>2. \A a \in open[0], b \in open[0] :
            a.q = b.q /\ (\/ a.op \in CqOps /\ b.op \in CqOps
                          \/ a.op \in SqOps /\ b.op \in SqOps) => a = b
      BY DEF OneAtATime
    <3>3. open'[0] = open[0] \cup {cmd}
      BY <1>1, <2>2
    <3>4. \A a \in open'[0], b \in open'[0] :
            a.q = b.q /\ (\/ a.op \in CqOps /\ b.op \in CqOps
                          \/ a.op \in SqOps /\ b.op \in SqOps) => a = b
      BY <3>1, <3>2, <3>3
    <3> QED BY <3>4 DEF OneAtATime
  <2> QED BY <2>1, <2>2
<1>7. CreationsWait'
  <2> SUFFICES ASSUME NEW a \in AdminCmd, a.op = "createSq", Unfetched(0, a)' # {}
               PROVE  a.q \notin gSq
    BY <1>1 DEF CreationsWait
  <2>1. CASE q = 0 /\ a = cmd
    BY <2>1 DEF Submit, MaySubmit
  <2>2. CASE q # 0 \/ a # cmd
    <3>1. Unfetched(0, a)' = Unfetched(0, a)
      BY <1>0, <2>2 DEF Submits
    <3> QED BY <3>1 DEF CreationsWait
  <2> QED BY <2>1, <2>2
<1>8. ASSUME NEW a \in AdminCmd, NEW i \in Unfetched(0, a)', a.op = "deleteCq", cq[a.q].live
      PROVE  /\ \A k \in Unread(a.q) : sq[cqMem[a.q][k].sqid].live
             /\ \A b \in AdminCmd : \A k \in Unfetched(0, b)' :
                  /\ b.op = "deleteSq" /\ sq[b.q].live /\ sq[b.q].cqid = a.q
                  /\ open'[b.q] # {}
                  => Dist(sq[0].head, i, SqSize[0]) < Dist(sq[0].head, k, SqSize[0])
  <2>0. a.q \in Q /\ a.q \in IoQ
    BY <1>0
  <2>1. CASE q = 0 /\ a = cmd
    <3>1. ~Sees(a.q) /\ \A s \in gSq : sq[s].cqid = a.q => open[s] = {}
      BY <1>8, <2>1 DEF Submit, MaySubmit
    <3>2. Unread(a.q) = {}
      BY <2>0, <3>1, UnreadIsSeen
    <3>3. ASSUME NEW b \in AdminCmd, sq[b.q].cqid = a.q, open'[b.q] # {}
          PROVE  FALSE
      <4>1. b.q \in IoQ /\ open'[b.q] = open[b.q]
        BY <1>0, <1>1, <2>1
      <4> QED BY <3>1, <3>3, <4>1 DEF DriverKnows
    <3> QED BY <3>2, <3>3
  <2>2. CASE q # 0 \/ a # cmd
    <3>1. i \in Unfetched(0, a)
      BY <1>0, <2>2 DEF Submits
    <3>2. /\ \A k \in Unread(a.q) : sq[cqMem[a.q][k].sqid].live
          /\ \A b \in AdminCmd : \A k \in Unfetched(0, b) :
               /\ b.op = "deleteSq" /\ sq[b.q].live /\ sq[b.q].cqid = a.q
               /\ open[b.q] # {}
               => Dist(sq[0].head, i, SqSize[0]) < Dist(sq[0].head, k, SqSize[0])
      BY <1>8, <3>1 DEF DeletionsWait
    <3>3. ASSUME NEW b \in AdminCmd, NEW k \in Unfetched(0, b)',
                 b.op = "deleteSq", sq[b.q].live, sq[b.q].cqid = a.q, open'[b.q] # {}
          PROVE  Dist(sq[0].head, i, SqSize[0]) < Dist(sq[0].head, k, SqSize[0])
      <4>1. CASE q = 0 /\ b = cmd
        <5>1. k = gTail[0]
          BY <1>1, <3>3, <4>1 DEF Submits
        <5>2. Dist(sq[0].head, i, SqSize[0]) < Dist(sq[0].head, gTail[0], SqSize[0])
          BY <3>1, <4>1 DEF Submits
        <5> QED BY <5>1, <5>2
      <4>2. CASE q = 0 /\ b # cmd
        <5>1. open'[b.q] = open[b.q] /\ k \in Unfetched(0, b)
          BY <1>0, <1>1, <4>2 DEF Submits
        <5> QED BY <3>2, <3>3, <5>1
      <4>3. CASE q # 0
        <5>1. k \in Unfetched(0, b)
          BY <1>0, <4>3 DEF Submits
        <5>2. b \in open[0]
          BY <1>0, <5>1, OneUnfetched
        <5>3. b.q # q
          BY <3>3, <4>3, <5>2 DEF Submit, MaySubmit, Lifecycle
        <5>4. open'[b.q] = open[b.q]
          BY <1>0, <1>1, <5>3
        <5> QED BY <3>2, <3>3, <5>1, <5>4
      <4> QED BY <4>1, <4>2, <4>3
    <3> QED BY <3>2, <3>3
  <2> QED BY <2>1, <2>2
<1>9. DeletionsWait'
  <2>1. \A c : Unread(c)' = Unread(c)
    BY <1>1 DEF Unread, Unreaped
  <2> QED BY <1>1, <1>8, <2>1 DEF DeletionsWait
<1> QED BY <1>2, <1>3, <1>4, <1>5, <1>6, <1>7, <1>9

(* Written to the ring, and nowhere else. *)
LEMMA SubmitOnce ==
  ASSUME ServiceInvariant, Inductive', NEW q \in Q, NEW cmd \in Cmd, Submits(q, cmd)
  PROVE  Counted' /\ AnsweredOnce'
<1> USE DEF ServiceInvariant, WorkInvariant, Inductive
<1>0. 0 \in Q
  BY Consts
<1>1. /\ UNCHANGED <<en, aer, sq, cq, cqMem, gCqHead>>
      /\ \A p \in Q : p # q => open'[p] = open[p]
      /\ open'[q] = open[q] \cup {cmd} /\ cmd \notin open[q]
      /\ q = 0 => sq[0].live
  BY DEF Submits
<1>2. \A p, one : /\ Held(p, one)' = Held(p, one)
                  /\ Completions(p, one)' = Completions(p, one)
  BY DEF Submits, pools, Held, Copies, Completions, Unreaped
<1>3. Counted'
  <2>1. IsFiniteSet(open[0]) /\ IsFiniteSet(open[0] \cup {cmd})
    BY FS_AddElement DEF Counted
  <2>2. open'[0] = open[0] \/ open'[0] = open[0] \cup {cmd}
    BY <1>0, <1>1
  <2> QED BY <1>2, <2>1, <2>2 DEF Counted
<1>4. ASSUME NEW p \in Q, NEW one \in Cmd
      PROVE  /\ Places(p, one)' = Places(p, one) + Cardinality(Unfetched(p, one)')
                                    - Cardinality(Unfetched(p, one))
             /\ Places(p, one) \in Nat
             /\ Cardinality(Unfetched(p, one)) \in Nat
             /\ Cardinality(Unfetched(p, one)') \in Nat
  <2>1. Cardinality(Unfetched(p, one)') \in Nat
    BY UnfetchedLater
  <2> QED BY <1>2, <1>3, <2>1, PlacesSum
<1>5. Places(q, cmd) = 0
  BY <1>1 DEF AnsweredOnce
<1>6. ASSUME NEW p \in Q, NEW one \in Cmd, ~(p = q /\ one = cmd)
      PROVE  Places(p, one)' = Places(p, one) /\ (one \in open'[p] <=> one \in open[p])
  <2>1. Unfetched(p, one)' = Unfetched(p, one)
    BY <1>6 DEF Submits
  <2> QED BY <1>1, <1>4, <1>6, <2>1
<1>7. IF sq[q].live THEN Places(q, cmd)' = 1 ELSE Places(q, cmd)' = 0
  <2>1. Cardinality(Unfetched(q, cmd)) = 0
    BY FS_EmptySet DEF Submits
  <2>2. CASE sq[q].live
    <3>1. Cardinality(Unfetched(q, cmd)') = 1
      BY <2>2, FS_Singleton DEF Submits
    <3> QED BY <1>4, <1>5, <2>1, <2>2, <3>1
  <2>3. CASE ~sq[q].live
    <3>1. Cardinality(Unfetched(q, cmd)') = 0
      BY <2>1, <2>3 DEF Submits
    <3> QED BY <1>4, <1>5, <2>1, <2>3, <3>1
  <2> QED BY <2>2, <2>3
<1>8. \A p \in Q, one \in Cmd :
        IF one \in open'[p]
          THEN \/ Places(p, one)' = 1
               \/ Places(p, one)' = 0 /\ (~sq'[p].live \/ one.op = "aer")
          ELSE Places(p, one)' = 0
  <2> SUFFICES ASSUME NEW p \in Q, NEW one \in Cmd
               PROVE  IF one \in open'[p]
                        THEN \/ Places(p, one)' = 1
                             \/ Places(p, one)' = 0 /\ (~sq'[p].live \/ one.op = "aer")
                        ELSE Places(p, one)' = 0
    OBVIOUS
  <2>1. CASE p = q /\ one = cmd
    BY <1>1, <1>7, <2>1
  <2>2. CASE ~(p = q /\ one = cmd)
    BY <1>1, <1>6, <2>2 DEF AnsweredOnce
  <2> QED BY <2>1, <2>2
<1>9. {c \in open'[0] : c.op = "aer" /\ Places(0, c)' = 0}
        = {c \in open[0] : c.op = "aer" /\ Places(0, c) = 0}
  <2>1. \A c \in open[0] : c \in Cmd
    BY <1>0 DEF TypeOK, DriverOK
  <2>2. CASE q # 0
    <3>1. open'[0] = open[0] /\ \A c \in open[0] : Places(0, c)' = Places(0, c)
      BY <1>0, <1>1, <1>6, <2>1, <2>2
    <3> QED BY <3>1
  <2>3. CASE q = 0
    <3>1. open'[0] = open[0] \cup {cmd} /\ \A c \in open[0] : Places(0, c)' = Places(0, c)
      BY <1>0, <1>1, <1>6, <2>1, <2>3
    <3>2. Places(0, cmd)' = 1
      BY <1>1, <1>7, <2>3
    <3> QED BY <3>1, <3>2
  <2> QED BY <2>2, <2>3
<1>10. en' => Cardinality({c \in open'[0] : c.op = "aer" /\ Places(0, c)' = 0}) = aer'
  BY <1>1, <1>9 DEF AnsweredOnce
<1> QED BY <1>3, <1>8, <1>10 DEF AnsweredOnce

(* Submit keeps the whole invariant. *)
LEMMA ServiceSubmit ==
  ASSUME ServiceInvariant, Inductive', NEW q \in Q, NEW cmd \in Cmd, Submit(q, cmd)
  PROVE  ServiceParts' /\ AnsweredOnce'
<1>1. Submits(q, cmd)
  BY SubmitShape
<1>2. /\ SqInOrder' /\ EntriesKnown' /\ ReportsTrue' /\ DriverKnows'
      /\ OneAtATime' /\ CreationsWait' /\ DeletionsWait'
  BY <1>1, SubmitKeeps
<1> QED BY <1>1, <1>2, SubmitOnce DEF ServiceParts

(* Distances add up, within one round. *)
LEMMA DistAdd ==
  ASSUME NEW n \in Nat \ {0}, NEW h \in Nat, NEW g \in Nat, NEW t \in Nat,
         h < n, g < n, t < n, Dist(h, g, n) + Dist(g, t, n) < n
  PROVE  Dist(h, t, n) = Dist(h, g, n) + Dist(g, t, n)
BY DEF Dist

(* What Reap does, entry e being the one taken and D the queue, if any, whose
   deletion it reports.                                                    *)
Reaps(c, e, D) ==
  /\ Takes(c) /\ e = cqMem[c][gCqHead[c]]
  /\ UNCHANGED <<en, aer, sq, cq, pools, taking, gTail>>
  /\ e.sqid \in Q /\ e.cmd \in Cmd /\ e.cmd \in open[e.sqid] /\ (e.sqid = 0 <=> c = 0)
  /\ e.sqHead \in Nat /\ e.sqHead < SqSize[e.sqid]
  /\ Places(e.sqid, e.cmd) = 1 /\ Unfetched(e.sqid, e.cmd) = {}
  /\ gSqHead'[e.sqid] = e.sqHead
  /\ \A p \in Q : p # e.sqid => gSqHead'[p] = gSqHead[p]
  /\ \A p \in Q, one \in Cmd : Unfetched(p, one)' = Unfetched(p, one)
  /\ \A p \in Q : open'[p] = IF p \in D THEN {}
                             ELSE IF p = e.sqid THEN open[p] \ {e.cmd} ELSE open[p]
  /\ D = IF c = 0 /\ e.ok /\ e.cmd.op = "deleteSq" THEN {e.cmd.q} ELSE {}
  /\ D # {} => \A d \in gCq : Unread(d) = {}
  /\ gSq' = IF c = 0 /\ e.ok /\ e.cmd.op = "createSq" THEN gSq \cup {e.cmd.q} ELSE gSq \ D
  /\ gCq' = IF c = 0 /\ e.ok /\ e.cmd.op = "createCq" THEN gCq \cup {e.cmd.q}
            ELSE IF c = 0 /\ e.ok /\ e.cmd.op = "deleteCq" THEN gCq \ {e.cmd.q} ELSE gCq
  /\ c = 0 => e.cmd \in AdminCmd /\ e.cmd.q \in IoQ

(* The slots the driver clears are those of commands long fetched. *)
LEMMA ReapClears ==
  ASSUME TypeOK, SqInOrder, NEW s \in Q, NEW h \in Nat, h < SqSize[s],
         sq[s].live => Past(s, h) <= Past(s, sq[s].head),
         UNCHANGED <<sq, gTail>>,
         sqMem'[s] = [i \in 0..SqSize[s]-1 |->
                        IF i \in Between(gSqHead[s], h, SqSize[s]) THEN NoCmd ELSE sqMem[s][i]],
         NEW one \in Cmd
  PROVE  Unfetched(s, one)' = Unfetched(s, one)
<1>1. CASE ~sq[s].live
  BY <1>1 DEF Unfetched
<1>2. CASE sq[s].live
  <2> DEFINE n == SqSize[s]
             g == gSqHead[s]
             m == sq[s].head
             t == gTail[s]
  <2>1. /\ n \in Nat \ {0} /\ m \in Nat /\ m < n /\ t \in Nat /\ t < n /\ g \in Nat /\ g < n
        /\ sq[s].tail \in Nat /\ sq[s].tail < n /\ h < n
    BY SqFacts
  <2>2. Dist(g, h, n) <= Dist(g, m, n) /\ Dist(g, m, n) <= Dist(g, t, n)
    <3>1. Dist(g, sq[s].tail, n) \in Nat /\ Dist(g, m, n) \in Nat /\ Dist(g, t, n) \in Nat
      BY <2>1, DistOnRing
    <3>2. /\ Dist(g, h, n) <= Dist(g, m, n) /\ Dist(g, m, n) <= Dist(g, sq[s].tail, n)
          /\ Dist(g, sq[s].tail, n) <= Dist(g, t, n)
      BY <1>2 DEF SqInOrder, Past
    <3> HIDE DEF n, g, m, t
    <3> QED BY <3>1, <3>2
  <2>3. NoCmd \notin Cmd
    BY Commands DEF Cmd
  <2>4. ASSUME NEW i \in 0..n-1, i \in Between(m, t, n)
        PROVE  i \notin Between(g, h, n)
    <3>1. Dist(m, i, n) < Dist(m, t, n)
      BY <2>1, <2>4, BetweenDist
    <3>2. Dist(m, t, n) = Dist(g, t, n) - Dist(g, m, n)
      BY <2>1, <2>2, DistFrom
    <3>3. /\ Dist(g, t, n) \in Nat /\ Dist(g, m, n) \in Nat /\ Dist(m, i, n) \in Nat
          /\ Dist(g, t, n) < n /\ Dist(g, h, n) \in Nat /\ i \in Nat /\ i < n
      <4>1. i \in Nat /\ i < n
        BY <2>1
      <4> HIDE DEF n, g, m, t
      <4>2. Dist(g, t, n) \in Nat /\ Dist(g, t, n) < n
        BY <2>1, DistOnRing
      <4>3. Dist(g, m, n) \in Nat /\ Dist(g, h, n) \in Nat
        BY <2>1, DistOnRing
      <4>4. Dist(m, i, n) \in Nat
        BY <2>1, <4>1, DistOnRing
      <4> QED BY <4>1, <4>2, <4>3, <4>4
    <3> HIDE DEF n, g, m, t
    <3>4. Dist(g, m, n) + Dist(m, i, n) < n
      BY <2>1, <3>1, <3>2, <3>3
    <3>5. Dist(g, i, n) = Dist(g, m, n) + Dist(m, i, n)
      BY <2>1, <3>3, <3>4, DistAdd
    <3>6. ~(Dist(g, i, n) < Dist(g, h, n))
      BY <2>2, <3>3, <3>5
    <3> QED BY <2>1, <2>4, <3>6, BetweenDist
  <2>5. \A i \in 0..n-1 : i \in Between(m, t, n) => (sqMem'[s][i] = one <=> sqMem[s][i] = one)
    BY <2>4
  <2>6. Between(m, t, n) \subseteq 0..n-1
    BY DEF Between
  <2>7. {i \in Between(m, t, n) : sqMem'[s][i] = one} = {i \in Between(m, t, n) : sqMem[s][i] = one}
    BY <2>5, <2>6
  <2> QED BY <1>2, <2>7 DEF Unfetched
<1> QED BY <1>1, <1>2

(* Unfolding the step once. *)
LEMMA ReapShape ==
  ASSUME ServiceInvariant, NEW c \in Q, Reap(c)
  PROVE  \E e, D : Reaps(c, e, D)
<1> USE DEF ServiceInvariant, WorkInvariant, Inductive
<1>0. 0 \in Q /\ 0 \notin IoQ /\ IoQ \subseteq Q
  BY Consts
<1>1. Takes(c)
  BY EntriesTaken
<1>2. PICK e : e = cqMem[c][gCqHead[c]]
  OBVIOUS
<1>3. gCqHead[c] \in Unread(c)
  BY <1>1 DEF Takes
<1>4. /\ e.sqid \in Q /\ e.cmd \in Cmd /\ e.cmd \in open[e.sqid]
      /\ Places(e.sqid, e.cmd) = 1 /\ Unfetched(e.sqid, e.cmd) = {}
  BY <1>2, <1>3, OneCompletion
<1>5. /\ e.sqid = 0 <=> c = 0
      /\ c = 0 => e.cmd \in AdminCmd
      /\ sq[e.sqid].live => Past(e.sqid, e.sqHead) <= Past(e.sqid, sq[e.sqid].head)
  BY <1>2, <1>3 DEF EntriesKnown, EntryKnown
<1>6. c = 0 => e.cmd.q \in IoQ
  BY <1>5, Commands
<1>7. e.sqHead \in Nat /\ e.sqHead < SqSize[e.sqid]
  <2>1. gCqHead[c] \in 0..CqSize[c]-1
    BY <1>3, UnreadFacts
  <2>2. e \in GoodEntry
    BY <1>2, <2>1 DEF EntriesOK
  <2> QED BY <2>2 DEF GoodEntry, Entry
<1>8. PICK D : D = IF e.sqid = 0 /\ e.ok /\ e.cmd.op = "deleteSq" THEN {e.cmd.q} ELSE {}
  OBVIOUS
<1>9. /\ UNCHANGED <<en, aer, sq, cq, pools, taking, gTail>>
      /\ gSqHead' = [gSqHead EXCEPT ![e.sqid] = e.sqHead]
      /\ sqMem' = [sqMem EXCEPT ![e.sqid] =
           [i \in 0..SqSize[e.sqid]-1 |->
              IF i \in Between(gSqHead[e.sqid], e.sqHead, SqSize[e.sqid])
                THEN NoCmd ELSE sqMem[e.sqid][i]]]
      /\ open' = [q \in Q |-> IF q \in D THEN {}
                              ELSE IF q = e.sqid THEN open[q] \ {e.cmd} ELSE open[q]]
      /\ D # {} => \A d \in gCq : ~Sees(d)
      /\ gSq' = IF e.sqid = 0 /\ e.ok /\ e.cmd.op = "createSq" THEN gSq \cup {e.cmd.q}
                ELSE IF e.sqid = 0 /\ e.ok /\ e.cmd.op = "deleteSq" THEN gSq \ {e.cmd.q} ELSE gSq
      /\ gCq' = IF e.sqid = 0 /\ e.ok /\ e.cmd.op = "createCq" THEN gCq \cup {e.cmd.q}
                ELSE IF e.sqid = 0 /\ e.ok /\ e.cmd.op = "deleteCq" THEN gCq \ {e.cmd.q} ELSE gCq
  BY <1>2, <1>8 DEF Reap, Looks, regs, rings, holder
<1>10. /\ gSqHead'[e.sqid] = e.sqHead
       /\ \A p \in Q : p # e.sqid => gSqHead'[p] = gSqHead[p] /\ sqMem'[p] = sqMem[p]
       /\ sqMem'[e.sqid] =
            [i \in 0..SqSize[e.sqid]-1 |->
              IF i \in Between(gSqHead[e.sqid], e.sqHead, SqSize[e.sqid])
                THEN NoCmd ELSE sqMem[e.sqid][i]]
  BY <1>4, <1>9 DEF TypeOK, DriverOK, MemoryOK
<1>11. ASSUME NEW p \in Q, NEW one \in Cmd
       PROVE  Unfetched(p, one)' = Unfetched(p, one)
  <2>1. CASE p = e.sqid
    BY <1>4, <1>5, <1>7, <1>9, <1>10, <2>1, ReapClears
  <2>2. CASE p # e.sqid
    BY <1>9, <1>10, <2>2, UnfetchedStay
  <2> QED BY <2>1, <2>2
<1>12. D # {} => \A d \in gCq : Unread(d) = {}
  <2>1. gCq \subseteq Q
    BY <1>0 DEF TypeOK, DriverOK
  <2> QED BY <1>9, <2>1, UnreadIsSeen
<1>13. \A p \in Q : open'[p] = IF p \in D THEN {}
                               ELSE IF p = e.sqid THEN open[p] \ {e.cmd} ELSE open[p]
  BY <1>9
<1>14. gSq' = IF c = 0 /\ e.ok /\ e.cmd.op = "createSq" THEN gSq \cup {e.cmd.q} ELSE gSq \ D
  BY <1>5, <1>8, <1>9
<1> QED BY <1>1, <1>2, <1>4, <1>5, <1>6, <1>7, <1>8, <1>9, <1>10, <1>11, <1>12, <1>13, <1>14
    DEF Reaps

(* The driver's view of a submission ring moves on to the head it read. *)
LEMMA ReapPast ==
  ASSUME TypeOK, NEW c \in Q, NEW e, NEW D, Reaps(c, e, D), NEW p \in Q, NEW h \in Nat,
         h < SqSize[p], p = e.sqid => Past(p, e.sqHead) <= Past(p, h)
  PROVE  /\ p # e.sqid => Past(p, h)' = Past(p, h)
         /\ p = e.sqid => Past(p, h)' = Past(p, h) - Past(p, e.sqHead)
         /\ Past(p, h) \in Nat /\ Past(p, e.sqHead) \in Int
<1>1. /\ gSqHead[p] \in Nat /\ gSqHead[p] < SqSize[p] /\ SqSize[p] \in Nat \ {0}
      /\ e.sqHead \in Nat
  BY SqFacts DEF Reaps
<1>2. Past(p, h) \in Nat /\ Past(p, e.sqHead) \in Int
  <2>1. Past(p, h) \in Nat
    BY <1>1, DistOnRing DEF Past
  <2> QED BY <1>1, <2>1 DEF Past, Dist
<1>3. CASE p # e.sqid
  BY <1>2, <1>3 DEF Reaps, Past
<1>4. CASE p = e.sqid
  <2>1. e.sqHead < SqSize[p] /\ gSqHead'[p] = e.sqHead
    BY <1>4 DEF Reaps
  <2>2. Dist(e.sqHead, h, SqSize[p])
          = Dist(gSqHead[p], h, SqSize[p]) - Dist(gSqHead[p], e.sqHead, SqSize[p])
    BY <1>1, <1>4, <2>1, DistFrom DEF Past
  <2> QED BY <1>2, <1>4, <2>1, <2>2 DEF Past
<1> QED BY <1>3, <1>4, <1>2

(* Entries that stay are in the order they were in. *)
LEMMA ReapEntries ==
  ASSUME TypeOK, JobsAreIo, NEW c \in Q, NEW e, NEW D, Reaps(c, e, D), NEW d \in Q
  PROVE  /\ cq'[d].live = cq[d].live /\ Unread(d)' \subseteq Unread(d)
         /\ \A i \in Unread(d)' : cqMem'[d][i] = cqMem[d][i]
         /\ \A i \in Unread(d)' : \A k \in Unread(d)' :
              /\ Ahead(d, i)' <= Ahead(d, k)' <=> Ahead(d, i) <= Ahead(d, k)
              /\ Ahead(d, i)' < Ahead(d, k)' <=> Ahead(d, i) < Ahead(d, k)
         /\ d = c => /\ gCqHead[c] \in Unread(c) /\ Unread(c)' = Unread(c) \ {gCqHead[c]}
                     /\ \A i \in Unread(c) : Ahead(c, gCqHead[c]) <= Ahead(c, i)
                                             /\ ~(Ahead(c, i) < Ahead(c, gCqHead[c]))
         /\ d # c => Unread(d)' = Unread(d)
<1>1. /\ \A i \in Unread(d) : Ahead(d, i) \in Nat
      /\ \A i \in Unread(c) : Ahead(c, i) \in Nat
  BY UnreadFacts
<1>2. Takes(c) /\ cq' = cq
  BY DEF Reaps
<1>3. CASE d # c
  BY <1>1, <1>2, <1>3 DEF Takes, SameEntries
<1>4. CASE d = c
  <2>1. /\ gCqHead[c] \in Unread(c) /\ Ahead(c, gCqHead[c]) = 0
        /\ Unread(c)' = Unread(c) \ {gCqHead[c]}
        /\ \A i \in Unread(c)' : cqMem'[c][i] = cqMem[c][i] /\ Ahead(c, i)' = Ahead(c, i) - 1
    BY <1>2 DEF Takes
  <2>2. \A i \in Unread(c)' : \A k \in Unread(c)' :
              /\ Ahead(d, i)' <= Ahead(d, k)' <=> Ahead(d, i) <= Ahead(d, k)
              /\ Ahead(d, i)' < Ahead(d, k)' <=> Ahead(d, i) < Ahead(d, k)
    <3> SUFFICES ASSUME NEW i \in Unread(c)', NEW k \in Unread(c)'
                 PROVE  /\ Ahead(d, i)' <= Ahead(d, k)' <=> Ahead(d, i) <= Ahead(d, k)
                        /\ Ahead(d, i)' < Ahead(d, k)' <=> Ahead(d, i) < Ahead(d, k)
      OBVIOUS
    <3>1. Ahead(d, i) \in Nat /\ Ahead(d, k) \in Nat
      BY <1>1, <1>4, <2>1
    <3>2. Ahead(d, i)' = Ahead(d, i) - 1 /\ Ahead(d, k)' = Ahead(d, k) - 1
      BY <1>4, <2>1
    <3> QED BY <3>1, <3>2
  <2>3. \A i \in Unread(c) : Ahead(c, gCqHead[c]) <= Ahead(c, i)
                             /\ ~(Ahead(c, i) < Ahead(c, gCqHead[c]))
    BY <1>1, <2>1
  <2> QED BY <1>2, <1>4, <2>1, <2>2, <2>3
<1> QED BY <1>3, <1>4

(* The head an entry reports is at or behind the controller's. *)
LEMMA ReapOrder ==
  ASSUME ServiceInvariant, NEW c \in Q, NEW e, NEW D, Reaps(c, e, D)
  PROVE  SqInOrder'
<1> USE DEF ServiceInvariant, WorkInvariant, Inductive
<1> SUFFICES ASSUME NEW p \in Q, sq[p].live
             PROVE  /\ Past(p, sq[p].head)' <= Past(p, sq[p].tail)'
                    /\ Past(p, sq[p].tail)' <= Past(p, gTail[p])'
  BY DEF SqInOrder, Reaps
<1>1. PICK h \in Nat, t \in Nat, g \in Nat : h = sq[p].head /\ t = sq[p].tail /\ g = gTail[p]
  BY SqFacts
<1>2. h < SqSize[p] /\ t < SqSize[p] /\ g < SqSize[p]
  BY <1>1, SqFacts
<1>3. /\ Past(p, sq[p].head)' = Past(p, h)' /\ Past(p, sq[p].tail)' = Past(p, t)'
      /\ Past(p, gTail[p])' = Past(p, g)'
  BY <1>1 DEF Reaps, Past
<1>4. Past(p, h) <= Past(p, t) /\ Past(p, t) <= Past(p, g)
  BY <1>1 DEF SqInOrder
<1>5. Past(p, h) \in Nat /\ Past(p, t) \in Nat /\ Past(p, g) \in Nat
  BY <1>2, SqFacts, DistOnRing DEF Past
<1>6. CASE p # e.sqid
  <2>1. Past(p, h)' = Past(p, h) /\ Past(p, t)' = Past(p, t) /\ Past(p, g)' = Past(p, g)
    BY <1>2, <1>6, ReapPast
  <2> QED BY <1>3, <1>4, <2>1
<1>7. CASE p = e.sqid
  <2>1. Past(p, e.sqHead) <= Past(p, h)
    <3>1. gCqHead[c] \in Unread(c) /\ e = cqMem[c][gCqHead[c]]
      BY DEF Reaps, Takes
    <3> QED BY <1>1, <1>7, <3>1 DEF EntriesKnown, EntryKnown
  <2>2. Past(p, e.sqHead) \in Int /\ Past(p, h)' = Past(p, h) - Past(p, e.sqHead)
    BY <1>2, <1>7, <2>1, ReapPast
  <2>3. Past(p, e.sqHead) <= Past(p, t) /\ Past(p, e.sqHead) <= Past(p, g)
    BY <1>4, <1>5, <2>1, <2>2
  <2>4. Past(p, t)' = Past(p, t) - Past(p, e.sqHead)
    BY <1>2, <1>7, <2>3, ReapPast
  <2>5. Past(p, g)' = Past(p, g) - Past(p, e.sqHead)
    BY <1>2, <1>7, <2>3, ReapPast
  <2> QED BY <1>3, <1>4, <1>5, <2>2, <2>4, <2>5
<1> QED BY <1>6, <1>7

(* What the entries left say of their queues. *)
LEMMA ReapKnown ==
  ASSUME ServiceInvariant, NEW c \in Q, NEW e, NEW D, Reaps(c, e, D)
  PROVE  EntriesKnown'
<1> USE DEF ServiceInvariant, WorkInvariant, Inductive
<1> SUFFICES ASSUME NEW d \in Q, NEW i \in Unread(d)'
             PROVE  EntryKnown(d, i)'
  BY DEF EntriesKnown
<1>0. /\ UNCHANGED <<sq, cq>> /\ gCqHead[c] \in Unread(c) /\ e = cqMem[c][gCqHead[c]]
  BY DEF Reaps, Takes
<1>1. /\ i \in Unread(d) /\ cqMem'[d][i] = cqMem[d][i]
      /\ \A k \in Unread(d)' : /\ k \in Unread(d) /\ cqMem'[d][k] = cqMem[d][k]
                               /\ Ahead(d, i)' <= Ahead(d, k)' => Ahead(d, i) <= Ahead(d, k)
      /\ d = c => Ahead(c, gCqHead[c]) <= Ahead(c, i)
  BY ReapEntries
<1>2. PICK f : f = cqMem[d][i]
  OBVIOUS
<1>3. f.sqid \in Q
  BY <1>1, <1>2, OneCompletion
<1>heads. \A k \in Unread(d) : /\ cqMem[d][k].sqHead \in Nat
                               /\ cqMem[d][k].sqHead < SqSize[cqMem[d][k].sqid]
  <2>1. \A k \in Unread(d) : k \in 0..CqSize[d]-1
    BY UnreadFacts
  <2> QED BY <2>1 DEF EntriesOK, GoodEntry, Entry
<1>4. /\ f.cmd \in Cmd /\ (f.sqid = 0 <=> d = 0) /\ (d = 0 => f.cmd \in AdminCmd)
      /\ d # 0 => d \in gCq
      /\ sq[f.sqid].live =>
           /\ sq[f.sqid].cqid = d
           /\ Past(f.sqid, f.sqHead) <= Past(f.sqid, sq[f.sqid].head)
           /\ \A k \in Unread(d) : cqMem[d][k].sqid = f.sqid /\ Ahead(d, i) <= Ahead(d, k)
                => Past(f.sqid, f.sqHead) <= Past(f.sqid, cqMem[d][k].sqHead)
  BY <1>1, <1>2 DEF EntriesKnown, EntryKnown
<1>5. ASSUME d # 0
      PROVE  d \in gCq'
  <2>1. d \in gCq
    BY <1>4, <1>5
  <2>2. ASSUME c = 0, e.ok, e.cmd.op = "deleteCq", e.cmd.q = d
        PROVE  FALSE
    <3>1. d \in IoQ /\ gCqHead[0] \in Unread(0) /\ Reports(gCqHead[0], "deleteCq", d)
      BY <1>0, <1>5, <2>2 DEF Reports, Q
    <3>2. ~cq[d].live
      BY <3>1 DEF ReportsTrue
    <3> QED BY <1>1, <3>2, UnreadFacts
  <2> QED BY <2>1, <2>2 DEF Reaps
<1>6. ASSUME sq[f.sqid].live
      PROVE  /\ Past(f.sqid, f.sqHead)' <= Past(f.sqid, sq[f.sqid].head)'
             /\ \A k \in Unread(d)' :
                  cqMem'[d][k].sqid = f.sqid /\ Ahead(d, i)' <= Ahead(d, k)'
                    => Past(f.sqid, f.sqHead)' <= Past(f.sqid, cqMem[d][k].sqHead)'
  <2>1. PICK p \in Q : p = f.sqid
    BY <1>3
  <2>2. PICK h \in Nat : h = sq[p].head
    BY SqFacts
  <2>3. h < SqSize[p] /\ f.sqHead \in Nat /\ f.sqHead < SqSize[p]
    BY <1>1, <1>2, <1>heads, <2>1, <2>2, SqFacts
  <2>4. Past(p, sq[p].head)' = Past(p, h)'
    BY <1>0, <2>2 DEF Past
  <2>5. Past(p, f.sqHead) <= Past(p, h)
    BY <1>4, <1>6, <2>1, <2>2
  <2>6. p = e.sqid => Past(p, e.sqHead) <= Past(p, f.sqHead)
    <3>1. ASSUME p = e.sqid
          PROVE  Past(p, e.sqHead) <= Past(p, f.sqHead)
      <4>1. sq[p].cqid = c
        BY <1>0, <1>6, <2>1, <3>1 DEF EntriesKnown, EntryKnown
      <4>2. d = c
        BY <1>4, <1>6, <2>1, <4>1
      <4>3. \A k \in Unread(c) : cqMem[c][k].sqid = e.sqid /\ Ahead(c, gCqHead[c]) <= Ahead(c, k)
              => Past(e.sqid, e.sqHead) <= Past(e.sqid, cqMem[c][k].sqHead)
        BY <1>0, <1>6, <2>1, <3>1 DEF EntriesKnown, EntryKnown
      <4>4. i \in Unread(c) /\ Ahead(c, gCqHead[c]) <= Ahead(c, i) /\ f = cqMem[c][i]
        BY <1>1, <1>2, <4>2
      <4> QED BY <2>1, <3>1, <4>3, <4>4
    <3> QED BY <3>1
  <2>7. Past(p, f.sqHead) \in Nat /\ Past(p, e.sqHead) \in Int
    BY <2>3, <2>6, ReapPast
  <2>8. ASSUME NEW x \in Nat, x < SqSize[p], Past(p, f.sqHead) <= Past(p, x)
        PROVE  Past(p, f.sqHead)' <= Past(p, x)'
    <3>1. Past(p, x) \in Nat
      BY <2>8, SqFacts, DistOnRing DEF Past
    <3>2. p = e.sqid => Past(p, e.sqHead) <= Past(p, x)
      BY <2>6, <2>7, <2>8, <3>1
    <3>3. /\ p # e.sqid => Past(p, x)' = Past(p, x)
          /\ p = e.sqid => Past(p, x)' = Past(p, x) - Past(p, e.sqHead)
      BY <2>8, <3>2, ReapPast
    <3>4. /\ p # e.sqid => Past(p, f.sqHead)' = Past(p, f.sqHead)
          /\ p = e.sqid => Past(p, f.sqHead)' = Past(p, f.sqHead) - Past(p, e.sqHead)
      BY <2>3, <2>6, ReapPast
    <3> QED BY <2>7, <2>8, <3>1, <3>3, <3>4
  <2>9. Past(p, f.sqHead)' <= Past(p, sq[p].head)'
    BY <2>3, <2>4, <2>5, <2>8
  <2>10. ASSUME NEW k \in Unread(d)', cqMem'[d][k].sqid = p, Ahead(d, i)' <= Ahead(d, k)'
         PROVE  Past(p, f.sqHead)' <= Past(p, cqMem[d][k].sqHead)'
    <3>1. PICK x \in Nat : x = cqMem[d][k].sqHead
      BY <1>1, <1>heads
    <3>2. x < SqSize[p] /\ Past(p, f.sqHead) <= Past(p, x)
      BY <1>1, <1>4, <1>6, <1>heads, <2>1, <2>10, <3>1
    <3>3. Past(p, cqMem[d][k].sqHead)' = Past(p, x)'
      BY <1>1, <3>1 DEF Past
    <3> QED BY <2>8, <3>2, <3>3
  <2> QED BY <2>1, <2>9, <2>10
<1>7. EntryKnown(d, i)' =
       (/\ f.cmd \in Cmd /\ (f.sqid = 0 <=> d = 0)
        /\ d = 0 => f.cmd \in AdminCmd
        /\ d # 0 => d \in gCq'
        /\ sq'[f.sqid].live =>
           /\ sq'[f.sqid].cqid = d
           /\ Past(f.sqid, f.sqHead)' <= Past(f.sqid, sq[f.sqid].head)'
           /\ \A k \in Unread(d)' :
                cqMem'[d][k].sqid = f.sqid /\ Ahead(d, i)' <= Ahead(d, k)'
                  => Past(f.sqid, f.sqHead)' <= Past(f.sqid, cqMem[d][k].sqHead)')
  BY <1>1, <1>2 DEF EntryKnown
<1> QED BY <1>0, <1>4, <1>5, <1>6, <1>7

(* What the entries left report, and what the driver then knows. *)
LEMMA ReapReports ==
  ASSUME ServiceInvariant, NEW c \in Q, NEW e, NEW D, Reaps(c, e, D)
  PROVE  ReportsTrue' /\ DriverKnows'
<1> USE DEF ServiceInvariant, WorkInvariant, Inductive
<1>0. /\ 0 \in Q /\ IoQ \subseteq Q /\ 0 \notin IoQ
  BY Consts
<1>1. /\ UNCHANGED <<en, sq, cq>> /\ gCqHead[c] \in Unread(c) /\ e = cqMem[c][gCqHead[c]]
      /\ cq[c].live
  BY DEF Reaps, Takes
<1>2. /\ Unread(0)' \subseteq Unread(0) /\ \A i \in Unread(0)' : cqMem'[0][i] = cqMem[0][i]
      /\ \A i \in Unread(0)' : \A k \in Unread(0)' :
           Ahead(0, i)' < Ahead(0, k)' <=> Ahead(0, i) < Ahead(0, k)
      /\ c = 0 => /\ Unread(0)' = Unread(0) \ {gCqHead[0]}
                  /\ \A i \in Unread(0) : ~(Ahead(0, i) < Ahead(0, gCqHead[0]))
      /\ c # 0 => Unread(0)' = Unread(0)
  BY <1>0, ReapEntries
<1>3. \A i \in Unread(0)' : \A op, q : Reports(i, op, q)' <=> Reports(i, op, q)
  BY <1>2 DEF Reports
<1>4. ReportsTrue'
  <2> SUFFICES ASSUME NEW i \in Unread(0)', NEW q \in IoQ
               PROVE  /\ Reports(i, "createCq", q)' => cq'[q].live
                      /\ Reports(i, "deleteCq", q)' => ~cq'[q].live
                      /\ Reports(i, "deleteSq", q)' => ~sq'[q].live
                      /\ Reports(i, "createSq", q)' =>
                           /\ sq'[q].live /\ sq'[q].cqid = cqMem'[0][i].cmd.cq
                           /\ \A k \in Unread(0)' : Reports(k, "createCq", cqMem[0][i].cmd.cq)'
                                                     => Ahead(0, k)' < Ahead(0, i)'
    BY DEF ReportsTrue
  <2>1. i \in Unread(0) /\ cqMem'[0][i] = cqMem[0][i]
    BY <1>2
  <2>2. /\ Reports(i, "createCq", q) => cq[q].live
        /\ Reports(i, "deleteCq", q) => ~cq[q].live
        /\ Reports(i, "deleteSq", q) => ~sq[q].live
        /\ Reports(i, "createSq", q) =>
             /\ sq[q].live /\ sq[q].cqid = cqMem[0][i].cmd.cq
             /\ \A k \in Unread(0) : Reports(k, "createCq", cqMem[0][i].cmd.cq)
                                      => Ahead(0, k) < Ahead(0, i)
    BY <2>1 DEF ReportsTrue
  <2>3. \A k \in Unread(0)' : Reports(k, "createCq", cqMem[0][i].cmd.cq)'
                               <=> Reports(k, "createCq", cqMem[0][i].cmd.cq)
    BY <1>2, <2>1 DEF Reports
  <2>4. Reports(i, "createSq", q)' =>
          /\ sq'[q].live /\ sq'[q].cqid = cqMem'[0][i].cmd.cq
          /\ \A k \in Unread(0)' : Reports(k, "createCq", cqMem[0][i].cmd.cq)'
                                    => Ahead(0, k)' < Ahead(0, i)'
    BY <1>1, <1>2, <1>3, <2>1, <2>2, <2>3
  <2> QED BY <1>1, <1>3, <2>2, <2>4
<1>5. en
  BY <1>1 DEF DriverKnows
<1>6. \A p \in Q : open'[p] \subseteq open[p] /\ (p \in D => open'[p] = {})
  BY DEF Reaps
<1>7. ASSUME NEW q \in IoQ, open'[q] # {}
      PROVE  q \in gSq'
  <2>1. q \in gSq /\ q \notin D
    BY <1>0, <1>6, <1>7 DEF DriverKnows
  <2> QED BY <2>1 DEF Reaps
<1>8. ASSUME NEW q \in IoQ, q \in gSq', sq[q].live
      PROVE  sq[q].cqid \in gCq'
  <2>1. sq[q].cqid \in IoQ /\ cq[sq[q].cqid].live
    <3>1. WorkMarked(q)
      BY <1>0
    <3> QED BY <1>8, <3>1 DEF WorkMarked, QueuesLinked
  <2>2. CASE q \in gSq
    <3>1. sq[q].cqid \in gCq
      BY <1>8, <2>2 DEF DriverKnows
    <3>2. ~(c = 0 /\ e.ok /\ e.cmd.op = "deleteCq" /\ e.cmd.q = sq[q].cqid)
      BY <1>1, <2>1 DEF ReportsTrue, Reports
    <3> QED BY <3>1, <3>2 DEF Reaps
  <2>3. CASE q \notin gSq
    <3>1. c = 0 /\ e.ok /\ e.cmd.op = "createSq" /\ e.cmd.q = q
      BY <1>8, <2>3 DEF Reaps
    <3>2. gCqHead[0] \in Unread(0) /\ Reports(gCqHead[0], "createSq", q)
      BY <1>1, <3>1 DEF Reports
    <3>3. /\ sq[q].cqid = e.cmd.cq
          /\ \A k \in Unread(0) : Reports(k, "createCq", e.cmd.cq)
                                   => Ahead(0, k) < Ahead(0, gCqHead[0])
      BY <1>1, <3>1, <3>2 DEF ReportsTrue
    <3>4. \A k \in Unread(0) : ~Reports(k, "createCq", sq[q].cqid)
      BY <1>2, <3>1, <3>3
    <3>5. sq[q].cqid \in gCq
      BY <2>1, <3>4 DEF DriverKnows
    <3> QED BY <3>1, <3>5 DEF Reaps
  <2> QED BY <2>2, <2>3
<1>9. ASSUME NEW q \in IoQ, cq[q].live
      PROVE  q \in gCq' \/ \E i \in Unread(0)' : Reports(i, "createCq", q)'
  <2>1. CASE q \in gCq
    <3>1. ~(c = 0 /\ e.ok /\ e.cmd.op = "deleteCq" /\ e.cmd.q = q)
      BY <1>1, <1>9 DEF ReportsTrue, Reports
    <3> QED BY <2>1, <3>1 DEF Reaps
  <2>2. ASSUME NEW i \in Unread(0), Reports(i, "createCq", q)
        PROVE  q \in gCq' \/ \E k \in Unread(0)' : Reports(k, "createCq", q)'
    <3>1. CASE i \in Unread(0)'
      BY <1>3, <2>2, <3>1
    <3>2. CASE i \notin Unread(0)'
      <4>1. c = 0 /\ i = gCqHead[0]
        BY <1>2, <2>2, <3>2
      <4>2. e.ok /\ e.cmd.op = "createCq" /\ e.cmd.q = q
        BY <1>1, <2>2, <4>1 DEF Reports
      <4> QED BY <4>1, <4>2 DEF Reaps
    <3> QED BY <3>1, <3>2
  <2> QED BY <1>9, <2>1, <2>2 DEF DriverKnows
<1>10. DriverKnows'
  <2>1. en => sq[0].live
    BY DEF DriverKnows
  <2> QED BY <1>1, <1>5, <1>7, <1>8, <1>9, <2>1 DEF DriverKnows
<1> QED BY <1>4, <1>10

(* What waits in the admin ring. *)
LEMMA ReapWaits ==
  ASSUME ServiceInvariant, NEW c \in Q, NEW e, NEW D, Reaps(c, e, D)
  PROVE  OneAtATime' /\ CreationsWait' /\ DeletionsWait'
<1> USE DEF ServiceInvariant, WorkInvariant, Inductive
<1>0. /\ 0 \in Q /\ IoQ \subseteq Q /\ 0 \notin IoQ
      /\ \A a \in AdminCmd : a \in Cmd /\ a.q \in IoQ
  BY Commands, Consts DEF Cmd
<1>1. /\ UNCHANGED <<sq, cq>>
      /\ \A p \in Q : open'[p] \subseteq open[p]
      /\ \A one \in Cmd : Unfetched(0, one)' = Unfetched(0, one)
  BY <1>0 DEF Reaps
<1>2. OneAtATime'
  BY <1>0, <1>1 DEF OneAtATime
<1>3. CreationsWait'
  <2> SUFFICES ASSUME NEW a \in AdminCmd, a.op = "createSq", Unfetched(0, a)' # {}
               PROVE  a.q \notin gSq'
    BY DEF CreationsWait
  <2>1. Unfetched(0, a) # {} /\ a \in Cmd
    BY <1>0, <1>1
  <2>2. a.q \notin gSq /\ a \in open[0]
    BY <1>0, <2>1, OneUnfetched DEF CreationsWait
  <2>3. ASSUME c = 0, e.ok, e.cmd.op = "createSq", e.cmd.q = a.q
        PROVE  FALSE
    <3>1. e.cmd \in open[0] /\ Unfetched(0, e.cmd) = {}
      BY <2>3 DEF Reaps
    <3>2. e.cmd = a
      BY <2>2, <2>3, <3>1 DEF OneAtATime, SqOps
    <3> QED BY <2>1, <3>1, <3>2
  <2> QED BY <2>2, <2>3 DEF Reaps
<1>4. DeletionsWait'
  <2> SUFFICES ASSUME NEW a \in AdminCmd, NEW i \in Unfetched(0, a)', a.op = "deleteCq",
                      cq'[a.q].live
               PROVE  /\ \A k \in Unread(a.q)' : sq'[cqMem'[a.q][k].sqid].live
                      /\ \A b \in AdminCmd : \A k \in Unfetched(0, b)' :
                           /\ b.op = "deleteSq" /\ sq'[b.q].live /\ sq'[b.q].cqid = a.q
                           /\ open'[b.q] # {}
                           => Dist(sq'[0].head, i, SqSize[0]) < Dist(sq'[0].head, k, SqSize[0])
    BY DEF DeletionsWait
  <2>1. i \in Unfetched(0, a) /\ cq[a.q].live /\ a.q \in Q
    BY <1>0, <1>1
  <2>2. \A k \in Unread(a.q)' : k \in Unread(a.q) /\ cqMem'[a.q][k] = cqMem[a.q][k]
    BY <2>1, ReapEntries
  <2>3. /\ \A k \in Unread(a.q) : sq[cqMem[a.q][k].sqid].live
        /\ \A b \in AdminCmd : \A k \in Unfetched(0, b) :
             /\ b.op = "deleteSq" /\ sq[b.q].live /\ sq[b.q].cqid = a.q
             /\ open[b.q] # {}
             => Dist(sq[0].head, i, SqSize[0]) < Dist(sq[0].head, k, SqSize[0])
    BY <2>1 DEF DeletionsWait
  <2>4. \A b \in AdminCmd : /\ Unfetched(0, b)' = Unfetched(0, b)
                            /\ open'[b.q] # {} => open[b.q] # {}
    BY <1>0, <1>1
  <2> QED BY <1>1, <2>2, <2>3, <2>4
<1> QED BY <1>2, <1>3, <1>4

(* Nothing is left of the commands of a queue whose deletion is reported. *)
LEMMA DeletedGone ==
  ASSUME ServiceInvariant, NEW c \in Q, NEW e, NEW D, Reaps(c, e, D), NEW p \in D
  PROVE  /\ p \in IoQ /\ c = 0 /\ ~sq[p].live
         /\ \A one \in Cmd : Places(p, one) = 0 /\ Completions(p, one) = {}
<1> USE DEF ServiceInvariant, WorkInvariant, Inductive
<1>0. 0 \in Q /\ IoQ \subseteq Q /\ 0 \notin IoQ
  BY Consts
<1>1. /\ c = 0 /\ e.ok /\ e.cmd.op = "deleteSq" /\ e.cmd.q = p /\ p \in IoQ
      /\ \A d \in gCq : Unread(d) = {}
  BY DEF Reaps
<1>2. ~sq[p].live
  <2>1. gCqHead[0] \in Unread(0) /\ Reports(gCqHead[0], "deleteSq", p)
    BY <1>1 DEF Reaps, Takes, Reports
  <2> QED BY <1>1, <2>1 DEF ReportsTrue
<1>3. ASSUME NEW one \in Cmd
      PROVE  Completions(p, one) = {}
  <2>1. ASSUME NEW d \in Q, NEW i \in Unread(d), cqMem[d][i].sqid = p
        PROVE  FALSE
    <3>1. d \in gCq
      BY <1>0, <1>1, <2>1 DEF EntriesKnown, EntryKnown
    <3> QED BY <1>1, <2>1, <3>1
  <2>2. Completions(p, one) = Entries(p, one)
    BY CompletionsAre
  <2> QED BY <2>1, <2>2 DEF Entries
<1>4. ASSUME NEW one \in Cmd
      PROVE  Places(p, one) = 0
  <2>1. \A j \in Jobs \cup taking : j.sqid # p
    BY <1>2 DEF QueuesOutliveJobs
  <2>2. /\ CopiesOf(untaken, p, one) = {} /\ CopiesOf(running, p, one) = {}
        /\ CopiesOf(flushing, p, one) = {} /\ CopiesOf(finished, p, one) = {}
        /\ CopiesOf(taking, p, one) = {}
    BY <2>1 DEF CopiesOf, Jobs
  <2>3. /\ Copies(untaken, p, one) = 0 /\ Copies(running, p, one) = 0
        /\ Copies(flushing, p, one) = 0 /\ Copies(finished, p, one) = 0
        /\ Copies(taking, p, one) = 0
    BY <2>2, CopiesNat DEF JobsAreIo
  <2>4. Unfetched(p, one) = {}
    BY <1>2 DEF Unfetched
  <2>5. Cardinality(Unfetched(p, one)) = 0 /\ Cardinality(Completions(p, one)) = 0
    BY <1>3, <2>4, FS_EmptySet
  <2> QED BY <2>3, <2>5 DEF Places
<1> QED BY <1>1, <1>2, <1>3, <1>4

(* The command taken is outstanding no more; every other is where it was. *)
LEMMA ReapOnce ==
  ASSUME ServiceInvariant, Inductive', NEW c \in Q, NEW e, NEW D, Reaps(c, e, D)
  PROVE  Counted' /\ AnsweredOnce'
<1> USE DEF ServiceInvariant, WorkInvariant, Inductive
<1>0. /\ 0 \in Q /\ 0 \notin IoQ /\ gCqHead[c] \in Nat
  BY Consts DEF TypeOK, DriverOK
<1>1. /\ UNCHANGED <<en, aer, sq>> /\ e.sqid \in Q /\ e.cmd \in Cmd /\ e.cmd \in open[e.sqid]
      /\ (e.sqid = 0 <=> c = 0) /\ Places(e.sqid, e.cmd) = 1
      /\ \A p \in Q : open'[p] = IF p \in D THEN {}
                                 ELSE IF p = e.sqid THEN open[p] \ {e.cmd} ELSE open[p]
  BY DEF Reaps
<1>2. \A p, one : Held(p, one)' = Held(p, one)
  BY DEF Reaps, pools, Held, Copies
<1>3. ASSUME NEW p \in Q, NEW one \in Cmd
      PROVE  /\ IsFiniteSet(Completions(p, one)')
             /\ Cardinality(Completions(p, one)')
                  = Cardinality(Completions(p, one)) - Match(e, p, one)
  <2>1. IsFiniteSet(Completions(p, one)) /\ Takes(c) /\ e = Looks(c)
    BY DEF Counted, Reaps, Looks
  <2> QED BY <1>0, <2>1, CompletionsLose
<1>4. Counted'
  <2>1. open'[0] \subseteq open[0]
    BY <1>0, <1>1
  <2> QED BY <1>3, <2>1, FS_Subset DEF Counted
<1>5. ASSUME NEW p \in Q, NEW one \in Cmd
      PROVE  Places(p, one)' = Places(p, one) - Match(e, p, one) /\ Places(p, one) \in Nat
  <2>1. Cardinality(Unfetched(p, one)') \in Nat
    BY UnfetchedLater
  <2>2. /\ Places(p, one) = Cardinality(Unfetched(p, one)) + Cardinality(Completions(p, one))
                              + Held(p, one)
        /\ Places(p, one)' = Cardinality(Unfetched(p, one)')
                               + Cardinality(Completions(p, one)') + Held(p, one)'
        /\ Cardinality(Unfetched(p, one)) \in Nat /\ Cardinality(Completions(p, one)) \in Nat
        /\ Cardinality(Completions(p, one)') \in Nat
        /\ Held(p, one) \in Nat /\ Held(p, one)' \in Nat
    BY <1>4, <2>1, PlacesSum
  <2>3. Unfetched(p, one)' = Unfetched(p, one) /\ Held(p, one)' = Held(p, one)
    BY <1>2 DEF Reaps
  <2>4. Cardinality(Completions(p, one)') = Cardinality(Completions(p, one)) - Match(e, p, one)
    BY <1>3
  <2>5. Match(e, p, one) \in Nat
    BY DEF Match
  <2> QED BY <2>2, <2>3, <2>4, <2>5
<1>6. ASSUME NEW p \in Q, NEW one \in Cmd
      PROVE  IF one \in open'[p]
               THEN \/ Places(p, one)' = 1
                    \/ Places(p, one)' = 0 /\ (~sq'[p].live \/ one.op = "aer")
               ELSE Places(p, one)' = 0
  <2>1. CASE p \in D
    <3>1. Places(p, one) = 0 /\ p # e.sqid
      BY <1>0, <1>1, <2>1, DeletedGone
    <3>2. Places(p, one)' = 0
      BY <1>5, <3>1 DEF Match
    <3> QED BY <1>1, <2>1, <3>2
  <2>2. CASE p \notin D /\ p = e.sqid /\ one = e.cmd
    <3>1. Places(p, one)' = 0
      BY <1>1, <1>5, <2>2 DEF Match
    <3> QED BY <1>1, <2>2, <3>1
  <2>3. CASE p \notin D /\ ~(p = e.sqid /\ one = e.cmd)
    <3>1. Places(p, one)' = Places(p, one)
      BY <1>5, <2>3 DEF Match
    <3>2. one \in open'[p] <=> one \in open[p]
      BY <1>1, <2>3
    <3> QED BY <1>1, <3>1, <3>2 DEF AnsweredOnce
  <2> QED BY <2>1, <2>2, <2>3
<1>7. {a \in open'[0] : a.op = "aer" /\ Places(0, a)' = 0}
        = {a \in open[0] : a.op = "aer" /\ Places(0, a) = 0}
  <2>1. \A a \in open[0] : a \in Cmd
    BY <1>0 DEF TypeOK, DriverOK
  <2>2. 0 \notin D
    BY <1>0, DeletedGone
  <2>3. CASE e.sqid # 0
    <3>1. open'[0] = open[0]
      BY <1>0, <1>1, <2>2, <2>3
    <3>2. \A a \in open[0] : Places(0, a)' = Places(0, a)
      BY <1>0, <1>5, <2>1, <2>3 DEF Match
    <3> QED BY <3>1, <3>2
  <2>4. CASE e.sqid = 0
    <3>1. open'[0] = open[0] \ {e.cmd} /\ Places(0, e.cmd) = 1
      BY <1>0, <1>1, <2>2, <2>4
    <3>2. \A a \in open[0] : a # e.cmd => Places(0, a)' = Places(0, a)
      BY <1>0, <1>5, <2>1 DEF Match
    <3> QED BY <3>1, <3>2
  <2> QED BY <2>3, <2>4
<1>8. en' => Cardinality({a \in open'[0] : a.op = "aer" /\ Places(0, a)' = 0}) = aer'
  BY <1>1, <1>7 DEF AnsweredOnce
<1> QED BY <1>4, <1>6, <1>8 DEF AnsweredOnce

(* Reap keeps the whole invariant. *)
LEMMA ServiceReap ==
  ASSUME ServiceInvariant, Inductive', NEW c \in Q, Reap(c)
  PROVE  ServiceParts' /\ AnsweredOnce'
<1>1. PICK e, D : Reaps(c, e, D)
  BY ReapShape
<1>2. SqInOrder' /\ EntriesKnown'
  BY <1>1, ReapOrder, ReapKnown
<1>3. ReportsTrue' /\ DriverKnows' /\ OneAtATime' /\ CreationsWait' /\ DeletionsWait'
  BY <1>1, ReapReports, ReapWaits
<1>4. Counted' /\ AnsweredOnce'
  BY <1>1, ReapOnce
<1> QED BY <1>2, <1>3, <1>4 DEF ServiceParts

-----------------------------------------------------------------------------
(* Resets, and the invariant as a whole *)

(* A controller just started, or just enabled: nothing is outstanding ... *)
Fresh ==
  /\ untaken = {} /\ running = {} /\ flushing = {} /\ finished = {} /\ taking = {}
  /\ aer = 0 /\ gSq = {} /\ gCq = {} /\ \A q \in Q : open[q] = {}
  /\ \A q \in IoQ : ~sq[q].live /\ ~cq[q].live
  /\ (sq[0].live <=> en) /\ (cq[0].live <=> en)
  /\ sq[0].head = 0 /\ sq[0].tail = 0 /\ gTail[0] = 0 /\ gSqHead[0] = 0
  /\ cq[0].tail = 0 /\ gCqHead[0] = 0

(* ... which is all the invariant asks. *)
LEMMA FreshService == Fresh => ServiceParts /\ NoneParked /\ AnsweredOnce
<1> SUFFICES ASSUME Fresh PROVE ServiceParts /\ NoneParked /\ AnsweredOnce
  OBVIOUS
<1>0. /\ 0 \in Q /\ \A q \in Q : q # 0 => q \in IoQ
      /\ \A a \in AdminCmd : a \in Cmd
  BY Consts DEF Q, Cmd
<1>1. \A n : Between(0, 0, n) = {} /\ Dist(0, 0, n) = 0
  <2>1. \A n : Between(0, 0, n) = {}
    BY DEF Between
  <2>2. \A n : Dist(0, 0, n) = 0
    BY DEF Dist
  <2> QED BY <2>1, <2>2
<1>2. \A c \in Q : Unread(c) = {}
  BY <1>0, <1>1 DEF Fresh, Unread, Unreaped
<1>3. \A q \in Q : \A cmd : Unfetched(q, cmd) = {}
  BY <1>0, <1>1 DEF Fresh, Unfetched
<1>4. \A q, cmd : Completions(q, cmd) = {}
  BY <1>2, CompletionsAre DEF Entries
<1>5. \A q \in Q : \A cmd : Places(q, cmd) = 0
  <2> SUFFICES ASSUME NEW q \in Q, NEW cmd PROVE Places(q, cmd) = 0
    OBVIOUS
  <2>1. Copies({}, q, cmd) = 0
    BY FS_EmptySet, CopiesNat
  <2>2. Unfetched(q, cmd) = {} /\ Completions(q, cmd) = {} /\ Cardinality({}) = 0
    BY <1>3, <1>4, FS_EmptySet
  <2> QED BY <2>1, <2>2 DEF Fresh, Places
<1>6. SqInOrder
  BY <1>0, <1>1 DEF Fresh, SqInOrder, Past
<1>7. EntriesKnown /\ ReportsTrue
  BY <1>0, <1>2 DEF EntriesKnown, ReportsTrue
<1>8. DriverKnows
  <2>1. IoQ \subseteq Q
    BY Consts
  <2> QED BY <1>0, <2>1 DEF Fresh, DriverKnows
<1>9. OneAtATime /\ CreationsWait /\ DeletionsWait
  BY <1>0, <1>3 DEF Fresh, OneAtATime, CreationsWait, DeletionsWait
<1>10. Counted
  BY <1>0, <1>4, FS_EmptySet DEF Fresh, Counted
<1>11. AnsweredOnce
  <2>1. {c \in open[0] : c.op = "aer" /\ Places(0, c) = 0} = {}
    BY <1>0 DEF Fresh
  <2> QED BY <1>5, <2>1, FS_EmptySet DEF Fresh, AnsweredOnce
<1> QED BY <1>6, <1>7, <1>8, <1>9, <1>10, <1>11 DEF Fresh, ServiceParts, NoneParked

(* CC.EN set or cleared, and cold reset. *)
LEMMA ResetFresh ==
  ASSUME ServiceInvariant, Inductive', ApplyCc, ~KeepEnable
  PROVE  Fresh'
<1> USE DEF ServiceInvariant, WorkInvariant, Inductive
<1>0. /\ 0 \in Q /\ 0 \notin IoQ /\ IoQ \subseteq Q /\ \A q \in Q : q # 0 => q \in IoQ
      /\ sq \in SqRings /\ cq \in CqRings /\ gTail \in [Q -> Nat] /\ gSqHead \in [Q -> Nat]
      /\ gCqHead \in [Q -> Nat]
  BY Consts DEF Q, TypeOK, RingsOK, DriverOK
<1>1. \A q \in IoQ : ~sq'[q].live
  <2>1. CASE Enable
    <3>1. ~en /\ \A q \in IoQ : sq'[q] = sq[q]
      BY <1>0, <2>1 DEF Enable, SqRings
    <3>2. \A q \in IoQ : WorkMarked(q)
      BY <1>0
    <3> QED BY <3>1, <3>2 DEF WorkMarked
  <2>2. CASE Disable \/ ColdReset
    BY <1>0, <2>2 DEF Disable, ColdReset, NoSq
  <2> QED BY <2>1, <2>2 DEF ApplyCc
<1>2. /\ untaken' = {} /\ running' = {} /\ flushing' = {} /\ finished' = {} /\ taking' = {}
  <2>1. \A j \in (Jobs \cup taking)' : sq'[j.sqid].live /\ j.sqid \in IoQ
    BY DEF QueuesOutliveJobs, JobsAreIo
  <2>2. (Jobs \cup taking)' = {}
    BY <1>1, <2>1
  <2> QED BY <2>2 DEF Jobs
<1>3. CASE Enable
  <2>1. /\ ~en /\ en' /\ aer' = aer /\ gSq' = gSq /\ gCq' = gCq /\ open' = open
        /\ sq'[0] = NewSq(0) /\ cq'[0] = NewCq
        /\ \A q \in IoQ : cq'[q] = cq[q]
        /\ gTail'[0] = 0 /\ gSqHead'[0] = 0 /\ gCqHead'[0] = 0
    BY <1>0, <1>3 DEF Enable, SqRings, CqRings, FreshSq, FreshCq
  <2>2. aer = 0 /\ gSq = {} /\ gCq = {} /\ \A q \in Q : open[q] = {} /\ ~cq[q].live
    BY <2>1 DEF NoneParked, DriverKnows
  <2>3. Fresh'
    BY <1>0, <1>1, <1>2, <2>1, <2>2 DEF Fresh, NewSq, NewCq
  <2> QED BY <2>3
<1>4. CASE Disable \/ ColdReset
  <2>1. /\ ~en' /\ aer' = 0 /\ gSq' = {} /\ gCq' = {} /\ \A q \in Q : open'[q] = {}
        /\ \A q \in Q : sq'[q] = NoSq /\ cq'[q] = NoCq
        /\ gTail'[0] = 0 /\ gSqHead'[0] = 0 /\ gCqHead'[0] = 0
    BY <1>0, <1>4 DEF Disable, ColdReset, DriverForgets
  <2>2. Fresh'
    BY <1>0, <1>2, <2>1 DEF Fresh, NoSq, NoCq
  <2> QED BY <2>2
<1> QED BY <1>3, <1>4 DEF ApplyCc

(* They keep the invariant. *)
LEMMA ServiceReset ==
  ASSUME ServiceInvariant, Inductive', ApplyCc, ~KeepEnable
  PROVE  ServiceParts' /\ NoneParked' /\ AnsweredOnce'
<1>1. Fresh'
  BY ResetFresh
<1> QED BY <1>1, FreshService, PTL

(* No other step parks an AER while the controller is not enabled. *)
LEMMA ParkedStep ==
  ASSUME ServiceInvariant, [Next]_vars, ~ApplyCc
  PROVE  NoneParked'
<1> USE DEF ServiceInvariant, NoneParked
<1>1. CASE UNCHANGED <<en, aer>>
  BY <1>1
<1>2. ASSUME NEW cmd \in AdminCmd, FetchAdmin(cmd)
      PROVE  NoneParked'
  <2>1. sq[0].live /\ en' = en
    BY <1>2 DEF FetchAdmin, Fetch, HasWork
  <2> QED BY <2>1 DEF WorkInvariant, Inductive, QueuesLinked
<1>3. CASE Holder
  <2>1. CASE EnterProcess
    BY <1>1, <2>1 DEF EnterProcess, regs
  <2>2. CASE TakeFinished \/ AllPosted \/ LeaveSq \/ Unlock
    BY <1>1, <2>2 DEF TakeFinished, AllPosted, LeaveSq, Unlock, regs
  <2>3. ASSUME NEW j \in taking, SyncFinished(j) \/ \E ok \in BOOLEAN : PostFinished(j, ok)
        PROVE  NoneParked'
    BY <1>1, <2>3 DEF SyncFinished, PostFinished, regs
  <2>4. ASSUME NEW q \in IoQ, NEW cmd \in IoCmd,
               FetchFlush(q, cmd) \/ FetchIo(q, cmd) \/ \E ok \in BOOLEAN : FetchInline(q, cmd, ok)
        PROVE  NoneParked'
    BY <1>1, <2>4 DEF FetchFlush, FetchIo, FetchInline, regs
  <2> QED BY <1>2, <1>3, <2>1, <2>2, <2>3, <2>4 DEF Holder
<1>4. CASE Transfers \/ Syncs \/ Drain
  BY <1>1, <1>4 DEF Transfers, Syncs, Drain, FinishIo, FinishFlush, regs
<1>5. CASE Registers
  BY <1>1, <1>5 DEF Registers, RingSq, RingCq, OtherWrite, BeginCc, regs
<1>6. CASE \E q \in Q, cmd \in Cmd : Submit(q, cmd)
  BY <1>1, <1>6 DEF Submit, regs
<1>7. CASE \E c \in Q : Reap(c)
  BY <1>1, <1>7 DEF Reap, regs
<1>8. CASE UNCHANGED vars
  BY <1>1, <1>8 DEF vars, regs
<1> QED BY <1>3, <1>4, <1>5, <1>6, <1>7, <1>8 DEF Next

-----------------------------------------------------------------------------
(* The theorems *)

(* Every step keeps the invariant. *)
LEMMA ServiceStep == ServiceInvariant /\ [Next]_vars => ServiceInvariant'
<1> SUFFICES ASSUME ServiceInvariant, [Next]_vars PROVE ServiceInvariant'
  OBVIOUS
<1>1. WorkInvariant' /\ Inductive'
  BY WorkStep DEF ServiceInvariant, WorkInvariant
<1>2. CASE QuietNext
  <2>1. Quiet /\ SqInOrder' /\ AnsweredOnce'
    BY <1>1, <1>2, QuietSteps DEF ServiceInvariant, WorkInvariant
  <2>2. /\ EntriesKnown' /\ ReportsTrue' /\ DriverKnows' /\ OneAtATime'
        /\ CreationsWait' /\ DeletionsWait' /\ Counted'
    BY <2>1, QuietKeeps DEF ServiceInvariant, WorkInvariant, Inductive
  <2>3. NoneParked'
    BY <2>1 DEF Quiet, ServiceInvariant, NoneParked
  <2> QED BY <1>1, <2>1, <2>2, <2>3 DEF ServiceInvariant
<1>3. CASE ApplyCc /\ ~KeepEnable
  BY <1>1, <1>3, ServiceReset DEF ServiceInvariant, ServiceParts
<1>4. ASSUME ~ApplyCc, ServiceParts' /\ AnsweredOnce'
      PROVE  ServiceInvariant'
  BY <1>1, <1>4, ParkedStep DEF ServiceInvariant, ServiceParts
<1>5. ASSUME NEW j \in taking, NEW ok \in BOOLEAN, PostFinished(j, ok)
      PROVE  ServiceInvariant'
  <2>1. ~ApplyCc
    BY <1>5 DEF PostFinished, ApplyCc
  <2> QED BY <1>1, <1>4, <1>5, <2>1, ServicePost
<1>6. ASSUME NEW cmd \in AdminCmd, FetchAdmin(cmd)
      PROVE  ServiceInvariant'
  <2>1. ~ApplyCc
    BY <1>6 DEF FetchAdmin, Fetch, ApplyCc
  <2> QED BY <1>1, <1>4, <1>6, <2>1, ServiceAdmin
<1>7. ASSUME NEW q \in IoQ, NEW cmd \in IoCmd, FetchFlush(q, cmd) \/ FetchIo(q, cmd)
      PROVE  ServiceInvariant'
  <2>1. ~ApplyCc
    BY <1>7 DEF FetchFlush, FetchIo, Fetch, ApplyCc
  <2> QED BY <1>1, <1>4, <1>7, <2>1, ServiceDefer
<1>8. ASSUME NEW q \in IoQ, NEW cmd \in IoCmd, NEW ok \in BOOLEAN, FetchInline(q, cmd, ok)
      PROVE  ServiceInvariant'
  <2>1. ~ApplyCc
    BY <1>8 DEF FetchInline, Fetch, ApplyCc
  <2> QED BY <1>1, <1>4, <1>8, <2>1, ServiceInline
<1>9. ASSUME NEW q \in Q, NEW cmd \in Cmd, Submit(q, cmd)
      PROVE  ServiceInvariant'
  <2>1. ServiceParts' /\ AnsweredOnce'
    BY <1>1, <1>9, ServiceSubmit
  <2>2. NoneParked'
    BY <1>9 DEF Submit, regs, ServiceInvariant, NoneParked
  <2> QED BY <1>1, <2>1, <2>2 DEF ServiceInvariant, ServiceParts
<1>10. ASSUME NEW c \in Q, Reap(c)
       PROVE  ServiceInvariant'
  <2>1. ServiceParts' /\ AnsweredOnce'
    BY <1>1, <1>10, ServiceReap
  <2>2. NoneParked'
    BY <1>10 DEF Reap, regs, ServiceInvariant, NoneParked
  <2> QED BY <1>1, <2>1, <2>2 DEF ServiceInvariant, ServiceParts
<1>11. CASE Holder
  <2>1. CASE ApplyCc
    BY <1>2, <1>3, <2>1 DEF QuietNext
  <2>2. CASE EnterProcess \/ TakeFinished \/ AllPosted \/ LeaveSq \/ Unlock
    BY <1>2, <2>2 DEF QuietNext
  <2>3. ASSUME NEW j \in taking, SyncFinished(j)
        PROVE  ServiceInvariant'
    BY <1>2, <2>3 DEF QuietNext
  <2> QED BY <1>5, <1>6, <1>7, <1>8, <1>11, <2>1, <2>2, <2>3 DEF Holder
<1>12. CASE Transfers \/ Syncs \/ Drain \/ Registers \/ UNCHANGED vars
  BY <1>2, <1>12 DEF QuietNext
<1> QED BY <1>9, <1>10, <1>11, <1>12 DEF Next

(* ServiceInvariant holds at the start. *)
LEMMA InitService == Init => ServiceInvariant
<1> SUFFICES ASSUME Init PROVE ServiceInvariant
  OBVIOUS
<1>1. 0 \in Q /\ IoQ \subseteq Q
  BY Consts
<1>2. Fresh
  BY <1>1 DEF Init, Fresh, NoSq, NoCq
<1> QED BY <1>2, InitWork, FreshService DEF ServiceInvariant, ServiceParts

(* The rings are read in order, entries and reports say what is so and the
   driver knows the queues it uses, in every reachable state.              *)
THEOREM ServiceAlwaysKept == Spec => []ServiceInvariant
BY InitService, ServiceStep, PTL DEF Spec

(* No command is lost or answered twice, nor answered to a queue created since:
   through drains, transfers, syncs, deletions and resets, each outstanding
   command is in exactly one place.                                        *)
THEOREM AlwaysAnsweredOnce == Spec => []AnsweredOnce
<1>1. ServiceInvariant => AnsweredOnce
  BY DEF ServiceInvariant
<1> QED BY <1>1, ServiceAlwaysKept, PTL

-----------------------------------------------------------------------------
(* Refinement: NvmeQueues implements NvmeService *)

(* What NvmeService sees. *)
Stages == [q \in Q |-> [cmd \in Cmd |-> Stage(q, cmd)]]

(* One request moves to another stage. *)
Moves(q, cmd, from, to) ==
  /\ Stage(q, cmd) = from /\ Stage(q, cmd)' = to
  /\ \A p \in Q, one \in Cmd : p # q \/ one # cmd => Stage(p, one)' = Stage(p, one)

(* A move changes one place of the function. *)
LEMMA MovesStages ==
  ASSUME NEW q \in Q, NEW cmd \in Cmd, NEW from, NEW to, Moves(q, cmd, from, to)
  PROVE  Stages[q][cmd] = from /\ Stages' = [Stages EXCEPT ![q][cmd] = to]
<1>1. ASSUME NEW p \in Q, NEW one \in Cmd
      PROVE  Stage(p, one)' = [Stages EXCEPT ![q][cmd] = to][p][one]
  <2>1. CASE p = q /\ one = cmd
    BY <2>1 DEF Moves, Stages
  <2>2. CASE p = q /\ one # cmd
    BY <2>2 DEF Moves, Stages
  <2>3. CASE p # q
    BY <2>3 DEF Moves, Stages
  <2> QED BY <2>1, <2>2, <2>3
<1>2. Stages' = [p \in Q |-> [one \in Cmd |-> Stage(p, one)']]
  BY DEF Stages
<1>3. Stages' = [p \in Q |-> [one \in Cmd |-> [Stages EXCEPT ![q][cmd] = to][p][one]]]
  BY <1>1, <1>2
<1>4. [Stages EXCEPT ![q][cmd] = to]
        = [p \in Q |-> [one \in Cmd |-> [Stages EXCEPT ![q][cmd] = to][p][one]]]
  BY DEF Stages
<1>5. Stages[q][cmd] = from
  BY DEF Moves, Stages
<1> QED BY <1>3, <1>4, <1>5

(* A waiting request that is answered is an Answer of the service. *)
LEMMA MapAnswer ==
  ASSUME NEW q \in Q, NEW cmd \in Cmd, Moves(q, cmd, "waiting", "answered")
  PROVE  [Service!Next]_Stages
<1>1. Stages[q][cmd] = "waiting" /\ Stages' = [Stages EXCEPT ![q][cmd] = "answered"]
  BY MovesStages
<1>2. Service!Answer(q, cmd)
  BY <1>1 DEF Service!Answer, Stages
<1> QED BY <1>2 DEF Service!Next

(* No request moves: a stuttering step. *)
LEMMA MapStutter ==
  ASSUME \A p \in Q, one \in Cmd : Stage(p, one)' = Stage(p, one)
  PROVE  [Service!Next]_Stages
  BY DEF Stages

(* Nothing is outstanding at the start. *)
LEMMA InitStages == Init => Service!Init
<1>1. \A q \in Q : open[q] = {} => \A cmd \in Cmd : Stage(q, cmd) = "idle"
  BY DEF Stage
<1> QED BY <1>1 DEF Init, Service!Init, Service!Idle

(* Entries and outstanding requests are what they were. *)
LEMMA MapQuiet ==
  ASSUME open' = open,
         \A q \in Q, cmd \in Cmd : Completions(q, cmd)' = Completions(q, cmd)
  PROVE  [Service!Next]_Stages
<1>1. \A q \in Q, cmd \in Cmd : Stage(q, cmd)' = Stage(q, cmd)
  BY DEF Stage
<1> QED BY <1>1, MapStutter

(* The completion of an outstanding request is posted. *)
LEMMA MapPosts ==
  ASSUME Inductive, Counted, NEW c \in Q, NEW e, Posts(c, e), open' = open,
         e.sqid \in Q, e.cmd \in Cmd, e.cmd \in open[e.sqid], Completions(e.sqid, e.cmd) = {}
  PROVE  [Service!Next]_Stages
<1>1. ASSUME NEW q \in Q, NEW cmd \in Cmd
      PROVE  /\ Match(e, q, cmd) = 1 => Completions(q, cmd)' # {}
             /\ Match(e, q, cmd) = 0 => Completions(q, cmd)' = Completions(q, cmd)
  <2>1. CqSize[c] \in Nat /\ IsFiniteSet(Completions(q, cmd))
    BY RingFacts DEF Inductive, Counted
  <2>2. /\ Match(e, q, cmd) = 1 =>
             Completions(q, cmd)' = Completions(q, cmd) \cup {<<c, cq[c].tail>>}
        /\ Match(e, q, cmd) = 0 => Completions(q, cmd)' = Completions(q, cmd)
    BY <2>1, CompletionsGain
  <2> QED BY <2>2
<1>2. Stage(e.sqid, e.cmd) = "waiting"
  BY DEF Stage
<1>3. Stage(e.sqid, e.cmd)' = "answered"
  BY <1>1 DEF Stage, Match
<1>4. ASSUME NEW p \in Q, NEW one \in Cmd, p # e.sqid \/ one # e.cmd
      PROVE  Stage(p, one)' = Stage(p, one)
  <2>1. Match(e, p, one) = 0
    BY <1>4 DEF Match
  <2> QED BY <1>1, <2>1 DEF Stage
<1>5. Moves(e.sqid, e.cmd, "waiting", "answered")
  BY <1>2, <1>3, <1>4 DEF Moves
<1> QED BY <1>5, MapAnswer

(* post_finished answers the request of its job. *)
LEMMA MapPost ==
  ASSUME ServiceInvariant, NEW j \in taking, NEW ok, PostFinished(j, ok)
  PROVE  [Service!Next]_Stages
<1> DEFINE e == NewEntry(j.cqid, j.sqid, j.cmd, ok, sq[j.sqid].head)
<1>1. j.cqid \in Q /\ Posts(j.cqid, e) /\ open' = open
  BY PostShape DEF driver
<1>2. e.sqid = j.sqid /\ e.cmd = j.cmd
  BY DEF NewEntry
<1> HIDE DEF e
<1>3. /\ j.sqid \in Q /\ j.cmd \in Cmd /\ j.cmd \in open[j.sqid]
      /\ Completions(j.sqid, j.cmd) = {}
  BY OneJob DEF ServiceInvariant, WorkInvariant, Inductive
<1> QED BY <1>1, <1>2, <1>3, MapPosts DEF ServiceInvariant, WorkInvariant

(* execute_io answers the request it fetched. *)
LEMMA MapInline ==
  ASSUME ServiceInvariant, NEW q \in IoQ, NEW cmd \in IoCmd, NEW ok, FetchInline(q, cmd, ok)
  PROVE  [Service!Next]_Stages
<1> USE DEF ServiceInvariant, WorkInvariant, Inductive
<1>1. q \in Q /\ cmd \in Cmd
  BY Consts DEF Cmd
<1>2. PICK c \in Q : sq[q].cqid = c
  BY <1>1, SqFacts
<1> DEFINE e == NewEntry(c, q, cmd, ok, Advanced(q)[q].head)
<1>3. /\ Fetch(q, cmd) /\ Posts(c, e) /\ UNCHANGED driver
      /\ e.sqid = q /\ e.cmd = cmd
  BY <1>2, InlineShape
<1> HIDE DEF e
<1>4. Unfetched(q, cmd) # {}
  <2>1. HasWork(q) /\ cmd = sqMem[q][sq[q].head]
    BY <1>3 DEF Fetch
  <2> QED BY <1>1, <2>1, AtHead
<1>5. cmd \in open[q] /\ Completions(q, cmd) = {}
  BY <1>1, <1>4, OneUnfetched
<1>6. open' = open
  BY <1>3 DEF driver
<1> QED BY <1>1, <1>3, <1>5, <1>6, MapPosts

(* defer_flush and defer_io answer nothing. *)
LEMMA MapDefer ==
  ASSUME NEW q \in IoQ, NEW cmd \in IoCmd, FetchFlush(q, cmd) \/ FetchIo(q, cmd)
  PROVE  [Service!Next]_Stages
<1>1. cq' = cq /\ UNCHANGED <<cqMem, driver>>
  BY DEF FetchFlush, FetchIo, regs, memory, holder
<1>2. \A d \in Q : SameEntries(d)
  BY <1>1, EntriesStay DEF driver
<1> QED BY <1>1, <1>2, CompletionsStay, MapQuiet DEF driver

(* An admin command is answered, or parked. *)
LEMMA MapAdmin ==
  ASSUME ServiceInvariant, Inductive', NEW cmd \in AdminCmd, FetchAdmin(cmd)
  PROVE  [Service!Next]_Stages
<1>1. AdminOutcome(cmd) /\ AdminFacts(cmd)
  BY AdminShape, AdminKnows
<1>2. open' = open /\ cmd \in open[0] /\ Completions(0, cmd) = {} /\ cmd \in Cmd /\ 0 \in Q
  BY <1>1, Consts DEF AdminFacts, Cmd, Q
<1>3. CASE \A d \in Q : SameEntries(d)
  BY <1>2, <1>3, CompletionsStay, MapQuiet
<1>4. ASSUME NEW e, Posts(0, e), e.sqid = 0, e.cmd = cmd
      PROVE  [Service!Next]_Stages
  BY <1>2, <1>4, MapPosts DEF ServiceInvariant, WorkInvariant
<1>5. ASSUME NEW ok \in BOOLEAN, Posts(0, NewEntry(0, 0, cmd, ok, sq'[0].head))
      PROVE  [Service!Next]_Stages
  <2> DEFINE e == NewEntry(0, 0, cmd, ok, sq'[0].head)
  <2>1. e.sqid = 0 /\ e.cmd = cmd /\ Posts(0, e)
    BY <1>5 DEF NewEntry
  <2> QED BY <1>4, <2>1
<1> QED BY <1>1, <1>3, <1>5 DEF AdminOutcome

(* A command is submitted. *)
LEMMA MapSubmit ==
  ASSUME ServiceInvariant, NEW q \in Q, NEW cmd \in Cmd, Submit(q, cmd)
  PROVE  [Service!Next]_Stages
<1> USE DEF ServiceInvariant, WorkInvariant, Inductive
<1>0. /\ Cardinality(Unfetched(q, cmd)) \in Nat /\ Cardinality(Completions(q, cmd)) \in Nat
      /\ Copies(untaken, q, cmd) \in Nat /\ Copies(running, q, cmd) \in Nat
      /\ Copies(flushing, q, cmd) \in Nat /\ Copies(finished, q, cmd) \in Nat
      /\ Copies(taking, q, cmd) \in Nat
  BY Numbers
<1>1. Submits(q, cmd)
  BY SubmitShape
<1>2. UNCHANGED <<cq, cqMem, gCqHead>>
  BY <1>1 DEF Submits
<1>3. \A d \in Q : SameEntries(d)
  BY <1>2, EntriesStay
<1>4. \A p \in Q, one \in Cmd : Completions(p, one)' = Completions(p, one)
  BY <1>3, CompletionsStay
<1>5. Completions(q, cmd) = {}
  <2>1. cmd \notin open[q] /\ Places(q, cmd) = 0
    BY <1>1 DEF Submits, AnsweredOnce
  <2>2. Cardinality(Completions(q, cmd)) = 0
    BY <1>0, <2>1 DEF Places
  <2> QED BY <2>2, FS_EmptySet DEF Counted
<1>6. Moves(q, cmd, "idle", "waiting")
  <2>1. Stage(q, cmd) = "idle" /\ Stage(q, cmd)' = "waiting"
    BY <1>1, <1>4, <1>5 DEF Submits, Stage
  <2>2. ASSUME NEW p \in Q, NEW one \in Cmd, p # q \/ one # cmd
        PROVE  Stage(p, one)' = Stage(p, one)
    BY <1>1, <1>4, <2>2 DEF Submits, Stage
  <2> QED BY <2>1, <2>2 DEF Moves
<1>7. Stages[q][cmd] = "idle" /\ Stages' = [Stages EXCEPT ![q][cmd] = "waiting"]
  BY <1>6, MovesStages
<1>8. Service!Submit(q, cmd)
  BY <1>7 DEF Service!Submit, Stages
<1> QED BY <1>8 DEF Service!Next

(* A controller reset makes every request idle. *)
LEMMA MapReset ==
  ASSUME ServiceInvariant, Inductive', ApplyCc, ~KeepEnable
  PROVE  [Service!Next]_Stages
<1>1. Fresh'
  BY ResetFresh
<1>2. \A q \in Q, cmd \in Cmd : Stage(q, cmd)' = "idle"
  BY <1>1 DEF Fresh, Stage
<1>3. Stages' = [q \in Q |-> [cmd \in Cmd |-> "idle"]]
  BY <1>2 DEF Stages
<1>4. Service!Reset
  BY <1>3 DEF Service!Reset, Service!Idle, Stages
<1> QED BY <1>4 DEF Service!Next

(* The driver takes an answer; that of a deletion also ends the requests of the
   queue deleted, none of which is answered.                               *)
LEMMA MapReap ==
  ASSUME ServiceInvariant, NEW c \in Q, Reap(c)
  PROVE  [Service!Next]_Stages
<1> USE DEF ServiceInvariant, WorkInvariant, Inductive
<1>1. PICK e, D : Reaps(c, e, D)
  BY ReapShape
<1>2. /\ e.sqid \in Q /\ e.cmd \in Cmd /\ e.cmd \in open[e.sqid]
      /\ \A p \in Q : open'[p] = IF p \in D THEN {}
                                 ELSE IF p = e.sqid THEN open[p] \ {e.cmd} ELSE open[p]
  BY <1>1 DEF Reaps
<1>3. Completions(e.sqid, e.cmd) # {}
  <2>1. gCqHead[c] \in Unread(c) /\ e = cqMem[c][gCqHead[c]]
    BY <1>1 DEF Reaps, Takes
  <2>2. Completions(e.sqid, e.cmd) = {<<c, gCqHead[c]>>}
    BY <2>1, OneCompletion
  <2> QED BY <2>2
<1>4. ASSUME NEW p \in Q, NEW one \in Cmd, p # e.sqid \/ one # e.cmd
      PROVE  Completions(p, one)' = Completions(p, one)
  <2>1. IsFiniteSet(Completions(p, one)) /\ Takes(c) /\ e = Looks(c) /\ gCqHead[c] \in Nat
    BY <1>1 DEF Counted, Reaps, Looks, TypeOK, DriverOK
  <2>2. Match(e, p, one) = 0
    BY <1>4 DEF Match
  <2> QED BY <2>1, <2>2, CompletionsLose
<1>5. Stage(e.sqid, e.cmd) = "answered" /\ Stage(e.sqid, e.cmd)' = "idle"
  BY <1>2, <1>3 DEF Stage
<1>6. ASSUME NEW p \in Q, NEW one \in Cmd, p \notin D, p # e.sqid \/ one # e.cmd
      PROVE  Stage(p, one)' = Stage(p, one)
  BY <1>2, <1>4, <1>6 DEF Stage
<1>7. CASE D = {}
  <2>1. Moves(e.sqid, e.cmd, "answered", "idle")
    BY <1>5, <1>6, <1>7 DEF Moves
  <2>2. /\ Stages[e.sqid][e.cmd] = "answered"
        /\ Stages' = [Stages EXCEPT ![e.sqid][e.cmd] = "idle"]
    BY <1>2, <2>1, MovesStages
  <2>3. Service!Take(e.sqid, e.cmd)
    BY <2>2 DEF Service!Take, Stages
  <2> QED BY <1>2, <2>3 DEF Service!Next
<1>8. ASSUME NEW d \in D
      PROVE  [Service!Next]_Stages
  <2>1. d \in Q /\ d # e.sqid /\ D = {d}
    <3>1. d \in IoQ /\ c = 0
      BY <1>1, DeletedGone
    <3>2. (e.sqid = 0 <=> c = 0) /\ D \in {{e.cmd.q}, {}}
      BY <1>1 DEF Reaps
    <3> QED BY <1>8, <3>1, <3>2, Consts
  <2>2. \A one \in Cmd : Stage(d, one) # "answered" /\ Stage(d, one)' = "idle"
    <3>1. \A one \in Cmd : Completions(d, one) = {}
      BY <1>1, DeletedGone
    <3> QED BY <1>2, <2>1, <3>1 DEF Stage
  <2> DEFINE idle == [one \in Cmd |-> "idle"]
             S == [Stages EXCEPT ![e.sqid][e.cmd] = "idle", ![d] = idle]
  <2>3. ASSUME NEW p \in Q, NEW one \in Cmd
        PROVE  Stage(p, one)' = S[p][one]
    <3>1. CASE p = d
      BY <2>1, <2>2, <3>1 DEF Stages
    <3>2. CASE p # d /\ p = e.sqid /\ one = e.cmd
      BY <1>5, <2>1, <3>2 DEF Stages
    <3>3. CASE p # d /\ ~(p = e.sqid /\ one = e.cmd)
      <4>1. Stage(p, one)' = Stages[p][one]
        BY <1>6, <2>1, <3>3 DEF Stages
      <4>2. CASE p = e.sqid
        BY <2>1, <3>3, <4>1, <4>2 DEF Stages
      <4>3. CASE p # e.sqid
        BY <2>1, <3>3, <4>1, <4>3 DEF Stages
      <4> QED BY <4>2, <4>3
    <3> QED BY <3>1, <3>2, <3>3
  <2>4. Stages' = [p \in Q |-> [one \in Cmd |-> Stage(p, one)']]
    BY DEF Stages
  <2>5. Stages' = [p \in Q |-> [one \in Cmd |-> S[p][one]]]
    BY <2>3, <2>4
  <2>6. S = [p \in Q |-> [one \in Cmd |-> S[p][one]]]
    <3>1. S = [p \in Q |-> S[p]]
      BY DEF Stages
    <3>2. ASSUME NEW p \in Q
          PROVE  S[p] = [one \in Cmd |-> S[p][one]]
      <4>1. CASE p = d
        BY <4>1 DEF Stages
      <4>2. CASE p # d /\ p = e.sqid
        BY <2>1, <4>2 DEF Stages
      <4>3. CASE p # d /\ p # e.sqid
        BY <2>1, <4>3 DEF Stages
      <4> QED BY <4>1, <4>2, <4>3
    <3> QED BY <3>1, <3>2
  <2>7. Service!TakeDeleted(e.sqid, e.cmd, d)
    <3>1. Stages' = S
      BY <2>5, <2>6
    <3>2. \A one \in Cmd : Stages[d][one] # "answered"
      BY <2>1, <2>2 DEF Stages
    <3>3. Stages[e.sqid][e.cmd] = "answered"
      BY <1>2, <1>5 DEF Stages
    <3>4. Service!Idle[d] = idle
      BY <2>1 DEF Service!Idle
    <3> QED BY <2>1, <3>1, <3>2, <3>3, <3>4 DEF Service!TakeDeleted, Stages
  <2> QED BY <1>2, <2>1, <2>7 DEF Service!Next
<1> QED BY <1>7, <1>8

(* Every step is one of the service, or changes nothing it sees. *)
LEMMA MapStep == ServiceInvariant /\ [Next]_vars => [Service!Next]_Stages
<1> SUFFICES ASSUME ServiceInvariant, [Next]_vars PROVE [Service!Next]_Stages
  OBVIOUS
<1>1. Inductive'
  BY WorkStep DEF ServiceInvariant, WorkInvariant
<1>2. CASE QuietNext
  <2>1. Quiet
    BY <1>1, <1>2, QuietSteps DEF ServiceInvariant, WorkInvariant
  <2> QED BY <2>1, QuietSame, MapQuiet DEF Quiet, driver
<1>3. CASE ApplyCc /\ ~KeepEnable
  BY <1>1, <1>3, MapReset
<1>4. CASE Holder
  <2>1. CASE ApplyCc
    BY <1>2, <1>3, <2>1 DEF QuietNext
  <2>2. CASE EnterProcess \/ TakeFinished \/ AllPosted \/ LeaveSq \/ Unlock
    BY <1>2, <2>2 DEF QuietNext
  <2>3. ASSUME NEW j \in taking, SyncFinished(j)
        PROVE  [Service!Next]_Stages
    BY <1>2, <2>3 DEF QuietNext
  <2>4. ASSUME NEW j \in taking, NEW ok \in BOOLEAN, PostFinished(j, ok)
        PROVE  [Service!Next]_Stages
    BY <2>4, MapPost
  <2>5. ASSUME NEW cmd \in AdminCmd, FetchAdmin(cmd)
        PROVE  [Service!Next]_Stages
    BY <1>1, <2>5, MapAdmin
  <2>6. ASSUME NEW q \in IoQ, NEW cmd \in IoCmd, FetchFlush(q, cmd) \/ FetchIo(q, cmd)
        PROVE  [Service!Next]_Stages
    BY <2>6, MapDefer
  <2>7. ASSUME NEW q \in IoQ, NEW cmd \in IoCmd, NEW ok \in BOOLEAN, FetchInline(q, cmd, ok)
        PROVE  [Service!Next]_Stages
    BY <2>7, MapInline
  <2> QED BY <1>4, <2>1, <2>2, <2>3, <2>4, <2>5, <2>6, <2>7 DEF Holder
<1>5. CASE Transfers \/ Syncs \/ Drain \/ Registers \/ UNCHANGED vars
  BY <1>2, <1>5 DEF QuietNext
<1>6. ASSUME NEW q \in Q, NEW cmd \in Cmd, Submit(q, cmd)
      PROVE  [Service!Next]_Stages
  BY <1>6, MapSubmit
<1>7. ASSUME NEW c \in Q, Reap(c)
      PROVE  [Service!Next]_Stages
  BY <1>7, MapReap
<1> QED BY <1>4, <1>5, <1>6, <1>7 DEF Next

(* The refinement: whatever the interleaving of drains, transfers, syncs,
   doorbells, deletions and resets, the driver sees the service NvmeService
   promises: an answer is never overwritten, withdrawn or repeated.        *)
THEOREM QueuesImplementService == Spec => ImplementsService
<1>1. ServiceInvariant /\ [Next]_vars => [Service!Next]_Stages
  BY MapStep
<1> QED BY <1>1, InitStages, ServiceAlwaysKept, PTL
           DEF Spec, ImplementsService, Service!Spec, Stages
=============================================================================
