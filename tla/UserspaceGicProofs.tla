------------------------- MODULE UserspaceGicProofs -------------------------
(***************************************************************************)
(* Lemmas about the userspace GIC, for any CPUs, interrupts and            *)
(* priorities: whoever's line an access raises is kicked, interrupts in    *)
(* progress nest, and a timer interrupt is not forgotten.                  *)
(***************************************************************************)
EXTENDS UserspaceGic, FiniteSetTheorems, SequenceTheorems, WellFoundedInduction, TLAPS

(* The list t is what is left of s: in its order, perhaps dropped since. *)
Thinned(s, t) ==
  \E e \in [DOMAIN t -> DOMAIN s] :
    /\ \A m, n \in DOMAIN t : m < n => e[m] < e[n]
    /\ \A m \in DOMAIN t :
         /\ t[m].intid = s[e[m]].intid /\ t[m].priority = s[e[m]].priority
         /\ s[e[m]].dropped => t[m].dropped

(* Entries in progress nest, and so do those of one interrupt, dropped or not:
   with them the list cannot grow without end.                             *)
Nested(s) ==
  \A j, k \in DOMAIN s :
    j < k /\ ~s[j].dropped /\ ~s[k].dropped => Even(s[k].priority) < Even(s[j].priority)
Distinct(s) ==
  \A j, k \in DOMAIN s :
    j < k /\ s[j].intid = s[k].intid => Even(s[k].priority) < Even(s[j].priority)
Own(c, s) == \A k \in DOMAIN s : s[k].intid \in Spi \cup Private[c]
ListOK(c, s) == s \in Seq(Entry) /\ Own(c, s) /\ Nested(s) /\ Distinct(s)

-----------------------------------------------------------------------------
(* Numbers *)

(* A set of naturals has a least element. *)
LEMMA Least ==
  ASSUME NEW S, S \subseteq Nat, S # {}
  PROVE  Min(S) \in S /\ \A x \in S : Min(S) <= x
<1>1. PICK x \in S : \A y \in S : ~(<<y, x>> \in OpToRel(<, Nat))
  BY NatLessThanWellFounded, WFMin, Zenon
<1>2. \A y \in S : ~(y < x)
  BY <1>1 DEF OpToRel
<1>3. \A y \in S : x <= y
  BY <1>2
<1> QED
  BY <1>3 DEF Min

(* Bit 0 of a priority is left out. *)
LEMMA Evens ==
  ASSUME NEW p \in Nat
  PROVE  Even(p) \in Nat /\ Even(p) <= p
BY DEF Even

(* The group of a priority is not above it, whatever the binary point. *)
LEMMA Groups ==
  ASSUME NEW x \in Nat, NEW n \in 1..7
  PROVE  x - (x % (2 ^ n)) \in Nat /\ x - (x % (2 ^ n)) <= x
<1>1. 2 ^ n \in {2, 4, 8, 16, 32, 64, 128}
  <2>1. CASE n = 1
    BY <2>1
  <2>2. CASE n = 2
    BY <2>2
  <2>3. CASE n = 3
    BY <2>3
  <2>4. CASE n = 4
    BY <2>4
  <2>5. CASE n = 5
    BY <2>5
  <2>6. CASE n = 6
    BY <2>6
  <2>7. CASE n = 7
    BY <2>7
  <2> QED
    BY <2>1, <2>2, <2>3, <2>4, <2>5, <2>6, <2>7
<1>2. \A w \in {2, 4, 8, 16, 32, 64, 128} : x - (x % w) \in Nat /\ x - (x % w) <= x
  OBVIOUS
<1> QED
  BY <1>1, <1>2

-----------------------------------------------------------------------------
(* The list of acknowledged interrupts *)

(* What is left of a list is as good as the list. *)
LEMMA Thins ==
  ASSUME NEW c, NEW s, NEW t, ListOK(c, s), t \in Seq(Entry), Thinned(s, t)
  PROVE  ListOK(c, t)
<1>1. PICK e \in [DOMAIN t -> DOMAIN s] :
        /\ \A m, n \in DOMAIN t : m < n => e[m] < e[n]
        /\ \A m \in DOMAIN t :
             /\ t[m].intid = s[e[m]].intid /\ t[m].priority = s[e[m]].priority
             /\ s[e[m]].dropped => t[m].dropped
  BY DEF Thinned
<1>2. Own(c, t)
  BY <1>1 DEF ListOK, Own
<1>3. Nested(t)
  BY <1>1 DEF ListOK, Nested
<1>4. Distinct(t)
  BY <1>1 DEF ListOK, Distinct
<1> QED
  BY <1>2, <1>3, <1>4 DEF ListOK

(* One more entry, that is retained or not. *)
Longer(kept, e, i) == IF e.dropped /\ e.intid = i THEN kept ELSE Append(kept, e)

(* The function Retired is defined by exists, for every length of the list. *)
LEMMA RetiredDefined ==
  ASSUME NEW s, NEW i, Len(s) \in Nat
  PROVE  \E f : /\ f = [n \in 0..Len(s) |-> IF n = 0 THEN << >>
                                            ELSE Longer(f[n - 1], s[n], i)]
                /\ Retired(s, i) = f[Len(s)]
<1> DEFINE Defines(f, m) == f = [n \in 0..m |-> IF n = 0 THEN << >>
                                                ELSE Longer(f[n - 1], s[n], i)]
           Missing == {m \in Nat : ~ \E f : Defines(f, m)}
<1>1. Missing = {}
  <2> SUFFICES ASSUME Missing # {} PROVE FALSE
    OBVIOUS
  <2>1. PICK m \in Missing : \A x \in Missing : m <= x
    BY Least
  <2>2. CASE m = 0
    <3>1. Defines([n \in 0..0 |-> << >>], 0)
      OBVIOUS
    <3> QED
      BY <2>1, <2>2, <3>1
  <2>3. CASE m # 0
    <3>1. m - 1 \in Nat /\ ~(m - 1 \in Missing)
      <4>1. m \in Nat
        BY <2>1
      <4> HIDE DEF Missing
      <4> QED
        BY <2>1, <2>3, <4>1
    <3>2. PICK f : Defines(f, m - 1)
      BY <3>1
    <3> DEFINE g == [n \in 0..m |-> IF n = m THEN Longer(f[m - 1], s[m], i) ELSE f[n]]
    <3>3. \A n \in 0..m - 1 : g[n] = f[n]
      BY <2>1
    <3>4. \A n \in 0..m : g[n] = (IF n = 0 THEN << >> ELSE Longer(g[n - 1], s[n], i))
      BY <2>1, <2>3, <3>1, <3>2, <3>3
    <3>5. g = [n \in 0..m |-> g[n]]
      OBVIOUS
    <3>6. Defines(g, m)
      BY <3>4, <3>5
    <3> QED
      BY <2>1, <3>6
  <2> QED
    BY <2>2, <2>3
<1>2. PICK f : Defines(f, Len(s))
  BY <1>1
<1> QED
  BY <1>2 DEF Retired, Longer

(* By e, the list t is what Retired leaves of the first n entries of s. *)
Embeds(s, i, t, n, e) ==
  /\ e \in [DOMAIN t -> 1..n]
  /\ \A j, k \in DOMAIN t : j < k => e[j] < e[k]
  /\ \A k \in DOMAIN t : t[k] = s[e[k]] /\ ~(t[k].dropped /\ t[k].intid = i)

(* What Retired leaves is in the list's order, with no dropped entry of i. *)
LEMMA RetiredThins ==
  ASSUME NEW s \in Seq(Entry), NEW i
  PROVE  /\ Retired(s, i) \in Seq(Entry) /\ Thinned(s, Retired(s, i))
         /\ \A m \in DOMAIN Retired(s, i) :
              ~(Retired(s, i)[m].dropped /\ Retired(s, i)[m].intid = i)
<1>1. Len(s) \in Nat /\ DOMAIN s = 1..Len(s) /\ \A n \in 1..Len(s) : s[n] \in Entry
  OBVIOUS
<1>2. PICK f : /\ f = [n \in 0..Len(s) |-> IF n = 0 THEN << >>
                                           ELSE Longer(f[n - 1], s[n], i)]
               /\ Retired(s, i) = f[Len(s)]
  BY <1>1, RetiredDefined
<1> DEFINE Bad == {n \in 0..Len(s) : ~(f[n] \in Seq(Entry) /\ \E e : Embeds(s, i, f[n], n, e))}
<1>3. Bad = {}
  <2> SUFFICES ASSUME Bad # {} PROVE FALSE
    OBVIOUS
  <2>1. PICK n \in Bad : \A x \in Bad : n <= x
    <3>1. Bad \subseteq Nat
      BY <1>1
    <3> QED
      BY <3>1, Least
  <2>2. CASE n = 0
    <3>1. f[n] = << >>
      BY <1>1, <1>2, <2>2
    <3>2. Embeds(s, i, << >>, 0, << >>)
      BY DEF Embeds
    <3>3. f[n] \in Seq(Entry) /\ Embeds(s, i, f[n], n, << >>)
      BY <2>2, <3>1, <3>2
    <3> QED
      BY <2>1, <3>3
  <2>3. CASE n # 0
    <3>1. n \in 1..Len(s) /\ n - 1 \in 0..Len(s) /\ ~(n - 1 \in Bad)
      <4>1. n \in 0..Len(s)
        BY <2>1
      <4> HIDE DEF Bad
      <4> QED
        BY <1>1, <2>1, <2>3, <4>1
    <3> DEFINE t == f[n - 1]
    <3>2. PICK e : Embeds(s, i, t, n - 1, e)
      BY <3>1
    <3>3. t \in Seq(Entry)
      BY <3>1
    <3>4. f[n] = Longer(t, s[n], i)
      BY <1>2, <2>3, <3>1
    <3> HIDE DEF t
    <3>5. CASE s[n].dropped /\ s[n].intid = i
      <4>1. f[n] = t /\ Embeds(s, i, t, n, e)
        BY <3>1, <3>2, <3>4, <3>5 DEF Longer, Embeds
      <4> QED
        BY <2>1, <3>3, <4>1
    <3>6. CASE ~(s[n].dropped /\ s[n].intid = i)
      <4> DEFINE u == Append(t, s[n])
                 d == [k \in DOMAIN u |-> IF k = Len(t) + 1 THEN n ELSE e[k]]
      <4>1. f[n] = u
        BY <3>4, <3>6 DEF Longer
      <4>2. /\ u \in Seq(Entry) /\ Len(t) \in Nat /\ DOMAIN t = 1..Len(t)
            /\ DOMAIN u = 1..Len(t) + 1
            /\ u[Len(t) + 1] = s[n] /\ \A k \in 1..Len(t) : u[k] = t[k]
        BY <1>1, <3>1, <3>3
      <4> HIDE DEF u
      <4>3. \A k \in 1..Len(t) : e[k] \in 1..n - 1 /\ d[k] = e[k]
        <5>1. e \in [1..Len(t) -> 1..n - 1]
          BY <3>2, <4>2 DEF Embeds
        <5>2. \A k \in 1..Len(t) : k \in DOMAIN u /\ k # Len(t) + 1
          BY <4>2
        <5> QED
          BY <5>1, <5>2
      <4>4. d[Len(t) + 1] = n /\ DOMAIN d = DOMAIN u
        BY <4>2
      <4>5. d \in [DOMAIN u -> 1..n]
        <5>1. \A k \in DOMAIN u : d[k] \in 1..n
          <6>1. n \in 1..n /\ \A x \in 1..n - 1 : x \in 1..n
            BY <3>1
          <6>2. \A k \in DOMAIN u : k = Len(t) + 1 \/ k \in 1..Len(t)
            BY <4>2
          <6> HIDE DEF d
          <6> QED
            BY <4>3, <4>4, <6>1, <6>2
        <5> QED
          BY <5>1
      <4> HIDE DEF d
      <4>6. \A j, k \in DOMAIN u : j < k => d[j] < d[k]
        <5> TAKE j, k \in DOMAIN u
        <5>1. CASE k \in 1..Len(t) /\ j \in 1..Len(t)
          BY <3>2, <4>2, <4>3, <5>1 DEF Embeds
        <5>2. CASE k = Len(t) + 1 /\ j \in 1..Len(t)
          BY <3>1, <4>3, <4>4, <5>2
        <5>3. CASE j = Len(t) + 1
          BY <4>2, <5>3
        <5> QED
          BY <4>2, <5>1, <5>2, <5>3
      <4>7. \A k \in DOMAIN u : u[k] = s[d[k]] /\ ~(u[k].dropped /\ u[k].intid = i)
        <5> TAKE k \in DOMAIN u
        <5>1. CASE k = Len(t) + 1
          BY <3>6, <4>2, <4>4, <5>1
        <5>2. CASE k \in 1..Len(t)
          BY <3>2, <4>2, <4>3, <5>2 DEF Embeds
        <5> QED
          BY <4>2, <5>1, <5>2
      <4>8. Embeds(s, i, u, n, d)
        BY <4>5, <4>6, <4>7 DEF Embeds
      <4> QED
        BY <2>1, <4>1, <4>2, <4>8
    <3> QED
      BY <3>5, <3>6
  <2> QED
    BY <2>2, <2>3
<1>4. f[Len(s)] \in Seq(Entry) /\ \E e : Embeds(s, i, f[Len(s)], Len(s), e)
  <2>1. Len(s) \in 0..Len(s) /\ ~(Len(s) \in Bad)
    BY <1>1, <1>3
  <2> QED
    BY <2>1
<1>5. PICK e : Embeds(s, i, Retired(s, i), Len(s), e)
  BY <1>2, <1>4
<1> QED
  BY <1>1, <1>2, <1>4, <1>5 DEF Thinned, Embeds

(* Priorities dropped at some places thin a list. *)
LEMMA Marked ==
  ASSUME NEW s \in Seq(Entry), NEW K,
         NEW t, t = [k \in DOMAIN s |-> IF k \in K THEN [s[k] EXCEPT !.dropped = TRUE]
                                                   ELSE s[k]]
  PROVE  t \in Seq(Entry) /\ Thinned(s, t)
<1>1. Len(s) \in Nat /\ DOMAIN s = 1..Len(s) /\ \A k \in DOMAIN s : s[k] \in Entry
  OBVIOUS
<1>2. \A k \in DOMAIN s : t[k] \in Entry
  BY <1>1 DEF Entry
<1>3. t \in Seq(Entry)
  BY <1>1, <1>2
<1>4. \A k \in DOMAIN s : /\ t[k].intid = s[k].intid /\ t[k].priority = s[k].priority
                          /\ s[k].dropped => t[k].dropped
  BY <1>1 DEF Entry
<1> DEFINE e == [k \in DOMAIN s |-> k]
<1>5. e \in [DOMAIN t -> DOMAIN s] /\ \A k \in DOMAIN s : e[k] = k
  OBVIOUS
<1> HIDE DEF e
<1>6. DOMAIN t = DOMAIN s
  OBVIOUS
<1>7. /\ \A m, n \in DOMAIN t : m < n => e[m] < e[n]
      /\ \A m \in DOMAIN t :
           /\ t[m].intid = s[e[m]].intid /\ t[m].priority = s[e[m]].priority
           /\ s[e[m]].dropped => t[m].dropped
  BY <1>4, <1>5, <1>6
<1>8. Thinned(s, t)
  BY <1>5, <1>7 DEF Thinned
<1> QED
  BY <1>3, <1>8

(* The last entry of i is an entry. *)
LEMMA LastPlace ==
  ASSUME NEW s \in Seq(Entry), NEW i
  PROVE  LastOf(s, i) \subseteq DOMAIN s
<1> DEFINE places == {k \in DOMAIN s : s[k].intid = i}
<1>1. ASSUME places # {} PROVE Max(places) \in places
  <2> DEFINE T == {Len(s) - k : k \in places}
  <2>1. Len(s) \in Nat /\ places \subseteq 1..Len(s)
    OBVIOUS
  <2> HIDE DEF places
  <2>2. T \subseteq Nat /\ T # {}
    <3>1. \A k \in places : Len(s) - k \in Nat
      BY <2>1
    <3> QED
      BY <1>1, <3>1
  <2>3. PICK m \in T : \A x \in T : m <= x
    BY <2>2, Least
  <2>4. PICK k \in places : m = Len(s) - k
    BY <2>3
  <2>5. \A x \in places : k >= x
    <3> TAKE x \in places
    <3>1. Len(s) - x \in T
      OBVIOUS
    <3>2. Len(s) - k <= Len(s) - x
      BY <2>3, <2>4, <3>1
    <3> QED
      BY <2>1, <3>2
  <2> QED
    BY <2>5 DEF Max
<1> QED
  BY <1>1 DEF LastOf

(* An entry removed thins a list. *)
LEMMA Removed ==
  ASSUME NEW s \in Seq(Entry), NEW K, K \subseteq DOMAIN s
  PROVE  Without(s, K) \in Seq(Entry) /\ Thinned(s, Without(s, K))
<1>1. Len(s) \in Nat /\ DOMAIN s = 1..Len(s) /\ \A k \in DOMAIN s : s[k] \in Entry
  OBVIOUS
<1>2. CASE K = {}
  <2>1. Without(s, K) = s
    BY <1>2 DEF Without
  <2> DEFINE e == [k \in DOMAIN s |-> k]
  <2>2. e \in [DOMAIN s -> DOMAIN s] /\ \A k \in DOMAIN s : e[k] = k
    OBVIOUS
  <2> HIDE DEF e
  <2>3. Thinned(s, s)
    BY <2>2 DEF Thinned
  <2> QED
    BY <2>1, <2>3
<1>3. CASE K # {}
  <2> DEFINE k == CHOOSE k \in K : TRUE
             t == SubSeq(s, 1, k - 1) \o SubSeq(s, k + 1, Len(s))
  <2>1. k \in 1..Len(s)
    BY <1>1, <1>3
  <2>2. Without(s, K) = t
    BY <1>3 DEF Without
  <2> HIDE DEF k
  <2>3. PICK u, v : u = SubSeq(s, 1, k - 1) /\ v = SubSeq(s, k + 1, Len(s))
    OBVIOUS
  <2>4. /\ u \in Seq(Entry) /\ Len(u) = k - 1 /\ \A m \in 1..k - 1 : u[m] = s[m]
    <3>1. \A m \in 1..k - 1 : s[m] \in Entry
      BY <1>1, <2>1
    <3> QED
      BY <1>1, <2>1, <2>3, <3>1, SubSeqProperties
  <2>5. /\ v \in Seq(Entry) /\ Len(v) = Len(s) - k
        /\ \A m \in 1..Len(s) - k : v[m] = s[k + m]
    <3>1. \A m \in k + 1..Len(s) : s[m] \in Entry
      BY <1>1, <2>1
    <3>2. /\ v \in Seq(Entry)
          /\ Len(v) = IF k + 1 <= Len(s) THEN Len(s) - (k + 1) + 1 ELSE 0
          /\ \A m \in 1..Len(s) - (k + 1) + 1 : v[m] = s[k + 1 + m - 1]
      BY <1>1, <2>1, <2>3, <3>1, SubSeqProperties
    <3>3. Len(v) = Len(s) - k /\ Len(s) - (k + 1) + 1 = Len(s) - k
      <4>1. (IF k + 1 <= Len(s) THEN Len(s) - (k + 1) + 1 ELSE 0) = Len(s) - k
        <5>1. CASE k + 1 <= Len(s)
          <6>1. Len(s) - (k + 1) + 1 = Len(s) - k
            BY <1>1, <2>1
          <6> QED
            BY <5>1, <6>1, Zenon
        <5>2. CASE ~(k + 1 <= Len(s))
          <6>1. k \in Int /\ Len(s) \in Int /\ k <= Len(s)
            BY <1>1, <2>1
          <6>2. Len(s) - k = 0
            BY <5>2, <6>1
          <6> QED
            BY <5>2, <6>2, Zenon
        <5> QED
          BY <5>1, <5>2
      <4>2. Len(s) - (k + 1) + 1 = Len(s) - k
        BY <1>1, <2>1
      <4> QED
        BY <3>2, <4>1, <4>2, Zenon
    <3>4. \A m \in 1..Len(s) - k : k + 1 + m - 1 = k + m
      BY <2>1
    <3> QED
      BY <3>2, <3>3, <3>4
  <2>6. /\ t \in Seq(Entry) /\ DOMAIN t = 1..Len(s) - 1
        /\ \A m \in 1..Len(s) - 1 : t[m] = s[IF m < k THEN m ELSE m + 1]
    <3>1. t = u \o v
      BY <2>3
    <3> HIDE DEF t
    <3>2. /\ t \in Seq(Entry) /\ Len(t) = k - 1 + (Len(s) - k)
          /\ \A m \in 1..k - 1 + (Len(s) - k) :
               t[m] = IF m <= k - 1 THEN u[m] ELSE v[m - (k - 1)]
      <4>1. /\ t \in Seq(Entry) /\ Len(t) = Len(u) + Len(v)
            /\ \A m \in 1..Len(u) + Len(v) :
                 t[m] = IF m <= Len(u) THEN u[m] ELSE v[m - Len(u)]
        <5>1. u \in Seq(Entry) /\ v \in Seq(Entry)
          BY <2>4, <2>5
        <5> QED
          BY <3>1, <5>1, ConcatProperties
      <4>2. Len(u) = k - 1 /\ Len(v) = Len(s) - k
        BY <2>4, <2>5
      <4> QED
        BY <4>1, <4>2
    <3>3. k - 1 + (Len(s) - k) = Len(s) - 1
      BY <1>1, <2>1
    <3>4. ASSUME NEW m \in 1..Len(s) - 1
          PROVE  t[m] = s[IF m < k THEN m ELSE m + 1]
      <4>1. CASE m < k
        BY <1>1, <2>1, <2>4, <3>2, <3>3, <4>1
      <4>2. CASE ~(m < k)
        <5>1. m - (k - 1) \in 1..Len(s) - k /\ k + (m - (k - 1)) = m + 1 /\ ~(m <= k - 1)
          BY <1>1, <2>1, <4>2
        <5>2. t[m] = v[m - (k - 1)]
          BY <3>2, <3>3, <5>1
        <5> QED
          BY <2>5, <4>2, <5>1, <5>2
      <4> QED
        BY <4>1, <4>2
    <3> QED
      BY <3>2, <3>3, <3>4
  <2> HIDE DEF t
  <2> DEFINE e == [m \in DOMAIN t |-> IF m < k THEN m ELSE m + 1]
  <2>7. \A m \in DOMAIN t : e[m] \in DOMAIN s /\ t[m] = s[e[m]]
    BY <1>1, <2>1, <2>6
  <2>8. \A m, n \in DOMAIN t : m < n => e[m] < e[n]
    BY <1>1, <2>1, <2>6
  <2>9. e \in [DOMAIN t -> DOMAIN s]
    BY <2>7
  <2> HIDE DEF e
  <2>10. Thinned(s, t)
    BY <2>7, <2>8, <2>9 DEF Thinned
  <2> QED
    BY <2>2, <2>6, <2>10
<1> QED
  BY <1>2, <1>3

-----------------------------------------------------------------------------
(* The device *)

Gic ==
  [ctlr : BOOLEAN,
   enabled : [Banks -> SUBSET Intid], pending : [Banks -> SUBSET Intid],
   active : [Banks -> SUBSET Intid],
   level : SUBSET Spi, input : SUBSET Spi, edge : SUBSET Spi,
   priority : [Banks -> UNION {[Held(b) -> Prio \cup {0}] : b \in Banks}],
   route : [Spi -> Cpu \cup {Nowhere}],
   group1 : SUBSET Cpu, mask : [Cpu -> 0..Idle], bpr1 : [Cpu -> 0..7],
   split : SUBSET Cpu, list : [Cpu -> Seq(Entry)]]

(* A bank has its own interrupts only. *)
HeldOK(g) ==
  \A b \in Banks :
    /\ g.enabled[b] \subseteq Held(b) /\ g.pending[b] \subseteq Held(b)
    /\ g.priority[b] \in [Held(b) -> Prio \cup {0}]

Fine(g) ==
  /\ g \in Gic /\ HeldOK(g) /\ g.level \subseteq g.input
  /\ \A c \in Cpu : ListOK(c, g.list[c])

(* The banks of a device in order are banks of interrupts. *)
LEMMA FineBanks ==
  ASSUME NEW g, Fine(g)
  PROVE  /\ g.enabled \in [Banks -> SUBSET Intid] /\ g.pending \in [Banks -> SUBSET Intid]
         /\ g.active \in [Banks -> SUBSET Intid]
BY DEF Fine, Gic

(* Every bank but the shared one belongs to a CPU of its own. *)
LEMMA BankFacts ==
  /\ Shared \in Banks /\ Shared \notin Cpu /\ Cpu \subseteq Banks /\ Cpu \subseteq Nat
  /\ Nowhere \notin Cpu /\ 0 \in Cpu /\ Vtimer \notin Spi
  /\ Spi \subseteq Intid /\ \A c \in Cpu : Private[c] \subseteq Intid
  /\ \A b \in Banks : Held(b) \subseteq Intid
  /\ \A c \in Cpu : \A i \in Spi \cup Private[c] :
       Bank(c, i) \in Banks /\ i \in Held(Bank(c, i))
  /\ Held(Shared) = Spi /\ \A c \in Cpu : Held(c) = Private[c] /\ Spi \cap Held(c) = {}
BY Numbers DEF Banks, Intid, Held, Bank, Vtimer

(* Interrupts added to a bank, or taken out of it. *)
LEMMA BankMarked ==
  ASSUME NEW f \in [Banks -> SUBSET Intid], NEW b \in Banks, NEW X, X \subseteq Intid
  PROVE  /\ [f EXCEPT ![b] = @ \cup X] \in [Banks -> SUBSET Intid]
         /\ [f EXCEPT ![b] = @ \ X] \in [Banks -> SUBSET Intid]
<1>1. f[b] \cup X \in SUBSET Intid /\ f[b] \ X \in SUBSET Intid
  OBVIOUS
<1> QED
  BY <1>1

(* CPU d has no interrupt in h that it does not have in g. *)
Sees(g, h, d) ==
  /\ d \in h.group1 => d \in g.group1
  /\ h.ctlr => g.ctlr
  /\ h.mask[d] = g.mask[d] /\ h.bpr1[d] = g.bpr1[d] /\ h.list[d] = g.list[d]
  /\ h.priority[d] = g.priority[d] /\ h.priority[Shared] = g.priority[Shared]
  /\ Ready(h, d) \subseteq Ready(g, d)
  /\ \A i \in Ready(h, Shared) :
       h.route[i] = d => i \in Ready(g, Shared) /\ g.route[i] = d

(* A CPU's line follows from what it sees. *)
LEMMA LineKept ==
  ASSUME NEW g, NEW h, NEW d \in Cpu, Sees(g, h, d), Line(h, d)
  PROVE  Line(g, d)
<1>1. Undropped(h, d) = Undropped(g, d)
  BY DEF Undropped, Sees
<1>2. Running(h, d) = Running(g, d)
  BY <1>1 DEF Running
<1>3. Preemption(h, d) = Preemption(g, d)
  BY <1>2 DEF Preemption, Sees
<1>4. Threshold(h, d) = Threshold(g, d)
  BY <1>3 DEF Threshold, Sees
<1>5. \A i : Priority(h, d, i) = Priority(g, d, i)
  BY DEF Priority, Bank, Sees
<1>6. Candidates(h, d) \subseteq Candidates(g, d)
  BY <1>4, <1>5 DEF Candidates, Sees
<1> QED
  BY <1>6 DEF Line, Sees

(* Good(g, r, who): the access by who that turned g into r left the device in
   order, and whoever's line rose is kicked.                               *)
Good(g, r, who) ==
  /\ Fine(r.gic) /\ r.kick \subseteq Cpu
  /\ \A d \in Cpu \ {who} : Line(r.gic, d) => Line(g, d) \/ d \in r.kick

(* An access is good if each CPU but its own is kicked, is among those whose
   line is compared, or sees nothing new.                                  *)
LEMMA AccessGood ==
  ASSUME NEW g, NEW h, NEW kick, NEW S, NEW who, Fine(h), kick \subseteq Cpu,
         Changed(g, h, S) \subseteq kick,
         \A d \in Cpu \ {who} : d \in kick \/ d \in S \/ Sees(g, h, d)
  PROVE  Good(g, Result(h, kick), who)
<1>1. \A d \in S : Line(h, d) => Line(g, d) \/ d \in kick
  BY DEF Changed
<1>2. \A d \in Cpu : Sees(g, h, d) /\ Line(h, d) => Line(g, d)
  BY LineKept
<1> QED
  BY <1>1, <1>2 DEF Good, Result

-----------------------------------------------------------------------------
(* Interrupts from devices, from the timer and from other CPUs *)

(* Only interrupts and what is pending differ: whoever an SPI does not go to, and
   whose own bank is the same, sees nothing new.                           *)
LEMMA SendMsiGood ==
  ASSUME NEW g, Fine(g), NEW i \in Spi, NEW who
  PROVE  Good(g, SendMsi(g, i), who)
<1> DEFINE h == [g EXCEPT !.pending[Shared] = @ \cup {i}]
           S == Target(g, i)
<1>1. h \in Gic
  <2>1. [g.pending EXCEPT ![Shared] = @ \cup {i}] \in [Banks -> SUBSET Intid]
    <3>1. g.pending \in [Banks -> SUBSET Intid] /\ {i} \subseteq Intid
      BY BankFacts DEF Fine, Gic
    <3> QED
      BY <3>1, BankFacts, BankMarked
  <2> QED
    BY <2>1 DEF Fine, Gic
<1>2. Fine(h)
  <2>1. HeldOK(h)
    BY BankFacts DEF Fine, HeldOK, Gic
  <2> QED
    BY <1>1, <2>1 DEF Fine, Gic
<1>3. Changed(g, h, S) \subseteq Cpu
  BY DEF Changed, Target, Fine, Gic
<1>4. \A d \in Cpu : d \in S \/ Sees(g, h, d)
  BY BankFacts DEF Sees, Ready, Target, Fine, Gic
<1> QED
  BY <1>2, <1>3, <1>4, AccessGood DEF SendMsi

(* The same for an input that rises or falls. *)
LEMMA SetSpiGood ==
  ASSUME NEW g, Fine(g), NEW i \in Spi, NEW high \in BOOLEAN, NEW who
  PROVE  Good(g, SetSpi(g, i, high), who)
<1> DEFINE level == IF high /\ i \notin g.edge THEN g.level \cup {i} ELSE g.level \ {i}
           input == IF high THEN g.input \cup {i} ELSE g.input \ {i}
           new == IF high /\ i \in g.edge \ g.input THEN {i} ELSE {}
           h == [g EXCEPT !.level = level, !.input = input, !.pending[Shared] = @ \cup new]
           kick == IF i \in g.edge /\ ~high THEN {} ELSE Changed(g, h, Target(g, i))
<1>1. /\ level \subseteq input /\ input \subseteq Spi /\ new \subseteq {i}
      /\ level \subseteq g.level \cup {i}
      /\ i \in g.edge /\ ~high => level \subseteq g.level /\ new = {}
  BY DEF Fine, Gic
<1>2. SetSpi(g, i, high) = Result(h, kick)
  BY DEF SetSpi
<1> HIDE DEF level, input, new
<1>3. h \in Gic
  <2>1. [g.pending EXCEPT ![Shared] = @ \cup new] \in [Banks -> SUBSET Intid]
    <3>1. g.pending \in [Banks -> SUBSET Intid]
      BY FineBanks
    <3>2. new \subseteq Intid
      BY <1>1, BankFacts
    <3> QED
      BY <3>1, <3>2, BankFacts, BankMarked
  <2> QED
    BY <1>1, <2>1 DEF Fine, Gic
<1>4. Fine(h)
  <2>1. HeldOK(h)
    BY <1>1, BankFacts DEF Fine, HeldOK, Gic
  <2> QED
    BY <1>1, <1>3, <2>1 DEF Fine, Gic
<1>5. Changed(g, h, Target(g, i)) \subseteq Cpu
  BY DEF Changed, Target, Fine, Gic
<1>6. ASSUME NEW d \in Cpu, d \notin Target(g, i) \/ (level \subseteq g.level /\ new = {})
      PROVE  Sees(g, h, d)
  <2>1. Ready(h, d) \subseteq Ready(g, d)
    BY <1>1, BankFacts DEF Ready, HeldOK, Fine, Gic
  <2>2. \A j \in Ready(h, Shared) : h.route[j] = d => j \in Ready(g, Shared) /\ g.route[j] = d
    BY <1>1, <1>6, BankFacts DEF Ready, Target, Fine, Gic
  <2> QED
    BY <2>1, <2>2 DEF Sees, Fine, Gic
<1>7. CASE i \in g.edge /\ ~high
  <2>1. kick = {} /\ Changed(g, h, {}) = {}
    BY <1>7 DEF Changed
  <2>2. \A d \in Cpu : Sees(g, h, d)
    BY <1>1, <1>6, <1>7
  <2> HIDE DEF h, kick
  <2> QED
    BY <1>2, <1>4, <2>1, <2>2, AccessGood
<1>8. CASE ~(i \in g.edge /\ ~high)
  <2>1. kick = Changed(g, h, Target(g, i))
    BY <1>8
  <2>2. \A d \in Cpu : d \in Target(g, i) \/ Sees(g, h, d)
    BY <1>6
  <2> HIDE DEF h, kick
  <2> QED
    BY <1>2, <1>4, <1>5, <2>1, <2>2, AccessGood
<1> QED
  BY <1>7, <1>8

(* A timer's interrupt is its CPU's own. *)
LEMMA FireVtimerGood ==
  ASSUME NEW g, Fine(g), NEW c \in Cpu, Vtimer \in Private[c]
  PROVE  Good(g, FireVtimer(g, c), c)
<1> DEFINE h == [g EXCEPT !.pending[c] = @ \cup {Vtimer}]
           kick == IF Vtimer \in g.pending[c] THEN {} ELSE Changed(g, h, {c})
<1>1. h \in Gic
  <2>1. [g.pending EXCEPT ![c] = @ \cup {Vtimer}] \in [Banks -> SUBSET Intid]
    <3>1. g.pending \in [Banks -> SUBSET Intid]
      BY FineBanks
    <3>2. {Vtimer} \subseteq Intid /\ c \in Banks
      BY BankFacts
    <3> QED
      BY <3>1, <3>2, BankMarked
  <2> QED
    BY <2>1 DEF Fine, Gic
<1>2. Fine(h)
  <2>1. HeldOK(h)
    BY BankFacts DEF Fine, HeldOK, Gic
  <2> QED
    BY <1>1, <2>1 DEF Fine, Gic
<1>3. Changed(g, h, {}) \subseteq kick /\ kick \subseteq Cpu
  BY DEF Changed
<1>4. \A d \in Cpu \ {c} : Sees(g, h, d)
  BY BankFacts DEF Sees, Ready, Fine, Gic
<1> QED
  BY <1>2, <1>3, <1>4, AccessGood DEF FireVtimer

(* An SGI is pending in the banks of its targets. *)
LEMMA SendSgiGood ==
  ASSUME NEW g, Fine(g), NEW i, NEW targets, targets \subseteq {d \in Cpu : i \in Private[d]},
         NEW who
  PROVE  Good(g, SendSgi(g, i, targets), who)
<1> DEFINE h == [g EXCEPT !.pending =
                   [b \in Banks |-> IF b \in targets THEN @[b] \cup {i} ELSE @[b]]]
<1>1. h \in Gic
  <2>1. \A b \in targets : b \in Cpu /\ i \in Private[b]
    OBVIOUS
  <2>2. /\ g.pending \in [Banks -> SUBSET Intid]
        /\ \A b \in Banks : b \in targets => g.pending[b] \cup {i} \in SUBSET Intid
    <3>1. g.pending \in [Banks -> SUBSET Intid]
      BY DEF Fine, Gic
    <3>2. \A b \in targets : {i} \subseteq Intid
      BY <2>1, BankFacts
    <3> QED
      BY <3>1, <3>2
  <2>3. [b \in Banks |-> IF b \in targets THEN g.pending[b] \cup {i} ELSE g.pending[b]]
          \in [Banks -> SUBSET Intid]
    BY <2>2
  <2> QED
    BY <2>3 DEF Fine, Gic
<1>2. Fine(h)
  <2>1. HeldOK(h)
    <3>1. \A b \in targets : b \in Cpu /\ i \in Held(b)
      BY BankFacts
    <3> QED
      BY <3>1 DEF Fine, HeldOK, Gic
  <2> QED
    BY <1>1, <2>1 DEF Fine, Gic
<1>3. Changed(g, h, targets) \subseteq Cpu
  BY DEF Changed
<1>4. \A d \in Cpu : d \in targets \/ Sees(g, h, d)
  BY BankFacts DEF Sees, Ready, Fine, Gic
<1> QED
  BY <1>2, <1>3, <1>4, AccessGood DEF SendSgi

-----------------------------------------------------------------------------
(* The CPU interface *)

(* What a CPU writes to its own registers, nobody else sees. *)
LEMMA OwnGood ==
  ASSUME NEW g, Fine(g), NEW c \in Cpu, NEW r, NEW p \in 0..Idle, NEW n \in 0..7,
         NEW on \in BOOLEAN,
         \/ r = SetMask(g, c, p) \/ r = SetBpr(g, c, n)
         \/ r = SetGroup1(g, c, on) \/ r = SetSplit(g, c, on)
  PROVE  Good(g, r, c)
<1> DEFINE h == r.gic
<1> DEFINE Same == h \in Gic /\ \A d \in Cpu \ {c} :
                     /\ h.mask[d] = g.mask[d] /\ h.bpr1[d] = g.bpr1[d]
                     /\ d \in h.group1 <=> d \in g.group1
<1>1. Same
  <2>1. CASE r = SetMask(g, c, p)
    <3>1. [g.mask EXCEPT ![c] = p] \in [Cpu -> 0..Idle]
      BY DEF Fine, Gic
    <3> QED
      BY <2>1, <3>1 DEF Fine, Gic, SetMask, Result
  <2>2. CASE r = SetBpr(g, c, n)
    <3>1. [g.bpr1 EXCEPT ![c] = n] \in [Cpu -> 0..7]
      BY DEF Fine, Gic
    <3> QED
      BY <2>2, <3>1 DEF Fine, Gic, SetBpr, Result
  <2>3. CASE r = SetGroup1(g, c, on)
    <3>1. PICK G : G = (IF on THEN g.group1 \cup {c} ELSE g.group1 \ {c})
      OBVIOUS
    <3>2. G \subseteq Cpu /\ \A d \in Cpu \ {c} : d \in G <=> d \in g.group1
      BY <3>1 DEF Fine, Gic
    <3>3. h = [g EXCEPT !.group1 = G]
      BY <2>3, <3>1 DEF SetGroup1, Result, Fine, Gic
    <3> QED
      BY <3>2, <3>3 DEF Fine, Gic
  <2>4. CASE r = SetSplit(g, c, on)
    <3>1. PICK G : G = (IF on THEN g.split \cup {c} ELSE g.split \ {c})
      OBVIOUS
    <3>2. G \subseteq Cpu
      BY <3>1 DEF Fine, Gic
    <3>3. h = [g EXCEPT !.split = G]
      BY <2>4, <3>1 DEF SetSplit, Result, Fine, Gic
    <3> QED
      BY <3>2, <3>3 DEF Fine, Gic
  <2> QED
    BY <2>1, <2>2, <2>3, <2>4
<1>2. /\ h.enabled = g.enabled /\ h.pending = g.pending /\ h.active = g.active
      /\ h.level = g.level /\ h.input = g.input /\ h.priority = g.priority
      /\ h.route = g.route /\ h.list = g.list /\ h.ctlr = g.ctlr
  BY DEF Fine, Gic, SetMask, SetBpr, SetGroup1, SetSplit, Result
<1>3. r = Result(h, r.kick) /\ r.kick \subseteq Cpu
  BY DEF SetMask, SetBpr, SetGroup1, SetSplit, Result
<1> HIDE DEF h
<1>4. Fine(h)
  BY <1>1, <1>2 DEF Fine, HeldOK
<1>5. \A d \in Cpu \ {c} : Sees(g, h, d)
  BY <1>1, <1>2 DEF Sees, Ready
<1>6. Changed(g, h, {}) \subseteq r.kick
  BY DEF Changed
<1> QED
  BY <1>3, <1>4, <1>5, <1>6, AccessGood

(* A CPU that drops priorities, or all that an access does to its list. *)
LEMMA ListGood ==
  ASSUME NEW g, Fine(g), NEW c \in Cpu, NEW t, t \in Seq(Entry), Thinned(g.list[c], t),
         NEW kick, kick \subseteq Cpu, NEW h, h = [g EXCEPT !.list[c] = t]
  PROVE  /\ Good(g, Result(h, kick), c)
         /\ \A d \in Cpu \ {c} : Sees(h, g, d)
<1>1. h \in Gic
  <2>1. [g.list EXCEPT ![c] = t] \in [Cpu -> Seq(Entry)]
    BY DEF Fine, Gic
  <2> QED
    BY <2>1 DEF Fine, Gic
<1>2. ListOK(c, t)
  BY Thins DEF Fine
<1>3. /\ h.enabled = g.enabled /\ h.pending = g.pending /\ h.active = g.active
      /\ h.level = g.level /\ h.input = g.input /\ h.priority = g.priority
      /\ h.route = g.route /\ h.ctlr = g.ctlr /\ h.mask = g.mask /\ h.bpr1 = g.bpr1
      /\ h.group1 = g.group1
  BY DEF Fine, Gic
<1>4. h.list[c] = t /\ \A d \in Cpu \ {c} : h.list[d] = g.list[d]
  BY DEF Fine, Gic
<1>5. Fine(h)
  BY <1>1, <1>2, <1>3, <1>4 DEF Fine, HeldOK
<1>6. \A d \in Cpu \ {c} : Sees(g, h, d) /\ Sees(h, g, d)
  BY <1>3, <1>4 DEF Sees, Ready
<1>7. Changed(g, h, {}) \subseteq kick
  BY DEF Changed
<1>8. Good(g, Result(h, kick), c)
  BY <1>5, <1>6, <1>7, AccessGood
<1> QED
  BY <1>6, <1>8

(* Priorities dropped through ICC_AP1R: the list is thinned, and nobody else sees
   it.                                                                     *)
LEMMA DropPrioritiesGood ==
  ASSUME NEW g, Fine(g), NEW c \in Cpu, NEW gone
  PROVE  Good(g, DropPriorities(g, c, gone), c)
<1> DEFINE s == g.list[c]
           K == {k \in DOMAIN s : ~s[k].dropped /\ Even(s[k].priority) \in gone}
           t == [k \in DOMAIN s |-> IF k \in K THEN [s[k] EXCEPT !.dropped = TRUE] ELSE s[k]]
           h == [g EXCEPT !.list[c] = t]
<1>1. s \in Seq(Entry)
  BY DEF Fine, Gic
<1>2. t \in Seq(Entry) /\ Thinned(s, t)
  BY <1>1, Marked
<1>3. DropPriorities(g, c, gone) = Result(h, IF h = g THEN {} ELSE {c})
  <2>1. t = [k \in DOMAIN s |-> IF ~s[k].dropped /\ Even(s[k].priority) \in gone
                                  THEN [s[k] EXCEPT !.dropped = TRUE] ELSE s[k]]
    OBVIOUS
  <2> HIDE DEF t
  <2> QED
    BY <2>1 DEF DropPriorities, Fine, Gic
<1> HIDE DEF t
<1> QED
  BY <1>2, <1>3, ListGood

(* A CPU that ends an interrupt is not the only one to see it: an SPI that was
   pending meanwhile may go to another.                                    *)
LEMMA DeactivateGood ==
  ASSUME NEW g, Fine(g), NEW c \in Cpu, NEW i \in Spi \cup Private[c]
  PROVE  Good(g, Deactivate(g, c, i), c)
<1> DEFINE s == g.list[c]
           t == Without(s, LastOf(s, i))
           b == Bank(c, i)
           h == [g EXCEPT !.list[c] = t, !.active[b] = @ \ {i}]
           S == IF i \in Spi THEN Target(g, i) ELSE {}
           kick == {c} \cup (IF i \in Spi THEN Changed(g, h, Target(g, i)) ELSE {})
<1>1. s \in Seq(Entry)
  BY DEF Fine, Gic
<1>2. t \in Seq(Entry) /\ Thinned(s, t)
  BY <1>1, LastPlace, Removed
<1>3. Deactivate(g, c, i) = Result(h, kick)
  BY DEF Deactivate, Inactive
<1> HIDE DEF t
<1>4. b \in Banks /\ {i} \subseteq Intid /\ (i \in Spi => b = Shared) /\ (i \notin Spi => b = c)
  BY BankFacts DEF Bank
<1> HIDE DEF b
<1>5. /\ h.enabled = g.enabled /\ h.pending = g.pending
      /\ h.active = [g.active EXCEPT ![b] = @ \ {i}]
      /\ h.level = g.level /\ h.input = g.input /\ h.priority = g.priority
      /\ h.route = g.route /\ h.ctlr = g.ctlr /\ h.mask = g.mask /\ h.bpr1 = g.bpr1
      /\ h.group1 = g.group1 /\ h.list = [g.list EXCEPT ![c] = t]
  BY DEF Fine, Gic
<1>6. h \in Gic
  <2>1. [g.list EXCEPT ![c] = t] \in [Cpu -> Seq(Entry)]
    BY <1>2 DEF Fine, Gic
  <2>2. [g.active EXCEPT ![b] = @ \ {i}] \in [Banks -> SUBSET Intid]
    <3>1. g.active \in [Banks -> SUBSET Intid]
      BY DEF Fine, Gic
    <3> QED
      BY <1>4, <3>1, BankMarked
  <2> QED
    BY <2>1, <2>2 DEF Fine, Gic
<1> HIDE DEF h
<1>7. \A d \in Cpu : ListOK(d, h.list[d])
  BY <1>2, <1>5, Thins DEF Fine, Gic
<1>8. Fine(h)
  BY <1>5, <1>6, <1>7 DEF Fine, HeldOK
<1>9. \A d \in Cpu \ {c} : d \in S \/ Sees(g, h, d)
  <2> TAKE d \in Cpu \ {c}
  <2>1. h.list[d] = g.list[d]
    BY <1>5 DEF Fine, Gic
  <2>2. h.active[d] = g.active[d]
    BY <1>4, <1>5, BankFacts DEF Fine, Gic
  <2>3. \A j \in Ready(h, Shared) : j # i \/ i \notin Spi => j \in Ready(g, Shared)
    BY <1>4, <1>5, BankFacts DEF Ready, Fine, Gic
  <2>4. Ready(h, d) = Ready(g, d)
    BY <1>5, <2>2 DEF Ready
  <2>5. CASE i \in Spi /\ g.route[i] = d
    BY <2>5, BankFacts DEF Target
  <2>6. CASE ~(i \in Spi /\ g.route[i] = d)
    BY <1>5, <2>1, <2>3, <2>4, <2>6 DEF Sees
  <2> QED
    BY <2>5, <2>6
<1>10. kick \subseteq Cpu /\ Changed(g, h, S) \subseteq kick
  BY DEF Changed, Target, Fine, Gic
<1> QED
  BY <1>3, <1>8, <1>9, <1>10, AccessGood

(* What DropPriority makes of the list. *)
LEMMA DropPriorityGood ==
  ASSUME NEW g, Fine(g), NEW c \in Cpu, NEW i
  PROVE  /\ Good(g, Result(DropPriority(g, c, i), {c}), c)
         /\ \A d \in Cpu \ {c} : Sees(DropPriority(g, c, i), g, d)
<1> DEFINE s == g.list[c]
           t == [k \in DOMAIN s |-> IF k \in LastOf(s, i) THEN [s[k] EXCEPT !.dropped = TRUE]
                                                          ELSE s[k]]
           h == [g EXCEPT !.list[c] = t]
<1>1. s \in Seq(Entry)
  BY DEF Fine, Gic
<1>2. t \in Seq(Entry) /\ Thinned(s, t)
  BY <1>1, Marked
<1>3. DropPriority(g, c, i) = h
  BY DEF DropPriority
<1> HIDE DEF t
<1> QED
  BY <1>2, <1>3, ListGood

(* ICC_EOIR1, in one step or two. *)
LEMMA EndOfInterruptGood ==
  ASSUME NEW g, Fine(g), NEW c \in Cpu, NEW i \in Spi \cup Private[c]
  PROVE  Good(g, EndOfInterrupt(g, c, i), c)
<1> DEFINE h == DropPriority(g, c, i)
<1>1. Good(g, Result(h, {c}), c) /\ \A d \in Cpu \ {c} : Sees(h, g, d)
  BY DropPriorityGood
<1> HIDE DEF h
<1>2. CASE c \in g.split
  BY <1>1, <1>2 DEF EndOfInterrupt, h
<1>3. CASE c \notin g.split
  <2>1. Fine(h)
    BY <1>1 DEF Good, Result
  <2>2. Good(h, Deactivate(h, c, i), c)
    BY <2>1, DeactivateGood
  <2>3. \A d \in Cpu \ {c} : Line(h, d) => Line(g, d)
    BY <1>1 DEF Good, Result
  <2>4. Good(g, Deactivate(h, c, i), c)
    BY <2>2, <2>3 DEF Good
  <2> QED
    BY <1>3, <2>4 DEF EndOfInterrupt, h
<1> QED
  BY <1>2, <1>3

(* No candidate reaches what runs: the threshold is not above its group. *)
LEMMA Limits ==
  ASSUME NEW g, Fine(g), NEW c \in Cpu
  PROVE  /\ Threshold(g, c) \in Nat
         /\ \A k \in DOMAIN g.list[c] :
              ~g.list[c][k].dropped =>
                /\ Even(g.list[c][k].priority) \in Nat
                /\ Threshold(g, c) <= Even(g.list[c][k].priority)
<1> DEFINE s == g.list[c]
<1>1. s \in Seq(Entry)
  BY DEF Fine, Gic
<1>2. \A k \in DOMAIN s : s[k].priority \in Nat
  <2>1. \A k \in DOMAIN s : s[k] \in Entry
    BY <1>1
  <2>2. Prio \cup {0} \subseteq Nat
    BY Numbers DEF Idle
  <2> QED
    BY <2>1, <2>2 DEF Entry
<1>3. Undropped(g, c) \subseteq Nat
  BY <1>2, Evens DEF Undropped
<1>4. Running(g, c) \in Nat /\ \A x \in Undropped(g, c) : Running(g, c) <= x
  <2>1. CASE Undropped(g, c) = {}
    BY <2>1 DEF Running, Idle
  <2>2. CASE Undropped(g, c) # {}
    BY <1>3, <2>2, Least DEF Running
  <2> QED
    BY <2>1, <2>2
<1>5. Preemption(g, c) \in Nat /\ Preemption(g, c) <= Running(g, c)
  <2>1. CASE Running(g, c) = Idle
    BY <2>1 DEF Preemption, Idle
  <2>2. CASE Running(g, c) # Idle
    <3>1. PICK n : n = (IF g.bpr1[c] = 0 THEN 1 ELSE g.bpr1[c])
      OBVIOUS
    <3>2. n \in 1..7
      <4>1. g.bpr1[c] \in 0..7
        BY DEF Fine, Gic
      <4> QED
        BY <3>1, <4>1
    <3>3. Preemption(g, c) = Running(g, c) - (Running(g, c) % (2 ^ n))
      BY <2>2, <3>1 DEF Preemption
    <3> QED
      BY <1>4, <3>2, <3>3, Groups
  <2> QED
    BY <2>1, <2>2
<1>6. Threshold(g, c) \in Nat /\ Threshold(g, c) <= Preemption(g, c)
  <2>1. g.mask[c] \in Nat
    <3>1. g.mask \in [Cpu -> 0..Idle]
      BY DEF Fine, Gic
    <3> QED
      BY <3>1 DEF Idle
  <2>2. {g.mask[c], Preemption(g, c)} \subseteq Nat
    BY <1>5, <2>1
  <2> QED
    BY <2>2, Least DEF Threshold
<1>7. \A k \in DOMAIN s : ~s[k].dropped => Even(s[k].priority) \in Undropped(g, c)
  BY DEF Undropped
<1> QED
  BY <1>3, <1>4, <1>5, <1>6, <1>7

(* The candidate that is taken is one, its CPU's own or shared, and its priority
   is in a group above all that is running.                                *)
LEMMA BestCandidate ==
  ASSUME NEW g, Fine(g), NEW c \in Cpu, Candidates(g, c) # {}
  PROVE  LET i == Best(g, c) IN
         /\ i \in Spi \cup Private[c] /\ Priority(g, c, i) \in Prio \cup {0}
         /\ \A k \in DOMAIN g.list[c] :
              ~g.list[c][k].dropped =>
                Even(Priority(g, c, i)) < Even(g.list[c][k].priority)
<1> DEFINE i == Best(g, c)
           C == Candidates(g, c)
           P == {Priority(g, c, j) : j \in C}
           s == g.list[c]
<1>1. \A j \in C : j \in Spi \cup Private[c] /\ Priority(g, c, j) < Threshold(g, c)
  <2> TAKE j \in C
  <2>1. j \in Ready(g, c) \cup Ready(g, Shared) /\ Priority(g, c, j) < Threshold(g, c)
    BY DEF Candidates
  <2>2. g.enabled[c] \subseteq Held(c) /\ g.enabled[Shared] \subseteq Held(Shared)
    BY BankFacts DEF Fine, HeldOK
  <2>3. Held(c) = Private[c] /\ Held(Shared) = Spi
    BY BankFacts
  <2> QED
    BY <2>1, <2>2, <2>3 DEF Ready
<1>2. \A j \in Spi \cup Private[c] : Priority(g, c, j) \in Prio \cup {0}
  <2> TAKE j \in Spi \cup Private[c]
  <2>1. Bank(c, j) \in Banks /\ j \in Held(Bank(c, j))
    BY BankFacts
  <2>2. g.priority[Bank(c, j)] \in [Held(Bank(c, j)) -> Prio \cup {0}]
    BY <2>1 DEF Fine, HeldOK
  <2> QED
    BY <2>1, <2>2 DEF Priority
<1>3. Prio \cup {0} \subseteq Nat /\ Spi \cup Private[c] \subseteq Nat
  <2>1. Private[c] \subseteq 0..31 /\ Spi \subseteq 32..255 /\ Prio \subseteq 0..255
    BY Numbers DEF Idle
  <2>2. 0..31 \subseteq Nat /\ 32..255 \subseteq Nat /\ 0..255 \subseteq Nat
    OBVIOUS
  <2>3. \A x \in Private[c] : x \in 0..31
    BY <2>1
  <2>4. \A x \in Spi : x \in 32..255
    BY <2>1
  <2>5. \A x \in Prio : x \in 0..255
    BY <2>1
  <2> QED
    BY <2>2, <2>3, <2>4, <2>5
<1> HIDE DEF C
<1>4. i \in C
  <2>1. P \subseteq Nat /\ P # {}
    BY <1>1, <1>2, <1>3 DEF C
  <2>2. PICK p \in P : \A x \in P : p <= x
    BY <2>1, Least
  <2> DEFINE Q == {j \in C : Priority(g, c, j) = p}
  <2>3. Q \subseteq Nat /\ Q # {}
    BY <1>1, <1>3, <2>2
  <2>4. PICK q \in Q : \A x \in Q : q <= x
    BY <2>3, Least
  <2>5. \A j \in C : \/ Priority(g, c, q) < Priority(g, c, j)
                     \/ Priority(g, c, q) = Priority(g, c, j) /\ q <= j
    <3> TAKE j \in C
    <3>1. p \in Nat /\ Priority(g, c, j) \in Nat /\ p <= Priority(g, c, j)
      BY <2>1, <2>2
    <3>2. CASE Priority(g, c, j) = p
      BY <2>4, <3>2
    <3>3. CASE Priority(g, c, j) # p
      BY <2>4, <3>1, <3>3
    <3> QED
      BY <3>2, <3>3
  <2> QED
    BY <2>4, <2>5 DEF Best, C
<1>5. Priority(g, c, i) \in Nat /\ Priority(g, c, i) < Threshold(g, c)
  BY <1>1, <1>2, <1>3, <1>4
<1>6. Even(Priority(g, c, i)) \in Nat /\ Even(Priority(g, c, i)) <= Priority(g, c, i)
  BY <1>5, Evens
<1> HIDE DEF i
<1>7. ASSUME NEW k \in DOMAIN s, ~s[k].dropped
      PROVE  Even(Priority(g, c, i)) < Even(s[k].priority)
  <2>1. /\ Threshold(g, c) \in Nat /\ Even(s[k].priority) \in Nat
        /\ Threshold(g, c) <= Even(s[k].priority)
    BY <1>7, Limits
  <2> QED
    BY <1>5, <1>6, <2>1
<1> QED
  BY <1>1, <1>2, <1>4, <1>7 DEF i

(* ICC_IAR1: the new entry nests in all that is running, and no dropped entry of
   its interrupt is left.  No other CPU sees more than before.             *)
LEMMA AcknowledgeGood ==
  ASSUME NEW g, Fine(g), NEW c \in Cpu
  PROVE  Good(g, Acknowledge(g, c), c)
<1>1. CASE ~Line(g, c)
  <2>1. Acknowledge(g, c) = Result(g, {})
    BY <1>1 DEF Acknowledge
  <2> QED
    BY <2>1 DEF Good, Result
<1>2. CASE Line(g, c)
  <2> DEFINE i == Best(g, c)
             s == g.list[c]
             t == Retired(s, i)
             e == [intid |-> i, priority |-> Priority(g, c, i), dropped |-> FALSE]
             u == Append(t, e)
             b == Bank(c, i)
             h == [g EXCEPT !.pending[b] = @ \ {i}, !.active[b] = @ \cup {i}, !.list[c] = u]
  <2>1. Acknowledge(g, c) = Result(h, {})
    BY <1>2 DEF Acknowledge
  <2>2. /\ i \in Spi \cup Private[c] /\ Priority(g, c, i) \in Prio \cup {0}
        /\ \A k \in DOMAIN s : ~s[k].dropped => Even(Priority(g, c, i)) < Even(s[k].priority)
    BY <1>2, BestCandidate DEF Line
  <2>3. s \in Seq(Entry) /\ ListOK(c, s)
    BY DEF Fine, Gic
  <2>4. b \in Banks /\ {i} \subseteq Intid /\ b \in {Shared, c}
    BY <2>2, BankFacts DEF Bank
  <2> HIDE DEF i, b
  <2>5. /\ t \in Seq(Entry) /\ Thinned(s, t) /\ ListOK(c, t)
        /\ \A m \in DOMAIN t : ~(t[m].dropped /\ t[m].intid = i)
    BY <2>3, RetiredThins, Thins
  <2> HIDE DEF t
  <2>6. e \in Entry /\ e.intid = i /\ e.priority = Priority(g, c, i) /\ ~e.dropped
    BY <2>2, <2>4 DEF Entry
  <2> HIDE DEF e
  <2>7. /\ u \in Seq(Entry) /\ Len(t) \in Nat /\ DOMAIN t = 1..Len(t)
        /\ DOMAIN u = 1..Len(t) + 1
        /\ u[Len(t) + 1] = e /\ \A k \in 1..Len(t) : u[k] = t[k]
    BY <2>5, <2>6
  <2> HIDE DEF u
  <2>8. ASSUME NEW m \in DOMAIN t, ~t[m].dropped
        PROVE  Even(e.priority) < Even(t[m].priority)
    <3>1. PICK k \in DOMAIN s : t[m].priority = s[k].priority /\ ~s[k].dropped
      BY <2>5, <2>8 DEF Thinned
    <3> QED
      BY <2>2, <2>6, <3>1
  <2>9. ListOK(c, u)
    <3>1. Own(c, u)
      <4>1. \A k \in 1..Len(t) : u[k].intid \in Spi \cup Private[c]
        BY <2>5, <2>7 DEF ListOK, Own
      <4>2. u[Len(t) + 1].intid \in Spi \cup Private[c]
        BY <2>2, <2>6, <2>7
      <4> QED
        BY <2>7, <4>1, <4>2 DEF Own
    <3>2. Nested(u)
      <4> SUFFICES ASSUME NEW j \in DOMAIN u, NEW k \in DOMAIN u, j < k,
                          ~u[j].dropped, ~u[k].dropped
                   PROVE  Even(u[k].priority) < Even(u[j].priority)
        BY DEF Nested
      <4>1. j \in 1..Len(t) /\ u[j] = t[j]
        BY <2>7
      <4>2. CASE k = Len(t) + 1
        BY <2>7, <2>8, <4>1, <4>2
      <4>3. CASE k \in 1..Len(t)
        BY <2>5, <2>7, <4>1, <4>3 DEF ListOK, Nested
      <4> QED
        BY <2>7, <4>2, <4>3
    <3>3. Distinct(u)
      <4> SUFFICES ASSUME NEW j \in DOMAIN u, NEW k \in DOMAIN u, j < k,
                          u[j].intid = u[k].intid
                   PROVE  Even(u[k].priority) < Even(u[j].priority)
        BY DEF Distinct
      <4>1. j \in 1..Len(t) /\ u[j] = t[j]
        BY <2>7
      <4>2. CASE k = Len(t) + 1
        BY <2>5, <2>6, <2>7, <2>8, <4>1, <4>2
      <4>3. CASE k \in 1..Len(t)
        BY <2>5, <2>7, <4>1, <4>3 DEF ListOK, Distinct
      <4> QED
        BY <2>7, <4>2, <4>3
    <3> QED
      BY <2>7, <3>1, <3>2, <3>3 DEF ListOK
  <2>10. /\ h.enabled = g.enabled /\ h.level = g.level /\ h.input = g.input
         /\ h.pending = [g.pending EXCEPT ![b] = @ \ {i}]
         /\ h.active = [g.active EXCEPT ![b] = @ \cup {i}]
         /\ h.priority = g.priority /\ h.route = g.route /\ h.ctlr = g.ctlr
         /\ h.mask = g.mask /\ h.bpr1 = g.bpr1 /\ h.group1 = g.group1
         /\ h.list = [g.list EXCEPT ![c] = u]
    BY DEF Fine, Gic
  <2>11. h \in Gic
    <3>1. [g.list EXCEPT ![c] = u] \in [Cpu -> Seq(Entry)]
      BY <2>7 DEF Fine, Gic
    <3>2. /\ [g.pending EXCEPT ![b] = @ \ {i}] \in [Banks -> SUBSET Intid]
          /\ [g.active EXCEPT ![b] = @ \cup {i}] \in [Banks -> SUBSET Intid]
      <4>1. g.pending \in [Banks -> SUBSET Intid] /\ g.active \in [Banks -> SUBSET Intid]
        BY DEF Fine, Gic
      <4> QED
        BY <2>4, <4>1, BankMarked
    <3> QED
      BY <3>1, <3>2 DEF Fine, Gic
  <2> HIDE DEF h
  <2>12. \A d \in Cpu : ListOK(d, h.list[d])
    BY <2>9, <2>10 DEF Fine, Gic
  <2>13. HeldOK(h)
    BY <2>4, <2>10 DEF HeldOK, Fine, Gic
  <2>14. Fine(h)
    BY <2>10, <2>11, <2>12, <2>13 DEF Fine
  <2>15. \A d \in Cpu \ {c} : Sees(g, h, d)
    <3> TAKE d \in Cpu \ {c}
    <3>1. h.list[d] = g.list[d]
      BY <2>10 DEF Fine, Gic
    <3>2. \A x \in Banks : Ready(h, x) \subseteq Ready(g, x)
      BY <2>4, <2>10 DEF Ready, Fine, Gic
    <3> QED
      BY <2>10, <3>1, <3>2, BankFacts DEF Sees
  <2>16. Changed(g, h, {}) \subseteq {}
    BY DEF Changed
  <2> QED
    BY <2>1, <2>14, <2>15, <2>16, AccessGood
<1> QED
  BY <1>1, <1>2

-----------------------------------------------------------------------------
(* Registers in memory *)

(* Everybody is kicked. *)
LEMMA SharedGood ==
  ASSUME NEW g, Fine(g), NEW who, NEW on \in BOOLEAN, NEW i,
         NEW d \in Cpu \cup {Nowhere}, NEW r,
         r = SetCtlr(g, on) \/ r = SetRoute(g, i, d)
  PROVE  Good(g, r, who)
<1>1. r.kick = Cpu
  BY DEF SetCtlr, SetRoute, Result
<1>2. [g.route EXCEPT ![i] = d] \in [Spi -> Cpu \cup {Nowhere}]
  BY DEF Fine, Gic
<1>3. r.gic \in Gic
  <2>1. CASE r = SetCtlr(g, on)
    BY <2>1 DEF Fine, Gic, SetCtlr, Result
  <2>2. CASE r = SetRoute(g, i, d)
    BY <1>2, <2>2 DEF Fine, Gic, SetRoute, Result
  <2> QED
    BY <2>1, <2>2
<1>4. /\ r.gic.enabled = g.enabled /\ r.gic.pending = g.pending
      /\ r.gic.level = g.level /\ r.gic.input = g.input
      /\ r.gic.priority = g.priority /\ r.gic.list = g.list
  BY DEF Fine, Gic, SetCtlr, SetRoute, Result
<1>5. Fine(r.gic)
  BY <1>3, <1>4 DEF Fine, HeldOK
<1> QED
  BY <1>1, <1>5 DEF Good

(* Whether an input is an edge is told apart when it rises, not before. *)
LEMMA SetEdgeGood ==
  ASSUME NEW g, Fine(g), NEW who, NEW i \in Spi, NEW on \in BOOLEAN
  PROVE  Good(g, SetEdge(g, i, on), who)
<1> DEFINE h == [g EXCEPT !.edge = IF on THEN @ \cup {i} ELSE @ \ {i}]
<1>1. PICK E : E = (IF on THEN g.edge \cup {i} ELSE g.edge \ {i})
  OBVIOUS
<1>2. E \subseteq Spi /\ h = [g EXCEPT !.edge = E]
  BY <1>1 DEF Fine, Gic
<1>3. h \in Gic
  BY <1>2 DEF Fine, Gic
<1>4. /\ h.enabled = g.enabled /\ h.pending = g.pending /\ h.active = g.active
      /\ h.level = g.level /\ h.input = g.input /\ h.priority = g.priority
      /\ h.route = g.route /\ h.list = g.list /\ h.ctlr = g.ctlr
      /\ h.mask = g.mask /\ h.bpr1 = g.bpr1 /\ h.group1 = g.group1
  BY <1>2 DEF Fine, Gic
<1>5. SetEdge(g, i, on) = Result(h, {})
  BY DEF SetEdge
<1> HIDE DEF h
<1>6. Fine(h)
  BY <1>3, <1>4 DEF Fine, HeldOK
<1>7. \A d \in Cpu : Sees(g, h, d)
  BY <1>4 DEF Sees, Ready
<1>8. Changed(g, h, {}) \subseteq {}
  BY DEF Changed
<1> QED
  BY <1>5, <1>6, <1>7, <1>8, AccessGood

(* A priority is a bank's: whoever uses the bank looks again. *)
LEMMA SetPriorityGood ==
  ASSUME NEW g, Fine(g), NEW who, NEW b \in Banks, NEW i \in Held(b), NEW p \in Prio
  PROVE  Good(g, SetPriority(g, b, i, p), who)
<1> DEFINE h == [g EXCEPT !.priority[b][i] = p]
<1>1. SetPriority(g, b, i, p) = Result(h, Changed(g, h, Users(b)))
  BY DEF SetPriority
<1>2. /\ h.enabled = g.enabled /\ h.pending = g.pending /\ h.active = g.active
      /\ h.level = g.level /\ h.input = g.input
      /\ h.route = g.route /\ h.list = g.list /\ h.ctlr = g.ctlr
      /\ h.mask = g.mask /\ h.bpr1 = g.bpr1 /\ h.group1 = g.group1
      /\ h.priority = [g.priority EXCEPT ![b][i] = p]
  BY DEF Fine, Gic
<1>3. [g.priority[b] EXCEPT ![i] = p] \in [Held(b) -> Prio \cup {0}]
  BY DEF Fine, HeldOK
<1>4. h.priority = [g.priority EXCEPT ![b] = [g.priority[b] EXCEPT ![i] = p]]
  BY <1>2 DEF Fine, Gic
<1>5. \A x \in Banks : x # b => h.priority[x] = g.priority[x]
  BY <1>4 DEF Fine, Gic
<1>6. \A x \in Banks : h.priority[x] \in [Held(x) -> Prio \cup {0}]
  BY <1>3, <1>4, <1>5 DEF Fine, HeldOK, Gic
<1>7. h.priority \in [Banks -> UNION {[Held(x) -> Prio \cup {0}] : x \in Banks}]
  <2>1. h.priority = [x \in Banks |-> h.priority[x]]
    BY <1>4 DEF Fine, Gic
  <2>2. \A x \in Banks : h.priority[x] \in UNION {[Held(y) -> Prio \cup {0}] : y \in Banks}
    BY <1>6
  <2> HIDE DEF h
  <2> QED
    BY <2>1, <2>2
<1>8. h \in Gic
  <2>1. h = [g EXCEPT !.priority = h.priority]
    BY <1>2 DEF Fine, Gic
  <2> HIDE DEF h
  <2> QED
    BY <1>7, <2>1 DEF Fine, Gic
<1> HIDE DEF h
<1>9. Fine(h)
  BY <1>2, <1>6, <1>8 DEF Fine, HeldOK
<1>10. \A d \in Cpu : d \in Users(b) \/ Sees(g, h, d)
  BY <1>2, <1>5, BankFacts DEF Sees, Ready, Users
<1>11. Changed(g, h, Users(b)) \subseteq Cpu
  BY BankFacts DEF Changed, Users, Banks
<1> QED
  BY <1>1, <1>9, <1>10, <1>11, AccessGood

(* A bank's bits differ.  Whoever uses the bank looks again, unless it only has
   more that is active.                                                    *)
LEMMA BitsGood ==
  ASSUME NEW g, Fine(g), NEW who, NEW b \in Banks, NEW h \in Gic, NEW kick,
         /\ h.level = g.level /\ h.input = g.input /\ h.priority = g.priority
         /\ h.route = g.route /\ h.list = g.list /\ h.ctlr = g.ctlr
         /\ h.mask = g.mask /\ h.bpr1 = g.bpr1 /\ h.group1 = g.group1,
         \A x \in Banks : x # b => /\ h.enabled[x] = g.enabled[x]
                                   /\ h.pending[x] = g.pending[x]
                                   /\ h.active[x] = g.active[x],
         h.enabled[b] \cup h.pending[b] \subseteq Held(b),
         \/ kick = Users(b)
         \/ /\ kick = {} /\ h.enabled[b] = g.enabled[b] /\ h.pending[b] = g.pending[b]
            /\ g.active[b] \subseteq h.active[b]
  PROVE  Good(g, Result(h, kick), who)
<1>1. HeldOK(h)
  BY DEF HeldOK, Fine
<1>2. Fine(h)
  BY <1>1 DEF Fine
<1>3. \A x \in Banks : x # b => Ready(h, x) = Ready(g, x)
  BY DEF Ready
<1>4. \A d \in Cpu : d \in kick \/ Sees(g, h, d)
  <2>1. CASE kick = Users(b)
    BY <1>3, <2>1, BankFacts DEF Sees, Users
  <2>2. CASE /\ h.enabled[b] = g.enabled[b] /\ h.pending[b] = g.pending[b]
             /\ g.active[b] \subseteq h.active[b]
    <3>1. Ready(h, b) \subseteq Ready(g, b)
      BY <2>2 DEF Ready
    <3>2. \A x \in Banks : Ready(h, x) \subseteq Ready(g, x)
      BY <1>3, <3>1
    <3> QED
      BY <3>2, BankFacts DEF Sees
  <2> QED
    BY <2>1, <2>2
<1>5. kick \subseteq Cpu /\ Changed(g, h, {}) \subseteq kick
  BY BankFacts DEF Users, Banks, Changed
<1> QED
  BY <1>2, <1>4, <1>5, AccessGood

(* One bit is written: GICR_ISACTIVER0 alone kicks nobody. *)
LEMMA BankGood ==
  ASSUME NEW g, Fine(g), NEW who, NEW b \in Banks, NEW i \in Held(b), NEW r,
         \/ r = Enable(g, b, i) \/ r = Disable(g, b, i)
         \/ r = Pend(g, b, i) \/ r = Unpend(g, b, i)
         \/ r = Activated(g, b, i) \/ r = Deactivated(g, b, i)
  PROVE  Good(g, r, who)
<1>1. /\ g.enabled \in [Banks -> SUBSET Intid] /\ g.pending \in [Banks -> SUBSET Intid]
      /\ g.active \in [Banks -> SUBSET Intid] /\ {i} \subseteq Intid
      /\ g.enabled[b] \cup g.pending[b] \subseteq Held(b)
  <2>1. /\ g.enabled \in [Banks -> SUBSET Intid] /\ g.pending \in [Banks -> SUBSET Intid]
        /\ g.active \in [Banks -> SUBSET Intid]
    BY DEF Fine, Gic
  <2>2. {i} \subseteq Intid
    BY BankFacts
  <2> QED
    BY <2>1, <2>2 DEF Fine, HeldOK
<1> DEFINE Out(f) == [f EXCEPT ![b] = @ \ {i}]
           In(f) == [f EXCEPT ![b] = @ \cup {i}]
<1>2. \A f \in [Banks -> SUBSET Intid] : /\ Out(f) \in [Banks -> SUBSET Intid]
                                         /\ In(f) \in [Banks -> SUBSET Intid]
  BY <1>1, BankMarked
<1>3. ASSUME NEW f \in [Banks -> SUBSET Intid],
             r = Result([g EXCEPT !.enabled = f], Users(b)), f \in {In(g.enabled), Out(g.enabled)}
      PROVE  Good(g, r, who)
  <2> DEFINE h == [g EXCEPT !.enabled = f]
  <2>1. /\ h \in Gic /\ h.enabled = f /\ h.pending = g.pending /\ h.active = g.active
        /\ h.level = g.level /\ h.input = g.input /\ h.priority = g.priority
        /\ h.route = g.route /\ h.list = g.list /\ h.ctlr = g.ctlr
        /\ h.mask = g.mask /\ h.bpr1 = g.bpr1 /\ h.group1 = g.group1
    BY DEF Fine, Gic
  <2> HIDE DEF h
  <2>2. f[b] \subseteq g.enabled[b] \cup {i} /\ \A x \in Banks : x # b => f[x] = g.enabled[x]
    BY <1>1, <1>3
  <2>3. \A x \in Banks : x # b => /\ h.enabled[x] = g.enabled[x]
                                  /\ h.pending[x] = g.pending[x]
                                  /\ h.active[x] = g.active[x]
    BY <2>1, <2>2
  <2>4. h.enabled[b] \cup h.pending[b] \subseteq Held(b)
    BY <1>1, <2>1, <2>2
  <2>5. r = Result(h, Users(b))
    BY <1>3 DEF h
  <2> QED
    BY <2>1, <2>3, <2>4, <2>5, BitsGood
<1>4. ASSUME NEW f \in [Banks -> SUBSET Intid],
             r = Result([g EXCEPT !.pending = f], Users(b)), f \in {In(g.pending), Out(g.pending)}
      PROVE  Good(g, r, who)
  <2> DEFINE h == [g EXCEPT !.pending = f]
  <2>1. /\ h \in Gic /\ h.enabled = g.enabled /\ h.pending = f /\ h.active = g.active
        /\ h.level = g.level /\ h.input = g.input /\ h.priority = g.priority
        /\ h.route = g.route /\ h.list = g.list /\ h.ctlr = g.ctlr
        /\ h.mask = g.mask /\ h.bpr1 = g.bpr1 /\ h.group1 = g.group1
    BY DEF Fine, Gic
  <2> HIDE DEF h
  <2>2. f[b] \subseteq g.pending[b] \cup {i} /\ \A x \in Banks : x # b => f[x] = g.pending[x]
    BY <1>1, <1>4
  <2>3. \A x \in Banks : x # b => /\ h.enabled[x] = g.enabled[x]
                                  /\ h.pending[x] = g.pending[x]
                                  /\ h.active[x] = g.active[x]
    BY <2>1, <2>2
  <2>4. h.enabled[b] \cup h.pending[b] \subseteq Held(b)
    BY <1>1, <2>1, <2>2
  <2>5. r = Result(h, Users(b))
    BY <1>4 DEF h
  <2> QED
    BY <2>1, <2>3, <2>4, <2>5, BitsGood
<1>5. ASSUME NEW f \in [Banks -> SUBSET Intid], NEW kick,
             r = Result([g EXCEPT !.active = f], kick), f \in {In(g.active), Out(g.active)},
             kick = Users(b) \/ (kick = {} /\ f = In(g.active))
      PROVE  Good(g, r, who)
  <2> DEFINE h == [g EXCEPT !.active = f]
  <2>1. /\ h \in Gic /\ h.enabled = g.enabled /\ h.pending = g.pending /\ h.active = f
        /\ h.level = g.level /\ h.input = g.input /\ h.priority = g.priority
        /\ h.route = g.route /\ h.list = g.list /\ h.ctlr = g.ctlr
        /\ h.mask = g.mask /\ h.bpr1 = g.bpr1 /\ h.group1 = g.group1
    BY DEF Fine, Gic
  <2> HIDE DEF h
  <2>2. /\ f = In(g.active) => g.active[b] \subseteq f[b]
        /\ \A x \in Banks : x # b => f[x] = g.active[x]
    BY <1>1, <1>5
  <2>3. \A x \in Banks : x # b => /\ h.enabled[x] = g.enabled[x]
                                  /\ h.pending[x] = g.pending[x]
                                  /\ h.active[x] = g.active[x]
    BY <2>1, <2>2
  <2>4. h.enabled[b] \cup h.pending[b] \subseteq Held(b)
    BY <1>1, <2>1, <2>2
  <2>5. r = Result(h, kick)
    BY <1>5 DEF h
  <2> QED
    BY <1>5, <2>1, <2>2, <2>3, <2>4, <2>5, BitsGood
<1>6. CASE r = Enable(g, b, i) \/ r = Disable(g, b, i)
  BY <1>1, <1>2, <1>3, <1>6 DEF Enable, Disable
<1>7. CASE r = Pend(g, b, i) \/ r = Unpend(g, b, i)
  BY <1>1, <1>2, <1>4, <1>7 DEF Pend, Unpend
<1>8. CASE r = Activated(g, b, i)
  BY <1>1, <1>2, <1>5, <1>8 DEF Activated, Users
<1>9. CASE r = Deactivated(g, b, i)
  BY <1>1, <1>2, <1>5, <1>9 DEF Deactivated
<1> QED
  BY <1>6, <1>7, <1>8, <1>9

-----------------------------------------------------------------------------
(* The timer's interrupt *)

(* CPU d's timer interrupt is latched or in service. *)
TimerHeld(g, d) == Vtimer \in g.pending[d] \cup g.active[d]

(* Interrupts that come in take none away. *)
LEMMA TimerRaised ==
  ASSUME NEW g, Fine(g), NEW d \in Cpu, TimerHeld(g, d), NEW c \in Cpu, NEW i,
         NEW j, NEW high \in BOOLEAN, NEW targets, NEW r,
         \/ r = SendMsi(g, i) \/ r = SetSpi(g, i, high)
         \/ r = FireVtimer(g, c) \/ r = SendSgi(g, j, targets)
  PROVE  TimerHeld(r.gic, d)
<1>1. g.pending \in [Banks -> SUBSET Intid] /\ d \in Banks /\ Shared \in Banks /\ c \in Banks
  BY BankFacts DEF Fine, Gic
<1>2. CASE r = SendMsi(g, i)
  BY <1>1, <1>2 DEF TimerHeld, Fine, Gic, SendMsi, Result
<1>3. CASE r = SetSpi(g, i, high)
  BY <1>1, <1>3 DEF TimerHeld, Fine, Gic, SetSpi, Result
<1>4. CASE r = FireVtimer(g, c)
  BY <1>1, <1>4 DEF TimerHeld, Fine, Gic, FireVtimer, Result
<1>5. CASE r = SendSgi(g, j, targets)
  BY <1>1, <1>5 DEF TimerHeld, Fine, Gic, SendSgi, Result
<1> QED
  BY <1>2, <1>3, <1>4, <1>5

(* An acknowledged one is in service. *)
LEMMA TimerAcknowledged ==
  ASSUME NEW g, Fine(g), NEW d \in Cpu, TimerHeld(g, d), NEW c \in Cpu
  PROVE  TimerHeld(Acknowledge(g, c).gic, d)
<1>1. CASE ~Line(g, c)
  BY <1>1 DEF Acknowledge, Result
<1>2. CASE Line(g, c)
  <2> DEFINE h == Acknowledge(g, c).gic
             i == Best(g, c)
             b == Bank(c, i)
  <2>1. h.pending = [g.pending EXCEPT ![b] = @ \ {i}]
        /\ h.active = [g.active EXCEPT ![b] = @ \cup {i}]
    BY <1>2 DEF Acknowledge, Result, Fine, Gic
  <2>2. /\ g.pending \in [Banks -> SUBSET Intid] /\ g.active \in [Banks -> SUBSET Intid]
        /\ d \in Banks
    BY BankFacts DEF Fine, Gic
  <2> HIDE DEF h, i, b
  <2>3. TimerHeld(h, d)
    <3>1. CASE b = d
      BY <2>1, <2>2, <3>1 DEF TimerHeld
    <3>2. CASE b # d
      BY <2>1, <2>2, <3>2 DEF TimerHeld
    <3> QED
      BY <3>1, <3>2
  <2> QED
    BY <2>3 DEF h
<1> QED
  BY <1>1, <1>2

(* A CPU ends the interrupt of its own timer, and no other takes it away. *)
LEMMA TimerEnded ==
  ASSUME NEW g, Fine(g), NEW d \in Cpu, TimerHeld(g, d), NEW c \in Cpu,
         NEW i \in Spi \cup Private[c], ~(d = c /\ i = Vtimer), NEW r,
         r = Deactivate(g, c, i) \/ r = EndOfInterrupt(g, c, i)
  PROVE  TimerHeld(r.gic, d)
<1>1. ASSUME NEW h, h.active = g.active, h.pending = g.pending, Fine(h)
      PROVE  TimerHeld(Deactivate(h, c, i).gic, d)
  <2> DEFINE k == Deactivate(h, c, i).gic
             b == Bank(c, i)
  <2>1. k.pending = g.pending /\ k.active = [g.active EXCEPT ![b] = @ \ {i}]
    BY <1>1 DEF Deactivate, Inactive, Result, Fine, Gic
  <2>2. b \in {Shared, c} /\ (i = Vtimer => b = c)
    BY BankFacts DEF Bank
  <2> HIDE DEF b, k
  <2>3. TimerHeld(k, d)
    BY <2>1, <2>2, BankFacts DEF TimerHeld, Fine, Gic
  <2> QED
    BY <2>3 DEF k
<1>2. LET h == DropPriority(g, c, i) IN
      h.active = g.active /\ h.pending = g.pending /\ Fine(h)
  <2>1. Fine(DropPriority(g, c, i))
    BY DropPriorityGood DEF Good, Result
  <2> QED
    BY <2>1 DEF DropPriority, Fine, Gic
<1>3. CASE r = Deactivate(g, c, i)
  BY <1>1, <1>3
<1>4. CASE r = EndOfInterrupt(g, c, i)
  BY <1>1, <1>2, <1>4 DEF EndOfInterrupt, Result, TimerHeld
<1> QED
  BY <1>3, <1>4

(* Nor do the other registers, but those that clear this very bit. *)
LEMMA TimerConfigured ==
  ASSUME NEW g, Fine(g), NEW d \in Cpu, TimerHeld(g, d), NEW c, NEW i, NEW b \in Banks,
         NEW x, NEW r,
         \/ r = SetMask(g, c, x) \/ r = SetBpr(g, c, x) \/ r = SetGroup1(g, c, x)
         \/ r = SetSplit(g, c, x) \/ r = DropPriorities(g, c, x)
         \/ r = SetCtlr(g, x) \/ r = SetRoute(g, i, x) \/ r = SetEdge(g, i, x)
         \/ r = SetPriority(g, b, i, x) \/ r = Enable(g, b, i) \/ r = Disable(g, b, i)
         \/ r = Pend(g, b, i) \/ r = Activated(g, b, i)
         \/ /\ ~(b = d /\ i = Vtimer)
            /\ r = Unpend(g, b, i) \/ r = Deactivated(g, b, i)
  PROVE  TimerHeld(r.gic, d)
<1>1. /\ g.pending \in [Banks -> SUBSET Intid] /\ g.active \in [Banks -> SUBSET Intid]
      /\ d \in Banks
  BY BankFacts DEF Fine, Gic
<1>2. CASE \/ r = SetMask(g, c, x) \/ r = SetBpr(g, c, x) \/ r = SetGroup1(g, c, x)
           \/ r = SetSplit(g, c, x) \/ r = DropPriorities(g, c, x)
           \/ r = SetCtlr(g, x) \/ r = SetRoute(g, i, x) \/ r = SetEdge(g, i, x)
           \/ r = SetPriority(g, b, i, x) \/ r = Enable(g, b, i) \/ r = Disable(g, b, i)
  <2>1. r.gic.pending = g.pending /\ r.gic.active = g.active
    <3>1. CASE \/ r = SetMask(g, c, x) \/ r = SetBpr(g, c, x) \/ r = SetGroup1(g, c, x)
               \/ r = SetSplit(g, c, x) \/ r = DropPriorities(g, c, x)
      <4>1. CASE r = SetMask(g, c, x) \/ r = SetBpr(g, c, x)
        BY <4>1 DEF SetMask, SetBpr, Result, Fine, Gic
      <4>2. CASE r = SetGroup1(g, c, x) \/ r = SetSplit(g, c, x)
        BY <4>2 DEF SetGroup1, SetSplit, Result, Fine, Gic
      <4>3. CASE r = DropPriorities(g, c, x)
        BY <4>3 DEF DropPriorities, Result, Fine, Gic
      <4> QED
        BY <3>1, <4>1, <4>2, <4>3
    <3>2. CASE \/ r = SetCtlr(g, x) \/ r = SetRoute(g, i, x) \/ r = SetEdge(g, i, x)
               \/ r = SetPriority(g, b, i, x) \/ r = Enable(g, b, i) \/ r = Disable(g, b, i)
      BY <3>2 DEF SetCtlr, SetRoute, SetEdge, SetPriority, Enable, Disable, Result, Fine,
                  Gic
    <3> QED
      BY <1>2, <3>1, <3>2
  <2> QED
    BY <2>1 DEF TimerHeld
<1>3. CASE r = Pend(g, b, i)
  BY <1>1, <1>3 DEF Pend, Result, TimerHeld, Fine, Gic
<1>4. CASE r = Activated(g, b, i)
  BY <1>1, <1>4 DEF Activated, Result, TimerHeld, Fine, Gic
<1>5. CASE ~(b = d /\ i = Vtimer) /\ r = Unpend(g, b, i)
  BY <1>1, <1>5 DEF Unpend, Result, TimerHeld, Fine, Gic
<1>6. CASE ~(b = d /\ i = Vtimer) /\ r = Deactivated(g, b, i)
  BY <1>1, <1>6 DEF Deactivated, Result, TimerHeld, Fine, Gic
<1> QED
  BY <1>2, <1>3, <1>4, <1>5, <1>6

-----------------------------------------------------------------------------
(* The length of a list *)

(* No two entries have both the interrupt and the priority in common. *)
LEMMA ListBounded ==
  ASSUME NEW c \in Cpu, NEW s, ListOK(c, s)
  PROVE  Len(s) <= Cardinality(Spi \cup Private[c])
                     * Cardinality({Even(p) : p \in Prio \cup {0}})
<1> DEFINE I == Spi \cup Private[c]
           E == {Even(p) : p \in Prio \cup {0}}
           f == [k \in 1..Len(s) |-> <<s[k].intid, Even(s[k].priority)>>]
<1>1. IsFiniteSet(0..255)
  <2>1. 0 \in Int /\ 255 \in Int
    OBVIOUS
  <2> QED
    BY <2>1, FS_Interval, ZenonT(60)
<1>2. I \subseteq 0..255
  <2>1. Private[c] \subseteq 0..31 /\ Spi \subseteq 32..255
    BY Numbers
  <2>2. (\A x \in 0..31 : x \in 0..255) /\ (\A x \in 32..255 : x \in 0..255)
    OBVIOUS
  <2> QED
    BY <2>1, <2>2, ZenonT(60)
<1>3. E \subseteq 0..255 /\ Prio \cup {0} \subseteq Nat
  <2>1. \A p \in Prio \cup {0} : p \in 0..255
    <3>1. Prio \subseteq 0..255
      BY Numbers DEF Idle
    <3> QED
      BY <3>1
  <2>2. \A p \in 0..255 : p \in Nat /\ Even(p) \in 0..255
    <3> TAKE p \in 0..255
    <3>1. p \in Nat
      OBVIOUS
    <3>2. Even(p) \in Nat /\ Even(p) <= p
      BY <3>1, Evens
    <3> QED
      BY <3>2
  <2> QED
    BY <2>1, <2>2, ZenonT(60)
<1>4. IsFiniteSet(I) /\ IsFiniteSet(E)
  BY <1>1, <1>2, <1>3, FS_Subset
<1>5. s \in Seq(Entry) /\ Len(s) \in Nat /\ DOMAIN s = 1..Len(s)
      /\ \A k \in DOMAIN s : s[k].intid \in I /\ s[k].priority \in Prio \cup {0}
  <2>1. s \in Seq(Entry) /\ Own(c, s)
    BY DEF ListOK
  <2>2. \A k \in DOMAIN s : s[k] \in Entry
    BY <2>1
  <2> QED
    BY <2>1, <2>2 DEF Own, Entry
<1>6. f \in [1..Len(s) -> I \X E]
  BY <1>5
<1>7. \A j, k \in 1..Len(s) : f[j] = f[k] => j = k
  <2> SUFFICES ASSUME NEW j \in 1..Len(s), NEW k \in 1..Len(s), f[j] = f[k], j < k
               PROVE  FALSE
    BY <1>5
  <2>1. s[j].intid = s[k].intid /\ Even(s[j].priority) = Even(s[k].priority)
    OBVIOUS
  <2>2. Even(s[k].priority) < Even(s[j].priority)
    BY <1>5, <2>1 DEF ListOK, Distinct
  <2>3. Even(s[j].priority) \in Nat
    BY <1>3, <1>5, Evens
  <2> QED
    BY <2>1, <2>2, <2>3
<1>8. f \in Injection(1..Len(s), I \X E)
  BY <1>6, <1>7 DEF Injection, IsInjective
<1> HIDE DEF I, E, f
<1>9. IsFiniteSet(I \X E) /\ Cardinality(I \X E) = Cardinality(I) * Cardinality(E)
  BY <1>4, FS_Product
<1>10. Cardinality(1..Len(s)) <= Cardinality(I \X E)
  BY <1>8, <1>9, FS_Injection
<1>11. Cardinality(1..Len(s)) = Len(s)
  BY <1>5, FS_Interval
<1> QED
  BY <1>9, <1>10, <1>11 DEF I, E
=============================================================================
