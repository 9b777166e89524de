--------------------------- MODULE GicBridgeProofs ---------------------------
(***************************************************************************)
(* The bridge misses no rise of a line, and loses no timer but by the      *)
(* guest's own clearing of it, for any number of vCPUs, any interrupts and *)
(* any number of writes to configuration registers.                        *)
(***************************************************************************)
EXTENDS GicBridge, UserspaceGicProofs

ThreadsOK ==
  /\ kicks \in [Thread -> SUBSET Cpu]
  /\ pc \in [Cpu -> {"entry", "guest", "wfi", "parked"}]
  /\ irq \subseteq Cpu /\ exits \subseteq Cpu

(* A vCPU's thread carries out its kicks before anything else. *)
KicksFirst == \A c \in Cpu : kicks[c] # {} => pc[c] = "entry"

LinesOK == Fine(gic) /\ ThreadsOK /\ KicksFirst /\ NoMissedRise

BridgeInv == LinesOK /\ masked \subseteq Timed

(* A step loses no timer, unless it is the write that clears it. *)
NoneLost == \A d \in Cpu : Lost(d)' => Lost(d) \/ ClearsTimer(d)

-----------------------------------------------------------------------------
(* The device at first *)

(* Nothing has been acknowledged. *)
LEMMA NoneAcknowledged ==
  ASSUME NEW c
  PROVE  << >> \in Seq(Entry) /\ ListOK(c, << >>)
<1>1. << >> \in Seq(Entry) /\ DOMAIN << >> = {}
  OBVIOUS
<1> QED
  BY <1>1 DEF ListOK, Own, Nested, Distinct

(* The device as it is made. *)
LEMMA NewFine == Fine(New)
<1>1. New \in Gic
  <2>1. [b \in Banks |-> [i \in Held(b) |-> 0]]
          \in [Banks -> UNION {[Held(b) -> Prio \cup {0}] : b \in Banks}]
    OBVIOUS
  <2>2. [i \in Spi |-> 0] \in [Spi -> Cpu \cup {Nowhere}]
    BY BankFacts
  <2>3. [c \in Cpu |-> 0] \in [Cpu -> 0..Idle] /\ [c \in Cpu |-> 0] \in [Cpu -> 0..7]
    BY DEF Idle
  <2>4. [c \in Cpu |-> << >>] \in [Cpu -> Seq(Entry)]
    BY NoneAcknowledged
  <2> QED
    BY <2>1, <2>2, <2>3, <2>4 DEF New, Gic
<1>2. HeldOK(New)
  BY DEF HeldOK, New
<1> QED
  BY <1>1, <1>2, NoneAcknowledged DEF Fine, New

(* The device as the guest has it after its bring-up. *)
LEMMA ConfiguredFine == Fine(Configured)
<1> DEFINE Given == [b \in Banks |-> [i \in Held(b) |-> First[i]]]
<1>1. New \in Gic
  BY NewFine DEF Fine
<1>2. [b \in Banks |-> Held(b)] \in [Banks -> SUBSET Intid]
  BY BankFacts
<1>3. \A b \in Banks : Given[b] \in [Held(b) -> Prio \cup {0}]
  BY BankFacts, Others
<1>4. Given \in [Banks -> UNION {[Held(b) -> Prio \cup {0}] : b \in Banks}]
  BY <1>3
<1>5. [c \in Cpu |-> 1] \in [Cpu -> 0..7] /\ [c \in Cpu |-> Idle] \in [Cpu -> 0..Idle]
  BY DEF Idle
<1>6. Configured \in Gic
  BY <1>1, <1>2, <1>4, <1>5 DEF Configured, Gic
<1>7. /\ Configured.enabled = [b \in Banks |-> Held(b)] /\ Configured.priority = Given
      /\ Configured.pending = [b \in Banks |-> {}] /\ Configured.level = {}
      /\ Configured.list = [c \in Cpu |-> << >>]
  BY DEF Configured, New
<1>8. HeldOK(Configured)
  BY <1>3, <1>7 DEF HeldOK
<1> QED
  BY <1>6, <1>7, <1>8, NoneAcknowledged DEF Fine

-----------------------------------------------------------------------------
(* Accesses *)

(* An access by a vCPU's thread, which then is to enter the guest again: whoever's
   line rose is among the kicks it has yet to carry out.                   *)
LEMMA AccessKeeps ==
  ASSUME LinesOK, NEW c \in Cpu, NEW r, Good(gic, r, c), kicks[c] = {},
         gic' = r.gic, Kick(c, r.kick), pc' = [pc EXCEPT ![c] = "entry"],
         irq' = irq \/ irq' = irq \ {c}, exits' = exits
  PROVE  LinesOK'
<1>1. Fine(gic)' /\ r.kick \subseteq Cpu
  BY DEF Good
<1>2. c \in Thread /\ Cpu \subseteq Thread
  BY DEF Thread
<1>3. ThreadsOK'
  BY <1>1, <1>2 DEF LinesOK, ThreadsOK, Kick
<1>4. KicksFirst'
  BY <1>2 DEF LinesOK, ThreadsOK, KicksFirst, Kick
<1>5. NoMissedRise'
  <2> SUFFICES ASSUME NEW d \in Cpu, pc'[d] \in {"guest", "wfi", "parked"},
                      Line(gic', d), d \notin irq', d \notin exits'
               PROVE  \E t \in Thread \ {d} : d \in kicks'[t]
    BY DEF NoMissedRise
  <2>1. d # c /\ pc'[d] = pc[d] /\ d \notin irq
    BY DEF LinesOK, ThreadsOK
  <2>2. CASE Line(gic, d)
    <3>1. PICK t \in Thread \ {d} : d \in kicks[t]
      BY <2>1, <2>2 DEF LinesOK, NoMissedRise
    <3>2. kicks'[t] = kicks[t]
      BY <3>1 DEF Kick, LinesOK, ThreadsOK
    <3> QED
      BY <3>1, <3>2
  <2>3. CASE d \in r.kick
    BY <1>2, <2>1, <2>3 DEF Kick, LinesOK, ThreadsOK
  <2> QED
    BY <2>1, <2>2, <2>3 DEF Good
<1> QED
  BY <1>1, <1>3, <1>4, <1>5 DEF LinesOK

(* A trap is such an access, and so is a timer's exit. *)
LEMMA ReturnKeeps ==
  ASSUME LinesOK, NEW c \in Cpu, NEW r, Good(gic, r, c), Return(c, "entry"),
         gic' = r.gic, Kick(c, r.kick), exits' = exits
  PROVE  LinesOK'
<1>1. kicks[c] = {}
  BY DEF Return, LinesOK, KicksFirst
<1> QED
  BY <1>1, AccessKeeps DEF Return, To

(* An access by the devices' thread. *)
LEMMA DeliverKeeps ==
  ASSUME LinesOK, NEW r, Good(gic, r, Device), Deliver(r)
  PROVE  LinesOK'
<1>1. Fine(gic)' /\ r.kick \subseteq Cpu
  BY DEF Good, Deliver
<1>2. Device \in Thread /\ Device \notin Cpu /\ Cpu \subseteq Thread
  BY Others DEF Thread
<1>3. ThreadsOK'
  BY <1>1, <1>2 DEF LinesOK, ThreadsOK, Deliver, Kick, host
<1>4. KicksFirst'
  BY <1>2 DEF LinesOK, ThreadsOK, KicksFirst, Deliver, Kick
<1>5. NoMissedRise'
  <2> SUFFICES ASSUME NEW d \in Cpu, pc'[d] \in {"guest", "wfi", "parked"},
                      Line(gic', d), d \notin irq', d \notin exits'
               PROVE  \E t \in Thread \ {d} : d \in kicks'[t]
    BY DEF NoMissedRise
  <2>1. d # Device /\ pc'[d] = pc[d] /\ d \notin irq /\ d \notin exits
    BY <1>2 DEF Deliver, host
  <2>2. CASE Line(gic, d)
    <3>1. PICK t \in Thread \ {d} : d \in kicks[t]
      BY <2>1, <2>2 DEF LinesOK, NoMissedRise
    <3>2. kicks'[t] = kicks[t]
      BY <3>1 DEF Deliver, Kick, LinesOK, ThreadsOK
    <3> QED
      BY <3>1, <3>2
  <2>3. CASE d \in r.kick
    BY <1>2, <2>1, <2>3 DEF Deliver, Kick, LinesOK, ThreadsOK
  <2> QED
    BY <1>2, <2>1, <2>2, <2>3 DEF Good, Deliver
<1> QED
  BY <1>1, <1>3, <1>4, <1>5 DEF LinesOK

-----------------------------------------------------------------------------
(* The vCPUs' threads *)

(* A kick carried out: a sleeper goes to its run loop, and a guest will leave. *)
LEMMA CarryOutKeeps ==
  ASSUME LinesOK, NEW t \in Thread, CarryOut(t)
  PROVE  LinesOK'
<1> DEFINE c == Min(kicks[t])
<1>1. Cpu \subseteq Nat
  BY BankFacts
<1>2. c \in kicks[t] /\ c \in Cpu
  BY <1>1, Least DEF CarryOut, LinesOK, ThreadsOK
<1>3. /\ pc' = IF pc[c] = "parked" THEN [pc EXCEPT ![c] = "entry"] ELSE pc
      /\ exits' = exits \cup {c} /\ kicks' = [kicks EXCEPT ![t] = @ \ {c}]
      /\ gic' = gic /\ irq' = irq
  BY DEF CarryOut
<1> HIDE DEF c
<1>4. ThreadsOK'
  BY <1>2, <1>3 DEF LinesOK, ThreadsOK
<1>5. KicksFirst'
  BY <1>2, <1>3 DEF LinesOK, ThreadsOK, KicksFirst, Thread
<1>6. NoMissedRise'
  <2> SUFFICES ASSUME NEW d \in Cpu, pc'[d] \in {"guest", "wfi", "parked"},
                      Line(gic', d), d \notin irq', d \notin exits'
               PROVE  \E u \in Thread \ {d} : d \in kicks'[u]
    BY DEF NoMissedRise
  <2>1. d # c /\ pc'[d] = pc[d] /\ d \notin irq /\ d \notin exits /\ Line(gic, d)
    BY <1>3 DEF LinesOK, ThreadsOK
  <2>2. PICK u \in Thread \ {d} : d \in kicks[u]
    BY <2>1 DEF LinesOK, NoMissedRise
  <2> QED
    BY <1>3, <2>1, <2>2 DEF LinesOK, ThreadsOK
<1> QED
  BY <1>3, <1>4, <1>5, <1>6 DEF LinesOK

(* The line is read where it counts: before the guest is entered, and before a CPU
   sleeps.                                                                 *)
LEMMA SampleKeeps ==
  ASSUME LinesOK, NEW c \in Cpu, Sample(c)
  PROVE  LinesOK'
<1>1. ThreadsOK'
  BY DEF LinesOK, ThreadsOK, Sample, To
<1>2. KicksFirst'
  BY DEF LinesOK, ThreadsOK, KicksFirst, Sample, AtEntry, To
<1>3. NoMissedRise'
  <2> SUFFICES ASSUME NEW d \in Cpu, pc'[d] \in {"guest", "wfi", "parked"},
                      Line(gic', d), d \notin irq', d \notin exits'
               PROVE  \E t \in Thread \ {d} : d \in kicks'[t]
    BY DEF NoMissedRise
  <2>1. d # c /\ pc'[d] = pc[d] /\ d \notin irq /\ d \notin exits /\ Line(gic, d)
    <3>1. d # c
      BY DEF Sample
    <3> QED
      BY <3>1 DEF Sample, To, LinesOK, ThreadsOK
  <2> QED
    BY <2>1 DEF Sample, LinesOK, NoMissedRise
<1> QED
  BY <1>1, <1>2, <1>3 DEF LinesOK, Sample

(* The same for a CPU that sleeps, or would. *)
LEMMA WfiKeeps ==
  ASSUME LinesOK, NEW c \in Cpu, Wfi(c)
  PROVE  LinesOK'
<1>1. ThreadsOK'
  BY DEF LinesOK, ThreadsOK, Wfi, Return, To
<1>2. KicksFirst'
  BY DEF LinesOK, ThreadsOK, KicksFirst, Wfi, Return, To
<1>3. NoMissedRise'
  <2> SUFFICES ASSUME NEW d \in Cpu, pc'[d] \in {"guest", "wfi", "parked"},
                      Line(gic', d), d \notin irq', d \notin exits'
               PROVE  \E t \in Thread \ {d} : d \in kicks'[t]
    BY DEF NoMissedRise
  <2>1. d # c
    BY DEF Wfi, Return, To, LinesOK, ThreadsOK
  <2>2. pc'[d] = pc[d] /\ d \notin irq /\ d \notin exits /\ Line(gic, d)
    BY <2>1 DEF Wfi, Return, To, LinesOK, ThreadsOK
  <2> QED
    BY <2>2 DEF Wfi, LinesOK, NoMissedRise
<1> QED
  BY <1>1, <1>2, <1>3 DEF LinesOK, Wfi

(* A CPU that enters the lot was on its way there, and one that goes back to its run
   loop will read its line.                                                *)
LEMMA MoveKeeps ==
  ASSUME LinesOK, NEW c \in Cpu, Canceled(c) \/ Park(c) \/ TimedOut(c)
  PROVE  LinesOK'
<1>1. /\ gic' = gic /\ kicks' = kicks
      /\ exits' \subseteq exits /\ exits \ {c} \subseteq exits'
      /\ irq' \subseteq irq /\ irq \ {c} \subseteq irq'
      /\ \E place \in {"entry", "parked"} :
           /\ pc' = [pc EXCEPT ![c] = place] /\ pc[c] # "entry"
           /\ place = "parked" => pc[c] = "wfi" /\ irq' = irq /\ exits' = exits
  BY DEF Canceled, Park, TimedOut, Return, To, host
<1>2. ThreadsOK'
  BY <1>1 DEF LinesOK, ThreadsOK
<1>3. KicksFirst'
  BY <1>1 DEF LinesOK, ThreadsOK, KicksFirst
<1>4. NoMissedRise'
  BY <1>1 DEF LinesOK, ThreadsOK, NoMissedRise
<1> QED
  BY <1>1, <1>2, <1>3, <1>4 DEF LinesOK

(* Nobody is in the guest or asleep when the machine is reset. *)
LEMMA ResetKeeps ==
  ASSUME LinesOK, Reset
  PROVE  LinesOK'
<1>1. \A c \in Cpu : pc'[c] = "entry"
  BY DEF Reset, AtEntry
<1> QED
  BY <1>1, NewFine DEF LinesOK, ThreadsOK, KicksFirst, NoMissedRise, Reset
-----------------------------------------------------------------------------
(* Steps *)

(* A step that masks no timer: those still masked keep their interrupt. *)
LEMMA TimersKeep ==
  ASSUME BridgeInv, masked' \subseteq masked,
         \A d \in Cpu : d \in masked' /\ TimerHeld(gic, d)
                          => TimerHeld(gic', d) \/ ClearsTimer(d)
  PROVE  (masked \subseteq Timed)' /\ NoneLost
BY DEF BridgeInv, Timed, NoneLost, Lost, TimerHeld

(* An expired timer is latched before it is masked. *)
LEMMA LatchKeeps ==
  ASSUME BridgeInv, NEW c \in Cpu, Synthesize(c) \/ vtimer_exit(c)
  PROVE  BridgeInv' /\ NoneLost
<1>1. Latch(c) /\ Vtimer \in Private[c] /\ Fine(gic)
  BY DEF Synthesize, vtimer_exit, Latch, Timed, BridgeInv, LinesOK
<1>2. Good(gic, FireVtimer(gic, c), c)
  BY <1>1, FireVtimerGood
<1>3. LinesOK'
  <2>1. CASE Synthesize(c)
    <3>1. kicks[c] = {} /\ pc' = [pc EXCEPT ![c] = "entry"]
      BY <2>1 DEF Synthesize, AtEntry, BridgeInv, LinesOK, ThreadsOK
    <3> QED
      BY <1>2, <2>1, <3>1, AccessKeeps DEF Synthesize, Latch, BridgeInv, host
  <2>2. CASE vtimer_exit(c)
    BY <1>2, <2>2, ReturnKeeps DEF vtimer_exit, Latch, BridgeInv
  <2> QED
    BY <2>1, <2>2
<1>4. TimerHeld(gic', c)
  <2>1. gic.pending \in [Banks -> SUBSET Intid] /\ c \in Banks
    BY <1>1, BankFacts DEF Fine, Gic
  <2>2. gic'.pending = [gic.pending EXCEPT ![c] = @ \cup {Vtimer}]
    BY <1>1 DEF Latch, FireVtimer, Result, Fine, Gic
  <2> QED
    BY <2>1, <2>2 DEF TimerHeld
<1>5. \A d \in Cpu : TimerHeld(gic, d) => TimerHeld(gic', d)
  BY <1>1, TimerRaised DEF Latch
<1>6. masked' = masked \cup {c} /\ c \in Timed
  BY <1>1 DEF Latch
<1> QED
  BY <1>3, <1>4, <1>5, <1>6 DEF BridgeInv, NoneLost, Lost, TimerHeld

(* Interrupts from devices. *)
LEMMA DeviceStep ==
  ASSUME BridgeInv, deliver_spi \/ deliver_msi
  PROVE  BridgeInv' /\ NoneLost
<1>1. PICK i \in Spi, high \in BOOLEAN :
        Deliver(SendMsi(gic, i)) \/ Deliver(SetSpi(gic, i, high))
  BY DEF deliver_spi, deliver_msi
<1>2. PICK r : Deliver(r) /\ (r = SendMsi(gic, i) \/ r = SetSpi(gic, i, high))
  BY <1>1
<1>3. Fine(gic) /\ Good(gic, r, Device)
  BY <1>2, SendMsiGood, SetSpiGood DEF BridgeInv, LinesOK
<1>4. LinesOK'
  BY <1>2, <1>3, DeliverKeeps DEF BridgeInv
<1>5. \A d \in Cpu : TimerHeld(gic, d) => TimerHeld(r.gic, d)
  BY <1>2, <1>3, BankFacts, TimerRaised
<1>6. (masked \subseteq Timed)' /\ NoneLost
  BY <1>2, <1>5, TimersKeep DEF BridgeInv, Deliver
<1> QED
  BY <1>4, <1>6 DEF BridgeInv

(* Reads and writes of the registers that acknowledge, end and send interrupts: a
   guest that ends its timer's interrupt has the timer unmasked.           *)
LEMMA InterruptStep ==
  ASSUME BridgeInv, NEW c \in Cpu,
         ReadIar(c) \/ WriteEoir(c) \/ WriteDir(c) \/ WriteSgi1r(c)
  PROVE  BridgeInv' /\ NoneLost
<1>1. Fine(gic)
  BY DEF BridgeInv, LinesOK
<1>2. CASE ReadIar(c)
  <2>1. LinesOK'
    BY <1>1, <1>2, AcknowledgeGood, ReturnKeeps DEF ReadIar, Trap, BridgeInv
  <2>2. \A d \in Cpu : TimerHeld(gic, d) => TimerHeld(gic', d)
    BY <1>1, <1>2, TimerAcknowledged DEF ReadIar, Trap
  <2>3. (masked \subseteq Timed)' /\ NoneLost
    BY <1>2, <2>2, TimersKeep DEF ReadIar, BridgeInv
  <2> QED
    BY <2>1, <2>3 DEF BridgeInv
<1>3. CASE WriteEoir(c) \/ WriteDir(c)
  <2>1. PICK i \in Spi \cup Private[c] :
          /\ Trap(c, Deactivate(gic, c, i)) \/ Trap(c, EndOfInterrupt(gic, c, i))
          /\ Served(c, i)
    BY <1>3 DEF WriteEoir, WriteDir
  <2>2. PICK r : /\ Trap(c, r) /\ Served(c, i)
                 /\ r = Deactivate(gic, c, i) \/ r = EndOfInterrupt(gic, c, i)
    BY <2>1
  <2>3. Good(gic, r, c)
    BY <1>1, <2>2, DeactivateGood, EndOfInterruptGood
  <2>4. LinesOK'
    BY <2>2, <2>3, ReturnKeeps DEF Trap, BridgeInv
  <2>5. ASSUME NEW d \in Cpu, d \in masked', TimerHeld(gic, d)
        PROVE  TimerHeld(gic', d)
    <3>1. ~(d = c /\ i = Vtimer)
      BY <2>2, <2>5 DEF Served
    <3> QED
      BY <1>1, <2>2, <2>5, <3>1, TimerEnded DEF Trap
  <2>6. (masked \subseteq Timed)' /\ NoneLost
    BY <2>2, <2>5, TimersKeep DEF Served, BridgeInv
  <2> QED
    BY <2>4, <2>6 DEF BridgeInv
<1>4. CASE WriteSgi1r(c)
  <2>1. PICK i : \E targets \in SUBSET {d \in Cpu : i \in Private[d]} :
                   Trap(c, SendSgi(gic, i, targets)) /\ masked' = masked
    BY <1>4 DEF WriteSgi1r
  <2>2. PICK targets \in SUBSET {d \in Cpu : i \in Private[d]} :
          Trap(c, SendSgi(gic, i, targets)) /\ masked' = masked
    BY <2>1
  <2>3. Good(gic, SendSgi(gic, i, targets), c)
    BY <1>1, SendSgiGood
  <2>4. LinesOK'
    BY <2>2, <2>3, ReturnKeeps DEF Trap, BridgeInv
  <2>5. \A d \in Cpu : TimerHeld(gic, d) => TimerHeld(gic', d)
    BY <1>1, <2>2, TimerRaised DEF Trap
  <2>6. (masked \subseteq Timed)' /\ NoneLost
    BY <2>2, <2>5, TimersKeep DEF BridgeInv
  <2> QED
    BY <2>4, <2>6 DEF BridgeInv
<1> QED
  BY <1>2, <1>3, <1>4

(* Writes of configuration registers. *)
LEMMA ConfigureStep ==
  ASSUME BridgeInv, NEW c \in Cpu, WriteInterface(c) \/ WriteMemory(c)
  PROVE  BridgeInv' /\ NoneLost
<1>1. Fine(gic)
  BY DEF BridgeInv, LinesOK
<1>2. Shared \in Banks
  BY BankFacts
<1>3. ASSUME NEW r, Configure(c, r), Good(gic, r, c),
             \A d \in Cpu : TimerHeld(gic, d) => TimerHeld(r.gic, d) \/ ClearsTimer(d)
      PROVE  BridgeInv' /\ NoneLost
  <2>1. LinesOK'
    BY <1>3, ReturnKeeps DEF Configure, Trap, BridgeInv
  <2>2. (masked \subseteq Timed)' /\ NoneLost
    BY <1>3, TimersKeep DEF Configure, Trap, BridgeInv
  <2> QED
    BY <2>1, <2>2 DEF BridgeInv
<1>4. CASE WriteInterface(c)
  <2> DEFINE Drops == \E gone \in SUBSET {Even(p) : p \in Prio} :
                        Configure(c, DropPriorities(gic, c, gone))
  <2>1. CASE Drops
    <3>1. PICK gone : Configure(c, DropPriorities(gic, c, gone))
      BY <2>1
    <3>2. Good(gic, DropPriorities(gic, c, gone), c)
      BY <1>1, DropPrioritiesGood
    <3>3. \A d \in Cpu :
            TimerHeld(gic, d) => TimerHeld(DropPriorities(gic, c, gone).gic, d)
      BY <1>1, <1>2, TimerConfigured
    <3> QED
      BY <1>3, <3>1, <3>2, <3>3
  <2>2. CASE ~Drops
    <3>1. PICK p \in 0..Idle, n \in 0..7, on \in BOOLEAN :
            \E r : /\ Configure(c, r)
                   /\ \/ r = SetMask(gic, c, p) \/ r = SetBpr(gic, c, n)
                      \/ r = SetGroup1(gic, c, on) \/ r = SetSplit(gic, c, on)
      <4>1. 0 \in 0..Idle /\ 0 \in 0..7 /\ 1..2 \subseteq 0..7 /\ Masks \subseteq 0..Idle
        BY Others DEF Idle
      <4> QED
        BY <1>4, <2>2, <4>1 DEF WriteInterface
    <3>2. PICK r : /\ Configure(c, r)
                   /\ \/ r = SetMask(gic, c, p) \/ r = SetBpr(gic, c, n)
                      \/ r = SetGroup1(gic, c, on) \/ r = SetSplit(gic, c, on)
      BY <3>1
    <3>3. Good(gic, r, c)
      BY <1>1, <3>2, OwnGood
    <3>4. \A d \in Cpu : TimerHeld(gic, d) => TimerHeld(r.gic, d)
      BY <1>1, <1>2, <3>2, TimerConfigured
    <3> QED
      BY <1>3, <3>2, <3>3, <3>4
  <2> QED
    BY <2>1, <2>2
<1>5. CASE WriteMemory(c)
  <2>1. CASE \E b \in Banks : \E i \in Held(b) :
          \/ \E p \in Prio : Configure(c, SetPriority(gic, b, i, p))
          \/ Configure(c, Enable(gic, b, i))
          \/ Configure(c, Disable(gic, b, i))
          \/ Configure(c, Pend(gic, b, i))
          \/ Configure(c, Activated(gic, b, i))
          \/ Configure(c, Unpend(gic, b, i))
          \/ Configure(c, Deactivated(gic, b, i))
    <3>1. PICK b \in Banks : \E i \in Held(b) : \E r :
            /\ Configure(c, r)
            /\ \/ \E p \in Prio : r = SetPriority(gic, b, i, p)
               \/ r = Enable(gic, b, i) \/ r = Disable(gic, b, i)
               \/ r = Pend(gic, b, i) \/ r = Activated(gic, b, i)
               \/ r = Unpend(gic, b, i) \/ r = Deactivated(gic, b, i)
      BY <2>1
    <3>2. PICK i \in Held(b) : \E r :
            /\ Configure(c, r)
            /\ \/ \E p \in Prio : r = SetPriority(gic, b, i, p)
               \/ r = Enable(gic, b, i) \/ r = Disable(gic, b, i)
               \/ r = Pend(gic, b, i) \/ r = Activated(gic, b, i)
               \/ r = Unpend(gic, b, i) \/ r = Deactivated(gic, b, i)
      BY <3>1
    <3>3. PICK r :
            /\ Configure(c, r)
            /\ \/ \E p \in Prio : r = SetPriority(gic, b, i, p)
               \/ r = Enable(gic, b, i) \/ r = Disable(gic, b, i)
               \/ r = Pend(gic, b, i) \/ r = Activated(gic, b, i)
               \/ r = Unpend(gic, b, i) \/ r = Deactivated(gic, b, i)
      BY <3>2
    <3>4. Good(gic, r, c)
      BY <1>1, <3>3, SetPriorityGood, BankGood
    <3>5. ASSUME NEW d \in Cpu, TimerHeld(gic, d)
          PROVE  TimerHeld(r.gic, d) \/ ClearsTimer(d)
      <4> DEFINE Clears == r = Unpend(gic, b, i) \/ r = Deactivated(gic, b, i)
      <4>1. CASE b = d /\ i = Vtimer /\ Clears
        BY <3>3, <4>1 DEF ClearsTimer
      <4>2. CASE ~(b = d /\ i = Vtimer /\ Clears)
        BY <1>1, <3>3, <3>5, <4>2, TimerConfigured
      <4> QED
        BY <4>1, <4>2
    <3> QED
      BY <1>3, <3>3, <3>4, <3>5
  <2>2. CASE \E on \in BOOLEAN : Configure(c, SetCtlr(gic, on))
    <3>1. PICK on \in BOOLEAN : Configure(c, SetCtlr(gic, on))
      BY <2>2
    <3>2. Good(gic, SetCtlr(gic, on), c)
      BY <1>1, SharedGood
    <3>3. \A e \in Cpu : TimerHeld(gic, e) => TimerHeld(SetCtlr(gic, on).gic, e)
      BY <1>1, <1>2, TimerConfigured
    <3> QED
      BY <1>3, <3>1, <3>2, <3>3
  <2>3. CASE \E i \in Spi, d \in Cpu \cup {Nowhere} : Configure(c, SetRoute(gic, i, d))
    <3>1. PICK i \in Spi, d \in Cpu \cup {Nowhere} : Configure(c, SetRoute(gic, i, d))
      BY <2>3
    <3>2. Good(gic, SetRoute(gic, i, d), c)
      BY <1>1, SharedGood
    <3>3. \A e \in Cpu : TimerHeld(gic, e) => TimerHeld(SetRoute(gic, i, d).gic, e)
      BY <1>1, <1>2, TimerConfigured
    <3> QED
      BY <1>3, <3>1, <3>2, <3>3
  <2>4. CASE \E i \in Spi, on \in BOOLEAN : Configure(c, SetEdge(gic, i, on))
    <3>1. PICK i \in Spi, on \in BOOLEAN : Configure(c, SetEdge(gic, i, on))
      BY <2>4
    <3>2. Good(gic, SetEdge(gic, i, on), c)
      BY <1>1, SetEdgeGood
    <3>3. \A e \in Cpu : TimerHeld(gic, e) => TimerHeld(SetEdge(gic, i, on).gic, e)
      BY <1>1, <1>2, TimerConfigured
    <3> QED
      BY <1>3, <3>1, <3>2, <3>3
  <2> QED
    BY <1>5, <2>1, <2>2, <2>3, <2>4 DEF WriteMemory
<1> QED
  BY <1>4, <1>5
(* The bring-up. *)
LEMMA BridgeBegins == Init => BridgeInv
<1> SUFFICES ASSUME Init
             PROVE  BridgeInv
  OBVIOUS
<1>1. Fine(gic)
  BY ConfiguredFine DEF Init
<1>2. ThreadsOK /\ KicksFirst /\ NoMissedRise
  BY DEF Init, ThreadsOK, KicksFirst, NoMissedRise, Thread
<1>3. masked \subseteq Timed
  BY DEF Init
<1> QED
  BY <1>1, <1>2, <1>3 DEF BridgeInv, LinesOK

(* Every step keeps the invariant, and loses no timer unless it clears it. *)
LEMMA BridgeGoesOn == BridgeInv /\ [Next]_vars => BridgeInv' /\ NoneLost
<1> SUFFICES ASSUME BridgeInv, [Next]_vars
             PROVE  BridgeInv' /\ NoneLost
  OBVIOUS
<1>1. ASSUME LinesOK', gic' = gic, masked' = masked
      PROVE  BridgeInv' /\ NoneLost
  BY <1>1 DEF BridgeInv, NoneLost, Lost
<1>2. CASE \E t \in Thread : CarryOut(t)
  BY <1>1, <1>2, CarryOutKeeps DEF BridgeInv, CarryOut
<1>3. CASE deliver_spi \/ deliver_msi
  BY <1>3, DeviceStep
<1>4. ASSUME NEW c \in Cpu, Host(c) \/ TimedOut(c) \/ vtimer_exit(c) \/ Guest(c)
      PROVE  BridgeInv' /\ NoneLost
  <2>1. CASE Synthesize(c) \/ vtimer_exit(c)
    BY <2>1, LatchKeeps
  <2>2. CASE Sample(c)
    BY <1>1, <2>2, SampleKeeps DEF BridgeInv, Sample
  <2>3. CASE Canceled(c)
    BY <1>1, <2>3, MoveKeeps DEF BridgeInv, Canceled
  <2>4. CASE Park(c)
    BY <1>1, <2>4, MoveKeeps DEF BridgeInv, Park
  <2>5. CASE TimedOut(c)
    BY <1>1, <2>5, MoveKeeps DEF BridgeInv, TimedOut
  <2>6. CASE ReadIar(c) \/ WriteEoir(c) \/ WriteDir(c) \/ WriteSgi1r(c)
    BY <2>6, InterruptStep
  <2>7. CASE WriteInterface(c) \/ WriteMemory(c)
    BY <2>7, ConfigureStep
  <2>8. CASE Wfi(c)
    BY <1>1, <2>8, WfiKeeps DEF BridgeInv, Wfi
  <2> QED
    BY <1>4, <2>1, <2>2, <2>3, <2>4, <2>5, <2>6, <2>7, <2>8 DEF Host, Guest
<1>5. CASE Reset
  BY <1>5, ResetKeeps DEF BridgeInv, NoneLost, Lost, Reset
<1>6. CASE UNCHANGED vars
  BY <1>6 DEF vars, host, BridgeInv, LinesOK, NoneLost, Lost, ThreadsOK, KicksFirst, NoMissedRise
<1> QED
  BY <1>2, <1>3, <1>4, <1>5, <1>6 DEF Next

-----------------------------------------------------------------------------

(* What the bridge maintains: a step of any thread keeps the device in order, and
   every line that rose is owed to its CPU.                                *)
THEOREM BridgeInvariant == Spec => []BridgeInv
<1>1. BridgeInv /\ [Next]_vars => BridgeInv'
  BY BridgeGoesOn
<1> QED
  BY <1>1, BridgeBegins, PTL DEF Spec

(* The types, and the bound of the list of acknowledged interrupts, which no code
   checks: it holds because acknowledge.rs:27-30 lets no two entries have both the
   interrupt and the priority in common.                                   *)
THEOREM BridgeTypes == Spec => []TypeOK
<1>1. BridgeInv => TypeOK
  <2> SUFFICES ASSUME BridgeInv
               PROVE  TypeOK
    OBVIOUS
  <2>1. gic \in Gic /\ gic.level \subseteq gic.input /\ \A c \in Cpu : ListOK(c, gic.list[c])
    BY DEF BridgeInv, LinesOK, Fine
  <2>2. /\ DOMAIN gic = DOMAIN New
        /\ gic.enabled \in [Banks -> SUBSET Intid] /\ gic.pending \in [Banks -> SUBSET Intid]
        /\ gic.active \in [Banks -> SUBSET Intid] /\ gic.input \subseteq Spi
    BY <2>1 DEF Gic, New
  <2>3. ASSUME NEW c \in Cpu
        PROVE  /\ Len(gic.list[c]) <= Cardinality(Spi \cup Private[c])
                                         * Cardinality({Even(p) : p \in Prio \cup {0}})
               /\ \A k \in DOMAIN gic.list[c] : gic.list[c][k] \in Entry
    <3>1. ListOK(c, gic.list[c]) /\ gic.list[c] \in Seq(Entry)
      BY <2>1 DEF ListOK
    <3>2. \A k \in DOMAIN gic.list[c] : gic.list[c][k] \in Entry
      BY <3>1
    <3>3. Len(gic.list[c]) <= Cardinality(Spi \cup Private[c])
                                * Cardinality({Even(p) : p \in Prio \cup {0}})
      BY <3>1, ListBounded, Zenon
    <3> QED
      BY <3>2, <3>3
  <2> QED
    BY <2>1, <2>2, <2>3 DEF TypeOK, BridgeInv, LinesOK, ThreadsOK
<1> QED
  BY <1>1, BridgeInvariant, PTL

(* A line that rose after its CPU's thread read it is not missed: the kicks of an
   access are computed under the mutex, carried out without it, and any access
   of another thread may come between.                                     *)
THEOREM RisesAreTold == Spec => []NoMissedRise
<1>1. BridgeInv => NoMissedRise
  BY DEF BridgeInv, LinesOK
<1> QED
  BY <1>1, BridgeInvariant, PTL

(* Interrupts in progress nest: acknowledge takes what is above the running group
   only, and no other access adds to the list or reorders it.              *)
THEOREM InterruptsNest == Spec => []NestingOrdered
<1>1. BridgeInv => NestingOrdered
  BY DEF BridgeInv, LinesOK, Fine, ListOK, Nested, NestingOrdered
<1> QED
  BY <1>1, BridgeInvariant, PTL

(* A timer is masked with its interrupt latched, the guest's end of that interrupt
   is what unmasks it, and so does a reset: it is lost only when a guest clears its
   bit through ICPENDR0 or ICACTIVER0 before, after which the bridge has no reason to
   unmask it.  For a guest that does not, a masked timer's interrupt is there.  *)
THEOREM TimersLostByClearingOnly == Spec => LostByClearingOnly
<1>1. BridgeInv /\ [Next]_vars => NoneLost
  BY BridgeGoesOn
<1>2. BridgeInv /\ [Next]_vars => [\A c \in Cpu : Lost(c)' => Lost(c) \/ ClearsTimer(c)]_vars
  BY <1>1 DEF NoneLost
<1> QED
  BY <1>2, BridgeInvariant, PTL DEF Spec, LostByClearingOnly
=============================================================================
