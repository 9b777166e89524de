------------------------------ MODULE GicBridge ------------------------------
(***************************************************************************)
(* The userspace GIC at work (usgic_bridge.rs): vCPU threads that trap on  *)
(* its registers, sample their interrupt line before every hv_vcpu_run and *)
(* sleep in the parking lot on WFI, and a device thread that raises        *)
(* interrupts.  Every access changes the device under its mutex; the kicks *)
(* it returns are carried out afterwards, first to the parking lot, then   *)
(* CPU by CPU with hv_vcpus_exit.                                          *)
(*                                                                         *)
(* External: hv_vcpus_exit makes a vCPU leave hv_vcpu_run, or its next one *)
(* at once; a guest whose virtual timer is due and not masked at the host  *)
(* may leave hv_vcpu_run for that, or HVF may lose the exit.               *)
(***************************************************************************)
EXTENDS UserspaceGic

CONSTANTS
  Device,    \* the thread of the devices
  First,     \* the priorities the guest starts with: [Intid -> Prio]
  Masks,     \* the priority masks it writes
  MaxWrites  \* bound: further writes to configuration registers

Thread == Cpu \cup {Device}

Timed  == {c \in Cpu : Vtimer \in Private[c]}

ASSUME Others == Device \notin Cpu /\ First \in [Intid -> Prio]
                 /\ Masks \subseteq 0..Idle /\ MaxWrites \in Nat

VARIABLES
  gic,     \* the device, behind its mutex
  kicks,   \* kicks each thread has yet to carry out
  masked,  \* vtimer_masked, and the timer's mask in HVF
  pc,      \* where each vCPU's thread is
  irq,     \* vCPUs entered with their IRQ pending
  exits,   \* vCPUs with an exit requested of HVF
  writes   \* configuration writes so far

host == <<irq, exits>>
vars == <<gic, kicks, masked, pc, host, writes>>

(* kick: the caller itself looks at its line before it runs again. *)
Kick(t, cpus) == kicks' = [kicks EXCEPT ![t] = cpus \ {t}]

To(c, place) == pc' = [pc EXCEPT ![c] = place]

(* hv_vcpu_run returns: the pending interrupt it was given is used up. *)
Return(c, place) ==
  /\ pc[c] = "guest"
  /\ To(c, place)
  /\ irq' = irq \ {c}

-----------------------------------------------------------------------------
(* Carrying out a kick *)

(* A CPU asleep in WFI is not in hv_vcpu_run, and one that is in it does not
   sleep: the halves of a kick reach different CPUs and are one step here.  A
   sleeper's bit leaves the lot, and it goes back to its run loop.            *)
CarryOut(t) ==
  /\ kicks[t] # {}
  /\ LET c == Min(kicks[t]) IN
     /\ pc' = IF pc[c] = "parked" THEN [pc EXCEPT ![c] = "entry"] ELSE pc
     /\ exits' = exits \cup {c}
     /\ kicks' = [kicks EXCEPT ![t] = @ \ {c}]
  /\ UNCHANGED <<gic, masked, irq, writes>>

-----------------------------------------------------------------------------
(* Devices *)

Deliver(r) ==
  /\ kicks[Device] = {}
  /\ gic' = r.gic
  /\ Kick(Device, r.kick)
  /\ UNCHANGED <<masked, pc, host, writes>>

deliver_spi == \E i \in Spi, high \in BOOLEAN : Deliver(SetSpi(gic, i, high))
deliver_msi == \E i \in Spi : Deliver(SendMsi(gic, i))

-----------------------------------------------------------------------------
(* Entering the guest *)

AtEntry(c) == pc[c] = "entry" /\ kicks[c] = {}

(* An expired timer is latched, and masked until the guest has served it: an
   interrupt that only the caller's own line can follow.                    *)
Latch(c) ==
  /\ c \in Timed \ masked
  /\ masked' = masked \cup {c}
  /\ gic' = FireVtimer(gic, c).gic
  /\ Kick(c, FireVtimer(gic, c).kick)

(* pre_run finds the guest's timer expired, whatever HVF told. *)
Synthesize(c) ==
  /\ AtEntry(c)
  /\ Latch(c)
  /\ UNCHANGED <<pc, host, writes>>

(* The rest of pre_run: the line is read under the mutex and given to HVF.
   What follows, until hv_vcpu_run is in the guest, changes nothing.         *)
Sample(c) ==
  /\ AtEntry(c)
  /\ irq' = IF Line(gic, c) THEN irq \cup {c} ELSE irq \ {c}
  /\ To(c, "guest")
  /\ UNCHANGED <<gic, kicks, masked, exits, writes>>

(* hv_vcpu_run returns because an exit was requested. *)
Canceled(c) ==
  /\ c \in exits
  /\ exits' = exits \ {c}
  /\ Return(c, "entry")
  /\ UNCHANGED <<gic, kicks, masked, writes>>

vtimer_exit(c) ==
  /\ Latch(c)
  /\ Return(c, "entry")
  /\ UNCHANGED <<exits, writes>>

-----------------------------------------------------------------------------
(* Traps *)

Trap(c, r) ==
  /\ Return(c, "entry")
  /\ gic' = r.gic
  /\ Kick(c, r.kick)
  /\ UNCHANGED exits

ReadIar(c) ==
  /\ Trap(c, Acknowledge(gic, c))
  /\ UNCHANGED <<masked, writes>>

(* The guest has served its timer: the host's is unmasked. *)
Served(c, i) == masked' = IF i = Vtimer THEN masked \ {c} ELSE masked

WriteEoir(c) ==
  \E i \in Spi \cup Private[c] :
    /\ Trap(c, EndOfInterrupt(gic, c, i))
    /\ Served(c, i)
    /\ UNCHANGED writes

WriteDir(c) ==
  \E i \in Spi \cup Private[c] :
    /\ Trap(c, Deactivate(gic, c, i))
    /\ Served(c, i)
    /\ UNCHANGED writes

WriteSgi1r(c) ==
  \E i \in Intid \cap (0..15) : \E targets \in SUBSET {d \in Cpu : i \in Private[d]} :
    /\ Trap(c, SendSgi(gic, i, targets))
    /\ UNCHANGED <<masked, writes>>

Configure(c, r) ==
  /\ Trap(c, r)
  /\ writes' = writes + 1
  /\ UNCHANGED masked

(* The CPU's own interface. *)
WriteInterface(c) ==
  /\ pc[c] = "guest" /\ writes < MaxWrites
  /\ \/ \E p \in Masks : Configure(c, SetMask(gic, c, p))
     \/ \E n \in 1..2 : Configure(c, SetBpr(gic, c, n))
     \/ \E on \in BOOLEAN : Configure(c, SetGroup1(gic, c, on))
     \/ \E on \in BOOLEAN : Configure(c, SetSplit(gic, c, on))
     \/ \E gone \in SUBSET {Even(p) : p \in Prio} :
          Configure(c, DropPriorities(gic, c, gone))

(* Registers in memory, those of other CPUs' banks included.  None of these
   writes unmasks a timer at the host.                                       *)
WriteMemory(c) ==
  /\ pc[c] = "guest" /\ writes < MaxWrites
  /\ \/ \E on \in BOOLEAN : Configure(c, SetCtlr(gic, on))
     \/ \E i \in Spi, d \in Cpu \cup {Nowhere} : Configure(c, SetRoute(gic, i, d))
     \/ \E i \in Spi, on \in BOOLEAN : Configure(c, SetEdge(gic, i, on))
     \/ \E b \in Banks : \E i \in Held(b) :
          \/ \E p \in Prio : Configure(c, SetPriority(gic, b, i, p))
          \/ Configure(c, Enable(gic, b, i))
          \/ Configure(c, Disable(gic, b, i))
          \/ Configure(c, Pend(gic, b, i))
          \/ Configure(c, Activated(gic, b, i))
          \/ Configure(c, Unpend(gic, b, i))
          \/ Configure(c, Deactivated(gic, b, i))

-----------------------------------------------------------------------------
(* WFI *)

(* The line is read under the GIC's mutex ... *)
Wfi(c) ==
  /\ Return(c, IF Line(gic, c) THEN "entry" ELSE "wfi")
  /\ UNCHANGED <<gic, kicks, masked, exits, writes>>

(* ... and the CPU enters the lot under another: a kick may come between. *)
Park(c) ==
  /\ pc[c] = "wfi"
  /\ To(c, "parked")
  /\ UNCHANGED <<gic, kicks, masked, host, writes>>

(* One millisecond has passed. *)
TimedOut(c) ==
  /\ pc[c] = "parked"
  /\ To(c, "entry")
  /\ UNCHANGED <<gic, kicks, masked, host, writes>>

-----------------------------------------------------------------------------
(* Reset *)

(* Mutant: the host's timer masks survive the guest. *)
ResetKeepsMasks ==
  /\ \A c \in Cpu : AtEntry(c)
  /\ gic' = New
  /\ irq' = {} /\ exits' = exits \cap {0}
  /\ UNCHANGED <<kicks, masked, pc, writes>>

(* SYSTEM_RESET, when every run loop has ended: the other vCPUs are new. *)
Reset ==
  /\ \A c \in Cpu : AtEntry(c)
  /\ gic' = New
  /\ masked' = {}
  /\ irq' = {} /\ exits' = exits \cap {0}
  /\ UNCHANGED <<kicks, pc, writes>>

-----------------------------------------------------------------------------

(* After the guest's bring-up: everything enabled, SPIs at CPU 0. *)
Configured ==
  [New EXCEPT
     !.ctlr = TRUE,
     !.enabled  = [b \in Banks |-> Held(b)],
     !.priority = [b \in Banks |-> [i \in Held(b) |-> First[i]]],
     !.bpr1     = [c \in Cpu |-> 1],
     !.group1   = Cpu,
     !.mask     = [c \in Cpu |-> Idle]]

Init ==
  /\ gic = Configured
  /\ kicks = [t \in Thread |-> {}]
  /\ masked = {}
  /\ pc = [c \in Cpu |-> "entry"]
  /\ irq = {} /\ exits = {}
  /\ writes = 0

Host(c) ==
  Synthesize(c) \/ Sample(c) \/ Canceled(c) \/ Park(c)

Guest(c) ==
  \/ ReadIar(c) \/ WriteEoir(c) \/ WriteDir(c) \/ WriteSgi1r(c)
  \/ WriteInterface(c) \/ WriteMemory(c)
  \/ Wfi(c)

Next ==
  \/ \E t \in Thread : CarryOut(t)
  \/ deliver_spi \/ deliver_msi
  \/ \E c \in Cpu : Host(c) \/ TimedOut(c) \/ vtimer_exit(c) \/ Guest(c)
  \/ Reset

Spec == Init /\ [][Next]_vars

-----------------------------------------------------------------------------
(* Properties *)

(* Types; with them, that the list of acknowledged interrupts stays bounded
   whatever order drops and deactivations come in (acknowledge.rs:27-30): no
   two entries have both the interrupt and the priority in common.            *)
TypeOK ==
  /\ DOMAIN gic = DOMAIN New
  /\ gic.enabled \in [Banks -> SUBSET Intid]
  /\ gic.pending \in [Banks -> SUBSET Intid]
  /\ gic.active \in [Banks -> SUBSET Intid]
  /\ gic.level \subseteq gic.input /\ gic.input \subseteq Spi
  /\ \A c \in Cpu :
       /\ Len(gic.list[c]) <= Cardinality(Spi \cup Private[c])
                                * Cardinality({Even(p) : p \in Prio \cup {0}})
       /\ \A k \in DOMAIN gic.list[c] : gic.list[c][k] \in Entry
  /\ kicks \in [Thread -> SUBSET Cpu]
  /\ pc \in [Cpu -> {"entry", "guest", "wfi", "parked"}]
  /\ irq \subseteq Cpu /\ exits \subseteq Cpu /\ masked \subseteq Timed

(* A line that rose after the vCPU's thread read it is not missed: HVF has been
   told to have the vCPU leave the guest, or a thread is about to tell it, also
   when the thread read the line for WFI and is not in the lot yet.  Kicks are
   sent only when a line changes (mod.rs:330-345), with the mutex released.    *)
NoMissedRise ==
  \A c \in Cpu :
    pc[c] \in {"guest", "wfi", "parked"} /\ Line(gic, c) /\ c \notin irq =>
      c \in exits \/ \E t \in Thread \ {c} : c \in kicks[t]

(* Interrupts in progress on a CPU nest: each was acknowledged in a higher
   priority group than every one it interrupted, whatever the guest did since
   to priorities, binary point, active bits and active priorities.            *)
NestingOrdered ==
  \A c \in Cpu :
    LET list == gic.list[c] IN
    \A j, k \in DOMAIN list :
      j < k /\ ~list[j].dropped /\ ~list[k].dropped =>
        Even(list[k].priority) < Even(list[j].priority)

(* A timer is masked at the host, and no interrupt is left whose end would have
   it unmasked (usgic_bridge.rs:450-459).                                     *)
Lost(c) == c \in masked /\ Vtimer \notin gic.pending[c] \cup gic.active[c]

(* A write to ICPENDR0 or ICACTIVER0 clears a bit of c's timer. *)
ClearsTimer(c) ==
  \E d \in Cpu : \/ Configure(d, Unpend(gic, c, Vtimer))
                 \/ Configure(d, Deactivated(gic, c, Vtimer))

(* A timer can be lost, although the head of the bridge says that it is unmasked
   when its level drops (usgic_bridge.rs:11-13); but at no step but one, a guest's
   write that clears its pending or active bit through the registers in memory
   while it is masked (usgic_bridge.rs:465-493).  An acknowledge, the end of an
   interrupt or its deactivation in any order, another CPU's access, or a reset
   between the latch and the end of interrupt (usgic_bridge.rs:277-281) loses none. *)
LostByClearingOnly ==
  [][\A c \in Cpu : Lost(c)' => Lost(c) \/ ClearsTimer(c)]_vars
=============================================================================
