---------------------------- MODULE UserspaceGic ----------------------------
(***************************************************************************)
(* The userspace GICv3 (userspace_gic/): one value for the whole device,   *)
(* which the bridge keeps behind a mutex, and one operator per access.     *)
(* An access returns the device after it and the CPUs to kick: those whose *)
(* interrupt line may need to be sampled again.                            *)
(*                                                                         *)
(* Every interrupt is in Group 1, its reset value, which guests keep.      *)
(* Registers that only read back what was written, identification         *)
(* registers and Group 0 are left out.                                     *)
(***************************************************************************)
EXTENDS Integers, Sequences, FiniteSets, FiniteSetsExt

CONSTANTS
  Cpu,     \* the modelled CPUs, numbered from 0
  Shared,  \* the distributor's bank of registers
  Spi,     \* shared peripheral interrupts in use
  Private, \* SGIs and PPIs each CPU uses: [Cpu -> SUBSET 0..31]
  Prio,    \* priorities the guest writes
  Nowhere  \* an affinity that no CPU has

Vtimer == 27
Idle   == 255

Intid == Spi \cup UNION {Private[c] : c \in Cpu}
Banks == Cpu \cup {Shared}

ASSUME Numbers ==
  /\ Spi \subseteq 32..255 /\ Private \in [Cpu -> SUBSET (0..31)]
  /\ Prio \subseteq 0..Idle
  /\ 0 \in Cpu /\ Cpu \subseteq 0..15 /\ Shared \notin Cpu /\ Nowhere \notin Cpu

(* What a CPU finds interrupt i in: its own redistributor, or the
   distributor that all share.                                             *)
Bank(c, i) == IF i \in Spi THEN Shared ELSE c
Users(b)   == IF b = Shared THEN Cpu ELSE {b}
Held(b)    == IF b = Shared THEN Spi ELSE Private[b]

(* UserspaceGic::new. *)
New ==
  [ctlr     |-> FALSE,                            \* GICD_CTLR.EnableGrp1NS
   enabled  |-> [b \in Banks |-> {}],
   pending  |-> [b \in Banks |-> {}],             \* latched
   active   |-> [b \in Banks |-> {}],
   level    |-> {},                               \* pending while high
   input    |-> {},                               \* electrical inputs
   edge     |-> {},                               \* ICFGR
   priority |-> [b \in Banks |-> [i \in Held(b) |-> 0]],
   route    |-> [i \in Spi |-> 0],
   group1   |-> {},                               \* ICC_IGRPEN1
   mask     |-> [c \in Cpu |-> 0],                \* ICC_PMR
   bpr1     |-> [c \in Cpu |-> 0],
   split    |-> {},                               \* ICC_CTLR.EOImode
   list     |-> [c \in Cpu |-> << >>]]            \* acknowledged, oldest first

Entry == [intid : Intid, priority : Prio \cup {0}, dropped : BOOLEAN]

-----------------------------------------------------------------------------
(* Which interrupt a CPU is offered *)

Even(p) == p - (p % 2)

Undropped(g, c) ==
  {Even(g.list[c][k].priority) : k \in {j \in DOMAIN g.list[c] : ~g.list[c][j].dropped}}

(* Mutant: what was interrupted counts, not what runs. *)
RunningOutermost(g, c) ==
  IF Undropped(g, c) = {} THEN Idle ELSE Max(Undropped(g, c))

(* running_priority, bit 0 left out. *)
Running(g, c) ==
  IF Undropped(g, c) = {} THEN Idle ELSE Min(Undropped(g, c))

(* A candidate must have a smaller priority than the mask and than the group
   of what is running; BPR1 says how many low bits are not in the group.    *)
Preemption(g, c) ==
  LET width == 2 ^ (IF g.bpr1[c] = 0 THEN 1 ELSE g.bpr1[c])
  IN  IF Running(g, c) = Idle THEN Idle
      ELSE Running(g, c) - (Running(g, c) % width)

Threshold(g, c) == Min({g.mask[c], Preemption(g, c)})

Priority(g, c, i) == g.priority[Bank(c, i)][i]

(* Enabled, pending and not active, in one bank. *)
Ready(g, b) == (g.enabled[b] \cap (g.pending[b] \cup g.level)) \ g.active[b]

Candidates(g, c) ==
  LET ready == IF g.ctlr THEN Ready(g, c) \cup {i \in Ready(g, Shared) : g.route[i] = c}
                         ELSE {}
      limit == Threshold(g, c)
  IN  {i \in ready : Priority(g, c, i) < limit}

(* line_asserted. *)
Line(g, c) == c \in g.group1 /\ Candidates(g, c) # {}

(* The least priority first, then the least interrupt number. *)
Best(g, c) ==
  CHOOSE i \in Candidates(g, c) :
    \A j \in Candidates(g, c) :
      \/ Priority(g, c, i) < Priority(g, c, j)
      \/ Priority(g, c, i) = Priority(g, c, j) /\ i <= j

(* kick_if_line_changed, for the CPUs of a set. *)
Changed(g, h, cpus) == {c \in cpus : Line(g, c) # Line(h, c)}

Result(h, cpus) == [gic |-> h, kick |-> cpus]

(* Where an SPI goes: at most one CPU. *)
Target(g, i) == {g.route[i]} \ {Nowhere}

-----------------------------------------------------------------------------
(* Interrupts from devices, from the timer and from other CPUs *)

(* send_msi: always an edge. *)
SendMsi(g, i) ==
  LET h == [g EXCEPT !.pending[Shared] = @ \cup {i}]
  IN  Result(h, Changed(g, h, Target(g, i)))

(* set_spi: a rising input is latched if the interrupt is an edge, and is
   followed if it is a level.  A falling edge tells nobody.                *)
SetSpi(g, i, high) ==
  LET level == IF high /\ i \notin g.edge THEN g.level \cup {i} ELSE g.level \ {i}
      input == IF high THEN g.input \cup {i} ELSE g.input \ {i}
      new   == IF high /\ i \in g.edge \ g.input THEN {i} ELSE {}
      h     == [g EXCEPT !.level = level, !.input = input,
                         !.pending[Shared] = @ \cup new]
  IN  Result(h, IF i \in g.edge /\ ~high THEN {} ELSE Changed(g, h, Target(g, i)))

(* set_vtimer_ppi(cpu, true): latched, whatever becomes of the timer. *)
FireVtimer(g, c) ==
  LET h == [g EXCEPT !.pending[c] = @ \cup {Vtimer}]
  IN  Result(h, IF Vtimer \in g.pending[c] THEN {} ELSE Changed(g, h, {c}))

(* ICC_SGI1R. *)
SendSgi(g, i, targets) ==
  LET h == [g EXCEPT !.pending =
              [b \in Banks |-> IF b \in targets THEN @[b] \cup {i} ELSE @[b]]]
  IN  Result(h, Changed(g, h, targets))

-----------------------------------------------------------------------------
(* The CPU interface: acknowledge, priority drop, deactivate *)

(* Mutant: an entry that was dropped and deactivated elsewhere stays. *)
AcknowledgeKeepsAll(g, c) ==
  IF ~Line(g, c) THEN Result(g, {})
  ELSE LET i == Best(g, c)
           e == [intid |-> i, priority |-> Priority(g, c, i), dropped |-> FALSE]
       IN  Result([g EXCEPT !.pending[Bank(c, i)] = @ \ {i},
                            !.active[Bank(c, i)] = @ \cup {i},
                            !.list[c] = Append(@, e)], {})

(* An entry of i that was dropped, and so deactivated elsewhere, is retired. *)
Retired(list, i) ==
  LET kept[n \in 0..Len(list)] ==
        IF n = 0 THEN << >>
        ELSE IF list[n].dropped /\ list[n].intid = i THEN kept[n - 1]
        ELSE Append(kept[n - 1], list[n])
  IN  kept[Len(list)]

(* ICC_IAR1: a spurious read changes nothing, and nobody is kicked. *)
Acknowledge(g, c) ==
  IF ~Line(g, c) THEN Result(g, {})
  ELSE LET i == Best(g, c)
           e == [intid |-> i, priority |-> Priority(g, c, i), dropped |-> FALSE]
       IN  Result([g EXCEPT !.pending[Bank(c, i)] = @ \ {i},
                            !.active[Bank(c, i)] = @ \cup {i},
                            !.list[c] = Append(Retired(@, i), e)], {})

(* The last entry for i, if there is one. *)
LastOf(list, i) ==
  LET places == {k \in DOMAIN list : list[k].intid = i}
  IN  IF places = {} THEN {} ELSE {Max(places)}

DropPriority(g, c, i) ==
  [g EXCEPT !.list[c] =
     [k \in DOMAIN @ |-> IF k \in LastOf(@, i) THEN [@[k] EXCEPT !.dropped = TRUE]
                                               ELSE @[k]]]

Without(list, places) ==
  IF places = {} THEN list
  ELSE LET k == CHOOSE k \in places : TRUE
       IN  SubSeq(list, 1, k - 1) \o SubSeq(list, k + 1, Len(list))

Inactive(g, c, i) ==
  [g EXCEPT !.list[c] = Without(@, LastOf(@, i)),
            !.active[Bank(c, i)] = @ \ {i}]

(* Mutant: only the CPU that deactivates looks again. *)
DeactivateForSelf(g, c, i) == Result(Inactive(g, c, i), {c})

(* ICC_DIR: the SPI's target may be another CPU. *)
Deactivate(g, c, i) ==
  LET h == Inactive(g, c, i)
  IN  Result(h, {c} \cup (IF i \in Spi THEN Changed(g, h, Target(g, i)) ELSE {}))

(* ICC_EOIR1. *)
EndOfInterrupt(g, c, i) ==
  IF c \in g.split THEN Result(DropPriority(g, c, i), {c})
                   ELSE Deactivate(DropPriority(g, c, i), c, i)

(* ICC_AP1R: a priority whose bit is written as zero is dropped. *)
DropPriorities(g, c, gone) ==
  LET Goes(e) == ~e.dropped /\ Even(e.priority) \in gone
      h == [g EXCEPT !.list[c] =
              [k \in DOMAIN @ |-> IF Goes(@[k]) THEN [@[k] EXCEPT !.dropped = TRUE]
                                                ELSE @[k]]]
  IN  Result(h, IF h = g THEN {} ELSE {c})

SetMask(g, c, p)   == Result([g EXCEPT !.mask[c] = p], {c})
SetBpr(g, c, n)    == Result([g EXCEPT !.bpr1[c] = n], {})
SetGroup1(g, c, on) ==
  Result([g EXCEPT !.group1 = IF on THEN @ \cup {c} ELSE @ \ {c}], {c})
SetSplit(g, c, on) ==
  Result([g EXCEPT !.split = IF on THEN @ \cup {c} ELSE @ \ {c}], {})

-----------------------------------------------------------------------------
(* Registers in memory: any CPU writes any of them *)

SetCtlr(g, on)     == Result([g EXCEPT !.ctlr = on], Cpu)
SetRoute(g, i, c)  == Result([g EXCEPT !.route[i] = c], Cpu)
SetEdge(g, i, on)  ==
  Result([g EXCEPT !.edge = IF on THEN @ \cup {i} ELSE @ \ {i}], {})

SetPriority(g, b, i, p) ==
  LET h == [g EXCEPT !.priority[b][i] = p]
  IN  Result(h, Changed(g, h, Users(b)))

Enable(g, b, i)    == Result([g EXCEPT !.enabled[b] = @ \cup {i}], Users(b))
Disable(g, b, i)   == Result([g EXCEPT !.enabled[b] = @ \ {i}], Users(b))
Pend(g, b, i)      == Result([g EXCEPT !.pending[b] = @ \cup {i}], Users(b))
Unpend(g, b, i)    == Result([g EXCEPT !.pending[b] = @ \ {i}], Users(b))
Deactivated(g, b, i) == Result([g EXCEPT !.active[b] = @ \ {i}], Users(b))
(* GICR_ISACTIVER0 is the one that kicks nobody. *)
Activated(g, b, i) ==
  Result([g EXCEPT !.active[b] = @ \cup {i}], IF b = Shared THEN Cpu ELSE {})
=============================================================================
