------------------------------ MODULE PauseGate ------------------------------
(***************************************************************************)
(* Pause and resume of the whole guest (pause_gate.rs): vCPU 0 asks every  *)
(* secondary to park before its next hv_vcpu_run, waits on a condition     *)
(* variable until all that are in their run loop have parked or a deadline *)
(* passes, and on resume shifts one vTimer offset that each vCPU takes on  *)
(* its own thread before it runs again.                                    *)
(*                                                                         *)
(* hv_vcpus_exit is external: it makes the vCPU leave hv_vcpu_run, or      *)
(* leave its next one at once.  RESUME, RESET and a host stop all end a    *)
(* pause the same way and are one action; the poll of input.ctl is left    *)
(* out, so a pause may last any time.                                      *)
(***************************************************************************)
EXTENDS Integers, FiniteSets

CONSTANTS
  Primary,     \* vCPU 0
  Secondaries, \* the other vCPUs
  NoTime,      \* paused_at: None
  MaxPauses,   \* bound: pauses that are resumed
  MaxMach      \* bound: host ticks

Vcpu == {Primary} \cup Secondaries

ASSUME Threads == IsFiniteSet(Secondaries) /\ Primary \notin Secondaries
ASSUME Bounds == MaxPauses \in Nat /\ MaxMach \in Nat /\ NoTime \notin Nat

VARIABLES
  requested, \* checked before every run
  offset,    \* the VM-wide vTimer offset
  version,   \* how often it changed
  in_loop,   \* secondaries inside their run loop
  parked,    \* how many of those are parked
  paused_at, \* host counter when the last vCPU stopped
  asleep,    \* threads in Condvar::wait on `changed`
  late,      \* the deadline of the pause under way has passed
  todo,      \* secondaries vCPU 0 has yet to kick
  pc,        \* where each vCPU's thread is
  loaded,    \* take_offset's version
  applied,   \* offset_version of each run loop
  vt,        \* HVF's vTimer offset of each vCPU
  kicked,    \* secondaries with an exit requested of HVF
  mach,      \* the host counter
  ran        \* history: ticks that passed while not paused

gate  == <<requested, in_loop, parked, asleep>>
clock == <<offset, version, paused_at>>
pause == <<late, todo>>
vtimer == <<loaded, applied, vt>>
time  == <<mach, ran>>
vars  == <<gate, clock, pause, pc, vtimer, kicked, time>>

(* Only resume holds the mutex over more than one step of this model: the
   stores in it are seen by threads that do not take the mutex.            *)
Unlocked == pc[Primary] \notin {"bump", "release"}

To(v, place) == pc' = [pc EXCEPT ![v] = place]

-----------------------------------------------------------------------------
(* Secondaries *)

(* enter_run_loop, after CPU_ON. *)
EnterLoop(s) ==
  /\ pc[s] = "off" /\ Unlocked
  /\ in_loop' = in_loop + 1
  /\ applied' = [applied EXCEPT ![s] = 0]
  /\ To(s, "top")
  /\ UNCHANGED <<requested, parked, asleep, clock, pause, loaded, vt, kicked, time>>

(* Mutant: a leaving secondary tells nobody. *)
LeaveLoopSilently(s) ==
  /\ pc[s] = "guest" /\ Unlocked
  /\ in_loop' = in_loop - 1
  /\ To(s, "off")
  /\ UNCHANGED <<requested, parked, asleep, clock, pause, vtimer, kicked, time>>

(* An exit for CPU_OFF, or a fatal one: the guard of the loop is dropped.
   (Shutdown is requested by vCPU 0 when it has left its own loop.)        *)
LeaveLoop(s) ==
  /\ pc[s] = "guest" /\ Unlocked
  /\ in_loop' = in_loop - 1
  /\ asleep' = {}
  /\ To(s, "off")
  /\ UNCHANGED <<requested, parked, clock, pause, vtimer, kicked, time>>

(* before_run looks at the flag without the mutex ... *)
Check(s) ==
  /\ pc[s] = "top"
  /\ To(s, IF requested THEN "gate" ELSE "take")
  /\ UNCHANGED <<gate, clock, pause, vtimer, kicked, time>>

(* Mutant: who finds the request gone stays counted. *)
GateLeaks(s) ==
  /\ pc[s] = "gate" /\ Unlocked
  /\ parked' = parked + 1
  /\ asleep' = IF requested THEN {s} ELSE {}
  /\ To(s, IF requested THEN "parked" ELSE "take")
  /\ UNCHANGED <<requested, in_loop, clock, pause, vtimer, kicked, time>>

(* ... then counts itself, tells vCPU 0 and sleeps, unless the request is gone
   by now.                                                                 *)
Gate(s) ==
  /\ pc[s] = "gate" /\ Unlocked
  /\ parked' = IF requested THEN parked + 1 ELSE parked
  /\ asleep' = IF requested THEN {s} ELSE {}
  /\ To(s, IF requested THEN "parked" ELSE "take")
  /\ UNCHANGED <<requested, in_loop, clock, pause, vtimer, kicked, time>>

(* Mutant: any notification frees it. *)
WokenOnce(s) ==
  /\ pc[s] = "parked" /\ s \notin asleep /\ Unlocked
  /\ parked' = parked - 1
  /\ To(s, "take")
  /\ UNCHANGED <<requested, in_loop, asleep, clock, pause, vtimer, kicked, time>>

(* A woken secondary sleeps again as long as a pause, the next one maybe, is
   requested.                                                              *)
Woken(s) ==
  /\ pc[s] = "parked" /\ s \notin asleep /\ Unlocked
  /\ IF requested THEN /\ asleep' = asleep \cup {s}
                       /\ UNCHANGED <<parked, pc>>
                  ELSE /\ parked' = parked - 1
                       /\ To(s, "take")
                       /\ UNCHANGED asleep
  /\ UNCHANGED <<requested, in_loop, clock, pause, vtimer, kicked, time>>

-----------------------------------------------------------------------------
(* Every vCPU *)

(* take_offset: the version first ... *)
TakeVersion(v) ==
  /\ pc[v] = "take"
  /\ loaded' = [loaded EXCEPT ![v] = version]
  /\ To(v, IF version = applied[v] THEN "run" ELSE "set")
  /\ UNCHANGED <<gate, clock, pause, applied, vt, kicked, time>>

(* ... then the offset it stands for. *)
TakeOffset(v) ==
  /\ pc[v] = "set"
  /\ vt' = [vt EXCEPT ![v] = offset]
  /\ applied' = [applied EXCEPT ![v] = loaded[v]]
  /\ To(v, "run")
  /\ UNCHANGED <<gate, clock, pause, loaded, kicked, time>>

(* hv_vcpu_run, which returns at once when an exit was requested before. *)
Run(v) ==
  /\ pc[v] = "run"
  /\ IF v \in kicked THEN To(v, "top") ELSE To(v, "guest")
  /\ kicked' = kicked \ {v}
  /\ UNCHANGED <<gate, clock, pause, vtimer, time>>
Canceled(s) ==
  /\ pc[s] = "guest" /\ s \in kicked
  /\ kicked' = kicked \ {s}
  /\ To(s, "top")
  /\ UNCHANGED <<gate, clock, pause, vtimer, time>>

(* Any other exit, handled; it may have used up the exit request too. *)
GuestExit(s) ==
  /\ pc[s] = "guest"
  /\ \/ UNCHANGED kicked
     \/ kicked' = kicked \ {s}
  /\ To(s, "top")
  /\ UNCHANGED <<gate, clock, pause, vtimer, time>>

-----------------------------------------------------------------------------
(* vCPU 0 *)

PrimaryExit ==
  /\ pc[Primary] = "guest"
  /\ To(Primary, "take")
  /\ UNCHANGED <<gate, clock, pause, vtimer, kicked, time>>

(* pause, up to the unlock before the kicks. *)
Pause ==
  /\ pc[Primary] = "guest" /\ version < MaxPauses
  /\ requested' = TRUE
  /\ todo' = Secondaries
  /\ To(Primary, "kick")
  /\ UNCHANGED <<in_loop, parked, asleep, clock, late, vtimer, kicked, time>>

(* request_exit_if_published.  A secondary that is off and has a handle would
   at most leave its first run early, which GuestExit allows anyway.       *)
Kick(s) ==
  /\ pc[Primary] = "kick" /\ s \in todo
  /\ todo' = todo \ {s}
  /\ kicked' = IF pc[s] = "off" THEN kicked ELSE kicked \cup {s}
  /\ UNCHANGED <<gate, clock, late, pc, vtimer, time>>
Kicked ==
  /\ pc[Primary] = "kick" /\ todo = {}
  /\ late' = FALSE
  /\ To(Primary, "look")
  /\ UNCHANGED <<gate, clock, todo, vtimer, kicked, time>>

AllParked == parked >= in_loop

(* Under the mutex: all are parked, or the deadline has passed, or wait. *)
Paused ==
  /\ pc[Primary] = "look" /\ Primary \notin asleep /\ AllParked
  /\ paused_at' = mach
  /\ To(Primary, "paused")
  /\ UNCHANGED <<gate, offset, version, pause, vtimer, kicked, time>>

(* Mutant: giving up wakes nobody. *)
AbandonSilently ==
  /\ pc[Primary] = "look" /\ Primary \notin asleep /\ ~AllParked /\ late
  /\ requested' = FALSE
  /\ To(Primary, "take")
  /\ UNCHANGED <<in_loop, parked, asleep, clock, pause, vtimer, kicked, time>>

Abandon ==
  /\ pc[Primary] = "look" /\ Primary \notin asleep /\ ~AllParked /\ late
  /\ requested' = FALSE
  /\ asleep' = {}
  /\ To(Primary, "take")
  /\ UNCHANGED <<in_loop, parked, clock, pause, vtimer, kicked, time>>
AwaitParked ==
  /\ pc[Primary] = "look" /\ Primary \notin asleep /\ ~AllParked /\ ~late
  /\ asleep' = asleep \cup {Primary}
  /\ UNCHANGED <<requested, in_loop, parked, clock, pause, pc, vtimer, kicked, time>>

(* The deadline passes; wait_timeout returns if vCPU 0 is in it. *)
Expire ==
  /\ pc[Primary] = "look" /\ ~late
  /\ late' = TRUE
  /\ asleep' = asleep \ {Primary}
  /\ UNCHANGED <<requested, in_loop, parked, clock, todo, pc, vtimer, kicked, time>>

(* Mutant: the offset is the last pause alone. *)
ResumeReplaces ==
  /\ pc[Primary] = "paused"
  /\ offset' = mach - paused_at
  /\ paused_at' = NoTime
  /\ To(Primary, "bump")
  /\ UNCHANGED <<gate, version, pause, vtimer, kicked, time>>

(* resume: the offset grows by the ticks the pause took ... *)
Resume ==
  /\ pc[Primary] = "paused"
  /\ offset' = offset + (mach - paused_at)
  /\ paused_at' = NoTime
  /\ To(Primary, "bump")
  /\ UNCHANGED <<gate, version, pause, vtimer, kicked, time>>

(* ... which has a new version before anybody is let go. *)
Bump ==
  /\ pc[Primary] = "bump"
  /\ version' = version + 1
  /\ To(Primary, "release")
  /\ UNCHANGED <<gate, offset, paused_at, pause, vtimer, kicked, time>>
Release ==
  /\ pc[Primary] = "release"
  /\ requested' = FALSE
  /\ asleep' = {}
  /\ To(Primary, "take")
  /\ UNCHANGED <<in_loop, parked, clock, pause, vtimer, kicked, time>>

(* The host counter goes on. *)
Tick ==
  /\ mach < MaxMach
  /\ mach' = mach + 1
  /\ ran' = IF paused_at = NoTime THEN ran + 1 ELSE ran
  /\ UNCHANGED <<gate, clock, pause, pc, vtimer, kicked>>

-----------------------------------------------------------------------------
Init ==
  /\ requested = FALSE /\ in_loop = 0 /\ parked = 0 /\ asleep = {}
  /\ offset = 0 /\ version = 0 /\ paused_at = NoTime
  /\ late = FALSE /\ todo = {} /\ kicked = {}
  /\ pc = [v \in Vcpu |-> IF v = Primary THEN "take" ELSE "off"]
  /\ loaded = [v \in Vcpu |-> 0] /\ applied = [v \in Vcpu |-> 0]
  /\ vt = [v \in Vcpu |-> 0]
  /\ mach = 0 /\ ran = 0

(* What a secondary's thread does by itself; the guest and PSCI do the rest. *)
SecondaryStep(s) ==
  Check(s) \/ Gate(s) \/ Woken(s) \/ Run(s) \/ Canceled(s)
TakeStep(v) == TakeVersion(v) \/ TakeOffset(v)
PauseStep ==
  \/ (\E s \in Secondaries : Kick(s)) \/ Kicked
  \/ Paused \/ Abandon \/ AwaitParked
ResumeStep == Resume \/ Bump \/ Release

Next ==
  \/ \E s \in Secondaries :
       EnterLoop(s) \/ LeaveLoop(s) \/ SecondaryStep(s) \/ GuestExit(s)
  \/ \E v \in Vcpu : TakeStep(v)
  \/ (pc[Primary] = "run" /\ Run(Primary)) \/ PrimaryExit
  \/ Pause \/ PauseStep \/ Expire \/ ResumeStep \/ Tick

Spec == Init /\ [][Next]_vars

(* Threads run, who waits for the mutex gets it, and HVF ends a run it was
   asked to end.  Guests need never exit, nor the app resume, nor the deadline
   pass.                                                                   *)
LiveSpec ==
  /\ Spec
  /\ \A s \in Secondaries :
       /\ WF_vars(SecondaryStep(s)) /\ SF_vars(Gate(s)) /\ SF_vars(Woken(s))
  /\ \A v \in Vcpu : WF_vars(TakeStep(v))
  /\ WF_vars(PauseStep) /\ WF_vars(Bump \/ Release)

-----------------------------------------------------------------------------
(* Properties *)

(* The values of the variables; the two counters count. *)
InLoop == {s \in Secondaries : pc[s] # "off"}
Parked == {s \in Secondaries : pc[s] = "parked"}
SecondaryPlaces == {"off", "top", "gate", "parked", "take", "set", "run", "guest"}
PrimaryPlaces == {"take", "set", "run", "guest", "kick", "look", "paused", "bump", "release"}
PlacesOK ==
  /\ pc \in [Vcpu -> SecondaryPlaces \cup PrimaryPlaces]
  /\ pc[Primary] \in PrimaryPlaces
  /\ \A s \in Secondaries : pc[s] \in SecondaryPlaces
ValuesOK ==
  /\ requested \in BOOLEAN /\ late \in BOOLEAN
  /\ offset \in Nat /\ version \in Nat /\ paused_at \in Nat \cup {NoTime}
  /\ asleep \in SUBSET Vcpu
  /\ todo \in SUBSET Secondaries /\ kicked \in SUBSET Secondaries
  /\ loaded \in [Vcpu -> Nat] /\ applied \in [Vcpu -> Nat] /\ vt \in [Vcpu -> Nat]
  /\ mach \in Nat /\ ran \in Nat
CountsOK == in_loop = Cardinality(InLoop) /\ parked = Cardinality(Parked)
TypeOK == PlacesOK /\ ValuesOK /\ CountsOK

(* No guest instruction runs from the moment vCPU 0 says the guest is paused
   until it lets it go, whatever vCPUs are turned on or off, however many
   pauses were given up before.                                            *)
Frozen == pc[Primary] \in {"paused", "bump", "release"}
NobodyRunsPaused == Frozen => \A v \in Vcpu : pc[v] # "guest"

(* On every vCPU the guest's counter is the time it was not paused: no vCPU
   runs with an offset another one has left behind, and no pause shows.    *)
GuestClock == \A v \in Vcpu : pc[v] = "guest" => mach - vt[v] = ran

(* Unless the deadline passes first, a pause takes: each secondary is made to
   leave the guest, parks or leaves its loop, and vCPU 0 gets to know.     *)
PauseTakes == []~late => (pc[Primary] = "kick" ~> pc[Primary] = "paused")

(* Whoever is parked without a request, after a pause that was given up too,
   goes on.                                                                *)
ParkedFreed ==
  \A s \in Secondaries :
    pc[s] = "parked" /\ ~requested ~> (pc[s] # "parked" \/ requested)
=============================================================================
