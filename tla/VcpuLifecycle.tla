---------------------------- MODULE VcpuLifecycle ----------------------------
(***************************************************************************)
(* How secondary vCPUs come, go and end the machine: PSCI CPU_ON, CPU_OFF, *)
(* SYSTEM_OFF and SYSTEM_RESET (psci_adapter.rs, secondary_vcpu.rs), the   *)
(* terminal and error signals to vCPU 0 (vcpu_coordination/), shutdown and *)
(* join, and the next generation after a reset (probe_runtime.rs).         *)
(*                                                                         *)
(* A section under a secondary's state mutex is short and one step here.   *)
(* The handle mutex is held across hv_vcpus_exit and is the variable held. *)
(* hv_vcpus_exit is external: it makes the vCPU leave hv_vcpu_run, or      *)
(* leave its next one at once.                                             *)
(***************************************************************************)
EXTENDS Integers

CONSTANTS
  N,         \* the number of secondaries
  None,      \* no terminal request, no reason to stop yet
  MaxStarts, \* bound: with so many successes CPU_ON is not called
  MaxResets  \* bound: resets that boot again

Primary == 0
Secondaries == 1 .. N
Vcpu == 0 .. N
Terminal == {"off", "reset"}

ASSUME Bounds == N \in Nat /\ MaxStarts \in Nat /\ MaxResets \in Nat
ASSUME NoRequest ==
  None \notin Vcpu /\ None \notin {"off", "reset", "failed", "halt", "restart"}

VARIABLES
  state,      \* PsciState of each secondary
  entry,      \* the entry point (and context) last stored for it
  handle,     \* secondaries with a published handle
  held,       \* secondaries whose handle mutex vCPU 0 holds
  alive,      \* secondaries with an HVF vCPU
  registered, \* secondaries with a handle in the userspace GIC's bridge
  asleep,     \* owners in Condvar::wait
  shutdown,   \* tells owners to end
  terminal,   \* SecondaryTerminalSignal
  err,        \* secondaries with run_error
  kicked,     \* vCPUs with an exit requested of HVF
  pc,         \* where each thread is
  loaded,     \* the entry an owner has read
  booted,     \* the entry its vCPU was last set to start at
  target,     \* whom a vCPU turns on or is to notify
  next,       \* whom vCPU 0 notifies, asks to exit or joins next
  stop,       \* what vCPU 0 stops for
  starts,     \* CPU_ON calls that succeeded
  resets,     \* generations before this one
  first       \* history: the first terminal request of a secondary

psci    == <<state, entry, asleep, starts>>
handles == <<handle, held, alive, registered>>
signals == <<shutdown, terminal, err, first>>
owners  == <<loaded, booted, target>>
primary == <<next, stop, resets>>
vars == <<psci, handles, signals, kicked, pc, owners, primary>>

To(v, place) == pc' = [pc EXCEPT ![v] = place]

(* Where a vCPU's thread handles an exit, and goes on when that is done. *)
Handling(v) == IF v = Primary THEN "handled" ELSE "guest"
Again(v) == IF v = Primary THEN "handled" ELSE "top"

-----------------------------------------------------------------------------
(* PSCI, called by any vCPU: exits of the guest *)

(* Mutant: who is about to start is asked to start once more. *)
CpuOnAgain(c, t) ==
  /\ pc[c] = Handling(c)
  /\ IF state[t] \in {"Off", "OnPending"}
       THEN /\ starts' = starts + 1
            /\ entry' = [entry EXCEPT ![t] = starts + 1]
            /\ state' = [state EXCEPT ![t] = "OnPending"]
            /\ target' = [target EXCEPT ![c] = t]
            /\ To(c, "notify")
       ELSE /\ target' = [target EXCEPT ![c] = None]
            /\ To(c, Again(c))
            /\ UNCHANGED <<starts, entry, state>>
  /\ UNCHANGED <<asleep, handles, signals, kicked, loaded, booted, primary>>

(* CPU_ON of t; each call asks for an entry point of its own.  ON_PENDING and
   ALREADY_ON change nothing.                                              *)
CpuOn(c, t) ==
  /\ pc[c] = Handling(c)
  /\ IF state[t] = "Off"
       THEN /\ starts' = starts + 1
            /\ entry' = [entry EXCEPT ![t] = starts + 1]
            /\ state' = [state EXCEPT ![t] = "OnPending"]
            /\ target' = [target EXCEPT ![c] = t]
            /\ To(c, "notify")
       ELSE /\ target' = [target EXCEPT ![c] = None]
            /\ To(c, Again(c))
            /\ UNCHANGED <<starts, entry, state>>
  /\ UNCHANGED <<asleep, handles, signals, kicked, loaded, booted, primary>>

(* The target is notified when its mutex is free again. *)
Notify(c) ==
  /\ pc[c] = "notify"
  /\ asleep' = asleep \ {target[c]}
  /\ target' = [target EXCEPT ![c] = None]
  /\ To(c, Again(c))
  /\ UNCHANGED <<state, entry, starts, handles, signals, kicked, loaded, booted, primary>>

(* CPU_OFF: run_secondary_until_parked returns false. *)
CpuOff(s) ==
  /\ pc[s] = "guest"
  /\ state' = [state EXCEPT ![s] = "Off"]
  /\ To(s, "owner")
  /\ UNCHANGED <<entry, asleep, starts, handles, signals, kicked, owners, primary>>

(* SYSTEM_OFF or SYSTEM_RESET of a secondary: the first one is kept. *)
RequestTerminal(s, f) ==
  /\ pc[s] = "guest"
  /\ terminal' = IF terminal = None THEN f ELSE terminal
  /\ first' = IF first = None THEN f ELSE first
  /\ To(s, "report")
  /\ UNCHANGED <<psci, handles, shutdown, err, kicked, owners, primary>>

(* A run that fails, an exit nobody can handle, the cap on exits, an interrupt
   that could not be delivered: record_run_error publishes the error ...   *)
Fail(s) ==
  /\ pc[s] \in {"run", "guest"}
  /\ err' = err \cup {s}
  /\ To(s, "report")
  /\ UNCHANGED <<psci, handles, shutdown, terminal, first, kicked, owners, primary>>

(* Mutant: only the vCPU that asked ends. *)
ReportSilently(s) ==
  /\ pc[s] = "report"
  /\ To(s, "leave")
  /\ UNCHANGED <<psci, handles, signals, kicked, owners, primary>>

(* ... and like a terminal request makes vCPU 0 leave the guest to see it. *)
Report(s) ==
  /\ pc[s] = "report"
  /\ kicked' = kicked \cup {Primary}
  /\ To(s, "leave")
  /\ UNCHANGED <<psci, handles, signals, owners, primary>>

-----------------------------------------------------------------------------
(* The owner thread of a secondary *)

(* Mutant: a vCPU is created every time it is turned on. *)
LookCreates(s) ==
  /\ pc[s] = "owner" /\ s \notin asleep
  /\ CASE shutdown -> To(s, "leave") /\ UNCHANGED <<asleep, loaded>>
       [] ~shutdown /\ state[s] = "Off" ->
            asleep' = asleep \cup {s} /\ UNCHANGED <<pc, loaded>>
       [] OTHER ->
            /\ loaded' = [loaded EXCEPT ![s] = entry[s]]
            /\ To(s, "create")
            /\ UNCHANGED asleep
  /\ UNCHANGED <<state, entry, starts, handles, signals, kicked, booted, target, primary>>

(* Under the state mutex: end, wait to be turned on, or read where to start. *)
Look(s) ==
  /\ pc[s] = "owner" /\ s \notin asleep
  /\ CASE shutdown -> To(s, "leave") /\ UNCHANGED <<asleep, loaded>>
       [] ~shutdown /\ state[s] = "Off" ->
            asleep' = asleep \cup {s} /\ UNCHANGED <<pc, loaded>>
       [] ~shutdown /\ state[s] = "OnPending" ->
            /\ loaded' = [loaded EXCEPT ![s] = entry[s]]
            /\ To(s, IF s \in alive THEN "start" ELSE "create")
            /\ UNCHANGED asleep
       [] OTHER -> To(s, "top") /\ UNCHANGED <<asleep, loaded>>
  /\ UNCHANGED <<state, entry, starts, handles, signals, kicked, booted, target, primary>>

(* The first time: the vCPU is created, which registers it with the bridge of
   the userspace GIC, and its handle is published.                         *)
Create(s) ==
  /\ pc[s] = "create"
  /\ alive' = alive \cup {s} /\ registered' = registered \cup {s}
  /\ To(s, "publish")
  /\ UNCHANGED <<psci, handle, held, signals, kicked, owners, primary>>
Publish(s) ==
  /\ pc[s] = "publish" /\ s \notin held
  /\ handle' = handle \cup {s}
  /\ To(s, "start")
  /\ UNCHANGED <<psci, held, alive, registered, signals, kicked, owners, primary>>

(* The registers are reset, then the state is On. *)
Start(s) ==
  /\ pc[s] = "start"
  /\ booted' = [booted EXCEPT ![s] = loaded[s]]
  /\ state' = [state EXCEPT ![s] = "On"]
  /\ loaded' = [loaded EXCEPT ![s] = 0]
  /\ To(s, "top")
  /\ UNCHANGED <<entry, asleep, starts, handles, signals, kicked, target, primary>>

(* The top of the run loop. *)
Top(s) ==
  /\ pc[s] = "top"
  /\ To(s, IF shutdown THEN "leave" ELSE "run")
  /\ UNCHANGED <<psci, handles, signals, kicked, owners, primary>>

(* hv_vcpu_run returns at once when an exit was requested before. *)
Run(s) ==
  /\ pc[s] = "run"
  /\ To(s, IF s \in kicked THEN "top" ELSE "guest")
  /\ kicked' = kicked \ {s}
  /\ UNCHANGED <<psci, handles, signals, owners, primary>>
Canceled(s) ==
  /\ pc[s] = "guest" /\ s \in kicked
  /\ kicked' = kicked \ {s}
  /\ To(s, "top")
  /\ UNCHANGED <<psci, handles, signals, owners, primary>>

(* Any other exit, handled; it may have used up the exit request too. *)
Exit(s) ==
  /\ pc[s] = "guest"
  /\ kicked' \in {kicked, kicked \ {s}}
  /\ To(s, "top")
  /\ UNCHANGED <<psci, handles, signals, owners, primary>>

(* Out of the loop: the final state is published, if there is a vCPU. *)
Leave(s) ==
  /\ pc[s] = "leave"
  /\ To(s, IF s \in alive THEN "withdraw" ELSE "ended")
  /\ UNCHANGED <<psci, handles, signals, kicked, owners, primary>>

(* Mutant: the owner does not take the mutex to withdraw its handle. *)
WithdrawUnlocked(s) ==
  /\ pc[s] = "withdraw"
  /\ handle' = handle \ {s}
  /\ To(s, "destroy")
  /\ UNCHANGED <<psci, held, alive, registered, signals, kicked, owners, primary>>

Withdraw(s) ==
  /\ pc[s] = "withdraw" /\ s \notin held
  /\ handle' = handle \ {s}
  /\ To(s, "destroy")
  /\ UNCHANGED <<psci, held, alive, registered, signals, kicked, owners, primary>>
Destroy(s) ==
  /\ pc[s] = "destroy"
  /\ alive' = alive \ {s} /\ kicked' = kicked \ {s}
  /\ To(s, "ended")
  /\ UNCHANGED <<psci, handle, held, registered, signals, owners, primary>>

(* UsGicBridge::kick: an exit of another vCPU is handled that gives s an
   interrupt.  (The HDA tick's thread could do so at any time.)            *)
GicKick(c, s) ==
  /\ pc[c] = Handling(c) /\ c # s /\ s \in registered
  /\ kicked' = kicked \cup {s}
  /\ UNCHANGED <<psci, handles, signals, pc, owners, primary>>

-----------------------------------------------------------------------------
(* vCPU 0 *)

Stop(why) == stop' = why /\ To(Primary, "stop")

(* run_primary_with_secondary_check: before the run ... *)
CheckBefore ==
  /\ pc[Primary] = "check"
  /\ IF err # {} THEN Stop("failed") ELSE To(Primary, "run") /\ UNCHANGED stop
  /\ UNCHANGED <<psci, handles, signals, kicked, owners, next, resets>>

(* ... or an interrupt cannot be delivered or the run fails ... *)
FailPrimary ==
  /\ pc[Primary] \in {"check", "run", "guest"}
  /\ Stop("failed")
  /\ UNCHANGED <<psci, handles, signals, kicked, owners, next, resets>>
RunPrimary ==
  /\ pc[Primary] = "run"
  /\ To(Primary, IF Primary \in kicked THEN "after" ELSE "guest")
  /\ kicked' = kicked \ {Primary}
  /\ UNCHANGED <<psci, handles, signals, owners, primary>>
CancelPrimary ==
  /\ pc[Primary] = "guest" /\ Primary \in kicked
  /\ kicked' = kicked \ {Primary}
  /\ To(Primary, "after")
  /\ UNCHANGED <<psci, handles, signals, owners, primary>>

(* ... and after it; *)
CheckAfter ==
  /\ pc[Primary] = "after"
  /\ IF err # {} THEN Stop("failed") ELSE To(Primary, "psci") /\ UNCHANGED stop
  /\ UNCHANGED <<psci, handles, signals, kicked, owners, next, resets>>

(* then the terminal request of a secondary. *)
CheckTerminal ==
  /\ pc[Primary] = "psci"
  /\ IF terminal # None THEN Stop(terminal)
                        ELSE To(Primary, "handled") /\ UNCHANGED stop
  /\ UNCHANGED <<psci, handles, signals, kicked, owners, next, resets>>

(* An exit of its own, maybe to turn a secondary on, goes the same way, and is
   handled when no secondary has failed or asked for an end.               *)
ExitPrimary ==
  /\ pc[Primary] = "guest"
  /\ kicked' \in {kicked, kicked \ {Primary}}
  /\ \/ UNCHANGED target
     \/ starts < MaxStarts /\ \E t \in Secondaries : target' = [target EXCEPT ![Primary] = t]
  /\ To(Primary, "after")
  /\ UNCHANGED <<psci, handles, signals, loaded, booted, primary>>
CpuOnPrimary(t) == target[Primary] = t /\ CpuOn(Primary, t)
Handled == pc[Primary] = "handled" /\ target[Primary] = None

(* It ends the machine or resets it: PSCI of its own, the host, a cap. *)
StopPrimary ==
  /\ Handled
  /\ \E why \in {"halt", "restart"} : Stop(why)
  /\ UNCHANGED <<psci, handles, signals, kicked, owners, next, resets>>

(* Round again.  (A pause, PauseGate's part, asks for exits as shutdown does.) *)
Loop ==
  /\ Handled
  /\ To(Primary, "check")
  /\ UNCHANGED <<psci, handles, signals, kicked, owners, primary>>

(* Every published vCPU is asked to exit, under the mutex of its handle. *)
Hold(s) ==
  /\ pc[Primary] = "kick" /\ s = next /\ held = {}
  /\ held' = handle \cap {s}
  /\ next' = next + 1
  /\ UNCHANGED <<psci, handle, alive, registered, signals, kicked, pc, owners, stop, resets>>
Request(s) ==
  /\ pc[Primary] = "kick" /\ s \in held
  /\ kicked' = kicked \cup {s}
  /\ held' = {}
  /\ UNCHANGED <<psci, handle, alive, registered, signals, pc, owners, primary>>
Requested ==
  /\ pc[Primary] = "kick" /\ next > N /\ held = {}
  /\ next' = 1
  /\ To(Primary, "join")
  /\ UNCHANGED <<psci, handles, signals, kicked, owners, stop, resets>>

(* shutdown_and_join: the flag, then a notification under each state mutex,
   then the exit requests.                                                 *)
Shutdown ==
  /\ pc[Primary] = "stop"
  /\ shutdown' = TRUE
  /\ next' = 1
  /\ To(Primary, "wake")
  /\ UNCHANGED <<psci, handles, terminal, err, first, kicked, owners, stop, resets>>
NotifyShutdown(s) ==
  /\ pc[Primary] = "wake" /\ s = next
  /\ asleep' = asleep \ {s}
  /\ next' = next + 1
  /\ UNCHANGED <<state, entry, starts, handles, signals, kicked, pc, owners, stop, resets>>
Notified ==
  /\ pc[Primary] = "wake" /\ next > N
  /\ next' = 1
  /\ To(Primary, "kick")
  /\ UNCHANGED <<psci, handles, signals, kicked, owners, stop, resets>>

(* Mutant: what vCPU 0 stopped for stands. *)
JoinUnmerged ==
  /\ pc[Primary] = "join" /\ \A s \in Secondaries : pc[s] = "ended"
  /\ To(Primary, "joined")
  /\ UNCHANGED <<psci, handles, signals, kicked, owners, primary>>

(* All owners have ended: an error of any overrules a reset. *)
Join ==
  /\ pc[Primary] = "join" /\ \A s \in Secondaries : pc[s] = "ended"
  /\ stop' = IF err # {} THEN "failed" ELSE stop
  /\ To(Primary, "joined")
  /\ UNCHANGED <<psci, handles, signals, kicked, owners, next, resets>>

(* The next generation: new threads and controls, the same GIC bridge.  (Only
   after some CPU_ON: a bound, like MaxResets.)                            *)
Reboot ==
  /\ pc[Primary] = "joined" /\ stop \in {"reset", "restart"}
  /\ resets < MaxResets /\ starts > 0
  /\ resets' = resets + 1
  /\ stop' = None /\ shutdown' = FALSE /\ terminal' = None /\ err' = {} /\ first' = None
  /\ pc' = [v \in Vcpu |-> IF v = Primary THEN "check" ELSE "owner"]
  /\ state' = [s \in Secondaries |-> "Off"] /\ entry' = [s \in Secondaries |-> 0]
  /\ loaded' = [s \in Secondaries |-> 0] /\ booted' = [s \in Secondaries |-> 0]
  /\ target' = [v \in Vcpu |-> None]
  /\ UNCHANGED <<asleep, starts, handles, kicked, next>>

-----------------------------------------------------------------------------
Init ==
  /\ state = [s \in Secondaries |-> "Off"] /\ entry = [s \in Secondaries |-> 0]
  /\ handle = {} /\ held = {} /\ alive = {} /\ registered = {} /\ asleep = {}
  /\ shutdown = FALSE /\ terminal = None /\ err = {} /\ first = None
  /\ kicked = {} /\ next = 1 /\ stop = None /\ starts = 0 /\ resets = 0
  /\ pc = [v \in Vcpu |-> IF v = Primary THEN "check" ELSE "owner"]
  /\ loaded = [s \in Secondaries |-> 0] /\ booted = [s \in Secondaries |-> 0]
  /\ target = [v \in Vcpu |-> None]

(* What an owner's thread does by itself. *)
OwnerStep(s) ==
  \/ Look(s) \/ Create(s) \/ Publish(s) \/ Start(s) \/ Top(s) \/ Run(s)
  \/ Canceled(s) \/ Notify(s) \/ Report(s) \/ Leave(s) \/ Withdraw(s) \/ Destroy(s)

(* What vCPU 0 does by itself. *)
PrimaryStep ==
  \/ CheckBefore \/ RunPrimary \/ CancelPrimary \/ CheckAfter \/ CheckTerminal
  \/ Notify(Primary) \/ Loop \/ StopPrimary
  \/ (\E s \in Secondaries :
         CpuOnPrimary(s) \/ Hold(s) \/ Request(s) \/ NotifyShutdown(s))
  \/ Requested \/ Shutdown \/ Notified \/ Join

Next ==
  \/ \E s \in Secondaries :
       \/ OwnerStep(s) \/ Exit(s) \/ Fail(s) \/ CpuOff(s)
       \/ (\E c \in Vcpu : GicKick(c, s))
       \/ (starts < MaxStarts /\ \E t \in Secondaries : CpuOn(s, t))
       \/ (\E f \in Terminal : RequestTerminal(s, f))
  \/ PrimaryStep \/ ExitPrimary \/ FailPrimary \/ Reboot

Spec == Init /\ [][Next]_vars

(* Threads run and HVF ends a run it was asked to end.  Guests need never exit
   by themselves, and nobody outside asks for anything.                    *)
LiveSpec ==
  /\ Spec
  /\ \A s \in Secondaries : WF_vars(OwnerStep(s))
  /\ WF_vars(PrimaryStep)

-----------------------------------------------------------------------------
(* Properties *)

SecondaryPlaces ==
  {"owner", "create", "publish", "start", "top", "run", "guest", "notify", "report",
   "leave", "withdraw", "destroy", "ended"}
PrimaryPlaces ==
  {"check", "run", "guest", "after", "psci", "handled", "notify", "kick", "stop",
   "wake", "join", "joined"}

(* The values of the variables; a vCPU exists as long as its owner's place says,
   and who is in its run loop has a published handle.                      *)
PlacesOK ==
  /\ pc \in [Vcpu -> PrimaryPlaces \cup SecondaryPlaces]
  /\ pc[Primary] \in PrimaryPlaces
  /\ \A s \in Secondaries : pc[s] \in SecondaryPlaces
ValuesOK ==
  /\ state \in [Secondaries -> {"Off", "OnPending", "On"}]
  /\ entry \in [Secondaries -> Nat] /\ loaded \in [Secondaries -> Nat]
  /\ booted \in [Secondaries -> Nat] /\ target \in [Vcpu -> Secondaries \cup {None}]
  /\ held \subseteq Secondaries /\ asleep \subseteq Secondaries /\ next \in 1 .. N + 1
  /\ kicked \subseteq Vcpu /\ err \subseteq Secondaries /\ shutdown \in BOOLEAN
  /\ terminal \in Terminal \cup {None} /\ first \in Terminal \cup {None}
  /\ stop \in Terminal \cup {None, "failed", "halt", "restart"}
  /\ starts \in Nat /\ resets \in Nat
HandlesOK ==
  /\ handle \subseteq alive /\ alive \subseteq registered /\ registered \subseteq Secondaries
  /\ \A s \in Secondaries :
       /\ pc[s] \in {"start", "top", "run", "guest"} => s \in handle
       /\ pc[s] \in {"create", "ended"} => s \notin alive
TypeOK == PlacesOK /\ ValuesOK /\ HandlesOK

(* A secondary runs from the entry point of the one call that was answered
   SUCCESS since it was off, and says On, whoever else calls meanwhile.    *)
StartsAsAsked ==
  \A s \in Secondaries :
    pc[s] \in {"top", "run", "guest", "notify", "report"} =>
      state[s] = "On" /\ booted[s] = entry[s]

(* While vCPU 0 asks a published vCPU to exit its owner does not destroy it. *)
BarrierHolds == \A s \in held : s \in alive

(* A reset or an end asked for by a secondary is the one that was asked for
   first, and no machine in which some secondary failed is reset or ends well,
   even if it failed when vCPU 0 had already decided.                      *)
Verdict ==
  pc[Primary] = "joined" =>
    /\ err # {} => stop = "failed"
    /\ stop \in Terminal => stop = first

(* When a secondary has failed or asked for an end, vCPU 0 gets to know, stops
   and joins every owner, wherever that is on its way.                     *)
VmEnds == (terminal # None \/ err # {}) ~> pc[Primary] = "joined"

(* No vCPU is asked to exit when its owner has destroyed it: `This closes both
   the stale-value and load-versus-destroy races on early secondary-thread
   exits' (secondary_vcpu.rs:158).                                         *)
HandlesLive == kicked \ {Primary} \subseteq alive
=============================================================================
