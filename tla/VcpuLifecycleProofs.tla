------------------------- MODULE VcpuLifecycleProofs -------------------------
(***************************************************************************)
(* Proofs about VcpuLifecycle for any number of secondaries, of CPU_ON     *)
(* calls and of generations: who runs was started as asked, no handle is   *)
(* used after its vCPU is gone, and the machine ends for the right reason. *)
(***************************************************************************)
EXTENDS VcpuLifecycle, TLAPS

(* A secondary that says On has been started at the entry point stored last,
   for CPU_ON stores one only while the state is Off; one that is on its way to
   start has read that entry point.                                        *)
InLoop == {"top", "run", "guest", "notify", "report"}
StartOK ==
  \A s \in Secondaries :
    /\ pc[s] \in InLoop => state[s] = "On"
    /\ pc[s] \in {"create", "publish", "start"} =>
         state[s] = "OnPending" /\ loaded[s] = entry[s]
    /\ pc[s] = "owner" => state[s] # "On"
    /\ state[s] = "On" => booted[s] = entry[s]

(* The handle is published while the owner goes round its loops, and is
   withdrawn, under its mutex, before the vCPU is destroyed.               *)
HandleOK ==
  /\ held \subseteq handle
  /\ \A s \in Secondaries :
       /\ pc[s] \in {"publish", "start", "withdraw", "destroy"} \cup InLoop => s \in alive
       /\ pc[s] = "owner" /\ s \in alive => s \in handle
       /\ pc[s] \in InLoop => s \in handle
       /\ pc[s] = "destroy" => s \notin handle

(* The signal holds the first request, vCPU 0 stops for that one, and when it
   has joined all owners nobody is left to fail.                           *)
StopOK ==
  /\ terminal = first
  /\ stop \in Terminal => stop = first
  /\ pc[Primary] = "joined" =>
       /\ \A s \in Secondaries : pc[s] = "ended"
       /\ err # {} => stop = "failed"

LifeInv == TypeOK /\ StartOK /\ HandleOK /\ StopOK

-----------------------------------------------------------------------------
(* Who moves *)

(* vCPU 0 is none of the secondaries. *)
LEMMA Numbers ==
  /\ Primary \in Vcpu
  /\ \A s \in Secondaries : s \in Vcpu /\ s # Primary
  /\ \A v \in Vcpu : v = Primary \/ v \in Secondaries
BY Bounds DEF Primary, Secondaries, Vcpu

(* A thread that goes from one place to another. *)
LEMMA Moves ==
  ASSUME PlacesOK, NEW v \in Vcpu, NEW place, To(v, place)
  PROVE  pc'[v] = place /\ \A u \in Vcpu : u # v => pc'[u] = pc[u]
BY DEF PlacesOK, To

(* All that a secondary's thread, or a guest on it, may do. *)
ByThread(s) ==
  \/ OwnerStep(s) \/ Exit(s) \/ Fail(s) \/ CpuOff(s)
  \/ (\E t \in Secondaries : CpuOn(s, t))
  \/ (\E f \in Terminal : RequestTerminal(s, f))

(* All that vCPU 0 may do within a generation. *)
ByPrimary == PrimaryStep \/ ExitPrimary \/ FailPrimary

(* A step is one thread's, a kick of the bridge or the next generation. *)
LEMMA Steps ==
  ASSUME [Next]_vars
  PROVE  \/ \E s \in Secondaries : ByThread(s)
         \/ \E s \in Secondaries, c \in Vcpu : GicKick(c, s)
         \/ ByPrimary \/ Reboot
         \/ UNCHANGED vars
BY DEF Next, ByThread, ByPrimary

(* A secondary's thread goes to places of its own kind. *)
LEMMA ThreadMoves ==
  ASSUME NEW s \in Secondaries, ByThread(s)
  PROVE  pc' = pc \/ \E place \in SecondaryPlaces : To(s, place)
<1>1. s # Primary
  BY Numbers
<1>2. ASSUME NEW t \in Secondaries, CpuOn(s, t)
      PROVE  \E place \in SecondaryPlaces : To(s, place)
  BY <1>1, <1>2 DEF CpuOn, Again, SecondaryPlaces
<1>3. ASSUME Notify(s)
      PROVE  \E place \in SecondaryPlaces : To(s, place)
  BY <1>1, <1>3 DEF Notify, Again, SecondaryPlaces
<1>4. ASSUME Look(s)
      PROVE  pc' = pc \/ \E place \in SecondaryPlaces : To(s, place)
  BY <1>4 DEF Look, SecondaryPlaces
<1>5. ASSUME Top(s) \/ Run(s) \/ Leave(s)
      PROVE  \E place \in SecondaryPlaces : To(s, place)
  BY <1>5 DEF Top, Run, Leave, SecondaryPlaces
<1> QED
  BY <1>2, <1>3, <1>4, <1>5
  DEF ByThread, OwnerStep, Create, Publish, Start, Canceled, Report, Withdraw,
      Destroy, Exit, Fail, CpuOff, RequestTerminal, SecondaryPlaces

(* And so does vCPU 0. *)
LEMMA PrimaryMoves ==
  ASSUME ByPrimary
  PROVE  pc' = pc \/ \E place \in PrimaryPlaces : To(Primary, place)
<1>1. ASSUME NEW t \in Secondaries, CpuOnPrimary(t)
      PROVE  \E place \in PrimaryPlaces : To(Primary, place)
  BY <1>1 DEF CpuOnPrimary, CpuOn, Again, PrimaryPlaces
<1>2. ASSUME CheckBefore \/ CheckAfter \/ CheckTerminal \/ RunPrimary \/ Notify(Primary)
      PROVE  \E place \in PrimaryPlaces : To(Primary, place)
  BY <1>2 DEF CheckBefore, CheckAfter, CheckTerminal, RunPrimary, Notify, Stop, Again,
     PrimaryPlaces
<1>3. ASSUME StopPrimary \/ FailPrimary
      PROVE  \E place \in PrimaryPlaces : To(Primary, place)
  BY <1>3 DEF StopPrimary, FailPrimary, Stop, PrimaryPlaces
<1> QED
  BY <1>1, <1>2, <1>3
  DEF ByPrimary, PrimaryStep, CancelPrimary, ExitPrimary, Loop, Hold, Request,
      Requested, Shutdown, NotifyShutdown, Notified, Join, PrimaryPlaces

(* Every step leaves each thread where it may be. *)
LEMMA PlacesStep ==
  ASSUME PlacesOK, [Next]_vars
  PROVE  PlacesOK'
<1>1. ASSUME NEW s \in Secondaries, NEW place \in SecondaryPlaces, To(s, place)
      PROVE  PlacesOK'
  BY <1>1, Numbers DEF PlacesOK, To
<1>2. ASSUME NEW place \in PrimaryPlaces, To(Primary, place)
      PROVE  PlacesOK'
  BY <1>2, Numbers DEF PlacesOK, To
<1>3. CASE pc' = pc
  BY <1>3 DEF PlacesOK
<1>4. CASE Reboot
  BY <1>4, Numbers DEF PlacesOK, Reboot, PrimaryPlaces, SecondaryPlaces
<1> QED
  BY <1>1, <1>2, <1>3, <1>4, Steps, ThreadMoves, PrimaryMoves DEF GicKick, vars

(* And keeps the values of the variables what they may be. *)
LEMMA ValuesStep ==
  ASSUME PlacesOK, ValuesOK, HandlesOK, [Next]_vars
  PROVE  ValuesOK'
<1>1. ASSUME NEW s \in Secondaries, Look(s)
      PROVE  ValuesOK'
  BY <1>1 DEF ValuesOK, Look, handles, signals, primary
<1>2. ASSUME NEW s \in Secondaries,
             Create(s) \/ Publish(s) \/ Start(s) \/ Top(s) \/ Leave(s) \/ Withdraw(s)
      PROVE  ValuesOK'
  BY <1>2 DEF ValuesOK, Create, Publish, Start, Top, Leave, Withdraw,
     psci, handles, signals, owners, primary
<1>3. ASSUME NEW s \in Secondaries,
             Run(s) \/ Canceled(s) \/ Report(s) \/ Destroy(s) \/ Exit(s) \/ Fail(s) \/ CpuOff(s)
      PROVE  ValuesOK'
  BY <1>3, Numbers DEF ValuesOK, Run, Canceled, Report, Destroy, Exit, Fail, CpuOff,
     psci, handles, signals, owners, primary
<1>4. ASSUME NEW v \in Vcpu, Notify(v)
      PROVE  ValuesOK'
  BY <1>4 DEF ValuesOK, Notify, handles, signals, primary
<1>5. ASSUME NEW v \in Vcpu, NEW t \in Secondaries, CpuOn(v, t)
      PROVE  ValuesOK'
  <2>1. starts + 1 \in Nat
    BY DEF ValuesOK
  <2>2. state' \in [Secondaries -> {"Off", "OnPending", "On"}]
        /\ entry' \in [Secondaries -> Nat] /\ starts' \in Nat
    BY <1>5, <2>1 DEF ValuesOK, CpuOn
  <2>3. target' \in [Vcpu -> Secondaries \cup {None}]
    BY <1>5 DEF ValuesOK, CpuOn
  <2> QED
    BY <1>5, <2>2, <2>3 DEF ValuesOK, CpuOn, handles, signals, primary
<1>6. ASSUME NEW s \in Secondaries, NEW f \in Terminal, RequestTerminal(s, f)
      PROVE  ValuesOK'
  BY <1>6 DEF ValuesOK, RequestTerminal, psci, handles, signals, owners, primary
<1>7. ASSUME NEW c \in Vcpu, NEW s \in Secondaries, GicKick(c, s)
      PROVE  ValuesOK'
  BY <1>7, Numbers DEF ValuesOK, GicKick, psci, handles, signals, owners, primary
<1>8. ASSUME CheckBefore \/ CheckAfter \/ CheckTerminal \/ FailPrimary \/ StopPrimary \/ Join
      PROVE  ValuesOK'
  BY <1>8 DEF ValuesOK, CheckBefore, CheckAfter, CheckTerminal, FailPrimary, StopPrimary,
     Join, Stop, psci, handles, signals, owners
<1>9. ASSUME RunPrimary \/ CancelPrimary \/ Loop
      PROVE  ValuesOK'
  BY <1>9 DEF ValuesOK, RunPrimary, CancelPrimary, Loop, psci, handles, signals, owners, primary
<1>10. ASSUME ExitPrimary
       PROVE  ValuesOK'
  <2>1. target' \in [Vcpu -> Secondaries \cup {None}]
    BY <1>10 DEF ValuesOK, ExitPrimary
  <2> QED
    BY <1>10, <2>1 DEF ValuesOK, ExitPrimary, psci, handles, signals, primary
<1>11. ASSUME NEW s \in Secondaries, Hold(s) \/ Request(s) \/ NotifyShutdown(s)
       PROVE  ValuesOK'
  <2>1. next' \in 1 .. N + 1
    BY <1>11, Bounds DEF ValuesOK, Hold, Request, NotifyShutdown, Secondaries, primary
  <2> QED
    BY <1>11, <2>1, Numbers DEF ValuesOK, Hold, Request, NotifyShutdown,
       psci, handles, signals, owners, primary
<1>12. ASSUME Requested \/ Shutdown \/ Notified
       PROVE  ValuesOK'
  <2>1. next' \in 1 .. N + 1
    BY <1>12, Bounds DEF Requested, Shutdown, Notified
  <2>2. shutdown' \in BOOLEAN
    BY <1>12 DEF ValuesOK, Requested, Shutdown, Notified, signals
  <2> QED
    BY <1>12, <2>1, <2>2 DEF ValuesOK, Requested, Shutdown, Notified,
       psci, handles, signals, owners
<1>13. ASSUME Reboot
       PROVE  ValuesOK'
  <2>1. state' \in [Secondaries -> {"Off", "OnPending", "On"}]
        /\ entry' \in [Secondaries -> Nat] /\ loaded' \in [Secondaries -> Nat]
        /\ booted' \in [Secondaries -> Nat] /\ target' \in [Vcpu -> Secondaries \cup {None}]
    BY <1>13 DEF Reboot
  <2>2. shutdown' \in BOOLEAN
    BY <1>13 DEF Reboot
  <2> QED
    BY <1>13, <2>1, <2>2 DEF ValuesOK, Reboot, handles
<1>14. CASE UNCHANGED vars
  BY <1>14 DEF ValuesOK, vars, psci, handles, signals, owners, primary
<1>15. ASSUME NEW s \in Secondaries, ByThread(s)
       PROVE  ValuesOK'
  <2>1. s \in Vcpu
    BY Numbers
  <2>2. CASE OwnerStep(s)
    BY <1>1, <1>2, <1>3, <1>4, <2>1, <2>2 DEF OwnerStep
  <2> QED
    BY <1>3, <1>5, <1>6, <1>15, <2>1, <2>2 DEF ByThread
<1>16. ASSUME ByPrimary
       PROVE  ValuesOK'
  BY <1>4, <1>5, <1>8, <1>9, <1>10, <1>11, <1>12, <1>16, Numbers
  DEF ByPrimary, PrimaryStep, CpuOnPrimary
<1> QED
  BY <1>7, <1>13, <1>14, <1>15, <1>16, Steps

-----------------------------------------------------------------------------
(* Who runs was started as asked *)

(* An owner that looks does not find On: it ends, waits, or takes the entry
   point to start from.                                                    *)
LEMMA LookFinds ==
  ASSUME TypeOK, StartOK, NEW s \in Secondaries, Look(s)
  PROVE  /\ pc[s] = "owner"
         /\ state' = state /\ entry' = entry /\ booted' = booted
         /\ UNCHANGED handles /\ UNCHANGED signals /\ UNCHANGED primary
         /\ \/ (pc' = pc \/ To(s, "leave")) /\ loaded' = loaded
            \/ /\ state[s] = "OnPending"
               /\ loaded' = [loaded EXCEPT ![s] = entry[s]]
               /\ \/ s \in alive /\ To(s, "start")
                  \/ s \notin alive /\ To(s, "create")
<1>1. pc[s] = "owner" /\ state[s] \in {"Off", "OnPending"}
  BY DEF Look, StartOK, TypeOK, ValuesOK
<1>2. CASE shutdown
  BY <1>1, <1>2 DEF Look
<1>3. CASE ~shutdown /\ state[s] = "Off"
  BY <1>1, <1>3 DEF Look
<1>4. CASE ~shutdown /\ state[s] = "OnPending"
  <2>1. CASE s \in alive
    BY <1>1, <1>4, <2>1 DEF Look
  <2>2. CASE s \notin alive
    BY <1>1, <1>4, <2>2 DEF Look
  <2> QED
    BY <2>1, <2>2
<1> QED
  BY <1>1, <1>2, <1>3, <1>4

(* CPU_ON moves only its caller, who was in the guest, and stores an entry point
   only for a secondary that is off.                                       *)
LEMMA CpuOnChanges ==
  ASSUME TypeOK, NEW c \in Vcpu, NEW t \in Secondaries, CpuOn(c, t)
  PROVE  /\ pc[c] = Handling(c)
         /\ To(c, "notify") \/ To(c, Again(c))
         /\ UNCHANGED <<loaded, booted>> /\ UNCHANGED handles /\ UNCHANGED signals
         /\ UNCHANGED primary
         /\ \A s \in Secondaries :
              \/ state'[s] = state[s] /\ entry'[s] = entry[s]
              \/ state[s] = "Off" /\ state'[s] = "OnPending"
<1>1. CASE state[t] = "Off"
  BY <1>1 DEF CpuOn, TypeOK, ValuesOK
<1>2. CASE state[t] # "Off"
  BY <1>2 DEF CpuOn
<1> QED
  BY <1>1, <1>2 DEF CpuOn

(* A thread that goes on, where it came from being no worse, while no secondary
   is turned on, off or started.                                           *)
LEMMA StartKept ==
  ASSUME PlacesOK, StartOK, NEW v \in Vcpu, NEW place, To(v, place),
         UNCHANGED <<state, entry, loaded, booted>>,
         v # Primary => /\ place \in InLoop => pc[v] \in InLoop
                        /\ place \in {"create", "publish", "start"} =>
                             pc[v] \in {"create", "publish", "start"}
                        /\ place # "owner"
  PROVE  StartOK'
<1> SUFFICES ASSUME NEW s \in Secondaries
             PROVE  /\ pc'[s] \in InLoop => state[s] = "On"
                    /\ pc'[s] \in {"create", "publish", "start"} =>
                         state[s] = "OnPending" /\ loaded[s] = entry[s]
                    /\ pc'[s] = "owner" => state[s] # "On"
                    /\ state[s] = "On" => booted[s] = entry[s]
  BY DEF StartOK, InLoop
<1>1. CASE s = v
  BY <1>1, Moves, Numbers DEF StartOK
<1>2. CASE s # v
  BY <1>2, Moves, Numbers DEF StartOK
<1> QED
  BY <1>1, <1>2

(* Every step keeps it so. *)
LEMMA StartStep ==
  ASSUME TypeOK, StartOK, [Next]_vars
  PROVE  StartOK'
<1>1. ASSUME NEW s \in Secondaries, Look(s)
      PROVE  StartOK'
  <2>1. CASE (pc' = pc \/ To(s, "leave")) /\ loaded' = loaded
    BY <1>1, <2>1, LookFinds, StartKept, Numbers DEF StartOK, InLoop, TypeOK
  <2>2. ASSUME NEW place \in {"create", "start"}, To(s, place), state[s] = "OnPending",
               loaded' = [loaded EXCEPT ![s] = entry[s]]
        PROVE  StartOK'
    BY <1>1, <2>2, LookFinds, Moves, Numbers DEF StartOK, InLoop, TypeOK, ValuesOK
  <2> QED
    BY <1>1, <2>1, <2>2, LookFinds
<1>2. ASSUME NEW s \in Secondaries, Start(s)
      PROVE  StartOK'
  BY <1>2, Moves, Numbers DEF Start, StartOK, InLoop, TypeOK, ValuesOK
<1>3. ASSUME NEW s \in Secondaries, CpuOff(s)
      PROVE  StartOK'
  BY <1>3, Moves, Numbers DEF CpuOff, StartOK, InLoop, TypeOK, ValuesOK, owners
<1>4. ASSUME NEW v \in Vcpu, NEW t \in Secondaries, CpuOn(v, t)
      PROVE  StartOK'
  <2>1. ASSUME NEW s \in Secondaries
        PROVE  \/ pc'[s] = pc[s]
               \/ pc[s] = "guest" /\ pc'[s] \in {"notify", "top"}
    <3>1. CASE s = v
      BY <1>4, <3>1, CpuOnChanges, Moves, Numbers DEF TypeOK, Handling, Again
    <3>2. CASE s # v
      BY <1>4, <3>2, Numbers DEF CpuOn, To, TypeOK, PlacesOK
    <3> QED
      BY <3>1, <3>2
  <2> QED
    BY <1>4, <2>1, CpuOnChanges DEF StartOK, InLoop
<1>5. ASSUME NEW s \in Secondaries,
             Create(s) \/ Publish(s) \/ Leave(s) \/ Withdraw(s) \/ Destroy(s)
      PROVE  StartOK'
  BY <1>5, StartKept, Numbers DEF Create, Publish, Leave, Withdraw, Destroy, InLoop, TypeOK,
     psci, owners
<1>6. ASSUME NEW s \in Secondaries,
             \/ Top(s) \/ Run(s) \/ Canceled(s) \/ Notify(s) \/ Report(s) \/ Exit(s) \/ Fail(s)
             \/ (\E f \in Terminal : RequestTerminal(s, f))
      PROVE  StartOK'
  BY <1>6, StartKept, Numbers DEF Top, Run, Canceled, Notify, Again, Report, Exit, Fail,
     RequestTerminal, InLoop, TypeOK, psci, owners
<1>7. ASSUME NEW s \in Secondaries, ByThread(s)
      PROVE  StartOK'
  BY <1>1, <1>2, <1>3, <1>4, <1>5, <1>6, <1>7, Numbers DEF ByThread, OwnerStep
<1>8. ASSUME ByPrimary
      PROVE  StartOK'
  <2>1. CASE \E t \in Secondaries : CpuOnPrimary(t)
    BY <1>4, <2>1, Numbers DEF CpuOnPrimary
  <2>2. CASE ~\E t \in Secondaries : CpuOnPrimary(t)
    <3>1. UNCHANGED <<state, entry, loaded, booted>>
      BY <1>8, <2>2 DEF ByPrimary, PrimaryStep, CheckBefore, RunPrimary, CancelPrimary,
         CheckAfter, CheckTerminal, Notify, Loop, StopPrimary, Hold, Request, NotifyShutdown,
         Requested, Shutdown, Notified, Join, ExitPrimary, FailPrimary, psci, owners
    <3> QED
      BY <1>8, <3>1, PrimaryMoves, StartKept, Numbers DEF StartOK, TypeOK
  <2> QED
    BY <2>1, <2>2
<1>9. CASE Reboot
  BY <1>9, Numbers DEF Reboot, StartOK, InLoop
<1>10. CASE \E s \in Secondaries, c \in Vcpu : GicKick(c, s)
  BY <1>10 DEF GicKick, StartOK, InLoop, psci, owners
<1>11. CASE UNCHANGED vars
  BY <1>11 DEF vars, StartOK, InLoop, psci, owners
<1> QED
  BY <1>7, <1>8, <1>9, <1>10, <1>11, Steps

-----------------------------------------------------------------------------
(* The handles *)

(* A thread that goes on while no vCPU is created or destroyed and no handle
   published, taken or withdrawn.                                          *)
LEMMA HandlesKept ==
  ASSUME PlacesOK, HandlesOK, HandleOK, NEW v \in Vcpu, NEW place, To(v, place),
         UNCHANGED handles,
         v # Primary =>
           \/ place \in InLoop /\ pc[v] \in InLoop
           \/ place \in {"leave", "owner"} /\ pc[v] \in InLoop \cup {"owner"}
           \/ place = "create" /\ v \notin alive
           \/ place \in {"start", "top"} /\ v \in handle
           \/ place = "withdraw" /\ v \in alive
           \/ place = "ended" /\ v \notin alive
  PROVE  HandlesOK' /\ HandleOK'
<1>1. \A s \in Secondaries : s # v => pc'[s] = pc[s]
  BY Moves, Numbers
<1>2. v \in Secondaries => pc'[v] = place
  BY Moves
<1>3. UNCHANGED <<handle, held, alive, registered>>
  BY DEF handles
<1> QED
  BY <1>1, <1>2, <1>3, Numbers DEF HandlesOK, HandleOK, InLoop

(* Every step keeps the handles right: only the owner withdraws its own, when
   vCPU 0 does not hold it, and after a join nobody is left to have one.   *)
LEMMA HandleStep ==
  ASSUME TypeOK, StartOK, HandleOK, StopOK, [Next]_vars
  PROVE  HandlesOK' /\ HandleOK'
<1>1. ASSUME NEW s \in Secondaries, Look(s)
      PROVE  HandlesOK' /\ HandleOK'
  <2>1. CASE pc' = pc
    BY <1>1, <2>1, LookFinds DEF HandlesOK, HandleOK, InLoop, TypeOK, handles
  <2>2. CASE To(s, "leave") \/ (s \in alive /\ To(s, "start")) \/ (s \notin alive /\ To(s, "create"))
    BY <1>1, <2>2, LookFinds, HandlesKept, Numbers DEF HandleOK, TypeOK
  <2> QED
    BY <1>1, <2>1, <2>2, LookFinds
<1>2. ASSUME NEW s \in Secondaries, Create(s) \/ Publish(s)
      PROVE  HandlesOK' /\ HandleOK'
  BY <1>2, Moves, Numbers DEF Create, Publish, HandlesOK, HandleOK, InLoop, TypeOK, ValuesOK
<1>3. ASSUME NEW s \in Secondaries, Withdraw(s) \/ Destroy(s)
      PROVE  HandlesOK' /\ HandleOK'
  BY <1>3, Moves, Numbers DEF Withdraw, Destroy, HandlesOK, HandleOK, InLoop, TypeOK, ValuesOK
<1>4. ASSUME NEW v \in Vcpu, NEW t \in Secondaries, CpuOn(v, t)
      PROVE  HandlesOK' /\ HandleOK'
  BY <1>4, CpuOnChanges, HandlesKept DEF TypeOK, Handling, Again, InLoop
<1>5. ASSUME NEW s \in Secondaries,
             \/ Start(s) \/ Leave(s) \/ CpuOff(s)
             \/ Top(s) \/ Run(s) \/ Canceled(s) \/ Notify(s) \/ Report(s) \/ Exit(s) \/ Fail(s)
             \/ (\E f \in Terminal : RequestTerminal(s, f))
      PROVE  HandlesOK' /\ HandleOK'
  BY <1>5, HandlesKept, Numbers DEF Start, Leave, CpuOff, Top, Run, Canceled, Notify, Again,
     Report, Exit, Fail, RequestTerminal, InLoop, TypeOK, HandlesOK, HandleOK
<1>6. ASSUME NEW s \in Secondaries, ByThread(s)
      PROVE  HandlesOK' /\ HandleOK'
  BY <1>1, <1>2, <1>3, <1>4, <1>5, <1>6, Numbers DEF ByThread, OwnerStep
<1>7. ASSUME NEW s \in Secondaries, Hold(s) \/ Request(s)
      PROVE  HandlesOK' /\ HandleOK'
  BY <1>7 DEF Hold, Request, HandlesOK, HandleOK, InLoop, TypeOK, ValuesOK
<1>8. ASSUME ByPrimary
      PROVE  HandlesOK' /\ HandleOK'
  <2>1. CASE \E t \in Secondaries : CpuOnPrimary(t)
    BY <1>4, <2>1, Numbers DEF CpuOnPrimary
  <2>2. CASE \E s \in Secondaries : Hold(s) \/ Request(s)
    BY <1>7, <2>2
  <2>3. CASE ~(\E s \in Secondaries : CpuOnPrimary(s) \/ Hold(s) \/ Request(s))
    <3>1. UNCHANGED handles
      BY <1>8, <2>3 DEF ByPrimary, PrimaryStep, CheckBefore, RunPrimary, CancelPrimary,
         CheckAfter, CheckTerminal, Notify, Loop, StopPrimary, NotifyShutdown,
         Requested, Shutdown, Notified, Join, ExitPrimary, FailPrimary
    <3>2. CASE pc' = pc
      BY <3>1, <3>2 DEF handles, HandlesOK, HandleOK, InLoop, TypeOK
    <3> QED
      BY <1>8, <3>1, <3>2, PrimaryMoves, HandlesKept, Numbers DEF TypeOK
  <2> QED
    BY <2>1, <2>2, <2>3
<1>9. CASE Reboot
  <2>1. alive = {} /\ handle = {} /\ held = {}
    BY <1>9 DEF Reboot, StopOK, HandlesOK, HandleOK, TypeOK
  <2> QED
    BY <1>9, <2>1, Numbers DEF Reboot, HandlesOK, HandleOK, InLoop, TypeOK, handles
<1>10. CASE \E s \in Secondaries, c \in Vcpu : GicKick(c, s)
  BY <1>10 DEF GicKick, HandlesOK, HandleOK, InLoop, TypeOK, handles
<1>11. CASE UNCHANGED vars
  BY <1>11 DEF vars, HandlesOK, HandleOK, InLoop, TypeOK, handles
<1> QED
  BY <1>6, <1>8, <1>9, <1>10, <1>11, Steps

-----------------------------------------------------------------------------
(* The end *)

(* A step that requests nothing, fails nobody and decides nothing, while vCPU 0
   has not joined yet, or nobody moves.                                    *)
LEMMA StopKept ==
  ASSUME StopOK, UNCHANGED <<terminal, first, stop>>,
         pc'[Primary] = "joined" =>
           /\ pc[Primary] = "joined" /\ UNCHANGED err
           /\ \A s \in Secondaries : pc[s] = "ended" => pc'[s] = "ended"
  PROVE  StopOK'
BY DEF StopOK

(* Every step keeps the reasons: the first request is kept, and who could still
   fail has not ended, so that vCPU 0 has not joined.                      *)
LEMMA StopStep ==
  ASSUME TypeOK, StopOK, [Next]_vars
  PROVE  StopOK'
<1>1. ASSUME NEW s \in Secondaries, ByThread(s), pc[s] = "ended"
      PROVE  FALSE
  BY <1>1, Numbers DEF ByThread, OwnerStep, Look, Create, Publish, Start, Top, Run, Canceled,
     Notify, Report, Leave, Withdraw, Destroy, Exit, Fail, CpuOff, CpuOn, Handling,
     RequestTerminal
<1>2. ASSUME NEW s \in Secondaries, ByThread(s)
      PROVE  StopOK'
  <2>1. pc[Primary] # "joined"
    BY <1>1, <1>2 DEF StopOK
  <2>2. pc'[Primary] = pc[Primary]
    BY <1>2, ThreadMoves, Moves, Numbers DEF TypeOK
  <2>3. CASE \E f \in Terminal : RequestTerminal(s, f)
    BY <2>1, <2>2, <2>3, NoRequest DEF RequestTerminal, StopOK, TypeOK, ValuesOK, Terminal, primary
  <2>4. CASE ~\E f \in Terminal : RequestTerminal(s, f)
    <3>1. UNCHANGED <<terminal, first, stop>>
      BY <1>2, <2>4 DEF ByThread, OwnerStep, Look, Create, Publish, Start, Top, Run, Canceled,
         Notify, Report, Leave, Withdraw, Destroy, Exit, Fail, CpuOff, CpuOn, signals, primary
    <3> QED
      BY <2>1, <2>2, <3>1, StopKept
  <2> QED
    BY <2>3, <2>4
<1>3. ASSUME CheckBefore \/ CheckAfter \/ CheckTerminal \/ FailPrimary \/ StopPrimary
      PROVE  StopOK'
  <2>1. UNCHANGED <<terminal, first>> /\ (stop' \in Terminal => stop' = stop \/ stop' = terminal)
    BY <1>3 DEF CheckBefore, CheckAfter, CheckTerminal, FailPrimary, StopPrimary, Stop,
       Terminal, signals
  <2>2. pc'[Primary] # "joined"
    BY <1>3, Moves, Numbers DEF CheckBefore, CheckAfter, CheckTerminal, FailPrimary,
       StopPrimary, Stop, TypeOK
  <2> QED
    BY <2>1, <2>2 DEF StopOK
<1>4. CASE Join
  <2>1. pc'[Primary] = "joined" /\ \A s \in Secondaries : pc'[s] = "ended"
    BY <1>4, Moves, Numbers DEF Join, TypeOK
  <2> QED
    BY <1>4, <2>1 DEF Join, StopOK, Terminal, signals
<1>5. ASSUME ByPrimary
      PROVE  StopOK'
  <2>1. CASE \/ CheckBefore \/ CheckAfter \/ CheckTerminal \/ FailPrimary \/ StopPrimary \/ Join
    BY <1>3, <1>4, <2>1
  <2>2. CASE ~(CheckBefore \/ CheckAfter \/ CheckTerminal \/ FailPrimary \/ StopPrimary \/ Join)
    <3>1. UNCHANGED <<terminal, first, stop>>
      BY <1>5, <2>2 DEF ByPrimary, PrimaryStep, CpuOnPrimary, CpuOn, RunPrimary, CancelPrimary,
         Notify, Loop, Hold, Request, NotifyShutdown, Requested, Shutdown, Notified,
         ExitPrimary, signals, primary
    <3>2. pc'[Primary] # "joined"
      BY <1>5, <2>2, Moves, Numbers DEF ByPrimary, PrimaryStep, CpuOnPrimary, CpuOn, Again,
         Handling, RunPrimary, CancelPrimary, Notify, Loop, Handled, Hold, Request,
         NotifyShutdown, Requested, Shutdown, Notified, ExitPrimary, TypeOK
    <3> QED
      BY <3>1, <3>2, StopKept
  <2> QED
    BY <2>1, <2>2
<1>6. CASE Reboot
  BY <1>6, NoRequest, Numbers DEF Reboot, StopOK, Terminal
<1>7. CASE \E s \in Secondaries, c \in Vcpu : GicKick(c, s)
  BY <1>7 DEF GicKick, StopOK, signals, primary
<1>8. CASE UNCHANGED vars
  BY <1>8 DEF vars, StopOK, signals, primary
<1> QED
  BY <1>2, <1>5, <1>6, <1>7, <1>8, Steps

-----------------------------------------------------------------------------
(* Theorems *)

(* The invariant holds at the start. *)
LEMMA InitLife == Init => LifeInv
<1> SUFFICES ASSUME Init PROVE LifeInv
  OBVIOUS
<1>1. PlacesOK
  BY Numbers DEF Init, PlacesOK, PrimaryPlaces, SecondaryPlaces
<1>2. ValuesOK
  <2>1. shutdown \in BOOLEAN
    BY DEF Init
  <2>2. next \in 1 .. N + 1
    BY Bounds DEF Init
  <2> QED
    BY <2>1, <2>2 DEF Init, ValuesOK
<1>3. HandlesOK /\ StartOK /\ HandleOK /\ StopOK
  BY Numbers, NoRequest DEF Init, HandlesOK, StartOK, HandleOK, StopOK, InLoop, Terminal
<1> QED
  BY <1>1, <1>2, <1>3 DEF LifeInv, TypeOK

(* Every step keeps it. *)
LEMMA LifeStep == LifeInv /\ [Next]_vars => LifeInv'
BY PlacesStep, ValuesStep, HandleStep, StartStep, StopStep DEF LifeInv, TypeOK

(* What psci_adapter, secondary_vcpu and vcpu_coordination maintain together,
   for any number of vCPUs, CPU_ON calls and generations.                  *)
THEOREM LifecycleInvariant == Spec => []LifeInv
BY InitLife, LifeStep, PTL DEF Spec

(* A vCPU exists exactly while its owner's place says so, and whoever is in its
   run loop has a published handle, through resets too.                    *)
THEOREM LifecycleTypes == Spec => []TypeOK
BY LifecycleInvariant, PTL DEF LifeInv

(* A secondary runs from the entry point of the CPU_ON that was answered SUCCESS,
   although the state mutex is dropped between reading that entry point and
   saying On.                                                              *)
THEOREM RunsAsAsked == Spec => []StartsAsAsked
<1>1. LifeInv => StartsAsAsked
  BY DEF LifeInv, StartOK, StartsAsAsked, InLoop
<1> QED
  BY <1>1, LifecycleInvariant, PTL

(* A vCPU that is asked to exit is not destroyed meanwhile: the owner takes its
   handle back under the mutex vCPU 0 holds across hv_vcpus_exit.          *)
THEOREM BarrierAlwaysHolds == Spec => []BarrierHolds
<1>1. LifeInv => BarrierHolds
  BY DEF LifeInv, HandleOK, TypeOK, HandlesOK, BarrierHolds
<1> QED
  BY <1>1, LifecycleInvariant, PTL

(* What the machine ends with is what was asked for first, and never well if a
   secondary failed: shutdown_and_join looks for an error once more.       *)
THEOREM VerdictStands == Spec => []Verdict
<1>1. LifeInv => Verdict
  BY DEF LifeInv, StopOK, Verdict
<1> QED
  BY <1>1, LifecycleInvariant, PTL
=============================================================================
