--------------------------- MODULE PauseGateProofs ---------------------------
(***************************************************************************)
(* Proofs about PauseGate for any number of secondaries, pauses and ticks: *)
(* the counters count, nobody runs while the guest is paused, and every    *)
(* vCPU's guest counter is the time the guest was not paused.              *)
(***************************************************************************)
EXTENDS PauseGate, FiniteSetTheorems, TLAPS

(* The request stands from the start of a pause to its end; while the guest is
   frozen no secondary is past its look at it.                             *)
Requesting == pc[Primary] \in {"kick", "look", "paused", "bump", "release"}
FrozenOK ==
  /\ Requesting => requested = TRUE
  /\ Frozen => \A s \in Secondaries : pc[s] \in {"off", "top", "gate", "parked"}

(* The offset is the time all pauses took, once the last is over. *)
ClockOK ==
  /\ pc[Primary] = "paused" =>
       paused_at \in Nat /\ paused_at = offset + ran /\ paused_at <= mach
  /\ pc[Primary] # "paused" => paused_at = NoTime /\ mach = offset + ran

(* A vCPU that has applied the current version has the current offset, but for
   the moment between the two stores of resume; who is to run has applied it. *)
VersionOK ==
  /\ \A v \in Vcpu : applied[v] <= version
  /\ version = 0 => \A v \in Vcpu : vt[v] = 0
  /\ version = 0 /\ pc[Primary] # "bump" => offset = 0
  /\ pc[Primary] # "bump" => \A v \in Vcpu : applied[v] = version => vt[v] = offset
  /\ \A v \in Vcpu : pc[v] = "set" => loaded[v] = version
  /\ \A v \in Vcpu : pc[v] \in {"run", "guest"} => applied[v] = version

GateInv == TypeOK /\ FrozenOK /\ ClockOK /\ VersionOK

-----------------------------------------------------------------------------
(* The counters *)

(* The threads at a place, one thread having moved there or away: what the two
   counters of the gate rest on.                                           *)
LEMMA CountIn ==
  ASSUME NEW S, IsFiniteSet(S), NEW x, x \notin S
  PROVE  Cardinality(S \cup {x}) = Cardinality(S) + 1
  BY FS_AddElement

(* A thread that leaves a counted place takes one off its counter. *)
LEMMA CountOut ==
  ASSUME NEW S, IsFiniteSet(S), NEW x \in S
  PROVE  Cardinality(S \ {x}) = Cardinality(S) - 1
  BY FS_RemoveElement

(* The sets that are counted are finite. *)
LEMMA Finite ==
  /\ IsFiniteSet(InLoop) /\ IsFiniteSet(Parked)
  /\ Cardinality(InLoop) \in Nat /\ Cardinality(Parked) \in Nat
<1>1. InLoop \subseteq Secondaries /\ Parked \subseteq Secondaries
  BY DEF InLoop, Parked
<1>2. IsFiniteSet(InLoop) /\ IsFiniteSet(Parked)
  BY <1>1, Threads, FS_Subset
<1> QED
  BY <1>2, FS_CardinalityType

(* As many parked as are in their loops: all of them are parked. *)
LEMMA AllParkedMeans ==
  ASSUME TypeOK, AllParked
  PROVE  \A s \in Secondaries : pc[s] \in {"off", "parked"}
<1>1. Parked \subseteq InLoop
  BY DEF Parked, InLoop
<1>2. Cardinality(Parked) <= Cardinality(InLoop)
  BY <1>1, Finite, FS_Subset
<1>3. Cardinality(Parked) = Cardinality(InLoop)
  BY <1>2, Finite DEF TypeOK, CountsOK, AllParked
<1>4. Parked = InLoop
  BY <1>1, <1>3, Finite, FS_Subset
<1> QED
  BY <1>4 DEF Parked, InLoop

(* A step that takes nobody from or to a counted place keeps the counts. *)
LEMMA SameCounts ==
  ASSUME CountsOK, in_loop' = in_loop, parked' = parked,
         \A s \in Secondaries : /\ pc'[s] = "off" <=> pc[s] = "off"
                                /\ pc'[s] = "parked" <=> pc[s] = "parked"
  PROVE  CountsOK'
<1>1. InLoop' = InLoop /\ Parked' = Parked
  BY DEF InLoop, Parked
<1> QED
  BY <1>1 DEF CountsOK

(* A thread that goes from one place to another. *)
LEMMA Moves ==
  ASSUME PlacesOK, NEW v \in Vcpu, NEW place, To(v, place)
  PROVE  /\ pc'[v] = place
         /\ \A u \in Vcpu : u # v => pc'[u] = pc[u]
         /\ DOMAIN pc' = Vcpu
         /\ \A s \in Secondaries : s \in Vcpu /\ s # Primary
         /\ Primary \in Vcpu
BY Threads DEF PlacesOK, To, Vcpu

(* A secondary that goes to a place of secondaries leaves all where they may be. *)
LEMMA SecondaryMoves ==
  ASSUME PlacesOK, NEW s \in Secondaries, NEW place \in SecondaryPlaces, To(s, place)
  PROVE  PlacesOK'
BY Threads DEF PlacesOK, To, Vcpu

(* So does vCPU 0 when it goes to one of its own. *)
LEMMA PrimaryMoves ==
  ASSUME PlacesOK, NEW place \in PrimaryPlaces, To(Primary, place)
  PROVE  PlacesOK'
BY Threads DEF PlacesOK, To, Vcpu

(* Only its own thread moves a secondary. *)
LEMMA OthersStay ==
  ASSUME PlacesOK, NEW s \in Secondaries,
         EnterLoop(s) \/ LeaveLoop(s) \/ SecondaryStep(s) \/ GuestExit(s)
  PROVE  \A u \in Vcpu : u # s => pc'[u] = pc[u]
<1>1. pc' = pc \/ \E place : To(s, place)
  BY DEF EnterLoop, LeaveLoop, SecondaryStep, GuestExit, Check, Gate, Woken, Run, Canceled
<1> QED
  BY <1>1, Moves DEF Vcpu

-----------------------------------------------------------------------------
(* Types *)

(* No step of before_run, take_offset, pause or resume takes a thread to a
   place that is not its kind's.                                           *)
LEMMA PlacesStep ==
  ASSUME PlacesOK, kicked \in SUBSET Secondaries, [Next]_vars
  PROVE  PlacesOK'
<1>1. ASSUME UNCHANGED pc
      PROVE  PlacesOK'
  BY <1>1 DEF PlacesOK
<1>2. ASSUME NEW s \in Secondaries,
             EnterLoop(s) \/ LeaveLoop(s) \/ SecondaryStep(s) \/ GuestExit(s)
      PROVE  PlacesOK'
  <2>1. CASE UNCHANGED pc
    BY <1>1, <2>1
  <2>2. CASE \E place \in SecondaryPlaces : To(s, place)
    BY <2>2, SecondaryMoves
  <2> QED
    BY <1>2, <2>1, <2>2
    DEF EnterLoop, LeaveLoop, SecondaryStep, GuestExit, Check, Gate, Woken, Run,
        Canceled, SecondaryPlaces
<1>3. ASSUME NEW v \in Vcpu, TakeStep(v)
      PROVE  PlacesOK'
  <2>1. \E place \in {"run", "set"} : To(v, place)
    BY <1>3 DEF TakeStep, TakeVersion, TakeOffset
  <2>2. v = Primary \/ v \in Secondaries
    BY DEF Vcpu
  <2> QED
    BY <2>1, <2>2, SecondaryMoves, PrimaryMoves DEF SecondaryPlaces, PrimaryPlaces
<1>4. CASE pc[Primary] = "run" /\ Run(Primary)
  <2>1. To(Primary, "guest")
    BY <1>4, Threads DEF Run
  <2> QED
    BY <2>1, PrimaryMoves DEF PrimaryPlaces
<1>5. CASE PrimaryExit \/ Pause \/ PauseStep \/ Expire \/ ResumeStep \/ Tick
  <2>1. CASE UNCHANGED pc
    BY <1>1, <2>1
  <2>2. CASE \E place \in PrimaryPlaces : To(Primary, place)
    BY <2>2, PrimaryMoves
  <2> QED
    BY <1>5, <2>1, <2>2
    DEF PrimaryExit, Pause, PauseStep, Kick, Kicked, Paused, Abandon, AwaitParked,
        Expire, ResumeStep, Resume, Bump, Release, Tick, PrimaryPlaces
<1>6. CASE UNCHANGED vars
  BY <1>1, <1>6 DEF vars
<1> QED
  BY <1>2, <1>3, <1>4, <1>5, <1>6 DEF Next

(* enter_run_loop, its drop and before_run keep in_loop and parked the numbers
   of secondaries in their loops and parked.                               *)
LEMMA CountsStep ==
  ASSUME TypeOK, [Next]_vars
  PROVE  CountsOK'
<1> USE DEF TypeOK, ValuesOK
<1> USE Threads
<1>1. ASSUME NEW s \in Secondaries, EnterLoop(s)
      PROVE  CountsOK'
  <2>1. pc[s] = "off" /\ To(s, "top") /\ s \in Vcpu
    BY <1>1 DEF EnterLoop, Vcpu
  <2>2. pc'[s] = "top" /\ \A t \in Vcpu : t # s => pc'[t] = pc[t]
    BY <2>1, Moves
  <2>3. InLoop' = InLoop \cup {s} /\ Parked' = Parked /\ s \notin InLoop
    BY ONLY <2>1, <2>2 DEF InLoop, Parked, Vcpu
  <2>4. Cardinality(InLoop \cup {s}) = Cardinality(InLoop) + 1
    BY ONLY <2>3, Finite, CountIn
  <2>5. in_loop' = in_loop + 1 /\ parked' = parked
    BY <1>1 DEF EnterLoop
  <2> QED
    BY ONLY CountsOK, <2>3, <2>4, <2>5 DEF CountsOK
<1>2. ASSUME NEW s \in Secondaries, LeaveLoop(s)
      PROVE  CountsOK'
  <2>1. pc[s] = "guest" /\ To(s, "off") /\ s \in Vcpu
    BY <1>2 DEF LeaveLoop, Vcpu
  <2>2. pc'[s] = "off" /\ \A t \in Vcpu : t # s => pc'[t] = pc[t]
    BY <2>1, Moves
  <2>3. InLoop' = InLoop \ {s} /\ Parked' = Parked /\ s \in InLoop
    BY ONLY <2>1, <2>2 DEF InLoop, Parked, Vcpu
  <2>4. Cardinality(InLoop \ {s}) = Cardinality(InLoop) - 1
    BY ONLY <2>3, Finite, CountOut
  <2>5. in_loop' = in_loop - 1 /\ parked' = parked
    BY <1>2 DEF LeaveLoop
  <2> QED
    BY ONLY CountsOK, <2>3, <2>4, <2>5 DEF CountsOK
<1>3. ASSUME NEW s \in Secondaries, Gate(s), requested
      PROVE  CountsOK'
  <2>1. pc[s] = "gate" /\ To(s, "parked") /\ s \in Vcpu
    BY <1>3 DEF Gate, Vcpu
  <2>2. pc'[s] = "parked" /\ \A t \in Vcpu : t # s => pc'[t] = pc[t]
    BY <2>1, Moves
  <2>3. InLoop' = InLoop /\ Parked' = Parked \cup {s} /\ s \notin Parked
    BY ONLY <2>1, <2>2 DEF InLoop, Parked, Vcpu
  <2>4. Cardinality(Parked \cup {s}) = Cardinality(Parked) + 1
    BY ONLY <2>3, Finite, CountIn
  <2>5. parked' = parked + 1 /\ in_loop' = in_loop
    BY <1>3 DEF Gate
  <2> QED
    BY ONLY CountsOK, <2>3, <2>4, <2>5 DEF CountsOK
<1>4. ASSUME NEW s \in Secondaries, Woken(s), ~requested
      PROVE  CountsOK'
  <2>1. pc[s] = "parked" /\ To(s, "take") /\ s \in Vcpu
    BY <1>4 DEF Woken, Vcpu
  <2>2. pc'[s] = "take" /\ \A t \in Vcpu : t # s => pc'[t] = pc[t]
    BY <2>1, Moves
  <2>3. InLoop' = InLoop /\ Parked' = Parked \ {s} /\ s \in Parked
    BY ONLY <2>1, <2>2 DEF InLoop, Parked, Vcpu
  <2>4. Cardinality(Parked \ {s}) = Cardinality(Parked) - 1
    BY ONLY <2>3, Finite, CountOut
  <2>5. parked' = parked - 1 /\ in_loop' = in_loop
    BY <1>4 DEF Woken
  <2> QED
    BY ONLY CountsOK, <2>3, <2>4, <2>5 DEF CountsOK
<1>5. ASSUME NEW s \in Secondaries,
             \/ Gate(s) /\ ~requested
             \/ Woken(s) /\ requested
             \/ Check(s) \/ Run(s) \/ Canceled(s) \/ GuestExit(s)
      PROVE  CountsOK'
  <2>1. in_loop' = in_loop /\ parked' = parked
    BY <1>5 DEF Gate, Woken, Check, Run, Canceled, GuestExit, gate
  <2>2. \/ UNCHANGED pc
        \/ /\ pc[s] \notin {"off", "parked"}
           /\ \E place : place \notin {"off", "parked"} /\ To(s, place)
    BY <1>5 DEF Gate, Woken, Check, Run, Canceled, GuestExit
  <2>3. \A t \in Secondaries : /\ pc'[t] = "off" <=> pc[t] = "off"
                               /\ pc'[t] = "parked" <=> pc[t] = "parked"
    BY <2>2, Moves DEF Vcpu
  <2> QED
    BY <2>1, <2>3, SameCounts
<1>6. ASSUME NEW v \in Vcpu, TakeStep(v)
      PROVE  CountsOK'
  <2>1. in_loop' = in_loop /\ parked' = parked
    BY <1>6 DEF TakeStep, TakeVersion, TakeOffset, gate
  <2>2. /\ pc[v] \notin {"off", "parked"}
        /\ \E place : place \notin {"off", "parked"} /\ To(v, place)
    BY <1>6 DEF TakeStep, TakeVersion, TakeOffset
  <2>3. \A t \in Secondaries : /\ pc'[t] = "off" <=> pc[t] = "off"
                               /\ pc'[t] = "parked" <=> pc[t] = "parked"
    BY <2>2, Moves DEF Vcpu
  <2> QED
    BY <2>1, <2>3, SameCounts
<1>7. CASE \/ pc[Primary] = "run" /\ Run(Primary)
           \/ PrimaryExit \/ Pause \/ PauseStep \/ Expire \/ ResumeStep \/ Tick
  <2>1. in_loop' = in_loop /\ parked' = parked
    BY <1>7 DEF Run, PrimaryExit, Pause, PauseStep, Kick, Kicked, Paused, Abandon,
                AwaitParked, Expire, ResumeStep, Resume, Bump, Release, Tick, gate
  <2>2. UNCHANGED pc \/ \E place : To(Primary, place)
    BY <1>7 DEF Run, PrimaryExit, Pause, PauseStep, Kick, Kicked, Paused, Abandon,
                AwaitParked, Expire, ResumeStep, Resume, Bump, Release, Tick
  <2>3. \A t \in Secondaries : pc'[t] = pc[t]
    BY <2>2, Moves DEF Vcpu
  <2> QED
    BY <2>1, <2>3, SameCounts
<1>8. CASE UNCHANGED vars
  BY <1>8, SameCounts DEF vars, gate
<1> QED
  BY <1>1, <1>2, <1>3, <1>4, <1>5, <1>6, <1>7, <1>8 DEF Next, SecondaryStep

(* Every other variable keeps its type; offset grows by a length of time. *)
LEMMA ValuesStep ==
  ASSUME TypeOK, ClockOK, [Next]_vars
  PROVE  ValuesOK'
<1> USE DEF TypeOK
<1>1. ASSUME NEW s \in Secondaries,
             EnterLoop(s) \/ LeaveLoop(s) \/ SecondaryStep(s) \/ GuestExit(s)
      PROVE  ValuesOK'
  BY <1>1
  DEF ValuesOK, EnterLoop, LeaveLoop, SecondaryStep, GuestExit, Check, Gate, Woken, Run,
      Canceled, gate, clock, pause, vtimer, time, Vcpu
<1>2. ASSUME NEW v \in Vcpu, TakeStep(v)
      PROVE  ValuesOK'
  BY <1>2
  DEF ValuesOK, TakeStep, TakeVersion, TakeOffset, gate, clock, pause, vtimer, time
<1>3. CASE Resume
  <2>1. offset' \in Nat /\ paused_at' \in Nat \cup {NoTime}
    BY <1>3 DEF Resume, ClockOK, ValuesOK
  <2> QED
    BY <1>3, <2>1 DEF ValuesOK, Resume, gate, pause, vtimer, time
<1>4. CASE Tick
  BY <1>4 DEF ValuesOK, Tick, gate, clock, pause, vtimer
<1>5. CASE pc[Primary] = "run" /\ Run(Primary)
  BY <1>5 DEF ValuesOK, Run, gate, clock, pause, vtimer, time
<1>6. CASE PrimaryExit \/ Pause
  BY <1>6 DEF ValuesOK, PrimaryExit, Pause, gate, clock, pause, vtimer, time
<1>11. CASE Expire \/ Release
  BY <1>11 DEF ValuesOK, Expire, Release, clock, pause, vtimer, time, Vcpu
<1>12. CASE Bump
  BY <1>12 DEF ValuesOK, Bump, gate, pause, vtimer, time
<1>7. ASSUME NEW s \in Secondaries, Kick(s)
      PROVE  ValuesOK'
  BY <1>7 DEF ValuesOK, Kick, gate, clock, vtimer, time
<1>8. CASE Paused
  BY <1>8 DEF ValuesOK, Paused, gate, pause, vtimer, time
<1>9. CASE Kicked \/ Abandon \/ AwaitParked
  BY <1>9 DEF ValuesOK, Kicked, Abandon, AwaitParked, gate, clock, pause, vtimer, time, Vcpu
<1>10. CASE UNCHANGED vars
  BY <1>10 DEF ValuesOK, vars, gate, clock, pause, vtimer, time
<1> QED
  BY <1>1, <1>2, <1>3, <1>4, <1>5, <1>6, <1>7, <1>8, <1>9, <1>10,
     <1>11, <1>12
  DEF Next, ResumeStep, PauseStep

-----------------------------------------------------------------------------
(* The freeze *)

(* Once pause has found all parked, a secondary turned on then stops at the
   gate, and those at the gate park: the request stands till resume drops it. *)
LEMMA FrozenStep ==
  ASSUME TypeOK, FrozenOK, [Next]_vars
  PROVE  FrozenOK'
<1> USE DEF TypeOK
<1>0. \A s \in Secondaries : s \in Vcpu /\ s # Primary
  BY Threads DEF Vcpu
<1>1. ASSUME NEW s \in Secondaries,
             EnterLoop(s) \/ LeaveLoop(s) \/ SecondaryStep(s) \/ GuestExit(s)
      PROVE  FrozenOK'
  <2>1. requested' = requested
    BY <1>1
    DEF EnterLoop, LeaveLoop, SecondaryStep, GuestExit, Check, Gate, Woken, Run, Canceled, gate
  <2>2. pc'[Primary] = pc[Primary] /\ \A t \in Secondaries : t # s => pc'[t] = pc[t]
    BY <1>0, <1>1, OthersStay DEF Vcpu
  <2>3. requested = TRUE /\ pc[s] \in {"off", "top", "gate", "parked"} =>
          pc' = pc \/ \E place \in {"off", "top", "gate", "parked"} : To(s, place)
    BY <1>1
    DEF EnterLoop, LeaveLoop, SecondaryStep, GuestExit, Check, Gate, Woken, Run, Canceled
  <2>4. requested = TRUE /\ pc[s] \in {"off", "top", "gate", "parked"} =>
          pc'[s] \in {"off", "top", "gate", "parked"}
    BY <1>0, <2>3, Moves
  <2> QED
    BY <2>1, <2>2, <2>4 DEF FrozenOK, Frozen, Requesting
<1>2. ASSUME NEW v \in Vcpu, TakeStep(v)
      PROVE  FrozenOK'
  <2>1. /\ requested' = requested
        /\ pc[v] \in {"take", "set"}
        /\ \E place \in {"run", "set"} : To(v, place)
    BY <1>2 DEF TakeStep, TakeVersion, TakeOffset, gate
  <2>2. pc'[v] \in {"run", "set"} /\ \A u \in Vcpu : u # v => pc'[u] = pc[u]
    BY <2>1, Moves
  <2> QED
    BY <1>0, <2>1, <2>2 DEF FrozenOK, Frozen, Requesting, Vcpu
<1>3. CASE Paused
  <2>1. requested' = requested /\ To(Primary, "paused") /\ pc[Primary] = "look"
    BY <1>3 DEF Paused, gate
  <2>2. \A s \in Secondaries : pc[s] \in {"off", "parked"}
    BY <1>3, AllParkedMeans DEF Paused
  <2>3. requested = TRUE
    BY <2>1 DEF FrozenOK, Requesting
  <2> QED
    BY <1>0, <2>1, <2>2, <2>3, Moves DEF FrozenOK, Frozen, Vcpu
<1>4. CASE (pc[Primary] = "run" /\ Run(Primary)) \/ PrimaryExit \/ Abandon \/ Release
  <2>1. \E place \in {"take", "guest", "top"} : To(Primary, place)
    BY <1>4 DEF Run, PrimaryExit, Abandon, Release
  <2>2. pc'[Primary] \in {"take", "guest", "top"}
    BY <2>1, Moves DEF Vcpu
  <2> QED
    BY <2>2 DEF FrozenOK, Frozen, Requesting
<1>5. CASE Pause \/ Kicked
  <2>1. \E place \in {"kick", "look"} : To(Primary, place)
    BY <1>5 DEF Pause, Kicked
  <2>2. pc'[Primary] \in {"kick", "look"}
    BY <2>1, Moves DEF Vcpu
  <2>3. requested' = TRUE
    BY <1>5 DEF Pause, Kicked, FrozenOK, Requesting, gate
  <2> QED
    BY <2>2, <2>3 DEF FrozenOK, Frozen
<1>6. CASE Resume \/ Bump
  <2>1. requested' = requested /\ Frozen /\ \E place : To(Primary, place)
    BY <1>6 DEF Resume, Bump, gate, Frozen
  <2>2. \A s \in Secondaries : pc'[s] = pc[s]
    BY <1>0, <2>1, Moves DEF Vcpu
  <2> QED
    BY <2>1, <2>2 DEF FrozenOK, Frozen, Requesting
<1>7. CASE (\E s \in Secondaries : Kick(s)) \/ AwaitParked \/ Expire \/ Tick \/ UNCHANGED vars
  BY <1>7 DEF FrozenOK, Frozen, Requesting, Kick, AwaitParked, Expire, Tick, vars, gate
<1> QED
  BY <1>1, <1>2, <1>3, <1>4, <1>5, <1>6, <1>7 DEF Next, PauseStep, ResumeStep

-----------------------------------------------------------------------------
(* The clock *)

(* pause marks the counter and resume adds what passed since, nothing else. *)
LEMMA ClockStep ==
  ASSUME TypeOK, ClockOK, [Next]_vars
  PROVE  ClockOK'
<1> USE DEF TypeOK, ValuesOK
<1>1. ASSUME UNCHANGED <<offset, paused_at, mach, ran>>,
             pc'[Primary] = "paused" <=> pc[Primary] = "paused"
      PROVE  ClockOK'
  BY <1>1 DEF ClockOK
<1>2. ASSUME NEW s \in Secondaries,
             EnterLoop(s) \/ LeaveLoop(s) \/ SecondaryStep(s) \/ GuestExit(s)
      PROVE  ClockOK'
  <2>1. pc'[Primary] = pc[Primary]
    BY <1>2, OthersStay, Threads DEF Vcpu
  <2>2. UNCHANGED <<offset, paused_at, mach, ran>>
    BY <1>2
    DEF EnterLoop, LeaveLoop, SecondaryStep, GuestExit, Check, Gate, Woken, Run, Canceled,
        clock, time
  <2> QED
    BY <1>1, <2>1, <2>2
<1>3. ASSUME NEW v \in Vcpu, TakeStep(v)
      PROVE  ClockOK'
  <2>1. /\ pc[v] # "paused"
        /\ \E place \in {"run", "set"} : To(v, place)
        /\ UNCHANGED <<offset, paused_at, mach, ran>>
    BY <1>3 DEF TakeStep, TakeVersion, TakeOffset, clock, time
  <2> QED
    BY <1>1, <2>1, Moves DEF Vcpu
<1>4. CASE (pc[Primary] = "run" /\ Run(Primary)) \/ PrimaryExit \/ Pause \/ Kicked \/ Abandon
           \/ Bump \/ Release
  <2>1. /\ pc[Primary] # "paused"
        /\ \E place : place # "paused" /\ To(Primary, place)
        /\ UNCHANGED <<offset, paused_at, mach, ran>>
    BY <1>4 DEF Run, PrimaryExit, Pause, Kicked, Abandon, Bump, Release, clock, time
  <2> QED
    BY <1>1, <2>1, Moves DEF Vcpu
<1>5. CASE (\E s \in Secondaries : Kick(s)) \/ AwaitParked \/ Expire \/ UNCHANGED vars
  BY <1>1, <1>5 DEF Kick, AwaitParked, Expire, vars, clock, time
<1>6. CASE Paused
  <2>1. /\ pc[Primary] = "look" /\ To(Primary, "paused")
        /\ paused_at' = mach /\ UNCHANGED <<offset, mach, ran>>
    BY <1>6 DEF Paused, time
  <2>2. pc'[Primary] = "paused"
    BY <2>1, Moves DEF Vcpu
  <2> QED
    BY <2>1, <2>2 DEF ClockOK
<1>7. CASE Resume
  <2>1. /\ pc[Primary] = "paused" /\ To(Primary, "bump") /\ paused_at' = NoTime
        /\ offset' = offset + (mach - paused_at) /\ UNCHANGED <<mach, ran>>
    BY <1>7 DEF Resume, time
  <2>2. pc'[Primary] = "bump"
    BY <2>1, Moves DEF Vcpu
  <2> QED
    BY <2>1, <2>2 DEF ClockOK
<1>8. CASE Tick
  BY <1>8, Bounds DEF ClockOK, Tick, clock
<1> QED
  BY <1>2, <1>3, <1>4, <1>5, <1>6, <1>7, <1>8 DEF Next, PauseStep, ResumeStep

(* Nothing is said of the offsets by a step that leaves them, their versions
   and the mark between resume's stores alone and makes nobody ready to run. *)
LEMMA SameOffsets ==
  ASSUME VersionOK, UNCHANGED <<offset, version, loaded, applied, vt>>,
         pc'[Primary] = "bump" <=> pc[Primary] = "bump",
         \A v \in Vcpu : /\ pc'[v] = "set" => pc[v] = "set"
                         /\ pc'[v] \in {"run", "guest"} => pc[v] \in {"run", "guest"}
  PROVE  VersionOK'
<1>1. (\A v \in Vcpu : applied[v] <= version)'
  BY DEF VersionOK
<1>2. (version = 0 => \A v \in Vcpu : vt[v] = 0)'
  BY DEF VersionOK
<1>3. (version = 0 /\ pc[Primary] # "bump" => offset = 0)'
  BY DEF VersionOK
<1>4. (pc[Primary] # "bump" => \A v \in Vcpu : applied[v] = version => vt[v] = offset)'
  BY DEF VersionOK
<1>5. (\A v \in Vcpu : pc[v] = "set" => loaded[v] = version)'
  BY DEF VersionOK
<1>6. (\A v \in Vcpu : pc[v] \in {"run", "guest"} => applied[v] = version)'
  BY DEF VersionOK
<1> QED
  BY <1>1, <1>2, <1>3, <1>4, <1>5, <1>6 DEF VersionOK

(* While the guest is frozen nobody is about to take the offset or to run. *)
LEMMA FrozenNobody ==
  ASSUME FrozenOK, Frozen, NEW v \in Vcpu
  PROVE  pc[v] \notin {"set", "run", "guest", "take"}
<1>1. CASE v = Primary
  BY <1>1 DEF Frozen
<1>2. CASE v \in Secondaries
  <2>1. pc[v] \in {"off", "top", "gate", "parked"}
    BY <1>2 DEF FrozenOK
  <2> QED
    BY ONLY <2>1
<1> QED
  BY <1>1, <1>2 DEF Vcpu

(* take_offset gives a vCPU the offset of the version it notes down, as the
   version and the offset change only while no vCPU is between its loads.  *)
LEMMA VersionStep ==
  ASSUME TypeOK, FrozenOK, ClockOK, VersionOK, [Next]_vars
  PROVE  VersionOK'
<1> USE DEF TypeOK
<1>0. Primary \in Vcpu /\ \A s \in Secondaries : s \in Vcpu /\ s # Primary
  BY Threads DEF Vcpu
<1>1. ASSUME NEW s \in Secondaries, EnterLoop(s)
      PROVE  VersionOK'
  <2>1. /\ UNCHANGED <<offset, version, loaded, vt>> /\ To(s, "top")
        /\ applied' = [applied EXCEPT ![s] = 0]
    BY <1>1 DEF EnterLoop, clock
  <2>2. pc'[s] = "top" /\ \A u \in Vcpu : u # s => pc'[u] = pc[u]
    BY <1>0, <2>1, Moves
  <2>3. applied'[s] = 0 /\ \A u \in Vcpu : u # s => applied'[u] = applied[u]
    BY <1>0, <2>1 DEF ValuesOK
  <2>4. version \in Nat
    BY DEF ValuesOK
  <2> QED
    BY ONLY VersionOK, <1>0, <2>1, <2>2, <2>3, <2>4 DEF VersionOK
<1>2. ASSUME NEW s \in Secondaries,
             \/ LeaveLoop(s) \/ Check(s) \/ Gate(s) \/ Woken(s) \/ Run(s)
             \/ Canceled(s) \/ GuestExit(s)
      PROVE  VersionOK'
  <2>1. UNCHANGED <<offset, version, loaded, applied, vt>>
    BY <1>2 DEF LeaveLoop, Check, Gate, Woken, Run, Canceled, GuestExit, clock, vtimer
  <2>2. \/ pc' = pc
        \/ \E place : place \notin {"set", "run", "guest"} /\ To(s, place)
        \/ pc[s] = "run" /\ To(s, "guest")
    BY <1>2 DEF LeaveLoop, Check, Gate, Woken, Run, Canceled, GuestExit
  <2>3. \A v \in Vcpu : /\ pc'[v] = "set" => pc[v] = "set"
                        /\ pc'[v] \in {"run", "guest"} => pc[v] \in {"run", "guest"}
    BY <1>0, <2>2, Moves
  <2>4. pc'[Primary] = pc[Primary]
    BY <1>0, <2>2, Moves
  <2> QED
    BY ONLY VersionOK, <2>1, <2>3, <2>4, SameOffsets
<1>3. ASSUME NEW v \in Vcpu, TakeVersion(v)
      PROVE  VersionOK'
  <2>1. /\ pc[v] = "take" /\ UNCHANGED <<offset, version, applied, vt>>
        /\ loaded' = [loaded EXCEPT ![v] = version]
        /\ To(v, IF version = applied[v] THEN "run" ELSE "set")
    BY <1>3 DEF TakeVersion, clock
  <2>2. /\ pc'[v] = (IF version = applied[v] THEN "run" ELSE "set")
        /\ \A u \in Vcpu : u # v => pc'[u] = pc[u]
    BY <2>1, Moves
  <2>3. loaded'[v] = version /\ \A u \in Vcpu : u # v => loaded'[u] = loaded[u]
    BY <2>1 DEF ValuesOK
  <2>4. pc'[Primary] = "bump" <=> pc[Primary] = "bump"
    BY <1>0, <2>1, <2>2
  <2> QED
    BY ONLY VersionOK, <2>1, <2>2, <2>3, <2>4 DEF VersionOK
<1>4. ASSUME NEW v \in Vcpu, TakeOffset(v)
      PROVE  VersionOK'
  <2>1. /\ pc[v] = "set" /\ To(v, "run") /\ UNCHANGED <<offset, version, loaded>>
        /\ vt' = [vt EXCEPT ![v] = offset]
        /\ applied' = [applied EXCEPT ![v] = loaded[v]]
    BY <1>4 DEF TakeOffset, clock
  <2>2. pc'[v] = "run" /\ \A u \in Vcpu : u # v => pc'[u] = pc[u]
    BY <2>1, Moves
  <2>3. applied'[v] = version /\ \A u \in Vcpu : u # v => applied'[u] = applied[u]
    BY <2>1 DEF ValuesOK, VersionOK
  <2>4. vt'[v] = offset /\ \A u \in Vcpu : u # v => vt'[u] = vt[u]
    BY <2>1 DEF ValuesOK
  <2>5. pc[Primary] # "bump"
    BY <2>1, FrozenNobody DEF Frozen
  <2>6. pc'[Primary] # "bump"
    BY <1>0, <2>2, <2>5
  <2>7. version \in Nat
    BY DEF ValuesOK
  <2> QED
    BY ONLY VersionOK, <2>1, <2>2, <2>3, <2>4, <2>5, <2>6, <2>7 DEF VersionOK
<1>5. CASE \/ pc[Primary] = "run" /\ Run(Primary)
           \/ PrimaryExit \/ Pause \/ Kicked \/ Paused \/ Abandon
  <2>1. UNCHANGED <<offset, version, loaded, applied, vt>> /\ pc[Primary] # "bump"
    BY <1>5 DEF Run, PrimaryExit, Pause, Kicked, Paused, Abandon, clock, vtimer
  <2>2. \/ \E place : place \notin {"set", "run", "guest", "bump"} /\ To(Primary, place)
        \/ pc[Primary] = "run" /\ To(Primary, "guest")
    BY <1>5 DEF Run, PrimaryExit, Pause, Kicked, Paused, Abandon
  <2>3. \A v \in Vcpu : /\ pc'[v] = "set" => pc[v] = "set"
                        /\ pc'[v] \in {"run", "guest"} => pc[v] \in {"run", "guest"}
    BY <1>0, <2>2, Moves
  <2>4. pc'[Primary] # "bump"
    BY <1>0, <2>2, Moves
  <2> QED
    BY ONLY VersionOK, <2>1, <2>3, <2>4, SameOffsets
<1>6. CASE Resume
  <2>1. Frozen /\ To(Primary, "bump") /\ UNCHANGED <<version, loaded, applied, vt>>
    BY <1>6 DEF Resume, Frozen, vtimer
  <2>2. pc'[Primary] = "bump" /\ \A u \in Vcpu : u # Primary => pc'[u] = pc[u]
    BY <1>0, <2>1, Moves
  <2>3. \A v \in Vcpu : pc'[v] \notin {"set", "run", "guest"}
    BY <2>1, <2>2, FrozenNobody
  <2> QED
    BY ONLY VersionOK, <2>1, <2>2, <2>3 DEF VersionOK
<1>7. CASE Bump
  <2>1. /\ Frozen /\ To(Primary, "release") /\ UNCHANGED <<offset, loaded, applied, vt>>
        /\ version' = version + 1 /\ version \in Nat /\ applied \in [Vcpu -> Nat]
    BY <1>7 DEF Bump, Frozen, vtimer, ValuesOK
  <2>2. pc'[Primary] = "release" /\ \A u \in Vcpu : u # Primary => pc'[u] = pc[u]
    BY <1>0, <2>1, Moves
  <2>3. \A v \in Vcpu : pc'[v] \notin {"set", "run", "guest"}
    BY <2>1, <2>2, FrozenNobody
  <2>4. \A v \in Vcpu : applied'[v] < version'
    BY ONLY VersionOK, <2>1 DEF VersionOK
  <2> QED
    BY ONLY <2>1, <2>3, <2>4 DEF VersionOK
<1>8. CASE Release
  <2>1. /\ Frozen /\ pc[Primary] = "release" /\ To(Primary, "take")
        /\ UNCHANGED <<offset, version, loaded, applied, vt>>
    BY <1>8 DEF Release, Frozen, clock, vtimer
  <2>2. pc'[Primary] = "take" /\ \A u \in Vcpu : u # Primary => pc'[u] = pc[u]
    BY <1>0, <2>1, Moves
  <2>3. \A v \in Vcpu : pc'[v] \notin {"set", "run", "guest"}
    BY <2>1, <2>2, FrozenNobody
  <2> QED
    BY ONLY VersionOK, <2>1, <2>2, <2>3, SameOffsets
<1>9. CASE (\E s \in Secondaries : Kick(s)) \/ AwaitParked \/ Expire \/ Tick \/ UNCHANGED vars
  <2>1. UNCHANGED <<offset, version, loaded, applied, vt, pc>>
    BY <1>9 DEF Kick, AwaitParked, Expire, Tick, vars, clock, vtimer
  <2> QED
    BY ONLY VersionOK, <2>1, SameOffsets
<1> QED
  BY <1>1, <1>2, <1>3, <1>4, <1>5, <1>6, <1>7, <1>8, <1>9
  DEF Next, SecondaryStep, TakeStep, PauseStep, ResumeStep

-----------------------------------------------------------------------------
(* The theorems *)

(* The invariant holds initially and every step of every thread keeps it. *)
THEOREM GateInvariant == Spec => []GateInv
<1>1. Init => GateInv
  <2> SUFFICES ASSUME Init PROVE GateInv
    OBVIOUS
  <2>1. PlacesOK /\ pc[Primary] = "take" /\ \A s \in Secondaries : pc[s] = "off"
    BY Threads DEF Init, PlacesOK, Vcpu, SecondaryPlaces, PrimaryPlaces
  <2>2. ValuesOK
    BY Bounds DEF Init, ValuesOK
  <2>3. InLoop = {} /\ Parked = {}
    BY <2>1 DEF InLoop, Parked
  <2>4. CountsOK
    BY <2>3, FS_EmptySet DEF Init, CountsOK
  <2>5. FrozenOK /\ ClockOK
    BY <2>1 DEF Init, FrozenOK, Requesting, Frozen, ClockOK
  <2>6. VersionOK
    BY <2>1 DEF Init, VersionOK, Vcpu
  <2> QED
    BY <2>1, <2>2, <2>4, <2>5, <2>6 DEF GateInv, TypeOK
<1>2. GateInv /\ [Next]_vars => GateInv'
  BY PlacesStep, ValuesStep, CountsStep, FrozenStep, ClockStep, VersionStep
  DEF GateInv, TypeOK, ValuesOK
<1> QED
  BY <1>1, <1>2, PTL DEF Spec

(* The counters of the gate count, for any number of secondaries: PauseGate's
   in_loop and parked, which enter_run_loop, its drop and before_run keep. *)
THEOREM GateTypes == Spec => []TypeOK
<1>1. GateInv => TypeOK
  BY DEF GateInv
<1> QED
  BY <1>1, GateInvariant, PTL

(* From pause's return to the last store of resume no vCPU is in the guest. *)
THEOREM PausedGuestStandsStill == Spec => []NobodyRunsPaused
<1>1. GateInv => NobodyRunsPaused
  BY FrozenNobody DEF GateInv, NobodyRunsPaused
<1> QED
  BY <1>1, GateInvariant, PTL

(* Whoever runs has the one offset that makes its counter the time the guest was
   not paused: take_offset before every run, resume's order of stores.     *)
THEOREM GuestClockHolds == Spec => []GuestClock
<1>1. GateInv => GuestClock
  <2> SUFFICES ASSUME GateInv, NEW v \in Vcpu, pc[v] = "guest"
               PROVE  mach - vt[v] = ran
    BY DEF GuestClock
  <2>1. ~Frozen
    BY FrozenNobody DEF GateInv
  <2>2. vt[v] = offset
    BY <2>1 DEF GateInv, VersionOK, Frozen
  <2>3. mach = offset + ran /\ offset \in Nat /\ ran \in Nat
    BY <2>1 DEF GateInv, ClockOK, TypeOK, ValuesOK, Frozen
  <2> QED
    BY <2>2, <2>3
<1> QED
  BY <1>1, GateInvariant, PTL
=============================================================================
