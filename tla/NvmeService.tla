---------------------------- MODULE NvmeService ----------------------------
(***************************************************************************)
(* What the NVMe queue engine promises a driver, without rings, worker     *)
(* threads or locks: every request on a queue is answered at most once,    *)
(* and the answer stays until the driver takes it.  Requests disappear     *)
(* only when the driver gives up their queue: by deleting it, or by        *)
(* resetting the controller.                                               *)
(***************************************************************************)
CONSTANTS Queue, Request

VARIABLE state  \* of each request on each queue

Idle == [q \in Queue |-> [r \in Request |-> "idle"]]

TypeOK == state \in [Queue -> [Request -> {"idle", "waiting", "answered"}]]

Init == state = Idle

Submit(q, r) == /\ state[q][r] = "idle"
                /\ state' = [state EXCEPT ![q][r] = "waiting"]

Answer(q, r) == /\ state[q][r] = "waiting"
                /\ state' = [state EXCEPT ![q][r] = "answered"]

Take(q, r) == /\ state[q][r] = "answered"
              /\ state' = [state EXCEPT ![q][r] = "idle"]

(* The answer taken is that of the deletion of queue d: requests it had not
   answered, of which the driver then knows there are none to come, go.     *)
TakeDeleted(q, r, d) ==
  /\ d # q /\ state[q][r] = "answered"
  /\ \A s \in Request : state[d][s] # "answered"
  /\ state' = [state EXCEPT ![q][r] = "idle", ![d] = Idle[d]]

Reset == state' = Idle

Next ==
  \/ \E q \in Queue, r \in Request :
       \/ Submit(q, r) \/ Answer(q, r) \/ Take(q, r)
       \/ \E d \in Queue : TakeDeleted(q, r, d)
  \/ Reset

Spec == Init /\ [][Next]_state
=============================================================================
