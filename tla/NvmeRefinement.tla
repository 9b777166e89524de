--------------------------- MODULE NvmeRefinement ---------------------------
(***************************************************************************)
(* NvmeQueues implements NvmeService: a request is waiting from the moment *)
(* the driver has written it to the ring until an entry for it that the    *)
(* driver has not taken is in a completion ring.                           *)
(***************************************************************************)
EXTENDS NvmeQueues

Stage(q, cmd) == IF cmd \notin open[q] THEN "idle"
                 ELSE IF Completions(q, cmd) = {} THEN "waiting" ELSE "answered"

Service == INSTANCE NvmeService WITH
             Queue <- Q, Request <- Cmd,
             state <- [q \in Q |-> [cmd \in Cmd |-> Stage(q, cmd)]]

(* Whatever the interleaving of drains, transfers, syncs, doorbells, queue
   deletions and resets, the driver sees the service above: an answer, once
   there, is never overwritten, withdrawn or repeated.                     *)
ImplementsService == Service!Spec
=============================================================================
