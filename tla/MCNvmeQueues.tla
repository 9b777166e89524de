---------------------------- MODULE MCNvmeQueues ----------------------------
(***************************************************************************)
(* Instances of NvmeQueues for TLC.                                        *)
(***************************************************************************)
EXTENDS NvmeRefinement, NvmeInvariant

Io(o, n) == [op |-> o, id |-> n]
Adm(o, x, y) == [op |-> o, q |-> x, cq |-> y]
Cc(e, s) == [op |-> "cc", en |-> e, shn |-> s]
Cold == [op |-> "cold", en |-> FALSE, shn |-> FALSE]

OneQ == {1}
TwoQ == {1, 2}
Rings2 == [q \in Q |-> 2]
Rings3 == [q \in Q |-> 3]
Admin2Io3 == [q \in Q |-> IF q = 0 THEN 2 ELSE 3]

\* one I/O queue pair, three kinds of command, no deletion
IoCmds == {Io("fua", 1), Io("flush", 1), Io("inline", 1)}
CreateOne == {Adm("createCq", 1, 0), Adm("createSq", 1, 1)}
EnableOnly == {Cc(TRUE, FALSE)}

\* transfers without and with a sync; creation and deletion, resets
TwoCmds == {Io("rw", 1), Io("fua", 1)}
FuaOnly == {Io("fua", 1)}
Lifecycles == CreateOne \cup {Adm("deleteCq", 1, 0), Adm("deleteSq", 1, 0)}
Resets == {Cc(TRUE, FALSE), Cc(FALSE, FALSE), Cold}

\* two submission queues on one completion queue, shutdown
SharedCq == {Adm("createCq", 1, 0), Adm("createSq", 1, 1), Adm("createSq", 2, 1),
             Adm("inline", 1, 0)}
Shutdowns == {Cc(TRUE, FALSE), Cc(TRUE, TRUE), Cc(FALSE, TRUE)}

\* one event request more than the limit
TwoAers == CreateOne \cup {Adm("aer", 1, 0), Adm("aer", 1, 1)}
=============================================================================
