---------------------------- MODULE MCLifecycle ----------------------------
(* The life of a process, of its device and of its event list, one at a    *)
(* time: each is explored in full.                                         *)
EXTENDS Lifecycle, TunDevice, EventRing

VARIABLE part           \* the part under examination

\* Every pair of a level that is shown and a length that fits a slot
MCMessages == {1} \X {5, 6, 7}

MCInit ==
  /\ part \in {"process", "device", "events"}
  /\ part # "process" => role = "server"
  /\ Init /\ DevInit /\ RingInit

MCNext ==
  /\ UNCHANGED part
  /\ \/ part = "process" /\ Next /\ UNCHANGED <<devVars, ringVars>>
     \/ part = "device" /\ DevNext /\ UNCHANGED <<vars, ringVars>>
     \/ part = "events" /\ RingNext /\ UNCHANGED <<vars, devVars>>

\* Of the three only the process is promised to go on.
MCSpec ==
  /\ MCInit
  /\ [][MCNext]_<<part, vars, devVars, ringVars>>
  /\ WF_vars(part = "process" /\ Main)
  /\ \A w \in Workers : WF_vars(part = "process" /\ Worker(w))
=============================================================================
