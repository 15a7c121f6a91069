-------------------------- MODULE CompletionService --------------------------
(***************************************************************************)
(* What the library promises its caller, as cim.h states it: a call starts *)
(* an operation of the device and returns success when that operation has  *)
(* completed, once for every operation.                                    *)
(***************************************************************************)
CONSTANT Op

VARIABLES
    started,    \* operations handed to the device
    finished,   \* operations the device has completed
    ok          \* operations whose call or wait returned success

vars == <<started, finished, ok>>

Init == started = {} /\ finished = {} /\ ok = {}

Start(o) ==
    /\ o \notin started
    /\ started' = started \cup {o}
    /\ UNCHANGED <<finished, ok>>

Finish(o) ==
    /\ o \in started \ finished
    /\ finished' = finished \cup {o}
    /\ UNCHANGED <<started, ok>>

ReturnOk(o) ==
    /\ o \in finished \ ok
    /\ ok' = ok \cup {o}
    /\ UNCHANGED <<started, finished>>

Next == \E o \in Op : Start(o) \/ Finish(o) \/ ReturnOk(o)

Spec == Init /\ [][Next]_vars

=============================================================================
