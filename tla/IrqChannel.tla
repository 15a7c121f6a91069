----------------------------- MODULE IrqChannel -----------------------------
(***************************************************************************)
(* What the driver promises its users, node by node: a counting channel.   *)
(* Interrupts accumulate; a read takes some of them, all at once, and      *)
(* returns how many.  The promise of the header of sc_dev_irq.c, with its  *)
(* two exceptions: a counter that overflows, and a read whose copy to user *)
(* space fails.                                                            *)
(***************************************************************************)
EXTENDS Integers

CONSTANTS Source, CountMod

VARIABLES
    unread,     \* interrupts of each source not taken yet
    delivered,  \* interrupts of each source returned by a read
    faulted     \* interrupts of each source taken by a read that failed

channelVars == <<unread, delivered, faulted>>

Init ==
    /\ unread = [s \in Source |-> 0]
    /\ delivered = [s \in Source |-> 0]
    /\ faulted = [s \in Source |-> 0]

Raise(s) ==
    /\ unread' = [unread EXCEPT ![s] = @ + 1]
    /\ UNCHANGED <<delivered, faulted>>

\* A read returns k of the unread interrupts of s.
Deliver(s, k) ==
    /\ k \in 1 .. unread[s]
    /\ unread' = [unread EXCEPT ![s] = @ - k]
    /\ delivered' = [delivered EXCEPT ![s] = @ + k]
    /\ UNCHANGED faulted

Fault(s, k) ==
    /\ k \in 1 .. unread[s]
    /\ unread' = [unread EXCEPT ![s] = @ - k]
    /\ faulted' = [faulted EXCEPT ![s] = @ + k]
    /\ UNCHANGED delivered

\* The 32-bit counters of the sources in S wrap: 2^32 of each are forgotten.
Overflow(S) ==
    /\ \A s \in S : unread[s] >= CountMod
    /\ unread' = [s \in Source |-> IF s \in S THEN unread[s] - CountMod ELSE unread[s]]
    /\ UNCHANGED <<delivered, faulted>>

Next ==
    \/ \E s \in Source : Raise(s)
    \/ \E s \in Source : \E k \in 1 .. unread[s] : Deliver(s, k) \/ Fault(s, k)
    \/ \E S \in SUBSET Source : Overflow(S)

Spec == Init /\ [][Next]_channelVars

=============================================================================
