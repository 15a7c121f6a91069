----------------------------- MODULE MCScDevIrq -----------------------------
(* Instances of the driver for TLC. *)
EXTENDS ScDevIrq, TLC

\* The handler and read() treat their CPU, their thread and their source alike;
\* sound for the runs that check safety only.
Symmetry == Permutations(CPU) \cup Permutations(Reader) \cup Permutations(Source)

\* Values of the bound: the same for all sources, or enough on one of them for
\* its counter to wrap, beside others that do not.
TwoEach == [s \in Source |-> 2]
ThreeOnOne == [s \in Source |-> IF s = CHOOSE t \in Source : TRUE THEN 3 ELSE 2]

=============================================================================
