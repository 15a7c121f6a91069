------------------------------ MODULE MCCimLib ------------------------------
(* Processes and addresses are interchangeable in the runs that check       *)
(* invariants only.                                                         *)
EXTENDS CimLib, TLC

Symmetry == Permutations(Process) \cup Permutations(Addr)

=============================================================================
