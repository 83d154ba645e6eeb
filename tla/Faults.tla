------------------------------- MODULE Faults -------------------------------
(* The budget of failures the modules that share it may spend between them. *)
EXTENDS Integers

CONSTANT MaxFaults   \* bound: faults of any kind
ASSUME FaultsAssumption == MaxFaults \in Nat

VARIABLE faults      \* faults so far

FaultsInit == faults = 0
Fault == faults < MaxFaults /\ faults' = faults + 1

=============================================================================
