------------------------------- MODULE Faults -------------------------------
(***************************************************************************)
(* The failures a run may inject: a process that dies (a crash, or a       *)
(* shutdown, after which every call of the process fails because its       *)
(* context is cancelled) and a call to PostgreSQL or Redis that returns an *)
(* error.  MaxFaults bounds how many of them happen in one behaviour.      *)
(***************************************************************************)
EXTENDS Naturals

CONSTANT MaxFaults

ASSUME FaultsAssumption == MaxFaults \in Nat

VARIABLE faults

FaultsTypeOK == faults \in 0..MaxFaults

FaultsInit == faults = 0

Fault == faults < MaxFaults /\ faults' = faults + 1
=============================================================================
