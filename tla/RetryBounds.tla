----------------------------- MODULE RetryBounds -----------------------------
(***************************************************************************)
(* How often Retry repeats what failed, and how often it may fail.         *)
(***************************************************************************)
EXTENDS Naturals

CONSTANTS
    MaxRetries,  \* RetryConfig.MaxRetries
    MaxFaults    \* bound on the faults of the environment

ASSUME BoundsAssumption == MaxRetries \in Nat /\ MaxFaults \in Nat
=============================================================================
