------------------------------- MODULE MCUser -------------------------------
(* Instances of User for TLC. *)
EXTENDS User

CONSTANTS a1, a2, cheap, dear

MCIPSets == {{a1}, {a1, a2}}
MCFee == [t \in Tariffs |-> IF t = cheap THEN 0 ELSE 1]
MCPassiveCost == [t \in Tariffs |-> 1]
MCAmounts == -1..1
=============================================================================
