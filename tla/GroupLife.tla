------------------------------ MODULE GroupLife ------------------------------
(***************************************************************************)
(* What the rest of the platform expects of the status of a conversion     *)
(* group: it runs, it ends, an operator may run what failed again, and a   *)
(* READY group stays READY.                                                *)
(***************************************************************************)
EXTENDS GroupStatuses

VARIABLE status

Init == status = "PENDING"

Next == \E new \in GroupStatus : Expected(status, new) /\ status' = new

Spec == Init /\ [][Next]_status

=============================================================================
