---------------------------- MODULE GroupStatuses ----------------------------
(* The statuses of a conversion group, for the orchestrator that waits for  *)
(* one and for the workers that fill it.                                    *)

FailedGroup == {"FAILED", "PARTIAL", "CANCELLED"}
GroupStatus == FailedGroup \cup {"PENDING", "IN_PROGRESS", "READY"}

(* The moves of a group: run, end, be cancelled or be retried.              *)
Expected(s, new) ==
    \/ s = "PENDING" /\ new \in {"IN_PROGRESS", "CANCELLED"}
    \/ s = "IN_PROGRESS" /\ new \in {"READY"} \cup FailedGroup
    \/ s \in {"FAILED", "PARTIAL"} /\ new = "IN_PROGRESS"

=============================================================================
