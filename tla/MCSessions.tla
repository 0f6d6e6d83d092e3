----------------------------- MODULE MCSessions -----------------------------
(* Instances of Sessions for TLC: which calls are made together. *)
EXTENDS Sessions, TLC

CONSTANTS u1, u2, f1, f2, f3, r1, r2, r3

TwoUsers == {u1, u2}
ThreeFamilies == {f1, f2, f3}
TwoRequests == {r1, r2}

Calls(login, refresh, logout, change, admin, crash) ==
    [k \in Kinds |-> CASE k = "login" -> login [] k = "refresh" -> refresh
                       [] k = "logout" -> logout [] k = "change" -> change
                       [] k = "admin" -> admin [] k = "crash" -> crash]

AllBudgets == {Calls(3, 0, 0, 0, 0, 0), Calls(2, 0, 0, 1, 1, 0), Calls(2, 1, 0, 1, 0, 0), Calls(1, 3, 0, 1, 0, 1), Calls(1, 2, 1, 0, 1, 1)}

Symmetry == Permutations(TwoRequests) \cup Permutations(ThreeFamilies)
              \cup Permutations(TwoUsers)
=============================================================================
