-------------------------- MODULE MCClusterConfig --------------------------
(* Small instances of ClusterConfig.                                       *)
EXTENDS ClusterConfig, TLC

CONSTANTS p1, p2, r1, r2, t1

TwoProcesses == {p1, p2}
TwoRequests == {r1, r2}
OneRequest == {r1}
OneTenant == {t1}

Budget(s, rm, sd, c, p, u, f) ==
    [saves |-> s, removals |-> rm, seeds |-> sd, crashes |-> c, probes |-> p,
     uses |-> u, faults |-> f]

(* Clients and saves; two first starts; probes; crashes and faults.        *)
Histories ==
    {Budget(2, 1, 0, 0, 0, 3, 0), Budget(1, 0, 2, 0, 0, 2, 0),
     Budget(2, 1, 1, 0, 1, 0, 0), Budget(1, 1, 1, 1, 0, 1, 1)}

(* An override saved, used, removed and saved again.                       *)
OneOverride == {Budget(2, 1, 0, 0, 0, 2, 0)}

(* Two processes start on an empty table.                                  *)
TwoStarts == {Budget(1, 0, 2, 0, 0, 2, 0)}

Symmetry == Permutations(TwoProcesses) \cup Permutations(TwoRequests)
=============================================================================
