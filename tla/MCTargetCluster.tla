-------------------------- MODULE MCTargetCluster --------------------------
(* Instances of TargetCluster for TLC. *)
EXTENDS TargetCluster, TLC

CONSTANTS w1, w2, m1, m2, ns1, ns2, ns3, oc1, oc2

TwoProcesses == {w1, w2}
TwoMigrations == {m1, m2}
ThreeNamespaces == {ns1, ns2, ns3}
OneServed == {ns3}
TwoObjects == {oc1, oc2}
TwoExports == {0, 1}

\* ns3 is the namespace of a tenant that has migrated before.
Homes(x, y) == [m \in TwoMigrations |-> IF m = m1 THEN x ELSE y]
Named(x, y) == [m \in TwoMigrations |-> IF m = m1 THEN x ELSE y]
Calls(crash, redeliver, fault, readfault, podfail, cancel, operator, move) ==
    [k \in Kinds |-> CASE k = "crash" -> crash [] k = "redeliver" -> redeliver
                       [] k = "fault" -> fault [] k = "readfault" -> readfault
                       [] k = "podfail" -> podfail [] k = "cancel" -> cancel
                       [] k = "operator" -> operator [] OTHER -> move]
One(calls) == [sent |-> {m1}, home |-> Homes(ns1, ns1), object |-> Named(oc1, oc2), budget |-> calls]
Both(x, y, calls) ==
    [sent |-> TwoMigrations, home |-> Homes(x, y), object |-> Named(oc1, oc2), budget |-> calls]

SomeScenarios ==
    {One(calls) : calls \in {Calls(1, 0, 1, 1, 1, 0, 0, 0), Calls(0, 1, 0, 1, 0, 0, 0, 0), Calls(1, 1, 0, 0, 1, 0, 0, 0),
                             Calls(0, 1, 0, 0, 0, 1, 0, 0), Calls(1, 0, 1, 0, 0, 1, 0, 0),
                             Calls(1, 0, 0, 0, 1, 0, 2, 0), Calls(1, 0, 0, 0, 0, 0, 0, 1)}}
      \cup {Both(x, y, Calls(0, 0, 0, 0, 0, 0, 0, 0)) : x \in {ns1}, y \in {ns1, ns2}}

\* One process dies, and one read of a Job fails.
TornScenarios == {One(Calls(1, 0, 0, 1, 0, 0, 0, 0))}

\* Two migrations of one tenant whose machines have one name.
HomonymScenarios ==
    {[Both(ns1, ns1, Calls(0, 0, 0, 0, 0, 1, 0, 0)) EXCEPT !.object = Named(oc1, oc1)]}
Symmetry == Permutations(TwoProcesses)
=============================================================================
