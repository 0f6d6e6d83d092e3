--------------------------- MODULE MCVmInventory ---------------------------
(* Instances of VmInventory for TLC. *)
EXTENDS VmInventory, TLC

CONSTANTS t1, t2, m1, m2, m3, r1, r2, r3

FourHyps == 1 .. 4
FiveVms == 1 .. 5
ThreeMachines == {m1, m2, m3}
TwoTenants == {t1, t2}
TwoRequests == {r1, r2}
OneRequest == {r1}
SomeMemories == {2048}
SomeSizes == {0, 40}

Ubuntu == [family |-> "linux", known |-> TRUE, recent |-> TRUE, versioned |-> FALSE]
Box(uuid, name) ==
    [uuid |-> uuid, name |-> name, hint |-> "linux", guest |-> Ubuntu, cpu |-> 2, mem |-> 2048,
     boot |-> 40, data |-> 0, firmware |-> "bios", running |-> TRUE, tools |-> FALSE,
     folder |-> FALSE, root |-> "partition", second |-> FALSE]

\* m2 is m1 created anew: the same name, another identity.
ThreeBoxes == [m \in ThreeMachines |-> CASE m = m1 -> Box("u1", "web")
                                         [] m = m2 -> Box("u2", "web")
                                         [] m = m3 -> Box("u3", "db")]
FourUuids == {"u1", "u2", "u3", "u4"}
TwoNames == {"web", "db"}

Reading(x, outcome) == [m \in ThreeMachines |-> IF m = x THEN outcome ELSE Ok]
SomeReadings == {Reading(m1, o) : o \in {Ok, Partial, Error}}

Host(t, name, type) == [tenant |-> t, name |-> name, type |-> type, status |-> "active", count |-> 0]
Hosts(type1) == [h \in FourHyps |-> CASE h = 1 -> Host(t1, "A", type1)
                                       [] h = 2 -> Host(t1, "B", "kvm")
                                       [] h = 3 -> Host(t2, "A", "ovirt")
                                      [] h = 4 -> None]
SomeHosts == {Hosts(type) : type \in {"proxmox", "vmware_workstation"}}
KvmHosts == {Hosts("kvm")}
TwoHostNames == {"A", "B"}

NoFacts == [os |-> "unknown", label |-> "unrecognised", cpu |-> 1, mem |-> 2048, disk |-> 20]
Kept(id, status, compat) ==
    [tenant |-> t1, name |-> "web", hyp |-> 1, id |-> id, facts |-> NoFacts, status |-> status,
     compat |-> compat, from |-> id]
Uuid(u) == <<"uuid", u>>

\* The row of m1 in each phase of its life, or a row that a client made.
SomeRows == {[v \in FiveVms |-> IF v = 1 THEN vm ELSE None] :
    vm \in {Kept(Uuid("u1"), "discovered", "unknown"), Kept(Uuid("u1"), "partial", "partial"),
            Kept(None, "discovered", "unknown")}}
At(x, y, z) == [m \in ThreeMachines |-> CASE m = m1 -> x [] m = m2 -> y [] m = m3 -> z]
SomePlaces == {At(1, None, 2)}

\* Never two machines of one name on a hypervisor; with Homonyms there are.
Moved == {At(1, None, 2), At(None, None, 2), At(2, None, 2), At(3, None, 2),
          At(None, 1, 2), At(2, 1, 2), At(1, None, 1)}
Homonyms == {At(1, 1, 2)}

\* A body of a tenant of the hypervisor that it names; POST /vms takes the others too.
Body(t) == [tenant |-> t, name |-> "web", hyp |-> 1, id |-> None, facts |-> NoFacts]
SomeBodies == {Body(t1)}
ForeignBodies == {Body(t2)}
SomeVerdicts == {NoModel, [grade |-> "COMPATIBLE", confident |-> TRUE]}

Calls(sync, test, analyze, vm, hyp, world, migration, crash) ==
    [k \in Kinds |-> CASE k = "sync" -> sync [] k = "test" -> test [] k = "analyze" -> analyze
                       [] k = "vm" -> vm [] k = "hyp" -> hyp [] k = "world" -> world
                       [] k = "migration" -> migration [] k = "crash" -> crash]
SomeBudgets == {Calls(2, 0, 0, 0, 0, 1, 0, 0), Calls(1, 0, 0, 0, 1, 0, 0, 1),
                Calls(1, 0, 1, 1, 0, 0, 0, 1), Calls(1, 0, 1, 0, 0, 1, 1, 0),
                Calls(1, 0, 2, 0, 0, 0, 1, 0), Calls(1, 0, 0, 2, 0, 1, 0, 0),
                Calls(0, 0, 1, 1, 0, 0, 1, 0), Calls(1, 1, 0, 0, 0, 0, 0, 1),
                Calls(0, 1, 0, 0, 1, 0, 0, 0)}
Symmetry == Permutations(Requests)
=============================================================================
