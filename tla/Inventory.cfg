CONSTANTS
    t1 = t1
    t2 = t2
    m1 = m1
    m2 = m2
    m3 = m3
    r1 = r1
    r2 = r2
    r3 = r3
    None = None
    Gone = Gone
    Aborts = Aborts
    Uuids <- FourUuids
    Names <- TwoNames
    Memories <- SomeMemories
    Sizes <- SomeSizes
    Hyps <- FourHyps
    Vms <- FiveVms
    Machines <- ThreeMachines
    Tenants <- TwoTenants
    Facts <- ThreeBoxes
    Readings <- SomeReadings
    InitialHyps <- SomeHosts
    InitialVms <- SomeRows
    InitialPlaces <- SomePlaces
    Places <- Moved
    VmBodies <- SomeBodies
    HypNames <- TwoHostNames
    Verdicts <- SomeVerdicts
    Requests <- TwoRequests
    Budgets <- SomeBudgets
SPECIFICATION Spec
SYMMETRY Symmetry
INVARIANT RowsFollowMachines
INVARIANT ViewsAgree
INVARIANT BusyHasOwner
PROPERTY SyncFollowsSource
