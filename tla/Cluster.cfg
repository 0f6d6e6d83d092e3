CONSTANTS
    w1 = w1
    w2 = w2
    m1 = m1
    m2 = m2
    ns1 = ns1
    ns2 = ns2
    ns3 = ns3
    oc1 = oc1
    oc2 = oc2
    None = None
    Platform = Platform
    Processes <- TwoProcesses
    Migrations <- TwoMigrations
    Last = 1
    Namespaces <- ThreeNamespaces
    Served <- OneServed
    Objects <- TwoObjects
    Exports <- TwoExports
    QuotaConfigured = TRUE
    Scenarios <- SomeScenarios
SPECIFICATION FairSpec
INVARIANT NamespacesReady
INVARIANT VmDisksWhole
INVARIANT JobsReusedSafely
INVARIANT CleanedLeavesNothing
PROPERTY RunsEnd
