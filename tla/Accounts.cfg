CONSTANTS
    root = root
    root2 = root2
    ann = ann
    bob = bob
    carl = carl
    eve = eve
    t1 = t1
    t2 = t2
    r1 = r1
    r2 = r2
    None = None
    Gone = Gone
    Users <- SixUsers
    Roles <- FourRoles
    SystemRoles <- ThreeSystemRoles
    SuperAdmin = "super_admin"
    RolePermissions <- Matrix
    Tenants <- TwoTenants
    Addresses <- SixAddresses
    Spellings <- OneSpelling
    Resources <- ThreeResources
    NewUsers <- SomeNewUsers
    Patches <- SomePatches
    RoleBodies <- TwoBodies
    InitialUsers <- FiveAccounts
    InitialRoles <- FirstRoles
    Requests <- TwoRequests
    Budgets <- AllBudgets
SPECIFICATION Spec
SYMMETRY Symmetry
INVARIANT TablesConsistent
INVARIANT PermissionsTraced
PROPERTY ChangesByRule
