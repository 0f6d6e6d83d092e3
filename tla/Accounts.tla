------------------------------ MODULE Accounts ------------------------------
(***************************************************************************)
(* Accounts, roles and tenants: the endpoints of /users and /roles over    *)
(* the tables users, roles and user_roles.  A request reads the caller and *)
(* everything it decides on (its Begin action), then commits, and other    *)
(* requests may commit in between; what the commit finds changed it learns *)
(* from the constraints of the tables only.                                *)
(*                                                                         *)
(* A permission is a pair of a resource and an action, "*" standing for    *)
(* every action of the resource.  An email is a pair of an address and the *)
(* way it is spelled; a role is known by its name.                         *)
(***************************************************************************)
EXTENDS Naturals, FiniteSets

CONSTANTS
    Users,          \* ids
    Roles,          \* names
    SystemRoles,    \* the names in ROLE_PERMISSIONS
    SuperAdmin,     \* "super_admin"
    RolePermissions,\* ROLE_PERMISSIONS
    Tenants,
    Addresses,
    Spellings,      \* how clients write an address
    Resources,
    NewUsers,       \* the bodies of POST /users
    Patches,        \* the bodies of PUT /users/{id}
    RoleBodies,     \* the permissions clients give a custom role
    InitialUsers,   \* rows of the first accounts, a function on some of Users
    InitialRoles,   \* rows of the first roles, a function on some of Roles
    Requests,       \* requests in flight at the same time
    None, Gone,
    Budgets         \* bounds: how many requests of each kind are made

Kinds == {"create", "update", "delete", "grant", "role", "init"}
Actions == {"create", "read", "update", "delete"}
Basic == {<<resource, action>> : resource \in Resources, action \in Actions}
Permissions == Resources \X (Actions \cup {"*"})
Emails == Addresses \X {"lower", "mixed"}
Row == [tenant : Tenants, active : BOOLEAN, super : BOOLEAN,
        roles : SUBSET Roles, email : Emails]
Role == [perms : SUBSET Permissions, active : BOOLEAN, system : BOOLEAN]

ASSUME RolesAssumption ==
    /\ SystemRoles \subseteq Roles /\ SuperAdmin \in SystemRoles
    /\ RolePermissions \in [SystemRoles -> SUBSET Permissions]
    /\ RoleBodies \subseteq SUBSET Permissions
ASSUME InputAssumption ==
    /\ Spellings \subseteq {"lower", "mixed"}
    /\ None \notin Users \cup Roles \cup Tenants /\ Gone # None
    /\ Budgets \subseteq [Kinds -> Nat]
    /\ NewUsers \subseteq [email : Addresses \X Spellings, tenant : Tenants,
                           roles : SUBSET Roles]
    /\ Patches \subseteq [email : (Addresses \X Spellings) \cup {None},
                          active : BOOLEAN \cup {None},
                          roles : (SUBSET Roles) \cup {None},
                          password : BOOLEAN]

\* The first rows keep the constraints of the tables; a table is finite.
ASSUME TablesAssumption ==
    /\ IsFiniteSet(Users) /\ IsFiniteSet(Roles)
    /\ None \notin Row /\ Gone \notin Row /\ None \notin Role
    /\ DOMAIN InitialUsers \subseteq Users /\ DOMAIN InitialRoles \subseteq Roles
    /\ InitialUsers \in [DOMAIN InitialUsers -> Row]
    /\ InitialRoles \in [DOMAIN InitialRoles -> Role]
    /\ \A u \in DOMAIN InitialUsers : InitialUsers[u].roles \subseteq DOMAIN InitialRoles
    /\ \A u, v \in DOMAIN InitialUsers :
          InitialUsers[u].email = InitialUsers[v].email => u = v

VARIABLES
    users,      \* the rows of users and user_roles, None for a free id,
                \* Gone for that of a deleted account
    roles,      \* the rows of roles, None for a free name
    reqs,       \* requests between their checks and their commit
    budget,     \* requests of each kind still to come
    granted     \* history: the permissions superusers and role administrators
                \* ever gave in a tenant

vars == <<users, roles, reqs, budget, granted>>

-----------------------------------------------------------------------------
(* Permissions. *)

Present(u) == users[u] \notin {None, Gone}
Exists(x) == roles[x] # None

\* Role.has_permission.
RoleGrants(perms, p) == p \in perms \/ <<p[1], "*">> \in perms

\* User.has_permission, in the active roles of the user.
HasPermission(u, p) ==
    ~users[u].super =>
        \E x \in users[u].roles : roles[x].active /\ RoleGrants(roles[x].perms, p)

\* get_current_user and check_permission.
Allowed(c, resource, action) ==
    Present(c) /\ users[c].active /\ HasPermission(c, <<resource, action>>)

\* User.get_all_permissions, action by action.
Effective(rs, table) ==
    {p \in Basic : \E x \in rs : table[x].active /\ RoleGrants(table[x].perms, p)}

\* _is_super_admin.
IsSuperAdmin(u) == users[u].super \/ SuperAdmin \in users[u].roles

(* Mutant: only a role that grants every action of a resource is refused.    *)
MayAssignNoStar(c, rs) ==
    \A x \in rs : ~users[c].super /\ Exists(x) =>
        /\ x # SuperAdmin
        /\ \A p \in roles[x].perms : p[2] = "*" => HasPermission(c, p)

\* _check_privilege_escalation: nobody gives what he does not have.
MayAssign(c, rs) ==
    \A x \in rs : ~users[c].super /\ Exists(x) =>
        x # SuperAdmin /\ \A p \in roles[x].perms : HasPermission(c, p)

\* The tenant of the target, for everybody but a superuser.
SameTenant(c, u) == ~users[c].super => users[u].tenant = users[c].tenant

-----------------------------------------------------------------------------
(* Emails.  Lookups are by the address in lower case. *)

Lower(e) == <<e[1], "lower">>
ByEmail(e) == {u \in Users : Present(u) /\ users[u].email = Lower(e)}

\* The unique constraint of users.email compares what is stored.
EmailFree(e, u) == \A v \in Users \ {u} : Present(v) => users[v].email # e

\* _handle_email_update: the address is looked up and stored in lower case
\* when it differs from the stored one; otherwise it is stored as it is typed.
EmailRefused(u, e) == e # None /\ Lower(e) # users[u].email /\ ByEmail(e) # {}
NewEmail(u, e) == IF Lower(e) # users[u].email THEN Lower(e) ELSE e

-----------------------------------------------------------------------------
(* What the requests that only read answer. *)

\* get_users and get_users_count, with the filter on the tenant.
UsersOf(t) == {u \in Users : Present(u) /\ (t = None \/ users[u].tenant = t)}

\* GET /users: the filter of an ordinary account is its own tenant.
ListUsers(c, t) == UsersOf(IF users[c].super THEN t ELSE users[c].tenant)

\* GET /users/tenant/{tenant}/count: all, active, inactive.
MayCount(c, t) == users[c].super \/ t = users[c].tenant
CountUsersByTenant(t) ==
    LET active == {u \in UsersOf(t) : users[u].active} IN
    <<Cardinality(UsersOf(t)), Cardinality(active), Cardinality(UsersOf(t) \ active)>>

\* GET /users/{id}.
GetUser(c, u) == Present(u) /\ SameTenant(c, u)

\* GET /roles: ordinary accounts see the roles of the system.
ListRoles(c) == {x \in Roles : Exists(x) /\ (users[c].super \/ roles[x].system)}

\* GET /roles/count: the roles of the system, the others.
CountRoles ==
    LET system == {x \in Roles : Exists(x) /\ roles[x].system} IN
    <<Cardinality(system), Cardinality({x \in Roles : Exists(x)} \ system)>>

\* get_role_users_count, of GET /roles/{id} and GET /roles/{id}/users/count.
UsersWithRole(x) == {u \in Users : Present(u) /\ x \in users[u].roles}

-----------------------------------------------------------------------------
(* Requests. *)

Idle == [op |-> "idle", by |-> None, super |-> FALSE, user |-> None, role |-> None,
         email |-> None, tenant |-> None, active |-> None, roles |-> None,
         seen |-> {}, perms |-> {}]

Spend(kind) == budget[kind] > 0 /\ budget' = [budget EXCEPT ![kind] = @ - 1]

Ready(r, kind) == reqs[r].op = "idle" /\ Spend(kind)

Begin(r, c, req) ==
    /\ reqs' = [reqs EXCEPT ![r] = [req EXCEPT !.by = c, !.super = users[c].super]]
    /\ UNCHANGED <<users, roles, granted>>

Committing(r, op) ==
    /\ reqs[r].op = op
    /\ reqs' = [reqs EXCEPT ![r] = Idle]
    /\ UNCHANGED budget

\* The row of u becomes row when the constraints ok hold; what a superuser
\* gives is granted in the tenant.
Write(r, ok, u, row) ==
    /\ users' = IF ok THEN [users EXCEPT ![u] = row] ELSE users
    /\ granted' =
         IF ok /\ reqs[r].super /\ row # Gone
         THEN [granted EXCEPT ![row.tenant] = @ \cup Effective(row.roles, roles)]
         ELSE granted
    /\ UNCHANGED roles

\* A role becomes row; roles are global, so its permissions are given everywhere.
WriteRole(ok, x, row) ==
    /\ roles' = IF ok THEN [roles EXCEPT ![x] = row] ELSE roles
    /\ granted' = [t \in Tenants |->
                     granted[t] \cup (IF ok /\ row # None
                                      THEN {p \in Basic : RoleGrants(row.perms, p)}
                                      ELSE {})]

-----------------------------------------------------------------------------
(* /users. *)

\* POST /users; u is the id the row will have.
CreateUserBegin(r, c, u, new) ==
    /\ Ready(r, "create")
    /\ Allowed(c, "users", "create")
    /\ ~users[c].super => new.tenant = users[c].tenant
    /\ MayAssign(c, new.roles)
    /\ ByEmail(new.email) = {}
    /\ \A x \in new.roles : Exists(x)
    /\ users[u] = None /\ \A s \in Requests : reqs[s].user # u
    /\ Begin(r, c, [Idle EXCEPT !.op = "create user", !.email = Lower(new.email),
                       !.tenant = new.tenant, !.roles = new.roles, !.user = u])

(* Mutant: two accounts may be stored with one address.                      *)
CreateUserCommitTwice(r) ==
    LET q == reqs[r] IN
    /\ Committing(r, "create user")
    /\ Write(r, \A x \in q.roles : Exists(x), q.user,
             [tenant |-> q.tenant, active |-> TRUE, super |-> FALSE,
              roles |-> q.roles, email |-> q.email])

CreateUserCommit(r) ==
    LET q == reqs[r] IN
    /\ Committing(r, "create user")
    /\ Write(r, EmailFree(q.email, q.user) /\ \A x \in q.roles : Exists(x), q.user,
             [tenant |-> q.tenant, active |-> TRUE, super |-> FALSE,
              roles |-> q.roles, email |-> q.email])

\* PUT /users/{id}: who may change which account, and which of its fields.
UpdateUserBegin(r, c, u, patch) ==
    /\ Ready(r, "update")
    /\ Allowed(c, "users", "update") /\ Present(u)
    /\ u # c => SameTenant(c, u)
    /\ u # c /\ ~users[c].super => ~IsSuperAdmin(u)
    /\ u = c /\ ~users[c].super => patch.roles = None
    /\ u = c => ~patch.password
    /\ patch.roles # None => MayAssign(c, patch.roles) /\ \A x \in patch.roles : Exists(x)
    /\ ~EmailRefused(u, patch.email)
    /\ Begin(r, c,
         [Idle EXCEPT !.op = "update user", !.user = u, !.seen = users[u].roles,
            !.email = IF patch.email = None THEN None ELSE NewEmail(u, patch.email),
            !.active = IF patch.active = users[u].active THEN None ELSE patch.active,
            !.roles = IF patch.roles = None THEN users[u].roles ELSE patch.roles])

\* The flush writes what changed since the read: roles are inserted and
\* deleted one row each, and a row that is there or gone fails the commit.
UpdateUserCommit(r) ==
    LET q == reqs[r]
        row == users[q.user]
        added == q.roles \ q.seen
        dropped == q.seen \ q.roles
        ok == /\ row # Gone
              /\ dropped \subseteq row.roles /\ added \cap row.roles = {}
              /\ \A x \in added : Exists(x)
              /\ q.email # None => EmailFree(q.email, q.user)
    IN
    /\ Committing(r, "update user")
    /\ Write(r, ok, q.user,
         IF row = Gone THEN Gone
         ELSE [row EXCEPT !.roles = (@ \ dropped) \cup added,
                          !.email = IF q.email = None THEN @ ELSE q.email,
                          !.active = IF q.active = None THEN @ ELSE q.active])

(* Mutant: an account may delete itself.                                     *)
DeleteUserBeginSelf(r, c, u) ==
    /\ Ready(r, "delete")
    /\ Allowed(c, "users", "delete") /\ Present(u)
    /\ SameTenant(c, u)
    /\ ~users[c].super => ~IsSuperAdmin(u)
    /\ Begin(r, c, [Idle EXCEPT !.op = "delete user", !.user = u,
                                !.seen = users[u].roles])

\* DELETE /users/{id}: another account.
DeleteUserBegin(r, c, u) ==
    /\ Ready(r, "delete")
    /\ u # c
    /\ Allowed(c, "users", "delete") /\ Present(u)
    /\ SameTenant(c, u)
    /\ ~users[c].super => ~IsSuperAdmin(u)
    /\ Begin(r, c, [Idle EXCEPT !.op = "delete user", !.user = u,
                                !.seen = users[u].roles])

DeleteUserCommit(r) ==
    LET u == reqs[r].user IN
    /\ Committing(r, "delete user")
    /\ Write(r, Present(u) /\ reqs[r].seen \subseteq users[u].roles, u, Gone)

\* POST /users/{id}/roles/{role}: not to oneself, unless a superuser.
AddRoleBegin(r, c, u, x) ==
    /\ Ready(r, "grant")
    /\ Allowed(c, "users", "update") /\ Present(u) /\ Exists(x)
    /\ SameTenant(c, u)
    /\ u = c => users[c].super
    /\ MayAssign(c, {x})
    /\ x \notin users[u].roles
    /\ Begin(r, c, [Idle EXCEPT !.op = "add role", !.user = u, !.role = x])

AddRoleCommit(r) ==
    LET u == reqs[r].user
        x == reqs[r].role
        ok == Present(u) /\ Exists(x) /\ x \notin users[u].roles IN
    /\ Committing(r, "add role")
    /\ Write(r, ok, u, IF ok THEN [users[u] EXCEPT !.roles = @ \cup {x}] ELSE Gone)

\* DELETE /users/{id}/roles/{role}: not the last one.
RemoveRoleBegin(r, c, u, x) ==
    /\ Ready(r, "grant")
    /\ Allowed(c, "users", "update") /\ Present(u)
    /\ SameTenant(c, u)
    /\ x \in users[u].roles /\ Cardinality(users[u].roles) > 1
    /\ Begin(r, c, [Idle EXCEPT !.op = "remove role", !.user = u, !.role = x])

RemoveRoleCommit(r) ==
    LET u == reqs[r].user
        x == reqs[r].role
        ok == Present(u) /\ x \in users[u].roles IN
    /\ Committing(r, "remove role")
    /\ Write(r, ok, u, IF ok THEN [users[u] EXCEPT !.roles = @ \ {x}] ELSE Gone)

-----------------------------------------------------------------------------
(* /roles. *)

CreateRoleBegin(r, c, x, perms) ==
    /\ Ready(r, "role")
    /\ Allowed(c, "roles", "create")
    /\ ~Exists(x)
    /\ Begin(r, c, [Idle EXCEPT !.op = "create role", !.role = x, !.perms = perms])

CreateRoleCommit(r) ==
    LET x == reqs[r].role IN
    /\ Committing(r, "create role")
    /\ WriteRole(~Exists(x), x,
                 [perms |-> reqs[r].perms, active |-> TRUE, system |-> FALSE])
    /\ UNCHANGED users

\* PUT /roles/{id}: the roles of the system are fixed.
UpdateRoleBegin(r, c, x, perms, active) ==
    /\ Ready(r, "role")
    /\ Allowed(c, "roles", "update")
    /\ Exists(x) /\ ~roles[x].system
    /\ Begin(r, c, [Idle EXCEPT !.op = "update role", !.role = x,
                                !.perms = perms, !.active = active])

UpdateRoleCommit(r) ==
    LET x == reqs[r].role IN
    /\ Committing(r, "update role")
    /\ WriteRole(Exists(x), x,
                 [perms |-> reqs[r].perms, active |-> reqs[r].active, system |-> FALSE])
    /\ UNCHANGED users

\* DELETE /roles/{id}: not a role of the system, nor one that users have.
DeleteRoleBegin(r, c, x) ==
    /\ Ready(r, "role")
    /\ Allowed(c, "roles", "delete")
    /\ Exists(x) /\ ~roles[x].system
    /\ UsersWithRole(x) = {}
    /\ Begin(r, c, [Idle EXCEPT !.op = "delete role", !.role = x,
                                !.seen = UsersWithRole(x)])

\* The foreign key of user_roles cascades to whoever was given the role since.
DeleteRoleCommit(r) ==
    LET x == reqs[r].role IN
    /\ Committing(r, "delete role")
    /\ WriteRole(TRUE, x, None)
    /\ users' = [u \in Users |->
                   IF Present(u) THEN [users[u] EXCEPT !.roles = @ \ {x}] ELSE users[u]]

\* POST /roles/init-system-roles: the roles of the system that are missing, and
\* those that have other permissions than the program gives them; a role of a
\* client that has the name is left alone.
InitRolesBegin(r, c) ==
    /\ Ready(r, "init")
    /\ Allowed(c, "roles", "create")
    /\ Begin(r, c, [Idle EXCEPT !.op = "init roles",
                       !.roles = {x \in SystemRoles : ~Exists(x)},
                       !.seen = {x \in SystemRoles : Exists(x) /\ roles[x].system
                                    /\ roles[x].perms # RolePermissions[x]}])

\* One commit for all: a name that was taken meanwhile fails it.  What a role
\* gains is given everywhere, to those as well whose assignment is in flight.
InitRolesCommit(r) ==
    LET missing == reqs[r].roles
        stale == reqs[r].seen
        ok == (\A x \in missing : ~Exists(x)) /\ \A x \in stale : Exists(x) IN
    /\ Committing(r, "init roles")
    /\ roles' = [x \in Roles |->
                   IF ok /\ x \in missing \cup stale
                   THEN [perms |-> RolePermissions[x], system |-> TRUE,
                         active |-> IF x \in stale THEN roles[x].active ELSE TRUE]
                   ELSE roles[x]]
    /\ granted' = [t \in Tenants |->
                     granted[t] \cup {p \in Basic : \E x \in Roles :
                       roles'[x] # roles[x] /\ RoleGrants(roles'[x].perms, p)}]
    /\ UNCHANGED users

-----------------------------------------------------------------------------
\* The commit breaks a constraint on what is left out here, the names of
\* accounts and the new name of a role: nothing is written.
NameTaken(r) ==
    /\ reqs[r].op \in {"create user", "update user", "update role"}
    /\ Committing(r, reqs[r].op)
    /\ UNCHANGED <<users, roles, granted>>

Init ==
    /\ users = [u \in Users |->
                  IF u \in DOMAIN InitialUsers THEN InitialUsers[u] ELSE None]
    /\ roles = [x \in Roles |->
                  IF x \in DOMAIN InitialRoles THEN InitialRoles[x] ELSE None]
    /\ reqs = [r \in Requests |-> Idle]
    /\ budget \in Budgets
    /\ granted = [t \in Tenants |->
                    UNION {Effective(InitialUsers[u].roles, InitialRoles) :
                      u \in {v \in DOMAIN InitialUsers :
                               ~InitialUsers[v].super /\ InitialUsers[v].tenant = t}}]

UserCall(r, c) ==
    \/ \E u \in Users, new \in NewUsers : CreateUserBegin(r, c, u, new)
    \/ \E u \in Users, patch \in Patches : UpdateUserBegin(r, c, u, patch)
    \/ \E u \in Users : DeleteUserBegin(r, c, u)
    \/ \E u \in Users, x \in Roles : AddRoleBegin(r, c, u, x)
    \/ \E u \in Users, x \in Roles : RemoveRoleBegin(r, c, u, x)

RoleCall(r, c) ==
    \/ \E x \in Roles, perms \in RoleBodies : CreateRoleBegin(r, c, x, perms)
    \/ \E x \in Roles, perms \in RoleBodies, b \in BOOLEAN :
         UpdateRoleBegin(r, c, x, perms, b)
    \/ \E x \in Roles : DeleteRoleBegin(r, c, x)
    \/ InitRolesBegin(r, c)

Commit(r) ==
    \/ CreateUserCommit(r) \/ UpdateUserCommit(r) \/ DeleteUserCommit(r)
    \/ AddRoleCommit(r) \/ RemoveRoleCommit(r)
    \/ CreateRoleCommit(r) \/ UpdateRoleCommit(r) \/ DeleteRoleCommit(r)
    \/ InitRolesCommit(r) \/ NameTaken(r)

\* No request is in flight: nothing has to happen.
Rest == (\A r \in Requests : reqs[r].op = "idle") /\ UNCHANGED vars

Next ==
    \/ \E r \in Requests, c \in Users : UserCall(r, c)
    \/ \E r \in Requests, c \in Users : RoleCall(r, c)
    \/ \E r \in Requests : Commit(r)
    \/ Rest

Spec == Init /\ [][Next]_vars

-----------------------------------------------------------------------------
(* Properties. *)

\* Every row is well formed, and a user has no role that does not exist.
TypeOK ==
    /\ users \in [Users -> Row \cup {None, Gone}]
    /\ roles \in [Roles -> Role \cup {None}]
    /\ \A u \in Users : Present(u) => \A x \in users[u].roles : Exists(x)
    /\ budget \in [Kinds -> Nat]
    /\ granted \in [Tenants -> SUBSET Basic]

\* No two accounts have one address, when clients spell addresses one way.
OneAccountPerAddress ==
    \A u, v \in Users :
        Present(u) /\ Present(v) /\ Lower(users[u].email) = Lower(users[v].email)
            => u = v

\* POST /auth/login finds every account under its own address.
SignInFindsAccount ==
    \A u \in Users : Present(u) => u \in ByEmail(users[u].email)

\* What an ordinary account may do was given in its tenant by a superuser or
\* by a change of a role: no chain of requests of ordinary accounts, and no
\* overlap of requests, adds a permission to a tenant.
PermissionsTraced ==
    \A u \in Users :
        Present(u) /\ ~users[u].super =>
            Effective(users[u].roles, roles) \subseteq granted[users[u].tenant]

\* What the requests that read answer fits together: the list of an account
\* is what it may get one by one, and what it may count; the numbers add up.
ReadsAgree ==
    \A c \in {u \in Users : Present(u)}, t \in Tenants \cup {None} :
        /\ \A u \in ListUsers(c, t) : GetUser(c, u)
        /\ \A u \in Users : GetUser(c, u) => u \in ListUsers(c, users[u].tenant)
        /\ t # None /\ MayCount(c, t) =>
             LET n == CountUsersByTenant(t) IN
             n[1] = Cardinality(ListUsers(c, t)) /\ n[1] = n[2] + n[3]
        /\ Cardinality(ListRoles(c)) \in {CountRoles[1], CountRoles[1] + CountRoles[2]}

\* The rows are whole, addresses are unique, and every reader sees one state.
TablesConsistent == TypeOK /\ OneAccountPerAddress /\ ReadsAgree

Superusers == {u \in Users : Present(u) /\ users[u].super}

\* The last superuser is deleted only by a caller who was himself deleted
\* between his own authentication and his commit.
LastSuperuserFallsTogether ==
    Superusers # {} /\ Superusers' = {} =>
        \E r \in Requests : reqs[r].op = "delete user" /\ ~Present(reqs[r].by)

\* An account loses a role only through a request about that account, or
\* because the role was free when the request that deletes it looked.
RolesLostByRequest ==
    \A u \in Users :
        Present(u) /\ users'[u] # Gone /\ ~(users[u].roles \subseteq users'[u].roles) =>
            \E r \in Requests : reqs[r] # reqs'[r] /\
                 \/ reqs[r].user = u
                 \/ reqs[r].op = "delete role" /\ u \notin reqs[r].seen

\* An account is changed by callers of its tenant, by superusers, or by the
\* deletion of a role.
TenantWall ==
    \A u \in Users :
        Present(u) /\ users'[u] # users[u] =>
            \E r \in Requests : reqs[r] # reqs'[r] /\
                 \/ reqs[r].super \/ reqs[r].op = "delete role"
                 \/ Present(reqs[r].by) => users[reqs[r].by].tenant = users[u].tenant

\* Superusers, roles and accounts are lost or changed only as the rules of the
\* endpoints allow, though each request looks before it commits.
ChangesByRule == [][LastSuperuserFallsTogether /\ RolesLostByRequest /\ TenantWall]_vars
=============================================================================
