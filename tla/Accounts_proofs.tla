--------------------------- MODULE Accounts_proofs ---------------------------
(***************************************************************************)
(* What holds of Accounts for every set of accounts, roles and requests,   *)
(* whatever the rows it starts from, and any number of requests in flight. *)
(***************************************************************************)
EXTENDS Accounts, FiniteSetTheorems, TLAPS

Ops == {"idle", "create user", "update user", "delete user", "add role", "remove role",
        "create role", "update role", "delete role", "init roles"}

ReqRec == [op : Ops, by : Users \cup {None}, super : BOOLEAN,
           user : Users \cup {None}, role : Roles \cup {None},
           email : Emails \cup {None}, tenant : Tenants \cup {None},
           active : BOOLEAN \cup {None}, roles : (SUBSET Roles) \cup {None},
           seen : SUBSET (Users \cup Roles), perms : SUBSET Permissions]

OnUser == {"update user", "delete user", "add role", "remove role"}
OnRole == {"create role", "update role", "delete role"}

(* An id that has been given to an account, which may be deleted since.     *)
Known(u) == u \in Users /\ users[u] # None

(* What a role grants once it is active.                                    *)
Raw(x) == IF Exists(x) THEN {p \in Basic : RoleGrants(roles[x].perms, p)} ELSE {}

(* What a request was allowed when it looked is still true of the rows.     *)
Acquainted(q) ==
    q.op \in OnUser =>
        /\ Known(q.user) /\ Known(q.by)
        /\ q.super /\ Present(q.by) => users[q.by].super
        /\ ~q.super /\ Present(q.by) /\ Present(q.user)
              => users[q.by].tenant = users[q.user].tenant

(* The id of a new account is nobody else's.                                *)
Creating(r) ==
    LET q == reqs[r] IN
    q.op = "create user" =>
        /\ q.user \in Users /\ users[q.user] = None
        /\ \A s \in Requests \ {r} : reqs[s].user # q.user
        /\ q.email \in Emails /\ q.email[2] = "lower"
        /\ q.tenant \in Tenants /\ q.roles \in SUBSET Roles
        /\ ~q.super => \A x \in q.roles : Raw(x) \subseteq granted[q.tenant]

(* Who is not a superuser gives only what his tenant has.                   *)
Giving(q) ==
    /\ q.op = "update user" =>
          /\ q.roles \in SUBSET Roles
          /\ ~q.super /\ Present(q.user) =>
                \A x \in q.roles \ q.seen : Raw(x) \subseteq granted[users[q.user].tenant]
    /\ q.op = "add role" =>
          /\ q.role \in Roles
          /\ ~q.super /\ Present(q.user) =>
                Raw(q.role) \subseteq granted[users[q.user].tenant]
    /\ q.op = "delete user" =>
          /\ q.by # q.user
          /\ ~q.super /\ Present(q.user) => ~users[q.user].super
    /\ q.op \in OnRole => q.role \in Roles
    /\ q.op = "update role" => q.active \in BOOLEAN
    /\ q.op = "delete role" => q.seen = {}
    /\ q.op = "init roles" => q.roles \subseteq SystemRoles /\ q.seen \subseteq SystemRoles

Asked == /\ reqs \in [Requests -> ReqRec]
         /\ \A r \in Requests : Acquainted(reqs[r]) /\ Creating(r) /\ Giving(reqs[r])

Unique == \A u, v \in Users :
              Present(u) /\ Present(v) /\ users[u].email = users[v].email => u = v

Sound == TypeOK /\ Asked /\ PermissionsTraced /\ Unique

-----------------------------------------------------------------------------
(* What the parts give.                                                     *)

LEMMA Parts ==
    ASSUME Sound
    PROVE  /\ users \in [Users -> Row \cup {None, Gone}]
           /\ roles \in [Roles -> Role \cup {None}]
           /\ granted \in [Tenants -> SUBSET Basic]
           /\ budget \in [Kinds -> Nat]
           /\ reqs \in [Requests -> ReqRec]
           /\ \A r \in Requests : reqs[r] \in ReqRec
           /\ \A u \in Users : Present(u) => users[u] \in Row
           /\ \A x \in Roles : Exists(x) => roles[x] \in Role
           /\ \A r \in Requests : Acquainted(reqs[r]) /\ Creating(r) /\ Giving(reqs[r])
  BY DEF Sound, TypeOK, Asked, Present, Exists

LEMMA RequestBecomes ==
    ASSUME Sound, NEW r \in Requests, NEW q \in ReqRec, reqs' = [reqs EXCEPT ![r] = q]
    PROVE  /\ reqs' \in [Requests -> ReqRec] /\ reqs'[r] = q
           /\ \A s \in Requests \ {r} : reqs'[s] = reqs[s]
  BY Parts

LEMMA IdleType == /\ Idle \in ReqRec /\ Idle.op = "idle" /\ Idle.user = None
  BY DEF Idle, ReqRec, Ops

(* Nobody is given what his tenant does not have.                           *)
LEMMA Assigned ==
    ASSUME Sound, NEW c \in Users, Present(c), ~users[c].super,
           NEW rs \in SUBSET Roles, MayAssign(c, rs)
    PROVE  \A x \in rs : Raw(x) \subseteq granted[users[c].tenant]
<1> SUFFICES ASSUME NEW x \in rs, NEW p \in Raw(x) PROVE p \in granted[users[c].tenant]
  OBVIOUS
<1>1. Exists(x) /\ p \in Basic /\ RoleGrants(roles[x].perms, p)
  BY DEF Raw
<1>2. \A k \in roles[x].perms : HasPermission(c, k)
  BY <1>1 DEF MayAssign
<1>3. \E y \in users[c].roles : roles[y].active /\ RoleGrants(roles[y].perms, p)
  <2>1. CASE p \in roles[x].perms
    BY <1>2, <2>1 DEF HasPermission
  <2>2. CASE <<p[1], "*">> \in roles[x].perms
    <3>1. PICK k : k = <<p[1], "*">>
      OBVIOUS
    <3>2. PICK y \in users[c].roles : roles[y].active /\ RoleGrants(roles[y].perms, k)
      BY <1>2, <2>2, <3>1 DEF HasPermission
    <3>3. <<k[1], "*">> = k
      BY <3>1
    <3>4. k \in roles[y].perms
      BY <3>2, <3>3 DEF RoleGrants
    <3> QED
      BY <3>1, <3>2, <3>4 DEF RoleGrants
  <2> QED
    BY <1>1, <2>1, <2>2 DEF RoleGrants
<1>4. p \in Effective(users[c].roles, roles)
  BY <1>1, <1>3 DEF Effective
<1> QED
  BY <1>4 DEF Sound, PermissionsTraced

(* Superusers and permissions of an account that is there.                  *)
LEMMA EffectiveRaw ==
    ASSUME Sound, NEW rs \in SUBSET Roles, \A x \in rs : Exists(x), NEW T,
           \A x \in rs : Raw(x) \subseteq T
    PROVE  Effective(rs, roles) \subseteq T
  BY DEF Effective, Raw

-----------------------------------------------------------------------------
(* What a step leaves to the requests it does not serve.                    *)

(* Ids and superusers stay; what a role gains is given everywhere.          *)
Kept == \A u \in Users :
            Known(u) => /\ Known(u)'
                        /\ Present(u)' => /\ Present(u)
                                          /\ users'[u].tenant = users[u].tenant
                                          /\ users'[u].super = users[u].super
Rising == /\ \A t \in Tenants : granted[t] \subseteq granted'[t]
          /\ \A x \in Roles : \/ Raw(x)' \subseteq Raw(x)
                              \/ \A t \in Tenants : Raw(x)' \subseteq granted'[t]

LEMMA RequestKept ==
    ASSUME Sound, Kept, Rising, NEW q \in ReqRec, Acquainted(q), Giving(q)
    PROVE  Acquainted(q)' /\ Giving(q)'
<1>2. Acquainted(q)'
  BY DEF Acquainted, Kept, Known
<1>3. ASSUME NEW u \in Users, NEW x \in Roles, Known(u), Present(u)',
             Raw(x) \subseteq granted[users[u].tenant]
      PROVE  Raw(x)' \subseteq granted'[users'[u].tenant]
  <2>1. Present(u) /\ users'[u].tenant = users[u].tenant /\ users[u].tenant \in Tenants
    BY <1>3, Parts DEF Kept, Row
  <2> QED
    BY <1>3, <2>1 DEF Rising
<1>4. CASE q.op = "update user"
  <2>1. Known(q.user) /\ q.user \in Users
    BY <1>4 DEF Acquainted, OnUser, Known
  <2>2. ASSUME ~q.super, Present(q.user)', NEW x \in q.roles \ q.seen
        PROVE  Raw(x)' \subseteq granted'[users'[q.user].tenant]
    <3>1. x \in Roles /\ Present(q.user)
      BY <1>4, <2>1, <2>2 DEF Giving, Kept
    <3>2. Raw(x) \subseteq granted[users[q.user].tenant]
      BY <1>4, <2>2, <3>1 DEF Giving
    <3> QED
      BY <1>3, <2>1, <2>2, <3>1, <3>2
  <2> QED
    BY <1>2, <1>4, <2>2 DEF Giving, OnRole
<1>5. CASE q.op = "add role"
  <2>1. Known(q.user) /\ q.user \in Users /\ q.role \in Roles
    BY <1>5 DEF Acquainted, OnUser, Known, Giving
  <2>2. ASSUME ~q.super, Present(q.user)'
        PROVE  Raw(q.role)' \subseteq granted'[users'[q.user].tenant]
    <3>1. Present(q.user)
      BY <2>1, <2>2 DEF Kept
    <3>2. Raw(q.role) \subseteq granted[users[q.user].tenant]
      BY <1>5, <2>2, <3>1 DEF Giving
    <3>3. PICK x \in Roles : x = q.role
      BY <2>1
    <3>4. Raw(x)' \subseteq granted'[users'[q.user].tenant]
      BY <1>3, <2>1, <2>2, <3>2, <3>3
    <3> QED
      BY <3>3, <3>4
  <2> QED
    BY <1>2, <1>5, <2>1, <2>2 DEF Giving, OnRole
<1>6. CASE q.op = "delete user"
  <2>1. Known(q.user) /\ q.user \in Users
    BY <1>6 DEF Acquainted, OnUser, Known
  <2> QED
    BY <1>2, <1>6, <2>1 DEF Giving, OnRole, Kept
<1>7. CASE q.op \notin {"update user", "add role", "delete user"}
  BY <1>2, <1>7 DEF Giving, OnRole
<1> QED
  BY <1>2, <1>4, <1>5, <1>6, <1>7

LEMMA CreatingKept ==
    ASSUME Sound, Rising, NEW s \in Requests, reqs'[s] = reqs[s],
           reqs[s].op = "create user" => users'[reqs[s].user] = None,
           reqs[s].op = "create user" =>
               \A t \in Requests \ {s} : reqs'[t].user # reqs[s].user
    PROVE  Creating(s)'
<1>1. Creating(s)
  BY Parts
<1>2. ASSUME reqs[s].op = "create user", ~reqs[s].super, NEW x \in reqs[s].roles
      PROVE  Raw(x)' \subseteq granted'[reqs[s].tenant]
  <2>1. x \in Roles /\ reqs[s].tenant \in Tenants /\ Raw(x) \subseteq granted[reqs[s].tenant]
    BY <1>1, <1>2 DEF Creating
  <2> QED
    BY <2>1 DEF Rising
<1> QED
  BY <1>1, <1>2 DEF Creating

(* A request is over.                                                       *)
LEMMA Served ==
    ASSUME Sound, Kept, Rising, NEW r \in Requests, reqs' = [reqs EXCEPT ![r] = Idle],
           \A s \in Requests \ {r} :
               reqs[s].op = "create user" => users'[reqs[s].user] = None
    PROVE  Asked'
<1>1. /\ reqs' \in [Requests -> ReqRec] /\ reqs'[r] = Idle
      /\ \A s \in Requests \ {r} : reqs'[s] = reqs[s]
  BY RequestBecomes, IdleType
<1>2. ASSUME NEW s \in Requests \ {r}
      PROVE  Acquainted(reqs[s])' /\ Giving(reqs[s])' /\ Creating(s)'
  <2>1. \A t \in Requests \ {s} :
            reqs[s].op = "create user" => reqs'[t].user # reqs[s].user
    <3>1. Creating(s) /\ None \notin Users
      BY Parts, InputAssumption
    <3> QED
      BY <1>1, <3>1, IdleType DEF Creating
  <2> QED
    <3>1. reqs[s] \in ReqRec /\ Acquainted(reqs[s]) /\ Giving(reqs[s])
      BY Parts
    <3>2. PICK q \in ReqRec : q = reqs[s]
      BY <3>1
    <3>3. Acquainted(q)' /\ Giving(q)'
      BY <3>1, <3>2, RequestKept
    <3>4. q = reqs'[s]
      BY <1>1, <3>2
    <3>5. Acquainted(reqs[s])' /\ Giving(reqs[s])'
      BY <3>3, <3>4
    <3> QED
      BY <1>1, <1>2, <2>1, <3>5, CreatingKept
<1>3. Acquainted(reqs[r])' /\ Giving(reqs[r])' /\ Creating(r)'
  BY <1>1, IdleType DEF Acquainted, Giving, Creating, OnUser, OnRole
<1> QED
  BY <1>1, <1>2, <1>3 DEF Asked

-----------------------------------------------------------------------------
(* A row is written.                                                        *)

(* What the commit of a request may write to the table of users.            *)
Admissible(r, u, row) ==
    /\ u \in Users /\ row \in Row \cup {Gone}
    /\ row = Gone => reqs[r].op = "delete user"
    /\ users[u] = None => reqs[r].op = "create user" /\ reqs[r].user = u
    /\ row \in Row =>
          /\ users[u] # None => /\ Present(u)
                                /\ row.tenant = users[u].tenant
                                /\ row.super = users[u].super
          /\ \A x \in row.roles : Exists(x)
          /\ ~reqs[r].super /\ ~row.super =>
                Effective(row.roles, roles) \subseteq granted[row.tenant]
          /\ \A v \in Users \ {u} : Present(v) => users[v].email # row.email

Ruled == LastSuperuserFallsTogether /\ RolesLostByRequest /\ TenantWall

(* A request on accounts is over, which changed its own account at most.    *)
LEMMA WrittenByRule ==
    ASSUME Sound, Kept, NEW r \in Requests, NEW u \in Users, reqs[r].user = u,
           reqs[r].op \in OnUser \cup {"create user"}, reqs' = [reqs EXCEPT ![r] = Idle],
           \A v \in Users \ {u} : users'[v] = users[v],
           Present(u) /\ ~Present(u)' => reqs[r].op = "delete user"
    PROVE  Ruled
<1>1. reqs'[r] # reqs[r]
  <2>1. reqs'[r] = Idle
    BY RequestBecomes, IdleType
  <2> QED
    BY <2>1, IdleType DEF OnUser
<1>2. Acquainted(reqs[r]) /\ Giving(reqs[r]) /\ Creating(r)
  BY Parts
<1>3. RolesLostByRequest
  BY <1>1 DEF RolesLostByRequest
<1>4. ASSUME Present(u), ~reqs[r].super, Present(reqs[r].by)
      PROVE  users[reqs[r].by].tenant = users[u].tenant
  BY <1>2, <1>4 DEF Acquainted, Creating, Present
<1>5. TenantWall
  BY <1>1, <1>4 DEF TenantWall
<1>6. ASSUME Superusers # {}, Superusers' = {}
      PROVE  reqs[r].op = "delete user" /\ ~Present(reqs[r].by)
  <2>1. PICK w \in Users : Present(w) /\ users[w].super
    BY <1>6 DEF Superusers
  <2>2. \A v \in Users : ~(Present(v)' /\ users'[v].super)
    BY <1>6 DEF Superusers
  <2>3. Known(w)
    BY <2>1 DEF Known, Present
  <2>4. ~Present(w)'
    BY <2>1, <2>2, <2>3 DEF Kept
  <2>5. w = u
    BY <2>1, <2>4 DEF Present
  <2>6. reqs[r].op = "delete user"
    BY <2>1, <2>4, <2>5
  <2>7. reqs[r].super /\ reqs[r].by # u /\ Known(reqs[r].by) /\ reqs[r].by \in Users
    BY <1>2, <2>1, <2>5, <2>6 DEF Giving, Acquainted, OnUser, Known
  <2>8. ASSUME Present(reqs[r].by) PROVE FALSE
    <3>1. users[reqs[r].by].super
      BY <1>2, <2>6, <2>7, <2>8 DEF Acquainted, OnUser
    <3>2. users'[reqs[r].by] = users[reqs[r].by]
      BY <2>7
    <3> QED
      BY <2>2, <2>7, <2>8, <3>1, <3>2 DEF Present
  <2> QED
    BY <2>6, <2>8
<1>7. LastSuperuserFallsTogether
  BY <1>6 DEF LastSuperuserFallsTogether
<1> QED
  BY <1>3, <1>5, <1>7 DEF Ruled

LEMMA EffectiveType == \A rs, table : Effective(rs, table) \subseteq Basic
  BY DEF Effective

LEMMA Written ==
    ASSUME Sound, NEW r \in Requests, Committing(r, reqs[r].op), NEW ok \in BOOLEAN,
           NEW u \in Users, NEW row, ok => Admissible(r, u, row), Write(r, ok, u, row),
           reqs[r].user = u, reqs[r].op \in OnUser \cup {"create user"}
    PROVE  Sound' /\ Ruled
<1>1. /\ users \in [Users -> Row \cup {None, Gone}] /\ roles' = roles /\ budget' = budget
      /\ reqs' = [reqs EXCEPT ![r] = Idle] /\ granted \in [Tenants -> SUBSET Basic]
  BY Parts DEF Write, Committing
<1>2. /\ ok => users'[u] = row /\ row \in Row \cup {Gone}
      /\ ~ok => users'[u] = users[u]
      /\ \A v \in Users \ {u} : users'[v] = users[v]
      /\ users' \in [Users -> Row \cup {None, Gone}]
  BY <1>1 DEF Write, Admissible
<1>3. /\ granted' \in [Tenants -> SUBSET Basic]
      /\ \A t \in Tenants : granted[t] \subseteq granted'[t]
      /\ (ok /\ reqs[r].super /\ row \in Row) =>
             Effective(row.roles, roles) \subseteq granted'[row.tenant]
  <2>1. CASE ok /\ reqs[r].super /\ row # Gone
    <3>1. row \in Row
      BY <1>2, <2>1
    <3>2. row.tenant \in Tenants
      BY <3>1 DEF Row
    <3>3. granted' = [granted EXCEPT ![row.tenant] = @ \cup Effective(row.roles, roles)]
      BY <2>1 DEF Write
    <3> QED
      BY <1>1, <3>2, <3>3, EffectiveType
  <2>2. CASE ~(ok /\ reqs[r].super /\ row # Gone)
    BY <1>1, <2>2, TablesAssumption DEF Write
  <2> QED
    BY <2>1, <2>2
<1>4. \A v \in Users : Present(v)' <=> users'[v] \notin {None, Gone}
  BY DEF Present
<1>5. Kept
  <2>1. ASSUME NEW v \in Users, Known(v), v # u \/ ~ok
        PROVE  /\ Known(v)'
               /\ Present(v)' => /\ Present(v)
                                 /\ users'[v].tenant = users[v].tenant
                                 /\ users'[v].super = users[v].super
    <3>1. users'[v] = users[v]
      BY <1>2, <2>1
    <3> QED
      BY <2>1, <3>1 DEF Known, Present
  <2>2. ASSUME Known(u), ok
        PROVE  /\ Known(u)'
               /\ Present(u)' => /\ Present(u)
                                 /\ users'[u].tenant = users[u].tenant
                                 /\ users'[u].super = users[u].super
    <3>1. users'[u] = row /\ users[u] # None /\ row \in Row \cup {Gone}
      BY <1>2, <2>2 DEF Known
    <3>2. row # None
      BY <3>1, TablesAssumption, InputAssumption
    <3>3. Known(u)'
      BY <3>1, <3>2 DEF Known
    <3>4. Present(u)' => row \in Row
      BY <1>4, <3>1
    <3> QED
      BY <2>2, <3>1, <3>3, <3>4 DEF Admissible
  <2> QED
    BY <2>1, <2>2 DEF Kept
<1>6. \A x \in Roles : Raw(x)' = Raw(x)
  BY <1>1 DEF Raw, Exists
<1>7. Rising
  BY <1>3, <1>6 DEF Rising
<1>8. ASSUME NEW s \in Requests \ {r}, reqs[s].op = "create user"
      PROVE  users'[reqs[s].user] = None
  <2>1. Creating(s)
    BY Parts
  <2>2. reqs[s].user \in Users /\ users[reqs[s].user] = None /\ reqs[r].user # reqs[s].user
    BY <1>8, <2>1 DEF Creating
  <2> QED
    BY <1>2, <2>2 DEF Admissible
<1>9. Asked'
  BY <1>1, <1>5, <1>7, <1>8, Served
<1>10. \A v \in Users : Present(v)' =>
           \/ users'[v] = users[v] /\ Present(v)
           \/ v = u /\ ok /\ users'[v] = row /\ row \in Row
  BY <1>2, <1>4 DEF Present
<1>11. ASSUME NEW v \in Users, Present(v)' PROVE \A x \in users'[v].roles : Exists(x)'
  BY <1>1, <1>10, <1>11 DEF Sound, TypeOK, Admissible, Exists
<1>12. TypeOK'
  BY <1>1, <1>2, <1>3, <1>11, Parts DEF TypeOK
<1>13. PermissionsTraced'
  <2>1. ASSUME NEW v \in Users, Present(v)', ~users'[v].super
        PROVE  Effective(users'[v].roles, roles) \subseteq granted'[users'[v].tenant]
    <3>1. CASE users'[v] = users[v] /\ Present(v)
      <4>1. users[v].tenant \in Tenants
        BY <3>1, Parts DEF Row
      <4>2. Effective(users[v].roles, roles) \subseteq granted[users[v].tenant]
        BY <2>1, <3>1 DEF Sound, PermissionsTraced
      <4> QED
        BY <1>3, <3>1, <4>1, <4>2
    <3>2. CASE v = u /\ ok /\ users'[v] = row /\ row \in Row
      <4>1. row.tenant \in Tenants
        BY <3>2 DEF Row
      <4>2. ~reqs[r].super => Effective(row.roles, roles) \subseteq granted[row.tenant]
        BY <2>1, <3>2 DEF Admissible
      <4>3. reqs[r].super \in BOOLEAN
        BY Parts DEF ReqRec
      <4> QED
        BY <1>3, <3>2, <4>1, <4>2, <4>3
    <3> QED
      BY <1>10, <2>1, <3>1, <3>2
  <2> QED
    BY <1>1, <2>1 DEF PermissionsTraced
<1>14. Unique'
  <2>1. ASSUME NEW v \in Users, NEW w \in Users, Present(v)', Present(w)',
               users'[v].email = users'[w].email, v # w
        PROVE  FALSE
    <3>1. CASE v # u /\ w # u
      BY <1>10, <2>1, <3>1 DEF Sound, Unique
    <3>2. CASE v = u \/ w = u
      BY <1>10, <2>1, <3>2 DEF Sound, Unique, Admissible
    <3> QED
      BY <3>1, <3>2
  <2> QED
    BY <2>1 DEF Unique
<1>15. Present(u) /\ ~Present(u)' => reqs[r].op = "delete user"
  <2>1. CASE ok
    <3>1. users'[u] = row /\ row \in Row \cup {Gone}
      BY <1>2, <2>1
    <3>2. row \in Row => Present(u)'
      BY <1>4, <3>1, TablesAssumption
    <3> QED
      BY <2>1, <3>1, <3>2 DEF Admissible
  <2>2. CASE ~ok
    BY <1>2, <2>2 DEF Present
  <2> QED
    BY <2>1, <2>2
<1>16. Ruled
  BY <1>1, <1>2, <1>5, <1>15, WrittenByRule
<1> QED
  BY <1>9, <1>12, <1>13, <1>14, <1>16 DEF Sound

LEMMA CreateUserSound ==
    ASSUME Sound, NEW r \in Requests, CreateUserCommit(r)
    PROVE  Sound' /\ Ruled
<1>1. PICK q : q = reqs[r] /\ q.op = "create user"
  BY DEF CreateUserCommit, Committing
<1>2. /\ q.user \in Users /\ users[q.user] = None /\ q.email \in Emails
      /\ q.tenant \in Tenants /\ q.roles \in SUBSET Roles
      /\ ~q.super => \A x \in q.roles : Raw(x) \subseteq granted[q.tenant]
  BY <1>1, Parts DEF Creating
<1>3. PICK row : row = [tenant |-> q.tenant, active |-> TRUE, super |-> FALSE,
                        roles |-> q.roles, email |-> q.email]
  OBVIOUS
<1>4. row \in Row /\ row.tenant = q.tenant /\ ~row.super /\ row.roles = q.roles
      /\ row.email = q.email
  BY <1>2, <1>3 DEF Row
<1>5. PICK ok \in BOOLEAN :
          ok = (EmailFree(q.email, q.user) /\ \A x \in q.roles : Exists(x))
  OBVIOUS
<1>6. Write(r, ok, q.user, row) /\ Committing(r, reqs[r].op)
  BY <1>1, <1>3, <1>5 DEF CreateUserCommit
<1>7. ASSUME ok PROVE Admissible(r, q.user, row)
  <2>1. ~q.super => Effective(row.roles, roles) \subseteq granted[row.tenant]
    BY <1>2, <1>4, <1>5, <1>7, EffectiveRaw
  <2> QED
    BY <1>1, <1>2, <1>4, <1>5, <1>7, <2>1, TablesAssumption DEF Admissible, EmailFree
<1> QED
  BY <1>1, <1>2, <1>6, <1>7, Written

(* The row an account has, with other roles.                                *)
LEMMA Reassigned ==
    ASSUME Sound, NEW r \in Requests, NEW u \in Users, Present(u), NEW row \in Row,
           row.tenant = users[u].tenant, row.super = users[u].super,
           \A x \in row.roles : Exists(x),
           \A x \in row.roles \ users[u].roles :
               ~reqs[r].super => Raw(x) \subseteq granted[row.tenant],
           \A v \in Users \ {u} : Present(v) => users[v].email # row.email
    PROVE  Admissible(r, u, row)
<1>1. ASSUME ~reqs[r].super, ~row.super, NEW p \in Effective(row.roles, roles)
      PROVE  p \in granted[row.tenant]
  <2>1. PICK x \in row.roles : roles[x].active /\ RoleGrants(roles[x].perms, p) /\ p \in Basic
    BY <1>1 DEF Effective
  <2>2. CASE x \in users[u].roles
    <3>1. p \in Effective(users[u].roles, roles)
      BY <2>1, <2>2 DEF Effective
    <3> QED
      BY <1>1, <3>1 DEF Sound, PermissionsTraced
  <2>3. CASE x \notin users[u].roles
    <3>1. p \in Raw(x)
      BY <2>1 DEF Raw
    <3> QED
      BY <1>1, <2>3, <3>1
  <2> QED
    BY <2>2, <2>3
<1> QED
  BY <1>1, TablesAssumption DEF Admissible, Present

LEMMA UpdateUserSound ==
    ASSUME Sound, NEW r \in Requests, UpdateUserCommit(r)
    PROVE  Sound' /\ Ruled
<1>1. PICK q \in ReqRec : q = reqs[r] /\ q.op = "update user"
  BY Parts DEF UpdateUserCommit, Committing
<1>2. /\ Known(q.user) /\ q.user \in Users
      /\ q.roles \in SUBSET Roles
      /\ ~q.super /\ Present(q.user) =>
                \A x \in q.roles \ q.seen : Raw(x) \subseteq granted[users[q.user].tenant]
  BY <1>1, Parts DEF Acquainted, Giving, OnUser, Known
<1>3. PICK old : old = users[q.user]
  OBVIOUS
<1>4. PICK added : added = q.roles \ q.seen
  OBVIOUS
<1>5. PICK dropped : dropped = q.seen \ q.roles
  OBVIOUS
<1>6. PICK ok \in BOOLEAN :
          ok = (/\ old # Gone
                /\ dropped \subseteq old.roles /\ added \cap old.roles = {}
                /\ \A x \in added : Exists(x)
                /\ q.email # None => EmailFree(q.email, q.user))
  OBVIOUS
<1>7. PICK row : row = IF old = Gone THEN Gone
                       ELSE [old EXCEPT !.roles = (old.roles \ dropped) \cup added,
                               !.email = IF q.email = None THEN old.email ELSE q.email,
                               !.active = IF q.active = None THEN old.active ELSE q.active]
  OBVIOUS
<1>8. Write(r, ok, q.user, row) /\ Committing(r, reqs[r].op)
  BY <1>1, <1>3, <1>4, <1>5, <1>6, <1>7 DEF UpdateUserCommit
<1>9. ASSUME ok PROVE Admissible(r, q.user, row)
  <2>1. Present(q.user) /\ old \in Row
    BY <1>2, <1>3, <1>6, <1>9, Parts DEF Present, Known
  <2>2. PICK fresh : fresh = (old.roles \ dropped) \cup added
    OBVIOUS
  <2>3. PICK mail : mail = IF q.email = None THEN old.email ELSE q.email
    OBVIOUS
  <2>4. PICK act : act = IF q.active = None THEN old.active ELSE q.active
    OBVIOUS
  <2>5. fresh \in SUBSET Roles /\ mail \in Emails /\ act \in BOOLEAN
    BY <1>2, <1>4, <2>1, <2>2, <2>3, <2>4 DEF Row, ReqRec
  <2>6. row = [old EXCEPT !.roles = fresh, !.email = mail, !.active = act]
    BY <1>6, <1>7, <1>9, <2>2, <2>3, <2>4
  <2>7. /\ row \in Row /\ row.tenant = old.tenant /\ row.super = old.super
        /\ row.roles = fresh /\ row.email = mail
    BY <2>1, <2>5, <2>6 DEF Row
  <2>8. \A x \in row.roles : Exists(x)
    BY <1>2, <1>3, <1>6, <1>9, <2>1, <2>2, <2>7 DEF Sound, TypeOK
  <2>9. ASSUME NEW v \in Users \ {q.user}, Present(v) PROVE users[v].email # row.email
    <3>1. users[v].email # old.email
      BY <1>2, <1>3, <2>1, <2>9 DEF Sound, Unique
    <3> QED
      BY <1>6, <1>9, <2>3, <2>7, <2>9, <3>1 DEF EmailFree
  <2>10. \A x \in row.roles \ old.roles : ~q.super => Raw(x) \subseteq granted[row.tenant]
    BY <1>2, <1>3, <1>4, <2>1, <2>2, <2>7
  <2> QED
    BY <1>1, <1>2, <1>3, <2>1, <2>7, <2>8, <2>9, <2>10, Reassigned
<1> QED
  BY <1>1, <1>2, <1>8, <1>9, Written DEF OnUser

LEMMA DeleteUserSound ==
    ASSUME Sound, NEW r \in Requests, DeleteUserCommit(r)
    PROVE  Sound' /\ Ruled
<1>1. reqs[r].op = "delete user" /\ Committing(r, reqs[r].op)
  BY DEF DeleteUserCommit, Committing
<1>2. reqs[r].user \in Users /\ Known(reqs[r].user)
  BY <1>1, Parts DEF Acquainted, OnUser, Known
<1>3. Admissible(r, reqs[r].user, Gone)
  BY <1>1, <1>2, TablesAssumption DEF Admissible, Known
<1>4. PICK ok \in BOOLEAN :
          ok = (Present(reqs[r].user) /\ reqs[r].seen \subseteq users[reqs[r].user].roles)
  OBVIOUS
<1>5. Write(r, ok, reqs[r].user, Gone)
  BY <1>4 DEF DeleteUserCommit
<1> QED
  BY <1>1, <1>2, <1>3, <1>5, Written DEF OnUser

LEMMA RoleOfUserSound ==
    ASSUME Sound, NEW r \in Requests, AddRoleCommit(r) \/ RemoveRoleCommit(r)
    PROVE  Sound' /\ Ruled
<1>1. PICK q \in ReqRec : q = reqs[r] /\ q.op \in {"add role", "remove role"}
  BY Parts DEF AddRoleCommit, RemoveRoleCommit, Committing
<1>2. PICK u \in Users : u = q.user /\ Known(u)
  BY <1>1, Parts DEF Acquainted, OnUser, Known
<1>3. PICK x : x = q.role
  OBVIOUS
<1>4. ASSUME NEW rs \in SUBSET Roles, Present(u), NEW row,
             row = [users[u] EXCEPT !.roles = rs]
      PROVE  /\ row \in Row /\ row.tenant = users[u].tenant /\ row.super = users[u].super
             /\ row.roles = rs /\ row.email = users[u].email
             /\ \A v \in Users \ {u} : Present(v) => users[v].email # row.email
  <2>1. users[u] \in Row
    BY <1>4, Parts
  <2>2. /\ row \in Row /\ row.tenant = users[u].tenant /\ row.super = users[u].super
        /\ row.roles = rs /\ row.email = users[u].email
    BY <1>4, <2>1 DEF Row
  <2> QED
    BY <1>4, <2>2 DEF Sound, Unique
<1>5. CASE AddRoleCommit(r)
  <2>1. PICK ok \in BOOLEAN : ok = (Present(u) /\ Exists(x) /\ x \notin users[u].roles)
    OBVIOUS
  <2>2. PICK rs : rs = users[u].roles \cup {x}
    OBVIOUS
  <2>3. PICK row : row = IF ok THEN [users[u] EXCEPT !.roles = rs] ELSE Gone
    OBVIOUS
  <2>4. Write(r, ok, u, row) /\ Committing(r, reqs[r].op)
    BY <1>1, <1>2, <1>3, <1>5, <2>1, <2>2, <2>3 DEF AddRoleCommit, Committing
  <2>5. ASSUME ok PROVE Admissible(r, u, row)
    <3>1. x \in Roles /\ (~q.super => Raw(x) \subseteq granted[users[u].tenant])
      BY <1>1, <1>2, <1>3, <1>5, <2>1, <2>5, Parts DEF Giving, AddRoleCommit, Committing
    <3>2. rs \in SUBSET Roles /\ Present(u) /\ row = [users[u] EXCEPT !.roles = rs]
      BY <2>1, <2>2, <2>3, <2>5, <3>1, Parts DEF Row
    <3>3. /\ row \in Row /\ row.tenant = users[u].tenant /\ row.super = users[u].super
          /\ row.roles = rs
          /\ \A v \in Users \ {u} : Present(v) => users[v].email # row.email
      BY <1>4, <3>2
    <3>4. \A y \in row.roles : Exists(y)
      BY <2>1, <2>2, <2>5, <3>2, <3>3 DEF Sound, TypeOK
    <3>5. \A y \in row.roles \ users[u].roles : ~reqs[r].super => Raw(y) \subseteq granted[row.tenant]
      BY <1>1, <2>2, <3>1, <3>3
    <3> QED
      BY <3>2, <3>3, <3>4, <3>5, Reassigned
  <2> QED
    BY <1>1, <1>2, <2>4, <2>5, Written DEF OnUser
<1>6. CASE RemoveRoleCommit(r)
  <2>1. PICK ok \in BOOLEAN : ok = (Present(u) /\ x \in users[u].roles)
    OBVIOUS
  <2>2. PICK rs : rs = users[u].roles \ {x}
    OBVIOUS
  <2>3. PICK row : row = IF ok THEN [users[u] EXCEPT !.roles = rs] ELSE Gone
    OBVIOUS
  <2>4. Write(r, ok, u, row) /\ Committing(r, reqs[r].op)
    BY <1>1, <1>2, <1>3, <1>6, <2>1, <2>2, <2>3 DEF RemoveRoleCommit, Committing
  <2>5. ASSUME ok PROVE Admissible(r, u, row)
    <3>1. rs \in SUBSET Roles /\ Present(u) /\ row = [users[u] EXCEPT !.roles = rs]
      BY <2>1, <2>2, <2>3, <2>5, Parts DEF Row
    <3>2. /\ row \in Row /\ row.tenant = users[u].tenant /\ row.super = users[u].super
          /\ row.roles = rs
          /\ \A v \in Users \ {u} : Present(v) => users[v].email # row.email
      BY <1>4, <3>1
    <3>3. \A y \in row.roles : Exists(y)
      BY <2>2, <3>1, <3>2 DEF Sound, TypeOK
    <3>4. row.roles \ users[u].roles = {}
      BY <2>2, <3>2
    <3> QED
      BY <3>1, <3>2, <3>3, <3>4, Reassigned
  <2> QED
    BY <1>1, <1>2, <2>4, <2>5, Written DEF OnUser
<1> QED
  BY <1>5, <1>6

-----------------------------------------------------------------------------
(* The table of roles is written.                                           *)

(* The accounts that are there keep all but some of their roles.            *)
Trimmed == \A u \in Users :
    /\ ~Present(u) => users'[u] = users[u]
    /\ Present(u) => /\ users'[u] \in Row
                     /\ users'[u].tenant = users[u].tenant
                     /\ users'[u].super = users[u].super
                     /\ users'[u].email = users[u].email
                     /\ users'[u].roles \subseteq users[u].roles

(* A role stays, goes with all that hold it, or gives everywhere what it    *)
(* grants.                                                                  *)
Published == \A x \in Roles :
    \/ roles'[x] = roles[x]
    \/ roles'[x] = None /\ \A u \in Users : Present(u) => x \notin users'[u].roles
    \/ /\ roles'[x] \in Role
       /\ \A t \in Tenants : {p \in Basic : RoleGrants(roles'[x].perms, p)} \subseteq granted'[t]

LEMMA TrimmedKept ==
    ASSUME Sound, Trimmed
    PROVE  Kept /\ \A u \in Users : Present(u)' <=> Present(u)
<1>1. ASSUME NEW u \in Users
      PROVE  /\ Present(u)' <=> Present(u)
             /\ Known(u) => Known(u)'
  <2>1. CASE Present(u)
    <3>1. users'[u] \notin {None, Gone}
      BY <2>1, TablesAssumption DEF Trimmed
    <3> QED
      BY <2>1, <3>1 DEF Present, Known
  <2>2. CASE ~Present(u)
    <3>1. users'[u] = users[u]
      BY <2>2 DEF Trimmed
    <3> QED
      BY <2>2, <3>1 DEF Present, Known
  <2> QED
    BY <2>1, <2>2
<1> QED
  BY <1>1 DEF Kept, Trimmed

LEMMA RolesWritten ==
    ASSUME Sound, Trimmed, Published, budget' \in [Kinds -> Nat],
           users' \in [Users -> Row \cup {None, Gone}],
           roles' \in [Roles -> Role \cup {None}],
           granted' \in [Tenants -> SUBSET Basic],
           \A t \in Tenants : granted[t] \subseteq granted'[t]
    PROVE  Kept /\ Rising /\ TypeOK' /\ PermissionsTraced' /\ Unique'
<1>1. Kept /\ \A u \in Users : Present(u)' <=> Present(u)
  BY TrimmedKept
<1>2. ASSUME NEW x \in Roles
      PROVE  Raw(x)' \subseteq Raw(x) \/ \A t \in Tenants : Raw(x)' \subseteq granted'[t]
  BY DEF Published, Raw, Exists
<1>3. Rising
  BY <1>2 DEF Rising
<1>4. ASSUME NEW u \in Users, Present(u), NEW x \in users'[u].roles
      PROVE  /\ x \in users[u].roles /\ x \in Roles /\ Exists(x) /\ Exists(x)'
             /\ \/ roles'[x] = roles[x]
                \/ \A t \in Tenants :
                       {p \in Basic : RoleGrants(roles'[x].perms, p)} \subseteq granted'[t]
  <2>1. x \in users[u].roles /\ x \in Roles /\ Exists(x)
    BY <1>4, Parts DEF Trimmed, Row, Sound, TypeOK
  <2> QED
    BY <1>4, <2>1, TablesAssumption DEF Published, Exists
<1>5. TypeOK'
  BY <1>1, <1>4 DEF TypeOK
<1>6. ASSUME NEW u \in Users, Present(u), ~users[u].super,
             NEW p \in Effective(users'[u].roles, roles')
      PROVE  p \in granted'[users'[u].tenant]
  <2>1. PICK x \in users'[u].roles :
            p \in Basic /\ roles'[x].active /\ RoleGrants(roles'[x].perms, p)
    BY <1>6 DEF Effective
  <2>2. users'[u].tenant = users[u].tenant /\ users[u].tenant \in Tenants
    BY <1>6, Parts DEF Trimmed, Row
  <2>3. CASE roles'[x] = roles[x]
    <3>1. p \in Effective(users[u].roles, roles)
      BY <1>4, <1>6, <2>1, <2>3 DEF Effective
    <3>2. p \in granted[users[u].tenant]
      BY <1>6, <3>1 DEF Sound, PermissionsTraced
    <3> QED
      BY <2>2, <3>2
  <2>4. CASE roles'[x] # roles[x]
    BY <1>4, <1>6, <2>1, <2>2, <2>4
  <2> QED
    BY <2>3, <2>4
<1>7. PermissionsTraced'
  BY <1>1, <1>6 DEF PermissionsTraced, Trimmed
<1>8. Unique'
  BY <1>1 DEF Sound, Unique, Trimmed
<1> QED
  BY <1>1, <1>3, <1>5, <1>7, <1>8

LEMMA Unmoved ==
    ASSUME Sound, users' = users
    PROVE  Trimmed /\ users' \in [Users -> Row \cup {None, Gone}]
  BY Parts DEF Trimmed

(* What a commit on roles writes.                                           *)
LEMMA RoleRow ==
    ASSUME Sound, NEW ok \in BOOLEAN, NEW x \in Roles, NEW row \in Role, WriteRole(ok, x, row)
    PROVE  /\ roles' \in [Roles -> Role \cup {None}]
           /\ granted' \in [Tenants -> SUBSET Basic]
           /\ \A t \in Tenants : granted[t] \subseteq granted'[t]
           /\ \A y \in Roles : \/ roles'[y] = roles[y]
                               \/ /\ roles'[y] \in Role
                                  /\ \A t \in Tenants :
                                       {p \in Basic : RoleGrants(roles'[y].perms, p)}
                                           \subseteq granted'[t]
<1>1. row # None
  BY TablesAssumption
<1>2. PICK given : given = IF ok THEN {p \in Basic : RoleGrants(row.perms, p)} ELSE {}
  OBVIOUS
<1>3. given \subseteq Basic
  BY <1>2
<1>4. granted' = [t \in Tenants |-> granted[t] \cup given]
  BY <1>1, <1>2 DEF WriteRole
<1>5. granted' \in [Tenants -> SUBSET Basic] /\ \A t \in Tenants : granted'[t] = granted[t] \cup given
  BY <1>3, <1>4, Parts
<1>6. roles' = IF ok THEN [roles EXCEPT ![x] = row] ELSE roles
  BY DEF WriteRole
<1>7. roles' \in [Roles -> Role \cup {None}]
  BY <1>6, Parts
<1>8. ASSUME NEW y \in Roles, roles'[y] # roles[y] PROVE ok /\ roles'[y] = row
  BY <1>6, <1>8, Parts
<1> QED
  BY <1>2, <1>5, <1>7, <1>8

LEMMA RoleServed ==
    ASSUME Sound, NEW r \in Requests, Committing(r, reqs[r].op), Kept, Rising, Trimmed,
           TypeOK' /\ PermissionsTraced' /\ Unique'
    PROVE  Sound'
<1>1. reqs' = [reqs EXCEPT ![r] = Idle]
  BY DEF Committing
<1>2. ASSUME NEW s \in Requests \ {r}, reqs[s].op = "create user"
      PROVE  users'[reqs[s].user] = None
  BY <1>2, Parts DEF Creating, Trimmed, Present
<1>3. Asked'
  BY <1>1, <1>2, Served
<1> QED
  BY <1>3 DEF Sound

LEMMA RoleSound ==
    ASSUME Sound, NEW r \in Requests, CreateRoleCommit(r) \/ UpdateRoleCommit(r)
    PROVE  Sound'
<1>1. PICK q \in ReqRec : q = reqs[r] /\ q.op \in {"create role", "update role"}
  BY Parts DEF CreateRoleCommit, UpdateRoleCommit, Committing
<1>2. /\ q.role \in Roles /\ q.perms \in SUBSET Permissions
      /\ q.op = "update role" => q.active \in BOOLEAN
  BY <1>1, Parts DEF Giving, OnRole, ReqRec
<1>3. Committing(r, reqs[r].op) /\ users' = users /\ budget' = budget
  BY DEF CreateRoleCommit, UpdateRoleCommit, Committing
<1>4. \E ok \in BOOLEAN, row \in Role : WriteRole(ok, q.role, row)
  <2>1. CASE CreateRoleCommit(r)
    <3>1. PICK ok \in BOOLEAN : ok = ~Exists(q.role)
      OBVIOUS
    <3>2. PICK row : row = [perms |-> q.perms, active |-> TRUE, system |-> FALSE]
      OBVIOUS
    <3>3. row \in Role
      BY <1>2, <3>2 DEF Role
    <3>4. WriteRole(ok, q.role, row)
      BY <1>1, <2>1, <3>1, <3>2 DEF CreateRoleCommit
    <3> QED
      BY <3>3, <3>4
  <2>2. CASE UpdateRoleCommit(r)
    <3>1. PICK ok \in BOOLEAN : ok = Exists(q.role)
      BY DEF Exists
    <3>2. PICK row : row = [perms |-> q.perms, active |-> q.active, system |-> FALSE]
      OBVIOUS
    <3>3. q.op = "update role"
      BY <1>1, <2>2 DEF UpdateRoleCommit, Committing
    <3>4. row \in Role
      BY <1>2, <3>2, <3>3 DEF Role
    <3>5. WriteRole(ok, q.role, row)
      BY <1>1, <2>2, <3>1, <3>2 DEF UpdateRoleCommit
    <3> QED
      BY <3>4, <3>5
  <2> QED
    BY <2>1, <2>2
<1>5. PICK ok \in BOOLEAN, row \in Role : WriteRole(ok, q.role, row)
  BY <1>4
<1>6. Trimmed /\ users' \in [Users -> Row \cup {None, Gone}]
  BY <1>3, Unmoved
<1>7. /\ roles' \in [Roles -> Role \cup {None}] /\ granted' \in [Tenants -> SUBSET Basic]
      /\ \A t \in Tenants : granted[t] \subseteq granted'[t]
      /\ \A y \in Roles : \/ roles'[y] = roles[y]
                          \/ /\ roles'[y] \in Role
                             /\ \A t \in Tenants :
                                  {p \in Basic : RoleGrants(roles'[y].perms, p)}
                                      \subseteq granted'[t]
  BY <1>2, <1>5, RoleRow
<1>8. Published
  BY <1>7 DEF Published
<1>9. budget' \in [Kinds -> Nat]
  BY <1>3, Parts
<1>10. Kept /\ Rising /\ TypeOK' /\ PermissionsTraced' /\ Unique'
  BY <1>6, <1>7, <1>8, <1>9, RolesWritten
<1> QED
  BY <1>3, <1>6, <1>10, RoleServed

LEMMA DeleteRoleTrims ==
    ASSUME Sound, NEW x,
           users' = [u \in Users |->
                       IF Present(u) THEN [users[u] EXCEPT !.roles = @ \ {x}] ELSE users[u]]
    PROVE  /\ Trimmed /\ users' \in [Users -> Row \cup {None, Gone}]
           /\ \A u \in Users : Present(u) => users'[u].roles = users[u].roles \ {x}
<1>1. ASSUME NEW u \in Users, Present(u)
      PROVE  /\ users'[u] \in Row
             /\ users'[u].tenant = users[u].tenant
             /\ users'[u].super = users[u].super
             /\ users'[u].email = users[u].email
             /\ users'[u].roles = users[u].roles \ {x}
  <2>1. PICK row \in Row : row = users[u]
    BY <1>1, Parts
  <2>2. PICK rs \in SUBSET Roles : rs = row.roles \ {x}
    BY DEF Row
  <2>3. users'[u] = [row EXCEPT !.roles = rs]
    BY <1>1, <2>1, <2>2
  <2> QED
    BY <2>1, <2>2, <2>3 DEF Row
<1>2. ASSUME NEW u \in Users, ~Present(u) PROVE users'[u] = users[u]
  BY <1>2
<1>3. Trimmed
  BY <1>1, <1>2 DEF Trimmed
<1>4. \A u \in Users : users'[u] \in Row \cup {None, Gone}
  BY <1>1, <1>2, Parts
<1> QED
  BY <1>1, <1>3, <1>4

LEMMA DeleteRoleSound ==
    ASSUME Sound, NEW r \in Requests, DeleteRoleCommit(r)
    PROVE  Sound'
<1>1. PICK x \in Roles : x = reqs[r].role
  BY Parts DEF DeleteRoleCommit, Committing, Giving, OnRole
<1>2. Committing(r, reqs[r].op) /\ budget' = budget
  BY DEF DeleteRoleCommit, Committing
<1>3. /\ roles' = [roles EXCEPT ![x] = None]
      /\ granted' = [t \in Tenants |-> granted[t] \cup {}]
  BY <1>1 DEF DeleteRoleCommit, WriteRole
<1>4. /\ roles' \in [Roles -> Role \cup {None}] /\ granted' \in [Tenants -> SUBSET Basic]
      /\ \A t \in Tenants : granted[t] \subseteq granted'[t]
      /\ roles'[x] = None /\ \A y \in Roles \ {x} : roles'[y] = roles[y]
  BY <1>3, Parts
<1>5. /\ Trimmed /\ users' \in [Users -> Row \cup {None, Gone}]
      /\ \A u \in Users : Present(u) => users'[u].roles = users[u].roles \ {x}
  <2>1. users' = [u \in Users |->
                    IF Present(u) THEN [users[u] EXCEPT !.roles = @ \ {x}] ELSE users[u]]
    BY <1>1 DEF DeleteRoleCommit
  <2> QED
    BY <2>1, DeleteRoleTrims
<1>6. Published
  BY <1>4, <1>5 DEF Published
<1>7. budget' \in [Kinds -> Nat]
  BY <1>2, Parts
<1>8. Kept /\ Rising /\ TypeOK' /\ PermissionsTraced' /\ Unique'
  BY <1>4, <1>5, <1>6, <1>7, RolesWritten
<1> QED
  BY <1>2, <1>5, <1>8, RoleServed

LEMMA SpendType == ASSUME Sound, NEW k \in Kinds, Spend(k) PROVE budget' \in [Kinds -> Nat]
<1>1. budget \in [Kinds -> Nat] /\ budget[k] \in Nat /\ budget[k] > 0
  BY Parts DEF Spend
<1>2. PICK n \in Nat : n = budget[k] - 1
  BY <1>1
<1>3. budget' = [budget EXCEPT ![k] = n]
  BY <1>2 DEF Spend
<1> QED
  BY <1>1, <1>3

LEMMA InitRolesSound ==
    ASSUME Sound, NEW r \in Requests, InitRolesCommit(r)
    PROVE  Sound'
<1>1. users' = users /\ budget' = budget /\ Committing(r, reqs[r].op) /\ reqs[r].op = "init roles"
  BY DEF InitRolesCommit, Committing
<1>2. PICK given : given = {p \in Basic : \E x \in Roles :
                              roles'[x] # roles[x] /\ RoleGrants(roles'[x].perms, p)}
  OBVIOUS
<1>3. granted' = [t \in Tenants |-> granted[t] \cup given]
  BY <1>2 DEF InitRolesCommit
<1>4. /\ granted' \in [Tenants -> SUBSET Basic]
      /\ \A t \in Tenants : granted[t] \subseteq granted'[t] /\ given \subseteq granted'[t]
  BY <1>2, <1>3, Parts
<1>5. ASSUME NEW x \in Roles, roles'[x] # roles[x] PROVE roles'[x] \in Role
  <2>1. PICK b : b = IF x \in reqs[r].seen THEN roles[x].active ELSE TRUE
    OBVIOUS
  <2>2. /\ x \in reqs[r].roles \cup reqs[r].seen /\ (x \in reqs[r].seen => Exists(x))
        /\ roles'[x] = [perms |-> RolePermissions[x], system |-> TRUE, active |-> b]
    BY <1>5, <2>1 DEF InitRolesCommit
  <2>3. x \in SystemRoles
    BY <1>1, <2>2, Parts DEF Giving
  <2>4. b \in BOOLEAN
    BY <2>1, <2>2, Parts DEF Role
  <2>5. RolePermissions[x] \in SUBSET Permissions
    BY <2>3, RolesAssumption
  <2> QED
    BY <2>2, <2>4, <2>5 DEF Role
<1>6. roles' \in [Roles -> Role \cup {None}]
  <2>1. DOMAIN roles' = Roles /\ roles' = [x \in Roles |-> roles'[x]]
    BY DEF InitRolesCommit
  <2>2. \A x \in Roles : roles'[x] \in Role \cup {None}
    BY <1>5, Parts
  <2> QED
    BY <2>1, <2>2
<1>7. Published
  BY <1>2, <1>4, <1>5 DEF Published
<1>8. Trimmed /\ users' \in [Users -> Row \cup {None, Gone}] /\ budget' \in [Kinds -> Nat]
  BY <1>1, Unmoved, Parts
<1>9. Kept /\ Rising /\ TypeOK' /\ PermissionsTraced' /\ Unique'
  BY <1>4, <1>6, <1>7, <1>8, RolesWritten
<1> QED
  BY <1>1, <1>8, <1>9, RoleServed

(* A commit that a name fails writes nothing.                               *)
LEMMA NameTakenSound ==
    ASSUME Sound, NEW r \in Requests, NameTaken(r)
    PROVE  Sound'
<1>1. users' = users /\ roles' = roles /\ granted' = granted /\ budget' = budget
      /\ Committing(r, reqs[r].op)
  BY DEF NameTaken, Committing
<1>2. Published
  BY <1>1 DEF Published
<1>3. Trimmed /\ users' \in [Users -> Row \cup {None, Gone}]
  BY <1>1, Unmoved
<1>4. /\ budget' \in [Kinds -> Nat] /\ roles' \in [Roles -> Role \cup {None}]
      /\ granted' \in [Tenants -> SUBSET Basic]
      /\ \A t \in Tenants : granted[t] \subseteq granted'[t]
  BY <1>1, Parts
<1>5. Kept /\ Rising /\ TypeOK' /\ PermissionsTraced' /\ Unique'
  BY <1>2, <1>3, <1>4, RolesWritten
<1> QED
  BY <1>1, <1>3, <1>5, RoleServed

-----------------------------------------------------------------------------
(* A request looks.                                                         *)

(* What a request that creates an account was allowed.                      *)
Fresh(q) ==
    /\ q.user \in Users /\ users[q.user] = None
    /\ \A s \in Requests : reqs[s].user # q.user
    /\ q.email \in Emails /\ q.email[2] = "lower"
    /\ q.tenant \in Tenants /\ q.roles \in SUBSET Roles
    /\ ~q.super => \A x \in q.roles : Raw(x) \subseteq granted[q.tenant]

LEMMA Begun ==
    ASSUME Sound, NEW r \in Requests, NEW c \in Users, NEW k \in Kinds, Ready(r, k),
           NEW req, Begin(r, c, req), NEW q \in ReqRec,
           q = [req EXCEPT !.by = c, !.super = users[c].super],
           Acquainted(q), Giving(q), q.op = "create user" => Fresh(q),
           q.op \in OnUser \cup {"create user"} \/ q.user = None
    PROVE  Sound'
<1>1. /\ users' = users /\ roles' = roles /\ granted' = granted
      /\ reqs' = [reqs EXCEPT ![r] = q]
  BY DEF Begin
<1>2. budget' \in [Kinds -> Nat]
  BY SpendType DEF Ready
<1>3. /\ reqs' \in [Requests -> ReqRec] /\ reqs'[r] = q
      /\ \A s \in Requests \ {r} : reqs'[s] = reqs[s]
  BY <1>1, RequestBecomes
<1>4. Kept /\ Rising
  <2>1. \A x \in Roles : Raw(x)' = Raw(x)
    BY <1>1 DEF Raw, Exists
  <2> QED
    BY <1>1, <2>1 DEF Kept, Rising, Known, Present
<1>5. \A s \in Requests : reqs[s].op = "create user" => q.user # reqs[s].user
  <2>1. ASSUME NEW s \in Requests, reqs[s].op = "create user" PROVE q.user # reqs[s].user
    <3>1. reqs[s].user \in Users /\ users[reqs[s].user] = None
      BY <2>1, Parts DEF Creating
    <3>2. CASE q.op = "create user"
      BY <3>2 DEF Fresh
    <3>3. CASE q.op \in OnUser
      BY <3>1, <3>3 DEF Acquainted, Known
    <3>4. CASE q.user = None
      BY <3>1, <3>4, InputAssumption
    <3> QED
      BY <3>2, <3>3, <3>4
  <2> QED
    BY <2>1
<1>6. ASSUME NEW s \in Requests \ {r}
      PROVE  Acquainted(reqs[s])' /\ Giving(reqs[s])' /\ Creating(s)'
  <2>1. PICK p \in ReqRec : p = reqs[s] /\ Acquainted(p) /\ Giving(p)
    BY Parts
  <2>2. Acquainted(p)' /\ Giving(p)'
    BY <1>4, <2>1, RequestKept
  <2>3. p = reqs'[s]
    BY <1>3, <2>1
  <2>4. reqs[s].op = "create user" =>
            /\ users'[reqs[s].user] = None
            /\ \A t \in Requests \ {s} : reqs'[t].user # reqs[s].user
    BY <1>1, <1>3, <1>5, Parts DEF Creating
  <2>5. Creating(s)'
    BY <1>3, <1>4, <2>4, CreatingKept
  <2> QED
    BY <2>2, <2>3, <2>5
<1>7. Acquainted(reqs[r])' /\ Giving(reqs[r])'
  <2>1. Acquainted(q)' /\ Giving(q)'
    BY <1>4, RequestKept
  <2> QED
    BY <1>3, <2>1
<1>8. Creating(r)'
  <2>1. q.op = "create user" =>
            \A x \in q.roles : ~q.super => Raw(x)' \subseteq granted'[q.tenant]
    BY <1>1 DEF Fresh, Raw, Exists
  <2> QED
    BY <1>1, <1>3, <2>1 DEF Fresh, Creating
<1>9. Asked'
  BY <1>3, <1>6, <1>7, <1>8 DEF Asked
<1>10. TypeOK'
  BY <1>1, <1>2, Parts DEF Sound, TypeOK, Present, Exists
<1>11. PermissionsTraced' /\ Unique'
  BY <1>1 DEF Sound, PermissionsTraced, Unique, Present
<1> QED
  BY <1>9, <1>10, <1>11 DEF Sound

(* An account that is allowed something is there.                           *)
LEMMA Caller ==
    ASSUME Sound, NEW c \in Users, NEW res, NEW act, Allowed(c, res, act)
    PROVE  Present(c) /\ Known(c) /\ users[c] \in Row /\ users[c].super \in BOOLEAN
<1>1. Present(c) /\ users[c] \in Row
  BY Parts DEF Allowed
<1> QED
  BY <1>1 DEF Row, Present, Known

LEMMA CreateUserBegins ==
    ASSUME Sound, NEW r \in Requests, NEW c \in Users, NEW u \in Users,
           NEW new \in NewUsers, CreateUserBegin(r, c, u, new)
    PROVE  Sound'
<1>1. Present(c) /\ Known(c) /\ users[c].super \in BOOLEAN
  BY Caller DEF CreateUserBegin
<1>2. new.tenant \in Tenants /\ new.roles \in SUBSET Roles /\ new.email \in Addresses \X Spellings
  BY InputAssumption
<1>3. PICK mail : mail = Lower(new.email)
  OBVIOUS
<1>4. mail \in Emails /\ mail[2] = "lower"
  BY <1>2, <1>3 DEF Lower, Emails
<1>5. PICK req : req = [Idle EXCEPT !.op = "create user", !.email = mail,
                         !.tenant = new.tenant, !.roles = new.roles, !.user = u]
  OBVIOUS
<1>6. PICK q : q = [req EXCEPT !.by = c, !.super = users[c].super]
  OBVIOUS
<1>7. /\ q \in ReqRec /\ q.op = "create user" /\ q.user = u /\ q.by = c
      /\ q.super = users[c].super /\ q.email = mail /\ q.tenant = new.tenant
      /\ q.roles = new.roles
  BY <1>1, <1>2, <1>4, <1>5, <1>6 DEF Idle, ReqRec, Ops
<1>8. Ready(r, "create") /\ Begin(r, c, req)
  BY <1>3, <1>5 DEF CreateUserBegin
<1>9. ~q.super => \A x \in q.roles : Raw(x) \subseteq granted[q.tenant]
  BY <1>1, <1>2, <1>7, Assigned DEF CreateUserBegin
<1>10. Fresh(q)
  BY <1>2, <1>4, <1>7, <1>9 DEF Fresh, CreateUserBegin
<1>11. Acquainted(q) /\ Giving(q)
  BY <1>7 DEF Acquainted, Giving, OnUser, OnRole
<1>12. "create" \in Kinds
  BY DEF Kinds
<1> QED
  BY <1>6, <1>7, <1>8, <1>10, <1>11, <1>12, Begun

LEMMA UpdateUserBegins ==
    ASSUME Sound, NEW r \in Requests, NEW c \in Users, NEW u \in Users,
           NEW patch \in Patches, UpdateUserBegin(r, c, u, patch)
    PROVE  Sound'
<1>1. Present(c) /\ Known(c) /\ users[c].super \in BOOLEAN
  BY Caller DEF UpdateUserBegin
<1>2. Present(u) /\ Known(u) /\ users[u] \in Row /\ users[u].roles \in SUBSET Roles
  <2>1. Present(u) /\ users[u] \in Row
    BY Parts DEF UpdateUserBegin
  <2> QED
    BY <2>1 DEF Row, Present, Known
<1>3. /\ patch.email \in (Addresses \X Spellings) \cup {None}
      /\ patch.active \in BOOLEAN \cup {None}
      /\ patch.roles \in (SUBSET Roles) \cup {None}
  BY InputAssumption
<1>4. PICK mail : mail = IF patch.email = None THEN None ELSE NewEmail(u, patch.email)
  OBVIOUS
<1>5. PICK act : act = IF patch.active = users[u].active THEN None ELSE patch.active
  OBVIOUS
<1>6. PICK rs : rs = IF patch.roles = None THEN users[u].roles ELSE patch.roles
  OBVIOUS
<1>7. mail \in Emails \cup {None} /\ act \in BOOLEAN \cup {None} /\ rs \in SUBSET Roles
  <2>1. patch.email # None => NewEmail(u, patch.email) \in Emails
    BY <1>3, InputAssumption DEF NewEmail, Lower, Emails
  <2> QED
    BY <1>2, <1>3, <1>4, <1>5, <1>6, <2>1
<1>8. PICK req : req = [Idle EXCEPT !.op = "update user", !.user = u,
                          !.seen = users[u].roles, !.email = mail, !.active = act,
                          !.roles = rs]
  OBVIOUS
<1>9. PICK q : q = [req EXCEPT !.by = c, !.super = users[c].super]
  OBVIOUS
<1>10. /\ q \in ReqRec /\ q.op = "update user" /\ q.user = u /\ q.by = c
       /\ q.super = users[c].super /\ q.seen = users[u].roles /\ q.roles = rs
  BY <1>1, <1>2, <1>7, <1>8, <1>9 DEF Idle, ReqRec, Ops
<1>11. Ready(r, "update") /\ Begin(r, c, req)
  BY <1>4, <1>5, <1>6, <1>8 DEF UpdateUserBegin
<1>12. ~users[c].super => users[u].tenant = users[c].tenant
  BY DEF UpdateUserBegin, SameTenant
<1>13. Acquainted(q)
  BY <1>1, <1>2, <1>10, <1>12 DEF Acquainted
<1>14. ASSUME ~users[c].super, NEW x \in rs \ users[u].roles
       PROVE  Raw(x) \subseteq granted[users[u].tenant]
  <2>1. patch.roles # None /\ patch.roles = rs
    BY <1>6, <1>14
  <2>2. MayAssign(c, rs)
    BY <2>1 DEF UpdateUserBegin
  <2>3. Raw(x) \subseteq granted[users[c].tenant]
    BY <1>1, <1>7, <1>14, <2>2, Assigned
  <2> QED
    BY <1>12, <1>14, <2>3
<1>15. Giving(q)
  BY <1>7, <1>10, <1>14 DEF Giving, OnRole
<1>16. "update" \in Kinds /\ q.op \in OnUser
  BY <1>10 DEF Kinds, OnUser
<1> QED
  BY <1>9, <1>10, <1>11, <1>13, <1>15, <1>16, Begun

LEMMA DeleteUserBegins ==
    ASSUME Sound, NEW r \in Requests, NEW c \in Users, NEW u \in Users,
           DeleteUserBegin(r, c, u)
    PROVE  Sound'
<1>1. Present(c) /\ Known(c) /\ users[c].super \in BOOLEAN
  BY Caller DEF DeleteUserBegin
<1>2. Present(u) /\ Known(u) /\ users[u] \in Row /\ users[u].roles \in SUBSET Roles
  <2>1. Present(u) /\ users[u] \in Row
    BY Parts DEF DeleteUserBegin
  <2> QED
    BY <2>1 DEF Row, Present, Known
<1>3. PICK req : req = [Idle EXCEPT !.op = "delete user", !.user = u,
                                    !.seen = users[u].roles]
  OBVIOUS
<1>4. PICK q : q = [req EXCEPT !.by = c, !.super = users[c].super]
  OBVIOUS
<1>5. /\ q \in ReqRec /\ q.op = "delete user" /\ q.user = u /\ q.by = c
      /\ q.super = users[c].super
  BY <1>1, <1>2, <1>3, <1>4 DEF Idle, ReqRec, Ops
<1>6. Ready(r, "delete") /\ Begin(r, c, req)
  BY <1>3 DEF DeleteUserBegin
<1>7. Acquainted(q)
  BY <1>1, <1>2, <1>5 DEF Acquainted, DeleteUserBegin, SameTenant
<1>8. Giving(q)
  BY <1>2, <1>5 DEF Giving, OnRole, DeleteUserBegin, IsSuperAdmin
<1>9. "delete" \in Kinds /\ q.op \in OnUser
  BY <1>5 DEF Kinds, OnUser
<1> QED
  BY <1>4, <1>5, <1>6, <1>7, <1>8, <1>9, Begun

LEMMA RoleOfUserBegins ==
    ASSUME Sound, NEW r \in Requests, NEW c \in Users, NEW u \in Users, NEW x \in Roles,
           AddRoleBegin(r, c, u, x) \/ RemoveRoleBegin(r, c, u, x)
    PROVE  Sound'
<1>1. Present(c) /\ Known(c) /\ users[c].super \in BOOLEAN
  BY Caller DEF AddRoleBegin, RemoveRoleBegin
<1>2. Present(u) /\ Known(u)
  BY DEF AddRoleBegin, RemoveRoleBegin, Present, Known
<1>3. PICK op \in {"add role", "remove role"} :
          op = IF AddRoleBegin(r, c, u, x) THEN "add role" ELSE "remove role"
  OBVIOUS
<1>4. PICK req : req = [Idle EXCEPT !.op = op, !.user = u, !.role = x]
  OBVIOUS
<1>5. PICK q : q = [req EXCEPT !.by = c, !.super = users[c].super]
  OBVIOUS
<1>6. /\ q \in ReqRec /\ q.op = op /\ q.user = u /\ q.by = c /\ q.role = x
      /\ q.super = users[c].super
  BY <1>1, <1>3, <1>4, <1>5 DEF Idle, ReqRec, Ops
<1>7. Ready(r, "grant") /\ Begin(r, c, req)
  BY <1>3, <1>4 DEF AddRoleBegin, RemoveRoleBegin
<1>8. ~users[c].super => users[u].tenant = users[c].tenant
  BY DEF AddRoleBegin, RemoveRoleBegin, SameTenant
<1>9. Acquainted(q)
  BY <1>1, <1>2, <1>6, <1>8 DEF Acquainted
<1>10. op = "add role" /\ ~users[c].super => Raw(x) \subseteq granted[users[u].tenant]
  <2>1. op = "add role" => MayAssign(c, {x})
    BY <1>3 DEF AddRoleBegin
  <2>2. PICK rs \in SUBSET Roles : rs = {x}
    OBVIOUS
  <2> QED
    BY <1>1, <1>8, <2>1, <2>2, Assigned
<1>11. Giving(q)
  BY <1>3, <1>6, <1>10 DEF Giving, OnRole
<1>12. "grant" \in Kinds /\ q.op \in OnUser
  BY <1>3, <1>6 DEF Kinds, OnUser
<1> QED
  BY <1>5, <1>6, <1>7, <1>9, <1>11, <1>12, Begun

LEMMA RoleBegins ==
    ASSUME Sound, NEW r \in Requests, NEW c \in Users, Ready(r, "role"),
           NEW req, Begin(r, c, req), NEW q \in ReqRec,
           q = [req EXCEPT !.by = c, !.super = users[c].super],
           q.op \in OnRole, q.user = None, q.role \in Roles,
           q.op = "update role" => q.active \in BOOLEAN,
           q.op = "delete role" => q.seen = {}
    PROVE  Sound'
<1>1. Acquainted(q) /\ Giving(q) /\ q.op # "create user"
  BY DEF Acquainted, Giving, OnUser, OnRole
<1>2. "role" \in Kinds
  BY DEF Kinds
<1> QED
  BY <1>1, <1>2, Begun

LEMMA RoleCallSound ==
    ASSUME Sound, NEW r \in Requests, NEW c \in Users, RoleCall(r, c)
    PROVE  Sound'
<1>1. ASSUME NEW x \in Roles, NEW perms \in RoleBodies, CreateRoleBegin(r, c, x, perms)
      PROVE  Sound'
  <2>1. Present(c) /\ Ready(r, "role") /\ perms \in SUBSET Permissions
    BY <1>1, RolesAssumption DEF CreateRoleBegin, Allowed
  <2>2. users[c].super \in BOOLEAN
    BY <2>1, Parts DEF Row
  <2>3. PICK req : req = [Idle EXCEPT !.op = "create role", !.role = x, !.perms = perms]
    OBVIOUS
  <2>4. PICK q : q = [req EXCEPT !.by = c, !.super = users[c].super]
    OBVIOUS
  <2>5. /\ q \in ReqRec /\ q.op = "create role" /\ q.user = None /\ q.role = x
    BY <2>1, <2>2, <2>3, <2>4 DEF Idle, ReqRec, Ops
  <2>6. Begin(r, c, req)
    BY <1>1, <2>3 DEF CreateRoleBegin
  <2> QED
    BY <2>1, <2>4, <2>5, <2>6, RoleBegins DEF OnRole
<1>2. ASSUME NEW x \in Roles, NEW perms \in RoleBodies, NEW b \in BOOLEAN,
             UpdateRoleBegin(r, c, x, perms, b)
      PROVE  Sound'
  <2>1. Present(c) /\ Ready(r, "role") /\ perms \in SUBSET Permissions
    BY <1>2, RolesAssumption DEF UpdateRoleBegin, Allowed
  <2>2. users[c].super \in BOOLEAN
    BY <2>1, Parts DEF Row
  <2>3. PICK req : req = [Idle EXCEPT !.op = "update role", !.role = x, !.perms = perms,
                                      !.active = b]
    OBVIOUS
  <2>4. PICK q : q = [req EXCEPT !.by = c, !.super = users[c].super]
    OBVIOUS
  <2>5. /\ q \in ReqRec /\ q.op = "update role" /\ q.user = None /\ q.role = x
        /\ q.active = b
    BY <2>1, <2>2, <2>3, <2>4 DEF Idle, ReqRec, Ops
  <2>6. Begin(r, c, req)
    BY <1>2, <2>3 DEF UpdateRoleBegin
  <2> QED
    BY <2>1, <2>4, <2>5, <2>6, RoleBegins DEF OnRole
<1>3. ASSUME NEW x \in Roles, DeleteRoleBegin(r, c, x) PROVE Sound'
  <2>1. Present(c) /\ Ready(r, "role") /\ UsersWithRole(x) = {}
    BY <1>3 DEF DeleteRoleBegin, Allowed
  <2>2. users[c].super \in BOOLEAN
    BY <2>1, Parts DEF Row
  <2>3. PICK req : req = [Idle EXCEPT !.op = "delete role", !.role = x, !.seen = {}]
    OBVIOUS
  <2>4. PICK q : q = [req EXCEPT !.by = c, !.super = users[c].super]
    OBVIOUS
  <2>5. /\ q \in ReqRec /\ q.op = "delete role" /\ q.user = None /\ q.role = x /\ q.seen = {}
    BY <2>2, <2>3, <2>4 DEF Idle, ReqRec, Ops
  <2>6. Begin(r, c, req)
    BY <1>3, <2>1, <2>3 DEF DeleteRoleBegin
  <2> QED
    BY <2>1, <2>4, <2>5, <2>6, RoleBegins DEF OnRole
<1>4. ASSUME InitRolesBegin(r, c) PROVE Sound'
  <2>1. Present(c) /\ Ready(r, "init") /\ "init" \in Kinds
    BY <1>4 DEF InitRolesBegin, Allowed, Kinds
  <2>2. users[c].super \in BOOLEAN
    BY <2>1, Parts DEF Row
  <2>3. PICK missing \in SUBSET SystemRoles, stale \in SUBSET SystemRoles :
            Begin(r, c, [Idle EXCEPT !.op = "init roles", !.roles = missing, !.seen = stale])
    BY <1>4 DEF InitRolesBegin
  <2>4. PICK req : req = [Idle EXCEPT !.op = "init roles", !.roles = missing, !.seen = stale]
    OBVIOUS
  <2>5. PICK q : q = [req EXCEPT !.by = c, !.super = users[c].super]
    OBVIOUS
  <2>6. missing \in SUBSET Roles /\ stale \in SUBSET (Users \cup Roles)
    BY <2>3, RolesAssumption
  <2>7. /\ q \in ReqRec /\ q.op = "init roles" /\ q.user = None
        /\ q.roles = missing /\ q.seen = stale
    BY <2>2, <2>4, <2>5, <2>6 DEF Idle, ReqRec, Ops
  <2>8. Acquainted(q) /\ Giving(q)
    BY <2>3, <2>7 DEF Acquainted, Giving, OnUser, OnRole
  <2> QED
    BY <2>1, <2>3, <2>4, <2>5, <2>7, <2>8, Begun
<1> QED
  BY <1>1, <1>2, <1>3, <1>4 DEF RoleCall

-----------------------------------------------------------------------------
(* Every step.                                                              *)

LEMMA InitSound == ASSUME Init PROVE Sound
<1>1. \A u \in Users :
          /\ u \in DOMAIN InitialUsers => users[u] = InitialUsers[u] /\ users[u] \in Row
          /\ u \notin DOMAIN InitialUsers => users[u] = None
  BY TablesAssumption DEF Init
<1>2. \A u \in Users : Present(u) <=> u \in DOMAIN InitialUsers
  BY <1>1, TablesAssumption DEF Present
<1>3. \A x \in Roles :
          /\ x \in DOMAIN InitialRoles => roles[x] = InitialRoles[x] /\ roles[x] \in Role
          /\ x \notin DOMAIN InitialRoles => roles[x] = None
  BY TablesAssumption DEF Init
<1>4. \A x \in Roles : Exists(x) <=> x \in DOMAIN InitialRoles
  BY <1>3, TablesAssumption DEF Exists
<1>5. users \in [Users -> Row \cup {None, Gone}] /\ roles \in [Roles -> Role \cup {None}]
  BY <1>1, <1>3 DEF Init
<1>6. budget \in [Kinds -> Nat]
  BY InputAssumption DEF Init
<1>7. PICK given : given = [t \in Tenants |->
                     UNION {Effective(InitialUsers[u].roles, InitialRoles) :
                       u \in {v \in DOMAIN InitialUsers :
                                ~InitialUsers[v].super /\ InitialUsers[v].tenant = t}}]
  OBVIOUS
<1>8. granted = given
  BY <1>7 DEF Init
<1>9. granted \in [Tenants -> SUBSET Basic]
  BY <1>7, <1>8, EffectiveType
<1>10. TypeOK
  <2>1. ASSUME NEW u \in Users, Present(u) PROVE \A x \in users[u].roles : Exists(x)
    <3>1. u \in DOMAIN InitialUsers /\ users[u] = InitialUsers[u]
      BY <1>1, <1>2, <2>1
    <3> QED
      BY <1>4, <3>1, TablesAssumption
  <2> QED
    BY <1>5, <1>6, <1>9, <2>1 DEF TypeOK
<1>11. Asked
  <2>1. reqs \in [Requests -> ReqRec] /\ \A r \in Requests : reqs[r] = Idle
    BY IdleType DEF Init
  <2>2. \A r \in Requests : reqs[r].op = "idle"
    BY <2>1, IdleType
  <2> QED
    BY <2>1, <2>2 DEF Asked, Acquainted, Creating, Giving, OnUser, OnRole
<1>12. PermissionsTraced
  <2>1. ASSUME NEW u \in Users, Present(u), ~users[u].super,
               NEW p \in Effective(users[u].roles, roles)
        PROVE  p \in granted[users[u].tenant]
    <3>1. /\ u \in DOMAIN InitialUsers /\ users[u] = InitialUsers[u]
          /\ users[u].tenant \in Tenants
      BY <1>1, <1>2, <2>1 DEF Row
    <3>2. \A x \in users[u].roles : x \in Roles /\ roles[x] = InitialRoles[x]
      BY <1>3, <3>1, TablesAssumption
    <3>3. PICK x \in users[u].roles :
              p \in Basic /\ roles[x].active /\ RoleGrants(roles[x].perms, p)
      BY <2>1 DEF Effective
    <3>4. InitialRoles[x].active /\ RoleGrants(InitialRoles[x].perms, p)
      BY <3>2, <3>3
    <3>5. p \in Effective(InitialUsers[u].roles, InitialRoles)
      BY <3>1, <3>3, <3>4 DEF Effective
    <3>6. ~InitialUsers[u].super /\ InitialUsers[u].tenant = users[u].tenant
      BY <2>1, <3>1
    <3> QED
      BY <1>7, <1>8, <3>1, <3>5, <3>6
  <2> QED
    BY <2>1 DEF PermissionsTraced
<1>13. Unique
  BY <1>1, <1>2, TablesAssumption DEF Unique
<1> QED
  BY <1>10, <1>11, <1>12, <1>13 DEF Sound

LEMMA Stuttered == ASSUME Sound, UNCHANGED vars PROVE Sound'
<1>1. users' = users /\ roles' = roles /\ reqs' = reqs /\ budget' = budget /\ granted' = granted
  BY DEF vars
<1>2. \A x \in Roles : Raw(x)' = Raw(x)
  BY <1>1 DEF Raw, Exists
<1>3. Kept /\ Rising
  BY <1>1, <1>2 DEF Kept, Rising, Known, Present
<1>4. ASSUME NEW s \in Requests
      PROVE  Acquainted(reqs[s])' /\ Giving(reqs[s])' /\ Creating(s)'
  <2>1. PICK p \in ReqRec : p = reqs[s] /\ Acquainted(p) /\ Giving(p)
    BY Parts
  <2>2. Acquainted(p)' /\ Giving(p)'
    BY <1>3, <2>1, RequestKept
  <2>3. p = reqs'[s]
    BY <1>1, <2>1
  <2>4. reqs[s].op = "create user" =>
            /\ users'[reqs[s].user] = None
            /\ \A t \in Requests \ {s} : reqs'[t].user # reqs[s].user
    BY <1>1, Parts DEF Creating
  <2>5. Creating(s)'
    BY <1>1, <1>3, <2>4, CreatingKept
  <2> QED
    BY <2>2, <2>3, <2>5
<1>5. Asked'
  BY <1>1, <1>4, Parts DEF Asked
<1>6. TypeOK'
  BY <1>1 DEF Sound, TypeOK, Present, Exists
<1>7. PermissionsTraced' /\ Unique'
  BY <1>1 DEF Sound, PermissionsTraced, Unique, Present
<1> QED
  BY <1>5, <1>6, <1>7 DEF Sound

LEMMA StepSound == ASSUME Sound, [Next]_vars PROVE Sound'
<1>1. ASSUME NEW r \in Requests, NEW c \in Users, UserCall(r, c) PROVE Sound'
  <2>1. ASSUME NEW u \in Users, NEW new \in NewUsers, CreateUserBegin(r, c, u, new)
        PROVE  Sound'
    BY <2>1, CreateUserBegins
  <2>2. ASSUME NEW u \in Users, NEW patch \in Patches, UpdateUserBegin(r, c, u, patch)
        PROVE  Sound'
    BY <2>2, UpdateUserBegins
  <2>3. ASSUME NEW u \in Users, DeleteUserBegin(r, c, u) PROVE Sound'
    BY <2>3, DeleteUserBegins
  <2>4. ASSUME NEW u \in Users, NEW x \in Roles,
               AddRoleBegin(r, c, u, x) \/ RemoveRoleBegin(r, c, u, x)
        PROVE  Sound'
    BY <2>4, RoleOfUserBegins
  <2> QED
    BY <1>1, <2>1, <2>2, <2>3, <2>4 DEF UserCall
<1>2. ASSUME NEW r \in Requests, NEW c \in Users, RoleCall(r, c) PROVE Sound'
  BY <1>2, RoleCallSound
<1>4. ASSUME NEW r \in Requests, Commit(r) PROVE Sound'
  <2>1. CASE CreateUserCommit(r)
    BY <2>1, CreateUserSound
  <2>2. CASE UpdateUserCommit(r)
    BY <2>2, UpdateUserSound
  <2>3. CASE DeleteUserCommit(r)
    BY <2>3, DeleteUserSound
  <2>4. CASE AddRoleCommit(r) \/ RemoveRoleCommit(r)
    BY <2>4, RoleOfUserSound
  <2>5. CASE CreateRoleCommit(r) \/ UpdateRoleCommit(r)
    BY <2>5, RoleSound
  <2>6. CASE DeleteRoleCommit(r)
    BY <2>6, DeleteRoleSound
  <2>7. CASE InitRolesCommit(r)
    BY <2>7, InitRolesSound
  <2>8. CASE NameTaken(r)
    BY <2>8, NameTakenSound
  <2> QED
    BY <1>4, <2>1, <2>2, <2>3, <2>4, <2>5, <2>6, <2>7, <2>8 DEF Commit
<1>5. CASE UNCHANGED vars
  BY <1>5, Stuttered
<1>6. CASE Rest
  BY <1>6, Stuttered DEF Rest
<1> QED
  BY <1>1, <1>2, <1>4, <1>5, <1>6 DEF Next

LEMMA AlwaysSound == Spec => []Sound
<1>1. Init => Sound
  BY InitSound
<1>2. Sound /\ [Next]_vars => Sound'
  BY StepSound
<1> QED
  BY <1>1, <1>2, PTL DEF Spec

(* Rows stay well formed, and no account has a role that is gone: a request *)
(* that was allowed to assign a role and one that deletes it may overlap.   *)
THEOREM TypeCorrect == Spec => []TypeOK
<1>1. Sound => TypeOK
  BY DEF Sound
<1> QED
  BY <1>1, AlwaysSound, PTL

(* No chain of requests of ordinary accounts, whatever overlaps, gives a    *)
(* tenant a permission that no superuser and no change of a role gave it:   *)
(* what MayAssign finds when a request looks is true when it commits.       *)
THEOREM PermissionsAreTraced == Spec => []PermissionsTraced
<1>1. Sound => PermissionsTraced
  BY DEF Sound
<1> QED
  BY <1>1, AlwaysSound, PTL

-----------------------------------------------------------------------------
(* What a step changes.                                                     *)

LEMMA UnmovedByRule == ASSUME users' = users PROVE Ruled
<1>1. Superusers' = Superusers
  BY DEF Superusers, Present
<1> QED
  BY <1>1 DEF Ruled, LastSuperuserFallsTogether, RolesLostByRequest, TenantWall

LEMMA DeleteRoleByRule ==
    ASSUME Sound, NEW r \in Requests, DeleteRoleCommit(r)
    PROVE  Ruled
<1>1. PICK x : x = reqs[r].role
  OBVIOUS
<1>2. Trimmed
  <2>1. users' = [u \in Users |->
                    IF Present(u) THEN [users[u] EXCEPT !.roles = @ \ {x}] ELSE users[u]]
    BY <1>1 DEF DeleteRoleCommit
  <2> QED
    BY <2>1, DeleteRoleTrims
<1>3. Kept /\ \A u \in Users : Present(u)' <=> Present(u)
  BY <1>2, TrimmedKept
<1>4. reqs[r].op = "delete role" /\ reqs[r].seen = {}
  BY Parts DEF DeleteRoleCommit, Committing, Giving
<1>5. reqs'[r] # reqs[r]
  <2>1. reqs' = [reqs EXCEPT ![r] = Idle]
    BY DEF DeleteRoleCommit, Committing
  <2>2. reqs'[r] = Idle
    BY <2>1, RequestBecomes, IdleType
  <2> QED
    BY <1>4, <2>2, IdleType
<1>6. Superusers' = Superusers
  BY <1>2, <1>3 DEF Superusers, Trimmed
<1>7. RolesLostByRequest /\ TenantWall
  BY <1>4, <1>5 DEF RolesLostByRequest, TenantWall
<1> QED
  BY <1>6, <1>7 DEF Ruled, LastSuperuserFallsTogether

LEMMA StepByRule == ASSUME Sound, [Next]_vars PROVE Ruled
<1>1. ASSUME NEW r \in Requests, NEW c \in Users, UserCall(r, c) PROVE Ruled
  BY <1>1, UnmovedByRule
     DEF UserCall, CreateUserBegin, UpdateUserBegin, DeleteUserBegin, AddRoleBegin,
         RemoveRoleBegin, Begin
<1>2. ASSUME NEW r \in Requests, NEW c \in Users, RoleCall(r, c) PROVE Ruled
  BY <1>2, UnmovedByRule
     DEF RoleCall, CreateRoleBegin, UpdateRoleBegin, DeleteRoleBegin, InitRolesBegin, Begin
<1>4. ASSUME NEW r \in Requests, Commit(r) PROVE Ruled
  <2>1. CASE CreateUserCommit(r)
    BY <2>1, CreateUserSound
  <2>2. CASE UpdateUserCommit(r)
    BY <2>2, UpdateUserSound
  <2>3. CASE DeleteUserCommit(r)
    BY <2>3, DeleteUserSound
  <2>4. CASE AddRoleCommit(r) \/ RemoveRoleCommit(r)
    BY <2>4, RoleOfUserSound
  <2>5. CASE CreateRoleCommit(r) \/ UpdateRoleCommit(r)
    BY <2>5, UnmovedByRule DEF CreateRoleCommit, UpdateRoleCommit
  <2>6. CASE DeleteRoleCommit(r)
    BY <2>6, DeleteRoleByRule
  <2>7. CASE InitRolesCommit(r) \/ NameTaken(r)
    BY <2>7, UnmovedByRule DEF InitRolesCommit, NameTaken
  <2> QED
    BY <1>4, <2>1, <2>2, <2>3, <2>4, <2>5, <2>6, <2>7 DEF Commit
<1>5. CASE UNCHANGED vars \/ Rest
  BY <1>5, UnmovedByRule DEF Rest, vars
<1> QED
  BY <1>1, <1>2, <1>4, <1>5 DEF Next

(* Between its look and its commit a request may be overtaken by any other, *)
(* yet the last superuser falls only with the caller who deletes him, an    *)
(* account loses a role only to a request about it or one that found the    *)
(* role free, and nobody changes an account of another tenant.              *)
THEOREM ChangesFollowRules == Spec => ChangesByRule
<1>1. Sound /\ [Next]_vars =>
          [LastSuperuserFallsTogether /\ RolesLostByRequest /\ TenantWall]_vars
  BY StepByRule DEF Ruled
<1> QED
  BY <1>1, AlwaysSound, PTL DEF Spec, ChangesByRule

-----------------------------------------------------------------------------
(* Addresses.  Where every client writes addresses in lower case, and the   *)
(* first rows do, the tables hold no other; PUT /users/{id} stores what is  *)
(* typed when it differs from what is stored in the spelling only.          *)

LowerCase == /\ Spellings \subseteq {"lower"}
             /\ \A u \in DOMAIN InitialUsers : InitialUsers[u].email[2] = "lower"

Addressed ==
    /\ \A u \in Users : Present(u) => users[u].email[2] = "lower"
    /\ \A r \in Requests :
          reqs[r].op = "update user" => reqs[r].email = None \/ reqs[r].email[2] = "lower"

LEMMA AddressedInit == ASSUME LowerCase, Init PROVE Addressed
<1>1. \A u \in Users : Present(u) => u \in DOMAIN InitialUsers /\ users[u] = InitialUsers[u]
  BY DEF Init, Present
<1>2. \A r \in Requests : reqs[r].op = "idle"
  BY IdleType DEF Init
<1> QED
  BY <1>1, <1>2 DEF Addressed, LowerCase

(* Only PUT /users/{id} notes an address to compare.                        *)
LEMMA OthersBegun ==
    ASSUME Sound, Addressed, NEW r \in Requests, NEW c \in Users, NEW req, Begin(r, c, req),
           "op" \in DOMAIN req, req.op # "update user"
    PROVE  Addressed'
<1>1. PICK q : q = [req EXCEPT !.by = c, !.super = users[c].super]
  OBVIOUS
<1>2. q.op # "update user"
  BY <1>1
<1>3. users' = users /\ reqs' = [reqs EXCEPT ![r] = q]
  BY <1>1 DEF Begin
<1>4. reqs'[r] = q /\ \A s \in Requests \ {r} : reqs'[s] = reqs[s]
  BY <1>3, Parts
<1> QED
  BY <1>2, <1>3, <1>4 DEF Addressed, Present

LEMMA AddressedServed ==
    ASSUME Sound, Addressed, NEW r \in Requests, reqs' = [reqs EXCEPT ![r] = Idle],
           \A u \in Users : Present(u)' =>
               \/ Present(u) /\ users'[u].email = users[u].email
               \/ users'[u].email[2] = "lower"
    PROVE  Addressed'
<1>1. reqs'[r] = Idle /\ \A s \in Requests \ {r} : reqs'[s] = reqs[s]
  BY RequestBecomes, IdleType
<1>2. \A s \in Requests : reqs'[s].op = "update user" => reqs'[s] = reqs[s]
  BY <1>1, IdleType
<1> QED
  BY <1>2 DEF Addressed

LEMMA AddressedWritten ==
    ASSUME Sound, Addressed, NEW r \in Requests, NEW op, Committing(r, op),
           NEW ok \in BOOLEAN, NEW u \in Users, NEW row, Write(r, ok, u, row),
           ok => row = Gone \/ row.email[2] = "lower"
    PROVE  Addressed'
<1>1. users' = IF ok THEN [users EXCEPT ![u] = row] ELSE users
  BY DEF Write
<1>2. \A v \in Users : users'[v] = users[v] \/ (v = u /\ ok /\ users'[v] = row)
  BY <1>1, Parts
<1>3. reqs' = [reqs EXCEPT ![r] = Idle]
  BY DEF Committing
<1> QED
  BY <1>2, <1>3, AddressedServed DEF Present

LEMMA AddressedUserCall ==
    ASSUME LowerCase, Sound, Addressed, NEW r \in Requests, NEW c \in Users, UserCall(r, c)
    PROVE  Addressed'
<1>1. ASSUME NEW u \in Users, NEW patch \in Patches, UpdateUserBegin(r, c, u, patch)
      PROVE  Addressed'
  <2>1. users'= users
    BY <1>1 DEF UpdateUserBegin, Begin
  <2>2. PICK mail : mail = IF patch.email = None THEN None ELSE NewEmail(u, patch.email)
    OBVIOUS
  <2>3. patch.email # None => NewEmail(u, patch.email)[2] = "lower"
    <3>1. patch.email # None => patch.email \in Addresses \X Spellings
      BY InputAssumption
    <3> QED
      BY <3>1 DEF NewEmail, Lower, LowerCase
  <2>4. mail = None \/ mail[2] = "lower"
    BY <2>2, <2>3
  <2>5. PICK act : act = IF patch.active = users[u].active THEN None ELSE patch.active
    OBVIOUS
  <2>6. PICK rs : rs = IF patch.roles = None THEN users[u].roles ELSE patch.roles
    OBVIOUS
  <2>7. PICK req : req = [Idle EXCEPT !.op = "update user", !.user = u,
                            !.seen = users[u].roles, !.email = mail, !.active = act,
                            !.roles = rs]
    OBVIOUS
  <2>8. PICK q : q = [req EXCEPT !.by = c, !.super = users[c].super]
    OBVIOUS
  <2>9. q.op = "update user" /\ q.email = mail
    BY <2>7, <2>8 DEF Idle
  <2>10. Begin(r, c, req)
    BY <1>1, <2>2, <2>5, <2>6, <2>7 DEF UpdateUserBegin
  <2>11. reqs' = [reqs EXCEPT ![r] = q]
    BY <2>8, <2>10 DEF Begin
  <2>12. reqs'[r] = q /\ \A s \in Requests \ {r} : reqs'[s] = reqs[s]
    BY <2>11, Parts
  <2> QED
    BY <2>1, <2>4, <2>9, <2>12 DEF Addressed, Present
<1>2. ASSUME NEW u \in Users, NEW new \in NewUsers, CreateUserBegin(r, c, u, new)
      PROVE  Addressed'
  BY <1>2, OthersBegun DEF CreateUserBegin, Idle
<1>3. ASSUME NEW u \in Users, DeleteUserBegin(r, c, u) PROVE Addressed'
  BY <1>3, OthersBegun DEF DeleteUserBegin, Idle
<1>4. ASSUME NEW u \in Users, NEW x \in Roles, AddRoleBegin(r, c, u, x) PROVE Addressed'
  BY <1>4, OthersBegun DEF AddRoleBegin, Idle
<1>5. ASSUME NEW u \in Users, NEW x \in Roles, RemoveRoleBegin(r, c, u, x) PROVE Addressed'
  BY <1>5, OthersBegun DEF RemoveRoleBegin, Idle
<1> QED
  BY <1>1, <1>2, <1>3, <1>4, <1>5 DEF UserCall

LEMMA AddressedRoleCall ==
    ASSUME Sound, Addressed, NEW r \in Requests, NEW c \in Users, RoleCall(r, c)
    PROVE  Addressed'
<1>1. ASSUME NEW x \in Roles, NEW perms \in RoleBodies, CreateRoleBegin(r, c, x, perms)
      PROVE  Addressed'
  BY <1>1, OthersBegun DEF CreateRoleBegin, Idle
<1>2. ASSUME NEW x \in Roles, NEW perms \in RoleBodies, NEW b \in BOOLEAN,
             UpdateRoleBegin(r, c, x, perms, b)
      PROVE  Addressed'
  BY <1>2, OthersBegun DEF UpdateRoleBegin, Idle
<1>3. ASSUME NEW x \in Roles, DeleteRoleBegin(r, c, x) PROVE Addressed'
  BY <1>3, OthersBegun DEF DeleteRoleBegin, Idle
<1>4. ASSUME InitRolesBegin(r, c) PROVE Addressed'
  BY <1>4, OthersBegun DEF InitRolesBegin, Idle
<1> QED
  BY <1>1, <1>2, <1>3, <1>4 DEF RoleCall

LEMMA AddressedCommit ==
    ASSUME Sound, Addressed, NEW r \in Requests, Commit(r)
    PROVE  Addressed'
<1>1. PICK q \in ReqRec : q = reqs[r] /\ Acquainted(q) /\ Giving(q)
  BY Parts
<1>2. CASE CreateUserCommit(r)
  <2>1. q.op = "create user" /\ Committing(r, "create user")
    BY <1>1, <1>2 DEF CreateUserCommit, Committing
  <2>2. q.user \in Users /\ q.email[2] = "lower"
    BY <1>1, <2>1, Parts DEF Creating
  <2>3. PICK row : row = [tenant |-> q.tenant, active |-> TRUE, super |-> FALSE,
                          roles |-> q.roles, email |-> q.email]
    OBVIOUS
  <2>4. PICK ok \in BOOLEAN :
            ok = (EmailFree(q.email, q.user) /\ \A x \in q.roles : Exists(x))
    OBVIOUS
  <2>5. Write(r, ok, q.user, row)
    BY <1>1, <1>2, <2>3, <2>4 DEF CreateUserCommit
  <2> QED
    BY <2>1, <2>2, <2>3, <2>5, AddressedWritten
<1>3. CASE UpdateUserCommit(r)
  <2>1. q.op = "update user" /\ reqs' = [reqs EXCEPT ![r] = Idle]
    BY <1>1, <1>3 DEF UpdateUserCommit, Committing
  <2>2. Known(q.user) /\ q.user \in Users
    BY <1>1, <2>1 DEF Acquainted, OnUser, Known
  <2>3. PICK old : old = users[q.user]
    OBVIOUS
  <2>4. PICK rs : rs = (old.roles \ (q.seen \ q.roles)) \cup (q.roles \ q.seen)
    OBVIOUS
  <2>5. PICK mail : mail = IF q.email = None THEN old.email ELSE q.email
    OBVIOUS
  <2>6. PICK act : act = IF q.active = None THEN old.active ELSE q.active
    OBVIOUS
  <2>7. \/ users' = users
        \/ /\ old # Gone
           /\ users' = [users EXCEPT ![q.user] =
                          [old EXCEPT !.roles = rs, !.email = mail, !.active = act]]
    BY <1>1, <1>3, <2>3, <2>4, <2>5, <2>6 DEF UpdateUserCommit, Write
  <2>8. CASE users' = users
    BY <2>1, <2>8, AddressedServed DEF Present
  <2>9. CASE users' # users
    <3>1. old \in Row /\ Present(q.user)
      BY <2>2, <2>3, <2>7, <2>9, Parts DEF Known, Present
    <3>2. PICK row : row = [old EXCEPT !.roles = rs, !.email = mail, !.active = act]
      OBVIOUS
    <3>3. row.email = mail
      BY <3>1, <3>2 DEF Row
    <3>4. mail[2] = "lower"
      BY <1>1, <2>1, <2>2, <2>3, <2>5, <3>1 DEF Addressed
    <3>5. users'[q.user] = row /\ \A v \in Users \ {q.user} : users'[v] = users[v]
      BY <2>2, <2>7, <2>9, <3>2, Parts
    <3>6. \A v \in Users : Present(v)' =>
               \/ Present(v) /\ users'[v].email = users[v].email
               \/ users'[v].email[2] = "lower"
      BY <3>3, <3>4, <3>5 DEF Present
    <3> QED
      BY <2>1, <3>6, AddressedServed
  <2> QED
    BY <2>8, <2>9
<1>4. CASE DeleteUserCommit(r)
  <2>1. q.op = "delete user" /\ Committing(r, "delete user")
    BY <1>1, <1>4 DEF DeleteUserCommit, Committing
  <2>2. q.user \in Users
    BY <1>1, <2>1 DEF Acquainted, OnUser, Known
  <2>3. PICK ok \in BOOLEAN : ok = (Present(q.user) /\ q.seen \subseteq users[q.user].roles)
    OBVIOUS
  <2>4. Write(r, ok, q.user, Gone)
    BY <1>1, <1>4, <2>3 DEF DeleteUserCommit
  <2> QED
    BY <2>1, <2>2, <2>4, AddressedWritten
<1>5. CASE AddRoleCommit(r) \/ RemoveRoleCommit(r)
  <2>1. q.op \in {"add role", "remove role"} /\ reqs' = [reqs EXCEPT ![r] = Idle]
    BY <1>1, <1>5 DEF AddRoleCommit, RemoveRoleCommit, Committing
  <2>2. q.user \in Users
    BY <1>1, <2>1 DEF Acquainted, OnUser, Known
  <2>3. \/ users' = users
        \/ /\ Present(q.user)
           /\ \E rs : users' = [users EXCEPT ![q.user] = [users[q.user] EXCEPT !.roles = rs]]
    BY <1>1, <1>5 DEF AddRoleCommit, RemoveRoleCommit, Write
  <2>4. CASE users' = users
    BY <2>1, <2>4, AddressedServed DEF Present
  <2>5. CASE users' # users
    <3>1. PICK rs : users' = [users EXCEPT ![q.user] = [users[q.user] EXCEPT !.roles = rs]]
      BY <2>3, <2>5
    <3>2. Present(q.user) /\ users[q.user] \in Row
      BY <2>2, <2>3, <2>5, Parts
    <3>3. users'[q.user].email = users[q.user].email
      BY <2>2, <3>1, <3>2, Parts DEF Row
    <3>4. \A v \in Users \ {q.user} : users'[v] = users[v]
      BY <3>1, Parts
    <3> QED
      BY <2>1, <3>2, <3>3, <3>4, AddressedServed DEF Present
  <2> QED
    BY <2>4, <2>5
<1>6. CASE CreateRoleCommit(r) \/ UpdateRoleCommit(r)
  BY <1>6, AddressedServed DEF CreateRoleCommit, UpdateRoleCommit, Committing, Present
<1>7. CASE DeleteRoleCommit(r)
  <2>1. PICK x : x = reqs[r].role
    OBVIOUS
  <2>2. users' = [u \in Users |->
                    IF Present(u) THEN [users[u] EXCEPT !.roles = @ \ {x}] ELSE users[u]]
    BY <1>7, <2>1 DEF DeleteRoleCommit
  <2>3. Trimmed
    BY <2>2, DeleteRoleTrims
  <2>4. \A u \in Users : Present(u)' <=> Present(u)
    BY <2>3, TrimmedKept
  <2>5. reqs' = [reqs EXCEPT ![r] = Idle]
    BY <1>7 DEF DeleteRoleCommit, Committing
  <2> QED
    BY <2>3, <2>4, <2>5, AddressedServed DEF Trimmed
<1>8. CASE InitRolesCommit(r) \/ NameTaken(r)
  BY <1>8, AddressedServed DEF InitRolesCommit, NameTaken, Committing, Present
<1> QED
  BY <1>2, <1>3, <1>4, <1>5, <1>6, <1>7, <1>8 DEF Commit

LEMMA AddressedStep ==
    ASSUME LowerCase, Sound, Addressed, [Next]_vars
    PROVE  Addressed'
<1>2. CASE UNCHANGED vars \/ Rest
  BY <1>2 DEF Rest, vars, Addressed, Present
<1> QED
  BY <1>2, AddressedUserCall, AddressedRoleCall, AddressedCommit DEF Next

-----------------------------------------------------------------------------
(* What requests that read are answered.                                    *)

(* A part of a finite set and the rest make the whole.                      *)
LEMMA WholeAndParts ==
    ASSUME NEW S, IsFiniteSet(S), NEW A \in SUBSET S
    PROVE  /\ Cardinality(S) \in Nat /\ Cardinality(A) \in Nat /\ Cardinality(S \ A) \in Nat
           /\ Cardinality(S) = Cardinality(A) + Cardinality(S \ A)
<1>1. IsFiniteSet(A) /\ IsFiniteSet(S \ A) /\ Cardinality(S \ A) = Cardinality(S) - Cardinality(A)
  <2>1. S \cap A = A
    OBVIOUS
  <2>2. IsFiniteSet(A)
    BY FS_Subset
  <2>3. IsFiniteSet(S \ A) /\ Cardinality(S \ A) = Cardinality(S) - Cardinality(S \cap A)
    BY FS_Difference
  <2> QED
    BY <2>1, <2>2, <2>3
<1>2. Cardinality(S) \in Nat /\ Cardinality(A) \in Nat /\ Cardinality(S \ A) \in Nat
  BY <1>1, FS_CardinalityType
<1> QED
  BY <1>1, <1>2

LEMMA CountsAdd ==
    /\ \A t \in Tenants : LET n == CountUsersByTenant(t) IN n[1] = n[2] + n[3]
    /\ LET all == {x \in Roles : Exists(x)} IN Cardinality(all) = CountRoles[1] + CountRoles[2]
<1>1. ASSUME NEW t \in Tenants
      PROVE  CountUsersByTenant(t)[1] = CountUsersByTenant(t)[2] + CountUsersByTenant(t)[3]
  <2>1. PICK S : S = UsersOf(t)
    OBVIOUS
  <2>2. PICK A : A = {u \in S : users[u].active}
    OBVIOUS
  <2>3. IsFiniteSet(S) /\ A \in SUBSET S
    BY <2>1, <2>2, TablesAssumption, FS_Subset DEF UsersOf
  <2>4. CountUsersByTenant(t) = <<Cardinality(S), Cardinality(A), Cardinality(S \ A)>>
    BY <2>1, <2>2 DEF CountUsersByTenant
  <2> QED
    BY <2>3, <2>4, WholeAndParts
<1>2. Cardinality({x \in Roles : Exists(x)}) = CountRoles[1] + CountRoles[2]
  <2>1. PICK S : S = {x \in Roles : Exists(x)}
    OBVIOUS
  <2>2. PICK A : A = {x \in Roles : Exists(x) /\ roles[x].system}
    OBVIOUS
  <2>3. IsFiniteSet(S) /\ A \in SUBSET S
    BY <2>1, <2>2, TablesAssumption, FS_Subset
  <2>4. CountRoles = <<Cardinality(A), Cardinality(S \ A)>>
    BY <2>1, <2>2 DEF CountRoles
  <2> QED
    BY <2>1, <2>3, <2>4, WholeAndParts
<1> QED
  BY <1>1, <1>2

LEMMA Agreed == ASSUME Sound PROVE ReadsAgree
<1> SUFFICES ASSUME NEW c \in Users, Present(c), NEW t \in Tenants \cup {None}
             PROVE  /\ \A u \in ListUsers(c, t) : GetUser(c, u)
                    /\ \A u \in Users : GetUser(c, u) => u \in ListUsers(c, users[u].tenant)
                    /\ t # None /\ MayCount(c, t) =>
                         LET n == CountUsersByTenant(t) IN
                         n[1] = Cardinality(ListUsers(c, t)) /\ n[1] = n[2] + n[3]
                    /\ Cardinality(ListRoles(c)) \in {CountRoles[1], CountRoles[1] + CountRoles[2]}
  BY DEF ReadsAgree
<1>1. users[c].tenant \in Tenants /\ users[c].tenant # None /\ users[c].super \in BOOLEAN
  BY Parts, InputAssumption DEF Row
<1>2. \A u \in ListUsers(c, t) : GetUser(c, u)
  BY <1>1 DEF ListUsers, UsersOf, GetUser, SameTenant
<1>3. \A u \in Users : GetUser(c, u) => u \in ListUsers(c, users[u].tenant)
  BY <1>1 DEF ListUsers, UsersOf, GetUser, SameTenant
<1>4. ASSUME t # None, MayCount(c, t)
      PROVE  LET n == CountUsersByTenant(t) IN
             n[1] = Cardinality(ListUsers(c, t)) /\ n[1] = n[2] + n[3]
  <2>1. ListUsers(c, t) = UsersOf(t)
    BY <1>4 DEF ListUsers, MayCount
  <2>2. CountUsersByTenant(t)[1] = Cardinality(UsersOf(t))
    BY DEF CountUsersByTenant
  <2> QED
    BY <1>4, <2>1, <2>2, CountsAdd
<1>5. Cardinality(ListRoles(c)) \in {CountRoles[1], CountRoles[1] + CountRoles[2]}
  <2>1. CASE users[c].super
    <3>1. ListRoles(c) = {x \in Roles : Exists(x)}
      BY <2>1 DEF ListRoles
    <3> QED
      BY <3>1, CountsAdd
  <2>2. CASE ~users[c].super
    <3>1. ListRoles(c) = {x \in Roles : Exists(x) /\ roles[x].system}
      BY <2>2 DEF ListRoles
    <3>2. CountRoles[1] = Cardinality({x \in Roles : Exists(x) /\ roles[x].system})
      BY DEF CountRoles
    <3> QED
      BY <3>1, <3>2
  <2> QED
    BY <2>1, <2>2
<1> QED
  BY <1>2, <1>3, <1>4, <1>5

LEMMA AddressesUnique == ASSUME Sound, Addressed PROVE OneAccountPerAddress
<1>1. ASSUME NEW u \in Users, Present(u) PROVE Lower(users[u].email) = users[u].email
  <2>1. users[u].email \in Addresses \X {"lower", "mixed"} /\ users[u].email[2] = "lower"
    BY <1>1, Parts DEF Row, Emails, Addressed
  <2> QED
    BY <2>1 DEF Lower
<1> QED
  BY <1>1 DEF OneAccountPerAddress, Sound, Unique

(* Where addresses are written in lower case, no two accounts have one      *)
(* address though two requests may ask for it at once, and what the lists,  *)
(* the counts and the single reads answer agrees.                           *)
THEOREM TablesStayConsistent == ASSUME LowerCase PROVE Spec => []TablesConsistent
<1>1. Init => Sound /\ Addressed
  BY InitSound, AddressedInit
<1>2. Sound /\ Addressed /\ [Next]_vars => Sound' /\ Addressed'
  BY StepSound, AddressedStep
<1>3. Sound /\ Addressed => TablesConsistent
  BY Agreed, AddressesUnique DEF TablesConsistent, Sound
<1> QED
  BY <1>1, <1>2, <1>3, PTL DEF Spec

(* POST /auth/login looks an address up in lower case: where addresses are  *)
(* written so, every account is found under its own.                        *)
COROLLARY EveryAccountSignsIn == ASSUME LowerCase PROVE Spec => []SignInFindsAccount
<1>1. Init => Sound /\ Addressed
  BY InitSound, AddressedInit
<1>2. Sound /\ Addressed /\ [Next]_vars => Sound' /\ Addressed'
  BY StepSound, AddressedStep
<1>3. ASSUME Sound, Addressed PROVE SignInFindsAccount
  <2>1. ASSUME NEW u \in Users, Present(u) PROVE u \in ByEmail(users[u].email)
    <3>1. users[u].email \in Addresses \X {"lower", "mixed"} /\ users[u].email[2] = "lower"
      BY <1>3, <2>1, Parts DEF Row, Emails, Addressed
    <3> QED
      BY <2>1, <3>1 DEF Lower, ByEmail
  <2> QED
    BY <2>1 DEF SignInFindsAccount
<1> QED
  BY <1>1, <1>2, <1>3, PTL DEF Spec
=============================================================================
