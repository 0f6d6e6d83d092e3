--------------------------- MODULE ClusterConfig ---------------------------
(***************************************************************************)
(* The connection settings of the target cluster: one row for the platform *)
(* and at most one per tenant (crud/cluster_config.py), edited by the      *)
(* infrastructure endpoints (api/v1/infrastructure.py), probed and turned  *)
(* into clients that each process caches under (scope, version)            *)
(* (services/cluster/resolver.py).                                         *)
(*                                                                         *)
(* A request is a session of its own, READ COMMITTED: what it loaded may   *)
(* have changed when it writes, and its UPDATE names only the columns it   *)
(* changed.  The n-th save brings the URL, token or kubeconfig n, so that  *)
(* a client tells which save it was built from.                            *)
(***************************************************************************)
EXTENDS Naturals, FiniteSets, FiniteSetsExt

CONSTANTS
    Processes,      \* API processes: two replicas of two uvicorn workers each
    Requests,       \* sessions open at one time
    Tenants,        \* tenants that may override the platform's cluster
    Platform,       \* the scope of the platform default
    None,           \* NULL
    InCluster,      \* KUBERNETES_SERVICE_HOST is set
    EnvMode,        \* the mode of the environment's settings
    EnvComplete,    \* the environment holds the credentials of its mode
    Budgets         \* how many operations and faults of each kind a history has

ASSUME ScopesAssumption ==
    /\ Platform \notin Tenants
    /\ {InCluster, EnvComplete} \subseteq BOOLEAN
    /\ EnvMode \in {"KUBECONFIG", "INCLUSTER", "CUSTOM"}
    /\ \A b \in Budgets : b \in [saves : Nat, removals : Nat, seeds : Nat, crashes : Nat,
                                  probes : Nat, uses : Nat, faults : Nat]

Scopes == Tenants \cup {Platform}
Modes == {"KUBECONFIG", "INCLUSTER", "CUSTOM"}
Verdicts == {"HEALTHY", "UNREACHABLE", "INVALID"}

VARIABLES
    rows,       \* the table cluster_connection_config
    events,     \* per scope, the rows "applied" of cluster_config_events
    cache,      \* per process and scope, the client and the version it was built for
    up,         \* per process: "starting", "seeding" (found no default) or "up"
    reqs,       \* the requests
    left,       \* what is left of the budget
    lastRow,    \* the last id the table gave
    saves,      \* how many saves have begun
    commits,    \* history: per scope, the configuration changes committed
    lost,       \* history: per scope, the events that were never written
    restarted   \* history: scopes whose version number went back or forked

vars == <<rows, events, cache, up, reqs, left, lastRow, saves, commits, lost, restarted>>
used == <<left, lastRow, saves>>
history == <<commits, lost, restarted>>

Idle == [pc |-> "idle"]

(* What a client is built from.                                            *)
Content(row) == [scope |-> row.scope, mode |-> row.mode, url |-> row.url,
                 token |-> row.token, kube |-> row.kube]

(* A client of the environment, of no row.                                 *)
Env == [scope |-> None, mode |-> "CUSTOM", url |-> 0, token |-> 0, kube |-> 0]

Buildable(c) ==
    /\ c.mode = "CUSTOM" => c.url # None /\ c.token # None
    /\ c.mode = "KUBECONFIG" => c.kube # None
    /\ c.mode = "INCLUSTER" => InCluster

Applicable(scope, mode) == mode = "INCLUSTER" => scope = Platform /\ InCluster

(* The columns that the program reads and writes, without the history.     *)
Columns(row) == [id |-> row.id, scope |-> row.scope, mode |-> row.mode, url |-> row.url,
                 token |-> row.token, kube |-> row.kube, version |-> row.version,
                 health |-> row.health]

Of(scope) == {row \in rows : row.scope = scope}
Now(id) == CHOOSE row \in rows : row.id = id
Exists(id) == \E row \in rows : row.id = id
Replace(row) == {other \in rows : other.id # row.id} \cup {row}

Reads(scope, row) == IF Of(scope) = {} THEN row = None ELSE row \in Of(scope)

Init ==
    /\ rows = {}
    /\ events = [s \in Scopes |-> 0]
    /\ cache = [p \in Processes |-> [s \in Scopes |-> None]]
    /\ up = [p \in Processes |-> "starting"]
    /\ reqs = [r \in Requests |-> Idle]
    /\ left \in Budgets
    /\ lastRow = 0
    /\ saves = 0
    /\ commits = [s \in Scopes |-> 0]
    /\ lost = [s \in Scopes |-> 0]
    /\ restarted = {}

Spend(what) ==
    /\ left[what] > 0
    /\ left' = [left EXCEPT ![what] = @ - 1]
Goto(r, pc) == reqs' = [reqs EXCEPT ![r].pc = pc]
End(r) == reqs' = [reqs EXCEPT ![r] = Idle]

-----------------------------------------------------------------------------
(* The start of a process seeds the platform default from the environment. *)

SeedCheck(p) ==
    /\ up[p] = "starting"
    /\ \/ /\ Of(Platform) # {}
          /\ up' = [up EXCEPT ![p] = "up"]
          /\ UNCHANGED used
       \/ /\ Of(Platform) = {}
          /\ Spend("seeds") /\ UNCHANGED <<lastRow, saves>>
          /\ up' = [up EXCEPT ![p] = "seeding"]
       \* the settings, the vault or the database failed: "seed skipped"
       \/ /\ up' = [up EXCEPT ![p] = "up"]
          /\ UNCHANGED used
    /\ UNCHANGED <<rows, events, cache, reqs, history>>

Given(mode) == IF EnvMode = mode /\ EnvComplete THEN 0 ELSE None

Seeded ==
    [id |-> lastRow + 1, scope |-> Platform, mode |-> EnvMode, url |-> Given("CUSTOM"),
     token |-> Given("CUSTOM"), kube |-> Given("KUBECONFIG"),
     version |-> 1, health |-> "UNKNOWN", about |-> None, torn |-> FALSE]

(* The unique constraint does not see two rows whose tenant is NULL.       *)
SeedInsert(p) ==
    /\ up[p] = "seeding"
    /\ rows' = rows \cup {Seeded}
    /\ lastRow' = lastRow + 1 /\ UNCHANGED <<left, saves>>
    /\ up' = [up EXCEPT ![p] = "up"]
    /\ restarted' = IF Of(Platform) = {} THEN restarted ELSE restarted \cup {Platform}
    /\ UNCHANGED <<events, cache, reqs, commits, lost>>

-----------------------------------------------------------------------------
(* Saving: PUT /{scope}, and POST /{scope}/kubeconfig.                     *)

(* The first save of a scope is made of a row with these columns.          *)
Fresh(scope) ==
    [id |-> lastRow + 1, scope |-> scope, mode |-> "KUBECONFIG", url |-> None,
     token |-> None, kube |-> None, version |-> 0, health |-> "UNKNOWN",
     about |-> None, torn |-> FALSE]

BeginSave(r, p, scope) ==
    /\ reqs[r] = Idle /\ up[p] = "up"
    /\ Spend("saves") /\ saves' = saves + 1 /\ UNCHANGED lastRow
    /\ \E mode \in Modes, secret \in {None, saves + 1}, row \in rows \cup {None} :
          /\ Applicable(scope, mode)
          /\ mode = "INCLUSTER" => secret = None
          /\ Reads(scope, row)
          /\ reqs' = [reqs EXCEPT ![r] =
                [pc |-> "write", proc |-> p, scope |-> scope, row |-> row,
                 mode |-> mode, n |-> saves + 1, secret |-> secret]]
    /\ UNCHANGED <<rows, events, cache, up, history>>

(* Mutant: a save keeps the verdict on the former settings.                *)
AppliedHealthy(q, row) ==
    [row EXCEPT !.mode = q.mode,
                !.url = IF q.mode = "CUSTOM" THEN q.n ELSE None,
                !.token = IF q.mode # "CUSTOM" THEN None ELSE IF q.secret # None THEN q.secret ELSE @,
                !.kube = IF q.mode # "KUBECONFIG" THEN None ELSE IF q.secret # None THEN q.secret ELSE @,
                !.version = @ + 1]

(* The row as the session holds it before the flush.  A kubeconfig comes   *)
(* by upload only, and a token that is not given is kept.                  *)
Applied(q, row) ==
    [row EXCEPT !.mode = q.mode,
                !.url = IF q.mode = "CUSTOM" THEN q.n ELSE None,
                !.token = IF q.mode # "CUSTOM" THEN None ELSE IF q.secret # None THEN q.secret ELSE @,
                !.kube = IF q.mode # "KUBECONFIG" THEN None ELSE IF q.secret # None THEN q.secret ELSE @,
                !.version = @ + 1, !.health = "UNKNOWN", !.about = None]

(* The UPDATE of a flush: a column whose value is the one that was loaded  *)
(* is not written, and keeps what others wrote since.                      *)
Merge(now, loaded, new) ==
    [c \in DOMAIN now |->
        CASE c = "torn" -> Columns(now) # Columns(loaded)
          [] c = "about" -> IF new.health # loaded.health THEN new.about ELSE now.about
          [] OTHER -> IF new[c] # loaded[c] THEN new[c] ELSE now[c]]

Insert(r) ==
    LET q == reqs[r] IN
    /\ q.pc = "write" /\ q.row = None
    /\ q.scope \in Tenants => Of(q.scope) = {}
    /\ rows' = rows \cup {Applied(q, Fresh(q.scope))}
    /\ lastRow' = lastRow + 1 /\ UNCHANGED <<left, saves>>
    /\ commits' = [commits EXCEPT ![q.scope] = @ + 1]
    /\ restarted' = IF Of(q.scope) = {} THEN restarted ELSE restarted \cup {q.scope}
    /\ reqs' = [reqs EXCEPT ![r] = [pc |-> "log", proc |-> q.proc, scope |-> q.scope,
                                    id |-> lastRow + 1]]
    /\ UNCHANGED <<events, cache, up, lost>>

Update(r) ==
    LET q == reqs[r] IN
    /\ q.pc = "write" /\ q.row # None
    /\ Exists(q.row.id)
    /\ rows' = Replace(Merge(Now(q.row.id), q.row, Applied(q, q.row)))
    /\ commits' = [commits EXCEPT ![q.scope] = @ + 1]
    /\ restarted' = IF Now(q.row.id).version = q.row.version THEN restarted
                    ELSE restarted \cup {q.scope}
    /\ reqs' = [reqs EXCEPT ![r] = [pc |-> "log", proc |-> q.proc, scope |-> q.scope,
                                    id |-> q.row.id]]
    /\ UNCHANGED <<events, cache, up, used, lost>>

(* The constraint refused the row, or the row is gone: 500.                *)
SaveRefused(r) ==
    LET q == reqs[r] IN
    /\ q.pc = "write"
    /\ IF q.row = None THEN q.scope \in Tenants /\ Of(q.scope) # {}
                       ELSE ~Exists(q.row.id)
    /\ End(r)
    /\ UNCHANGED <<rows, events, cache, up, used, history>>

-----------------------------------------------------------------------------
(* Removing the override of a tenant: DELETE /{scope}.                     *)

BeginRemove(r, p, scope) ==
    /\ reqs[r] = Idle /\ up[p] = "up"
    /\ scope \in Tenants
    /\ Spend("removals") /\ UNCHANGED <<lastRow, saves>>
    /\ \E row \in rows \cup {None} :
          /\ Reads(scope, row)
          /\ reqs' = [reqs EXCEPT ![r] =
                [pc |-> IF row = None THEN "evict" ELSE "remove", proc |-> p,
                 scope |-> scope, id |-> IF row = None THEN None ELSE row.id]]
    /\ UNCHANGED <<rows, events, cache, up, history>>

(* Mutant: the removal of an override leaves no event.                     *)
RemoveUnlogged(r) ==
    LET q == reqs[r] IN
    /\ q.pc = "remove"
    /\ rows' = {row \in rows : row.id # q.id}
    /\ commits' = [commits EXCEPT ![q.scope] = @ + 1]
    /\ restarted' = restarted \cup {q.scope}
    /\ reqs' = [reqs EXCEPT ![r].pc = "evict", ![r].id = None]
    /\ UNCHANGED <<events, cache, up, used, lost>>

(* A DELETE that matches no row is no error.                               *)
Remove(r) ==
    LET q == reqs[r] IN
    /\ q.pc = "remove"
    /\ rows' = {row \in rows : row.id # q.id}
    /\ commits' = [commits EXCEPT ![q.scope] = @ + 1]
    /\ restarted' = restarted \cup {q.scope}
    /\ reqs' = [reqs EXCEPT ![r].pc = "log", ![r].id = None]
    /\ UNCHANGED <<events, cache, up, used, lost>>

-----------------------------------------------------------------------------
(* After the commit: the audit row, in a transaction of its own, then the  *)
(* eviction of the client of this process.                                 *)

Log(r) ==
    LET q == reqs[r] IN
    /\ q.pc = "log"
    /\ q.id # None => Exists(q.id)
    /\ events' = [events EXCEPT ![q.scope] = @ + 1]
    /\ Goto(r, "evict")
    /\ UNCHANGED <<rows, cache, up, used, history>>

(* The savepoint of the event is rolled back, and the failure swallowed.   *)
LogFault(r) ==
    LET q == reqs[r] IN
    /\ q.pc = "log"
    /\ q.id # None => Exists(q.id)
    /\ Spend("faults") /\ UNCHANGED <<lastRow, saves>>
    /\ lost' = [lost EXCEPT ![q.scope] = @ + 1]
    /\ Goto(r, "evict")
    /\ UNCHANGED <<rows, events, cache, up, commits, restarted>>

(* db.refresh finds no row: 500, and neither event nor eviction.           *)
RefreshFails(r) ==
    LET q == reqs[r] IN
    /\ q.pc = "log" /\ q.id # None /\ ~Exists(q.id)
    /\ lost' = [lost EXCEPT ![q.scope] = @ + 1]
    /\ End(r)
    /\ UNCHANGED <<rows, events, cache, up, used, commits, restarted>>

(* The key of the scope is read from the row, which the commit expired:    *)
(* nothing is evicted when the row is gone.                                *)
Evict(r) ==
    LET q == reqs[r] IN
    /\ q.pc = "evict"
    /\ cache' = IF q.id # None => Exists(q.id)
                THEN [cache EXCEPT ![q.proc][q.scope] = None] ELSE cache
    /\ End(r)
    /\ UNCHANGED <<rows, events, up, used, history>>

-----------------------------------------------------------------------------
(* get_client_for_tenant: two reads, then the cache under its lock.        *)

UseOwn(r, p, tenant) ==
    /\ reqs[r] = Idle /\ up[p] = "up"
    /\ Spend("uses") /\ UNCHANGED <<lastRow, saves>>
    /\ \E row \in rows \cup {None} :
          /\ Reads(tenant, row)
          /\ reqs' = [reqs EXCEPT ![r] =
                IF row = None THEN [pc |-> "default", proc |-> p, tenant |-> tenant]
                ELSE [pc |-> "build", proc |-> p, tenant |-> tenant, row |-> row]]
    /\ UNCHANGED <<rows, events, cache, up, history>>

UseDefault(r) ==
    LET q == reqs[r] IN
    /\ q.pc = "default"
    /\ \E row \in rows \cup {None} :
          /\ Reads(Platform, row)
          /\ reqs' = [reqs EXCEPT ![r] =
                IF row = None
                THEN [pc |-> "done", proc |-> q.proc, tenant |-> q.tenant, read |-> Env, got |-> Env]
                ELSE [pc |-> "build", proc |-> q.proc, tenant |-> q.tenant, row |-> row]]
    /\ UNCHANGED <<rows, events, cache, up, used, history>>

(* Mutant: the cache does not look at the version.                         *)
HitAnyVersion(p, row) == cache[p][row.scope] # None

Hit(p, row) ==
    /\ cache[p][row.scope] # None
    /\ cache[p][row.scope].version = row.version

Slot(row) == row.scope

Build(r) ==
    LET q == reqs[r]
        client == IF Hit(q.proc, q.row) THEN cache[q.proc][q.row.scope].client
                  ELSE Content(q.row)
    IN
    /\ q.pc = "build"
    /\ Hit(q.proc, q.row) \/ Buildable(Content(q.row))
    /\ cache' = IF Hit(q.proc, q.row) THEN cache
                ELSE [cache EXCEPT ![q.proc][Slot(q.row)] =
                        [version |-> q.row.version, client |-> client]]
    /\ reqs' = [reqs EXCEPT ![r] = [pc |-> "done", proc |-> q.proc, tenant |-> q.tenant,
                                    read |-> Content(q.row), got |-> client]]
    /\ UNCHANGED <<rows, events, up, used, history>>

(* KubeVirtClientError: the caller fails, and nothing is cached.           *)
BuildFails(r) ==
    LET q == reqs[r] IN
    /\ q.pc = "build"
    /\ ~Hit(q.proc, q.row) /\ ~Buildable(Content(q.row))
    /\ End(r)
    /\ UNCHANGED <<rows, events, cache, up, used, history>>

Return(r) ==
    /\ reqs[r].pc = "done"
    /\ End(r)
    /\ UNCHANGED <<rows, events, cache, up, used, history>>

-----------------------------------------------------------------------------
(* POST /{scope}/test: a throwaway client, then the health of the row.     *)

BeginProbe(r, p, scope) ==
    /\ reqs[r] = Idle /\ up[p] = "up"
    /\ Spend("probes") /\ UNCHANGED <<lastRow, saves>>
    /\ \E row \in rows :
          /\ IF Of(scope) # {} THEN row.scope = scope ELSE row.scope = Platform
          /\ reqs' = [reqs EXCEPT ![r] = [pc |-> "probe", proc |-> p, row |-> row]]
    /\ UNCHANGED <<rows, events, cache, up, history>>

Record(r) ==
    LET q == reqs[r]
        probed == Content(q.row)
    IN
    /\ q.pc = "probe"
    /\ \E verdict \in IF Buildable(probed) THEN {"HEALTHY", "UNREACHABLE"} ELSE {"INVALID"} :
          IF ~Exists(q.row.id) THEN rows' = rows
          ELSE LET now == Now(q.row.id)
                   moved == Columns(now) # Columns(q.row)
               IN rows' = Replace([now EXCEPT
                    !.health = IF verdict # q.row.health THEN verdict ELSE @,
                    !.about = IF verdict # q.row.health \/ ~moved THEN probed ELSE @,
                    !.torn = @ \/ moved])
    /\ End(r)
    /\ UNCHANGED <<events, cache, up, used, history>>

-----------------------------------------------------------------------------
Crash(p) ==
    /\ up[p] # "starting"
    /\ Spend("crashes") /\ UNCHANGED <<lastRow, saves>>
    /\ up' = [up EXCEPT ![p] = "starting"]
    /\ cache' = [cache EXCEPT ![p] = [s \in Scopes |-> None]]
    /\ lost' = [s \in Scopes |-> lost[s]
                  + Cardinality({r \in Requests : /\ reqs[r].pc = "log"
                                                  /\ reqs[r].proc = p
                                                  /\ reqs[r].scope = s})]
    /\ reqs' = [r \in Requests |-> IF reqs[r] # Idle /\ reqs[r].proc = p THEN Idle ELSE reqs[r]]
    /\ UNCHANGED <<rows, events, commits, restarted>>

Step(r) ==
    \/ Insert(r) \/ Update(r) \/ SaveRefused(r) \/ Remove(r)
    \/ Log(r) \/ LogFault(r) \/ RefreshFails(r) \/ Evict(r)
    \/ UseDefault(r) \/ Build(r) \/ BuildFails(r) \/ Return(r) \/ Record(r)

Begin(r) ==
    \E p \in Processes, s \in Scopes :
        \/ BeginSave(r, p, s)
        \/ BeginRemove(r, p, s)
        \/ BeginProbe(r, p, s)
        \/ s \in Tenants /\ UseOwn(r, p, s)

(* Nobody asks for anything.                                               *)
Rest ==
    /\ \A r \in Requests : reqs[r] = Idle
    /\ \A p \in Processes : up[p] = "up"
    /\ UNCHANGED vars

Next ==
    \/ Rest
    \/ \E p \in Processes : SeedCheck(p) \/ SeedInsert(p) \/ Crash(p)
    \/ \E r \in Requests : Begin(r) \/ Step(r)

Spec == Init /\ [][Next]_vars

-----------------------------------------------------------------------------
(* The types; a client in a cache was complete when it was built, and its  *)
(* version is one a row can have.                                          *)
TypeOK ==
    /\ \A row \in rows :
          /\ row.scope \in Scopes /\ row.mode \in Modes
          /\ row.version \in Nat \ {0}
          /\ row.health \in Verdicts \cup {"UNKNOWN"}
          /\ {row.url, row.token, row.kube} \subseteq 0 .. saves \cup {None}
    /\ events \in [Scopes -> Nat]
    /\ up \in [Processes -> {"starting", "seeding", "up"}]
    /\ \A p \in Processes, s \in Scopes :
          LET slot == cache[p][s] IN
          slot # None => /\ slot.version \in Nat \ {0}
                         /\ slot.client.mode = "CUSTOM" => None \notin {slot.client.url, slot.client.token}
                         /\ slot.client.mode = "KUBECONFIG" => slot.client.kube # None

Answered(r) == reqs[r].pc = "done"

(* A caller gets a client for the cluster of the row it read: the one its  *)
(* own tenant saved, or the platform's when it has none, and never a       *)
(* client that was cached for another scope (resolver.py:80-88).           *)
OwnCluster ==
    \A r \in Requests : Answered(r) =>
        /\ reqs[r].got.scope = reqs[r].read.scope
        /\ reqs[r].got.scope \in {reqs[r].tenant, Platform, None}

(* A process that cached a client and knows nothing of a save made by      *)
(* another one still gives the client of the settings it reads, as long as *)
(* no override was removed and no two saves of the scope overlapped        *)
(* (resolver.py:6-8, the version as the signal of a change).               *)
DriftIsSeen ==
    \A r \in Requests : Answered(r) =>
        reqs[r].got = reqs[r].read \/ reqs[r].read.scope \in restarted

(* What DriftIsSeen says, of every history: the docstring of the resolver  *)
(* makes no exception.                                                     *)
DriftAlwaysSeen ==
    \A r \in Requests : Answered(r) => reqs[r].got = reqs[r].read

(* A tenant has one row at most, whatever saves race to make the first.    *)
OneRowPerTenant == \A s \in Tenants : Cardinality(Of(s)) <= 1

(* The model's comment says it of the platform default too, whose tenant   *)
(* is NULL.                                                                *)
OneRowPerScope == \A s \in Scopes : Cardinality(Of(s)) <= 1

(* A save cleans the fields of the other modes: no row holds credentials   *)
(* its mode does not use, unless the last save of it overlapped with       *)
(* another write (_apply_mode_payload).                                    *)
CoherentRows ==
    \A row \in rows : \/ row.torn
                      \/ /\ row.mode # "CUSTOM" => row.url = None /\ row.token = None
                         /\ row.mode # "KUBECONFIG" => row.kube = None

(* The health shown with the settings of a scope is the verdict on these   *)
(* very settings, unless a probe and a save overlapped.                    *)
HealthIsOfTheseSettings ==
    \A row \in rows : row.torn \/ row.health = "UNKNOWN" \/ row.about = Content(row)

(* The same of every row: a probe looks for seconds and then writes, whatever *)
(* the row says by then.                                                    *)
HealthIsCurrent == \A row \in rows : row.health = "UNKNOWN" \/ row.about = Content(row)

(* Every committed change has its event: those missing are in flight, or   *)
(* were lost to a crash, a rolled back savepoint or a row that vanished    *)
(* before it was read back; none is written twice or without a change.     *)
EventsMatchChanges ==
    \A s \in Scopes :
        commits[s] = events[s] + lost[s]
            + Cardinality({r \in Requests : reqs[r].pc = "log" /\ reqs[r].scope = s})

(* A caller gets the client of its own cluster, built from its settings.   *)
ClientsFollowSettings == OwnCluster /\ DriftIsSeen

(* What a row shows fits together, and one row speaks for a tenant.        *)
RowsConsistent == TypeOK /\ OneRowPerTenant /\ CoherentRows /\ HealthIsOfTheseSettings
=============================================================================
