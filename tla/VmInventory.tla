---------------------------- MODULE VmInventory ----------------------------
(***************************************************************************)
(* The inventory: hypervisors, the virtual machines discovery records of   *)
(* them, and the analyzer.  A synchronisation runs inside a request and    *)
(* lasts minutes: it marks the hypervisor, reads the source, matches what  *)
(* it read with the rows one machine at a time, archives the rows it did   *)
(* not match, and commits; analyses, edits, deletions, migrations and      *)
(* other synchronisations go on meanwhile.  Sessions do not flush before a *)
(* query (autoflush=False): a query sees what is committed and what an     *)
(* insert has flushed.                                                     *)
(***************************************************************************)
EXTENDS DiscoverySources, CompatibilityRules, FiniteSets

CONSTANTS
    Hyps, Vms, Machines,    \* ids of hypervisors and rows, and what exists
    Tenants,
    Facts,          \* the record of each machine
    Readings,       \* how the machines may be read
    InitialHyps,    \* sets of rows of the first hypervisors and of
    InitialVms,     \* the first virtual machines,
    InitialPlaces,  \* and of the machines on the hypervisors
    Places,         \* how the machines may be placed later
    VmBodies,       \* the bodies of POST /vms
    HypNames,       \* names clients give hypervisors
    Verdicts,       \* predictions of the model
    Requests,       \* requests in flight at the same time
    Gone,           \* a deleted row
    Budgets         \* bounds: how many requests and events of each kind there are

Kinds == {"sync", "test", "analyze", "vm", "hyp", "world", "migration", "crash"}
HypStatuses == {"active", "unreachable", "error", "discovering", "unknown"}
VmStatuses == {"discovered", "analyzing", "compatible", "incompatible", "partial",
               "migrated", "archived"}
CompatStatuses == {"compatible", "partial", "incompatible", "unknown"}
VmFacts == [os : OsTypes, label : Labels, cpu : Nat, mem : Nat, disk : Nat]
Hyp == [tenant : Tenants, name : HypNames, type : Types, status : HypStatuses, count : Nat]

\* "from" is a history of the row: the identity of the machine whose data were
\* last written to it.
Vm == [tenant : Tenants, name : Names, hyp : Hyps \cup {None}, id : Identities \cup {None},
       facts : VmFacts, status : VmStatuses, compat : CompatStatuses,
       from : Identities \cup {None}]

ASSUME InventoryAssumption ==
    /\ IsFiniteSet(Hyps) /\ IsFiniteSet(Vms)    \* ids are 32-bit integers
    /\ Facts \in [Machines -> Machine]
    /\ Readings \subseteq [Machines -> Outcomes]
    /\ InitialHyps \subseteq [Hyps -> Hyp \cup {None}]
    /\ InitialVms \subseteq [Vms -> Vm \cup {None}]
    /\ InitialPlaces \subseteq [Machines -> Hyps \cup {None}]
    /\ Places \subseteq [Machines -> Hyps \cup {None}]
    /\ Verdicts \subseteq Predictions
    /\ None \notin Hyps \cup Vms \cup Requests \cup Hyp \cup Vm \cup Identities
    /\ Gone \notin Hyps \cup Vms \cup Hyp \cup Vm \cup {None}
    /\ Budgets \subseteq [Kinds -> Nat]
ASSUME BodyAssumption ==
    VmBodies \subseteq [tenant : Tenants, name : Names, hyp : Hyps \cup {None},
                        id : Identities \cup {None}, facts : VmFacts]

VARIABLES
    hyps,       \* rows of hypervisors, None for a free id
    vms,        \* rows of virtual_machines
    place,      \* the hypervisor each machine is on
    migrating,  \* rows with an active migration
    reqs,       \* requests between their steps
    budget,     \* requests and events of each kind still to come
    stuck,      \* history: hypervisors and rows whose request ended half-way
    overlapped  \* history: identities two synchronisations reported at a time

vars == <<hyps, vms, place, migrating, reqs, budget, stuck, overlapped>>

-----------------------------------------------------------------------------
(* Rows. *)

Hypervisor(h) == h # None /\ hyps[h] \notin {None, Gone}
Present(v) == vms[v] \notin {None, Gone}
Live(vm) == vm \notin {None, Gone} /\ vm.status # "archived"
RowsOf(h) == {v \in Vms : Live(vms[v]) /\ vms[v].hyp = h}

\* VirtualMachine.can_migrate.
CanMigrate(vm) ==
    /\ vm.compat \in {"compatible", "partial"}
    /\ vm.status \notin {"analyzing", "migrated", "archived"}

Idle == [kind |-> "idle"]
Ready(r, kind) == reqs[r] = Idle /\ budget[kind] > 0
Spend(kind) == budget' = [budget EXCEPT ![kind] = @ - 1]

\* A new row takes an id that no row has or had.
Unused == {v \in Vms : /\ vms[v] = None
                       /\ \A r \in Requests : reqs[r].kind = "sync" => v \notin reqs[r].new}
NewId == CHOOSE v \in Unused : TRUE

-----------------------------------------------------------------------------
(* What the requests that only read answer. *)

\* get_vms and get_vms_count, get_hypervisors and get_hypervisors_count, with
\* the filter on the tenant that everybody but a superuser has.
VmsOf(t) == {v \in Vms : Present(v) /\ (t = None \/ vms[v].tenant = t)}
HypsOf(t) == {h \in Hyps : Hypervisor(h) /\ (t = None \/ hyps[h].tenant = t)}

\* GET /hypervisors/{id}/vms: the tenant is checked on the hypervisor only.
HypervisorVms(t, h) == IF h \in HypsOf(t) THEN RowsOf(h) ELSE {}

\* GET /vms with a filter on the hypervisor.
ListVms(t, h) == {v \in VmsOf(t) : vms[v].hyp = h}

-----------------------------------------------------------------------------
(* Synchronisation. *)

Sync(r, at) == reqs[r].kind = "sync" /\ reqs[r].at = at
Nothing == [v \in Vms |-> None]

\* History, for SyncMirrors: no other request was under way when a session began to
\* match, and what could touch the rows behind it since.
Alone(r) == \A p \in Requests \ {r} : reqs[p] = Idle
NoSnap == [alone |-> FALSE, migrating |-> {}, budget |-> [k \in Kinds |-> 0]]
Snap(alone) == IF alone THEN [alone |-> TRUE, migrating |-> migrating, budget |-> budget] ELSE NoSnap

\* discover_hypervisor marks the hypervisor; that another synchronisation of it
\* runs does not matter.
SyncBegin(r, h) ==
    /\ Ready(r, "sync") /\ Hypervisor(h)
    /\ hyps' = [hyps EXCEPT ![h].status = "discovering"]
    /\ reqs' = [reqs EXCEPT ![r] =
          [kind |-> "sync", at |-> "fetch", hyp |-> h, tenant |-> hyps[h].tenant,
           type |-> hyps[h].type, left |-> {}, seen |-> {}, base |-> Nothing,
           now |-> Nothing, new |-> {}, flushed |-> {}, snap |-> NoSnap]]
    /\ Spend("sync")
    /\ UNCHANGED <<vms, place, migrating, stuck, overlapped>>

\* What a call of discover_hypervisor's driver returns, or that it raises.
Report(h, type, listing, reading) ==
    Discovered(type, {<<Facts[m], reading[m]>> : m \in {n \in Machines : place[n] = h}}, listing)

\* Identities another synchronisation of the tenant has reported and not yet committed.
InFlight(r) == UNION {reqs[p].seen : p \in {q \in Requests \ {r} :
                        /\ reqs[q].kind = "sync" /\ reqs[q].tenant = reqs[r].tenant
                        /\ reqs[q].at \in {"match", "commit"}}}

\* The driver has returned, and its records are to be matched.
SyncFetch(r, listing, reading) ==
    LET q == reqs[r]
        report == Report(q.hyp, q.type, listing, reading)
        ids == {data.id : data \in report}
    IN  /\ Sync(r, "fetch") /\ report # Aborts
        /\ reqs' = [reqs EXCEPT ![r].at = "match", ![r].left = report, ![r].seen = ids,
                                ![r].snap = Snap(Alone(r))]
        /\ overlapped' = overlapped \cup (ids \cap InFlight(r))
        /\ UNCHANGED <<hyps, vms, place, migrating, budget, stuck>>

(* Mutant: the hypervisor stays as it was marked.                            *)
SyncFailSilent(r) ==
    /\ Sync(r, "fetch")
    /\ reqs' = [reqs EXCEPT ![r] = Idle]
    /\ UNCHANGED <<hyps, vms, place, migrating, budget, stuck, overlapped>>

\* The source does not answer, or a driver raises: the hypervisor goes to
\* ERROR, unless it was deleted meanwhile.
SyncFail(r) ==
    /\ Sync(r, "fetch")
    /\ hyps' = IF Hypervisor(reqs[r].hyp) THEN [hyps EXCEPT ![reqs[r].hyp].status = "error"]
                                          ELSE hyps
    /\ reqs' = [reqs EXCEPT ![r] = Idle]
    /\ UNCHANGED <<vms, place, migrating, budget, stuck, overlapped>>

\* What a query of the transaction sees of a row, and the object the session
\* has for it: its attributes are those of the first read.
Seen(r, v) == IF v \in reqs[r].flushed THEN reqs[r].now[v] ELSE vms[v]
Loaded(r, v) == IF reqs[r].now[v] # None THEN reqs[r].now[v] ELSE vms[v]
SeenRows(r) == {v \in Vms : Seen(r, v) \notin {None, Gone}}

(* Mutant: every row of the name is taken.                                   *)
Pass3Any(r, data) ==
    {v \in SeenRows(r) : Seen(r, v).hyp = reqs[r].hyp /\ Seen(r, v).name = data.name}

(* Mutant: a machine is looked for among those of all tenants.               *)
Pass2Any(r, data) == {v \in SeenRows(r) : Seen(r, v).id = data.id}

\* The three passes of _save_discovered_vms, by the identity on the hypervisor,
\* by the identity in the tenant (_reattach_by_uuid), and by the name among the
\* rows without identity.
Pass1(r, data) ==
    {v \in SeenRows(r) : Seen(r, v).hyp = reqs[r].hyp /\ Seen(r, v).id = data.id}
Pass2(r, data) ==
    {v \in SeenRows(r) : Seen(r, v).tenant = reqs[r].tenant /\ Seen(r, v).id = data.id}
Pass3(r, data) ==
    {v \in SeenRows(r) : LET vm == Seen(r, v) IN
         vm.hyp = reqs[r].hyp /\ vm.name = data.name /\ vm.id = None}

Matches(r, data) == IF Pass1(r, data) # {} THEN Pass1(r, data)
                    ELSE IF Pass2(r, data) # {} THEN Pass2(r, data) ELSE Pass3(r, data)

\* _update_vm_from_discovery: an identity is never replaced, a size is not by 0.
Updated(vm, data) ==
    [vm EXCEPT !.status = IF @ = "archived" THEN "discovered" ELSE @,
               !.id = IF @ = None THEN data.id ELSE @,
               !.facts = Refreshed(vm.facts, data),
               !.from = data.id]

\* _create_vm_from_discovery.
Created(q, data) ==
    [tenant |-> q.tenant, name |-> data.name, hyp |-> q.hyp, id |-> data.id,
     facts |-> FactsOf(data), status |-> "discovered", compat |-> data.compat, from |-> data.id]

\* One turn of the loop that finds a row; the second pass attaches it.
SyncMatch(r, data, v) ==
    LET q == reqs[r] IN
    /\ Sync(r, "match") /\ data \in q.left /\ v \in Matches(r, data)
    /\ LET vm == Loaded(r, v) IN
       reqs' = [reqs EXCEPT
          ![r].left = @ \ {data},
          ![r].base[v] = IF @ = None /\ v \notin q.new THEN vm ELSE @,
          ![r].now[v] = Updated(IF Pass1(r, data) = {} /\ Pass2(r, data) # {}
                                THEN [vm EXCEPT !.hyp = q.hyp] ELSE vm, data)]
    /\ UNCHANGED <<hyps, vms, place, migrating, budget, stuck, overlapped>>

\* What a flush needs: the rows it updates are there, and so is the hypervisor
\* that rows refer to anew.
Flushes(r) ==
    LET q == reqs[r] IN
    /\ \A v \in Vms : q.base[v] # None => Present(v)
    /\ (\E v \in Vms : q.now[v] # None /\ (q.base[v] = None \/ q.base[v].hyp # q.now[v].hyp))
          => Hypervisor(q.hyp)

\* One turn that finds none inserts a row and flushes the session.
SyncInsert(r, data) ==
    LET q == reqs[r] IN
    /\ Sync(r, "match") /\ data \in q.left /\ Matches(r, data) = {}
    /\ Unused # {} /\ Flushes(r) /\ Hypervisor(q.hyp)
    /\ reqs' = [reqs EXCEPT
          ![r].left = @ \ {data}, ![r].new = @ \cup {NewId},
          ![r].now[NewId] = Created(q, data),
          ![r].flushed = @ \cup {NewId} \cup {v \in Vms : q.now[v] # None}]
    /\ UNCHANGED <<hyps, vms, place, migrating, budget, stuck, overlapped>>

(* Mutant: no status protects a row.                                         *)
StaleAny(r) ==
    {v \in SeenRows(r) : LET vm == Seen(r, v) IN
         /\ vm.hyp = reqs[r].hyp /\ vm.status # "archived"
         /\ reqs[r].seen # {} => vm.id # None /\ vm.id \notin reqs[r].seen}

\* The stale rows: those of the hypervisor whose identity was not reported.  A
\* row without identity compares to nothing, and goes only when the source is
\* empty.
Stale(r) ==
    {v \in SeenRows(r) : LET vm == Seen(r, v) IN
         /\ vm.hyp = reqs[r].hyp /\ vm.status \notin {"archived", "migrated"}
         /\ reqs[r].seen # {} => vm.id # None /\ vm.id \notin reqs[r].seen}

SyncStale(r) ==
    LET q == reqs[r] IN
    /\ Sync(r, "match") /\ q.left = {}
    /\ reqs' = [reqs EXCEPT
          ![r].at = "commit",
          ![r].base = [v \in Vms |-> IF v \in Stale(r) /\ @[v] = None /\ v \notin q.new
                                     THEN vms[v] ELSE @[v]],
          ![r].now = [v \in Vms |-> IF v \in Stale(r)
                                    THEN [Loaded(r, v) EXCEPT !.status = "archived"]
                                    ELSE @[v]]]
    /\ UNCHANGED <<hyps, vms, place, migrating, budget, stuck, overlapped>>

\* An update writes the columns whose value the session changed.
Written(vm, base, now) ==
    [vm EXCEPT !.hyp = IF now.hyp # base.hyp THEN now.hyp ELSE @,
               !.id = IF now.id # base.id THEN now.id ELSE @,
               !.status = IF now.status # base.status THEN now.status ELSE @,
               !.facts = IF now.facts # base.facts THEN now.facts ELSE @,
               !.from = now.from]

SyncCommit(r) ==
    LET q == reqs[r] IN
    /\ Sync(r, "commit") /\ Flushes(r)
    /\ vms' = [v \in Vms |-> IF v \in q.new THEN q.now[v]
                             ELSE IF q.base[v] # None THEN Written(vms[v], q.base[v], q.now[v])
                             ELSE vms[v]]
    /\ reqs' = [reqs EXCEPT ![r].at = "count", ![r].new = {}]
    /\ UNCHANGED <<hyps, place, migrating, budget, stuck, overlapped>>

\* A flush that fails leaves the session unusable: the handler that would mark
\* the hypervisor reads its name first, which raises again, and the request
\* ends there.
SyncFlushFails(r) ==
    /\ reqs[r].kind = "sync"
    /\ reqs[r].at = "match" => /\ ~(Flushes(r) /\ Hypervisor(reqs[r].hyp))
                              /\ ~\A data \in reqs[r].left : Matches(r, data) # {}
    /\ reqs[r].at # "match" => Sync(r, "commit") /\ ~Flushes(r)
    /\ reqs' = [reqs EXCEPT ![r] = Idle]
    /\ stuck' = stuck \cup {reqs[r].hyp}
    /\ UNCHANGED <<hyps, vms, place, migrating, budget, overlapped>>

\* total_vms_discovered, in a transaction of its own.
SyncCount(r) ==
    LET h == reqs[r].hyp IN
    /\ Sync(r, "count") /\ Hypervisor(h)
    /\ hyps' = [hyps EXCEPT ![h].count = Cardinality(RowsOf(h))]
    /\ reqs' = [reqs EXCEPT ![r].at = "end"]
    /\ UNCHANGED <<vms, place, migrating, budget, stuck, overlapped>>

SyncEnd(r) ==
    /\ Sync(r, "end") /\ Hypervisor(reqs[r].hyp)
    /\ hyps' = [hyps EXCEPT ![reqs[r].hyp].status = "active"]
    /\ reqs' = [reqs EXCEPT ![r] = Idle]
    /\ UNCHANGED <<vms, place, migrating, budget, stuck, overlapped>>

\* The hypervisor was deleted: reading it raises.
SyncOrphaned(r) ==
    /\ (Sync(r, "count") \/ Sync(r, "end")) /\ ~Hypervisor(reqs[r].hyp)
    /\ reqs' = [reqs EXCEPT ![r] = Idle]
    /\ UNCHANGED <<hyps, vms, place, migrating, budget, stuck, overlapped>>

-----------------------------------------------------------------------------
(* Hypervisors. *)

\* Tests of a connection read the source as a synchronisation does.
TestBegin(r, h) ==
    /\ Ready(r, "test") /\ Hypervisor(h)
    /\ reqs' = [reqs EXCEPT ![r] = [kind |-> "test", hyp |-> h, type |-> hyps[h].type,
                                    status |-> hyps[h].status]]
    /\ Spend("test")
    /\ UNCHANGED <<hyps, vms, place, migrating, stuck, overlapped>>

\* The status is written when it is not the one the request began with; an
\* exception that is no failure to connect ends the request before.
TestEnd(r, listing, reading) ==
    LET q == reqs[r]
        status == IF Report(q.hyp, q.type, listing, reading) = Aborts THEN "unreachable" ELSE "active"
    IN  /\ q.kind = "test"
        /\ \/ hyps' = IF Hypervisor(q.hyp) /\ status # q.status
                      THEN [hyps EXCEPT ![q.hyp].status = status] ELSE hyps
           \/ status = "unreachable" /\ UNCHANGED hyps
        /\ reqs' = [reqs EXCEPT ![r] = Idle]
        /\ UNCHANGED <<vms, place, migrating, budget, stuck, overlapped>>

\* The constraint on the tenant and the name stands behind get_hypervisor_by_name.
NameFree(t, name) == \A h \in Hyps : Hypervisor(h) => <<hyps[h].tenant, hyps[h].name>> # <<t, name>>

CreateHypervisor(t, name, type) ==
    /\ budget["hyp"] > 0 /\ NameFree(t, name)
    /\ \E h \in Hyps : hyps[h] = None
    /\ hyps' = [hyps EXCEPT ![CHOOSE h \in Hyps : hyps[h] = None] =
          [tenant |-> t, name |-> name, type |-> type, status |-> "unknown", count |-> 0]]
    /\ Spend("hyp")
    /\ UNCHANGED <<vms, place, migrating, reqs, stuck, overlapped>>

\* update_hypervisor: status and statistics are protected fields.
UpdateHypervisor(h, name) ==
    /\ budget["hyp"] > 0 /\ Hypervisor(h) /\ NameFree(hyps[h].tenant, name)
    /\ hyps' = [hyps EXCEPT ![h].name = name]
    /\ Spend("hyp")
    /\ UNCHANGED <<vms, place, migrating, reqs, stuck, overlapped>>

\* The rows of the hypervisor stay, without it.
DeleteHypervisor(h) ==
    /\ budget["hyp"] > 0 /\ Hypervisor(h)
    /\ hyps' = [hyps EXCEPT ![h] = Gone]
    /\ vms' = [v \in Vms |-> IF Present(v) /\ vms[v].hyp = h THEN [vms[v] EXCEPT !.hyp = None]
                                                           ELSE vms[v]]
    /\ Spend("hyp")
    /\ UNCHANGED <<place, migrating, reqs, stuck, overlapped>>

-----------------------------------------------------------------------------
(* Virtual machines. *)

\* crud_vm.create_vm looks for the name on the hypervisor; no constraint does.
CreateVmBegin(r, body) ==
    /\ Ready(r, "vm")
    /\ \A v \in Vms : Present(v) => <<vms[v].name, vms[v].hyp>> # <<body.name, body.hyp>>
    /\ reqs' = [reqs EXCEPT ![r] = [kind |-> "vm", body |-> body]]
    /\ Spend("vm")
    /\ UNCHANGED <<hyps, vms, place, migrating, stuck, overlapped>>

CreateVmCommit(r) ==
    /\ reqs[r].kind = "vm"
    /\ LET body == reqs[r].body IN
       vms' = IF Unused # {} /\ (body.hyp # None => Hypervisor(body.hyp))
              THEN [vms EXCEPT ![NewId] =
                      [tenant |-> body.tenant, name |-> body.name, hyp |-> body.hyp,
                       id |-> body.id, facts |-> body.facts, status |-> "discovered",
                       compat |-> "unknown", from |-> None]]
              ELSE vms
    /\ reqs' = [reqs EXCEPT ![r] = Idle]
    /\ UNCHANGED <<hyps, place, migrating, budget, stuck, overlapped>>

\* crud_vm.update_vm: what clients correct is the name and the facts.
UpdateVm(v, body) ==
    /\ budget["vm"] > 0 /\ Present(v)
    /\ vms' = [vms EXCEPT ![v].name = body.name, ![v].facts = body.facts]
    /\ Spend("vm")
    /\ UNCHANGED <<hyps, place, migrating, reqs, stuck, overlapped>>

\* The migrations of the row go with it.
DeleteVm(v) ==
    /\ budget["vm"] > 0 /\ Present(v)
    /\ vms' = [vms EXCEPT ![v] = Gone]
    /\ migrating' = migrating \ {v}
    /\ Spend("vm")
    /\ UNCHANGED <<hyps, place, reqs, stuck, overlapped>>

-----------------------------------------------------------------------------
(* The analyzer. *)

Analysis(r) == reqs[r].kind = "analyze"
TypeOf(vm) == IF Hypervisor(vm.hyp) THEN hyps[vm.hyp].type ELSE "unknown"

\* analyze_vm commits ANALYZING under the lock of the row, and reads the row
\* again when the lock is gone.
AnalyzeBegin(r, v, force) ==
    /\ Ready(r, "analyze") /\ Present(v) /\ (~force => vms[v].compat = "unknown")
    /\ vms' = [vms EXCEPT ![v].status = "analyzing"]
    /\ reqs' = [reqs EXCEPT ![r] = [kind |-> "analyze", vm |-> v, force |-> force,
                    facts |-> vms[v].facts, type |-> TypeOf(vms[v]), compat |-> vms[v].compat]]
    /\ Spend("analyze")
    /\ UNCHANGED <<hyps, place, migrating, stuck, overlapped>>

AnalyzeCommit(r, prediction) ==
    LET q == reqs[r]
        grade == GradeStatus(DecideGrade(Evaluate(q.facts, q.type), prediction))
    IN  /\ Analysis(r)
        /\ vms' = IF ~Present(q.vm) THEN vms
                  ELSE [vms EXCEPT ![q.vm].status = grade,
                                   ![q.vm].compat = IF grade # q.compat THEN grade ELSE @]
        /\ reqs' = [reqs EXCEPT ![r] = Idle]
        /\ UNCHANGED <<hyps, place, migrating, budget, stuck, overlapped>>

\* Its handler puts back DISCOVERED: the status it sees is its own ANALYZING.
AnalyzeFail(r) ==
    /\ Analysis(r)
    /\ vms' = IF Present(reqs[r].vm) THEN [vms EXCEPT ![reqs[r].vm].status = "discovered"] ELSE vms
    /\ reqs' = [reqs EXCEPT ![r] = Idle]
    /\ UNCHANGED <<hyps, place, migrating, budget, stuck, overlapped>>

-----------------------------------------------------------------------------
(* Around the inventory. *)

\* A migration is created for a row that can migrate; MIGRATED is the only
\* status of a row that its run writes.
MigrationBegins(v) ==
    /\ budget["migration"] > 0 /\ v \notin migrating /\ Present(v) /\ CanMigrate(vms[v])
    /\ migrating' = migrating \cup {v}
    /\ Spend("migration")
    /\ UNCHANGED <<hyps, vms, place, reqs, stuck, overlapped>>

MigrationEnds(v, done) ==
    /\ v \in migrating
    /\ vms' = IF done THEN [vms EXCEPT ![v].status = "migrated"] ELSE vms
    /\ migrating' = migrating \ {v}
    /\ UNCHANGED <<hyps, place, reqs, budget, stuck, overlapped>>

\* Machines are created, deleted and moved on the sources.
MachinesMove(to) ==
    /\ budget["world"] > 0 /\ place # to
    /\ place' = to
    /\ Spend("world")
    /\ UNCHANGED <<hyps, vms, migrating, reqs, stuck, overlapped>>

\* The process that serves a request dies.
Crash(r) ==
    /\ budget["crash"] > 0 /\ reqs[r] # Idle
    /\ stuck' = CASE reqs[r].kind = "sync" -> stuck \cup {reqs[r].hyp}
                  [] reqs[r].kind = "analyze" -> stuck \cup {reqs[r].vm}
                  [] OTHER -> stuck
    /\ reqs' = [reqs EXCEPT ![r] = Idle]
    /\ Spend("crash")
    /\ UNCHANGED <<hyps, vms, place, migrating, overlapped>>

-----------------------------------------------------------------------------
Init ==
    /\ hyps \in InitialHyps /\ vms \in InitialVms /\ place \in InitialPlaces
    /\ migrating = {}
    /\ reqs = [r \in Requests |-> Idle]
    /\ budget \in Budgets
    /\ stuck = {} /\ overlapped = {}

Rest == (\A r \in Requests : reqs[r] = Idle) /\ migrating = {} /\ UNCHANGED vars

SyncStep(r) ==
    \/ \E h \in Hyps : SyncBegin(r, h)
    \/ \E listing \in BOOLEAN, reading \in Readings : SyncFetch(r, listing, reading)
    \/ SyncFail(r)
    \/ \E data \in IF Sync(r, "match") THEN reqs[r].left ELSE {} :
          SyncInsert(r, data) \/ \E v \in Vms : SyncMatch(r, data, v)
    \/ SyncStale(r) \/ SyncCommit(r) \/ SyncFlushFails(r)
    \/ SyncCount(r) \/ SyncEnd(r) \/ SyncOrphaned(r)

RequestStep(r) ==
    \/ SyncStep(r)
    \/ \E h \in Hyps : TestBegin(r, h)
    \/ \E listing \in BOOLEAN, reading \in Readings : TestEnd(r, listing, reading)
    \/ \E body \in VmBodies : CreateVmBegin(r, body)
    \/ CreateVmCommit(r)
    \/ \E v \in Vms, force \in BOOLEAN : AnalyzeBegin(r, v, force)
    \/ \E prediction \in Verdicts : AnalyzeCommit(r, prediction)
    \/ AnalyzeFail(r) \/ Crash(r)

Next ==
    \/ \E r \in Requests : RequestStep(r)
    \/ \E t \in Tenants, name \in HypNames, type \in Types : CreateHypervisor(t, name, type)
    \/ \E h \in Hyps : DeleteHypervisor(h) \/ \E name \in HypNames : UpdateHypervisor(h, name)
    \/ \E v \in Vms : \/ DeleteVm(v) \/ MigrationBegins(v)
                      \/ \E done \in BOOLEAN : MigrationEnds(v, done)
                      \/ \E body \in VmBodies : UpdateVm(v, body)
    \/ \E to \in Places : MachinesMove(to)
    \/ Rest

Spec == Init /\ [][Next]_vars

-----------------------------------------------------------------------------
(* Properties. *)

\* Tables and requests are well formed, and an active migration has its row.
TypeOK ==
    /\ hyps \in [Hyps -> Hyp \cup {None, Gone}]
    /\ vms \in [Vms -> Vm \cup {None, Gone}]
    /\ place \in [Machines -> Hyps \cup {None}]
    /\ \A v \in migrating : Present(v)
    /\ DOMAIN reqs = Requests /\ budget \in [Kinds -> Nat]
    /\ stuck \subseteq Hyps \cup Vms /\ overlapped \subseteq Identities

\* A machine has one row in its tenant, wherever it moves and whatever comes
\* between, unless two synchronisations that ran at the same time both reported
\* it or a client typed its identity.
OneRowPerIdentity ==
    \A v, w \in Vms : Present(v) /\ Present(w) /\ v # w /\ vms[v].id # None
        /\ vms[v].id = vms[w].id /\ vms[v].tenant = vms[w].tenant
        => vms[v].id \in overlapped \cup {body.id : body \in VmBodies}

\* Audit E16: a row never carries the identity of one machine and the data of
\* another, though the name of a machine that was recreated is on it.
NeverHijacked ==
    \A v \in Vms : Present(v) /\ vms[v].from # None => vms[v].from = vms[v].id

\* Audit E5: DISCOVERING means that a synchronisation runs, unless its process
\* died or its session broke.
DiscoveringHasSync ==
    \A h \in Hyps : Hypervisor(h) /\ hyps[h].status = "discovering" =>
        h \in stuck \/ \E r \in Requests : reqs[r].kind = "sync" /\ reqs[r].hyp = h

\* ANALYZING means that an analysis runs, whatever else is done to the row,
\* unless its process died.
AnalyzingHasAnalyst ==
    \A v \in Vms : Present(v) /\ vms[v].status = "analyzing" =>
        v \in stuck \/ \E r \in Requests : Analysis(r) /\ reqs[r].vm = v

\* A machine has one row and a row one machine, whatever moves, is created anew or
\* is read by two synchronisations at a time.
RowsFollowMachines == TypeOK /\ OneRowPerIdentity /\ NeverHijacked

\* What a tenant finds under its hypervisors is what it finds in its list of
\* machines.
ViewsAgree ==
    \A t \in Tenants : \A h \in HypsOf(t) :
        HypervisorVms(t, h) = {v \in ListVms(t, h) : Live(vms[v])}

\* A passing status has somebody who will end it.
BusyHasOwner == DiscoveringHasSync /\ AnalyzingHasAnalyst

\* A migrated row keeps its status, except for an analysis, which after the
\* migration only begins when it is forced, and for a synchronisation that found
\* the row unprotected before the migration ended.
MigratedStays ==
    \A v \in Vms : Present(v) /\ vms[v].status = "migrated"
                      /\ vms[v]' # Gone /\ vms[v]'.status # "migrated" =>
          \E r \in Requests :
             \/ reqs'[r].kind = "analyze" /\ reqs'[r].vm = v /\ reqs'[r].force
             \/ Analysis(r) /\ reqs[r].vm = v
             \/ Sync(r, "commit") /\ reqs[r].base[v] # None
                                 /\ reqs[r].base[v].status # "migrated"

\* The table of _save_discovered_vms: when nothing else was under way as the source
\* was read, and nothing has begun and no migration ended since, then after the
\* commit the machines reported and the live rows of the hypervisor that have an
\* identity are the same, migrated ones aside.
SyncMirrors ==
    \A r \in Requests : Sync(r, "commit") /\ Sync(r, "count")' /\ reqs[r].snap = Snap(TRUE) =>
          LET live == {v \in Vms : /\ vms'[v] \notin {None, Gone} /\ vms'[v].status # "archived"
                                  /\ vms'[v].hyp = reqs[r].hyp /\ vms'[v].id # None}
          IN  /\ reqs[r].seen \subseteq {vms'[v].id : v \in live}
              /\ \A v \in live : vms'[v].id \in reqs[r].seen \/ vms'[v].status = "migrated"

\* A synchronisation makes the rows what its source reported, and neither it
\* nor anything else brings a migrated row back to life.
SyncFollowsSource == [][MigratedStays /\ SyncMirrors]_vars
=============================================================================
