------------------------- MODULE VmInventory_proofs -------------------------
(***************************************************************************)
(* Proofs about the inventory, for any hypervisors, rows, machines,        *)
(* tenants, requests and budgets.                                          *)
(*                                                                         *)
(* Sound, the types and what a session knows of the rows it has, is an     *)
(* invariant of every run of the specification.  Owned, that whoever made  *)
(* a status busy will end it, is one where nothing is busy at the start.   *)
(* Traced, that the objects of a session have the identities of their rows *)
(* and that what it inserts has no row, is one where every row has an      *)
(* identity; with it go Graded, that what is migrated has a grade, and     *)
(* Steady, how far the rows follow the source of a session that began      *)
(* alone and that nothing has disturbed.  Housed, that rows and sessions   *)
(* name hypervisors of their tenant, is one where bodies do.               *)
(***************************************************************************)
EXTENDS VmInventory, FiniteSetTheorems, TLAPS

-----------------------------------------------------------------------------
(* What the drivers report.                                                 *)

LEMMA SizeTypes ==
    ASSUME NEW h \in Nat
    PROVE  Rounded(h) \in Nat /\ Ceiling(h) \in Nat /\ Positive(h) \in Nat /\ h \div 2 \in Nat
<1>1. h \div 2 \in Nat /\ (h + 1) \div 2 \in Nat
  OBVIOUS
<1>2. Rounded(h) \in Nat
  BY <1>1 DEF Rounded
<1> QED
  BY <1>1, <1>2 DEF Ceiling, Positive

LEMMA GuestTypes ==
    ASSUME NEW g \in Guest
    PROVE  /\ VmxOsType(g) \in OsTypes /\ HypervOsType(g) \in OsTypes
           /\ ProxmoxOsType(g) \in OsTypes /\ OvirtOsType(g) \in OsTypes
           /\ VmxLabel(g) \in Labels /\ KernelLabel(g) \in Labels /\ Label(g) \in Labels
           /\ ProxmoxLabel(g) \in Labels /\ OvirtLabel(g) \in Labels
<1>1. Label(g) \in Labels
  BY DEF Label, Labels
<1>2. VmxLabel(g) \in Labels
  BY <1>1 DEF VmxLabel, Labels
<1>3. KernelLabel(g) \in Labels /\ ProxmoxLabel(g) \in Labels /\ OvirtLabel(g) \in Labels
  BY <1>1, <1>2 DEF KernelLabel, ProxmoxLabel, OvirtLabel, Labels
<1>4. VmxOsType(g) \in OsTypes /\ OvirtOsType(g) \in OsTypes
  BY DEF VmxOsType, OvirtOsType, OsTypes, Guest
<1>5. HypervOsType(g) \in OsTypes /\ ProxmoxOsType(g) \in OsTypes
  BY DEF HypervOsType, ProxmoxOsType, OsTypes, Guest
<1> QED
  BY <1>1, <1>2, <1>3, <1>4, <1>5

LEMMA MachineTypes ==
    ASSUME NEW m \in Machine
    PROVE  /\ m.name \in Names /\ m.guest \in Guest
           /\ m.uuid \in Uuids \cup {None} /\ m.firmware \in Firmwares \cup {None}
           /\ m.cpu \in Nat /\ m.mem \in Nat /\ m.boot \in Nat /\ m.data \in Nat
           /\ m.boot + m.data \in Nat /\ OrBios(m.firmware) \in Firmwares \cup {None}
           /\ m.hint \in {"linux", "windows", "none"}
           /\ <<"uuid", m.uuid>> \in Identities /\ <<"name", m.name>> \in Identities
           /\ <<"vmid", m.name>> \in Identities
<1>1. /\ m.name \in Names /\ m.guest \in Guest
      /\ m.uuid \in Uuids \cup {None} /\ m.firmware \in Firmwares \cup {None}
      /\ m.cpu \in Nat /\ m.mem \in Nat /\ m.boot \in Nat /\ m.data \in Nat
      /\ m.hint \in {"linux", "windows", "none"}
  BY SourceAssumption DEF Machine
<1>2. OrBios(m.firmware) \in Firmwares \cup {None}
  BY <1>1 DEF OrBios, Firmwares
<1> QED
  BY <1>1, <1>2 DEF Identities

LEMMA DataType ==
    ASSUME NEW m \in Machine, NEW id \in Identities, NEW os \in OsTypes,
           NEW label \in Labels \cup {"untold"},
           NEW cpu \in Nat, NEW mem \in Nat, NEW disk \in Nat, NEW fw \in Firmwares \cup {None}
    PROVE  Data(id, m, os, label, cpu, mem, disk, fw) \in VmData
BY MachineTypes DEF Data, VmData

LEMMA ReadTypes ==
    ASSUME NEW m \in Machine, NEW outcome \in Outcomes
    PROVE  /\ ReadVsphere(m, outcome) \in VmData /\ ReadWorkstation(m, outcome) \in VmData
           /\ ReadHyperv(m, outcome) \in VmData /\ ReadKvm(m, outcome) \in VmData
           /\ ReadProxmox(m, outcome) \in VmData /\ ReadOvirt(m, outcome) \in VmData
           /\ ReadPhysical(m, outcome) \in VmData
<1> DEFINE g == m.guest
           fw == Firmwares \cup {None}
<1>1. /\ m.name \in Names /\ g \in Guest /\ m.uuid \in Uuids \cup {None} /\ m.firmware \in fw
      /\ m.cpu \in Nat /\ m.mem \in Nat /\ m.boot \in Nat /\ m.data \in Nat
      /\ m.boot + m.data \in Nat /\ OrBios(m.firmware) \in fw
      /\ m.hint \in {"linux", "windows", "none"}
      /\ <<"uuid", m.uuid>> \in Identities /\ <<"name", m.name>> \in Identities
      /\ <<"vmid", m.name>> \in Identities
  BY MachineTypes
<1>2. /\ VmxOsType(g) \in OsTypes /\ HypervOsType(g) \in OsTypes
      /\ ProxmoxOsType(g) \in OsTypes /\ OvirtOsType(g) \in OsTypes
      /\ VmxLabel(g) \in Labels /\ KernelLabel(g) \in Labels /\ Label(g) \in Labels
      /\ ProxmoxLabel(g) \in Labels /\ OvirtLabel(g) \in Labels
  BY <1>1, GuestTypes
<1>3. /\ Rounded(m.boot + m.data) \in Nat /\ Ceiling(m.boot + m.data) \in Nat
      /\ Positive(m.boot + m.data) \in Nat /\ (m.boot + m.data) \div 2 \in Nat
      /\ Positive(m.boot) \in Nat /\ Positive(m.data) \in Nat /\ Positive(m.boot + 0) \in Nat
  BY <1>1, SizeTypes
<1>4. /\ {"unknown", "linux", "windows"} \subseteq OsTypes /\ "unrecognised" \in Labels
      /\ 0 \in Nat /\ None \in fw /\ "bios" \in fw
  BY DEF OsTypes, Labels, Firmwares
<1> HIDE DEF g, fw
<1>5. /\ (IF m.tools THEN VmxOsType(g) ELSE "unknown") \in OsTypes
      /\ (IF m.tools THEN VmxLabel(g) ELSE "untold") \in Labels \cup {"untold"}
      /\ (IF m.uuid # None THEN <<"uuid", m.uuid>> ELSE <<"name", m.name>>) \in Identities
      /\ (IF m.uuid # None THEN <<"uuid", m.uuid>> ELSE <<"vmid", m.name>>) \in Identities
      /\ (IF m.uuid # None /\ "uuid" \notin outcome THEN <<"uuid", m.uuid>> ELSE <<"name", m.name>>)
            \in Identities
      /\ (IF m.running /\ m.tools /\ outcome = Ok THEN KernelLabel(g) ELSE VmxLabel(g)) \in Labels
      /\ (IF m.running /\ m.tools /\ outcome = Ok THEN HypervOsType(g) ELSE "unknown") \in OsTypes
      /\ (IF m.running /\ m.tools /\ outcome = Ok THEN Label(g) ELSE "unrecognised") \in Labels
      /\ (IF outcome = Ok THEN Rounded(m.boot + m.data) ELSE 0) \in Nat
      /\ (IF m.hint = "none" THEN "unknown" ELSE m.hint) \in OsTypes
  BY <1>1, <1>2, <1>3, <1>4
<1>6. (IF outcome = Ok THEN KvmDisk(m) ELSE 0) \in Nat
  BY <1>3, <1>4 DEF KvmDisk
<1>7. OvirtDisk(m, outcome) \in Nat
  BY <1>1, <1>3 DEF OvirtDisk
<1>8. ReadVsphere(m, outcome) \in VmData
  <2>1. CASE outcome # Ok
    BY <1>1, <1>4, <1>5, <2>1, DataType DEF ReadVsphere, g, fw
  <2>2. CASE outcome = Ok
    BY <1>1, <1>2, <1>3, <1>5, <2>2, DataType DEF ReadVsphere, g, fw
  <2> QED
    BY <2>1, <2>2
<1>9. ReadWorkstation(m, outcome) \in VmData
  <2> DEFINE d == Data(IF m.uuid # None THEN <<"uuid", m.uuid>> ELSE <<"name", m.name>>, m,
                       VmxOsType(g), IF m.running /\ m.tools /\ outcome = Ok THEN KernelLabel(g)
                                     ELSE VmxLabel(g),
                       m.cpu, m.mem, Positive(m.boot + m.data), OrBios(m.firmware))
             c == IF VmxOsType(g) \in {"linux", "windows"} THEN "compatible" ELSE "unknown"
  <2>1. d \in VmData
    BY <1>1, <1>2, <1>3, <1>5, DataType DEF fw
  <2>2. c \in {"unknown", "compatible"}
    OBVIOUS
  <2>3. ReadWorkstation(m, outcome) = [d EXCEPT !.compat = c]
    BY DEF ReadWorkstation, g
  <2> HIDE DEF d, c
  <2> QED
    BY <2>1, <2>2, <2>3 DEF VmData
<1>10. ReadHyperv(m, outcome) \in VmData
  BY <1>1, <1>5, DataType DEF ReadHyperv, g, fw
<1>11. ReadKvm(m, outcome) \in VmData
  BY <1>1, <1>4, <1>5, <1>6, DataType DEF ReadKvm, fw
<1>12. ReadProxmox(m, outcome) \in VmData
  <2>1. CASE outcome # Ok
    BY <1>1, <1>3, <1>4, <2>1, DataType DEF ReadProxmox, fw
  <2>2. CASE outcome = Ok
    BY <1>1, <1>2, <1>3, <1>5, <2>2, DataType DEF ReadProxmox, g, fw
  <2> QED
    BY <2>1, <2>2
<1>13. ReadOvirt(m, outcome) \in VmData
  BY <1>1, <1>2, <1>7, DataType DEF ReadOvirt, g, fw
<1>14. ReadPhysical(m, outcome) \in VmData
  <2> DEFINE id == IF m.uuid # None /\ "uuid" \notin outcome THEN <<"uuid", m.uuid>>
                                                           ELSE <<"name", m.name>>
             label == IF "os" \in outcome THEN "unrecognised" ELSE Label(g)
             cpu == IF "cpu" \in outcome THEN 1 ELSE m.cpu
             mem == IF "memory" \in outcome THEN 0 ELSE m.mem
             disk == IF "disks" \in outcome THEN 0 ELSE Ceiling(m.boot + m.data)
             firmware == IF "firmware" \in outcome THEN "bios" ELSE OrBios(m.firmware)
             root == IF "root" \in outcome THEN "none" ELSE m.root
             listed == IF "disks" \in outcome THEN None ELSE FirstDisk(m, root)
             d == Data(id, m, "linux", label, cpu, mem, disk, firmware)
  <2>1. /\ id \in Identities /\ label \in Labels /\ cpu \in Nat /\ mem \in Nat /\ disk \in Nat
        /\ firmware \in fw
    BY <1>1, <1>2, <1>3, <1>4, <1>5
  <2>2. listed \in {"boot", "data", None}
    BY DEF FirstDisk
  <2>3. ReadPhysical(m, outcome) = [d EXCEPT !.first = listed]
    BY DEF ReadPhysical, g
  <2> HIDE DEF id, label, cpu, mem, disk, firmware, root, listed
  <2>4. d \in VmData
    BY <1>1, <1>4, <2>1, DataType DEF fw
  <2> HIDE DEF d
  <2> QED
    BY <2>2, <2>3, <2>4 DEF VmData
<1> QED
  BY <1>8, <1>9, <1>10, <1>11, <1>12, <1>13, <1>14

LEMMA DiscoveredType ==
    ASSUME NEW type \in Types, NEW asked \in SUBSET (Machine \X Outcomes), NEW listing \in BOOLEAN,
           Discovered(type, asked, listing) # Aborts
    PROVE  Discovered(type, asked, listing) \in SUBSET VmData
<1>1. ASSUME NEW a \in asked
      PROVE  /\ a[1] \in Machine /\ a[2] \in Outcomes
             /\ (IF listing THEN a[2] ELSE Partial) \in Outcomes
  <2>1. Partial \in Outcomes
    BY DEF Outcomes
  <2> QED
    BY <1>1, <2>1
<1>2. CASE type = "vsphere"
  BY <1>1, <1>2, ReadTypes DEF Discovered, DiscoverVsphere
<1>3. CASE type = "vmware_workstation"
  BY <1>1, <1>3, ReadTypes DEF Discovered, DiscoverWorkstation, Answered, VmxPaths
<1>4. CASE type = "hyper_v"
  BY <1>1, <1>4, ReadTypes DEF Discovered, DiscoverHyperv
<1>5. CASE type = "kvm"
  BY <1>1, <1>5, ReadTypes DEF Discovered, DiscoverKvm, Answered
<1>6. CASE type = "proxmox"
  BY <1>1, <1>6, ReadTypes DEF Discovered, DiscoverProxmox, Answered
<1>7. CASE type = "ovirt"
  BY <1>1, <1>7, ReadTypes DEF Discovered, DiscoverOvirt, Answered
<1>8. CASE type = "physical"
  BY <1>1, <1>8, ReadTypes DEF Discovered, DiscoverPhysical
<1> QED
  BY <1>2, <1>3, <1>4, <1>5, <1>6, <1>7, <1>8 DEF Types

-----------------------------------------------------------------------------
(* Rows and requests.                                                       *)

LEMMA RefreshedType ==
    ASSUME NEW facts \in VmFacts, NEW data \in VmData
    PROVE  FactsOf(data) \in VmFacts /\ Refreshed(facts, data) \in VmFacts
<1>1. FactsOf(data) \in VmFacts
  BY DEF FactsOf, VmFacts, VmData, Labels
<1>2. facts.disk \in Nat /\ facts.label \in Labels /\ FactsOf(data).disk \in Nat
      /\ FactsOf(data).label \in Labels
  BY <1>1 DEF VmFacts
<1>3. PICK d \in Nat, l \in Labels :
          Refreshed(facts, data) = [FactsOf(data) EXCEPT !.disk = d, !.label = l]
  BY <1>2 DEF Refreshed
<1> QED
  BY <1>1, <1>3 DEF VmFacts

LEMMA UpdatedType ==
    ASSUME NEW vm \in Vm, NEW data \in VmData
    PROVE  /\ Updated(vm, data) \in Vm
           /\ Updated(vm, data).tenant = vm.tenant /\ Updated(vm, data).hyp = vm.hyp
           /\ Updated(vm, data).compat = vm.compat
           /\ Updated(vm, data).id = IF vm.id = None THEN data.id ELSE vm.id
           /\ Updated(vm, data).from = data.id
           /\ Updated(vm, data).status = IF vm.status = "archived" THEN "discovered" ELSE vm.status
<1>1. vm.facts \in VmFacts /\ data.id \in Identities
  BY DEF Vm, VmData
<1>2. Refreshed(vm.facts, data) \in VmFacts
  BY <1>1, RefreshedType
<1> DEFINE s == IF vm.status = "archived" THEN "discovered" ELSE vm.status
           i == IF vm.id = None THEN data.id ELSE vm.id
           f == Refreshed(vm.facts, data)
<1>3. s \in VmStatuses /\ i \in Identities \cup {None} /\ f \in VmFacts /\ data.id \in Identities
  BY <1>1, <1>2 DEF Vm, VmStatuses
<1>4. Updated(vm, data) = [vm EXCEPT !.status = s, !.id = i, !.facts = f, !.from = data.id]
  BY DEF Updated
<1> HIDE DEF s, i, f
<1>5. /\ Updated(vm, data) \in Vm
      /\ Updated(vm, data).tenant = vm.tenant /\ Updated(vm, data).hyp = vm.hyp
      /\ Updated(vm, data).compat = vm.compat /\ Updated(vm, data).id = i
      /\ Updated(vm, data).from = data.id /\ Updated(vm, data).status = s
  BY <1>3, <1>4 DEF Vm
<1> QED
  BY <1>5 DEF s, i

LEMMA WrittenType ==
    ASSUME NEW vm \in Vm, NEW base \in Vm, NEW now \in Vm
    PROVE  /\ Written(vm, base, now) \in Vm
           /\ Written(vm, base, now).tenant = vm.tenant
           /\ Written(vm, base, now).compat = vm.compat
           /\ Written(vm, base, now).hyp = IF now.hyp # base.hyp THEN now.hyp ELSE vm.hyp
           /\ Written(vm, base, now).id = IF now.id # base.id THEN now.id ELSE vm.id
           /\ Written(vm, base, now).status = IF now.status # base.status THEN now.status ELSE vm.status
           /\ Written(vm, base, now).from = now.from
<1> DEFINE h == IF now.hyp # base.hyp THEN now.hyp ELSE vm.hyp
           i == IF now.id # base.id THEN now.id ELSE vm.id
           s == IF now.status # base.status THEN now.status ELSE vm.status
           f == IF now.facts # base.facts THEN now.facts ELSE vm.facts
<1>1. /\ h \in Hyps \cup {None} /\ i \in Identities \cup {None} /\ s \in VmStatuses
      /\ f \in VmFacts /\ now.from \in Identities \cup {None}
  BY DEF Vm
<1>2. Written(vm, base, now) =
          [vm EXCEPT !.hyp = h, !.id = i, !.status = s, !.facts = f, !.from = now.from]
  BY DEF Written
<1> HIDE DEF h, i, s, f
<1>3. /\ Written(vm, base, now) \in Vm
      /\ Written(vm, base, now).tenant = vm.tenant
      /\ Written(vm, base, now).compat = vm.compat /\ Written(vm, base, now).hyp = h
      /\ Written(vm, base, now).id = i
      /\ Written(vm, base, now).status = s /\ Written(vm, base, now).from = now.from
  BY <1>1, <1>2 DEF Vm
<1> QED
  BY <1>3 DEF h, i, s

PassStatuses == {"compatible", "partial", "incompatible"}

LEMMA GradeTypes ==
    ASSUME NEW rules, NEW prediction \in Predictions
    PROVE  GradeStatus(DecideGrade(rules, prediction)) \in PassStatuses
<1>1. DecideGrade(rules, prediction) \in Grades
  BY DEF DecideGrade, Aggregate, Predictions, Grades
<1> QED
  BY <1>1 DEF GradeStatus, Grades, PassStatuses

LEMMA ReportType ==
    ASSUME NEW h, NEW type \in Types, NEW listing \in BOOLEAN, NEW reading \in Readings,
           Report(h, type, listing, reading) # Aborts
    PROVE  Report(h, type, listing, reading) \in SUBSET VmData
<1> DEFINE asked == {<<Facts[m], reading[m]>> : m \in {n \in Machines : place[n] = h}}
<1>1. asked \in SUBSET (Machine \X Outcomes)
  BY InventoryAssumption
<1>2. Report(h, type, listing, reading) = Discovered(type, asked, listing)
  BY DEF Report
<1> HIDE DEF asked
<1> QED
  BY <1>1, <1>2, DiscoveredType

Rows == [Vms -> Vm \cup {None}]
Snaps == [alone : BOOLEAN, migrating : SUBSET Vms, budget : [Kinds -> Nat]]
SyncReq == [kind : {"sync"}, at : {"fetch", "match", "commit", "count", "end"}, hyp : Hyps,
            tenant : Tenants, type : Types, left : SUBSET VmData, seen : SUBSET Identities,
            base : Rows, now : Rows, new : SUBSET Vms, flushed : SUBSET Vms, snap : Snaps]
TestReq == [kind : {"test"}, hyp : Hyps, type : Types, status : HypStatuses]
BodyReq == [kind : {"vm"}, body : VmBodies]
AnalyzeReq == [kind : {"analyze"}, vm : Vms, force : BOOLEAN, facts : VmFacts,
               type : Types \cup {"unknown"}, compat : CompatStatuses]
Request == {Idle} \cup SyncReq \cup TestReq \cup BodyReq \cup AnalyzeReq

(* What a session knows of the rows it has: its new rows have ids that      *)
(* nobody else has, what it will write it has read or made.                 *)
Session(r) ==
    LET q == reqs[r] IN
    q.kind = "sync" =>
        /\ q.at \in {"fetch", "count", "end"} => q.new = {}
        /\ q.at = "fetch" => /\ q.seen = {} /\ q.flushed = {}
                             /\ \A v \in Vms : q.base[v] = None /\ q.now[v] = None
        /\ \A v \in q.new : q.now[v] # None /\ q.base[v] = None /\ v \in q.flushed /\ vms[v] = None
        /\ \A v \in Vms : q.base[v] # None => q.now[v] # None
        /\ \A v \in Vms : q.at \in {"match", "commit"} /\ q.now[v] # None =>
               v \in q.new \/ q.base[v] # None
        /\ \A v \in q.flushed : q.now[v] # None

Fresh ==
    \A r, p \in Requests : r # p /\ reqs[r].kind = "sync" /\ reqs[p].kind = "sync" =>
        reqs[r].new \cap reqs[p].new = {}

Sound ==
    /\ TypeOK /\ migrating \subseteq Vms /\ reqs \in [Requests -> Request]
    /\ (\A r \in Requests : Session(r)) /\ Fresh

LEMMA RequestKinds ==
    ASSUME NEW q \in Request
    PROVE  /\ q.kind = "sync" => q \in SyncReq
           /\ q.kind = "test" => q \in TestReq
           /\ q.kind = "vm" => q \in BodyReq
           /\ q.kind = "analyze" => q \in AnalyzeReq
           /\ q.kind \in {"idle", "sync", "test", "vm", "analyze"}
           /\ q.kind = "idle" => q = Idle
<1>1. CASE q = Idle
  BY <1>1 DEF Idle
<1>2. CASE q \in SyncReq
  BY <1>2 DEF SyncReq
<1>3. CASE q \in TestReq \cup BodyReq
  BY <1>3 DEF TestReq, BodyReq
<1>4. CASE q \in AnalyzeReq
  BY <1>4 DEF AnalyzeReq
<1> QED
  BY <1>1, <1>2, <1>3, <1>4 DEF Request

LEMMA SyncFields ==
    ASSUME NEW q \in SyncReq
    PROVE  /\ q.kind = "sync" /\ q.at \in {"fetch", "match", "commit", "count", "end"}
           /\ q.hyp \in Hyps /\ q.tenant \in Tenants /\ q.type \in Types
           /\ q.left \in SUBSET VmData /\ q.seen \in SUBSET Identities /\ q.base \in Rows
           /\ q.now \in Rows /\ q.new \in SUBSET Vms /\ q.flushed \in SUBSET Vms /\ q.snap \in Snaps
BY DEF SyncReq

-----------------------------------------------------------------------------
(* The steps of a session, field by field.                                  *)

LEMMA SyncRequest ==
    ASSUME Sound, NEW r \in Requests, reqs[r].kind = "sync"
    PROVE  reqs[r] \in SyncReq /\ Session(r)
BY RequestKinds DEF Sound

(* The object that a session has for a row it sees.                         *)
LEMMA LoadedRow ==
    ASSUME Sound, NEW r \in Requests, reqs[r].kind = "sync", NEW v \in SeenRows(r)
    PROVE  /\ v \in Vms /\ Seen(r, v) \in Vm /\ Loaded(r, v) \in Vm
           /\ reqs[r].now[v] = None => Present(v) /\ Loaded(r, v) = vms[v] /\ Seen(r, v) = vms[v]
           /\ reqs[r].now[v] # None => Loaded(r, v) = reqs[r].now[v]
           /\ \/ Seen(r, v) = vms[v] /\ Present(v)
              \/ Seen(r, v) = Loaded(r, v) /\ v \in reqs[r].flushed
<1>1. reqs[r] \in SyncReq /\ Session(r) /\ vms \in [Vms -> Vm \cup {None, Gone}]
  BY SyncRequest DEF Sound, TypeOK
<1>2. v \in Vms /\ Seen(r, v) \notin {None, Gone}
  BY DEF SeenRows
<1>3. reqs[r].now \in [Vms -> Vm \cup {None}] /\ vms[v] \in Vm \cup {None, Gone}
      /\ reqs[r].now[v] \in Vm \cup {None}
  BY <1>1, <1>2, SyncFields DEF Rows
<1>4. v \in reqs[r].flushed => reqs[r].now[v] # None
  BY <1>1 DEF Session
<1>5. CASE reqs[r].now[v] = None
  <2>1. Seen(r, v) = vms[v] /\ Loaded(r, v) = vms[v]
    BY <1>4, <1>5 DEF Seen, Loaded
  <2>2. vms[v] \in Vm /\ Present(v)
    BY <2>1, <1>2, <1>3 DEF Present
  <2> QED
    BY <1>2, <1>5, <2>1, <2>2
<1>6. CASE reqs[r].now[v] # None /\ v \in reqs[r].flushed
  BY <1>2, <1>3, <1>6 DEF Seen, Loaded
<1>7. CASE reqs[r].now[v] # None /\ v \notin reqs[r].flushed
  <2>1. Seen(r, v) = vms[v] /\ Loaded(r, v) = reqs[r].now[v]
    BY <1>7 DEF Seen, Loaded
  <2>2. vms[v] \in Vm /\ Present(v) /\ reqs[r].now[v] \in Vm
    BY <2>1, <1>2, <1>3, <1>7 DEF Present
  <2> QED
    BY <1>2, <1>7, <2>1, <2>2
<1> QED
  BY <1>5, <1>6, <1>7

LEMMA MatchesSeen ==
    ASSUME NEW r, NEW data
    PROVE  Matches(r, data) \subseteq SeenRows(r)
BY DEF Matches, Pass1, Pass2, Pass3

LEMMA MatchFacts ==
    ASSUME Sound, NEW r \in Requests, NEW data, NEW v \in Vms, SyncMatch(r, data, v)
    PROVE  /\ reqs[r] \in SyncReq /\ reqs[r].at = "match" /\ data \in reqs[r].left /\ data \in VmData
           /\ v \in Matches(r, data) /\ v \in SeenRows(r)
           /\ reqs' = [reqs EXCEPT ![r] = reqs'[r]] /\ reqs'[r] \in SyncReq
           /\ reqs'[r].at = "match" /\ reqs'[r].hyp = reqs[r].hyp
           /\ reqs'[r].tenant = reqs[r].tenant /\ reqs'[r].seen = reqs[r].seen
           /\ reqs'[r].new = reqs[r].new /\ reqs'[r].flushed = reqs[r].flushed
           /\ reqs'[r].snap = reqs[r].snap /\ reqs'[r].left = reqs[r].left \ {data}
           /\ \A w \in Vms \ {v} : /\ reqs'[r].base[w] = reqs[r].base[w]
                                   /\ reqs'[r].now[w] = reqs[r].now[w]
           /\ reqs'[r].base[v] = IF reqs[r].base[v] = None /\ v \notin reqs[r].new
                                 THEN vms[v] ELSE reqs[r].base[v]
           /\ reqs[r].base[v] = None /\ v \notin reqs[r].new =>
                  Present(v) /\ Loaded(r, v) = vms[v] /\ reqs[r].now[v] = None
           /\ reqs[r].base[v] # None \/ v \in reqs[r].new => Loaded(r, v) = reqs[r].now[v]
           /\ reqs'[r].now[v].tenant = Loaded(r, v).tenant
           /\ reqs'[r].now[v].id = IF Loaded(r, v).id = None THEN data.id ELSE Loaded(r, v).id
           /\ reqs'[r].now[v].from = data.id
           /\ reqs'[r].now[v].status = IF Loaded(r, v).status = "archived" THEN "discovered"
                                       ELSE Loaded(r, v).status
           /\ reqs'[r].now[v].hyp = IF Pass1(r, data) = {} /\ Pass2(r, data) # {} THEN reqs[r].hyp
                                    ELSE Loaded(r, v).hyp
           /\ reqs'[r].now[v] \in Vm
           /\ UNCHANGED <<hyps, vms, place, migrating, budget, stuck, overlapped>>
<1> DEFINE q == reqs[r]
           vm == Loaded(r, v)
           b == IF q.base[v] = None /\ v \notin q.new THEN vm ELSE q.base[v]
           o == IF Pass1(r, data) = {} /\ Pass2(r, data) # {} THEN [vm EXCEPT !.hyp = q.hyp] ELSE vm
           n == Updated(o, data)
           p == [q EXCEPT !.left = @ \ {data}, !.base[v] = b, !.now[v] = n]
<1>1. q.kind = "sync" /\ q.at = "match" /\ data \in q.left /\ v \in Matches(r, data)
  BY DEF SyncMatch, Sync
<1>2. q \in SyncReq /\ Session(r) /\ v \in SeenRows(r)
  BY <1>1, SyncRequest, MatchesSeen
<1>3. /\ q.hyp \in Hyps /\ q.tenant \in Tenants /\ q.type \in Types
      /\ q.left \in SUBSET VmData /\ q.seen \in SUBSET Identities /\ q.base \in Rows
      /\ q.now \in Rows /\ q.new \in SUBSET Vms /\ q.flushed \in SUBSET Vms /\ q.snap \in Snaps
  BY <1>2, SyncFields
<1>4. /\ vm \in Vm /\ (q.now[v] = None => Present(v) /\ vm = vms[v])
      /\ (q.now[v] # None => vm = q.now[v])
  BY <1>1, <1>2, LoadedRow
<1>5. /\ q.now[v] # None => v \in q.new \/ q.base[v] # None
      /\ q.base[v] # None \/ v \in q.new => q.now[v] # None
  BY <1>1, <1>2 DEF Session
<1>6. /\ o \in Vm /\ o.tenant = vm.tenant /\ o.id = vm.id /\ o.status = vm.status
      /\ o.hyp = IF Pass1(r, data) = {} /\ Pass2(r, data) # {} THEN q.hyp ELSE vm.hyp
  BY <1>3, <1>4 DEF Vm
<1>7. data \in VmData
  BY <1>1, <1>3
<1>8. /\ n \in Vm /\ n.tenant = o.tenant /\ n.hyp = o.hyp
      /\ n.id = (IF o.id = None THEN data.id ELSE o.id) /\ n.from = data.id
      /\ n.status = IF o.status = "archived" THEN "discovered" ELSE o.status
  BY <1>6, <1>7, UpdatedType
<1>9. b \in Vm \cup {None} /\ (q.base[v] = None /\ v \notin q.new => b = vms[v])
  BY <1>3, <1>4, <1>5 DEF Rows
<1>10. reqs' = [reqs EXCEPT ![r].left = @ \ {data},
                           ![r].base[v] = IF @ = None /\ v \notin q.new THEN vm ELSE @,
                           ![r].now[v] = n]
       /\ UNCHANGED <<hyps, vms, place, migrating, budget, stuck, overlapped>>
  BY DEF SyncMatch
<1> HIDE DEF b, n, o, vm
<1>11. DOMAIN reqs = Requests
  BY DEF Sound, TypeOK
<1>12. reqs' = [reqs EXCEPT ![r] = p]
  BY <1>10, <1>11, <1>2, <1>3 DEF b, SyncReq, Rows
<1>13. /\ p.kind = "sync" /\ p.at = "match" /\ p.hyp = q.hyp /\ p.tenant = q.tenant /\ p.type = q.type
       /\ p.left = q.left \ {data} /\ p.seen = q.seen /\ p.new = q.new /\ p.flushed = q.flushed
       /\ p.snap = q.snap /\ p.base = [q.base EXCEPT ![v] = b] /\ p.now = [q.now EXCEPT ![v] = n]
       /\ p \in SyncReq
  <2>1. [q.base EXCEPT ![v] = b] \in Rows /\ [q.now EXCEPT ![v] = n] \in Rows
    BY <1>3, <1>8, <1>9 DEF Rows
  <2> QED
    BY <1>1, <1>2, <1>3, <2>1 DEF SyncReq
<1>14. reqs'[r] = p
  BY <1>11, <1>12
<1> HIDE DEF p
<1>15. /\ p.base[v] = b /\ p.now[v] = n
       /\ \A w \in Vms \ {v} : p.base[w] = q.base[w] /\ p.now[w] = q.now[w]
  BY <1>3, <1>13 DEF Rows
<1>16. p.base[v] = IF q.base[v] = None /\ v \notin q.new THEN vms[v] ELSE q.base[v]
  BY <1>9, <1>15 DEF b
<1>17. /\ p.now[v].tenant = vm.tenant /\ p.now[v].id = (IF vm.id = None THEN data.id ELSE vm.id)
       /\ p.now[v].from = data.id /\ p.now[v] \in Vm
       /\ p.now[v].status = IF vm.status = "archived" THEN "discovered" ELSE vm.status
       /\ p.now[v].hyp = IF Pass1(r, data) = {} /\ Pass2(r, data) # {} THEN q.hyp ELSE vm.hyp
  BY <1>6, <1>8, <1>15
<1>18. /\ reqs' = [reqs EXCEPT ![r] = reqs'[r]] /\ reqs'[r] \in SyncReq
       /\ reqs'[r].at = "match" /\ reqs'[r].hyp = reqs[r].hyp
       /\ reqs'[r].tenant = reqs[r].tenant /\ reqs'[r].seen = reqs[r].seen
       /\ reqs'[r].new = reqs[r].new /\ reqs'[r].flushed = reqs[r].flushed
       /\ reqs'[r].snap = reqs[r].snap /\ reqs'[r].left = reqs[r].left \ {data}
  BY <1>12, <1>13, <1>14
<1>19. /\ q.base[v] = None /\ v \notin q.new => Present(v) /\ vm = vms[v] /\ q.now[v] = None
       /\ q.base[v] # None \/ v \in q.new => vm = q.now[v]
  BY <1>4, <1>5
<1>20. /\ \A w \in Vms \ {v} : reqs'[r].base[w] = q.base[w] /\ reqs'[r].now[w] = q.now[w]
       /\ reqs'[r].base[v] = IF q.base[v] = None /\ v \notin q.new THEN vms[v] ELSE q.base[v]
  BY <1>14, <1>15, <1>16
<1> QED
  BY <1>1, <1>2, <1>7, <1>10, <1>14, <1>17, <1>18, <1>19, <1>20 DEF vm

LEMMA NewIdUnused ==
    ASSUME Unused # {}
    PROVE  /\ NewId \in Vms /\ vms[NewId] = None
           /\ \A p \in Requests : reqs[p].kind = "sync" => NewId \notin reqs[p].new
<1>1. NewId \in Unused
  BY DEF NewId
<1> QED
  BY <1>1 DEF Unused

LEMMA CreatedType ==
    ASSUME NEW q \in SyncReq, NEW data \in VmData
    PROVE  /\ Created(q, data) \in Vm /\ Created(q, data).tenant = q.tenant
           /\ Created(q, data).hyp = q.hyp
           /\ Created(q, data).id = data.id /\ Created(q, data).from = data.id
           /\ Created(q, data).status = "discovered"
<1>1. /\ q.hyp \in Hyps /\ q.tenant \in Tenants /\ data.name \in Names /\ data.id \in Identities
      /\ data.compat \in {"unknown", "compatible"}
  BY SyncFields DEF VmData
<1>2. FactsOf(data) \in VmFacts
  <2>1. data.disk \in Nat /\ data.label \in Labels \cup {"untold"} /\ data.os \in OsTypes
        /\ data.cpu \in Nat /\ data.mem \in Nat
    BY DEF VmData
  <2> QED
    BY <2>1 DEF FactsOf, VmFacts, Labels
<1>3. "discovered" \in VmStatuses /\ data.compat \in CompatStatuses
  BY <1>1 DEF VmStatuses, CompatStatuses
<1> QED
  BY <1>1, <1>2, <1>3 DEF Created, Vm

LEMMA InsertFacts ==
    ASSUME Sound, NEW r \in Requests, NEW data, SyncInsert(r, data)
    PROVE  /\ reqs[r] \in SyncReq /\ reqs[r].at = "match" /\ data \in reqs[r].left /\ data \in VmData
           /\ Matches(r, data) = {} /\ Unused # {} /\ Flushes(r)
           /\ NewId \in Vms /\ vms[NewId] = None
           /\ \A p \in Requests : reqs[p].kind = "sync" => NewId \notin reqs[p].new
           /\ reqs' = [reqs EXCEPT ![r] = reqs'[r]] /\ reqs'[r] \in SyncReq
           /\ reqs'[r].at = "match" /\ reqs'[r].hyp = reqs[r].hyp
           /\ reqs'[r].tenant = reqs[r].tenant /\ reqs'[r].seen = reqs[r].seen
           /\ reqs'[r].new = reqs[r].new \cup {NewId}
           /\ reqs'[r].flushed = reqs[r].flushed \cup {NewId} \cup {v \in Vms : reqs[r].now[v] # None}
           /\ reqs'[r].snap = reqs[r].snap /\ reqs'[r].left = reqs[r].left \ {data}
           /\ reqs'[r].base = reqs[r].base
           /\ \A w \in Vms \ {NewId} : reqs'[r].now[w] = reqs[r].now[w]
           /\ reqs'[r].now[NewId] = Created(reqs[r], data) /\ Created(reqs[r], data) \in Vm
           /\ reqs[r].base[NewId] = None
           /\ UNCHANGED <<hyps, vms, place, migrating, budget, stuck, overlapped>>
<1> DEFINE q == reqs[r]
           i == NewId
           n == Created(q, data)
           f == q.flushed \cup {i} \cup {v \in Vms : q.now[v] # None}
           p == [q EXCEPT !.left = @ \ {data}, !.new = @ \cup {i}, !.now[i] = n, !.flushed = f]
<1>1. q.kind = "sync" /\ q.at = "match" /\ data \in q.left /\ Matches(r, data) = {}
      /\ Unused # {} /\ Flushes(r)
  BY DEF SyncInsert, Sync
<1>2. q \in SyncReq /\ Session(r)
  BY <1>1, SyncRequest
<1>3. /\ q.hyp \in Hyps /\ q.tenant \in Tenants /\ q.type \in Types
      /\ q.left \in SUBSET VmData /\ q.seen \in SUBSET Identities /\ q.base \in Rows
      /\ q.now \in Rows /\ q.new \in SUBSET Vms /\ q.flushed \in SUBSET Vms /\ q.snap \in Snaps
  BY <1>2, SyncFields
<1>4. /\ i \in Vms /\ vms[i] = None
      /\ \A s \in Requests : reqs[s].kind = "sync" => i \notin reqs[s].new
  BY <1>1, NewIdUnused
<1>5. data \in VmData /\ n \in Vm
  BY <1>1, <1>2, <1>3, CreatedType
<1>6. q.base[i] = None
  BY <1>1, <1>4 DEF Flushes, Present
<1>7. f \in SUBSET Vms
  BY <1>3, <1>4
<1>8. reqs' = [reqs EXCEPT ![r].left = @ \ {data}, ![r].new = @ \cup {i},
                          ![r].now[i] = n,
                          ![r].flushed = @ \cup {i} \cup {v \in Vms : q.now[v] # None}]
      /\ UNCHANGED <<hyps, vms, place, migrating, budget, stuck, overlapped>>
  BY DEF SyncInsert
<1>9. DOMAIN reqs = Requests
  BY DEF Sound, TypeOK
<1>10. reqs' = [reqs EXCEPT ![r].left = @ \ {data}, ![r].new = @ \cup {i},
                           ![r].now[i] = n, ![r].flushed = f]
  BY <1>2, <1>8, <1>9 DEF SyncReq
<1> HIDE DEF i, n, f
<1>11. reqs' = [reqs EXCEPT ![r] = p]
  BY <1>10, <1>9, <1>2, <1>3 DEF SyncReq, Rows
<1>12. /\ p.kind = "sync" /\ p.at = "match" /\ p.hyp = q.hyp /\ p.tenant = q.tenant /\ p.type = q.type
       /\ p.left = q.left \ {data} /\ p.seen = q.seen /\ p.new = q.new \cup {i} /\ p.flushed = f
       /\ p.snap = q.snap /\ p.base = q.base /\ p.now = [q.now EXCEPT ![i] = n]
       /\ p \in SyncReq
  <2>1. [q.now EXCEPT ![i] = n] \in Rows
    BY <1>3, <1>5 DEF Rows
  <2>2. q.new \cup {i} \in SUBSET Vms /\ q.left \ {data} \in SUBSET VmData
    BY <1>3, <1>4
  <2> QED
    BY <1>1, <1>2, <1>3, <1>7, <2>1, <2>2 DEF SyncReq
<1>13. reqs'[r] = p
  BY <1>9, <1>11
<1> HIDE DEF p
<1>14. /\ p.now[i] = n /\ \A w \in Vms \ {i} : p.now[w] = q.now[w]
  BY <1>3, <1>4, <1>12 DEF Rows
<1>15. /\ reqs' = [reqs EXCEPT ![r] = reqs'[r]] /\ reqs'[r] \in SyncReq
       /\ reqs'[r].at = "match" /\ reqs'[r].hyp = reqs[r].hyp
       /\ reqs'[r].tenant = reqs[r].tenant /\ reqs'[r].seen = reqs[r].seen
       /\ reqs'[r].new = reqs[r].new \cup {NewId}
       /\ reqs'[r].flushed = reqs[r].flushed \cup {NewId} \cup {v \in Vms : reqs[r].now[v] # None}
       /\ reqs'[r].snap = reqs[r].snap /\ reqs'[r].left = reqs[r].left \ {data}
       /\ reqs'[r].base = reqs[r].base
  BY <1>11, <1>12, <1>13 DEF f, i
<1>16. /\ \A w \in Vms \ {NewId} : reqs'[r].now[w] = reqs[r].now[w]
       /\ reqs'[r].now[NewId] = Created(reqs[r], data) /\ Created(reqs[r], data) \in Vm
       /\ reqs[r].base[NewId] = None
  BY <1>5, <1>6, <1>13, <1>14 DEF n, i
<1> QED
  BY <1>1, <1>2, <1>4, <1>5, <1>8, <1>15, <1>16 DEF i

LEMMA StaleFacts ==
    ASSUME Sound, NEW r \in Requests, SyncStale(r)
    PROVE  /\ reqs[r] \in SyncReq /\ reqs[r].at = "match" /\ Stale(r) \subseteq SeenRows(r)
           /\ reqs' = [reqs EXCEPT ![r] = reqs'[r]] /\ reqs'[r] \in SyncReq
           /\ reqs'[r].at = "commit" /\ reqs'[r].hyp = reqs[r].hyp
           /\ reqs'[r].tenant = reqs[r].tenant /\ reqs'[r].seen = reqs[r].seen
           /\ reqs'[r].new = reqs[r].new /\ reqs'[r].flushed = reqs[r].flushed
           /\ reqs'[r].snap = reqs[r].snap /\ reqs'[r].left = reqs[r].left
           /\ \A w \in Vms \ Stale(r) : /\ reqs'[r].base[w] = reqs[r].base[w]
                                        /\ reqs'[r].now[w] = reqs[r].now[w]
           /\ \A w \in Stale(r) :
                 /\ reqs'[r].base[w] = IF reqs[r].base[w] = None /\ w \notin reqs[r].new
                                       THEN vms[w] ELSE reqs[r].base[w]
                 /\ reqs[r].base[w] = None /\ w \notin reqs[r].new =>
                        Present(w) /\ Loaded(r, w) = vms[w] /\ reqs[r].now[w] = None
                                   /\ Seen(r, w) = vms[w]
                 /\ reqs[r].base[w] # None \/ w \in reqs[r].new => Loaded(r, w) = reqs[r].now[w]
                 /\ reqs'[r].now[w] = [Loaded(r, w) EXCEPT !.status = "archived"]
                 /\ Loaded(r, w) \in Vm /\ reqs'[r].now[w] \in Vm
           /\ UNCHANGED <<hyps, vms, place, migrating, budget, stuck, overlapped>>
<1> DEFINE q == reqs[r]
           b == [v \in Vms |-> IF v \in Stale(r) /\ q.base[v] = None /\ v \notin q.new
                               THEN vms[v] ELSE q.base[v]]
           n == [v \in Vms |-> IF v \in Stale(r) THEN [Loaded(r, v) EXCEPT !.status = "archived"]
                               ELSE q.now[v]]
           p == [q EXCEPT !.at = "commit", !.base = b, !.now = n]
<1>1. q.kind = "sync" /\ q.at = "match" /\ q.left = {}
  BY DEF SyncStale, Sync
<1>2. q \in SyncReq /\ Session(r) /\ Stale(r) \subseteq SeenRows(r)
  BY <1>1, SyncRequest DEF Stale
<1>3. /\ q.hyp \in Hyps /\ q.tenant \in Tenants /\ q.type \in Types
      /\ q.left \in SUBSET VmData /\ q.seen \in SUBSET Identities /\ q.base \in Rows
      /\ q.now \in Rows /\ q.new \in SUBSET Vms /\ q.flushed \in SUBSET Vms /\ q.snap \in Snaps
  BY <1>2, SyncFields
<1>4. ASSUME NEW w \in Stale(r)
      PROVE  /\ w \in Vms /\ Loaded(r, w) \in Vm
             /\ [Loaded(r, w) EXCEPT !.status = "archived"] \in Vm
             /\ (q.now[w] = None => Present(w) /\ Loaded(r, w) = vms[w] /\ Seen(r, w) = vms[w])
             /\ (q.now[w] # None => Loaded(r, w) = q.now[w])
  <2>1. w \in SeenRows(r)
    BY <1>2
  <2>2. /\ w \in Vms /\ Loaded(r, w) \in Vm
        /\ (q.now[w] = None => Present(w) /\ Loaded(r, w) = vms[w] /\ Seen(r, w) = vms[w])
        /\ (q.now[w] # None => Loaded(r, w) = q.now[w])
    BY <1>1, <2>1, LoadedRow
  <2>3. "archived" \in VmStatuses
    BY DEF VmStatuses
  <2> QED
    BY <2>2, <2>3 DEF Vm
<1>5. ASSUME NEW w \in Vms
      PROVE  /\ q.now[w] # None => w \in q.new \/ q.base[w] # None
             /\ q.base[w] # None \/ w \in q.new => q.now[w] # None
  BY <1>1, <1>2 DEF Session
<1>6. b \in Rows /\ n \in Rows
  <2>1. ASSUME NEW v \in Vms, v \in Stale(r), q.base[v] = None, v \notin q.new
        PROVE  vms[v] \in Vm
    <3>1. q.now[v] = None
      BY <1>5, <2>1
    <3> QED
      BY <1>4, <2>1, <3>1
  <2>2. \A v \in Vms : q.base[v] \in Vm \cup {None} /\ q.now[v] \in Vm \cup {None}
    BY <1>3 DEF Rows
  <2> QED
    BY <1>4, <2>1, <2>2 DEF Rows
<1>7. reqs' = [reqs EXCEPT ![r].at = "commit",
                          ![r].base = [v \in Vms |-> IF v \in Stale(r) /\ @[v] = None /\ v \notin q.new
                                                     THEN vms[v] ELSE @[v]],
                          ![r].now = [v \in Vms |-> IF v \in Stale(r)
                                                    THEN [Loaded(r, v) EXCEPT !.status = "archived"]
                                                    ELSE @[v]]]
      /\ UNCHANGED <<hyps, vms, place, migrating, budget, stuck, overlapped>>
  BY DEF SyncStale
<1>8. DOMAIN reqs = Requests
  BY DEF Sound, TypeOK
<1>9. reqs' = [reqs EXCEPT ![r].at = "commit", ![r].base = b, ![r].now = n]
  BY <1>2, <1>7, <1>8 DEF SyncReq
<1>10. /\ \A w \in Vms : b[w] = IF w \in Stale(r) /\ q.base[w] = None /\ w \notin q.new
                                THEN vms[w] ELSE q.base[w]
       /\ \A w \in Vms : n[w] = IF w \in Stale(r) THEN [Loaded(r, w) EXCEPT !.status = "archived"]
                                ELSE q.now[w]
  OBVIOUS
<1> HIDE DEF b, n
<1>11. reqs' = [reqs EXCEPT ![r] = p]
  BY <1>9, <1>8, <1>2 DEF SyncReq
<1>12. /\ p.kind = "sync" /\ p.at = "commit" /\ p.hyp = q.hyp /\ p.tenant = q.tenant /\ p.type = q.type
       /\ p.left = q.left /\ p.seen = q.seen /\ p.new = q.new /\ p.flushed = q.flushed
       /\ p.snap = q.snap /\ p.base = b /\ p.now = n /\ p \in SyncReq
  BY <1>1, <1>2, <1>3, <1>6 DEF SyncReq
<1>13. reqs'[r] = p
  BY <1>8, <1>11
<1> HIDE DEF p
<1>14. /\ reqs' = [reqs EXCEPT ![r] = reqs'[r]] /\ reqs'[r] \in SyncReq
       /\ reqs'[r].at = "commit" /\ reqs'[r].hyp = reqs[r].hyp
       /\ reqs'[r].tenant = reqs[r].tenant /\ reqs'[r].seen = reqs[r].seen
       /\ reqs'[r].new = reqs[r].new /\ reqs'[r].flushed = reqs[r].flushed
       /\ reqs'[r].snap = reqs[r].snap /\ reqs'[r].left = reqs[r].left
       /\ reqs'[r].base = b /\ reqs'[r].now = n
  BY <1>11, <1>12, <1>13
<1>15. \A w \in Vms \ Stale(r) : reqs'[r].base[w] = q.base[w] /\ reqs'[r].now[w] = q.now[w]
  BY <1>10, <1>14
<1>16. ASSUME NEW w \in Stale(r)
       PROVE  /\ reqs'[r].base[w] = IF q.base[w] = None /\ w \notin q.new
                                    THEN vms[w] ELSE q.base[w]
              /\ q.base[w] = None /\ w \notin q.new =>
                     Present(w) /\ Loaded(r, w) = vms[w] /\ q.now[w] = None /\ Seen(r, w) = vms[w]
              /\ q.base[w] # None \/ w \in q.new => Loaded(r, w) = q.now[w]
              /\ reqs'[r].now[w] = [Loaded(r, w) EXCEPT !.status = "archived"]
              /\ Loaded(r, w) \in Vm /\ reqs'[r].now[w] \in Vm
  <2>1. w \in Vms
    BY <1>4
  <2> QED
    BY <1>4, <1>5, <1>10, <1>14, <2>1
<1> QED
  BY <1>1, <1>2, <1>7, <1>14, <1>15, <1>16

-----------------------------------------------------------------------------
(* What the steps do to rows and requests.                                  *)

(* A row is left alone, deleted, or changed in what is not its identity.    *)
Edit(v) ==
    \/ vms'[v] = vms[v]
    \/ Present(v) /\ vms'[v] = Gone
    \/ /\ Present(v) /\ vms'[v] \in Vm /\ vms'[v].tenant = vms[v].tenant
       /\ vms'[v].id = vms[v].id /\ vms'[v].from = vms[v].from

(* The steps that no request takes.                                         *)
World ==
    \/ \E t \in Tenants, name \in HypNames, type \in Types : CreateHypervisor(t, name, type)
    \/ \E h \in Hyps : DeleteHypervisor(h) \/ \E name \in HypNames : UpdateHypervisor(h, name)
    \/ \E v \in Vms : \/ DeleteVm(v) \/ MigrationBegins(v)
                      \/ \E done \in BOOLEAN : MigrationEnds(v, done)
                      \/ \E body \in VmBodies : UpdateVm(v, body)
    \/ \E to \in Places : MachinesMove(to)
    \/ UNCHANGED vars

LEMMA NextSplit ==
    ASSUME [Next]_vars
    PROVE  World \/ \E r \in Requests : RequestStep(r)
BY DEF Next, World, Rest

LEMMA SpendType ==
    ASSUME TypeOK, NEW kind \in Kinds, Spend(kind), budget[kind] > 0
    PROVE  budget' \in [Kinds -> Nat]
BY DEF TypeOK, Spend

LEMMA PresentRow ==
    ASSUME TypeOK, NEW v \in Vms
    PROVE  /\ vms[v] \in Vm \cup {None, Gone} /\ (Present(v) <=> vms[v] \in Vm)
           /\ Gone # None /\ None \notin Vm /\ Gone \notin Vm
BY InventoryAssumption DEF TypeOK, Present

LEMMA PresentHyp ==
    ASSUME TypeOK, NEW h \in Hyps
    PROVE  /\ hyps[h] \in Hyp \cup {None, Gone} /\ (Hypervisor(h) <=> hyps[h] \in Hyp)
           /\ Gone # None /\ None \notin Hyp /\ Gone \notin Hyp /\ h # None
BY InventoryAssumption DEF TypeOK, Hypervisor

LEMMA BodyTypes ==
    ASSUME NEW body \in VmBodies
    PROVE  /\ body.tenant \in Tenants /\ body.name \in Names /\ body.hyp \in Hyps \cup {None}
           /\ body.id \in Identities \cup {None} /\ body.facts \in VmFacts
BY BodyAssumption

(* One field of one row changes.                                            *)
LEMMA OneRowEdit ==
    ASSUME TypeOK, NEW v \in Vms, NEW vm \in Vm, Present(v),
           vm.tenant = vms[v].tenant, vm.id = vms[v].id, vm.from = vms[v].from,
           vms' = [vms EXCEPT ![v] = vm]
    PROVE  /\ vms' \in [Vms -> Vm \cup {None, Gone}] /\ Present(v)'
           /\ \A w \in Vms : Edit(w) /\ (Present(w) => Present(w)')
<1>1. vms'[v] = vm /\ \A w \in Vms \ {v} : vms'[w] = vms[w]
  BY DEF TypeOK
<1>2. Present(v)'
  BY <1>1, PresentRow DEF Present
<1> QED
  BY <1>1, <1>2 DEF Edit, Present, TypeOK

WorldFacts ==
    /\ reqs' = reqs /\ TypeOK' /\ migrating' \in SUBSET Vms /\ overlapped' = overlapped
    /\ stuck' = stuck /\ \A v \in Vms : Edit(v)

LEMMA CreateHypervisorWorld ==
    ASSUME Sound, NEW t \in Tenants, NEW name \in HypNames, NEW type \in Types,
           CreateHypervisor(t, name, type)
    PROVE  WorldFacts
<1> DEFINE i == CHOOSE h \in Hyps : hyps[h] = None
           new == [tenant |-> t, name |-> name, type |-> type, status |-> "unknown", count |-> 0]
<1>1. i \in Hyps /\ hyps' = [hyps EXCEPT ![i] = new]
  BY DEF CreateHypervisor
<1>2. new \in Hyp
  BY DEF Hyp, HypStatuses
<1> HIDE DEF i, new
<1>3. hyps' \in [Hyps -> Hyp \cup {None, Gone}]
  BY <1>1, <1>2 DEF Sound, TypeOK
<1>4. budget' \in [Kinds -> Nat]
  BY SpendType DEF CreateHypervisor, Sound, Kinds
<1>5. UNCHANGED <<vms, place, migrating, reqs, stuck, overlapped>>
  BY DEF CreateHypervisor
<1> QED
  BY <1>3, <1>4, <1>5 DEF WorldFacts, Sound, TypeOK, Edit, Present

LEMMA UpdateHypervisorWorld ==
    ASSUME Sound, NEW h \in Hyps, NEW name \in HypNames, UpdateHypervisor(h, name)
    PROVE  WorldFacts
<1>1. hyps[h] \in Hyp /\ hyps' = [hyps EXCEPT ![h] = [hyps[h] EXCEPT !.name = name]]
  BY PresentHyp DEF UpdateHypervisor, Sound, TypeOK
<1>2. [hyps[h] EXCEPT !.name = name] \in Hyp
  BY <1>1 DEF Hyp
<1>3. hyps' \in [Hyps -> Hyp \cup {None, Gone}]
  BY <1>1, <1>2 DEF Sound, TypeOK
<1>4. budget' \in [Kinds -> Nat]
  BY SpendType DEF UpdateHypervisor, Sound, Kinds
<1>5. UNCHANGED <<vms, place, migrating, reqs, stuck, overlapped>>
  BY DEF UpdateHypervisor
<1> QED
  BY <1>3, <1>4, <1>5 DEF WorldFacts, Sound, TypeOK, Edit, Present

LEMMA DeleteHypervisorWorld ==
    ASSUME Sound, NEW h \in Hyps, DeleteHypervisor(h)
    PROVE  /\ WorldFacts
           /\ \A v \in Vms : \/ vms'[v] = vms[v]
                             \/ Present(v) /\ vms'[v] = [vms[v] EXCEPT !.hyp = None]
<1>1. hyps' = [hyps EXCEPT ![h] = Gone]
      /\ vms' = [v \in Vms |-> IF Present(v) /\ vms[v].hyp = h THEN [vms[v] EXCEPT !.hyp = None]
                                                           ELSE vms[v]]
      /\ UNCHANGED <<place, migrating, reqs, stuck, overlapped>>
  BY DEF DeleteHypervisor
<1>2. hyps' \in [Hyps -> Hyp \cup {None, Gone}]
  BY <1>1 DEF Sound, TypeOK
<1>3. budget' \in [Kinds -> Nat]
  BY SpendType DEF DeleteHypervisor, Sound, Kinds
<1>4. ASSUME NEW v \in Vms
      PROVE  /\ vms'[v] \in Vm \cup {None, Gone} /\ Edit(v) /\ (Present(v) => Present(v)')
             /\ \/ vms'[v] = vms[v]
                \/ Present(v) /\ vms'[v] = [vms[v] EXCEPT !.hyp = None]
  <2>1. CASE Present(v) /\ vms[v].hyp = h
    <3>1. vms[v] \in Vm /\ vms'[v] = [vms[v] EXCEPT !.hyp = None]
      BY <1>1, <2>1, PresentRow DEF Sound
    <3>2. vms'[v] \in Vm /\ vms'[v].tenant = vms[v].tenant /\ vms'[v].id = vms[v].id
          /\ vms'[v].from = vms[v].from
      BY <3>1 DEF Vm
    <3>3. Present(v)'
      BY <3>2, PresentRow DEF Sound, Present
    <3> QED
      BY <2>1, <3>1, <3>2, <3>3 DEF Edit
  <2>2. CASE ~(Present(v) /\ vms[v].hyp = h)
    <3>1. vms'[v] = vms[v]
      BY <1>1, <2>2
    <3> QED
      BY <3>1, PresentRow DEF Edit, Present, Sound
  <2> QED
    BY <2>1, <2>2
<1>5. vms' \in [Vms -> Vm \cup {None, Gone}]
  BY <1>1, <1>4
<1>6. TypeOK'
  BY <1>1, <1>2, <1>3, <1>4, <1>5 DEF Sound, TypeOK
<1> QED
  BY <1>1, <1>4, <1>6 DEF WorldFacts, Sound

LEMMA VmWorld ==
    ASSUME Sound, NEW v \in Vms
    PROVE  /\ DeleteVm(v) => WorldFacts
           /\ MigrationBegins(v) => WorldFacts
           /\ \A done \in BOOLEAN : MigrationEnds(v, done) => WorldFacts
           /\ \A body \in VmBodies : UpdateVm(v, body) => WorldFacts
<1>1. ASSUME DeleteVm(v) PROVE WorldFacts
  <2>1. /\ Present(v) /\ vms' = [vms EXCEPT ![v] = Gone] /\ migrating' = migrating \ {v}
        /\ UNCHANGED <<hyps, place, reqs, stuck, overlapped>>
    BY <1>1 DEF DeleteVm
  <2>2. budget' \in [Kinds -> Nat]
    BY <1>1, SpendType DEF DeleteVm, Sound, Kinds
  <2>3. vms' \in [Vms -> Vm \cup {None, Gone}] /\ \A w \in Vms \ {v} : vms'[w] = vms[w]
    BY <2>1 DEF Sound, TypeOK
  <2>4. \A w \in migrating' : Present(w)'
    BY <2>1, <2>3 DEF Sound, TypeOK, Present
  <2>5. \A w \in Vms : Edit(w)
    BY <2>1 DEF Edit, Sound, TypeOK
  <2> QED
    BY <2>1, <2>2, <2>3, <2>4, <2>5 DEF WorldFacts, Sound, TypeOK
<1>2. ASSUME MigrationBegins(v) PROVE WorldFacts
  <2>1. Present(v) /\ migrating' = migrating \cup {v}
        /\ UNCHANGED <<hyps, vms, place, reqs, stuck, overlapped>>
    BY <1>2 DEF MigrationBegins
  <2>2. budget' \in [Kinds -> Nat]
    BY <1>2, SpendType DEF MigrationBegins, Sound, Kinds
  <2> QED
    BY <2>1, <2>2 DEF WorldFacts, Sound, TypeOK, Edit, Present
<1>3. ASSUME NEW done \in BOOLEAN, MigrationEnds(v, done) PROVE WorldFacts
  <2>1. v \in migrating /\ migrating' = migrating \ {v}
        /\ UNCHANGED <<hyps, place, reqs, budget, stuck, overlapped>>
    BY <1>3 DEF MigrationEnds
  <2>2. Present(v) /\ vms[v] \in Vm
    BY <2>1, PresentRow DEF Sound, TypeOK
  <2>3. CASE done
    <3>1. vms' = [vms EXCEPT ![v] = [vms[v] EXCEPT !.status = "migrated"]]
      BY <1>3, <2>3 DEF MigrationEnds, Sound, TypeOK
    <3>2. [vms[v] EXCEPT !.status = "migrated"] \in Vm
      BY <2>2 DEF Vm, VmStatuses
    <3>3. /\ [vms[v] EXCEPT !.status = "migrated"].tenant = vms[v].tenant
          /\ [vms[v] EXCEPT !.status = "migrated"].id = vms[v].id
          /\ [vms[v] EXCEPT !.status = "migrated"].from = vms[v].from
      BY <2>2 DEF Vm
    <3>4. vms' \in [Vms -> Vm \cup {None, Gone}] /\ \A w \in Vms : Edit(w) /\ (Present(w) => Present(w)')
      BY <2>2, <3>1, <3>2, <3>3, OneRowEdit DEF Sound
    <3> QED
      BY <2>1, <3>4 DEF WorldFacts, Sound, TypeOK
  <2>4. CASE ~done
    <3>1. vms' = vms
      BY <1>3, <2>4 DEF MigrationEnds
    <3> QED
      BY <2>1, <3>1 DEF WorldFacts, Sound, TypeOK, Edit, Present
  <2> QED
    BY <2>3, <2>4
<1>4. ASSUME NEW body \in VmBodies, UpdateVm(v, body) PROVE WorldFacts
  <2>1. Present(v) /\ UNCHANGED <<hyps, place, migrating, reqs, stuck, overlapped>>
    BY <1>4 DEF UpdateVm
  <2>2. vms[v] \in Vm
    BY <2>1, PresentRow DEF Sound
  <2> DEFINE vm == [vms[v] EXCEPT !.name = body.name, !.facts = body.facts]
  <2>3. vms' = [vms EXCEPT ![v] = vm]
    BY <1>4 DEF UpdateVm, Sound, TypeOK
  <2>4. vm \in Vm /\ vm.tenant = vms[v].tenant /\ vm.id = vms[v].id /\ vm.from = vms[v].from
    BY <2>2, BodyTypes DEF Vm
  <2> HIDE DEF vm
  <2>5. vms' \in [Vms -> Vm \cup {None, Gone}] /\ \A w \in Vms : Edit(w) /\ (Present(w) => Present(w)')
    BY <2>1, <2>3, <2>4, OneRowEdit DEF Sound
  <2>6. budget' \in [Kinds -> Nat]
    BY <1>4, SpendType DEF UpdateVm, Sound, Kinds
  <2> QED
    BY <2>1, <2>5, <2>6 DEF WorldFacts, Sound, TypeOK
<1> QED
  BY <1>1, <1>2, <1>3, <1>4

LEMMA WorldStep ==
    ASSUME Sound, World
    PROVE  WorldFacts
<1>1. CASE \E t \in Tenants, name \in HypNames, type \in Types : CreateHypervisor(t, name, type)
  BY <1>1, CreateHypervisorWorld
<1>2. CASE \E h \in Hyps : DeleteHypervisor(h) \/ \E name \in HypNames : UpdateHypervisor(h, name)
  BY <1>2, DeleteHypervisorWorld, UpdateHypervisorWorld
<1>3. CASE \E v \in Vms : \/ DeleteVm(v) \/ MigrationBegins(v)
                          \/ \E done \in BOOLEAN : MigrationEnds(v, done)
                          \/ \E body \in VmBodies : UpdateVm(v, body)
  BY <1>3, VmWorld
<1>4. CASE \E to \in Places : MachinesMove(to)
  <2>1. PICK to \in Places : MachinesMove(to)
    BY <1>4
  <2>2. place' = to /\ to \in [Machines -> Hyps \cup {None}]
        /\ UNCHANGED <<hyps, vms, migrating, reqs, stuck, overlapped>>
    BY <2>1, InventoryAssumption DEF MachinesMove
  <2>3. budget' \in [Kinds -> Nat]
    BY <2>1, SpendType DEF MachinesMove, Sound, Kinds
  <2> QED
    BY <2>2, <2>3 DEF WorldFacts, Sound, TypeOK, Edit, Present
<1>5. CASE UNCHANGED vars
  BY <1>5 DEF vars, WorldFacts, Sound, TypeOK, Edit, Present
<1> QED
  BY <1>1, <1>2, <1>3, <1>4, <1>5 DEF World

(* A step of a request that changes no identity and leaves it no new rows.  *)
QuietFacts(r) ==
    /\ reqs' = [reqs EXCEPT ![r] = reqs'[r]] /\ reqs'[r] \in Request
    /\ TypeOK' /\ migrating' \in SUBSET Vms
    /\ \A v \in Vms : Edit(v)
    /\ reqs'[r].kind = "sync" => reqs'[r].new = {} /\ Session(r)'

LEMMA IdleRequest ==
    /\ Idle \in Request /\ Idle.kind = "idle"
    /\ SyncReq \cup TestReq \cup BodyReq \cup AnalyzeReq \subseteq Request
BY DEF Request, Idle

LEMMA ReqsSet ==
    ASSUME Sound, NEW r \in Requests, NEW q, reqs' = [reqs EXCEPT ![r] = q]
    PROVE  reqs'[r] = q /\ reqs' = [reqs EXCEPT ![r] = reqs'[r]] /\ DOMAIN reqs' = Requests
BY DEF Sound

LEMMA BecomesIdle ==
    ASSUME Sound, NEW r \in Requests, reqs' = [reqs EXCEPT ![r] = Idle],
           TypeOK', migrating' \in SUBSET Vms, \A v \in Vms : Edit(v)
    PROVE  QuietFacts(r)
<1>1. reqs'[r] = Idle /\ reqs' = [reqs EXCEPT ![r] = reqs'[r]]
  BY ReqsSet
<1> QED
  BY <1>1, IdleRequest DEF QuietFacts

LEMMA SyncBeginFacts ==
    ASSUME Sound, NEW r \in Requests, NEW h \in Hyps, SyncBegin(r, h)
    PROVE  QuietFacts(r) /\ reqs'[r].kind = "sync" /\ reqs'[r].at = "fetch" /\ reqs[r] = Idle
           /\ reqs'[r].hyp = h /\ Hypervisor(h)
<1> DEFINE q == [kind |-> "sync", at |-> "fetch", hyp |-> h, tenant |-> hyps[h].tenant,
                 type |-> hyps[h].type, left |-> {}, seen |-> {}, base |-> Nothing,
                 now |-> Nothing, new |-> {}, flushed |-> {}, snap |-> NoSnap]
<1>1. /\ Hypervisor(h) /\ hyps' = [hyps EXCEPT ![h].status = "discovering"]
      /\ reqs' = [reqs EXCEPT ![r] = q] /\ reqs[r] = Idle
      /\ UNCHANGED <<vms, place, migrating, stuck, overlapped>>
  BY DEF SyncBegin, Ready
<1>2. hyps[h] \in Hyp
  BY <1>1, PresentHyp DEF Sound
<1>3. hyps' \in [Hyps -> Hyp \cup {None, Gone}]
  <2>1. hyps' = [hyps EXCEPT ![h] = [hyps[h] EXCEPT !.status = "discovering"]]
    BY <1>1 DEF Sound, TypeOK
  <2>2. [hyps[h] EXCEPT !.status = "discovering"] \in Hyp
    BY <1>2 DEF Hyp, HypStatuses
  <2> QED
    BY <2>1, <2>2 DEF Sound, TypeOK
<1>4. Nothing \in Rows /\ \A v \in Vms : Nothing[v] = None
  BY DEF Nothing, Rows
<1>5. q \in SyncReq
  <2>1. hyps[h].tenant \in Tenants /\ hyps[h].type \in Types
    BY <1>2 DEF Hyp
  <2>2. NoSnap \in Snaps
    BY DEF Snaps, NoSnap
  <2> QED
    BY <1>4, <2>1, <2>2 DEF SyncReq
<1>6. /\ q.kind = "sync" /\ q.at = "fetch" /\ q.new = {} /\ q.seen = {} /\ q.flushed = {}
      /\ q.base = Nothing /\ q.now = Nothing /\ q.hyp = h
  OBVIOUS
<1> HIDE DEF q
<1>7. reqs'[r] = q /\ reqs' = [reqs EXCEPT ![r] = reqs'[r]] /\ DOMAIN reqs' = Requests
  BY <1>1, ReqsSet
<1>8. budget' \in [Kinds -> Nat]
  BY SpendType DEF SyncBegin, Ready, Sound, Kinds
<1>9. TypeOK' /\ migrating' \in SUBSET Vms /\ \A v \in Vms : Edit(v)
  BY <1>1, <1>3, <1>7, <1>8 DEF Sound, TypeOK, Edit, Present
<1>10. Session(r)'
  BY <1>4, <1>6, <1>7 DEF Session
<1> QED
  BY <1>1, <1>5, <1>6, <1>7, <1>9, <1>10, IdleRequest DEF QuietFacts

LEMMA FetchFacts ==
    ASSUME Sound, NEW r \in Requests, NEW listing \in BOOLEAN, NEW reading \in Readings,
           SyncFetch(r, listing, reading)
    PROVE  /\ QuietFacts(r) /\ reqs[r].kind = "sync" /\ reqs[r].at = "fetch"
           /\ reqs'[r].kind = "sync" /\ reqs'[r].at = "match" /\ reqs'[r].hyp = reqs[r].hyp
           /\ reqs'[r].tenant = reqs[r].tenant
           /\ reqs'[r].seen = {data.id : data \in reqs'[r].left}
           /\ reqs'[r].base = reqs[r].base /\ reqs'[r].now = reqs[r].now
           /\ reqs'[r].new = {} /\ reqs'[r].flushed = {}
           /\ \A v \in Vms : reqs[r].base[v] = None /\ reqs[r].now[v] = None
           /\ reqs'[r].snap = Snap(Alone(r))
           /\ overlapped' = overlapped \cup (reqs'[r].seen \cap InFlight(r))
           /\ UNCHANGED <<hyps, vms, place, migrating, budget, stuck>>
<1> DEFINE q == reqs[r]
           report == Report(q.hyp, q.type, listing, reading)
           ids == {data.id : data \in report}
           p(s) == [q EXCEPT !.at = "match", !.left = report, !.seen = ids, !.snap = s]
<1>0. PICK s : s = Snap(Alone(r))
  OBVIOUS
<1>1. q.kind = "sync" /\ q.at = "fetch" /\ report # Aborts
  BY Zenon DEF SyncFetch, Sync
<1>2. q \in SyncReq /\ Session(r)
  BY <1>1, SyncRequest
<1>3. /\ q.hyp \in Hyps /\ q.tenant \in Tenants /\ q.type \in Types
      /\ q.base \in Rows /\ q.now \in Rows
  BY <1>2, SyncFields
<1>4. /\ q.new = {} /\ q.seen = {} /\ q.flushed = {}
      /\ \A v \in Vms : q.base[v] = None /\ q.now[v] = None
  BY <1>1, <1>2 DEF Session
<1>5. report \in SUBSET VmData
  BY <1>1, <1>3, ReportType
<1>6. ids \in SUBSET Identities
  BY <1>5 DEF VmData
<1>7. s \in Snaps
  BY <1>0 DEF Snaps, Snap, NoSnap, Alone, Sound, TypeOK
<1>8. /\ reqs' = [reqs EXCEPT ![r].at = "match", ![r].left = report, ![r].seen = ids, ![r].snap = s]
      /\ overlapped' = overlapped \cup (ids \cap InFlight(r))
      /\ UNCHANGED <<hyps, vms, place, migrating, budget, stuck>>
  BY <1>0, Zenon DEF SyncFetch
<1>9. ids = {data.id : data \in report}
  OBVIOUS
<1> HIDE DEF report, ids
<1>10. reqs' = [reqs EXCEPT ![r] = p(s)]
  BY <1>8, <1>2 DEF SyncReq, Sound
<1>11. /\ p(s) \in SyncReq /\ p(s).kind = "sync" /\ p(s).at = "match" /\ p(s).hyp = q.hyp /\ p(s).tenant = q.tenant
       /\ p(s).left = report /\ p(s).seen = ids /\ p(s).base = q.base /\ p(s).now = q.now /\ p(s).new = {}
       /\ p(s).flushed = {} /\ p(s).snap = s
  BY <1>1, <1>2, <1>3, <1>4, <1>5, <1>6, <1>7 DEF SyncReq
<1> HIDE DEF p
<1>12. reqs'[r] = p(s) /\ reqs' = [reqs EXCEPT ![r] = reqs'[r]] /\ DOMAIN reqs' = Requests
  BY <1>10, ReqsSet
<1>13. TypeOK' /\ migrating' \in SUBSET Vms /\ \A v \in Vms : Edit(v)
  BY <1>6, <1>8, <1>12 DEF Sound, TypeOK, Edit, Present
<1>14. Session(r)'
  BY <1>4, <1>11, <1>12 DEF Session
<1>15. QuietFacts(r)
  BY <1>11, <1>12, <1>13, <1>14, IdleRequest DEF QuietFacts
<1> QED
  <2>1. reqs'[r].snap = Snap(Alone(r))
    BY <1>0, <1>11, <1>12
  <2>2. /\ QuietFacts(r) /\ q.kind = "sync" /\ q.at = "fetch"
        /\ reqs'[r].kind = "sync" /\ reqs'[r].at = "match" /\ reqs'[r].hyp = q.hyp
        /\ reqs'[r].tenant = q.tenant /\ reqs'[r].seen = {data.id : data \in reqs'[r].left}
        /\ reqs'[r].base = q.base /\ reqs'[r].now = q.now
        /\ reqs'[r].new = {} /\ reqs'[r].flushed = {}
    BY <1>1, <1>9, <1>11, <1>12, <1>15
  <2>3. overlapped' = overlapped \cup (reqs'[r].seen \cap InFlight(r))
    BY <1>8, <1>11, <1>12
  <2> QED
    BY <1>4, <1>8, <2>1, <2>2, <2>3, Zenon

LEMMA SyncEndsFacts ==
    ASSUME Sound, NEW r \in Requests
    PROVE  /\ SyncFail(r) => QuietFacts(r)
           /\ SyncFlushFails(r) => QuietFacts(r)
           /\ SyncEnd(r) => QuietFacts(r)
           /\ SyncOrphaned(r) => QuietFacts(r)
<1>1. ASSUME reqs[r].kind = "sync" PROVE reqs[r].hyp \in Hyps
  BY <1>1, SyncRequest, SyncFields
<1>2. ASSUME NEW h \in Hyps, NEW s \in HypStatuses, Hypervisor(h)
      PROVE  [hyps EXCEPT ![h].status = s] \in [Hyps -> Hyp \cup {None, Gone}]
  <2>1. hyps[h] \in Hyp
    BY <1>2, PresentHyp DEF Sound
  <2>2. [hyps[h] EXCEPT !.status = s] \in Hyp
    BY <1>2, <2>1 DEF Hyp
  <2>3. [hyps EXCEPT ![h].status = s] = [hyps EXCEPT ![h] = [hyps[h] EXCEPT !.status = s]]
    BY DEF Sound, TypeOK
  <2> QED
    BY <2>2, <2>3 DEF Sound, TypeOK
<1>3. ASSUME NEW x, x = [reqs EXCEPT ![r] = Idle] PROVE DOMAIN x = Requests
  BY <1>3 DEF Sound
<1>4. ASSUME SyncFail(r) PROVE QuietFacts(r)
  <2>1. reqs[r].hyp \in Hyps
    BY <1>1, <1>4 DEF SyncFail, Sync
  <2>2. hyps' \in [Hyps -> Hyp \cup {None, Gone}]
    BY <1>2, <1>4, <2>1 DEF SyncFail, HypStatuses, Sound, TypeOK
  <2>3. reqs' = [reqs EXCEPT ![r] = Idle]
        /\ UNCHANGED <<vms, place, migrating, budget, stuck, overlapped>>
    BY <1>4 DEF SyncFail
  <2>4. TypeOK' /\ migrating' \in SUBSET Vms /\ \A v \in Vms : Edit(v)
    BY <2>2, <2>3, <1>3 DEF Sound, TypeOK, Edit, Present
  <2> QED
    BY <2>3, <2>4, BecomesIdle
<1>5. ASSUME SyncFlushFails(r) PROVE QuietFacts(r)
  <2>1. reqs[r].hyp \in Hyps
    BY <1>1, <1>5 DEF SyncFlushFails
  <2>2. reqs' = [reqs EXCEPT ![r] = Idle] /\ stuck' = stuck \cup {reqs[r].hyp}
        /\ UNCHANGED <<hyps, vms, place, migrating, budget, overlapped>>
    BY <1>5 DEF SyncFlushFails
  <2>3. TypeOK' /\ migrating' \in SUBSET Vms /\ \A v \in Vms : Edit(v)
    BY <2>1, <2>2, <1>3 DEF Sound, TypeOK, Edit, Present
  <2> QED
    BY <2>2, <2>3, BecomesIdle
<1>6. ASSUME SyncEnd(r) PROVE QuietFacts(r)
  <2>1. reqs[r].hyp \in Hyps
    BY <1>1, <1>6 DEF SyncEnd, Sync
  <2>2. hyps' \in [Hyps -> Hyp \cup {None, Gone}]
    BY <1>2, <1>6, <2>1 DEF SyncEnd, HypStatuses
  <2>3. reqs' = [reqs EXCEPT ![r] = Idle]
        /\ UNCHANGED <<vms, place, migrating, budget, stuck, overlapped>>
    BY <1>6 DEF SyncEnd
  <2>4. TypeOK' /\ migrating' \in SUBSET Vms /\ \A v \in Vms : Edit(v)
    BY <2>2, <2>3, <1>3 DEF Sound, TypeOK, Edit, Present
  <2> QED
    BY <2>3, <2>4, BecomesIdle
<1>7. ASSUME SyncOrphaned(r) PROVE QuietFacts(r)
  <2>1. reqs' = [reqs EXCEPT ![r] = Idle]
        /\ UNCHANGED <<hyps, vms, place, migrating, budget, stuck, overlapped>>
    BY <1>7 DEF SyncOrphaned
  <2>2. TypeOK' /\ migrating' \in SUBSET Vms /\ \A v \in Vms : Edit(v)
    BY <2>1, <1>3 DEF Sound, TypeOK, Edit, Present
  <2> QED
    BY <2>1, <2>2, BecomesIdle
<1> QED
  BY <1>4, <1>5, <1>6, <1>7

LEMMA CountFacts ==
    ASSUME Sound, NEW r \in Requests, SyncCount(r)
    PROVE  QuietFacts(r)
<1> DEFINE q == reqs[r]
           h == q.hyp
           n == Cardinality(RowsOf(h))
           p == [q EXCEPT !.at = "end"]
<1>1. q.kind = "sync" /\ q.at = "count" /\ Hypervisor(h)
  BY DEF SyncCount, Sync
<1>2. q \in SyncReq /\ Session(r) /\ h \in Hyps
  BY <1>1, SyncRequest, SyncFields
<1>3. n \in Nat
  <2>1. IsFiniteSet(RowsOf(h))
    BY InventoryAssumption, FS_Subset DEF RowsOf
  <2> QED
    BY <2>1, FS_CardinalityType
<1>4. hyps' = [hyps EXCEPT ![h].count = n] /\ reqs' = [reqs EXCEPT ![r].at = "end"]
      /\ UNCHANGED <<vms, place, migrating, budget, stuck, overlapped>>
  BY DEF SyncCount
<1> HIDE DEF n
<1>5. hyps' \in [Hyps -> Hyp \cup {None, Gone}]
  <2>1. hyps[h] \in Hyp
    BY <1>1, <1>2, PresentHyp DEF Sound
  <2>2. [hyps[h] EXCEPT !.count = n] \in Hyp
    BY <1>3, <2>1 DEF Hyp
  <2>3. hyps' = [hyps EXCEPT ![h] = [hyps[h] EXCEPT !.count = n]]
    BY <1>2, <1>4 DEF Sound, TypeOK
  <2> QED
    BY <2>2, <2>3 DEF Sound, TypeOK
<1>6. reqs' = [reqs EXCEPT ![r] = p]
  BY <1>2, <1>4 DEF SyncReq, Sound
<1>7. /\ p \in SyncReq /\ p.kind = "sync" /\ p.at = "end" /\ p.base = q.base /\ p.now = q.now
      /\ p.new = q.new /\ p.flushed = q.flushed
  BY <1>2 DEF SyncReq
<1>8. q.new = {}
  BY <1>1, <1>2 DEF Session
<1> HIDE DEF p
<1>9. reqs'[r] = p /\ reqs' = [reqs EXCEPT ![r] = reqs'[r]] /\ DOMAIN reqs' = Requests
  BY <1>6, ReqsSet
<1>10. TypeOK' /\ migrating' \in SUBSET Vms /\ \A v \in Vms : Edit(v)
  BY <1>4, <1>5, <1>9 DEF Sound, TypeOK, Edit, Present
<1>11. Session(r)'
  BY <1>1, <1>2, <1>7, <1>8, <1>9 DEF Session
<1> QED
  BY <1>7, <1>8, <1>9, <1>10, <1>11, IdleRequest DEF QuietFacts

LEMMA TestFacts ==
    ASSUME Sound, NEW r \in Requests
    PROVE  /\ \A h \in Hyps : TestBegin(r, h) => QuietFacts(r)
           /\ \A listing \in BOOLEAN, reading \in Readings : TestEnd(r, listing, reading) => QuietFacts(r)
           /\ \A body \in VmBodies : CreateVmBegin(r, body) => QuietFacts(r)
<1>1. ASSUME NEW h \in Hyps, TestBegin(r, h) PROVE QuietFacts(r)
  <2> DEFINE q == [kind |-> "test", hyp |-> h, type |-> hyps[h].type, status |-> hyps[h].status]
  <2>1. /\ Hypervisor(h) /\ reqs' = [reqs EXCEPT ![r] = q]
        /\ UNCHANGED <<hyps, vms, place, migrating, stuck, overlapped>>
    BY <1>1 DEF TestBegin
  <2>2. hyps[h] \in Hyp
    BY <2>1, PresentHyp DEF Sound
  <2>3. q \in TestReq /\ q.kind = "test"
    BY <2>2 DEF TestReq, Hyp
  <2> HIDE DEF q
  <2>4. reqs'[r] = q /\ reqs' = [reqs EXCEPT ![r] = reqs'[r]] /\ DOMAIN reqs' = Requests
    BY <2>1, ReqsSet
  <2>5. budget' \in [Kinds -> Nat]
    BY <1>1, SpendType DEF TestBegin, Ready, Sound, Kinds
  <2>6. TypeOK' /\ migrating' \in SUBSET Vms /\ \A v \in Vms : Edit(v)
    BY <2>1, <2>4, <2>5 DEF Sound, TypeOK, Edit, Present
  <2> QED
    BY <2>3, <2>4, <2>6, IdleRequest DEF QuietFacts
<1>2. ASSUME NEW listing \in BOOLEAN, NEW reading \in Readings, TestEnd(r, listing, reading)
      PROVE  QuietFacts(r)
  <2> DEFINE q == reqs[r]
             s == IF Report(q.hyp, q.type, listing, reading) = Aborts THEN "unreachable" ELSE "active"
  <2>1. /\ q.kind = "test"
        /\ \/ hyps' = IF Hypervisor(q.hyp) /\ s # q.status
                      THEN [hyps EXCEPT ![q.hyp].status = s] ELSE hyps
           \/ hyps' = hyps
        /\ reqs' = [reqs EXCEPT ![r] = Idle]
        /\ UNCHANGED <<vms, place, migrating, budget, stuck, overlapped>>
    BY <1>2 DEF TestEnd
  <2>2. s \in HypStatuses
    BY DEF HypStatuses
  <2> HIDE DEF s
  <2>3. q.hyp \in Hyps
    BY <2>1, RequestKinds DEF Sound, TestReq
  <2>4. hyps' \in [Hyps -> Hyp \cup {None, Gone}]
    <3>1. CASE Hypervisor(q.hyp) /\ s # q.status /\ hyps' # hyps
      <4>1. hyps[q.hyp] \in Hyp
        BY <2>3, <3>1, PresentHyp DEF Sound
      <4>2. [hyps[q.hyp] EXCEPT !.status = s] \in Hyp
        BY <2>2, <4>1 DEF Hyp
      <4>3. hyps' = [hyps EXCEPT ![q.hyp] = [hyps[q.hyp] EXCEPT !.status = s]]
        BY <2>1, <2>3, <3>1 DEF Sound, TypeOK
      <4> QED
        BY <4>2, <4>3 DEF Sound, TypeOK
    <3>2. CASE ~(Hypervisor(q.hyp) /\ s # q.status /\ hyps' # hyps)
      BY <2>1, <3>2 DEF Sound, TypeOK
    <3> QED
      BY <3>1, <3>2
  <2>5. DOMAIN reqs' = Requests
    BY <2>1 DEF Sound
  <2>6. TypeOK' /\ migrating' \in SUBSET Vms /\ \A v \in Vms : Edit(v)
    BY <2>1, <2>4, <2>5 DEF Sound, TypeOK, Edit, Present
  <2> QED
    BY <2>1, <2>6, BecomesIdle
<1>3. ASSUME NEW body \in VmBodies, CreateVmBegin(r, body) PROVE QuietFacts(r)
  <2> DEFINE q == [kind |-> "vm", body |-> body]
  <2>1. /\ reqs' = [reqs EXCEPT ![r] = q]
        /\ UNCHANGED <<hyps, vms, place, migrating, stuck, overlapped>>
    BY <1>3 DEF CreateVmBegin
  <2>2. q \in BodyReq /\ q.kind = "vm"
    BY DEF BodyReq
  <2> HIDE DEF q
  <2>3. reqs'[r] = q /\ reqs' = [reqs EXCEPT ![r] = reqs'[r]] /\ DOMAIN reqs' = Requests
    BY <2>1, ReqsSet
  <2>4. budget' \in [Kinds -> Nat]
    BY <1>3, SpendType DEF CreateVmBegin, Ready, Sound, Kinds
  <2>5. TypeOK' /\ migrating' \in SUBSET Vms /\ \A v \in Vms : Edit(v)
    BY <2>1, <2>3, <2>4 DEF Sound, TypeOK, Edit, Present
  <2> QED
    BY <2>2, <2>3, <2>5, IdleRequest DEF QuietFacts
<1> QED
  BY <1>1, <1>2, <1>3

LEMMA AnalyzeBeginFacts ==
    ASSUME Sound, NEW r \in Requests, NEW v \in Vms,
           \E force \in BOOLEAN : AnalyzeBegin(r, v, force)
    PROVE  /\ QuietFacts(r) /\ Present(v) /\ (reqs'[r].force \/ vms[v].compat = "unknown")
           /\ vms' = [vms EXCEPT ![v] = [vms[v] EXCEPT !.status = "analyzing", !.compat = vms[v].compat]]
           /\ reqs'[r].kind = "analyze" /\ reqs'[r].vm = v /\ reqs[r] = Idle
           /\ UNCHANGED <<hyps, place, migrating, stuck, overlapped>>
<1>0. PICK force \in BOOLEAN : AnalyzeBegin(r, v, force)
  OBVIOUS
<1> DEFINE q == [kind |-> "analyze", vm |-> v, force |-> force,
                 facts |-> vms[v].facts, type |-> TypeOf(vms[v]), compat |-> vms[v].compat]
           vm == [vms[v] EXCEPT !.status = "analyzing", !.compat = vms[v].compat]
<1>1. /\ reqs[r] = Idle /\ Present(v) /\ (~force => vms[v].compat = "unknown")
      /\ vms' = [vms EXCEPT ![v].status = "analyzing"] /\ reqs' = [reqs EXCEPT ![r] = q]
      /\ UNCHANGED <<hyps, place, migrating, stuck, overlapped>>
  BY <1>0 DEF AnalyzeBegin, Ready
<1>2. vms[v] \in Vm
  BY <1>1, PresentRow DEF Sound
<1>3. vms[v].compat \in CompatStatuses /\ "analyzing" \in VmStatuses
  BY <1>2 DEF Vm, VmStatuses
<1>4. vms' = [vms EXCEPT ![v] = vm]
  BY <1>1, <1>2 DEF Sound, TypeOK, Vm
<1>5. vm \in Vm /\ vm.tenant = vms[v].tenant /\ vm.id = vms[v].id /\ vm.from = vms[v].from
  BY <1>2, <1>3 DEF Vm
<1>6. vms' \in [Vms -> Vm \cup {None, Gone}] /\ \A w \in Vms : Edit(w) /\ (Present(w) => Present(w)')
  BY <1>1, <1>4, <1>5, OneRowEdit DEF Sound
<1>7. q \in AnalyzeReq
  <2>1. TypeOf(vms[v]) \in Types \cup {"unknown"}
    <3>1. ASSUME Hypervisor(vms[v].hyp) PROVE hyps[vms[v].hyp].type \in Types
      <4>1. vms[v].hyp \in Hyps
        BY <1>2, <3>1 DEF Vm, Hypervisor
      <4>2. hyps[vms[v].hyp] \in Hyp
        BY <3>1, <4>1, PresentHyp DEF Sound
      <4> QED
        BY <4>2 DEF Hyp
    <3> QED
      BY <3>1 DEF TypeOf
  <2>2. vms[v].facts \in VmFacts
    BY <1>2 DEF Vm
  <2> QED
    BY <1>3, <2>1, <2>2 DEF AnalyzeReq
<1>8. q.kind = "analyze" /\ q.vm = v /\ q.force = force
  OBVIOUS
<1> HIDE DEF q, vm
<1>9. reqs'[r] = q /\ reqs' = [reqs EXCEPT ![r] = reqs'[r]] /\ DOMAIN reqs' = Requests
  BY <1>1, ReqsSet
<1>10. budget' \in [Kinds -> Nat]
  BY <1>0, SpendType DEF AnalyzeBegin, Ready, Sound, Kinds
<1>11. TypeOK' /\ migrating' \in SUBSET Vms
  BY <1>1, <1>6, <1>9, <1>10 DEF Sound, TypeOK
<1>12. QuietFacts(r)
  BY <1>6, <1>7, <1>8, <1>9, <1>11, IdleRequest DEF QuietFacts
<1>13. reqs'[r].force \/ vms[v].compat = "unknown"
  BY <1>1, <1>8, <1>9
<1> QED
  BY <1>1, <1>4, <1>8, <1>9, <1>12, <1>13 DEF vm

LEMMA AnalyzeEndFacts ==
    ASSUME Sound, NEW r \in Requests,
           AnalyzeFail(r) \/ \E prediction \in Verdicts : AnalyzeCommit(r, prediction)
    PROVE  /\ QuietFacts(r) /\ Analysis(r) /\ reqs[r].vm \in Vms
           /\ UNCHANGED <<hyps, place, migrating, budget, stuck, overlapped>>
           /\ reqs' = [reqs EXCEPT ![r] = Idle]
           /\ \/ vms' = vms /\ ~Present(reqs[r].vm)
              \/ /\ Present(reqs[r].vm)
                 /\ \E s \in PassStatuses \cup {"discovered"} :
                      \E c \in PassStatuses \cup {vms[reqs[r].vm].compat} :
                       vms' = [vms EXCEPT ![reqs[r].vm] = [vms[reqs[r].vm] EXCEPT !.status = s, !.compat = c]]
<1> DEFINE q == reqs[r]
           v == q.vm
<1>1. Analysis(r) /\ reqs' = [reqs EXCEPT ![r] = Idle]
      /\ UNCHANGED <<hyps, place, migrating, budget, stuck, overlapped>>
  BY DEF AnalyzeCommit, AnalyzeFail
<1>2. v \in Vms
  BY <1>1, RequestKinds DEF Sound, Analysis, AnalyzeReq
<1>3. DOMAIN reqs' = Requests
  BY <1>1 DEF Sound
<1>4. CASE ~Present(v)
  <2>1. vms' = vms
    BY <1>4 DEF AnalyzeCommit, AnalyzeFail
  <2>2. TypeOK' /\ migrating' \in SUBSET Vms /\ \A w \in Vms : Edit(w)
    BY <1>1, <1>3, <2>1 DEF Sound, TypeOK, Edit, Present
  <2>3. QuietFacts(r)
    BY <1>1, <2>2, BecomesIdle
  <2> QED
    BY <1>1, <1>2, <1>4, <2>1, <2>3
<1>5. CASE Present(v)
  <2>0. vms[v] \in Vm
    BY <1>2, <1>5, PresentRow DEF Sound
  <2>1. PICK s \in PassStatuses \cup {"discovered"}, c \in PassStatuses \cup {vms[v].compat} :
            vms' = [vms EXCEPT ![v] = [vms[v] EXCEPT !.status = s, !.compat = c]]
    <3>1. CASE AnalyzeFail(r)
      <4>1. vms' = [vms EXCEPT ![v].status = "discovered"]
        BY <1>5, <3>1 DEF AnalyzeFail
      <4>2. vms' = [vms EXCEPT ![v] = [vms[v] EXCEPT !.status = "discovered", !.compat = vms[v].compat]]
        BY <1>2, <2>0, <4>1 DEF Sound, TypeOK, Vm
      <4> QED
        BY <4>2
    <3>2. CASE \E prediction \in Verdicts : AnalyzeCommit(r, prediction)
      <4>0. PICK prediction \in Verdicts : AnalyzeCommit(r, prediction)
        BY <3>2
      <4> DEFINE g == GradeStatus(DecideGrade(Evaluate(q.facts, q.type), prediction))
                 c == IF g # q.compat THEN g ELSE vms[v].compat
      <4>1. g \in PassStatuses
        BY GradeTypes, InventoryAssumption
      <4>2. vms' = [vms EXCEPT ![v].status = g, ![v].compat = IF g # q.compat THEN g ELSE @]
        BY <1>5, <4>0 DEF AnalyzeCommit
      <4>3. c \in PassStatuses \cup {vms[v].compat}
        BY <4>1
      <4> HIDE DEF g
      <4>4. vms' = [vms EXCEPT ![v] = [vms[v] EXCEPT !.status = g, !.compat = c]]
        BY <1>2, <2>0, <4>2 DEF Sound, TypeOK, Vm
      <4> HIDE DEF c
      <4> QED
        BY <4>1, <4>3, <4>4
    <3> QED
      BY <3>1, <3>2
  <2> DEFINE vm == [vms[v] EXCEPT !.status = s, !.compat = c]
  <2>2. s \in VmStatuses /\ c \in CompatStatuses
    BY <2>0 DEF PassStatuses, VmStatuses, CompatStatuses, Vm
  <2>3. vm \in Vm /\ vm.tenant = vms[v].tenant /\ vm.id = vms[v].id /\ vm.from = vms[v].from
    BY <2>0, <2>2 DEF Vm
  <2>4. vms' = [vms EXCEPT ![v] = vm]
    BY <2>1
  <2> HIDE DEF vm
  <2>5. vms' \in [Vms -> Vm \cup {None, Gone}] /\ \A w \in Vms : Edit(w) /\ (Present(w) => Present(w)')
    BY <1>2, <1>5, <2>3, <2>4, OneRowEdit DEF Sound
  <2>6. TypeOK' /\ migrating' \in SUBSET Vms
    BY <1>1, <1>3, <2>5 DEF Sound, TypeOK
  <2>7. QuietFacts(r)
    BY <1>1, <2>5, <2>6, BecomesIdle
  <2> QED
    BY <1>1, <1>2, <1>5, <2>1, <2>7
<1> QED
  BY <1>4, <1>5

LEMMA CrashFacts ==
    ASSUME Sound, NEW r \in Requests, Crash(r)
    PROVE  QuietFacts(r) /\ vms' = vms /\ hyps' = hyps
<1>1. reqs[r] \in Request
  BY DEF Sound
<1>2. stuck' \subseteq Hyps \cup Vms
  <2>1. reqs[r].kind = "sync" => reqs[r].hyp \in Hyps
    BY SyncRequest, SyncFields
  <2>2. reqs[r].kind = "analyze" => reqs[r].vm \in Vms
    BY <1>1, RequestKinds DEF AnalyzeReq
  <2> QED
    BY <2>1, <2>2 DEF Crash, Sound, TypeOK
<1>3. reqs' = [reqs EXCEPT ![r] = Idle] /\ UNCHANGED <<hyps, vms, place, migrating, overlapped>>
  BY DEF Crash
<1>4. DOMAIN reqs' = Requests
  BY <1>3 DEF Sound
<1>5. budget' \in [Kinds -> Nat]
  BY SpendType DEF Crash, Sound, Kinds
<1>6. TypeOK' /\ migrating' \in SUBSET Vms /\ \A w \in Vms : Edit(w)
  BY <1>2, <1>3, <1>4, <1>5 DEF Sound, TypeOK, Edit, Present
<1> QED
  BY <1>3, <1>6, BecomesIdle

(* What a commit of a session does to a row.                                *)
RowCommit(r, v) ==
    LET q == reqs[r] IN
    \/ /\ v \in q.new /\ vms[v] = None /\ q.base[v] = None /\ q.now[v] \in Vm
       /\ vms'[v] = q.now[v]
    \/ /\ v \notin q.new /\ q.base[v] \in Vm /\ q.now[v] \in Vm /\ Present(v) /\ vms[v] \in Vm
       /\ vms'[v] = Written(vms[v], q.base[v], q.now[v])
    \/ v \notin q.new /\ q.base[v] = None /\ vms'[v] = vms[v]

LEMMA CommitFacts ==
    ASSUME Sound, NEW r \in Requests, SyncCommit(r)
    PROVE  /\ reqs[r] \in SyncReq /\ reqs[r].at = "commit" /\ reqs[r].kind = "sync"
           /\ reqs' = [reqs EXCEPT ![r] = reqs'[r]] /\ reqs'[r] \in SyncReq
           /\ reqs'[r].at = "count" /\ reqs'[r].kind = "sync" /\ reqs'[r].new = {}
           /\ reqs'[r].hyp = reqs[r].hyp /\ reqs'[r].tenant = reqs[r].tenant
           /\ Session(r)' /\ TypeOK' /\ migrating' \in SUBSET Vms
           /\ \A v \in Vms : RowCommit(r, v)
           /\ UNCHANGED <<hyps, place, migrating, budget, stuck, overlapped>>
<1> DEFINE q == reqs[r]
           p == [q EXCEPT !.at = "count", !.new = {}]
<1>1. q.kind = "sync" /\ q.at = "commit" /\ Flushes(r)
  BY DEF SyncCommit, Sync
<1>2. q \in SyncReq /\ Session(r)
  BY <1>1, SyncRequest
<1>3. q.base \in Rows /\ q.now \in Rows /\ q.new \in SUBSET Vms
  BY <1>2, SyncFields
<1>4. /\ vms' = [v \in Vms |-> IF v \in q.new THEN q.now[v]
                               ELSE IF q.base[v] # None THEN Written(vms[v], q.base[v], q.now[v])
                               ELSE vms[v]]
      /\ reqs' = [reqs EXCEPT ![r].at = "count", ![r].new = {}]
      /\ UNCHANGED <<hyps, place, migrating, budget, stuck, overlapped>>
  BY DEF SyncCommit
<1>5. ASSUME NEW v \in Vms
      PROVE  RowCommit(r, v) /\ vms'[v] \in Vm \cup {None, Gone} /\ (Present(v) => vms'[v] \in Vm)
  <2>1. q.base[v] \in Vm \cup {None} /\ q.now[v] \in Vm \cup {None}
    BY <1>3 DEF Rows
  <2>2. vms'[v] = IF v \in q.new THEN q.now[v]
                  ELSE IF q.base[v] # None THEN Written(vms[v], q.base[v], q.now[v]) ELSE vms[v]
    BY <1>4
  <2>3. CASE v \in q.new
    <3>1. q.now[v] # None /\ q.base[v] = None /\ vms[v] = None
      BY <1>1, <1>2, <2>3 DEF Session
    <3> QED
      BY <2>1, <2>2, <2>3, <3>1 DEF RowCommit, Present
  <2>4. CASE v \notin q.new /\ q.base[v] # None
    <3>1. q.now[v] # None /\ Present(v)
      BY <1>1, <1>2, <2>4 DEF Session, Flushes
    <3>2. vms[v] \in Vm /\ q.base[v] \in Vm /\ q.now[v] \in Vm
      BY <2>1, <2>4, <3>1, PresentRow DEF Sound
    <3>3. Written(vms[v], q.base[v], q.now[v]) \in Vm
      BY <3>2, WrittenType
    <3> QED
      BY <2>2, <2>4, <3>1, <3>2, <3>3 DEF RowCommit
  <2>5. CASE v \notin q.new /\ q.base[v] = None
    BY <2>2, <2>5, PresentRow DEF RowCommit, Sound
  <2> QED
    BY <2>3, <2>4, <2>5
<1>6. vms' \in [Vms -> Vm \cup {None, Gone}]
  BY <1>4, <1>5
<1>7. reqs' = [reqs EXCEPT ![r] = p]
  BY <1>2, <1>4 DEF SyncReq, Sound
<1>8. /\ p \in SyncReq /\ p.kind = "sync" /\ p.at = "count" /\ p.base = q.base /\ p.now = q.now
      /\ p.new = {} /\ p.flushed = q.flushed /\ p.hyp = q.hyp /\ p.tenant = q.tenant
  BY <1>2 DEF SyncReq
<1> HIDE DEF p
<1>9. reqs'[r] = p /\ reqs' = [reqs EXCEPT ![r] = reqs'[r]] /\ DOMAIN reqs' = Requests
  BY <1>7, ReqsSet
<1>10. \A v \in Vms : Present(v) => Present(v)'
  BY <1>5, PresentRow DEF Present, Sound
<1>11. TypeOK' /\ migrating' \in SUBSET Vms
  BY <1>4, <1>6, <1>9, <1>10 DEF Sound, TypeOK
<1>12. Session(r)'
  BY <1>1, <1>2, <1>8, <1>9 DEF Session
<1> QED
  BY <1>1, <1>2, <1>4, <1>5, <1>8, <1>9, <1>11, <1>12

BodyRow(body) ==
    [tenant |-> body.tenant, name |-> body.name, hyp |-> body.hyp, id |-> body.id,
     facts |-> body.facts, status |-> "discovered", compat |-> "unknown", from |-> None]

LEMMA CreateFacts ==
    ASSUME Sound, NEW r \in Requests, CreateVmCommit(r)
    PROVE  /\ reqs' = [reqs EXCEPT ![r] = Idle] /\ reqs'[r] = Idle /\ reqs[r].kind = "vm"
           /\ TypeOK' /\ migrating' \in SUBSET Vms
           /\ UNCHANGED <<hyps, place, migrating, budget, stuck, overlapped>>
           /\ \/ vms' = vms
              \/ \E body \in VmBodies :
                    /\ Unused # {} /\ NewId \in Vms /\ vms[NewId] = None
                    /\ \A p \in Requests : reqs[p].kind = "sync" => NewId \notin reqs[p].new
                    /\ vms' = [vms EXCEPT ![NewId] = BodyRow(body)] /\ BodyRow(body) \in Vm
<1> DEFINE body == reqs[r].body
<1>1. /\ reqs[r].kind = "vm" /\ reqs' = [reqs EXCEPT ![r] = Idle]
      /\ UNCHANGED <<hyps, place, migrating, budget, stuck, overlapped>>
      /\ vms' = vms \/ (Unused # {} /\ vms' = [vms EXCEPT ![NewId] = BodyRow(body)])
  BY DEF CreateVmCommit, BodyRow
<1>2. body \in VmBodies
  BY <1>1, RequestKinds DEF Sound, BodyReq
<1> HIDE DEF body
<1>3. BodyRow(body) \in Vm
  BY <1>2, BodyTypes DEF BodyRow, Vm, VmStatuses, CompatStatuses
<1>4. reqs'[r] = Idle /\ DOMAIN reqs' = Requests
  BY <1>1, ReqsSet
<1>5. CASE vms' = vms
  BY <1>1, <1>4, <1>5 DEF Sound, TypeOK, Present
<1>6. CASE Unused # {} /\ vms' = [vms EXCEPT ![NewId] = BodyRow(body)]
  <2>1. /\ NewId \in Vms /\ vms[NewId] = None
        /\ \A p \in Requests : reqs[p].kind = "sync" => NewId \notin reqs[p].new
    BY <1>6, NewIdUnused
  <2>2. vms' \in [Vms -> Vm \cup {None, Gone}]
    BY <1>3, <1>6, <2>1 DEF Sound, TypeOK
  <2>3. \A w \in Vms : Present(w) => Present(w)'
    BY <1>6, <2>1 DEF Present, Sound, TypeOK
  <2>4. TypeOK' /\ migrating' \in SUBSET Vms
    BY <1>1, <1>4, <2>2, <2>3 DEF Sound, TypeOK
  <2> QED
    BY <1>1, <1>2, <1>3, <1>4, <1>6, <2>1, <2>4
<1> QED
  BY <1>1, <1>5, <1>6

-----------------------------------------------------------------------------
(* Types hold.                                                              *)

LEMMA OtherSessions ==
    ASSUME Sound, NEW r \in Requests, reqs' = [reqs EXCEPT ![r] = reqs'[r]],
           reqs'[r] \in Request, TypeOK', migrating' \in SUBSET Vms,
           Session(r)',
           \A p \in Requests \ {r} : reqs[p].kind = "sync" => \A v \in reqs[p].new : vms'[v] = None,
           \A p \in Requests \ {r} : reqs[p].kind = "sync" /\ reqs'[r].kind = "sync"
               => reqs'[r].new \cap reqs[p].new = {}
    PROVE  Sound'
<1>1. \A p \in Requests \ {r} : reqs'[p] = reqs[p]
  BY DEF Sound
<1>2. ASSUME NEW p \in Requests PROVE Session(p)'
  <2>1. CASE p = r
    BY <2>1
  <2>2. CASE p # r
    <3>1. reqs'[p] = reqs[p] /\ Session(p)
      BY <1>1, <2>2 DEF Sound
    <3> QED
      BY <3>1, <2>2 DEF Session
  <2> QED
    BY <2>1, <2>2
<1>3. Fresh'
  BY <1>1 DEF Fresh, Sound
<1>4. reqs' \in [Requests -> Request]
  BY DEF Sound
<1> QED
  BY <1>2, <1>3, <1>4 DEF Sound

LEMMA QuietSound ==
    ASSUME Sound, NEW r \in Requests, QuietFacts(r)
    PROVE  Sound'
<1>1. \A p \in Requests : reqs[p].kind = "sync" => \A v \in reqs[p].new : vms'[v] = None
  <2> SUFFICES ASSUME NEW p \in Requests, reqs[p].kind = "sync", NEW v \in reqs[p].new
               PROVE  vms'[v] = None
    OBVIOUS
  <2>1. v \in Vms /\ vms[v] = None
    BY SyncRequest, SyncFields DEF Session
  <2> QED
    BY <2>1 DEF QuietFacts, Edit, Present
<1>2. Session(r)'
  BY DEF QuietFacts, Session
<1>3. /\ reqs' = [reqs EXCEPT ![r] = reqs'[r]] /\ reqs'[r] \in Request
      /\ TypeOK' /\ migrating' \in SUBSET Vms /\ (reqs'[r].kind = "sync" => reqs'[r].new = {})
  BY DEF QuietFacts
<1> QED
  BY <1>1, <1>2, <1>3, OtherSessions

LEMMA WorldSound ==
    ASSUME Sound, World
    PROVE  Sound'
<1>1. WorldFacts
  BY WorldStep
<1>2. ASSUME NEW p \in Requests PROVE Session(p)'
  <2>1. Session(p) /\ reqs'[p] = reqs[p]
    BY <1>1 DEF WorldFacts, Sound
  <2>2. ASSUME reqs[p].kind = "sync", NEW v \in reqs[p].new PROVE vms'[v] = None
    <3>1. v \in Vms /\ vms[v] = None
      BY <2>1, <2>2, SyncRequest, SyncFields DEF Session
    <3> QED
      BY <1>1, <3>1 DEF WorldFacts, Edit, Present
  <2> QED
    BY <2>1, <2>2 DEF Session
<1>3. Fresh'
  BY <1>1 DEF WorldFacts, Fresh, Sound
<1> QED
  BY <1>1, <1>2, <1>3 DEF WorldFacts, Sound

LEMMA SameTables ==
    ASSUME Sound, NEW r \in Requests, reqs' = [reqs EXCEPT ![r] = reqs'[r]],
           UNCHANGED <<hyps, vms, place, migrating, budget, stuck, overlapped>>
    PROVE  /\ TypeOK' /\ migrating' \in SUBSET Vms
           /\ \A p \in Requests : reqs[p].kind = "sync" => \A v \in reqs[p].new : vms'[v] = None
<1>1. DOMAIN reqs' = Requests
  BY DEF Sound
<1>2. \A p \in Requests : reqs[p].kind = "sync" => \A v \in reqs[p].new : vms[v] = None
  BY DEF Sound, Session
<1> QED
  BY <1>1, <1>2 DEF Sound, TypeOK, Present

LEMMA MatchSound ==
    ASSUME Sound, NEW r \in Requests, NEW data, NEW v \in Vms, SyncMatch(r, data, v)
    PROVE  Sound'
<1> DEFINE q == reqs[r]
           p == reqs'[r]
<1>1. /\ q \in SyncReq /\ q.at = "match" /\ reqs' = [reqs EXCEPT ![r] = p] /\ p \in SyncReq
      /\ p.at = "match" /\ p.new = q.new /\ p.flushed = q.flushed
      /\ \A w \in Vms \ {v} : p.base[w] = q.base[w] /\ p.now[w] = q.now[w]
      /\ p.base[v] = (IF q.base[v] = None /\ v \notin q.new THEN vms[v] ELSE q.base[v])
      /\ (q.base[v] = None /\ v \notin q.new => Present(v))
      /\ p.now[v] \in Vm
      /\ UNCHANGED <<hyps, vms, place, migrating, budget, stuck, overlapped>>
  BY MatchFacts
<1>2. q.kind = "sync" /\ p.kind = "sync" /\ p.new \in SUBSET Vms /\ p.flushed \in SUBSET Vms
  BY <1>1, SyncFields
<1>3. Session(r)
  BY DEF Sound
<1>4. p.now[v] # None /\ (v \notin q.new => p.base[v] # None)
  BY <1>1, InventoryAssumption DEF Present
<1> HIDE DEF p, q
<1>5. Session(r)'
  <2>1. ASSUME NEW w \in p.new
        PROVE  p.now[w] # None /\ p.base[w] = None /\ w \in p.flushed /\ vms'[w] = None
    <3>1. q.now[w] # None /\ q.base[w] = None /\ w \in q.flushed /\ vms[w] = None /\ w \in Vms
      BY <1>1, <1>2, <1>3, <2>1 DEF Session, q
    <3>2. CASE w = v
      BY <1>1, <1>4, <2>1, <3>1, <3>2
    <3>3. CASE w # v
      BY <1>1, <2>1, <3>1, <3>3
    <3> QED
      BY <3>2, <3>3
  <2>2. ASSUME NEW w \in Vms, p.base[w] # None PROVE p.now[w] # None
    <3>1. q.base[w] # None => q.now[w] # None
      BY <1>2, <1>3 DEF Session, q
    <3> QED
      BY <1>1, <1>4, <2>2, <3>1
  <2>3. ASSUME NEW w \in Vms, p.now[w] # None PROVE w \in p.new \/ p.base[w] # None
    <3>1. q.now[w] # None => w \in q.new \/ q.base[w] # None
      BY <1>1, <1>2, <1>3 DEF Session, q
    <3> QED
      BY <1>1, <1>4, <2>3, <3>1
  <2>4. ASSUME NEW w \in p.flushed PROVE p.now[w] # None
    <3>1. q.now[w] # None /\ w \in Vms
      BY <1>1, <1>2, <1>3, <2>4 DEF Session, q
    <3> QED
      BY <1>1, <1>4, <3>1
  <2> QED
    BY <1>1, <1>2, <2>1, <2>2, <2>3, <2>4 DEF Session, p
<1>6. \A s \in Requests \ {r} : reqs[s].kind = "sync" => p.new \cap reqs[s].new = {}
  BY <1>1, <1>2 DEF Sound, Fresh, q
<1>7. /\ reqs' = [reqs EXCEPT ![r] = reqs'[r]]
      /\ UNCHANGED <<hyps, vms, place, migrating, budget, stuck, overlapped>>
  BY <1>1 DEF p
<1>8. p \in Request
  BY <1>1, IdleRequest
<1> QED
  BY <1>5, <1>6, <1>7, <1>8, SameTables, OtherSessions DEF p

LEMMA InsertSound ==
    ASSUME Sound, NEW r \in Requests, NEW data, SyncInsert(r, data)
    PROVE  Sound'
<1> DEFINE q == reqs[r]
           p == reqs'[r]
           i == NewId
<1>1. /\ q \in SyncReq /\ q.at = "match" /\ reqs' = [reqs EXCEPT ![r] = p] /\ p \in SyncReq
      /\ p.at = "match" /\ p.new = q.new \cup {i}
      /\ p.flushed = q.flushed \cup {i} \cup {v \in Vms : q.now[v] # None}
      /\ i \in Vms /\ vms[i] = None
      /\ \A s \in Requests : reqs[s].kind = "sync" => i \notin reqs[s].new
      /\ p.base = q.base /\ q.base[i] = None
      /\ \A w \in Vms \ {i} : p.now[w] = q.now[w]
      /\ p.now[i] \in Vm
      /\ UNCHANGED <<hyps, vms, place, migrating, budget, stuck, overlapped>>
  BY InsertFacts
<1>2. q.kind = "sync" /\ p.kind = "sync" /\ q.new \in SUBSET Vms /\ q.flushed \in SUBSET Vms
  BY <1>1, SyncFields
<1>3. Session(r)
  BY DEF Sound
<1>4. p.now[i] # None
  BY <1>1, InventoryAssumption
<1> HIDE DEF p, q, i
<1>5. Session(r)'
  <2>1. ASSUME NEW w \in p.new
        PROVE  p.now[w] # None /\ p.base[w] = None /\ w \in p.flushed /\ vms'[w] = None
    <3>1. w # i => q.now[w] # None /\ q.base[w] = None /\ w \in q.flushed /\ vms[w] = None /\ w \in Vms
      BY <1>1, <1>2, <1>3, <2>1 DEF Session, q
    <3> QED
      BY <1>1, <1>4, <2>1, <3>1
  <2>2. ASSUME NEW w \in Vms, p.base[w] # None PROVE p.now[w] # None
    BY <1>1, <1>2, <1>3, <1>4, <2>2 DEF Session, q
  <2>3. ASSUME NEW w \in Vms, p.now[w] # None PROVE w \in p.new \/ p.base[w] # None
    BY <1>1, <1>2, <1>3, <1>4, <2>3 DEF Session, q
  <2>4. ASSUME NEW w \in p.flushed PROVE p.now[w] # None
    <3>1. w # i => w \in Vms /\ q.now[w] # None
      BY <1>1, <1>2, <1>3, <2>4 DEF Session, q
    <3> QED
      BY <1>1, <1>4, <3>1
  <2> QED
    BY <1>1, <1>2, <2>1, <2>2, <2>3, <2>4 DEF Session, p
<1>6. \A s \in Requests \ {r} : reqs[s].kind = "sync" => p.new \cap reqs[s].new = {}
  BY <1>1, <1>2 DEF Sound, Fresh, q
<1>7. /\ reqs' = [reqs EXCEPT ![r] = reqs'[r]]
      /\ UNCHANGED <<hyps, vms, place, migrating, budget, stuck, overlapped>>
  BY <1>1 DEF p
<1>8. p \in Request
  BY <1>1, IdleRequest
<1> QED
  BY <1>5, <1>6, <1>7, <1>8, SameTables, OtherSessions DEF p

LEMMA StaleSound ==
    ASSUME Sound, NEW r \in Requests, SyncStale(r)
    PROVE  Sound'
<1> DEFINE q == reqs[r]
           p == reqs'[r]
           S == Stale(r)
<1>1. /\ q \in SyncReq /\ q.at = "match" /\ reqs' = [reqs EXCEPT ![r] = p] /\ p \in SyncReq
      /\ p.at = "commit" /\ p.new = q.new /\ p.flushed = q.flushed
      /\ \A w \in Vms \ S : p.base[w] = q.base[w] /\ p.now[w] = q.now[w]
      /\ \A w \in S : /\ p.base[w] = (IF q.base[w] = None /\ w \notin q.new THEN vms[w] ELSE q.base[w])
                      /\ (q.base[w] = None /\ w \notin q.new => Present(w))
                      /\ p.now[w] \in Vm
      /\ UNCHANGED <<hyps, vms, place, migrating, budget, stuck, overlapped>>
  BY StaleFacts
<1>2. q.kind = "sync" /\ p.kind = "sync" /\ p.new \in SUBSET Vms /\ p.flushed \in SUBSET Vms
  BY <1>1, SyncFields
<1>3. Session(r)
  BY DEF Sound
<1>4. \A w \in S : p.now[w] # None /\ (w \notin q.new => p.base[w] # None)
  BY <1>1, InventoryAssumption DEF Present
<1> HIDE DEF p, q, S
<1>5. Session(r)'
  <2>1. ASSUME NEW w \in p.new
        PROVE  p.now[w] # None /\ p.base[w] = None /\ w \in p.flushed /\ vms'[w] = None
    <3>1. q.now[w] # None /\ q.base[w] = None /\ w \in q.flushed /\ vms[w] = None /\ w \in Vms
      BY <1>1, <1>2, <1>3, <2>1 DEF Session, q
    <3> QED
      BY <1>1, <1>4, <2>1, <3>1
  <2>2. ASSUME NEW w \in Vms, p.base[w] # None PROVE p.now[w] # None
    <3>1. q.base[w] # None => q.now[w] # None
      BY <1>2, <1>3 DEF Session, q
    <3> QED
      BY <1>1, <1>4, <2>2, <3>1
  <2>3. ASSUME NEW w \in Vms, p.now[w] # None PROVE w \in p.new \/ p.base[w] # None
    <3>1. q.now[w] # None => w \in q.new \/ q.base[w] # None
      BY <1>1, <1>2, <1>3 DEF Session, q
    <3> QED
      BY <1>1, <1>4, <2>3, <3>1
  <2>4. ASSUME NEW w \in p.flushed PROVE p.now[w] # None
    <3>1. q.now[w] # None /\ w \in Vms
      BY <1>1, <1>2, <1>3, <2>4 DEF Session, q
    <3> QED
      BY <1>1, <1>4, <3>1
  <2> QED
    BY <1>1, <1>2, <2>1, <2>2, <2>3, <2>4 DEF Session, p
<1>6. \A s \in Requests \ {r} : reqs[s].kind = "sync" => p.new \cap reqs[s].new = {}
  BY <1>1, <1>2 DEF Sound, Fresh, q
<1>7. /\ reqs' = [reqs EXCEPT ![r] = reqs'[r]]
      /\ UNCHANGED <<hyps, vms, place, migrating, budget, stuck, overlapped>>
  BY <1>1 DEF p
<1>8. p \in Request
  BY <1>1, IdleRequest
<1> QED
  BY <1>5, <1>6, <1>7, <1>8, SameTables, OtherSessions DEF p

LEMMA CommitSound ==
    ASSUME Sound, NEW r \in Requests, SyncCommit(r)
    PROVE  Sound'
<1>1. /\ reqs[r].kind = "sync" /\ reqs' = [reqs EXCEPT ![r] = reqs'[r]] /\ reqs'[r] \in SyncReq
      /\ reqs'[r].new = {} /\ Session(r)' /\ TypeOK' /\ migrating' \in SUBSET Vms
      /\ \A v \in Vms : RowCommit(r, v)
  BY CommitFacts
<1>2. ASSUME NEW p \in Requests \ {r}, reqs[p].kind = "sync", NEW v \in reqs[p].new
      PROVE  vms'[v] = None
  <2>1. v \in Vms /\ vms[v] = None
    BY <1>2, SyncRequest, SyncFields DEF Session
  <2>2. v \notin reqs[r].new
    BY <1>1, <1>2 DEF Sound, Fresh
  <2> QED
    BY <1>1, <2>1, <2>2 DEF RowCommit, Present
<1>3. reqs'[r] \in Request
  BY <1>1, IdleRequest
<1> QED
  BY <1>1, <1>2, <1>3, OtherSessions

LEMMA CreateSound ==
    ASSUME Sound, NEW r \in Requests, CreateVmCommit(r)
    PROVE  Sound'
<1>1. /\ reqs' = [reqs EXCEPT ![r] = reqs'[r]] /\ reqs'[r] = Idle
      /\ TypeOK' /\ migrating' \in SUBSET Vms
  BY CreateFacts
<1>2. ASSUME NEW p \in Requests \ {r}, reqs[p].kind = "sync", NEW v \in reqs[p].new
      PROVE  vms'[v] = None
  <2>1. v \in Vms /\ vms[v] = None
    BY <1>2, SyncRequest, SyncFields DEF Session
  <2>2. CASE vms' = vms
    BY <2>1, <2>2
  <2>3. CASE vms' # vms
    <3>1. PICK body \in VmBodies :
             /\ \A s \in Requests : reqs[s].kind = "sync" => NewId \notin reqs[s].new
             /\ vms' = [vms EXCEPT ![NewId] = BodyRow(body)]
      BY <2>3, CreateFacts
    <3> QED
      BY <1>2, <2>1, <3>1 DEF Sound, TypeOK
  <2> QED
    BY <2>2, <2>3
<1>3. Session(r)' /\ reqs'[r] \in Request /\ reqs'[r].kind # "sync"
  BY <1>1, IdleRequest DEF Session
<1> QED
  BY <1>1, <1>2, <1>3, OtherSessions

(* The steps of requests that match, insert, archive, commit or create.     *)
RowStep(r) ==
    \/ \E data \in reqs[r].left : SyncInsert(r, data) \/ \E v \in Vms : SyncMatch(r, data, v)
    \/ SyncStale(r) \/ SyncCommit(r) \/ CreateVmCommit(r)

(* A session that has read its source and not yet committed.                *)
Open(r) == reqs[r].kind = "sync" /\ reqs[r].at \in {"match", "commit"}

(* The steps that leave no session open begin or end a request, or count.   *)
ClosedStep(r) == QuietFacts(r) /\ overlapped' = overlapped /\ ~Open(r)'

LEMMA IdleClosed ==
    ASSUME Sound, NEW r \in Requests, QuietFacts(r), overlapped' = overlapped,
           reqs' = [reqs EXCEPT ![r] = Idle]
    PROVE  ClosedStep(r)
<1>1. reqs'[r].kind = "idle"
  BY ReqsSet, IdleRequest
<1> QED
  BY <1>1 DEF ClosedStep, Open

LEMMA TestClosed ==
    ASSUME Sound, NEW r \in Requests,
           \/ \E h \in Hyps : TestBegin(r, h)
           \/ \E listing \in BOOLEAN, reading \in Readings : TestEnd(r, listing, reading)
           \/ \E body \in VmBodies : CreateVmBegin(r, body)
    PROVE  ClosedStep(r)
<1>1. CASE \E h \in Hyps : TestBegin(r, h)
  <2>1. PICK h \in Hyps : TestBegin(r, h)
    BY <1>1
  <2>2. PICK q : q.kind = "test" /\ reqs' = [reqs EXCEPT ![r] = q] /\ overlapped' = overlapped
    <3>1. [kind |-> "test", hyp |-> h, type |-> hyps[h].type, status |-> hyps[h].status].kind = "test"
      OBVIOUS
    <3> QED
      BY <2>1, <3>1 DEF TestBegin
  <2>3. QuietFacts(r) /\ reqs'[r] = q
    BY <2>1, <2>2, TestFacts, ReqsSet
  <2> QED
    BY <2>2, <2>3 DEF ClosedStep, Open
<1>2. CASE \E listing \in BOOLEAN, reading \in Readings : TestEnd(r, listing, reading)
  <2>1. PICK listing \in BOOLEAN, reading \in Readings : TestEnd(r, listing, reading)
    BY <1>2
  <2>2. reqs' = [reqs EXCEPT ![r] = Idle] /\ overlapped' = overlapped
    BY <2>1 DEF TestEnd
  <2> QED
    BY <2>1, <2>2, TestFacts, IdleClosed
<1>3. CASE \E body \in VmBodies : CreateVmBegin(r, body)
  <2>1. PICK body \in VmBodies : CreateVmBegin(r, body)
    BY <1>3
  <2>2. PICK q : q.kind = "vm" /\ reqs' = [reqs EXCEPT ![r] = q] /\ overlapped' = overlapped
    <3>1. [kind |-> "vm", body |-> body].kind = "vm"
      OBVIOUS
    <3> QED
      BY <2>1, <3>1 DEF CreateVmBegin
  <2>3. QuietFacts(r) /\ reqs'[r] = q
    BY <2>1, <2>2, TestFacts, ReqsSet
  <2> QED
    BY <2>2, <2>3 DEF ClosedStep, Open
<1> QED
  BY <1>1, <1>2, <1>3

LEMMA CountClosed ==
    ASSUME Sound, NEW r \in Requests, SyncCount(r)
    PROVE  ClosedStep(r)
<1>1. reqs' = [reqs EXCEPT ![r].at = "end"] /\ reqs[r].kind = "sync" /\ overlapped' = overlapped
  BY DEF SyncCount, Sync
<1>2. reqs[r] \in SyncReq
  BY <1>1, SyncRequest
<1>3. reqs'[r].at = "end"
  BY <1>1, <1>2 DEF Sound, SyncReq
<1> QED
  BY <1>1, <1>3, CountFacts DEF ClosedStep, Open

LEMMA RequestClosed ==
    ASSUME Sound, NEW r \in Requests, RequestStep(r)
    PROVE  \/ ClosedStep(r)
           \/ \E listing \in BOOLEAN, reading \in Readings : SyncFetch(r, listing, reading)
           \/ RowStep(r)
<1>1. CASE SyncStep(r)
  <2>1. CASE \E h \in Hyps : SyncBegin(r, h)
    <3>1. PICK h \in Hyps : SyncBegin(r, h)
      BY <2>1
    <3>2. QuietFacts(r) /\ reqs'[r].at = "fetch"
      BY <3>1, SyncBeginFacts
    <3>3. overlapped' = overlapped
      BY <3>1 DEF SyncBegin
    <3> QED
      BY <3>2, <3>3 DEF ClosedStep, Open
  <2>2. CASE SyncFail(r) \/ SyncFlushFails(r) \/ SyncEnd(r) \/ SyncOrphaned(r)
    <3>1. reqs' = [reqs EXCEPT ![r] = Idle] /\ overlapped' = overlapped
      BY <2>2 DEF SyncFail, SyncFlushFails, SyncEnd, SyncOrphaned
    <3> QED
      BY <2>2, <3>1, SyncEndsFacts, IdleClosed
  <2>3. CASE SyncCount(r)
    BY <2>3, CountClosed
  <2>4. CASE \E data \in IF Sync(r, "match") THEN reqs[r].left ELSE {} :
               SyncInsert(r, data) \/ \E v \in Vms : SyncMatch(r, data, v)
    BY <2>4 DEF RowStep
  <2>5. CASE SyncStale(r) \/ SyncCommit(r)
    BY <2>5 DEF RowStep
  <2> QED
    BY <1>1, <2>1, <2>2, <2>3, <2>4, <2>5 DEF SyncStep
<1>2. CASE \/ \E h \in Hyps : TestBegin(r, h)
           \/ \E listing \in BOOLEAN, reading \in Readings : TestEnd(r, listing, reading)
           \/ \E body \in VmBodies : CreateVmBegin(r, body)
  BY <1>2, TestClosed
<1>3. CASE CreateVmCommit(r)
  BY <1>3 DEF RowStep
<1>4. CASE \E v \in Vms, force \in BOOLEAN : AnalyzeBegin(r, v, force)
  <2>1. PICK v \in Vms : \E force \in BOOLEAN : AnalyzeBegin(r, v, force)
    BY <1>4
  <2>2. QuietFacts(r) /\ overlapped' = overlapped /\ reqs'[r].kind = "analyze"
    BY <2>1, AnalyzeBeginFacts
  <2> QED
    BY <2>2 DEF ClosedStep, Open
<1>5. CASE (\E prediction \in Verdicts : AnalyzeCommit(r, prediction)) \/ AnalyzeFail(r)
  BY <1>5, AnalyzeEndFacts, IdleClosed
<1>6. CASE Crash(r)
  <2>1. reqs' = [reqs EXCEPT ![r] = Idle] /\ overlapped' = overlapped
    BY <1>6 DEF Crash
  <2> QED
    BY <1>6, <2>1, CrashFacts, IdleClosed
<1> QED
  BY <1>1, <1>2, <1>3, <1>4, <1>5, <1>6 DEF RequestStep

LEMMA StepSound ==
    ASSUME Sound, [Next]_vars
    PROVE  Sound'
<1>1. CASE World
  BY <1>1, WorldSound
<1>2. ASSUME NEW r \in Requests, RequestStep(r) PROVE Sound'
  <2>1. CASE ClosedStep(r)
    BY <2>1, QuietSound DEF ClosedStep
  <2>2. CASE \E listing \in BOOLEAN, reading \in Readings : SyncFetch(r, listing, reading)
    BY <2>2, FetchFacts, QuietSound
  <2>3. CASE RowStep(r)
    BY <2>3, MatchSound, InsertSound, StaleSound, CommitSound, CreateSound DEF RowStep
  <2> QED
    BY <1>2, <2>1, <2>2, <2>3, RequestClosed
<1> QED
  BY <1>1, <1>2, NextSplit

LEMMA InitSound == Init => Sound
<1> SUFFICES ASSUME Init PROVE Sound
  OBVIOUS
<1>1. TypeOK /\ migrating \subseteq Vms
  BY InventoryAssumption DEF Init, TypeOK
<1>2. reqs \in [Requests -> Request] /\ \A r \in Requests : reqs[r].kind = "idle"
  BY IdleRequest DEF Init
<1> QED
  BY <1>1, <1>2 DEF Sound, Session, Fresh

LEMMA AlwaysSound == Spec => []Sound
BY InitSound, StepSound, PTL DEF Spec

(* Whatever the requests, the sources and the clients do, the rows of the   *)
(* inventory stay well formed, though commits write them from objects read  *)
(* long before, and an active migration keeps its row.                      *)
THEOREM TypeCorrect == Spec => []TypeOK
<1>1. Sound => TypeOK
  BY DEF Sound
<1> QED
  BY <1>1, AlwaysSound, PTL

-----------------------------------------------------------------------------
(* Passing statuses.                                                        *)

(* The tables start without a synchronisation or an analysis under way.     *)
TidyStart ==
    /\ \A rows \in InitialVms, v \in Vms : rows[v] # None => rows[v].status # "analyzing"
    /\ \A table \in InitialHyps, h \in Hyps : table[h] # None => table[h].status # "discovering"

(* A session never makes a status ANALYZING out of another one.             *)
Calm == {"discovered", "archived"}
Pending(q) ==
    q.kind = "sync" /\ q.at \in {"match", "commit"} =>
        \A v \in Vms : /\ v \in q.new => q.now[v].status \in Calm
                       /\ q.base[v] # None /\ q.now[v].status # q.base[v].status
                              => q.now[v].status \in Calm

Owned == BusyHasOwner /\ \A r \in Requests : Pending(reqs[r])

Discovering(h) == Hypervisor(h) /\ hyps[h].status = "discovering"
Analyzing(v) == Present(v) /\ vms[v].status = "analyzing"

LEMMA DiscoveringKept ==
    ASSUME Sound, DiscoveringHasSync, stuck \subseteq stuck',
           \A h \in Hyps : Discovering(h)' =>
               Discovering(h) \/ \E r \in Requests : reqs'[r].kind = "sync" /\ reqs'[r].hyp = h,
           \A r \in Requests : reqs[r].kind = "sync" =>
               \/ reqs'[r].kind = "sync" /\ reqs'[r].hyp = reqs[r].hyp
               \/ reqs[r].hyp \in stuck'
               \/ \A h \in Hyps : h = reqs[r].hyp => ~Discovering(h)'
    PROVE  DiscoveringHasSync'
<1> SUFFICES ASSUME NEW h \in Hyps, Discovering(h)'
             PROVE  h \in stuck' \/ \E r \in Requests : reqs'[r].kind = "sync" /\ reqs'[r].hyp = h
  BY DEF DiscoveringHasSync, Discovering
<1>0. CASE \E r \in Requests : reqs'[r].kind = "sync" /\ reqs'[r].hyp = h
  BY <1>0
<1> SUFFICES ASSUME Discovering(h)
             PROVE  h \in stuck' \/ \E r \in Requests : reqs'[r].kind = "sync" /\ reqs'[r].hyp = h
  BY <1>0
<1>1. h \in stuck \/ \E r \in Requests : reqs[r].kind = "sync" /\ reqs[r].hyp = h
  BY DEF DiscoveringHasSync, Discovering
<1>2. CASE h \in stuck
  BY <1>2
<1>3. ASSUME NEW r \in Requests, reqs[r].kind = "sync", reqs[r].hyp = h
      PROVE  h \in stuck' \/ \E p \in Requests : reqs'[p].kind = "sync" /\ reqs'[p].hyp = h
  <2>1. ~\A g \in Hyps : g = reqs[r].hyp => ~Discovering(g)'
    BY <1>3
  <2>2. \/ reqs'[r].kind = "sync" /\ reqs'[r].hyp = reqs[r].hyp
        \/ reqs[r].hyp \in stuck'
    BY <1>3, <2>1
  <2> QED
    BY <1>3, <2>2
<1> QED
  BY <1>1, <1>2, <1>3

LEMMA AnalyzingKept ==
    ASSUME Sound, AnalyzingHasAnalyst, stuck \subseteq stuck',
           \A v \in Vms : Analyzing(v)' =>
               Analyzing(v) \/ \E r \in Requests : Analysis(r)' /\ reqs'[r].vm = v,
           \A r \in Requests : Analysis(r) =>
               \/ Analysis(r)' /\ reqs'[r].vm = reqs[r].vm
               \/ reqs[r].vm \in stuck'
               \/ \A v \in Vms : v = reqs[r].vm => ~Analyzing(v)'
    PROVE  AnalyzingHasAnalyst'
<1> SUFFICES ASSUME NEW v \in Vms, Analyzing(v)'
             PROVE  v \in stuck' \/ \E r \in Requests : Analysis(r)' /\ reqs'[r].vm = v
  BY DEF AnalyzingHasAnalyst, Analyzing
<1>1. CASE \E r \in Requests : Analysis(r)' /\ reqs'[r].vm = v
  BY <1>1
<1>2. CASE Analyzing(v)
  <2>1. v \in stuck \/ \E r \in Requests : Analysis(r) /\ reqs[r].vm = v
    BY <1>2 DEF AnalyzingHasAnalyst, Analyzing
  <2>2. CASE v \in stuck
    BY <2>2
  <2>3. ASSUME NEW r \in Requests, Analysis(r), reqs[r].vm = v
        PROVE  v \in stuck' \/ \E p \in Requests : Analysis(p)' /\ reqs'[p].vm = v
    <3>1. ~\A w \in Vms : w = reqs[r].vm => ~Analyzing(w)'
      BY <2>3
    <3>2. \/ Analysis(r)' /\ reqs'[r].vm = reqs[r].vm
          \/ reqs[r].vm \in stuck'
      BY <2>3, <3>1
    <3> QED
      BY <2>3, <3>2
  <2> QED
    BY <2>1, <2>2, <2>3
<1> QED
  BY <1>1, <1>2

(* A step of one request keeps the owners, when what it leaves behind is not*)
(* passing.                                                                 *)
LEMMA OwnedTurn ==
    ASSUME Sound, Owned, NEW r \in Requests, reqs' = [reqs EXCEPT ![r] = reqs'[r]],
           stuck \subseteq stuck',
           \A h \in Hyps : Discovering(h)' =>
               Discovering(h) \/ (reqs'[r].kind = "sync" /\ reqs'[r].hyp = h),
           \A v \in Vms : Analyzing(v)' => Analyzing(v) \/ (Analysis(r)' /\ reqs'[r].vm = v),
           reqs[r].kind = "sync" =>
               \/ reqs'[r].kind = "sync" /\ reqs'[r].hyp = reqs[r].hyp
               \/ reqs[r].hyp \in stuck'
               \/ \A h \in Hyps : h = reqs[r].hyp => ~Discovering(h)',
           Analysis(r) =>
               \/ Analysis(r)' /\ reqs'[r].vm = reqs[r].vm
               \/ reqs[r].vm \in stuck'
               \/ \A v \in Vms : v = reqs[r].vm => ~Analyzing(v)',
           Pending(reqs'[r])
    PROVE  Owned'
<1>1. \A p \in Requests \ {r} : reqs'[p] = reqs[p]
  BY DEF Sound
<1>2. DiscoveringHasSync'
  <2>1. \A p \in Requests : reqs[p].kind = "sync" =>
            \/ reqs'[p].kind = "sync" /\ reqs'[p].hyp = reqs[p].hyp
            \/ reqs[p].hyp \in stuck'
            \/ \A h \in Hyps : h = reqs[p].hyp => ~Discovering(h)'
    BY <1>1
  <2>2. \A h \in Hyps : Discovering(h)' =>
            Discovering(h) \/ \E p \in Requests : reqs'[p].kind = "sync" /\ reqs'[p].hyp = h
    OBVIOUS
  <2> QED
    BY <2>1, <2>2, DiscoveringKept DEF Owned, BusyHasOwner
<1>3. AnalyzingHasAnalyst'
  <2>1. \A p \in Requests : Analysis(p) =>
            \/ Analysis(p)' /\ reqs'[p].vm = reqs[p].vm
            \/ reqs[p].vm \in stuck'
            \/ \A v \in Vms : v = reqs[p].vm => ~Analyzing(v)'
    BY <1>1 DEF Analysis
  <2>2. \A v \in Vms : Analyzing(v)' =>
            Analyzing(v) \/ \E p \in Requests : Analysis(p)' /\ reqs'[p].vm = v
    OBVIOUS
  <2> QED
    BY <2>1, <2>2, AnalyzingKept DEF Owned, BusyHasOwner
<1>4. \A p \in Requests : Pending(reqs'[p])
  BY <1>1 DEF Owned
<1> QED
  BY <1>2, <1>3, <1>4 DEF Owned, BusyHasOwner

LEMMA OwnedWorld ==
    ASSUME Sound, Owned, World
    PROVE  Owned'
<1>1. reqs' = reqs /\ stuck' = stuck
  BY WorldStep DEF WorldFacts
<1>2. ASSUME NEW h \in Hyps, Discovering(h)' PROVE Discovering(h)
  <2>1. CASE \E t \in Tenants, name \in HypNames, type \in Types : CreateHypervisor(t, name, type)
    <3>1. PICK t \in Tenants, name \in HypNames, type \in Types : CreateHypervisor(t, name, type)
      BY <2>1
    <3> DEFINE i == CHOOSE g \in Hyps : hyps[g] = None
    <3>2. /\ i \in Hyps
          /\ hyps' = [hyps EXCEPT ![i] = [tenant |-> t, name |-> name, type |-> type,
                                          status |-> "unknown", count |-> 0]]
      BY <3>1 DEF CreateHypervisor
    <3> HIDE DEF i
    <3>3. h # i
      BY <1>2, <3>2 DEF Discovering, Sound, TypeOK
    <3> QED
      BY <1>2, <3>2, <3>3 DEF Discovering, Hypervisor, Sound, TypeOK
  <2>2. CASE \E g \in Hyps : DeleteHypervisor(g)
    <3>1. PICK g \in Hyps : hyps' = [hyps EXCEPT ![g] = Gone]
      BY <2>2 DEF DeleteHypervisor
    <3> QED
      BY <1>2, <3>1 DEF Discovering, Hypervisor, Sound, TypeOK
  <2>3. CASE \E g \in Hyps, name \in HypNames : UpdateHypervisor(g, name)
    <3>1. PICK g \in Hyps, name \in HypNames :
             Hypervisor(g) /\ hyps' = [hyps EXCEPT ![g].name = name]
      BY <2>3 DEF UpdateHypervisor
    <3>2. hyps[g] \in Hyp
      BY <3>1, PresentHyp DEF Sound
    <3>3. CASE h = g
      BY <1>2, <3>1, <3>2, <3>3 DEF Discovering, Hypervisor, Sound, TypeOK, Hyp
    <3>4. CASE h # g
      BY <1>2, <3>1, <3>4 DEF Discovering, Hypervisor, Sound, TypeOK
    <3> QED
      BY <3>3, <3>4
  <2>4. CASE hyps' = hyps
    BY <1>2, <2>4 DEF Discovering, Hypervisor
  <2> QED
    BY <2>1, <2>2, <2>3, <2>4 DEF World, DeleteVm, MigrationBegins, MigrationEnds, UpdateVm,
       MachinesMove, vars
<1>3. ASSUME NEW v \in Vms, Analyzing(v)' PROVE Analyzing(v)
  <2>1. CASE \E h \in Hyps : DeleteHypervisor(h)
    <3>1. \/ vms'[v] = vms[v]
          \/ Present(v) /\ vms'[v] = [vms[v] EXCEPT !.hyp = None]
      BY <2>1, DeleteHypervisorWorld
    <3>2. Present(v) => vms[v] \in Vm
      BY PresentRow DEF Sound
    <3> QED
      BY <1>3, <3>1, <3>2 DEF Analyzing, Present, Vm
  <2>2. CASE \E w \in Vms : DeleteVm(w)
    <3>1. PICK w \in Vms : vms' = [vms EXCEPT ![w] = Gone]
      BY <2>2 DEF DeleteVm
    <3> QED
      BY <1>3, <3>1 DEF Analyzing, Present, Sound, TypeOK
  <2>3. CASE \E w \in Vms : \E done \in BOOLEAN : MigrationEnds(w, done)
    <3>1. PICK w \in Vms : w \in migrating /\ (vms' = vms \/ vms' = [vms EXCEPT ![w].status = "migrated"])
      BY <2>3 DEF MigrationEnds
    <3>2. vms[w] \in Vm
      BY <3>1, PresentRow DEF Sound, TypeOK
    <3> QED
      BY <1>3, <3>1, <3>2 DEF Analyzing, Present, Sound, TypeOK, Vm
  <2>4. CASE \E w \in Vms : \E body \in VmBodies : UpdateVm(w, body)
    <3>1. PICK w \in Vms, body \in VmBodies :
             Present(w) /\ vms' = [vms EXCEPT ![w].name = body.name, ![w].facts = body.facts]
      BY <2>4 DEF UpdateVm
    <3>2. vms[w] \in Vm
      BY <3>1, PresentRow DEF Sound
    <3> QED
      BY <1>3, <3>1, <3>2 DEF Analyzing, Present, Sound, TypeOK, Vm
  <2>5. CASE vms' = vms
    BY <1>3, <2>5 DEF Analyzing, Present
  <2> QED
    BY <2>1, <2>2, <2>3, <2>4, <2>5 DEF World, CreateHypervisor, UpdateHypervisor, MigrationBegins,
       MachinesMove, vars
<1>4. DiscoveringHasSync'
  BY <1>1, <1>2, DiscoveringKept DEF Owned, BusyHasOwner
<1>5. AnalyzingHasAnalyst'
  BY <1>1, <1>3, AnalyzingKept DEF Owned, BusyHasOwner, Analysis
<1> QED
  BY <1>1, <1>4, <1>5 DEF Owned, BusyHasOwner

(* One status is set.                                                       *)
LEMMA HypStatusSet ==
    ASSUME Sound, NEW g \in Hyps, Hypervisor(g), NEW s \in HypStatuses,
           hyps' = [hyps EXCEPT ![g].status = s]
    PROVE  /\ \A h \in Hyps \ {g} : Discovering(h)' => Discovering(h)
           /\ s # "discovering" => ~Discovering(g)'
<1>1. hyps[g] \in Hyp
  BY PresentHyp DEF Sound
<1> QED
  BY <1>1 DEF Discovering, Hypervisor, Sound, TypeOK, Hyp

LEMMA SameHyps ==
    ASSUME hyps' = hyps
    PROVE  \A h \in Hyps : Discovering(h)' => Discovering(h)
BY DEF Discovering, Hypervisor

LEMMA SameVms ==
    ASSUME vms' = vms
    PROVE  \A v \in Vms : Analyzing(v)' => Analyzing(v)
BY DEF Analyzing, Present

LEMMA OwnedBegin ==
    ASSUME Sound, Owned, NEW r \in Requests, NEW h \in Hyps, SyncBegin(r, h)
    PROVE  Owned'
<1>1. /\ reqs' = [reqs EXCEPT ![r] = reqs'[r]] /\ reqs'[r].kind = "sync" /\ reqs'[r].at = "fetch"
      /\ reqs[r].kind = "idle" /\ reqs'[r].hyp = h /\ Hypervisor(h)
  BY SyncBeginFacts, IdleRequest DEF QuietFacts
<1>2. hyps' = [hyps EXCEPT ![h].status = "discovering"] /\ vms' = vms /\ stuck' = stuck
  BY DEF SyncBegin
<1>3. \A g \in Hyps : Discovering(g)' => Discovering(g) \/ (reqs'[r].kind = "sync" /\ reqs'[r].hyp = g)
  BY <1>1, <1>2, HypStatusSet DEF HypStatuses
<1>4. Pending(reqs'[r])
  BY <1>1 DEF Pending
<1>5. \A v \in Vms : Analyzing(v)' => Analyzing(v) \/ (Analysis(r)' /\ reqs'[r].vm = v)
  BY <1>2, SameVms
<1>6. ~Analysis(r) /\ reqs[r].kind # "sync"
  BY <1>1 DEF Analysis
<1> QED
  BY <1>1, <1>2, <1>3, <1>4, <1>5, <1>6, OwnedTurn

(* A step within a session.                                                 *)
LEMMA OwnedSession ==
    ASSUME Sound, Owned, NEW r \in Requests, reqs' = [reqs EXCEPT ![r] = reqs'[r]],
           reqs[r].kind = "sync", reqs'[r].kind = "sync", reqs'[r].hyp = reqs[r].hyp,
           \A h \in Hyps : Discovering(h)' => Discovering(h),
           \A v \in Vms : Analyzing(v)' => Analyzing(v), stuck' = stuck, Pending(reqs'[r])
    PROVE  Owned'
<1>1. ~Analysis(r)
  BY DEF Analysis
<1> QED
  BY <1>1, OwnedTurn

LEMMA OwnedSyncEnds ==
    ASSUME Sound, Owned, NEW r \in Requests,
           SyncFail(r) \/ SyncFlushFails(r) \/ SyncEnd(r) \/ SyncOrphaned(r)
    PROVE  Owned'
<1>1. reqs[r].kind = "sync" /\ reqs' = [reqs EXCEPT ![r] = Idle] /\ vms' = vms
  BY DEF SyncFail, SyncFlushFails, SyncEnd, SyncOrphaned, Sync
<1>2. reqs'[r] = Idle /\ reqs' = [reqs EXCEPT ![r] = reqs'[r]] /\ reqs'[r].kind = "idle"
  BY <1>1, ReqsSet, IdleRequest
<1>3. reqs[r].hyp \in Hyps
  BY <1>1, SyncRequest, SyncFields
<1>4. Pending(reqs'[r]) /\ ~Analysis(r)
  BY <1>1, <1>2 DEF Pending, Analysis
<1>5. stuck \subseteq stuck'
  BY DEF SyncFail, SyncFlushFails, SyncEnd, SyncOrphaned
<1> DEFINE h == reqs[r].hyp
           Over == h \in stuck' \/ \A g \in Hyps : g = h => ~Discovering(g)'
<1>6. Over /\ \A g \in Hyps : Discovering(g)' => Discovering(g)
  <2>1. CASE (SyncFail(r) \/ SyncEnd(r)) /\ Hypervisor(h)
    <3>1. PICK s \in {"error", "active"} : hyps' = [hyps EXCEPT ![h].status = s]
      BY <2>1 DEF SyncFail, SyncEnd
    <3>2. s \in HypStatuses /\ s # "discovering"
      BY DEF HypStatuses
    <3>3. /\ \A g \in Hyps \ {h} : Discovering(g)' => Discovering(g)
          /\ \A g \in Hyps : g = h => ~Discovering(g)'
      BY <1>3, <2>1, <3>1, <3>2, HypStatusSet
    <3> QED
      BY <1>3, <3>3
  <2>2. CASE (SyncFail(r) \/ SyncOrphaned(r)) /\ ~Hypervisor(h)
    BY <2>2 DEF SyncFail, SyncOrphaned, Discovering, Hypervisor
  <2>3. CASE SyncFlushFails(r)
    BY <2>3, SameHyps DEF SyncFlushFails
  <2> QED
    BY <2>1, <2>2, <2>3 DEF SyncEnd, SyncOrphaned
<1>7. \A v \in Vms : Analyzing(v)' => Analyzing(v)
  BY <1>1, SameVms
<1> HIDE DEF Over
<1>8. \/ reqs[r].hyp \in stuck'
      \/ \A g \in Hyps : g = reqs[r].hyp => ~Discovering(g)'
  BY <1>6 DEF Over
<1> QED
  BY <1>1, <1>2, <1>4, <1>5, <1>6, <1>7, <1>8, OwnedTurn

LEMMA OwnedMatch ==
    ASSUME Sound, Owned, NEW r \in Requests, NEW data, NEW v \in Vms, SyncMatch(r, data, v)
    PROVE  Owned'
<1> DEFINE q == reqs[r]
           p == reqs'[r]
<1>1. /\ q \in SyncReq /\ q.at = "match" /\ reqs' = [reqs EXCEPT ![r] = p] /\ p \in SyncReq
      /\ p.at = "match" /\ p.hyp = q.hyp /\ p.new = q.new
      /\ \A w \in Vms \ {v} : p.base[w] = q.base[w] /\ p.now[w] = q.now[w]
      /\ p.base[v] = (IF q.base[v] = None /\ v \notin q.new THEN vms[v] ELSE q.base[v])
      /\ (q.base[v] = None /\ v \notin q.new => Loaded(r, v) = vms[v])
      /\ (q.base[v] # None \/ v \in q.new => Loaded(r, v) = q.now[v])
      /\ p.now[v].status = IF Loaded(r, v).status = "archived" THEN "discovered"
                           ELSE Loaded(r, v).status
      /\ UNCHANGED <<hyps, vms, stuck>>
  BY MatchFacts
<1>2. q.kind = "sync" /\ p.kind = "sync"
  BY <1>1, SyncFields
<1>3. Pending(q) /\ Session(r)
  BY DEF Owned, Sound
<1>4. q.base[v] # None => v \notin q.new
  BY <1>2, <1>3 DEF Session
<1> HIDE DEF p, q
<1>5. Pending(p)
  <2> SUFFICES ASSUME NEW w \in Vms
               PROVE  /\ w \in p.new => p.now[w].status \in Calm
                      /\ p.base[w] # None /\ p.now[w].status # p.base[w].status
                            => p.now[w].status \in Calm
    BY DEF Pending
  <2>1. /\ w \in q.new => q.now[w].status \in Calm
        /\ q.base[w] # None /\ q.now[w].status # q.base[w].status => q.now[w].status \in Calm
    BY <1>1, <1>2, <1>3 DEF Pending
  <2>2. CASE w # v
    BY <1>1, <2>1, <2>2
  <2>3. CASE w = v /\ q.base[v] = None /\ v \notin q.new
    BY <1>1, <2>3 DEF Calm
  <2>4. CASE w = v /\ (q.base[v] # None \/ v \in q.new)
    BY <1>1, <1>4, <2>1, <2>4 DEF Calm
  <2> QED
    BY <2>2, <2>3, <2>4
<1> QED
  BY <1>1, <1>2, <1>5, SameHyps, SameVms, OwnedSession DEF p, q

LEMMA OwnedInsert ==
    ASSUME Sound, Owned, NEW r \in Requests, NEW data, SyncInsert(r, data)
    PROVE  Owned'
<1> DEFINE q == reqs[r]
           p == reqs'[r]
           i == NewId
<1>1. /\ q \in SyncReq /\ q.at = "match" /\ reqs' = [reqs EXCEPT ![r] = p] /\ p \in SyncReq
      /\ p.at = "match" /\ p.hyp = q.hyp /\ p.new = q.new \cup {i} /\ p.base = q.base
      /\ \A w \in Vms \ {i} : p.now[w] = q.now[w]
      /\ p.now[i] = Created(q, data) /\ q.base[i] = None /\ data \in VmData
      /\ UNCHANGED <<hyps, vms, stuck>>
  BY InsertFacts
<1>2. q.kind = "sync" /\ p.kind = "sync"
  BY <1>1, SyncFields
<1>3. Pending(q)
  BY DEF Owned
<1>4. p.now[i].status = "discovered"
  BY <1>1, CreatedType
<1> HIDE DEF p, q, i
<1>5. Pending(p)
  <2> SUFFICES ASSUME NEW w \in Vms
               PROVE  /\ w \in p.new => p.now[w].status \in Calm
                      /\ p.base[w] # None /\ p.now[w].status # p.base[w].status
                            => p.now[w].status \in Calm
    BY DEF Pending
  <2>1. /\ w \in q.new => q.now[w].status \in Calm
        /\ q.base[w] # None /\ q.now[w].status # q.base[w].status => q.now[w].status \in Calm
    BY <1>1, <1>2, <1>3 DEF Pending
  <2> QED
    BY <1>1, <1>4, <2>1 DEF Calm
<1> QED
  BY <1>1, <1>2, <1>5, SameHyps, SameVms, OwnedSession DEF p, q

LEMMA OwnedStale ==
    ASSUME Sound, Owned, NEW r \in Requests, SyncStale(r)
    PROVE  Owned'
<1> DEFINE q == reqs[r]
           p == reqs'[r]
           S == Stale(r)
<1>1. /\ q \in SyncReq /\ q.at = "match" /\ reqs' = [reqs EXCEPT ![r] = p] /\ p \in SyncReq
      /\ p.at = "commit" /\ p.hyp = q.hyp /\ p.new = q.new
      /\ \A w \in Vms \ S : p.base[w] = q.base[w] /\ p.now[w] = q.now[w]
      /\ \A w \in S : Loaded(r, w) \in Vm /\ p.now[w] = [Loaded(r, w) EXCEPT !.status = "archived"]
      /\ UNCHANGED <<hyps, vms, stuck>>
  BY StaleFacts
<1>2. q.kind = "sync" /\ p.kind = "sync"
  BY <1>1, SyncFields
<1>3. Pending(q)
  BY DEF Owned
<1>4. \A w \in S : p.now[w].status = "archived"
  BY <1>1 DEF Vm
<1> HIDE DEF p, q, S
<1>5. Pending(p)
  <2> SUFFICES ASSUME NEW w \in Vms
               PROVE  /\ w \in p.new => p.now[w].status \in Calm
                      /\ p.base[w] # None /\ p.now[w].status # p.base[w].status
                            => p.now[w].status \in Calm
    BY DEF Pending
  <2>1. /\ w \in q.new => q.now[w].status \in Calm
        /\ q.base[w] # None /\ q.now[w].status # q.base[w].status => q.now[w].status \in Calm
    BY <1>1, <1>2, <1>3 DEF Pending
  <2>2. CASE w \in S
    BY <1>4, <2>2 DEF Calm
  <2>3. CASE w \notin S
    BY <1>1, <2>1, <2>3
  <2> QED
    BY <2>2, <2>3
<1> QED
  BY <1>1, <1>2, <1>5, SameHyps, SameVms, OwnedSession DEF p, q

LEMMA OwnedFetch ==
    ASSUME Sound, Owned, NEW r \in Requests, NEW listing \in BOOLEAN, NEW reading \in Readings,
           SyncFetch(r, listing, reading)
    PROVE  Owned'
<1>1. /\ reqs' = [reqs EXCEPT ![r] = reqs'[r]] /\ reqs[r].kind = "sync" /\ reqs'[r].kind = "sync"
      /\ reqs'[r].hyp = reqs[r].hyp /\ reqs'[r].new = {} /\ reqs'[r].base = reqs[r].base
      /\ \A v \in Vms : reqs[r].base[v] = None
      /\ UNCHANGED <<hyps, vms, stuck>>
  BY FetchFacts DEF QuietFacts
<1>2. Pending(reqs'[r])
  BY <1>1 DEF Pending
<1> QED
  BY <1>1, <1>2, SameHyps, SameVms, OwnedSession

LEMMA OwnedCommit ==
    ASSUME Sound, Owned, NEW r \in Requests, SyncCommit(r)
    PROVE  Owned'
<1>1. /\ reqs' = [reqs EXCEPT ![r] = reqs'[r]] /\ reqs[r].kind = "sync" /\ reqs'[r].kind = "sync"
      /\ reqs[r].at = "commit" /\ reqs'[r].at = "count" /\ reqs'[r].hyp = reqs[r].hyp
      /\ \A v \in Vms : RowCommit(r, v)
      /\ UNCHANGED <<hyps, stuck>>
  BY CommitFacts
<1>2. Pending(reqs[r])
  BY DEF Owned
<1>3. ASSUME NEW v \in Vms, Analyzing(v)' PROVE Analyzing(v)
  <2> DEFINE q == reqs[r]
  <2>1. vms'[v].status = "analyzing" /\ RowCommit(r, v)
    BY <1>1, <1>3 DEF Analyzing
  <2>2. /\ v \in q.new => q.now[v].status \in Calm
        /\ q.base[v] # None /\ q.now[v].status # q.base[v].status => q.now[v].status \in Calm
    BY <1>1, <1>2 DEF Pending
  <2>3. CASE v \in q.new /\ vms'[v] = q.now[v]
    BY <2>1, <2>2, <2>3 DEF Calm
  <2>4. CASE /\ q.base[v] \in Vm /\ q.now[v] \in Vm /\ Present(v) /\ vms[v] \in Vm
             /\ vms'[v] = Written(vms[v], q.base[v], q.now[v])
    <3>1. vms'[v].status = IF q.now[v].status # q.base[v].status THEN q.now[v].status
                           ELSE vms[v].status
      BY <2>4, WrittenType
    <3>2. q.base[v] # None
      BY <2>4, InventoryAssumption
    <3> QED
      BY <2>1, <2>2, <2>4, <3>1, <3>2 DEF Analyzing, Calm
  <2>5. CASE vms'[v] = vms[v]
    BY <1>3, <2>5 DEF Analyzing, Present
  <2> QED
    BY <2>1, <2>3, <2>4, <2>5 DEF RowCommit
<1>4. Pending(reqs'[r])
  BY <1>1 DEF Pending
<1> QED
  BY <1>1, <1>3, <1>4, SameHyps, OwnedSession

LEMMA OwnedCount ==
    ASSUME Sound, Owned, NEW r \in Requests, SyncCount(r)
    PROVE  Owned'
<1> DEFINE h == reqs[r].hyp
<1>1. /\ reqs[r].kind = "sync" /\ Hypervisor(h) /\ reqs' = [reqs EXCEPT ![r].at = "end"]
      /\ \E n : hyps' = [hyps EXCEPT ![h].count = n]
      /\ UNCHANGED <<vms, stuck>>
  BY DEF SyncCount, Sync
<1>2. reqs[r] \in SyncReq /\ h \in Hyps
  BY <1>1, SyncRequest, SyncFields
<1>3. /\ reqs' = [reqs EXCEPT ![r] = reqs'[r]] /\ reqs'[r].kind = "sync" /\ reqs'[r].at = "end"
      /\ reqs'[r].hyp = h
  BY <1>1, <1>2 DEF Sound, SyncReq
<1>4. Pending(reqs'[r])
  BY <1>3 DEF Pending
<1>5. ASSUME NEW g \in Hyps, Discovering(g)' PROVE Discovering(g)
  <2>1. hyps[h] \in Hyp
    BY <1>1, <1>2, PresentHyp DEF Sound
  <2>2. PICK n : hyps' = [hyps EXCEPT ![h].count = n]
    BY <1>1
  <2> QED
    BY <1>1, <1>2, <1>5, <2>1, <2>2 DEF Discovering, Hypervisor, Sound, TypeOK, Hyp
<1> QED
  BY <1>1, <1>3, <1>4, <1>5, SameVms, OwnedSession

(* A request of another kind.                                               *)
LEMMA OwnedOther ==
    ASSUME Sound, Owned, NEW r \in Requests, reqs' = [reqs EXCEPT ![r] = reqs'[r]],
           reqs[r].kind # "sync", reqs'[r].kind # "sync", ~Analysis(r),
           \A h \in Hyps : Discovering(h)' => Discovering(h),
           \A v \in Vms : Analyzing(v)' => Analyzing(v) \/ (Analysis(r)' /\ reqs'[r].vm = v),
           stuck' = stuck
    PROVE  Owned'
<1>1. Pending(reqs'[r])
  BY DEF Pending
<1> QED
  BY <1>1, OwnedTurn

LEMMA OwnedTest ==
    ASSUME Sound, Owned, NEW r \in Requests,
           \/ \E h \in Hyps : TestBegin(r, h)
           \/ \E listing \in BOOLEAN, reading \in Readings : TestEnd(r, listing, reading)
           \/ \E body \in VmBodies : CreateVmBegin(r, body)
    PROVE  Owned'
<1>1. CASE \E h \in Hyps : TestBegin(r, h)
  <2>1. PICK h \in Hyps : TestBegin(r, h)
    BY <1>1
  <2>2. PICK q : q.kind = "test" /\ reqs' = [reqs EXCEPT ![r] = q]
    <3>1. [kind |-> "test", hyp |-> h, type |-> hyps[h].type, status |-> hyps[h].status].kind = "test"
      OBVIOUS
    <3> QED
      BY <2>1, <3>1 DEF TestBegin
  <2>3. reqs[r].kind = "idle" /\ UNCHANGED <<hyps, vms, stuck>>
    BY <2>1, IdleRequest DEF TestBegin, Ready
  <2>4. reqs'[r] = q /\ reqs' = [reqs EXCEPT ![r] = reqs'[r]]
    BY <2>2, ReqsSet
  <2>5. ~Analysis(r) /\ reqs[r].kind # "sync" /\ reqs'[r].kind # "sync"
    BY <2>2, <2>3, <2>4 DEF Analysis
  <2> QED
    BY <2>3, <2>4, <2>5, SameHyps, SameVms, OwnedOther
<1>2. CASE \E listing \in BOOLEAN, reading \in Readings : TestEnd(r, listing, reading)
  <2> DEFINE h == reqs[r].hyp
  <2>1. PICK s \in {"unreachable", "active"} :
           /\ reqs[r].kind = "test" /\ reqs' = [reqs EXCEPT ![r] = Idle]
           /\ \/ hyps' = hyps
              \/ Hypervisor(h) /\ hyps' = [hyps EXCEPT ![h].status = s]
           /\ UNCHANGED <<vms, stuck>>
    BY <1>2 DEF TestEnd
  <2>2. h \in Hyps
    BY <2>1, RequestKinds DEF Sound, TestReq
  <2>3. \A g \in Hyps : Discovering(g)' => Discovering(g)
    <3>1. CASE hyps' = hyps
      BY <3>1, SameHyps
    <3>2. CASE Hypervisor(h) /\ hyps' = [hyps EXCEPT ![h].status = s]
      <4>1. s \in HypStatuses /\ s # "discovering"
        BY DEF HypStatuses
      <4>2. (\A g \in Hyps \ {h} : Discovering(g)' => Discovering(g))
            /\ \A g \in Hyps : g = h => ~Discovering(g)'
        BY <2>2, <3>2, <4>1, HypStatusSet
      <4> QED
        BY <4>2
    <3> QED
      BY <2>1, <3>1, <3>2
  <2>4. reqs'[r] = Idle /\ reqs' = [reqs EXCEPT ![r] = reqs'[r]] /\ reqs'[r].kind = "idle"
    BY <2>1, ReqsSet, IdleRequest
  <2>5. ~Analysis(r) /\ reqs[r].kind # "sync" /\ reqs'[r].kind # "sync"
    BY <2>1, <2>4 DEF Analysis
  <2> QED
    BY <2>1, <2>3, <2>4, <2>5, SameVms, OwnedOther
<1>3. CASE \E body \in VmBodies : CreateVmBegin(r, body)
  <2>1. PICK body \in VmBodies : CreateVmBegin(r, body)
    BY <1>3
  <2>2. PICK q : q.kind = "vm" /\ reqs' = [reqs EXCEPT ![r] = q]
    <3>1. [kind |-> "vm", body |-> body].kind = "vm"
      OBVIOUS
    <3> QED
      BY <2>1, <3>1 DEF CreateVmBegin
  <2>3. reqs[r].kind = "idle" /\ UNCHANGED <<hyps, vms, stuck>>
    BY <2>1, IdleRequest DEF CreateVmBegin, Ready
  <2>4. reqs'[r] = q /\ reqs' = [reqs EXCEPT ![r] = reqs'[r]]
    BY <2>2, ReqsSet
  <2>5. ~Analysis(r) /\ reqs[r].kind # "sync" /\ reqs'[r].kind # "sync"
    BY <2>2, <2>3, <2>4 DEF Analysis
  <2> QED
    BY <2>3, <2>4, <2>5, SameHyps, SameVms, OwnedOther
<1> QED
  BY <1>1, <1>2, <1>3

LEMMA OwnedCreate ==
    ASSUME Sound, Owned, NEW r \in Requests, CreateVmCommit(r)
    PROVE  Owned'
<1>1. /\ reqs' = [reqs EXCEPT ![r] = Idle] /\ reqs'[r] = Idle /\ reqs[r].kind = "vm"
      /\ UNCHANGED <<hyps, stuck>>
  BY CreateFacts
<1>2. ASSUME NEW v \in Vms, Analyzing(v)' PROVE Analyzing(v)
  <2>1. CASE vms' = vms
    BY <1>2, <2>1, SameVms
  <2>2. CASE vms' # vms
    <3>1. PICK body \in VmBodies : NewId \in Vms /\ vms' = [vms EXCEPT ![NewId] = BodyRow(body)]
      BY <2>2, CreateFacts
    <3>2. BodyRow(body).status = "discovered"
      BY DEF BodyRow
    <3>3. v # NewId
      BY <1>2, <3>1, <3>2 DEF Analyzing, Sound, TypeOK
    <3> QED
      BY <1>2, <3>1, <3>3 DEF Analyzing, Present, Sound, TypeOK
  <2> QED
    BY <2>1, <2>2
<1>3. ~Analysis(r) /\ reqs[r].kind # "sync" /\ reqs'[r].kind # "sync"
      /\ reqs' = [reqs EXCEPT ![r] = reqs'[r]]
  BY <1>1, IdleRequest DEF Analysis
<1> QED
  BY <1>1, <1>2, <1>3, SameHyps, OwnedOther

LEMMA OwnedAnalyzeBegin ==
    ASSUME Sound, Owned, NEW r \in Requests, NEW v \in Vms,
           \E force \in BOOLEAN : AnalyzeBegin(r, v, force)
    PROVE  Owned'
<1>1. /\ reqs' = [reqs EXCEPT ![r] = reqs'[r]]
      /\ vms' = [vms EXCEPT ![v] = [vms[v] EXCEPT !.status = "analyzing", !.compat = vms[v].compat]]
      /\ reqs'[r].kind = "analyze" /\ reqs'[r].vm = v /\ reqs[r] = Idle
      /\ UNCHANGED <<hyps, stuck>>
  <2>1. QuietFacts(r)
    BY AnalyzeBeginFacts
  <2>2. reqs' = [reqs EXCEPT ![r] = reqs'[r]]
    BY <2>1 DEF QuietFacts
  <2> QED
    BY <2>2, AnalyzeBeginFacts
<1>2. ~Analysis(r) /\ reqs[r].kind # "sync" /\ reqs'[r].kind # "sync" /\ Analysis(r)'
  BY <1>1, IdleRequest DEF Analysis
<1>3. \A w \in Vms \ {v} : vms'[w] = vms[w]
  BY <1>1 DEF Sound, TypeOK
<1>4. \A w \in Vms : Analyzing(w)' => Analyzing(w) \/ (Analysis(r)' /\ reqs'[r].vm = w)
  BY <1>1, <1>2, <1>3 DEF Analyzing, Present
<1> QED
  BY <1>1, <1>2, <1>4, SameHyps, OwnedOther

LEMMA OwnedAnalyzeEnd ==
    ASSUME Sound, Owned, NEW r \in Requests,
           AnalyzeFail(r) \/ \E prediction \in Verdicts : AnalyzeCommit(r, prediction)
    PROVE  Owned'
<1> DEFINE v == reqs[r].vm
<1>1. /\ Analysis(r) /\ v \in Vms /\ reqs' = [reqs EXCEPT ![r] = Idle]
      /\ UNCHANGED <<hyps, stuck>>
  BY AnalyzeEndFacts
<1>2. reqs'[r] = Idle /\ reqs' = [reqs EXCEPT ![r] = reqs'[r]] /\ reqs'[r].kind = "idle"
  BY <1>1, ReqsSet, IdleRequest
<1>3. /\ \A w \in Vms : Analyzing(w)' => Analyzing(w)
      /\ \A w \in Vms : w = reqs[r].vm => ~Analyzing(w)'
  <2>1. CASE vms' = vms /\ ~Present(v)
    BY <2>1 DEF Analyzing, Present
  <2>2. CASE /\ Present(v)
             /\ \E s \in PassStatuses \cup {"discovered"} : \E c \in PassStatuses \cup {vms[v].compat} :
                   vms' = [vms EXCEPT ![v] = [vms[v] EXCEPT !.status = s, !.compat = c]]
    <3>1. PICK s \in PassStatuses \cup {"discovered"}, c \in PassStatuses \cup {vms[v].compat} :
              vms' = [vms EXCEPT ![v] = [vms[v] EXCEPT !.status = s, !.compat = c]]
      BY <2>2
    <3>2. vms[v] \in Vm
      BY <1>1, <2>2, PresentRow DEF Sound
    <3>3. vms'[v].status = s /\ \A w \in Vms \ {v} : vms'[w] = vms[w]
      BY <1>1, <3>1, <3>2 DEF Sound, TypeOK, Vm
    <3>4. s # "analyzing"
      BY DEF PassStatuses
    <3> HIDE DEF v
    <3>5. \A w \in Vms : w = v => ~Analyzing(w)'
      BY <3>3, <3>4 DEF Analyzing
    <3>6. \A w \in Vms \ {v} : Analyzing(w)' => Analyzing(w)
      BY <3>3 DEF Analyzing, Present
    <3> QED
      BY <3>5, <3>6 DEF v
  <2> QED
    BY <2>1, <2>2, AnalyzeEndFacts
<1>4. Pending(reqs'[r]) /\ reqs[r].kind # "sync"
  BY <1>1, <1>2 DEF Pending, Analysis
<1>5. /\ \A h \in Hyps : Discovering(h)' => Discovering(h) \/ (reqs'[r].kind = "sync" /\ reqs'[r].hyp = h)
      /\ \A w \in Vms : Analyzing(w)' => Analyzing(w) \/ (Analysis(r)' /\ reqs'[r].vm = w)
      /\ stuck \subseteq stuck'
  BY <1>1, <1>3, SameHyps
<1> QED
  BY <1>2, <1>3, <1>4, <1>5, OwnedTurn

LEMMA OwnedCrash ==
    ASSUME Sound, Owned, NEW r \in Requests, Crash(r)
    PROVE  Owned'
<1>1. reqs' = [reqs EXCEPT ![r] = Idle] /\ hyps' = hyps /\ vms' = vms /\ stuck \subseteq stuck'
      /\ (reqs[r].kind = "sync" => reqs[r].hyp \in stuck')
      /\ (reqs[r].kind = "analyze" => reqs[r].vm \in stuck')
  BY DEF Crash
<1>2. reqs'[r] = Idle /\ reqs' = [reqs EXCEPT ![r] = reqs'[r]] /\ reqs'[r].kind = "idle"
  BY <1>1, ReqsSet, IdleRequest
<1>3. Pending(reqs'[r])
  BY <1>2 DEF Pending
<1>4. /\ \A h \in Hyps : Discovering(h)' => Discovering(h) \/ (reqs'[r].kind = "sync" /\ reqs'[r].hyp = h)
      /\ \A w \in Vms : Analyzing(w)' => Analyzing(w) \/ (Analysis(r)' /\ reqs'[r].vm = w)
      /\ (Analysis(r) => reqs[r].vm \in stuck')
  BY <1>1, SameHyps, SameVms DEF Analysis
<1> QED
  BY <1>1, <1>2, <1>3, <1>4, OwnedTurn

LEMMA OwnedStep ==
    ASSUME Sound, Owned, [Next]_vars
    PROVE  Owned'
<1>1. CASE World
  BY <1>1, OwnedWorld
<1>2. ASSUME NEW r \in Requests, RequestStep(r) PROVE Owned'
  <2>1. CASE SyncStep(r)
    <3>1. CASE \E h \in Hyps : SyncBegin(r, h)
      BY <3>1, OwnedBegin
    <3>2. CASE \E listing \in BOOLEAN, reading \in Readings : SyncFetch(r, listing, reading)
      BY <3>2, OwnedFetch
    <3>3. CASE SyncFail(r) \/ SyncFlushFails(r) \/ SyncEnd(r) \/ SyncOrphaned(r)
      BY <3>3, OwnedSyncEnds
    <3>4. CASE SyncCount(r)
      BY <3>4, OwnedCount
    <3>5. CASE \E data \in IF Sync(r, "match") THEN reqs[r].left ELSE {} :
                 SyncInsert(r, data) \/ \E v \in Vms : SyncMatch(r, data, v)
      BY <3>5, OwnedInsert, OwnedMatch
    <3>6. CASE SyncStale(r) \/ SyncCommit(r)
      BY <3>6, OwnedStale, OwnedCommit
    <3> QED
      BY <2>1, <3>1, <3>2, <3>3, <3>4, <3>5, <3>6 DEF SyncStep
  <2>2. CASE \/ \E h \in Hyps : TestBegin(r, h)
             \/ \E listing \in BOOLEAN, reading \in Readings : TestEnd(r, listing, reading)
             \/ \E body \in VmBodies : CreateVmBegin(r, body)
    BY <2>2, OwnedTest
  <2>3. CASE CreateVmCommit(r)
    BY <2>3, OwnedCreate
  <2>4. CASE \E v \in Vms, force \in BOOLEAN : AnalyzeBegin(r, v, force)
    BY <2>4, OwnedAnalyzeBegin
  <2>5. CASE (\E prediction \in Verdicts : AnalyzeCommit(r, prediction)) \/ AnalyzeFail(r)
    BY <2>5, OwnedAnalyzeEnd
  <2>6. CASE Crash(r)
    BY <2>6, OwnedCrash
  <2> QED
    BY <1>2, <2>1, <2>2, <2>3, <2>4, <2>5, <2>6 DEF RequestStep
<1> QED
  BY <1>1, <1>2, NextSplit

LEMMA OwnedInit ==
    ASSUME TidyStart, Init
    PROVE  Owned
<1>1. \A h \in Hyps : ~Discovering(h)
  BY DEF Init, TidyStart, Discovering, Hypervisor
<1>2. \A v \in Vms : ~Analyzing(v)
  BY DEF Init, TidyStart, Analyzing, Present
<1>3. \A r \in Requests : reqs[r].kind = "idle"
  BY IdleRequest DEF Init
<1> QED
  BY <1>1, <1>2, <1>3 DEF Owned, Pending, BusyHasOwner, DiscoveringHasSync, AnalyzingHasAnalyst,
     Discovering, Analyzing

(* When nothing is busy at the start, DISCOVERING and ANALYZING always mean *)
(* that a request of that hypervisor or row runs, or that its process died  *)
(* or its session broke: discover_hypervisor and analyze_vm leave no status *)
(* behind by themselves, however they interleave and fail.                  *)
THEOREM BusyRowsHaveOwners ==
    ASSUME TidyStart
    PROVE  Spec => []BusyHasOwner
<1>1. Init => Sound /\ Owned
  BY InitSound, OwnedInit
<1>2. Sound /\ Owned /\ [Next]_vars => Sound' /\ Owned'
  BY StepSound, OwnedStep
<1>3. Owned => BusyHasOwner
  BY DEF Owned
<1> QED
  BY <1>1, <1>2, <1>3, PTL DEF Spec

-----------------------------------------------------------------------------
(* Identities.  Where every row has an identity from the start.             *)

Typed == {body.id : body \in VmBodies}

Identified ==
    /\ None \notin Typed
    /\ \A rows \in InitialVms : \A v, w \in Vms :
          /\ rows[v] # None => rows[v].id # None /\ rows[v].from \in {None, rows[v].id}
          /\ rows[v] # None /\ rows[w] # None /\ v # w /\ rows[v].id = rows[w].id
                /\ rows[v].tenant = rows[w].tenant => rows[v].id \in Typed

(* What a session has agrees with the tables: an object of a row has the    *)
(* identity of the row, an object it will insert that of a machine of which *)
(* no row is known, and no session makes a migrated row anything else.      *)
RowHeld(r, v) ==
    LET q == reqs[r] IN
    /\ vms[v] # None /\ q.base[v].id # None
    /\ q.now[v].id = q.base[v].id /\ q.now[v].tenant = q.base[v].tenant
    /\ q.now[v].from \in {None, q.now[v].id}
    /\ Present(v) => vms[v].id = q.base[v].id /\ vms[v].tenant = q.base[v].tenant
    /\ q.at = "match" => q.base[v].id \in q.seen
    /\ q.now[v].status \in Calm \cup {q.base[v].status}
    /\ q.base[v].status = "migrated" => q.now[v].status = "migrated"
NewHeld(r, v) ==
    LET q == reqs[r] IN
    /\ q.now[v].id \in q.seen /\ q.now[v].tenant = q.tenant /\ q.now[v].from = q.now[v].id
    /\ q.now[v].status \in Calm
    /\ \A w \in q.new : w # v => q.now[w].id # q.now[v].id
    /\ \A w \in Vms : Present(w) /\ vms[w].id = q.now[v].id /\ vms[w].tenant = q.tenant
           => q.now[v].id \in overlapped \cup Typed
Holds(r) ==
    Open(r) => /\ \A data \in reqs[r].left : data.id \in reqs[r].seen
               /\ \A v \in Vms : reqs[r].base[v] # None => RowHeld(r, v)
               /\ \A v \in reqs[r].new : NewHeld(r, v)

(* Sessions of a tenant share only identities that are known to overlap.    *)
Apart ==
    \A r, p \in Requests : r # p /\ Open(r) /\ Open(p) /\ reqs[r].tenant = reqs[p].tenant
        => reqs[r].seen \cap reqs[p].seen \subseteq overlapped

RowsOk ==
    /\ \A v \in Vms : Present(v) => vms[v].id # None /\ vms[v].from \in {None, vms[v].id}
    /\ OneRowPerIdentity

Traced == RowsOk /\ Apart /\ \A r \in Requests : Holds(r)

(* A row after a step, as an open session sees it: what was there has the   *)
(* identity it had, what is new is not one of its machines.                 *)
RowFollows(r, v) ==
    /\ vms[v] # None => vms'[v] # None
    /\ Present(v)' => \/ Present(v) /\ vms'[v].id = vms[v].id /\ vms'[v].tenant = vms[v].tenant
                      \/ /\ vms[v] = None
                         /\ \/ vms'[v].id \in Typed
                            \/ Open(r) /\ vms'[v].tenant = reqs[r].tenant /\ vms'[v].id \in reqs[r].seen
                                 => vms'[v].id \in overlapped

LEMMA OthersHold ==
    ASSUME Sound, NEW r \in Requests, Holds(r), reqs'[r] = reqs[r],
           overlapped \subseteq overlapped', \A v \in Vms : RowFollows(r, v)
    PROVE  Holds(r)'
<1> DEFINE q == reqs[r]
<1> SUFFICES ASSUME Open(r)
             PROVE  /\ \A v \in Vms : q.base[v] # None => RowHeld(r, v)'
                    /\ \A v \in q.new : NewHeld(r, v)'
  BY DEF Holds, Open
<1>1. q \in SyncReq /\ q.new \in SUBSET Vms
  BY SyncRequest, SyncFields DEF Open
<1>2. ASSUME NEW v \in Vms, q.base[v] # None PROVE RowHeld(r, v)'
  <2>1. RowHeld(r, v)
    BY <1>2 DEF Holds
  <2>2. vms'[v] # None
    BY <2>1 DEF RowHeld, RowFollows
  <2>3. Present(v)' => Present(v) /\ vms'[v].id = vms[v].id /\ vms'[v].tenant = vms[v].tenant
    BY <2>1 DEF RowHeld, RowFollows
  <2> QED
    BY <2>1, <2>2, <2>3 DEF RowHeld
<1>3. ASSUME NEW v \in q.new PROVE NewHeld(r, v)'
  <2>1. NewHeld(r, v) /\ v \in Vms
    BY <1>1, <1>3 DEF Holds
  <2>2. ASSUME NEW w \in Vms, Present(w)', vms'[w].id = q.now[v].id, vms'[w].tenant = q.tenant
        PROVE  q.now[v].id \in overlapped \cup Typed
    <3>1. CASE Present(w) /\ vms'[w].id = vms[w].id /\ vms'[w].tenant = vms[w].tenant
      BY <2>1, <2>2, <3>1 DEF NewHeld
    <3>2. CASE vms'[w].id \in Typed
      BY <2>2, <3>2
    <3>3. CASE Open(r) /\ vms'[w].tenant = reqs[r].tenant /\ vms'[w].id \in reqs[r].seen
                 => vms'[w].id \in overlapped
      BY <2>1, <2>2, <3>3 DEF NewHeld
    <3> QED
      BY <2>2, <3>1, <3>2, <3>3 DEF RowFollows
  <2> QED
    BY <2>1, <2>2 DEF NewHeld
<1> QED
  BY <1>2, <1>3

LEMMA EditFollows ==
    ASSUME Sound, NEW v \in Vms, Edit(v)
    PROVE  /\ \A r \in Requests : RowFollows(r, v)
           /\ Present(v)' => /\ Present(v) /\ vms'[v].id = vms[v].id /\ vms'[v].tenant = vms[v].tenant
                             /\ vms'[v].from = vms[v].from
<1>1. Gone # None /\ None \notin Vm /\ Gone \notin Vm
  BY InventoryAssumption
<1>2. CASE vms'[v] = vms[v]
  BY <1>2 DEF RowFollows, Present
<1>3. CASE Present(v) /\ vms'[v] = Gone
  BY <1>1, <1>3 DEF RowFollows, Present
<1>4. CASE /\ Present(v) /\ vms'[v] \in Vm /\ vms'[v].tenant = vms[v].tenant
           /\ vms'[v].id = vms[v].id /\ vms'[v].from = vms[v].from
  BY <1>1, <1>4 DEF RowFollows
<1> QED
  BY <1>2, <1>3, <1>4 DEF Edit

LEMMA EditRows ==
    ASSUME Sound, RowsOk, \A v \in Vms : Edit(v), overlapped \subseteq overlapped'
    PROVE  RowsOk'
<1>1. ASSUME NEW v \in Vms, Present(v)'
      PROVE  /\ Present(v) /\ vms'[v].id = vms[v].id /\ vms'[v].tenant = vms[v].tenant
             /\ vms'[v].from = vms[v].from
  BY <1>1, EditFollows
<1> QED
  BY <1>1 DEF RowsOk, OneRowPerIdentity

LEMMA TracedWorld ==
    ASSUME Sound, Traced, World
    PROVE  Traced'
<1>1. reqs' = reqs /\ overlapped' = overlapped /\ \A v \in Vms : Edit(v)
  BY WorldStep DEF WorldFacts
<1>2. RowsOk'
  BY <1>1, EditRows DEF Traced
<1>3. \A r \in Requests : Holds(r)'
  BY <1>1, EditFollows, OthersHold DEF Traced
<1>4. Apart'
  BY <1>1 DEF Traced, Apart, Open
<1> QED
  BY <1>2, <1>3, <1>4 DEF Traced

(* What is said of two open sessions survives a turn of one of them, and a  *)
(* session that opens notes what it shares with those that are open.        *)
LEMMA ApartTurn ==
    ASSUME Sound, Apart, NEW r \in Requests, reqs' = [reqs EXCEPT ![r] = reqs'[r]],
           overlapped \subseteq overlapped',
           Open(r)' => /\ Open(r) /\ reqs'[r].seen = reqs[r].seen
                       /\ reqs'[r].tenant = reqs[r].tenant
    PROVE  Apart'
<1>1. \A p \in Requests \ {r} : reqs'[p] = reqs[p]
  BY DEF Sound
<1> SUFFICES ASSUME NEW p \in Requests, NEW s \in Requests, p # s, Open(p)', Open(s)',
                    reqs'[p].tenant = reqs'[s].tenant
             PROVE  reqs'[p].seen \cap reqs'[s].seen \subseteq overlapped'
  BY DEF Apart
<1>2. Open(p) /\ reqs'[p].seen = reqs[p].seen /\ reqs'[p].tenant = reqs[p].tenant
  BY <1>1 DEF Open
<1>3. Open(s) /\ reqs'[s].seen = reqs[s].seen /\ reqs'[s].tenant = reqs[s].tenant
  BY <1>1 DEF Open
<1> QED
  BY <1>2, <1>3 DEF Apart

LEMMA ApartFetch ==
    ASSUME Sound, Apart, NEW r \in Requests, NEW listing \in BOOLEAN, NEW reading \in Readings,
           SyncFetch(r, listing, reading)
    PROVE  Apart'
<1>1. /\ \A p \in Requests \ {r} : reqs'[p] = reqs[p]
      /\ reqs'[r].tenant = reqs[r].tenant
      /\ overlapped' = overlapped \cup (reqs'[r].seen \cap InFlight(r))
  BY FetchFacts DEF QuietFacts, Sound
<1>2. ASSUME NEW s \in Requests \ {r}, Open(s)', reqs'[s].tenant = reqs'[r].tenant
      PROVE  reqs'[s].seen \cap reqs'[r].seen \subseteq overlapped'
  <2>1. reqs[s].kind = "sync" /\ reqs[s].at \in {"match", "commit"} /\ reqs[s].tenant = reqs[r].tenant
    BY <1>1, <1>2 DEF Open
  <2>2. reqs[s].seen \subseteq InFlight(r)
    BY <2>1 DEF InFlight
  <2> QED
    BY <1>1, <2>2
<1>3. ASSUME NEW p \in Requests \ {r}, NEW s \in Requests \ {r}, p # s, Open(p)', Open(s)',
             reqs'[p].tenant = reqs'[s].tenant
      PROVE  reqs'[p].seen \cap reqs'[s].seen \subseteq overlapped'
  <2>1. Open(p) /\ Open(s) /\ reqs[p].tenant = reqs[s].tenant
    BY <1>1, <1>3 DEF Open
  <2> QED
    BY <1>1, <1>3, <2>1 DEF Apart
<1> QED
  BY <1>2, <1>3 DEF Apart

(* A turn of one request.                                                   *)
LEMMA TracedTurn ==
    ASSUME Sound, Traced, NEW r \in Requests, reqs' = [reqs EXCEPT ![r] = reqs'[r]],
           overlapped \subseteq overlapped', RowsOk',
           \A p \in Requests \ {r} : \A v \in Vms : RowFollows(p, v), Holds(r)',
           Open(r)' => /\ Open(r) /\ reqs'[r].seen = reqs[r].seen
                       /\ reqs'[r].tenant = reqs[r].tenant
    PROVE  Traced'
<1>1. \A p \in Requests \ {r} : reqs'[p] = reqs[p]
  BY DEF Sound
<1>2. \A p \in Requests : Holds(p)'
  BY <1>1, OthersHold DEF Traced
<1>3. Apart'
  BY ApartTurn DEF Traced
<1> QED
  BY <1>2, <1>3 DEF Traced

LEMMA TracedClosed ==
    ASSUME Sound, Traced, NEW r \in Requests, ClosedStep(r)
    PROVE  Traced'
<1>1. /\ reqs' = [reqs EXCEPT ![r] = reqs'[r]] /\ overlapped' = overlapped
      /\ \A v \in Vms : Edit(v) /\ ~Open(r)'
  BY DEF ClosedStep, QuietFacts
<1>2. RowsOk'
  BY <1>1, EditRows DEF Traced
<1>3. Holds(r)'
  BY <1>1 DEF Holds, ClosedStep
<1>4. \A p \in Requests \ {r} : \A v \in Vms : RowFollows(p, v)
  BY <1>1, EditFollows
<1> QED
  BY <1>1, <1>2, <1>3, <1>4, TracedTurn DEF ClosedStep

LEMMA TracedFetch ==
    ASSUME Sound, Traced, NEW r \in Requests, NEW listing \in BOOLEAN, NEW reading \in Readings,
           SyncFetch(r, listing, reading)
    PROVE  Traced'
<1>1. /\ QuietFacts(r) /\ reqs'[r].tenant = reqs[r].tenant
      /\ reqs'[r].seen = {data.id : data \in reqs'[r].left}
      /\ reqs'[r].base = reqs[r].base /\ reqs'[r].new = {}
      /\ \A v \in Vms : reqs[r].base[v] = None
      /\ overlapped' = overlapped \cup (reqs'[r].seen \cap InFlight(r)) /\ vms' = vms
  BY FetchFacts
<1>2. /\ \A p \in Requests \ {r} : reqs'[p] = reqs[p]
      /\ \A v \in Vms : Edit(v)
  BY <1>1 DEF QuietFacts, Sound
<1>3. RowsOk'
  BY <1>1, <1>2, EditRows DEF Traced
<1>4. Holds(r)'
  BY <1>1 DEF Holds
<1>5. \A p \in Requests \ {r} : Holds(p)'
  BY <1>1, <1>2, EditFollows, OthersHold DEF Traced
<1>6. Apart'
  BY ApartFetch DEF Traced
<1> QED
  BY <1>3, <1>4, <1>5, <1>6 DEF Traced

(* What a session that matches sees is honest: every row has an identity,   *)
(* and the object of the row has the same.                                  *)
LEMMA SeenHonest ==
    ASSUME Sound, Traced, NEW r \in Requests, reqs[r].kind = "sync", reqs[r].at = "match",
           NEW v \in SeenRows(r)
    PROVE  /\ Seen(r, v).id # None
           /\ Loaded(r, v).id = Seen(r, v).id /\ Loaded(r, v).tenant = Seen(r, v).tenant
<1>1. /\ v \in Vms
      /\ reqs[r].now[v] = None => Present(v) /\ Loaded(r, v) = vms[v] /\ Seen(r, v) = vms[v]
      /\ reqs[r].now[v] # None => Loaded(r, v) = reqs[r].now[v]
      /\ \/ Seen(r, v) = vms[v] /\ Present(v)
         \/ Seen(r, v) = Loaded(r, v) /\ v \in reqs[r].flushed
  BY LoadedRow
<1>2. RowsOk /\ Holds(r) /\ Open(r)
  BY DEF Traced, Open
<1>3. CASE reqs[r].now[v] = None
  BY <1>1, <1>2, <1>3 DEF RowsOk
<1>4. CASE reqs[r].now[v] # None /\ reqs[r].base[v] # None
  <2>1. RowHeld(r, v)
    BY <1>1, <1>2, <1>4 DEF Holds
  <2> QED
    BY <1>1, <1>4, <2>1 DEF RowHeld
<1>5. CASE reqs[r].now[v] # None /\ reqs[r].base[v] = None
  <2>1. v \in reqs[r].new /\ vms[v] = None
    BY <1>1, <1>5 DEF Sound, Session
  <2>2. NewHeld(r, v) /\ reqs[r].seen \subseteq Identities
    BY <1>2, <2>1, SyncRequest, SyncFields DEF Holds
  <2>3. Seen(r, v) = reqs[r].now[v] /\ Loaded(r, v) = reqs[r].now[v]
    BY <1>1, <1>5, <2>1 DEF Present
  <2> QED
    BY <2>2, <2>3, InventoryAssumption DEF NewHeld
<1> QED
  BY <1>3, <1>4, <1>5

(* No row is taken by its name.                                             *)
LEMMA MatchHonest ==
    ASSUME Sound, Traced, NEW r \in Requests, reqs[r].kind = "sync", reqs[r].at = "match",
           NEW data, NEW v \in Matches(r, data)
    PROVE  v \in SeenRows(r) /\ Loaded(r, v).id = data.id /\ Loaded(r, v).id # None
<1>1. v \in SeenRows(r)
  BY MatchesSeen
<1>2. Seen(r, v).id # None /\ Loaded(r, v).id = Seen(r, v).id
  BY <1>1, SeenHonest
<1>3. Seen(r, v).id = data.id
  BY <1>2 DEF Matches, Pass1, Pass2, Pass3
<1> QED
  BY <1>1, <1>2, <1>3

(* A step of a session before its commit changes no row.                    *)
LEMMA TracedSession ==
    ASSUME Sound, Traced, NEW r \in Requests, reqs' = [reqs EXCEPT ![r] = reqs'[r]],
           vms' = vms, overlapped' = overlapped, Open(r),
           reqs'[r].seen = reqs[r].seen, reqs'[r].tenant = reqs[r].tenant, Holds(r)'
    PROVE  Traced'
<1>1. RowsOk'
  BY DEF Traced, RowsOk, OneRowPerIdentity, Present
<1>2. \A p \in Requests \ {r} : \A v \in Vms : RowFollows(p, v)
  BY DEF RowFollows, Present
<1> QED
  BY <1>1, <1>2, TracedTurn

LEMMA TracedMatch ==
    ASSUME Sound, Traced, NEW r \in Requests, NEW data, NEW v \in Vms, SyncMatch(r, data, v)
    PROVE  Traced'
<1> DEFINE q == reqs[r]
           p == reqs'[r]
           vm == Loaded(r, v)
<1>1. /\ q \in SyncReq /\ q.at = "match" /\ data \in q.left /\ v \in Matches(r, data)
      /\ reqs' = [reqs EXCEPT ![r] = p] /\ p \in SyncReq
      /\ p.at = "match" /\ p.tenant = q.tenant /\ p.seen = q.seen
      /\ p.new = q.new /\ p.left = q.left \ {data}
      /\ \A w \in Vms \ {v} : p.base[w] = q.base[w] /\ p.now[w] = q.now[w]
      /\ p.base[v] = (IF q.base[v] = None /\ v \notin q.new THEN vms[v] ELSE q.base[v])
      /\ (q.base[v] = None /\ v \notin q.new => Present(v) /\ vm = vms[v])
      /\ (q.base[v] # None \/ v \in q.new => vm = q.now[v])
      /\ p.now[v].tenant = vm.tenant
      /\ p.now[v].id = (IF vm.id = None THEN data.id ELSE vm.id) /\ p.now[v].from = data.id
      /\ p.now[v].status = (IF vm.status = "archived" THEN "discovered" ELSE vm.status)
      /\ vms' = vms /\ overlapped' = overlapped
  BY MatchFacts
<1>2. q.kind = "sync" /\ p.kind = "sync" /\ q.new \in SUBSET Vms
  BY <1>1, SyncFields
<1>3. Open(r) /\ Holds(r) /\ RowsOk /\ Session(r)
  BY <1>1, <1>2 DEF Open, Traced, Sound
<1>4. vm.id = data.id /\ vm.id # None
  BY <1>1, <1>2, MatchHonest
<1>5. data.id \in q.seen
  BY <1>1, <1>3 DEF Holds
<1>6. p.now[v].id = data.id
  BY <1>1, <1>4
<1> HIDE DEF vm
<1>7. ASSUME NEW w \in Vms, p.base[w] # None PROVE RowHeld(r, w)'
  <2>1. CASE w # v
    <3>1. RowHeld(r, w)
      BY <1>1, <1>3, <1>7, <2>1 DEF Holds
    <3> QED
      BY <1>1, <2>1, <3>1 DEF RowHeld, Present
  <2>2. CASE w = v /\ q.base[v] = None
    <3>1. v \notin q.new
      BY <1>1, <1>7, <2>2
    <3>2. p.base[v] = vms[v] /\ vm = vms[v] /\ Present(v)
      BY <1>1, <2>2, <3>1
    <3> QED
      BY <1>1, <1>4, <1>5, <1>6, <2>2, <3>2 DEF RowHeld, Present, Calm
  <2>3. CASE w = v /\ q.base[v] # None
    <3>1. RowHeld(r, v)
      BY <1>3, <2>3 DEF Holds
    <3>2. p.base[v] = q.base[v] /\ vm = q.now[v]
      BY <1>1, <2>3
    <3>3. /\ p.now[v].status \in Calm \cup {q.base[v].status}
          /\ q.base[v].status = "migrated" => p.now[v].status = "migrated"
      BY <1>1, <3>1, <3>2 DEF RowHeld, Calm
    <3> QED
      BY <1>1, <1>4, <1>6, <2>3, <3>1, <3>2, <3>3 DEF RowHeld, Present
  <2> QED
    BY <2>1, <2>2, <2>3
<1>8. ASSUME NEW w \in p.new PROVE NewHeld(r, w)'
  <2>1. w \in q.new /\ w \in Vms /\ NewHeld(r, w)
    BY <1>1, <1>2, <1>3, <1>8 DEF Holds
  <2>2. \A u \in q.new : p.now[u].id = q.now[u].id /\ p.now[u].tenant = q.now[u].tenant
    BY <1>1, <1>2, <1>4, <1>6
  <2>3. p.now[w].from = p.now[w].id /\ p.now[w].status \in Calm
    <3>1. CASE w = v
      <4>1. vm = q.now[v]
        BY <1>1, <2>1, <3>1
      <4> QED
        BY <1>1, <1>6, <2>1, <3>1, <4>1 DEF NewHeld, Calm
    <3>2. CASE w # v
      BY <1>1, <2>1, <3>2 DEF NewHeld
    <3> QED
      BY <3>1, <3>2
  <2>4. /\ p.tenant = q.tenant /\ p.seen = q.seen /\ p.new = q.new
        /\ vms' = vms /\ overlapped' = overlapped
    BY <1>1
  <2> QED
    BY <2>1, <2>2, <2>3, <2>4 DEF NewHeld, Present
<1>9. Holds(r)'
  <2>1. \A d \in p.left : d.id \in p.seen
    BY <1>1, <1>3 DEF Holds
  <2> QED
    BY <1>7, <1>8, <2>1 DEF Holds
<1> QED
  BY <1>1, <1>3, <1>9, TracedSession

LEMMA TracedInsert ==
    ASSUME Sound, Traced, NEW r \in Requests, NEW data, SyncInsert(r, data)
    PROVE  Traced'
<1> DEFINE q == reqs[r]
           p == reqs'[r]
<1>0. PICK i \in Vms : i = NewId
  BY InsertFacts
<1>1. /\ q \in SyncReq /\ q.at = "match" /\ data \in q.left /\ data \in VmData
      /\ Matches(r, data) = {} /\ i \in Vms /\ vms[i] = None
      /\ \A s \in Requests : reqs[s].kind = "sync" => i \notin reqs[s].new
      /\ reqs' = [reqs EXCEPT ![r] = p] /\ p \in SyncReq
      /\ p.at = "match" /\ p.tenant = q.tenant /\ p.seen = q.seen
      /\ p.new = q.new \cup {i} /\ p.left = q.left \ {data} /\ p.base = q.base
      /\ \A w \in Vms \ {i} : p.now[w] = q.now[w]
      /\ p.now[i] = Created(q, data)
      /\ vms' = vms /\ overlapped' = overlapped
  BY <1>0, InsertFacts
<1>2. /\ q.kind = "sync" /\ p.kind = "sync" /\ q.new \in SUBSET Vms /\ q.now \in Rows
      /\ q.base \in Rows
  BY <1>1, SyncFields
<1>3. Open(r) /\ Holds(r) /\ RowsOk /\ Session(r) /\ i \notin q.new
  BY <1>1, <1>2 DEF Open, Traced, Sound
<1>4. /\ p.now[i].id = data.id /\ p.now[i].tenant = q.tenant /\ p.now[i].from = data.id
      /\ p.now[i].status \in Calm
  BY <1>1, CreatedType DEF Calm
<1>5. data.id \in q.seen
  BY <1>1, <1>3 DEF Holds
<1>6. \A w \in SeenRows(r) : ~(Seen(r, w).tenant = q.tenant /\ Seen(r, w).id = data.id)
  BY <1>1 DEF Matches, Pass2
<1>7. ASSUME NEW w \in q.new PROVE q.now[w].id # data.id /\ w \in Vms /\ w # i
  <2>1. /\ w \in Vms /\ NewHeld(r, w) /\ w \in q.flushed /\ q.now[w] # None
        /\ q.now[w] \in Vm \cup {None}
    BY <1>2, <1>3 DEF Holds, Session, Rows
  <2>2. Seen(r, w) = q.now[w] /\ w \in SeenRows(r)
    BY <2>1, InventoryAssumption DEF Seen, SeenRows
  <2> QED
    BY <1>3, <1>6, <2>1, <2>2 DEF NewHeld
<1>8. ASSUME NEW w \in Vms, Present(w), vms[w].tenant = q.tenant PROVE vms[w].id # data.id
  <2>1. CASE w \notin q.flushed
    <3>1. Seen(r, w) = vms[w] /\ w \in SeenRows(r)
      BY <1>8, <2>1 DEF Seen, SeenRows, Present
    <3> QED
      BY <1>6, <1>8, <3>1
  <2>2. CASE w \in q.flushed
    <3>1. q.now[w] # None /\ w \notin q.new
      BY <1>2, <1>3, <1>8, <2>2 DEF Session, Present
    <3>2. q.base[w] # None
      BY <1>1, <1>2, <1>3, <3>1 DEF Session
    <3>3. RowHeld(r, w)
      BY <1>3, <3>2 DEF Holds
    <3>4. q.now[w].id = vms[w].id /\ q.now[w].tenant = vms[w].tenant
      BY <1>8, <3>3 DEF RowHeld
    <3>5. Seen(r, w) = q.now[w] /\ w \in SeenRows(r)
      BY <1>2, <2>2, <3>1, InventoryAssumption DEF Seen, SeenRows, Rows
    <3> QED
      BY <1>6, <1>8, <3>4, <3>5
  <2> QED
    BY <2>1, <2>2
<1>9. ASSUME NEW w \in Vms, p.base[w] # None PROVE RowHeld(r, w)'
  <2>1. RowHeld(r, w)
    BY <1>1, <1>3, <1>9 DEF Holds
  <2>2. w # i
    BY <1>1, <2>1 DEF RowHeld
  <2> QED
    BY <1>1, <2>1, <2>2 DEF RowHeld, Present
<1>10. NewHeld(r, i)'
  <2>1. \A w \in p.new : w # i => p.now[w].id # p.now[i].id
    BY <1>1, <1>4, <1>7
  <2>2. \A w \in Vms : ~(Present(w)' /\ vms'[w].id = p.now[i].id /\ vms'[w].tenant = p.tenant)
    BY <1>1, <1>4, <1>8 DEF Present
  <2> QED
    BY <1>1, <1>4, <1>5, <2>1, <2>2 DEF NewHeld
<1>11. ASSUME NEW w \in q.new PROVE NewHeld(r, w)'
  <2>1. NewHeld(r, w) /\ w \in Vms /\ w # i
    BY <1>3, <1>7 DEF Holds
  <2>2. \A u \in p.new : u # w => p.now[u].id # p.now[w].id
    BY <1>1, <1>4, <1>7, <2>1 DEF NewHeld
  <2> QED
    BY <1>1, <2>1, <2>2 DEF NewHeld, Present
<1>12. Holds(r)'
  <2>1. \A d \in p.left : d.id \in p.seen
    BY <1>1, <1>3 DEF Holds
  <2> QED
    BY <1>1, <1>9, <1>10, <1>11, <2>1 DEF Holds
<1> QED
  BY <1>1, <1>3, <1>12, TracedSession

(* What is stale the session has not read before: what it has was reported. *)
LEMMA StaleRows ==
    ASSUME Sound, Traced, NEW r \in Requests, SyncStale(r), NEW w \in Stale(r)
    PROVE  /\ w \in Vms /\ Loaded(r, w).id # None /\ Loaded(r, w).id = Seen(r, w).id
           /\ Seen(r, w).status # "migrated"
           /\ reqs[r].seen # {} => Loaded(r, w).id \notin reqs[r].seen
           /\ reqs[r].base[w] = None /\ w \notin reqs[r].new
<1> DEFINE q == reqs[r]
<1>1. /\ q \in SyncReq /\ q.at = "match" /\ Stale(r) \subseteq SeenRows(r)
      /\ q.base[w] # None \/ w \in q.new => Loaded(r, w) = q.now[w]
  BY StaleFacts
<1>2. q.kind = "sync"
  BY <1>1, SyncFields
<1>3. Open(r) /\ Holds(r)
  BY <1>1, <1>2 DEF Open, Traced
<1>4. /\ w \in SeenRows(r) /\ Seen(r, w).status # "migrated"
      /\ q.seen # {} => Seen(r, w).id \notin q.seen
  BY DEF Stale
<1>5. w \in Vms /\ Seen(r, w).id # None /\ Loaded(r, w).id = Seen(r, w).id
  BY <1>1, <1>2, <1>4, SeenHonest DEF SeenRows
<1>6. q.base[w] = None /\ w \notin q.new
  <2> SUFFICES ASSUME q.base[w] # None \/ w \in q.new
               PROVE  FALSE
    OBVIOUS
  <2>1. Loaded(r, w) = q.now[w]
    BY <1>1
  <2>2. q.now[w].id \in q.seen
    <3>1. CASE q.base[w] # None
      <4>1. RowHeld(r, w)
        BY <1>3, <1>5, <3>1 DEF Holds
      <4> QED
        BY <1>1, <4>1 DEF RowHeld
    <3>2. CASE w \in q.new
      BY <1>3, <3>2 DEF Holds, NewHeld
    <3> QED
      BY <3>1, <3>2
  <2> QED
    BY <1>4, <1>5, <2>1, <2>2
<1> QED
  BY <1>4, <1>5, <1>6

LEMMA TracedStale ==
    ASSUME Sound, Traced, NEW r \in Requests, SyncStale(r)
    PROVE  Traced'
<1> DEFINE q == reqs[r]
           p == reqs'[r]
           S == Stale(r)
<1>1. /\ q \in SyncReq /\ q.at = "match" /\ S \subseteq SeenRows(r)
      /\ reqs' = [reqs EXCEPT ![r] = p] /\ p \in SyncReq
      /\ p.at = "commit" /\ p.tenant = q.tenant /\ p.seen = q.seen
      /\ p.new = q.new /\ p.left = q.left
      /\ \A w \in Vms \ S : p.base[w] = q.base[w] /\ p.now[w] = q.now[w]
      /\ \A w \in S : /\ p.base[w] = IF q.base[w] = None /\ w \notin q.new THEN vms[w] ELSE q.base[w]
                      /\ q.base[w] = None /\ w \notin q.new =>
                             Present(w) /\ Loaded(r, w) = vms[w] /\ Seen(r, w) = vms[w]
                      /\ q.base[w] # None \/ w \in q.new => Loaded(r, w) = q.now[w]
                      /\ p.now[w] = [Loaded(r, w) EXCEPT !.status = "archived"]
                      /\ Loaded(r, w) \in Vm
      /\ vms' = vms /\ overlapped' = overlapped
  BY StaleFacts
<1>2. q.kind = "sync" /\ p.kind = "sync" /\ q.new \in SUBSET Vms /\ q.now \in Rows
  BY <1>1, SyncFields
<1>3. Open(r) /\ Holds(r) /\ RowsOk /\ Session(r)
  BY <1>1, <1>2 DEF Open, Traced, Sound
<1>4. ASSUME NEW w \in S
      PROVE  w \in Vms /\ Seen(r, w).status # "migrated" /\ q.base[w] = None /\ w \notin q.new
  BY StaleRows
<1> HIDE DEF S
<1>5. ASSUME NEW w \in Vms, p.base[w] # None PROVE RowHeld(r, w)'
  <2>1. CASE w \notin S
    <3>1. RowHeld(r, w)
      BY <1>1, <1>3, <1>5, <2>1 DEF Holds
    <3> QED
      BY <1>1, <2>1, <3>1 DEF RowHeld, Present
  <2>2. CASE w \in S
    <3>1. /\ p.base[w] = vms[w] /\ Present(w) /\ vms[w] \in Vm
          /\ p.now[w] = [vms[w] EXCEPT !.status = "archived"] /\ vms[w].status # "migrated"
      BY <1>1, <1>4, <2>2
    <3>2. /\ p.now[w].id = vms[w].id /\ p.now[w].tenant = vms[w].tenant
          /\ p.now[w].from = vms[w].from /\ p.now[w].status \in Calm
      BY <3>1 DEF Vm, Calm
    <3>3. vms[w].id # None /\ vms[w].from \in {None, vms[w].id}
      BY <1>3, <3>1 DEF RowsOk
    <3> QED
      BY <1>1, <3>1, <3>2, <3>3 DEF RowHeld, Present
  <2> QED
    BY <2>1, <2>2
<1>6. ASSUME NEW w \in p.new PROVE NewHeld(r, w)'
  <2>1. w \in Vms /\ NewHeld(r, w) /\ \A u \in q.new : u \in Vms /\ p.now[u] = q.now[u]
    BY <1>1, <1>2, <1>3, <1>4, <1>6 DEF Holds
  <2> QED
    BY <1>1, <1>6, <2>1 DEF NewHeld, Present
<1>7. Holds(r)'
  <2>1. \A d \in p.left : d.id \in p.seen
    BY <1>1, <1>3 DEF Holds
  <2> QED
    BY <1>5, <1>6, <2>1 DEF Holds
<1> QED
  BY <1>1, <1>3, <1>7, TracedSession

LEMMA TracedCommit ==
    ASSUME Sound, Traced, NEW r \in Requests, SyncCommit(r)
    PROVE  Traced'
<1> DEFINE q == reqs[r]
<1>1. /\ q \in SyncReq /\ q.at = "commit" /\ q.kind = "sync"
      /\ reqs' = [reqs EXCEPT ![r] = reqs'[r]] /\ reqs'[r].at = "count"
      /\ \A v \in Vms : RowCommit(r, v)
      /\ overlapped' = overlapped
  BY CommitFacts
<1>2. Open(r) /\ Holds(r) /\ RowsOk /\ q.seen \subseteq Identities /\ ~Open(r)'
  BY <1>1, SyncFields DEF Open, Traced
<1>3. ASSUME NEW v \in Vms, v \in q.new
      PROVE  /\ vms[v] = None /\ ~Present(v) /\ Present(v)' /\ vms'[v].id = q.now[v].id
             /\ vms'[v].tenant = q.tenant /\ vms'[v].id \in q.seen /\ vms'[v].from = vms'[v].id
             /\ NewHeld(r, v) /\ q.now[v].tenant = q.tenant
  <2>1. vms[v] = None /\ q.now[v] \in Vm /\ vms'[v] = q.now[v]
    BY <1>1, <1>3 DEF RowCommit
  <2>2. NewHeld(r, v)
    BY <1>2, <1>3 DEF Holds
  <2> QED
    BY <2>1, <2>2, InventoryAssumption DEF NewHeld, Present
<1>4. ASSUME NEW v \in Vms, v \notin q.new, Present(v)'
      PROVE  /\ Present(v) /\ vms'[v].id = vms[v].id /\ vms'[v].tenant = vms[v].tenant
             /\ vms'[v].from \in {None, vms'[v].id}
  <2>1. CASE q.base[v] = None
    <3>1. vms'[v] = vms[v]
      BY <1>1, <1>4, <2>1, InventoryAssumption DEF RowCommit
    <3> QED
      BY <1>2, <1>4, <3>1 DEF RowsOk, Present
  <2>2. CASE q.base[v] # None
    <3>1. /\ q.base[v] \in Vm /\ q.now[v] \in Vm /\ Present(v) /\ vms[v] \in Vm
          /\ vms'[v] = Written(vms[v], q.base[v], q.now[v])
      BY <1>1, <1>4, <2>2 DEF RowCommit
    <3>2. RowHeld(r, v)
      BY <1>2, <2>2 DEF Holds
    <3>3. /\ vms'[v].tenant = vms[v].tenant /\ vms'[v].from = q.now[v].from
          /\ vms'[v].id = IF q.now[v].id # q.base[v].id THEN q.now[v].id ELSE vms[v].id
      BY <3>1, WrittenType
    <3> QED
      BY <3>1, <3>2, <3>3 DEF RowHeld
  <2> QED
    BY <2>1, <2>2
<1>5. RowsOk'
  <2>1. ASSUME NEW v \in Vms, Present(v)' PROVE vms'[v].id # None /\ vms'[v].from \in {None, vms'[v].id}
    BY <1>2, <1>3, <1>4, <2>1, InventoryAssumption DEF RowsOk
  <2>2. ASSUME NEW v \in Vms, NEW w \in Vms, Present(v)', Present(w)', v # w,
               vms'[v].id = vms'[w].id, vms'[v].tenant = vms'[w].tenant, vms'[v].id # None
        PROVE  vms'[v].id \in overlapped \cup Typed
    <3>1. CASE v \in q.new /\ w \in q.new
      BY <1>3, <2>2, <3>1 DEF NewHeld
    <3>2. CASE v \in q.new /\ w \notin q.new
      BY <1>3, <1>4, <2>2, <3>2 DEF NewHeld
    <3>3. CASE v \notin q.new /\ w \in q.new
      BY <1>3, <1>4, <2>2, <3>3 DEF NewHeld
    <3>4. CASE v \notin q.new /\ w \notin q.new
      BY <1>2, <1>4, <2>2, <3>4 DEF RowsOk, OneRowPerIdentity, Typed
    <3> QED
      BY <3>1, <3>2, <3>3, <3>4
  <2>3. OneRowPerIdentity'
    BY <1>1, <2>2 DEF OneRowPerIdentity, Typed
  <2> QED
    BY <2>1, <2>3 DEF RowsOk
<1>6. ASSUME NEW p \in Requests \ {r}, NEW v \in Vms PROVE RowFollows(p, v)
  <2>1. CASE v \in q.new
    <3>1. Open(p) /\ reqs[p].tenant = q.tenant => q.seen \cap reqs[p].seen \subseteq overlapped
      BY <1>2, <1>6 DEF Traced, Apart
    <3> QED
      BY <1>3, <2>1, <3>1 DEF RowFollows
  <2>2. CASE v \notin q.new
    <3>1. vms[v] # None => vms'[v] # None
      <4>1. CASE q.base[v] = None
        BY <1>1, <2>2, <4>1, InventoryAssumption DEF RowCommit
      <4>2. CASE q.base[v] # None
        <5>1. q.base[v] \in Vm /\ q.now[v] \in Vm /\ vms[v] \in Vm
              /\ vms'[v] = Written(vms[v], q.base[v], q.now[v])
          BY <1>1, <2>2, <4>2 DEF RowCommit
        <5>2. vms'[v] \in Vm
          BY <5>1, WrittenType
        <5> QED
          BY <5>2, InventoryAssumption
      <4> QED
        BY <4>1, <4>2
    <3> QED
      BY <1>4, <2>2, <3>1 DEF RowFollows
  <2> QED
    BY <2>1, <2>2
<1>7. Holds(r)'
  BY <1>2 DEF Holds
<1> QED
  BY <1>1, <1>2, <1>5, <1>6, <1>7, TracedTurn

LEMMA TracedCreate ==
    ASSUME Identified, Sound, Traced, NEW r \in Requests, CreateVmCommit(r)
    PROVE  Traced'
<1>1. /\ reqs' = [reqs EXCEPT ![r] = reqs'[r]] /\ reqs'[r].kind = "idle"
      /\ overlapped' = overlapped
  BY CreateFacts, ReqsSet, IdleRequest
<1>2. ~Open(r)' /\ Holds(r)' /\ RowsOk
  BY <1>1 DEF Open, Holds, Traced
<1>3. CASE vms' = vms
  <2>1. RowsOk'
    BY <1>1, <1>2, <1>3 DEF RowsOk, OneRowPerIdentity, Present
  <2>2. \A p \in Requests \ {r} : \A v \in Vms : RowFollows(p, v)
    BY <1>3 DEF RowFollows, Present
  <2> QED
    BY <1>1, <1>2, <2>1, <2>2, TracedTurn
<1>4. CASE vms' # vms
  <2>1. PICK i \in Vms, body \in VmBodies :
            vms[i] = None /\ vms' = [vms EXCEPT ![i] = BodyRow(body)] /\ BodyRow(body) \in Vm
    BY <1>4, CreateFacts
  <2>2. /\ vms'[i].id = body.id /\ vms'[i].from = None /\ body.id \in Typed /\ body.id # None
        /\ \A w \in Vms \ {i} : vms'[w] = vms[w]
    BY <2>1 DEF BodyRow, Sound, TypeOK, Identified, Typed
  <2>3. RowsOk'
    <3>1. \A w \in Vms \ {i} : Present(w)' => Present(w)
      BY <2>2 DEF Present
    <3>2. ASSUME NEW w \in Vms, Present(w)' PROVE vms'[w].id # None /\ vms'[w].from \in {None, vms'[w].id}
      BY <1>2, <2>2, <3>1, <3>2 DEF RowsOk
    <3>3. OneRowPerIdentity'
      BY <1>1, <1>2, <2>2, <3>1 DEF RowsOk, OneRowPerIdentity, Typed
    <3> QED
      BY <3>2, <3>3 DEF RowsOk
  <2>4. ASSUME NEW p \in Requests \ {r}, NEW v \in Vms PROVE RowFollows(p, v)
    <3>1. CASE v = i
      BY <2>1, <2>2, <3>1, InventoryAssumption DEF RowFollows, Sound, TypeOK
    <3>2. CASE v # i
      BY <2>2, <3>2 DEF RowFollows, Present
    <3> QED
      BY <3>1, <3>2
  <2> QED
    BY <1>1, <1>2, <2>3, <2>4, TracedTurn
<1> QED
  BY <1>3, <1>4

LEMMA TracedStep ==
    ASSUME Identified, Sound, Traced, [Next]_vars
    PROVE  Traced'
<1>1. CASE World
  BY <1>1, TracedWorld
<1>2. ASSUME NEW r \in Requests, RequestStep(r) PROVE Traced'
  <2>1. CASE ClosedStep(r)
    BY <2>1, TracedClosed
  <2>2. CASE \E listing \in BOOLEAN, reading \in Readings : SyncFetch(r, listing, reading)
    BY <2>2, TracedFetch
  <2>3. CASE RowStep(r)
    BY <2>3, TracedMatch, TracedInsert, TracedStale, TracedCommit, TracedCreate DEF RowStep
  <2> QED
    BY <1>2, <2>1, <2>2, <2>3, RequestClosed
<1> QED
  BY <1>1, <1>2, NextSplit

LEMMA TracedInit ==
    ASSUME Identified, Init
    PROVE  Traced
<1>1. \A r \in Requests : reqs[r].kind = "idle"
  BY IdleRequest DEF Init
<1>2. RowsOk
  <2>1. vms \in InitialVms
    BY DEF Init
  <2> QED
    BY <2>1 DEF Identified, RowsOk, OneRowPerIdentity, Present, Typed
<1> QED
  BY <1>1, <1>2 DEF Traced, Apart, Holds, Open

(* When discovery and clients give every row an identity, a machine has one *)
(* row in its tenant unless two synchronisations reported it at a time or a *)
(* client typed its identity, and a row never carries the data of a machine *)
(* with another identity: the three passes of _save_discovered_vms, with    *)
(* what their session has read meanwhile, never take a row by its name.     *)
THEOREM RowsFollowTheirMachines ==
    ASSUME Identified
    PROVE  Spec => []RowsFollowMachines
<1>1. Init => Sound /\ Traced
  BY InitSound, TracedInit
<1>2. Sound /\ Traced /\ [Next]_vars => Sound' /\ Traced'
  BY StepSound, TracedStep
<1>3. Sound /\ Traced => RowsFollowMachines
  BY DEF Sound, Traced, RowsOk, RowsFollowMachines, NeverHijacked
<1> QED
  BY <1>1, <1>2, <1>3, PTL DEF Spec

-----------------------------------------------------------------------------
(* Migrated rows.  A row is migrated for its grade, and keeps it.           *)

GradedStart ==
    \A rows \in InitialVms, v \in Vms :
        rows[v] # None /\ rows[v].status = "migrated" => rows[v].compat # "unknown"

Graded ==
    \A v \in Vms : Present(v) /\ (vms[v].status = "migrated" \/ v \in migrating)
        => vms[v].compat # "unknown"

(* What no step does to a row, and what makes another status of MIGRATED.   *)
Keeps(v) ==
    Present(v)' => \/ /\ Present(v) /\ vms'[v].compat \in PassStatuses \cup {vms[v].compat}
                      /\ vms'[v].status = "migrated" => vms[v].status = "migrated" \/ v \in migrating
                   \/ ~Present(v) /\ vms'[v].status \in Calm
Stays(v) ==
    Present(v) /\ vms[v].status = "migrated" /\ vms'[v] # Gone /\ vms'[v].status # "migrated" =>
        \E r \in Requests :
           \/ reqs'[r].kind = "analyze" /\ reqs'[r].vm = v /\ reqs'[r].force
           \/ Analysis(r) /\ reqs[r].vm = v
           \/ Sync(r, "commit") /\ reqs[r].base[v] # None /\ reqs[r].base[v].status # "migrated"
Begun == \A v \in migrating' : v \in migrating \/ vms'[v].compat # "unknown"
Faithful == Begun /\ \A v \in Vms : Keeps(v) /\ Stays(v)

LEMMA GradedKept ==
    ASSUME Sound, Graded, Faithful
    PROVE  Graded'
<1> SUFFICES ASSUME NEW v \in Vms, Present(v)', vms'[v].status = "migrated" \/ v \in migrating'
             PROVE  vms'[v].compat # "unknown"
  BY DEF Graded
<1>1. CASE /\ Present(v) /\ vms'[v].compat \in PassStatuses \cup {vms[v].compat}
           /\ vms'[v].status = "migrated" => vms[v].status = "migrated" \/ v \in migrating
  BY <1>1 DEF Graded, Faithful, Begun, PassStatuses
<1>2. CASE ~Present(v) /\ vms'[v].status \in Calm
  BY <1>2 DEF Sound, TypeOK, Faithful, Begun, Calm
<1> QED
  BY <1>1, <1>2 DEF Faithful, Keeps

LEMMA SameFaithful ==
    ASSUME vms' = vms, migrating' = migrating
    PROVE  Faithful
BY DEF Faithful, Begun, Keeps, Stays, Present

LEMMA RowSet ==
    ASSUME Sound, NEW u \in Vms, NEW vm \in Vm, Present(u), vms' = [vms EXCEPT ![u] = vm],
           vm.compat \in PassStatuses \cup {vms[u].compat},
           vm.status = "migrated" => vms[u].status = "migrated" \/ u \in migrating
    PROVE  vms'[u] = vm /\ \A v \in Vms : Keeps(v) /\ (v # u => Stays(v))
<1>1. vms'[u] = vm /\ \A v \in Vms \ {u} : vms'[v] = vms[v]
  BY DEF Sound, TypeOK
<1>2. Keeps(u)
  BY <1>1 DEF Keeps
<1>3. \A v \in Vms \ {u} : Keeps(v) /\ Stays(v)
  BY <1>1 DEF Keeps, Stays, Present
<1> QED
  BY <1>1, <1>2, <1>3

LEMMA FaithfulWorld ==
    ASSUME Sound, World
    PROVE  Faithful
<1>1. CASE \E t \in Tenants, name \in HypNames, type \in Types : CreateHypervisor(t, name, type)
  BY <1>1, SameFaithful DEF CreateHypervisor
<1>2. CASE \E h \in Hyps : \E name \in HypNames : UpdateHypervisor(h, name)
  BY <1>2, SameFaithful DEF UpdateHypervisor
<1>3. ASSUME NEW h \in Hyps, DeleteHypervisor(h) PROVE Faithful
  <2>1. migrating' = migrating
    BY <1>3 DEF DeleteHypervisor
  <2>2. ASSUME NEW v \in Vms PROVE Keeps(v) /\ Stays(v)
    <3>1. CASE vms'[v] = vms[v]
      BY <3>1 DEF Keeps, Stays, Present
    <3>2. CASE Present(v) /\ vms'[v] = [vms[v] EXCEPT !.hyp = None]
      <4>1. vms[v] \in Vm
        BY <3>2, PresentRow DEF Sound
      <4>2. vms'[v].compat = vms[v].compat /\ vms'[v].status = vms[v].status
        BY <3>2, <4>1 DEF Vm
      <4> QED
        BY <3>2, <4>2 DEF Keeps, Stays
    <3> QED
      BY <1>3, <3>1, <3>2, DeleteHypervisorWorld
  <2> QED
    BY <2>1, <2>2 DEF Faithful, Begun
<1>4. ASSUME NEW u \in Vms, DeleteVm(u) PROVE Faithful
  <2>1. vms' = [vms EXCEPT ![u] = Gone] /\ migrating' = migrating \ {u}
    BY <1>4 DEF DeleteVm
  <2>2. vms'[u] = Gone /\ \A v \in Vms \ {u} : vms'[v] = vms[v]
    BY <2>1 DEF Sound, TypeOK
  <2> QED
    BY <2>1, <2>2 DEF Faithful, Begun, Keeps, Stays, Present
<1>5. ASSUME NEW u \in Vms, MigrationBegins(u) PROVE Faithful
  <2>1. /\ vms' = vms /\ migrating' = migrating \cup {u}
        /\ vms[u].compat \in {"compatible", "partial"}
    BY <1>5 DEF MigrationBegins, CanMigrate
  <2> QED
    BY <2>1 DEF Faithful, Begun, Keeps, Stays, Present
<1>6. ASSUME NEW u \in Vms, NEW done \in BOOLEAN, MigrationEnds(u, done) PROVE Faithful
  <2> DEFINE vm == [vms[u] EXCEPT !.status = "migrated"]
  <2>1. u \in migrating /\ Present(u) /\ vms[u] \in Vm /\ migrating' = migrating \ {u}
    BY <1>6, PresentRow DEF MigrationEnds, Sound, TypeOK
  <2>2. CASE vms' = vms
    BY <2>1, <2>2 DEF Faithful, Begun, Keeps, Stays, Present
  <2>3. CASE vms' # vms
    <3>1. vms' = [vms EXCEPT ![u] = vm]
      BY <1>6, <2>3 DEF MigrationEnds, Sound, TypeOK
    <3>2. vm \in Vm /\ vm.status = "migrated" /\ vm.compat = vms[u].compat
      BY <2>1 DEF Vm, VmStatuses
    <3> HIDE DEF vm
    <3>3. vms'[u] = vm /\ \A v \in Vms : Keeps(v) /\ (v # u => Stays(v))
      BY <2>1, <3>1, <3>2, RowSet
    <3>4. Stays(u)
      BY <3>2, <3>3 DEF Stays
    <3> QED
      BY <2>1, <3>3, <3>4 DEF Faithful, Begun
  <2> QED
    BY <2>2, <2>3
<1>7. ASSUME NEW u \in Vms, NEW body \in VmBodies, UpdateVm(u, body) PROVE Faithful
  <2> DEFINE vm == [vms[u] EXCEPT !.name = body.name, !.facts = body.facts]
  <2>1. Present(u) /\ vms[u] \in Vm /\ migrating' = migrating
    BY <1>7, PresentRow DEF UpdateVm, Sound
  <2>2. vms' = [vms EXCEPT ![u] = vm]
    BY <1>7, <2>1 DEF UpdateVm, Sound, TypeOK, Vm
  <2>3. vm \in Vm /\ vm.status = vms[u].status /\ vm.compat = vms[u].compat
    BY <2>1, BodyTypes DEF Vm
  <2> HIDE DEF vm
  <2>4. vms'[u] = vm /\ \A v \in Vms : Keeps(v) /\ (v # u => Stays(v))
    BY <2>1, <2>2, <2>3, RowSet
  <2>5. Stays(u)
    BY <2>3, <2>4 DEF Stays
  <2> QED
    BY <2>1, <2>4, <2>5 DEF Faithful, Begun
<1>8. CASE \E to \in Places : MachinesMove(to)
  BY <1>8, SameFaithful DEF MachinesMove
<1>9. CASE UNCHANGED vars
  BY <1>9, SameFaithful DEF vars
<1> QED
  BY <1>1, <1>2, <1>3, <1>4, <1>5, <1>6, <1>7, <1>8, <1>9 DEF World

LEMMA FaithfulCommit ==
    ASSUME Sound, Traced, NEW r \in Requests, SyncCommit(r)
    PROVE  Faithful
<1> DEFINE q == reqs[r]
<1>1. /\ q.at = "commit" /\ q.kind = "sync" /\ \A v \in Vms : RowCommit(r, v)
      /\ migrating' = migrating
  BY CommitFacts
<1>2. Holds(r) /\ Open(r)
  BY <1>1 DEF Traced, Open
<1>3. ASSUME NEW v \in Vms PROVE Keeps(v) /\ Stays(v)
  <2>1. CASE v \in q.new
    <3>1. vms[v] = None /\ vms'[v] = q.now[v]
      BY <1>1, <2>1 DEF RowCommit
    <3>2. q.now[v].status \in Calm
      BY <1>2, <2>1 DEF Holds, NewHeld
    <3> QED
      BY <3>1, <3>2 DEF Keeps, Stays, Present
  <2>2. CASE v \notin q.new /\ q.base[v] # None
    <3>1. /\ q.base[v] \in Vm /\ q.now[v] \in Vm /\ Present(v) /\ vms[v] \in Vm
          /\ vms'[v] = Written(vms[v], q.base[v], q.now[v])
      BY <1>1, <2>2 DEF RowCommit
    <3>2. /\ vms'[v].compat = vms[v].compat
          /\ vms'[v].status = IF q.now[v].status # q.base[v].status THEN q.now[v].status
                              ELSE vms[v].status
      BY <3>1, WrittenType
    <3>3. /\ q.now[v].status \in Calm \cup {q.base[v].status}
          /\ q.base[v].status = "migrated" => q.now[v].status = "migrated"
      BY <1>2, <2>2 DEF Holds, RowHeld
    <3>4. Keeps(v)
      BY <3>1, <3>2, <3>3 DEF Keeps, Calm
    <3>5. Stays(v)
      BY <1>1, <2>2, <3>2, <3>3 DEF Stays, Sync
    <3> QED
      BY <3>4, <3>5
  <2>3. CASE v \notin q.new /\ q.base[v] = None
    <3>1. vms'[v] = vms[v]
      BY <1>1, <2>3, InventoryAssumption DEF RowCommit
    <3> QED
      BY <3>1 DEF Keeps, Stays, Present
  <2> QED
    BY <2>1, <2>2, <2>3
<1> QED
  BY <1>1, <1>3 DEF Faithful, Begun

LEMMA FaithfulCreate ==
    ASSUME Sound, NEW r \in Requests, CreateVmCommit(r)
    PROVE  Faithful
<1>1. migrating' = migrating
  BY CreateFacts
<1>2. CASE vms' = vms
  BY <1>1, <1>2, SameFaithful
<1>3. CASE vms' # vms
  <2>1. PICK i \in Vms, body \in VmBodies : vms[i] = None /\ vms' = [vms EXCEPT ![i] = BodyRow(body)]
    BY <1>3, CreateFacts
  <2>2. vms'[i].status = "discovered" /\ \A v \in Vms \ {i} : vms'[v] = vms[v]
    BY <2>1 DEF BodyRow, Sound, TypeOK
  <2> QED
    BY <1>1, <2>1, <2>2 DEF Faithful, Begun, Keeps, Stays, Present, Calm
<1> QED
  BY <1>2, <1>3

(* A row that was migrated has a grade, so only a forced analysis begins.   *)
LEMMA FaithfulAnalyzeBegin ==
    ASSUME Sound, Graded, NEW r \in Requests, NEW u \in Vms,
           \E force \in BOOLEAN : AnalyzeBegin(r, u, force)
    PROVE  Faithful
<1> DEFINE vm == [vms[u] EXCEPT !.status = "analyzing", !.compat = vms[u].compat]
<1>1. /\ Present(u) /\ (reqs'[r].force \/ vms[u].compat = "unknown") /\ vms' = [vms EXCEPT ![u] = vm]
      /\ reqs'[r].kind = "analyze" /\ reqs'[r].vm = u /\ migrating' = migrating
  BY AnalyzeBeginFacts
<1>2. vms[u] \in Vm
  BY <1>1, PresentRow DEF Sound
<1>3. vm \in Vm /\ vm.status = "analyzing" /\ vm.compat = vms[u].compat
  BY <1>2 DEF Vm, VmStatuses
<1> HIDE DEF vm
<1>4. vms'[u] = vm /\ \A v \in Vms : Keeps(v) /\ (v # u => Stays(v))
  BY <1>1, <1>3, RowSet
<1>5. Stays(u)
  BY <1>1 DEF Stays, Graded
<1> QED
  BY <1>1, <1>4, <1>5 DEF Faithful, Begun

LEMMA FaithfulAnalyzeEnd ==
    ASSUME Sound, NEW r \in Requests,
           AnalyzeFail(r) \/ \E prediction \in Verdicts : AnalyzeCommit(r, prediction)
    PROVE  Faithful
<1>0. PICK u \in Vms : u = reqs[r].vm
  BY AnalyzeEndFacts
<1>1. Analysis(r) /\ migrating' = migrating
  BY AnalyzeEndFacts
<1>2. CASE vms' = vms
  BY <1>1, <1>2, SameFaithful
<1>3. CASE vms' # vms
  <2> DEFINE w == reqs[r].vm
  <2>0. Present(w) /\ \E s \in PassStatuses \cup {"discovered"} : \E c \in PassStatuses \cup {vms[w].compat} :
                          vms' = [vms EXCEPT ![w] = [vms[w] EXCEPT !.status = s, !.compat = c]]
    BY <1>3, AnalyzeEndFacts
  <2>1. Present(u) /\ \E s \in PassStatuses \cup {"discovered"} : \E c \in PassStatuses \cup {vms[u].compat} :
                          vms' = [vms EXCEPT ![u] = [vms[u] EXCEPT !.status = s, !.compat = c]]
    BY <1>0, <2>0
  <2>2. PICK s \in PassStatuses \cup {"discovered"}, c \in PassStatuses \cup {vms[u].compat} :
                          vms' = [vms EXCEPT ![u] = [vms[u] EXCEPT !.status = s, !.compat = c]]
    BY <2>1
  <2> DEFINE vm == [vms[u] EXCEPT !.status = s, !.compat = c]
  <2>3. vms[u] \in Vm
    BY <2>1, PresentRow DEF Sound
  <2>4. vm \in Vm /\ vm.status = s /\ vm.compat = c
    BY <2>3 DEF Vm, VmStatuses, CompatStatuses, PassStatuses
  <2>5. vms' = [vms EXCEPT ![u] = vm]
    BY <2>2
  <2> HIDE DEF vm
  <2>6. \A v \in Vms : Keeps(v) /\ (v # u => Stays(v))
    BY <2>1, <2>4, <2>5, RowSet DEF PassStatuses
  <2>7. Stays(u)
    BY <1>0, <1>1 DEF Stays
  <2> QED
    BY <1>1, <2>6, <2>7 DEF Faithful, Begun
<1> QED
  BY <1>2, <1>3

LEMMA FaithfulStep ==
    ASSUME Sound, Traced, Graded, [Next]_vars
    PROVE  Faithful
<1>1. CASE World
  BY <1>1, FaithfulWorld
<1>2. ASSUME NEW r \in Requests, RequestStep(r) PROVE Faithful
  <2>1. CASE SyncStep(r)
    <3>1. CASE SyncCommit(r)
      BY <3>1, FaithfulCommit
    <3>2. CASE ~SyncCommit(r)
      <4>1. vms' = vms /\ migrating' = migrating
        BY <2>1, <3>2 DEF SyncStep, SyncBegin, SyncFetch, SyncFail, SyncInsert, SyncMatch,
           SyncStale, SyncFlushFails, SyncCount, SyncEnd, SyncOrphaned
      <4> QED
        BY <4>1, SameFaithful
    <3> QED
      BY <3>1, <3>2
  <2>2. CASE \/ \E h \in Hyps : TestBegin(r, h)
             \/ \E listing \in BOOLEAN, reading \in Readings : TestEnd(r, listing, reading)
             \/ \E body \in VmBodies : CreateVmBegin(r, body)
    <3>1. vms' = vms /\ migrating' = migrating
      BY <2>2 DEF TestBegin, TestEnd, CreateVmBegin
    <3> QED
      BY <3>1, SameFaithful
  <2>3. CASE CreateVmCommit(r)
    BY <2>3, FaithfulCreate
  <2>4. CASE \E v \in Vms, force \in BOOLEAN : AnalyzeBegin(r, v, force)
    <3>1. PICK v \in Vms : \E force \in BOOLEAN : AnalyzeBegin(r, v, force)
      BY <2>4
    <3> QED
      BY <3>1, FaithfulAnalyzeBegin
  <2>5. CASE (\E prediction \in Verdicts : AnalyzeCommit(r, prediction)) \/ AnalyzeFail(r)
    BY <2>5, FaithfulAnalyzeEnd
  <2>6. CASE Crash(r)
    BY <2>6, SameFaithful DEF Crash
  <2> QED
    BY <1>2, <2>1, <2>2, <2>3, <2>4, <2>5, <2>6 DEF RequestStep
<1> QED
  BY <1>1, <1>2, NextSplit

-----------------------------------------------------------------------------
(* Mirrors.  While nothing disturbs a session that began alone, the rows it *)
(* has are as it read them, what it reported is in its rows or still to be  *)
(* matched, and in the end what it leaves of the hypervisor is migrated.    *)

Placed(q, vm) == vm.hyp = q.hyp /\ vm.status # "archived" /\ vm.id \in q.seen
Mirror(r) ==
    LET q == reqs[r] IN
    /\ \A v \in Vms : q.base[v] # None => q.base[v] = vms[v]
    /\ \A v \in Vms : q.now[v] # None =>
           Placed(q, q.now[v]) \/ (q.at = "commit" /\ q.now[v].status = "archived")
    /\ \A id \in q.seen : \/ \E data \in q.left : data.id = id
                          \/ \E v \in Vms : q.now[v] # None /\ Placed(q, q.now[v]) /\ q.now[v].id = id
    /\ q.at = "commit" =>
           /\ q.left = {}
           /\ \A v \in Vms : /\ Present(v) /\ q.now[v] = None /\ vms[v].hyp = q.hyp
                             /\ vms[v].id # None /\ vms[v].id \notin q.seen
                             => vms[v].status \in {"migrated", "archived"}

(* Budgets only shrink, and nothing gives back what has begun or ended.     *)
Steady(r) ==
    LET snap == reqs[r].snap IN
    Open(r) /\ snap.alone =>
        /\ \A k \in Kinds : budget[k] <= snap.budget[k]
        /\ budget = snap.budget =>
              /\ Alone(r) /\ migrating \subseteq snap.migrating
              /\ migrating = snap.migrating => Mirror(r)

(* What a step that spends nothing leaves of the others' requests, and of   *)
(* the migrations.                                                          *)
Spends == \E k \in Kinds : Spend(k)
Undisturbed(r) ==
    \/ reqs' = reqs /\ vms' = vms /\ migrating' = migrating
    \/ reqs' = reqs /\ \E v \in migrating : migrating' = migrating \ {v}
    \/ \E p \in Requests \ {r} : reqs[p] # Idle

LEMMA WorldSpends ==
    ASSUME Sound, World
    PROVE  \/ Spends
           \/ budget' = budget /\ \A r \in Requests : Undisturbed(r)
<1>1. CASE \E t \in Tenants, name \in HypNames, type \in Types : CreateHypervisor(t, name, type)
  BY <1>1 DEF CreateHypervisor, Spends, Kinds
<1>2. CASE \E h \in Hyps : DeleteHypervisor(h) \/ \E name \in HypNames : UpdateHypervisor(h, name)
  BY <1>2 DEF DeleteHypervisor, UpdateHypervisor, Spends, Kinds
<1>3. CASE \E v \in Vms : DeleteVm(v) \/ MigrationBegins(v) \/ \E body \in VmBodies : UpdateVm(v, body)
  BY <1>3 DEF DeleteVm, MigrationBegins, UpdateVm, Spends, Kinds
<1>4. CASE \E v \in Vms, done \in BOOLEAN : MigrationEnds(v, done)
  BY <1>4 DEF MigrationEnds, Undisturbed
<1>5. CASE \E to \in Places : MachinesMove(to)
  BY <1>5 DEF MachinesMove, Spends, Kinds
<1>6. CASE UNCHANGED vars
  BY <1>6 DEF vars, Undisturbed
<1> QED
  BY <1>1, <1>2, <1>3, <1>4, <1>5, <1>6 DEF World

LEMMA RequestSpends ==
    ASSUME Sound, NEW p \in Requests, RequestStep(p)
    PROVE  Spends \/ (budget' = budget /\ reqs[p] # Idle)
<1>1. ASSUME reqs[p].kind # "idle" PROVE reqs[p] # Idle
  BY <1>1, IdleRequest
<1>2. CASE SyncStep(p)
  <2>1. CASE \E h \in Hyps : SyncBegin(p, h)
    BY <2>1 DEF SyncBegin, Spends, Kinds
  <2>2. CASE ~\E h \in Hyps : SyncBegin(p, h)
    <3>1. budget' = budget /\ reqs[p].kind = "sync"
      BY <1>2, <2>2 DEF SyncStep, SyncFetch, SyncFail, SyncInsert, SyncMatch,
         SyncStale, SyncCommit, SyncFlushFails, SyncCount, SyncEnd, SyncOrphaned, Sync
    <3> QED
      BY <1>1, <3>1
  <2> QED
    BY <2>1, <2>2
<1>3. CASE (\E h \in Hyps : TestBegin(p, h)) \/ (\E body \in VmBodies : CreateVmBegin(p, body))
  BY <1>3 DEF TestBegin, CreateVmBegin, Spends, Kinds
<1>4. CASE \E v \in Vms, force \in BOOLEAN : AnalyzeBegin(p, v, force)
  BY <1>4 DEF AnalyzeBegin, Spends, Kinds
<1>5. CASE Crash(p)
  BY <1>5 DEF Crash, Spends, Kinds
<1>6. CASE \E listing \in BOOLEAN, reading \in Readings : TestEnd(p, listing, reading)
  <2>1. budget' = budget /\ reqs[p].kind = "test"
    BY <1>6 DEF TestEnd
  <2> QED
    BY <1>1, <2>1
<1>7. CASE CreateVmCommit(p) \/ AnalyzeFail(p) \/ \E prediction \in Verdicts : AnalyzeCommit(p, prediction)
  <2>1. budget' = budget /\ reqs[p].kind \in {"vm", "analyze"}
    BY <1>7 DEF CreateVmCommit, AnalyzeFail, AnalyzeCommit, Analysis
  <2> QED
    BY <1>1, <2>1
<1> QED
  BY <1>2, <1>3, <1>4, <1>5, <1>6, <1>7 DEF RequestStep

LEMMA Spending ==
    ASSUME Sound, Spends
    PROVE  (\A k \in Kinds : budget'[k] <= budget[k]) /\ \E k \in Kinds : budget'[k] < budget[k]
<1>1. PICK i \in Kinds : budget' = [budget EXCEPT ![i] = @ - 1]
  BY DEF Spends, Spend
<1>2. budget \in [Kinds -> Nat]
  BY DEF Sound, TypeOK
<1>3. budget'[i] = budget[i] - 1 /\ \A k \in Kinds \ {i} : budget'[k] = budget[k]
  BY <1>1, <1>2
<1>4. \A k \in Kinds : budget[k] \in Nat
  BY <1>2
<1> HIDE DEF Kinds
<1>5. \A k \in Kinds : budget'[k] <= budget[k]
  <2> TAKE k \in Kinds
  <2>1. CASE k = i
    BY <1>3, <1>4, <2>1
  <2>2. CASE k # i
    BY <1>3, <1>4, <2>2
  <2> QED
    BY <2>1, <2>2
<1>6. budget'[i] < budget[i]
  BY <1>3, <1>4
<1> QED
  BY <1>5, <1>6

(* What others do, and what the world does.                                 *)
LEMMA SteadyKept ==
    ASSUME Sound, Sound', NEW r \in Requests, Steady(r), reqs'[r] = reqs[r],
           Spends \/ (budget' = budget /\ Undisturbed(r))
    PROVE  Steady(r)'
<1> DEFINE snap == reqs[r].snap
<1> SUFFICES ASSUME Open(r), snap.alone
             PROVE  /\ \A k \in Kinds : budget'[k] <= snap.budget[k]
                    /\ budget' = snap.budget =>
                          /\ Alone(r)' /\ migrating' \subseteq snap.migrating
                          /\ migrating' = snap.migrating => Mirror(r)'
  BY DEF Steady, Open
<1>1. /\ \A k \in Kinds : budget[k] <= snap.budget[k]
      /\ budget = snap.budget =>
            /\ Alone(r) /\ migrating \subseteq snap.migrating
            /\ migrating = snap.migrating => Mirror(r)
  BY DEF Steady
<1>2. snap \in Snaps
  BY SyncRequest, SyncFields DEF Open
<1>3. snap.budget \in [Kinds -> Nat] /\ budget \in [Kinds -> Nat] /\ budget' \in [Kinds -> Nat]
  BY <1>2 DEF Snaps, Sound, TypeOK
<1>4. \A k \in Kinds : snap.budget[k] \in Nat /\ budget[k] \in Nat /\ budget'[k] \in Nat
  BY <1>3
<1>5. CASE Spends
  <2>1. PICK i \in Kinds : budget'[i] < budget[i]
    BY <1>5, Spending
  <2>2. \A k \in Kinds : budget'[k] <= budget[k]
    BY <1>5, Spending
  <2> HIDE DEF snap, Kinds
  <2>3. \A k \in Kinds : budget'[k] <= snap.budget[k]
    BY <1>1, <1>4, <2>2
  <2>4. budget'[i] < snap.budget[i]
    BY <1>1, <1>4, <2>1
  <2>5. budget' # snap.budget
    BY <1>4, <2>4
  <2> QED
    BY <2>3, <2>5 DEF snap
<1>6. CASE budget' = budget /\ Undisturbed(r)
  <2> SUFFICES ASSUME budget = snap.budget
               PROVE  /\ Alone(r)' /\ migrating' \subseteq snap.migrating
                      /\ migrating' = snap.migrating => Mirror(r)'
    BY <1>1, <1>6
  <2>1. Alone(r) /\ migrating \subseteq snap.migrating /\ (migrating = snap.migrating => Mirror(r))
    BY <1>1
  <2>2. CASE reqs' = reqs /\ vms' = vms /\ migrating' = migrating
    BY <2>1, <2>2 DEF Alone, Mirror, Placed, Present
  <2>3. CASE reqs' = reqs /\ \E v \in migrating : migrating' = migrating \ {v}
    BY <2>1, <2>3 DEF Alone
  <2> QED
    BY <1>6, <2>1, <2>2, <2>3 DEF Undisturbed, Alone
<1> QED
  BY <1>5, <1>6

LEMMA SteadyFetch ==
    ASSUME Sound, NEW r \in Requests, NEW listing \in BOOLEAN, NEW reading \in Readings,
           SyncFetch(r, listing, reading)
    PROVE  Steady(r)'
<1> DEFINE p == reqs'[r]
<1>1. /\ reqs' = [reqs EXCEPT ![r] = p] /\ p.at = "match"
      /\ p.seen = {data.id : data \in p.left}
      /\ \A v \in Vms : p.base[v] = None /\ p.now[v] = None
      /\ UNCHANGED <<vms, migrating, budget>>
  BY FetchFacts DEF QuietFacts
<1>0. p.snap = Snap(Alone(r))
  BY FetchFacts, Zenon
<1>2. \A s \in Requests \ {r} : reqs'[s] = reqs[s]
  BY <1>1 DEF Sound
<1>3. Mirror(r)'
  BY <1>1 DEF Mirror
<1>4. CASE ~Alone(r)
  BY <1>0, <1>4 DEF Steady, Snap, NoSnap
<1>5. CASE Alone(r)
  <2>1. p.snap.budget = budget /\ p.snap.migrating = migrating
    BY <1>0, <1>5 DEF Snap
  <2>2. Alone(r)'
    BY <1>2, <1>5 DEF Alone
  <2>3. \A k \in Kinds : budget'[k] <= p.snap.budget[k]
    <3>1. \A k \in Kinds : budget[k] \in Nat
      BY DEF Sound, TypeOK
    <3> QED
      BY <1>1, <2>1, <3>1
  <2> QED
    BY <1>1, <1>3, <2>1, <2>2, <2>3 DEF Steady
<1> QED
  BY <1>4, <1>5

LEMMA SteadyTurn ==
    ASSUME Sound, NEW r \in Requests, Steady(r), Open(r), reqs' = [reqs EXCEPT ![r] = reqs'[r]],
           reqs'[r].snap = reqs[r].snap, UNCHANGED <<migrating, budget>>, Mirror(r) => Mirror(r)'
    PROVE  Steady(r)'
<1>1. \A s \in Requests \ {r} : reqs'[s] = reqs[s]
  BY DEF Sound
<1>2. Alone(r) => Alone(r)'
  BY <1>1 DEF Alone
<1> QED
  BY <1>2 DEF Steady

LEMMA MirrorMatch ==
    ASSUME Sound, Traced, NEW r \in Requests, NEW data, NEW v \in Vms, SyncMatch(r, data, v), Mirror(r)
    PROVE  Mirror(r)'
<1> DEFINE q == reqs[r]
           p == reqs'[r]
           vm == Loaded(r, v)
<1>1. /\ q \in SyncReq /\ q.at = "match" /\ data \in q.left /\ v \in Matches(r, data) /\ data \in VmData
      /\ p \in SyncReq /\ p.at = "match" /\ p.hyp = q.hyp /\ p.seen = q.seen
      /\ p.left = q.left \ {data}
      /\ \A w \in Vms \ {v} : p.base[w] = q.base[w] /\ p.now[w] = q.now[w]
      /\ p.base[v] = (IF q.base[v] = None /\ v \notin q.new THEN vms[v] ELSE q.base[v])
      /\ p.now[v].id = (IF vm.id = None THEN data.id ELSE vm.id)
      /\ p.now[v].status = (IF vm.status = "archived" THEN "discovered" ELSE vm.status)
      /\ p.now[v].hyp = (IF Pass1(r, data) = {} /\ Pass2(r, data) # {} THEN q.hyp ELSE vm.hyp)
      /\ p.now[v] \in Vm /\ vms' = vms
  BY MatchFacts
<1>2. q.kind = "sync"
  BY <1>1, SyncFields
<1>3. /\ \A w \in Vms : q.base[w] # None => q.base[w] = vms[w]
      /\ \A w \in Vms : q.now[w] # None => Placed(q, q.now[w])
      /\ \A id \in q.seen : \/ \E d \in q.left : d.id = id
                            \/ \E w \in Vms : q.now[w] # None /\ Placed(q, q.now[w]) /\ q.now[w].id = id
  BY <1>1 DEF Mirror
<1>4. vm.id = data.id /\ vm.id # None /\ v \in SeenRows(r) /\ Seen(r, v).id = vm.id /\ vm.id # None
  BY <1>1, <1>2, MatchHonest, SeenHonest
<1>5. data.id \in q.seen
  BY <1>1, <1>2 DEF Traced, Holds, Open
<1>6. p.now[v].hyp = q.hyp
  <2>1. CASE Pass1(r, data) # {}
    <3>1. Seen(r, v).hyp = q.hyp
      BY <1>1, <2>1 DEF Matches, Pass1
    <3>2. vm.hyp = q.hyp
      <4>1. CASE q.now[v] = None
        BY <1>2, <1>4, <3>1, <4>1, LoadedRow
      <4>2. CASE q.now[v] # None
        BY <1>2, <1>3, <1>4, <4>2, LoadedRow DEF Placed
      <4> QED
        BY <4>1, <4>2
    <3> QED
      BY <1>1, <2>1, <3>2
  <2>2. CASE Pass1(r, data) = {} /\ Pass2(r, data) # {}
    BY <1>1, <2>2
  <2>3. CASE Pass1(r, data) = {} /\ Pass2(r, data) = {}
    <3>1. v \in Pass3(r, data)
      BY <1>1, <2>3 DEF Matches
    <3> QED
      BY <1>4, <3>1 DEF Pass3
  <2> QED
    BY <2>1, <2>2, <2>3
<1>7. Placed(p, p.now[v]) /\ p.now[v].id = data.id /\ p.now[v] # None
  BY <1>1, <1>4, <1>5, <1>6, InventoryAssumption DEF Placed
<1> HIDE DEF vm
<1>8. \A w \in Vms : p.base[w] # None => p.base[w] = vms[w]
  BY <1>1, <1>3
<1>9. \A w \in Vms : p.now[w] # None => Placed(p, p.now[w])
  BY <1>1, <1>3, <1>7 DEF Placed
<1>10. ASSUME NEW id \in q.seen
       PROVE  \/ \E d \in p.left : d.id = id
              \/ \E w \in Vms : p.now[w] # None /\ Placed(p, p.now[w]) /\ p.now[w].id = id
  <2>1. CASE id = data.id
    BY <1>7, <2>1
  <2>2. CASE id # data.id /\ \E d \in q.left : d.id = id
    BY <1>1, <2>2
  <2>3. CASE id # data.id /\ \E w \in Vms : q.now[w] # None /\ q.now[w].id = id
    <3>1. PICK w \in Vms : q.now[w] # None /\ q.now[w].id = id
      BY <2>3
    <3>2. w # v
      <4>1. q.now[v] # None => vm = q.now[v]
        BY <1>2, <1>4, LoadedRow DEF vm
      <4> QED
        BY <1>4, <2>3, <3>1, <4>1
    <3> QED
      BY <1>1, <1>9, <3>1, <3>2
  <2> QED
    BY <1>3, <2>1, <2>2, <2>3
<1> QED
  BY <1>1, <1>8, <1>9, <1>10 DEF Mirror

LEMMA MirrorInsert ==
    ASSUME Sound, Traced, NEW r \in Requests, NEW data, SyncInsert(r, data), Mirror(r)
    PROVE  Mirror(r)'
<1> DEFINE q == reqs[r]
           p == reqs'[r]
<1>0. PICK i \in Vms : i = NewId
  BY InsertFacts
<1>1. /\ q \in SyncReq /\ q.at = "match" /\ data \in q.left /\ data \in VmData
      /\ \A s \in Requests : reqs[s].kind = "sync" => i \notin reqs[s].new
      /\ p \in SyncReq /\ p.at = "match" /\ p.hyp = q.hyp /\ p.seen = q.seen
      /\ p.left = q.left \ {data} /\ p.base = q.base /\ q.base[i] = None
      /\ \A w \in Vms \ {i} : p.now[w] = q.now[w]
      /\ p.now[i] = Created(q, data) /\ vms' = vms
  BY <1>0, InsertFacts
<1>2. q.kind = "sync"
  BY <1>1, SyncFields
<1>3. /\ \A w \in Vms : q.base[w] # None => q.base[w] = vms[w]
      /\ \A w \in Vms : q.now[w] # None => Placed(q, q.now[w])
      /\ \A id \in q.seen : \/ \E d \in q.left : d.id = id
                            \/ \E w \in Vms : q.now[w] # None /\ Placed(q, q.now[w]) /\ q.now[w].id = id
  BY <1>1 DEF Mirror
<1>4. q.now[i] = None
  BY <1>1, <1>2 DEF Sound, Session
<1>5. data.id \in q.seen
  BY <1>1, <1>2 DEF Traced, Holds, Open
<1>6. Placed(p, p.now[i]) /\ p.now[i].id = data.id /\ p.now[i] # None
  <2>1. /\ p.now[i] \in Vm /\ p.now[i].hyp = q.hyp /\ p.now[i].id = data.id
        /\ p.now[i].status = "discovered"
    BY <1>1, CreatedType
  <2> QED
    BY <1>1, <1>5, <2>1, InventoryAssumption DEF Placed
<1>7. \A w \in Vms : p.now[w] # None => Placed(p, p.now[w])
  BY <1>1, <1>3, <1>6 DEF Placed
<1>8. ASSUME NEW id \in q.seen
      PROVE  \/ \E d \in p.left : d.id = id
             \/ \E w \in Vms : p.now[w] # None /\ Placed(p, p.now[w]) /\ p.now[w].id = id
  <2>1. CASE id = data.id
    BY <1>6, <2>1
  <2>2. CASE id # data.id /\ \E d \in q.left : d.id = id
    BY <1>1, <2>2
  <2>3. CASE \E w \in Vms : q.now[w] # None /\ q.now[w].id = id
    <3>1. PICK w \in Vms : q.now[w] # None /\ q.now[w].id = id
      BY <2>3
    <3> QED
      BY <1>1, <1>4, <1>7, <3>1
  <2> QED
    BY <1>3, <2>1, <2>2, <2>3
<1> QED
  BY <1>1, <1>3, <1>7, <1>8 DEF Mirror

LEMMA MirrorStale ==
    ASSUME Sound, Traced, NEW r \in Requests, SyncStale(r), Mirror(r)
    PROVE  Mirror(r)'
<1> DEFINE q == reqs[r]
           p == reqs'[r]
           S == Stale(r)
<1>1. /\ q \in SyncReq /\ q.at = "match" /\ S \subseteq SeenRows(r)
      /\ p \in SyncReq /\ p.at = "commit" /\ p.hyp = q.hyp /\ p.seen = q.seen /\ p.left = q.left
      /\ \A w \in Vms \ S : p.base[w] = q.base[w] /\ p.now[w] = q.now[w]
      /\ \A w \in S : /\ p.base[w] = IF q.base[w] = None /\ w \notin q.new THEN vms[w] ELSE q.base[w]
                      /\ q.base[w] = None /\ w \notin q.new => q.now[w] = None
                      /\ p.now[w] = [Loaded(r, w) EXCEPT !.status = "archived"]
                      /\ Loaded(r, w) \in Vm
      /\ vms' = vms
  BY StaleFacts
<1>2. q.left = {}
  BY DEF SyncStale
<1>3. q.kind = "sync" /\ Session(r)
  BY <1>1, SyncFields DEF Sound
<1>4. /\ \A w \in Vms : q.base[w] # None => q.base[w] = vms[w]
      /\ \A w \in Vms : q.now[w] # None => Placed(q, q.now[w])
      /\ \A id \in q.seen : \/ \E d \in q.left : d.id = id
                            \/ \E w \in Vms : q.now[w] # None /\ Placed(q, q.now[w]) /\ q.now[w].id = id
  BY <1>1 DEF Mirror
<1>5. ASSUME NEW w \in S
      PROVE  /\ w \in Vms /\ q.now[w] = None /\ p.base[w] = vms[w]
             /\ p.now[w].status = "archived" /\ p.now[w] # None
  <2>1. w \in Vms /\ q.base[w] = None /\ w \notin q.new
    BY StaleRows
  <2>2. p.now[w].status = "archived" /\ p.now[w] \in Vm
    <3>1. PICK vm \in Vm : p.now[w] = [vm EXCEPT !.status = "archived"]
      BY <1>1
    <3> QED
      BY <3>1 DEF Vm, VmStatuses
  <2> QED
    BY <1>1, <2>1, <2>2, InventoryAssumption
<1>6. ASSUME NEW w \in Vms, Present(w), p.now[w] = None, vms[w].hyp = q.hyp, vms[w].id # None,
             vms[w].id \notin q.seen
      PROVE  vms[w].status \in {"migrated", "archived"}
  <2>1. w \notin S /\ q.now[w] = None
    BY <1>1, <1>5, <1>6
  <2>2. w \notin q.flushed
    BY <1>3, <2>1 DEF Session
  <2>3. Seen(r, w) = vms[w] /\ w \in SeenRows(r)
    BY <1>6, <2>2 DEF Seen, SeenRows, Present
  <2> QED
    BY <1>6, <2>1, <2>3 DEF Stale
<1> HIDE DEF S
<1>7. \A w \in Vms : p.base[w] # None => p.base[w] = vms[w]
  BY <1>1, <1>4, <1>5
<1>8. \A w \in Vms : p.now[w] # None => Placed(p, p.now[w]) \/ p.now[w].status = "archived"
  BY <1>1, <1>4, <1>5 DEF Placed
<1>9. ASSUME NEW id \in q.seen
      PROVE  \E w \in Vms : p.now[w] # None /\ Placed(p, p.now[w]) /\ p.now[w].id = id
  <2>1. PICK w \in Vms : q.now[w] # None /\ Placed(q, q.now[w]) /\ q.now[w].id = id
    BY <1>2, <1>4
  <2>2. w \notin S
    BY <1>5, <2>1
  <2> QED
    BY <1>1, <2>1, <2>2 DEF Placed
<1> QED
  BY <1>1, <1>2, <1>6, <1>7, <1>8, <1>9 DEF Mirror, Present

LEMMA StepKeepsOthers ==
    ASSUME Sound, NEW p \in Requests, RequestStep(p), NEW r \in Requests \ {p}
    PROVE  reqs'[r] = reqs[r]
<1>1. reqs' = [reqs EXCEPT ![p] = reqs'[p]]
  <2>1. CASE ClosedStep(p)
    BY <2>1 DEF ClosedStep, QuietFacts
  <2>2. CASE \E listing \in BOOLEAN, reading \in Readings : SyncFetch(p, listing, reading)
    BY <2>2, FetchFacts DEF QuietFacts
  <2>3. CASE RowStep(p)
    <3>1. CASE \E data \in reqs[p].left : SyncInsert(p, data) \/ \E v \in Vms : SyncMatch(p, data, v)
      BY <3>1, MatchFacts, InsertFacts
    <3>2. CASE SyncStale(p) \/ SyncCommit(p)
      BY <3>2, StaleFacts, CommitFacts
    <3>3. CASE CreateVmCommit(p)
      BY <3>3, CreateFacts
    <3> QED
      BY <2>3, <3>1, <3>2, <3>3 DEF RowStep
  <2> QED
    BY <2>1, <2>2, <2>3, RequestClosed
<1> QED
  BY <1>1 DEF Sound

LEMMA SteadyStep ==
    ASSUME Sound, Traced, Sound', \A r \in Requests : Steady(r), [Next]_vars
    PROVE  \A r \in Requests : Steady(r)'
<1> TAKE r \in Requests
<1>1. CASE World
  BY <1>1, WorldStep, WorldSpends, SteadyKept DEF WorldFacts
<1>2. ASSUME NEW p \in Requests \ {r}, RequestStep(p) PROVE Steady(r)'
  <2>1. reqs'[r] = reqs[r]
    BY <1>2, StepKeepsOthers
  <2> QED
    BY <1>2, <2>1, RequestSpends, SteadyKept DEF Undisturbed
<1>3. CASE RequestStep(r)
  <2>1. CASE ClosedStep(r)
    BY <2>1 DEF ClosedStep, Steady
  <2>2. CASE \E listing \in BOOLEAN, reading \in Readings : SyncFetch(r, listing, reading)
    BY <2>2, SteadyFetch
  <2>3. ASSUME NEW data, NEW v \in Vms, SyncMatch(r, data, v) PROVE Steady(r)'
    <3>1. /\ reqs' = [reqs EXCEPT ![r] = reqs'[r]] /\ reqs[r] \in SyncReq /\ reqs[r].at = "match"
          /\ reqs'[r].snap = reqs[r].snap /\ UNCHANGED <<migrating, budget>>
      BY <2>3, MatchFacts
    <3>2. Open(r)
      BY <3>1, SyncFields DEF Open
    <3> QED
      BY <2>3, <3>1, <3>2, MirrorMatch, SteadyTurn
  <2>4. ASSUME NEW data, SyncInsert(r, data) PROVE Steady(r)'
    <3>1. /\ reqs' = [reqs EXCEPT ![r] = reqs'[r]] /\ reqs[r] \in SyncReq /\ reqs[r].at = "match"
          /\ reqs'[r].snap = reqs[r].snap /\ UNCHANGED <<migrating, budget>>
      BY <2>4, InsertFacts
    <3>2. Open(r)
      BY <3>1, SyncFields DEF Open
    <3> QED
      BY <2>4, <3>1, <3>2, MirrorInsert, SteadyTurn
  <2>5. CASE SyncStale(r)
    <3>1. /\ reqs' = [reqs EXCEPT ![r] = reqs'[r]] /\ reqs[r] \in SyncReq /\ reqs[r].at = "match"
          /\ reqs'[r].snap = reqs[r].snap /\ UNCHANGED <<migrating, budget>>
      BY <2>5, StaleFacts
    <3>2. Open(r)
      BY <3>1, SyncFields DEF Open
    <3> QED
      BY <2>5, <3>1, <3>2, MirrorStale, SteadyTurn
  <2>6. CASE SyncCommit(r)
    <3>1. reqs'[r].at = "count"
      BY <2>6, CommitFacts
    <3> QED
      BY <3>1 DEF Steady, Open
  <2>7. CASE CreateVmCommit(r)
    <3>1. reqs'[r].kind = "idle"
      BY <2>7, CreateFacts, IdleRequest
    <3> QED
      BY <3>1 DEF Steady, Open
  <2> QED
    BY <1>3, <2>1, <2>2, <2>3, <2>4, <2>5, <2>6, <2>7, RequestClosed DEF RowStep
<1> QED
  BY <1>1, <1>2, <1>3, NextSplit

(* Only a commit leads a session from its commit to its count.              *)
LEMMA CommitsOnly ==
    ASSUME Sound, [Next]_vars, NEW r \in Requests, Sync(r, "commit"), Sync(r, "count")'
    PROVE  SyncCommit(r)
<1>1. reqs[r] \in SyncReq /\ reqs[r].kind = "sync" /\ reqs[r].at = "commit" /\ reqs'[r].at = "count"
      /\ reqs'[r].kind = "sync"
  BY SyncRequest DEF Sync
<1>2. CASE World
  BY <1>1, <1>2, WorldStep DEF WorldFacts
<1>3. ASSUME NEW p \in Requests \ {r}, RequestStep(p) PROVE FALSE
  BY <1>1, <1>3, StepKeepsOthers
<1>4. CASE RequestStep(r)
  <2>1. CASE \E h \in Hyps : SyncBegin(r, h)
    BY <1>1, <2>1, IdleRequest DEF SyncBegin, Ready
  <2>2. CASE SyncFail(r) \/ SyncFlushFails(r) \/ SyncEnd(r) \/ SyncOrphaned(r) \/ Crash(r)
             \/ CreateVmCommit(r) \/ AnalyzeFail(r)
             \/ (\E prediction \in Verdicts : AnalyzeCommit(r, prediction))
             \/ (\E listing \in BOOLEAN, reading \in Readings : TestEnd(r, listing, reading))
    <3>1. reqs' = [reqs EXCEPT ![r] = Idle]
      BY <2>2 DEF SyncFail, SyncFlushFails, SyncEnd, SyncOrphaned, Crash, CreateVmCommit,
                  AnalyzeFail, AnalyzeCommit, TestEnd
    <3> QED
      BY <1>1, <3>1, ReqsSet, IdleRequest
  <2>3. CASE \/ \E listing \in BOOLEAN, reading \in Readings : SyncFetch(r, listing, reading)
             \/ \E data \in IF Sync(r, "match") THEN reqs[r].left ELSE {} :
                   SyncInsert(r, data) \/ \E v \in Vms : SyncMatch(r, data, v)
             \/ SyncStale(r) \/ SyncCount(r)
    BY <1>1, <2>3 DEF SyncFetch, SyncInsert, SyncMatch, SyncStale, SyncCount, Sync
  <2>4. CASE \/ \E h \in Hyps : TestBegin(r, h)
             \/ \E body \in VmBodies : CreateVmBegin(r, body)
             \/ \E v \in Vms, force \in BOOLEAN : AnalyzeBegin(r, v, force)
    BY <1>1, <2>4, IdleRequest DEF TestBegin, CreateVmBegin, AnalyzeBegin, Ready
  <2> QED
    BY <1>4, <2>1, <2>2, <2>3, <2>4 DEF RequestStep, SyncStep
<1> QED
  BY <1>2, <1>3, <1>4, NextSplit

LEMMA MirrorCommit ==
    ASSUME Sound, Traced, NEW r \in Requests, SyncCommit(r), Mirror(r)
    PROVE  LET live == {v \in Vms : /\ vms'[v] \notin {None, Gone} /\ vms'[v].status # "archived"
                                    /\ vms'[v].hyp = reqs[r].hyp /\ vms'[v].id # None}
           IN  /\ reqs[r].seen \subseteq {vms'[v].id : v \in live}
               /\ \A v \in live : vms'[v].id \in reqs[r].seen \/ vms'[v].status = "migrated"
<1> DEFINE q == reqs[r]
           live == {v \in Vms : /\ vms'[v] \notin {None, Gone} /\ vms'[v].status # "archived"
                                /\ vms'[v].hyp = q.hyp /\ vms'[v].id # None}
<1>1. /\ q \in SyncReq /\ q.at = "commit" /\ q.kind = "sync"
      /\ \A v \in Vms : RowCommit(r, v)
  BY CommitFacts
<1>2. /\ Session(r) /\ q.seen \in SUBSET Identities /\ q.new \in SUBSET Vms
      /\ \A v \in Vms : q.now[v] # None => v \in q.new \/ q.base[v] # None
  BY <1>1, SyncFields DEF Sound, Session
<1>3. /\ \A v \in Vms : q.base[v] # None => q.base[v] = vms[v]
      /\ \A v \in Vms : q.now[v] # None => Placed(q, q.now[v]) \/ q.now[v].status = "archived"
      /\ \A id \in q.seen : \E v \in Vms : q.now[v] # None /\ Placed(q, q.now[v]) /\ q.now[v].id = id
      /\ \A v \in Vms : /\ Present(v) /\ q.now[v] = None /\ vms[v].hyp = q.hyp
                        /\ vms[v].id # None /\ vms[v].id \notin q.seen
                        => vms[v].status \in {"migrated", "archived"}
  BY <1>1 DEF Mirror
(* A commit writes what the session has, for nothing came between.          *)
<1>4. ASSUME NEW v \in Vms, q.now[v] # None
      PROVE  /\ vms'[v] \in Vm /\ vms'[v].hyp = q.now[v].hyp /\ vms'[v].id = q.now[v].id
             /\ vms'[v].status = q.now[v].status
  <2>1. CASE v \in q.new
    BY <1>1, <2>1 DEF RowCommit
  <2>2. CASE v \notin q.new
    <3>1. q.base[v] # None /\ q.base[v] = vms[v]
      BY <1>2, <1>3, <1>4, <2>2
    <3>2. vms[v] \in Vm /\ q.now[v] \in Vm /\ vms'[v] = Written(vms[v], vms[v], q.now[v])
      BY <1>1, <2>2, <3>1 DEF RowCommit
    <3>3. /\ vms'[v] \in Vm /\ vms'[v].id = q.now[v].id /\ vms'[v].status = q.now[v].status
          /\ vms'[v].hyp = q.now[v].hyp
      BY <3>2, WrittenType
    <3> QED
      BY <3>3
  <2> QED
    BY <2>1, <2>2
<1>5. ASSUME NEW v \in Vms, q.now[v] = None PROVE vms'[v] = vms[v]
  <2>1. v \notin q.new /\ q.base[v] = None
    BY <1>1, <1>2, <1>5, InventoryAssumption DEF RowCommit
  <2> QED
    BY <1>1, <2>1, InventoryAssumption DEF RowCommit
<1>6. ASSUME NEW id \in q.seen PROVE \E v \in live : vms'[v].id = id
  <2>1. PICK v \in Vms : q.now[v] # None /\ Placed(q, q.now[v]) /\ q.now[v].id = id
    BY <1>3
  <2>2. id # None
    BY <1>2, InventoryAssumption
  <2> QED
    BY <1>4, <2>1, <2>2, InventoryAssumption DEF Placed
<1>7. ASSUME NEW v \in live PROVE vms'[v].id \in q.seen \/ vms'[v].status = "migrated"
  <2>1. CASE q.now[v] # None
    BY <1>3, <1>4, <1>7, <2>1 DEF Placed
  <2>2. CASE q.now[v] = None
    BY <1>3, <1>5, <1>7, <2>2 DEF Present
  <2> QED
    BY <2>1, <2>2
<1> QED
  BY <1>6, <1>7

LEMMA Mirrors ==
    ASSUME Sound, Traced, \A r \in Requests : Steady(r), [Next]_vars
    PROVE  SyncMirrors
<1> SUFFICES ASSUME NEW r \in Requests, Sync(r, "commit"), Sync(r, "count")', reqs[r].snap = Snap(TRUE)
             PROVE  LET live == {v \in Vms : /\ vms'[v] \notin {None, Gone} /\ vms'[v].status # "archived"
                                             /\ vms'[v].hyp = reqs[r].hyp /\ vms'[v].id # None}
                    IN  /\ reqs[r].seen \subseteq {vms'[v].id : v \in live}
                        /\ \A v \in live : vms'[v].id \in reqs[r].seen \/ vms'[v].status = "migrated"
  BY DEF SyncMirrors
<1>1. reqs[r].snap.alone /\ reqs[r].snap.budget = budget /\ reqs[r].snap.migrating = migrating
  BY DEF Snap
<1>2. Mirror(r)
  BY <1>1 DEF Steady, Sync, Open
<1> QED
  BY <1>2, CommitsOnly, MirrorCommit

(* When moreover the rows that are migrated at the start have a grade, a    *)
(* migrated row keeps its status except for an analysis that runs or begins *)
(* by force, and for a synchronisation that read the row before its         *)
(* migration ended: _save_discovered_vms archives nothing that is MIGRATED. *)
(* And a synchronisation that nothing disturbs makes the live rows of its   *)
(* hypervisor the machines that its source reported, migrated ones aside.   *)
THEOREM SynchronisationsFollowSources ==
    ASSUME Identified, GradedStart
    PROVE  Spec => SyncFollowsSource
<1> DEFINE Inv == Sound /\ Traced /\ Graded /\ \A r \in Requests : Steady(r)
<1>1. Init => Inv
  <2>1. Init => Graded
    BY DEF Init, GradedStart, Graded, Present
  <2>2. Init => \A r \in Requests : Steady(r)
    BY IdleRequest DEF Init, Steady, Open
  <2> QED
    BY <2>1, <2>2, InitSound, TracedInit
<1>2. Inv /\ [Next]_vars => Inv' /\ MigratedStays /\ SyncMirrors
  <2> SUFFICES ASSUME Inv, [Next]_vars
               PROVE  Inv' /\ MigratedStays /\ SyncMirrors
    OBVIOUS
  <2>1. Faithful
    BY FaithfulStep
  <2>2. MigratedStays
    BY <2>1 DEF Faithful, Stays, MigratedStays
  <2>3. Sound' /\ Traced' /\ Graded'
    BY <2>1, StepSound, TracedStep, GradedKept
  <2>4. \A r \in Requests : Steady(r)'
    BY <2>3, SteadyStep
  <2>5. SyncMirrors
    BY Mirrors
  <2> QED
    BY <2>2, <2>3, <2>4, <2>5
<1> QED
  BY <1>1, <1>2, PTL DEF Spec, SyncFollowsSource

-----------------------------------------------------------------------------
(* Hypervisors of the tenant.  A row, a body and a session name one of      *)
(* their own tenant, or one that was deleted.                               *)

OfTenant(rows, h, t) ==
    \/ h = None
    \/ h \in Hyps /\ rows[h] = Gone
    \/ h \in Hyps /\ rows[h] \in Hyp /\ rows[h].tenant = t

OwnHypervisors ==
    \A first \in InitialHyps :
        /\ \A rows \in InitialVms, v \in Vms : rows[v] # None /\ rows[v].hyp # None =>
              first[rows[v].hyp] \in Hyp /\ first[rows[v].hyp].tenant = rows[v].tenant
        /\ \A body \in VmBodies : body.hyp # None =>
              first[body.hyp] \in Hyp /\ first[body.hyp].tenant = body.tenant

(* The tenant of an object that a session has is that of its row, and its   *)
(* hypervisor is the one it was read with unless the session attached it.   *)
RowLodged(r, v) ==
    LET q == reqs[r] IN
    /\ vms[v] # None /\ q.now[v].tenant = q.base[v].tenant
    /\ Present(v) => vms[v].tenant = q.base[v].tenant
    /\ q.now[v].hyp # q.base[v].hyp => q.now[v].hyp = q.hyp /\ q.now[v].tenant = q.tenant
NewLodged(r, v) == reqs[r].now[v].hyp = reqs[r].hyp /\ reqs[r].now[v].tenant = reqs[r].tenant
Lodges(r) ==
    /\ reqs[r].kind = "sync" => OfTenant(hyps, reqs[r].hyp, reqs[r].tenant)
    /\ Open(r) => /\ \A v \in Vms : reqs[r].base[v] # None => RowLodged(r, v)
                  /\ \A v \in reqs[r].new : NewLodged(r, v)

Lodged(v) == Present(v) => OfTenant(hyps, vms[v].hyp, vms[v].tenant)
BodiesLodged == \A body \in VmBodies : OfTenant(hyps, body.hyp, body.tenant)
Housed == BodiesLodged /\ (\A v \in Vms : Lodged(v)) /\ \A r \in Requests : Lodges(r)

(* No step gives a hypervisor to another tenant, a row to another tenant or *)
(* to another hypervisor, or an id that was taken to anything else.         *)
KeptHyp(h) ==
    \/ hyps[h] = None \/ hyps'[h] \in {hyps[h], Gone}
    \/ hyps[h] \in Hyp /\ hyps'[h] \in Hyp /\ hyps'[h].tenant = hyps[h].tenant
KeptRow(v) ==
    /\ vms[v] # None => vms'[v] # None
    /\ vms[v] # None /\ Present(v)' => Present(v) /\ vms'[v].tenant = vms[v].tenant
StayedRow(v) ==
    Present(v)' => Present(v) /\ vms'[v].tenant = vms[v].tenant /\ vms'[v].hyp \in {vms[v].hyp, None}

LEMMA KeptTenant ==
    ASSUME TypeOK, \A h \in Hyps : KeptHyp(h), NEW g, NEW t, OfTenant(hyps, g, t)
    PROVE  OfTenant(hyps', g, t)
<1>1. CASE g = None
  BY <1>1 DEF OfTenant
<1>2. CASE g \in Hyps /\ hyps[g] = Gone
  <2>1. hyps'[g] = Gone
    BY <1>2, PresentHyp DEF KeptHyp
  <2> QED
    BY <1>2, <2>1 DEF OfTenant
<1>3. CASE g \in Hyps /\ hyps[g] \in Hyp /\ hyps[g].tenant = t
  <2>1. hyps'[g] = Gone \/ (hyps'[g] \in Hyp /\ hyps'[g].tenant = t)
    BY <1>3, PresentHyp DEF KeptHyp
  <2> QED
    BY <1>3, <2>1 DEF OfTenant
<1> QED
  BY <1>1, <1>2, <1>3 DEF OfTenant

(* Only the columns of a hypervisor that are not its tenant change.         *)
LEMMA HypEdit ==
    ASSUME TypeOK, NEW g \in Hyps, Hypervisor(g),
           \/ \E s \in HypStatuses : hyps' = [hyps EXCEPT ![g].status = s]
           \/ \E n \in Nat : hyps' = [hyps EXCEPT ![g].count = n]
           \/ \E n \in HypNames : hyps' = [hyps EXCEPT ![g].name = n]
    PROVE  \A h \in Hyps : KeptHyp(h)
<1>1. hyps[g] \in Hyp /\ \A h \in Hyps \ {g} : hyps'[h] = hyps[h]
  BY PresentHyp DEF TypeOK
<1>2. hyps'[g] \in Hyp /\ hyps'[g].tenant = hyps[g].tenant
  BY <1>1 DEF Hyp, TypeOK
<1> QED
  BY <1>1, <1>2 DEF KeptHyp

LEMMA SameKept ==
    ASSUME hyps' = hyps
    PROVE  \A h \in Hyps : KeptHyp(h)
BY DEF KeptHyp

LEMMA RequestKeepsHyps ==
    ASSUME Sound, NEW r \in Requests, RequestStep(r)
    PROVE  \A h \in Hyps : KeptHyp(h)
<1>1. reqs[r].kind = "sync" => reqs[r].hyp \in Hyps
  BY SyncRequest, SyncFields
<1>2. reqs[r].kind = "test" => reqs[r].hyp \in Hyps
  BY RequestKinds DEF Sound, TestReq
<1>3. ASSUME SyncStep(r) PROVE \A h \in Hyps : KeptHyp(h)
  <2>1. ASSUME NEW h \in Hyps, SyncBegin(r, h) PROVE \A g \in Hyps : KeptHyp(g)
    BY <2>1, HypEdit DEF SyncBegin, Sound, HypStatuses
  <2>2. CASE SyncFail(r)
    BY <1>1, <2>2, HypEdit, SameKept DEF SyncFail, Sync, Sound, HypStatuses
  <2>3. CASE SyncCount(r)
    <3>1. Cardinality(RowsOf(reqs[r].hyp)) \in Nat
      BY InventoryAssumption, FS_Subset, FS_CardinalityType DEF RowsOf
    <3> QED
      BY <1>1, <2>3, <3>1, HypEdit DEF SyncCount, Sync, Sound
  <2>4. CASE SyncEnd(r)
    BY <1>1, <2>4, HypEdit DEF SyncEnd, Sync, Sound, HypStatuses
  <2>5. CASE \/ \E listing \in BOOLEAN, reading \in Readings : SyncFetch(r, listing, reading)
             \/ \E data \in IF Sync(r, "match") THEN reqs[r].left ELSE {} :
                   SyncInsert(r, data) \/ \E v \in Vms : SyncMatch(r, data, v)
             \/ SyncStale(r) \/ SyncCommit(r) \/ SyncFlushFails(r) \/ SyncOrphaned(r)
    BY <2>5, SameKept DEF SyncFetch, SyncInsert, SyncMatch, SyncStale, SyncCommit, SyncFlushFails,
       SyncOrphaned
  <2> QED
    BY <1>3, <2>1, <2>2, <2>3, <2>4, <2>5 DEF SyncStep
<1>4. ASSUME NEW listing \in BOOLEAN, NEW reading \in Readings, TestEnd(r, listing, reading)
      PROVE  \A h \in Hyps : KeptHyp(h)
  <2>1. \/ hyps' = hyps
        \/ /\ Hypervisor(reqs[r].hyp) /\ reqs[r].kind = "test"
           /\ \E s \in HypStatuses : hyps' = [hyps EXCEPT ![reqs[r].hyp].status = s]
    BY <1>4 DEF TestEnd, HypStatuses
  <2> QED
    BY <1>2, <2>1, HypEdit, SameKept DEF Sound
<1>5. CASE \/ \E h \in Hyps : TestBegin(r, h)
           \/ \E body \in VmBodies : CreateVmBegin(r, body)
           \/ CreateVmCommit(r)
           \/ \E v \in Vms, force \in BOOLEAN : AnalyzeBegin(r, v, force)
           \/ \E prediction \in Verdicts : AnalyzeCommit(r, prediction)
           \/ AnalyzeFail(r) \/ Crash(r)
  BY <1>5, SameKept DEF TestBegin, CreateVmBegin, CreateVmCommit, AnalyzeBegin, AnalyzeCommit,
     AnalyzeFail, Crash
<1> QED
  BY <1>3, <1>4, <1>5 DEF RequestStep

LEMMA WorldKeepsHyps ==
    ASSUME Sound, World
    PROVE  \A h \in Hyps : KeptHyp(h)
<1>1. ASSUME NEW t \in Tenants, NEW name \in HypNames, NEW type \in Types,
             CreateHypervisor(t, name, type)
      PROVE  \A h \in Hyps : KeptHyp(h)
  <2>1. PICK i \in Hyps : hyps[i] = None /\ \A h \in Hyps \ {i} : hyps'[h] = hyps[h]
    BY <1>1 DEF CreateHypervisor, Sound, TypeOK
  <2> QED
    BY <2>1 DEF KeptHyp
<1>2. ASSUME NEW g \in Hyps, DeleteHypervisor(g) PROVE \A h \in Hyps : KeptHyp(h)
  <2>1. hyps'[g] = Gone /\ \A h \in Hyps \ {g} : hyps'[h] = hyps[h]
    BY <1>2 DEF DeleteHypervisor, Sound, TypeOK
  <2> QED
    BY <2>1 DEF KeptHyp
<1>3. ASSUME NEW g \in Hyps, NEW name \in HypNames, UpdateHypervisor(g, name)
      PROVE  \A h \in Hyps : KeptHyp(h)
  BY <1>3, HypEdit DEF UpdateHypervisor, Sound
<1>4. CASE \/ \E v \in Vms : \/ DeleteVm(v) \/ MigrationBegins(v)
                             \/ \E done \in BOOLEAN : MigrationEnds(v, done)
                             \/ \E body \in VmBodies : UpdateVm(v, body)
           \/ \E to \in Places : MachinesMove(to)
           \/ UNCHANGED vars
  BY <1>4, SameKept DEF DeleteVm, MigrationBegins, MigrationEnds, UpdateVm, MachinesMove, vars
<1> QED
  BY <1>1, <1>2, <1>3, <1>4 DEF World

(* What is not new a step of another actor leaves its tenant, and gives it  *)
(* no hypervisor.                                                           *)
LEMMA SameRows ==
    ASSUME vms' = vms
    PROVE  \A v \in Vms : KeptRow(v) /\ StayedRow(v)
BY DEF KeptRow, StayedRow, Present

LEMMA OneRowStays ==
    ASSUME Sound, NEW u \in Vms, NEW vm \in Vm, Present(u), vms' = [vms EXCEPT ![u] = vm],
           vm.tenant = vms[u].tenant, vm.hyp = vms[u].hyp
    PROVE  \A v \in Vms : StayedRow(v)
<1>1. vms'[u] = vm /\ \A v \in Vms \ {u} : vms'[v] = vms[v]
  BY DEF Sound, TypeOK
<1> QED
  BY <1>1 DEF StayedRow, Present

LEMMA WorldStays ==
    ASSUME Sound, World
    PROVE  \A v \in Vms : StayedRow(v)
<1>1. ASSUME NEW h \in Hyps, DeleteHypervisor(h), NEW v \in Vms PROVE StayedRow(v)
  <2>1. CASE vms'[v] = vms[v]
    BY <2>1 DEF StayedRow, Present
  <2>2. CASE Present(v) /\ vms'[v] = [vms[v] EXCEPT !.hyp = None]
    <3>1. vms'[v].tenant = vms[v].tenant /\ vms'[v].hyp = None
      BY <2>2, PresentRow DEF Sound, Vm
    <3> QED
      BY <2>2, <3>1 DEF StayedRow
  <2> QED
    BY <1>1, <2>1, <2>2, DeleteHypervisorWorld
<1>2. ASSUME NEW u \in Vms, DeleteVm(u), NEW v \in Vms PROVE StayedRow(v)
  <2>1. vms'[u] = Gone /\ \A w \in Vms \ {u} : vms'[w] = vms[w]
    BY <1>2 DEF DeleteVm, Sound, TypeOK
  <2> QED
    BY <2>1 DEF StayedRow, Present
<1>3. ASSUME NEW u \in Vms, NEW done \in BOOLEAN, MigrationEnds(u, done)
      PROVE  \A v \in Vms : StayedRow(v)
  <2> DEFINE vm == [vms[u] EXCEPT !.status = "migrated"]
  <2>1. Present(u) /\ vms[u] \in Vm /\ (vms' = vms \/ vms' = [vms EXCEPT ![u] = vm])
    BY <1>3, PresentRow DEF MigrationEnds, Sound, TypeOK
  <2>2. vm \in Vm /\ vm.tenant = vms[u].tenant /\ vm.hyp = vms[u].hyp
    BY <2>1 DEF Vm, VmStatuses
  <2> HIDE DEF vm
  <2> QED
    BY <2>1, <2>2, OneRowStays, SameRows
<1>4. ASSUME NEW u \in Vms, NEW body \in VmBodies, UpdateVm(u, body)
      PROVE  \A v \in Vms : StayedRow(v)
  <2> DEFINE vm == [vms[u] EXCEPT !.name = body.name, !.facts = body.facts]
  <2>1. Present(u) /\ vms[u] \in Vm /\ vms' = [vms EXCEPT ![u] = vm]
    BY <1>4, PresentRow DEF UpdateVm, Sound, TypeOK, Vm
  <2>2. vm \in Vm /\ vm.tenant = vms[u].tenant /\ vm.hyp = vms[u].hyp
    BY <2>1, BodyTypes DEF Vm
  <2> HIDE DEF vm
  <2> QED
    BY <2>1, <2>2, OneRowStays
<1>5. CASE \/ \E t \in Tenants, name \in HypNames, type \in Types : CreateHypervisor(t, name, type)
           \/ \E h \in Hyps, name \in HypNames : UpdateHypervisor(h, name)
           \/ \E v \in Vms : MigrationBegins(v)
           \/ \E to \in Places : MachinesMove(to)
           \/ UNCHANGED vars
  BY <1>5, SameRows DEF CreateHypervisor, UpdateHypervisor, MigrationBegins, MachinesMove, vars
<1> QED
  BY <1>1, <1>2, <1>3, <1>4, <1>5 DEF World

LEMMA AnalysisStays ==
    ASSUME Sound, NEW r \in Requests,
           \/ \E v \in Vms, force \in BOOLEAN : AnalyzeBegin(r, v, force)
           \/ \E prediction \in Verdicts : AnalyzeCommit(r, prediction)
           \/ AnalyzeFail(r)
    PROVE  \A v \in Vms : StayedRow(v)
<1>1. ASSUME NEW u \in Vms, NEW s, NEW c, Present(u),
             vms' = [vms EXCEPT ![u] = [vms[u] EXCEPT !.status = s, !.compat = c]],
             \A v \in Vms : Edit(v)
      PROVE  \A v \in Vms : StayedRow(v)
  <2>1. vms[u] \in Vm /\ vms'[u] = [vms[u] EXCEPT !.status = s, !.compat = c]
        /\ \A v \in Vms \ {u} : vms'[v] = vms[v]
    BY <1>1, PresentRow DEF Sound, TypeOK
  <2>2. vms'[u].tenant = vms[u].tenant /\ vms'[u].hyp = vms[u].hyp
    BY <2>1 DEF Vm
  <2> QED
    BY <1>1, <2>1, <2>2 DEF StayedRow, Present
<1>2. CASE \E v \in Vms, force \in BOOLEAN : AnalyzeBegin(r, v, force)
  <2>1. PICK u \in Vms : \E force \in BOOLEAN : AnalyzeBegin(r, u, force)
    BY <1>2
  <2>2. /\ QuietFacts(r) /\ Present(u)
        /\ vms' = [vms EXCEPT ![u] = [vms[u] EXCEPT !.status = "analyzing", !.compat = vms[u].compat]]
    BY <2>1, AnalyzeBeginFacts
  <2>3. \A v \in Vms : Edit(v)
    BY <2>2 DEF QuietFacts
  <2> QED
    BY <1>1, <2>2, <2>3
<1>3. CASE AnalyzeFail(r) \/ \E prediction \in Verdicts : AnalyzeCommit(r, prediction)
  <2>1. /\ reqs[r].vm \in Vms /\ \A v \in Vms : Edit(v)
        /\ \/ vms' = vms
           \/ /\ Present(reqs[r].vm)
              /\ \E s \in PassStatuses \cup {"discovered"} :
                   \E c \in PassStatuses \cup {vms[reqs[r].vm].compat} :
                    vms' = [vms EXCEPT ![reqs[r].vm] =
                              [vms[reqs[r].vm] EXCEPT !.status = s, !.compat = c]]
    BY <1>3, AnalyzeEndFacts DEF QuietFacts
  <2>2. CASE vms' = vms
    BY <2>1, <2>2, SameRows
  <2>3. CASE vms' # vms
    <3>1. PICK s \in PassStatuses \cup {"discovered"}, c \in PassStatuses \cup {vms[reqs[r].vm].compat} :
             vms' = [vms EXCEPT ![reqs[r].vm] = [vms[reqs[r].vm] EXCEPT !.status = s, !.compat = c]]
      BY <2>1, <2>3
    <3>2. Present(reqs[r].vm)
      BY <2>1, <2>3
    <3> QED
      BY <1>1, <2>1, <3>1, <3>2
  <2> QED
    BY <2>2, <2>3
<1> QED
  BY <1>2, <1>3

LEMMA RequestStays ==
    ASSUME Sound, NEW r \in Requests, RequestStep(r)
    PROVE  RowStep(r) \/ \A v \in Vms : StayedRow(v)
<1>1. CASE SyncStep(r)
  <2>1. CASE \/ \E h \in Hyps : SyncBegin(r, h)
             \/ \E listing \in BOOLEAN, reading \in Readings : SyncFetch(r, listing, reading)
             \/ SyncFail(r) \/ SyncFlushFails(r) \/ SyncCount(r) \/ SyncEnd(r) \/ SyncOrphaned(r)
    BY <2>1, SameRows DEF SyncBegin, SyncFetch, SyncFail, SyncFlushFails, SyncCount, SyncEnd,
       SyncOrphaned
  <2>2. CASE \/ \E data \in IF Sync(r, "match") THEN reqs[r].left ELSE {} :
                   SyncInsert(r, data) \/ \E v \in Vms : SyncMatch(r, data, v)
             \/ SyncStale(r) \/ SyncCommit(r)
    BY <2>2 DEF RowStep
  <2> QED
    BY <1>1, <2>1, <2>2 DEF SyncStep
<1>2. CASE \/ \E h \in Hyps : TestBegin(r, h)
           \/ \E listing \in BOOLEAN, reading \in Readings : TestEnd(r, listing, reading)
           \/ \E body \in VmBodies : CreateVmBegin(r, body)
           \/ Crash(r)
  BY <1>2, SameRows DEF TestBegin, TestEnd, CreateVmBegin, Crash
<1>3. CASE CreateVmCommit(r)
  BY <1>3 DEF RowStep
<1>4. CASE \/ \E v \in Vms, force \in BOOLEAN : AnalyzeBegin(r, v, force)
           \/ \E prediction \in Verdicts : AnalyzeCommit(r, prediction)
           \/ AnalyzeFail(r)
  BY <1>4, AnalysisStays
<1> QED
  BY <1>1, <1>2, <1>3, <1>4 DEF RequestStep

LEMMA EditKeeps ==
    ASSUME Sound, NEW v \in Vms, Edit(v)
    PROVE  KeptRow(v)
<1>1. Gone # None /\ None \notin Vm /\ Gone \notin Vm
  BY InventoryAssumption
<1> QED
  BY <1>1 DEF Edit, KeptRow, Present

LEMMA OthersLodge ==
    ASSUME TypeOK, NEW p, Lodges(p), reqs'[p] = reqs[p],
           \A h \in Hyps : KeptHyp(h), \A v \in Vms : KeptRow(v)
    PROVE  Lodges(p)'
<1>1. ASSUME NEW v \in Vms, RowLodged(p, v) PROVE RowLodged(p, v)'
  BY <1>1 DEF RowLodged, KeptRow
<1>2. ASSUME NEW v, NewLodged(p, v) PROVE NewLodged(p, v)'
  BY <1>2 DEF NewLodged
<1> QED
  BY <1>1, <1>2, KeptTenant DEF Lodges, Open

(* A turn of one request.                                                   *)
LEMMA HousedTurn ==
    ASSUME Sound, Housed, NEW r \in Requests, reqs' = [reqs EXCEPT ![r] = reqs'[r]],
           \A h \in Hyps : KeptHyp(h), \A v \in Vms : KeptRow(v),
           \A v \in Vms : Lodged(v)', Lodges(r)'
    PROVE  Housed'
<1>1. \A p \in Requests \ {r} : reqs'[p] = reqs[p]
  BY DEF Sound
<1>2. \A p \in Requests : Lodges(p)'
  BY <1>1, OthersLodge DEF Housed, Sound
<1>3. BodiesLodged'
  BY KeptTenant DEF Housed, BodiesLodged, Sound
<1> QED
  BY <1>2, <1>3 DEF Housed

LEMMA StayedLodged ==
    ASSUME Sound, Housed, \A h \in Hyps : KeptHyp(h), NEW v \in Vms, StayedRow(v)
    PROVE  Lodged(v)'
<1> SUFFICES ASSUME Present(v)' PROVE OfTenant(hyps', vms'[v].hyp, vms'[v].tenant)
  BY DEF Lodged
<1>1. /\ Present(v) /\ vms'[v].tenant = vms[v].tenant /\ vms'[v].hyp \in {vms[v].hyp, None}
      /\ OfTenant(hyps, vms[v].hyp, vms[v].tenant)
  BY DEF StayedRow, Housed, Lodged
<1>2. OfTenant(hyps', vms[v].hyp, vms[v].tenant)
  BY <1>1, KeptTenant DEF Sound
<1> QED
  BY <1>1, <1>2 DEF OfTenant

LEMMA HousedWorld ==
    ASSUME Sound, Housed, World
    PROVE  Housed'
<1>1. reqs' = reqs /\ \A v \in Vms : Edit(v)
  BY WorldStep DEF WorldFacts
<1>2. (\A h \in Hyps : KeptHyp(h)) /\ \A v \in Vms : KeptRow(v) /\ StayedRow(v)
  BY <1>1, WorldKeepsHyps, WorldStays, EditKeeps
<1>3. \A v \in Vms : Lodged(v)'
  BY <1>2, StayedLodged
<1>4. \A p \in Requests : Lodges(p)'
  BY <1>1, <1>2, OthersLodge DEF Housed, Sound
<1>5. BodiesLodged'
  BY <1>2, KeptTenant DEF Housed, BodiesLodged, Sound
<1> QED
  BY <1>3, <1>4, <1>5 DEF Housed

(* A session is for a hypervisor of its tenant from its beginning.          *)
LEMMA HousedClosed ==
    ASSUME Sound, Housed, NEW r \in Requests, RequestStep(r), ClosedStep(r), ~RowStep(r)
    PROVE  Housed'
<1>1. /\ reqs' = [reqs EXCEPT ![r] = reqs'[r]] /\ ~Open(r)' /\ \A v \in Vms : Edit(v)
  BY DEF ClosedStep, QuietFacts
<1>2. (\A h \in Hyps : KeptHyp(h)) /\ \A v \in Vms : KeptRow(v) /\ StayedRow(v)
  BY <1>1, RequestKeepsHyps, RequestStays, EditKeeps
<1>3. \A v \in Vms : Lodged(v)'
  BY <1>2, StayedLodged
<1>4. reqs'[r].kind = "sync" => OfTenant(hyps', reqs'[r].hyp, reqs'[r].tenant)
  <2> SUFFICES ASSUME reqs'[r].kind = "sync" PROVE OfTenant(hyps, reqs'[r].hyp, reqs'[r].tenant)
    BY <1>2, KeptTenant DEF Sound
  <2>1. ASSUME NEW h \in Hyps, SyncBegin(r, h)
        PROVE  OfTenant(hyps, reqs'[r].hyp, reqs'[r].tenant)
    <3>1. hyps[h] \in Hyp /\ reqs'[r].hyp = h /\ reqs'[r].tenant = hyps[h].tenant
      BY <2>1, PresentHyp DEF SyncBegin, Sound
    <3> QED
      BY <3>1 DEF OfTenant
  <2>2. CASE SyncCount(r)
    <3>1. /\ reqs[r].kind = "sync" /\ reqs[r] \in SyncReq
          /\ reqs' = [reqs EXCEPT ![r].at = "end"]
      BY <2>2, SyncRequest DEF SyncCount, Sync
    <3>2. reqs'[r].hyp = reqs[r].hyp /\ reqs'[r].tenant = reqs[r].tenant
      BY <3>1 DEF SyncReq, Sound
    <3> QED
      BY <3>1, <3>2 DEF Housed, Lodges
  <2>3. CASE SyncFail(r) \/ SyncFlushFails(r) \/ SyncEnd(r) \/ SyncOrphaned(r) \/ Crash(r)
             \/ AnalyzeFail(r) \/ (\E prediction \in Verdicts : AnalyzeCommit(r, prediction))
             \/ \E listing \in BOOLEAN, reading \in Readings : TestEnd(r, listing, reading)
    <3>1. reqs' = [reqs EXCEPT ![r] = Idle]
      BY <2>3 DEF SyncFail, SyncFlushFails, SyncEnd, SyncOrphaned, Crash, AnalyzeFail, AnalyzeCommit,
         TestEnd
    <3> QED
      BY <3>1, ReqsSet, IdleRequest
  <2>4. CASE \/ \E h \in Hyps : TestBegin(r, h)
             \/ \E body \in VmBodies : CreateVmBegin(r, body)
    <3>1. \/ \E h : reqs' = [reqs EXCEPT ![r] = [kind |-> "test", hyp |-> h, type |-> hyps[h].type,
                                                 status |-> hyps[h].status]]
          \/ \E body : reqs' = [reqs EXCEPT ![r] = [kind |-> "vm", body |-> body]]
      BY <2>4 DEF TestBegin, CreateVmBegin
    <3> QED
      BY <3>1 DEF Sound
  <2>5. CASE \E v \in Vms, force \in BOOLEAN : AnalyzeBegin(r, v, force)
    BY <2>5, AnalyzeBeginFacts
  <2>6. CASE \E listing \in BOOLEAN, reading \in Readings : SyncFetch(r, listing, reading)
    <3>1. Open(r)'
      BY <2>6, FetchFacts DEF Open
    <3> QED
      BY <1>1, <3>1
  <2> QED
    BY <2>1, <2>2, <2>3, <2>4, <2>5, <2>6 DEF RequestStep, SyncStep, RowStep
<1>5. Lodges(r)'
  BY <1>1, <1>4 DEF Lodges
<1> QED
  BY <1>1, <1>2, <1>3, <1>5, HousedTurn

(* A step within a session.                                                 *)
LEMMA HousedSession ==
    ASSUME Sound, Housed, NEW r \in Requests, reqs' = [reqs EXCEPT ![r] = reqs'[r]],
           hyps' = hyps, vms' = vms, reqs[r].kind = "sync",
           reqs'[r].hyp = reqs[r].hyp, reqs'[r].tenant = reqs[r].tenant,
           \A v \in Vms : reqs'[r].base[v] # None => RowLodged(r, v)',
           \A v \in reqs'[r].new : NewLodged(r, v)'
    PROVE  Housed'
<1>1. (\A h \in Hyps : KeptHyp(h)) /\ \A v \in Vms : KeptRow(v)
  BY SameKept, SameRows
<1>2. \A v \in Vms : Lodged(v)'
  BY DEF Housed, Lodged, Present
<1>3. Lodges(r)'
  BY DEF Housed, Lodges
<1> QED
  BY <1>1, <1>2, <1>3, HousedTurn

LEMMA HousedFetch ==
    ASSUME Sound, Housed, NEW r \in Requests, NEW listing \in BOOLEAN, NEW reading \in Readings,
           SyncFetch(r, listing, reading)
    PROVE  Housed'
<1>1. /\ reqs' = [reqs EXCEPT ![r] = reqs'[r]] /\ hyps' = hyps /\ vms' = vms
      /\ reqs[r].kind = "sync" /\ reqs'[r].hyp = reqs[r].hyp /\ reqs'[r].tenant = reqs[r].tenant
      /\ reqs'[r].base = reqs[r].base /\ reqs'[r].new = {}
      /\ \A v \in Vms : reqs[r].base[v] = None
  BY FetchFacts DEF QuietFacts
<1> QED
  BY <1>1, HousedSession

(* The second pass attaches a row of the tenant.                            *)
LEMMA HousedMatch ==
    ASSUME Sound, Housed, NEW r \in Requests, NEW data, NEW v \in Vms, SyncMatch(r, data, v)
    PROVE  Housed'
<1> DEFINE q == reqs[r]
           p == reqs'[r]
           vm == Loaded(r, v)
           attaches == Pass1(r, data) = {} /\ Pass2(r, data) # {}
<1>1. /\ q \in SyncReq /\ q.at = "match" /\ v \in Matches(r, data) /\ v \in SeenRows(r)
      /\ reqs' = [reqs EXCEPT ![r] = p]
      /\ p.hyp = q.hyp /\ p.tenant = q.tenant /\ p.new = q.new
      /\ \A w \in Vms \ {v} : p.base[w] = q.base[w] /\ p.now[w] = q.now[w]
      /\ p.base[v] = (IF q.base[v] = None /\ v \notin q.new THEN vms[v] ELSE q.base[v])
      /\ (q.base[v] = None /\ v \notin q.new => Present(v) /\ vm = vms[v] /\ q.now[v] = None)
      /\ (q.base[v] # None \/ v \in q.new => vm = q.now[v])
      /\ p.now[v].tenant = vm.tenant
      /\ p.now[v].hyp = (IF attaches THEN q.hyp ELSE vm.hyp)
      /\ hyps' = hyps /\ vms' = vms
  BY MatchFacts
<1>2. q.kind = "sync" /\ q.new \in SUBSET Vms
  BY <1>1, SyncFields
<1>3. Open(r) /\ Lodges(r)
  BY <1>1, <1>2 DEF Open, Housed
<1>4. attaches => Seen(r, v).tenant = q.tenant
  BY <1>1 DEF Matches, Pass2
<1>5. /\ q.now[v] = None => Seen(r, v) = vms[v]
      /\ (Seen(r, v) = vms[v] /\ Present(v)) \/ Seen(r, v) = vm
  BY <1>1, <1>2, LoadedRow
<1> HIDE DEF vm, attaches
<1>6. ASSUME NEW w \in Vms, p.base[w] # None PROVE RowLodged(r, w)'
  <2>1. CASE w # v
    <3>1. RowLodged(r, w)
      BY <1>1, <1>3, <1>6, <2>1 DEF Lodges
    <3> QED
      BY <1>1, <2>1, <3>1 DEF RowLodged, Present
  <2>2. CASE w = v /\ q.base[v] = None
    <3>1. v \notin q.new
      BY <1>1, <1>6, <2>2
    <3>2. p.base[v] = vms[v] /\ vm = vms[v] /\ Present(v) /\ Seen(r, v) = vms[v]
      BY <1>1, <1>5, <2>2, <3>1
    <3> QED
      BY <1>1, <1>4, <2>2, <3>2 DEF RowLodged, Present
  <2>3. CASE w = v /\ q.base[v] # None
    <3>1. RowLodged(r, v)
      BY <1>3, <2>3 DEF Lodges
    <3>2. p.base[v] = q.base[v] /\ vm = q.now[v]
      BY <1>1, <2>3
    <3>3. attaches => q.now[v].tenant = q.tenant
      BY <1>4, <1>5, <3>1, <3>2 DEF RowLodged
    <3> QED
      BY <1>1, <2>3, <3>1, <3>2, <3>3 DEF RowLodged, Present
  <2> QED
    BY <2>1, <2>2, <2>3
<1>7. ASSUME NEW w \in p.new PROVE NewLodged(r, w)'
  <2>1. w \in Vms /\ NewLodged(r, w)
    BY <1>1, <1>2, <1>3, <1>7 DEF Lodges
  <2> QED
    BY <1>1, <1>7, <2>1 DEF NewLodged
<1> QED
  BY <1>1, <1>2, <1>6, <1>7, HousedSession

LEMMA HousedInsert ==
    ASSUME Sound, Housed, NEW r \in Requests, NEW data, SyncInsert(r, data)
    PROVE  Housed'
<1> DEFINE q == reqs[r]
           p == reqs'[r]
<1>0. PICK i \in Vms : i = NewId
  BY InsertFacts
<1>1. /\ q \in SyncReq /\ q.at = "match" /\ data \in VmData /\ vms[i] = None
      /\ reqs' = [reqs EXCEPT ![r] = p]
      /\ p.hyp = q.hyp /\ p.tenant = q.tenant /\ p.new = q.new \cup {i} /\ p.base = q.base
      /\ \A w \in Vms \ {i} : p.now[w] = q.now[w]
      /\ p.now[i] = Created(q, data)
      /\ hyps' = hyps /\ vms' = vms
      /\ \A s \in Requests : reqs[s].kind = "sync" => i \notin reqs[s].new
  BY <1>0, InsertFacts
<1>2. q.kind = "sync" /\ q.new \in SUBSET Vms /\ i \notin q.new
  BY <1>1, SyncFields
<1>3. Open(r) /\ Lodges(r)
  BY <1>1, <1>2 DEF Open, Housed
<1>4. p.now[i].hyp = q.hyp /\ p.now[i].tenant = q.tenant
  BY <1>1, CreatedType
<1>5. ASSUME NEW w \in Vms, p.base[w] # None PROVE RowLodged(r, w)'
  <2>1. RowLodged(r, w)
    BY <1>1, <1>3, <1>5 DEF Lodges
  <2>2. w # i
    BY <1>1, <2>1 DEF RowLodged
  <2> QED
    BY <1>1, <2>1, <2>2 DEF RowLodged, Present
<1>6. ASSUME NEW w \in p.new PROVE NewLodged(r, w)'
  <2>1. CASE w = i
    BY <1>1, <1>4, <2>1 DEF NewLodged
  <2>2. CASE w # i
    <3>1. w \in Vms /\ NewLodged(r, w)
      BY <1>1, <1>2, <1>3, <1>6, <2>2 DEF Lodges
    <3> QED
      BY <1>1, <2>2, <3>1 DEF NewLodged
  <2> QED
    BY <2>1, <2>2
<1> QED
  BY <1>1, <1>2, <1>5, <1>6, HousedSession

LEMMA HousedStale ==
    ASSUME Sound, Housed, NEW r \in Requests, SyncStale(r)
    PROVE  Housed'
<1> DEFINE q == reqs[r]
           p == reqs'[r]
           S == Stale(r)
<1>1. /\ q \in SyncReq /\ q.at = "match" /\ S \subseteq SeenRows(r)
      /\ reqs' = [reqs EXCEPT ![r] = p]
      /\ p.hyp = q.hyp /\ p.tenant = q.tenant /\ p.new = q.new
      /\ \A w \in Vms \ S : p.base[w] = q.base[w] /\ p.now[w] = q.now[w]
      /\ \A w \in S : /\ p.base[w] = IF q.base[w] = None /\ w \notin q.new THEN vms[w] ELSE q.base[w]
                      /\ q.base[w] = None /\ w \notin q.new => Present(w) /\ Loaded(r, w) = vms[w]
                      /\ q.base[w] # None \/ w \in q.new => Loaded(r, w) = q.now[w]
                      /\ p.now[w] = [Loaded(r, w) EXCEPT !.status = "archived"]
                      /\ Loaded(r, w) \in Vm
      /\ hyps' = hyps /\ vms' = vms
  BY StaleFacts
<1>2. q.kind = "sync" /\ q.new \in SUBSET Vms
  BY <1>1, SyncFields
<1>3. Open(r) /\ Lodges(r)
  BY <1>1, <1>2 DEF Open, Housed
<1> HIDE DEF S
<1>4. ASSUME NEW w \in Vms, q.base[w] # None \/ w \in q.new
      PROVE  /\ p.base[w] = q.base[w]
             /\ p.now[w].hyp = q.now[w].hyp /\ p.now[w].tenant = q.now[w].tenant
  <2>1. CASE w \in S
    <3>1. /\ Loaded(r, w) = q.now[w] /\ p.base[w] = q.base[w] /\ q.now[w] \in Vm
          /\ p.now[w] = [q.now[w] EXCEPT !.status = "archived"]
      BY <1>1, <1>4, <2>1
    <3> QED
      BY <3>1 DEF Vm
  <2>2. CASE w \notin S
    BY <1>1, <2>2
  <2> QED
    BY <2>1, <2>2
<1>5. ASSUME NEW w \in Vms, p.base[w] # None PROVE RowLodged(r, w)'
  <2>1. CASE q.base[w] # None
    <3>1. RowLodged(r, w)
      BY <1>3, <2>1 DEF Lodges
    <3> QED
      BY <1>1, <1>4, <2>1, <3>1 DEF RowLodged, Present
  <2>2. CASE q.base[w] = None
    <3>1. w \in S /\ w \notin q.new
      BY <1>1, <1>5, <2>2
    <3>2. /\ p.base[w] = vms[w] /\ Present(w) /\ vms[w] \in Vm
          /\ p.now[w] = [vms[w] EXCEPT !.status = "archived"]
      BY <1>1, <2>2, <3>1
    <3>3. p.now[w].hyp = vms[w].hyp /\ p.now[w].tenant = vms[w].tenant
      BY <3>2 DEF Vm
    <3> QED
      BY <1>1, <3>2, <3>3, InventoryAssumption DEF RowLodged, Present
  <2> QED
    BY <2>1, <2>2
<1>6. ASSUME NEW w \in p.new PROVE NewLodged(r, w)'
  <2>1. w \in Vms /\ NewLodged(r, w)
    BY <1>1, <1>2, <1>3, <1>6 DEF Lodges
  <2> QED
    BY <1>1, <1>4, <1>6, <2>1 DEF NewLodged
<1> QED
  BY <1>1, <1>2, <1>5, <1>6, HousedSession

LEMMA HousedCommit ==
    ASSUME Sound, Housed, NEW r \in Requests, SyncCommit(r)
    PROVE  Housed'
<1> DEFINE q == reqs[r]
<1>1. /\ q \in SyncReq /\ q.at = "commit" /\ q.kind = "sync"
      /\ reqs' = [reqs EXCEPT ![r] = reqs'[r]] /\ reqs'[r].at = "count"
      /\ reqs'[r].hyp = q.hyp /\ reqs'[r].tenant = q.tenant
      /\ \A v \in Vms : RowCommit(r, v)
      /\ hyps' = hyps
  BY CommitFacts
<1>2. Open(r) /\ Lodges(r) /\ OfTenant(hyps, q.hyp, q.tenant)
  BY <1>1 DEF Open, Housed, Lodges
<1>3. Gone # None /\ None \notin Vm /\ Gone \notin Vm
  BY InventoryAssumption
<1>4. ASSUME NEW v \in Vms PROVE KeptRow(v) /\ Lodged(v)'
  <2>1. CASE v \in q.new
    <3>1. vms[v] = None /\ vms'[v] = q.now[v] /\ NewLodged(r, v)
      BY <1>1, <1>2, <2>1 DEF RowCommit, Lodges
    <3> QED
      BY <1>1, <1>2, <3>1 DEF KeptRow, Lodged, NewLodged
  <2>2. CASE v \notin q.new /\ q.base[v] = None
    <3>1. vms'[v] = vms[v] /\ Lodged(v)
      BY <1>1, <1>3, <2>2 DEF RowCommit, Housed
    <3> QED
      BY <1>1, <3>1 DEF KeptRow, Lodged, Present
  <2>3. CASE v \notin q.new /\ q.base[v] # None
    <3>1. /\ q.base[v] \in Vm /\ q.now[v] \in Vm /\ Present(v) /\ vms[v] \in Vm
          /\ vms'[v] = Written(vms[v], q.base[v], q.now[v])
      BY <1>1, <2>3 DEF RowCommit
    <3>2. RowLodged(r, v) /\ OfTenant(hyps, vms[v].hyp, vms[v].tenant)
      BY <1>2, <2>3, <3>1 DEF Lodges, Housed, Lodged
    <3>3. /\ vms'[v] \in Vm /\ vms'[v].tenant = vms[v].tenant
          /\ vms'[v].hyp = IF q.now[v].hyp # q.base[v].hyp THEN q.now[v].hyp ELSE vms[v].hyp
      BY <3>1, WrittenType
    <3>4. OfTenant(hyps, vms'[v].hyp, vms'[v].tenant)
      BY <1>2, <3>1, <3>2, <3>3 DEF RowLodged
    <3> QED
      BY <1>1, <1>3, <3>1, <3>3, <3>4 DEF KeptRow, Lodged
  <2> QED
    BY <2>1, <2>2, <2>3
<1>5. Lodges(r)'
  BY <1>1, <1>2 DEF Lodges, Open
<1> QED
  BY <1>1, <1>4, <1>5, SameKept, HousedTurn

LEMMA HousedCreate ==
    ASSUME Sound, Housed, NEW r \in Requests, CreateVmCommit(r)
    PROVE  Housed'
<1>1. /\ reqs' = [reqs EXCEPT ![r] = reqs'[r]] /\ reqs'[r].kind = "idle" /\ hyps' = hyps
  BY CreateFacts, ReqsSet, IdleRequest
<1>2. Lodges(r)'
  BY <1>1 DEF Lodges, Open
<1>3. CASE vms' = vms
  <2>1. \A v \in Vms : KeptRow(v) /\ Lodged(v)'
    BY <1>1, <1>3, SameRows DEF Housed, Lodged, Present
  <2> QED
    BY <1>1, <1>2, <2>1, SameKept, HousedTurn
<1>4. CASE vms' # vms
  <2>1. PICK i \in Vms, body \in VmBodies :
            vms[i] = None /\ vms' = [vms EXCEPT ![i] = BodyRow(body)] /\ BodyRow(body) \in Vm
    BY <1>4, CreateFacts
  <2>2. /\ vms'[i].hyp = body.hyp /\ vms'[i].tenant = body.tenant
        /\ \A w \in Vms \ {i} : vms'[w] = vms[w]
    BY <2>1 DEF BodyRow, Sound, TypeOK
  <2>3. OfTenant(hyps, body.hyp, body.tenant)
    BY DEF Housed, BodiesLodged
  <2>4. \A v \in Vms : KeptRow(v) /\ Lodged(v)'
    BY <1>1, <2>1, <2>2, <2>3 DEF Housed, KeptRow, Lodged, Present
  <2> QED
    BY <1>1, <1>2, <2>4, SameKept, HousedTurn
<1> QED
  BY <1>3, <1>4

LEMMA HousedStep ==
    ASSUME Sound, Housed, [Next]_vars
    PROVE  Housed'
<1>1. CASE World
  BY <1>1, HousedWorld
<1>2. ASSUME NEW r \in Requests, RequestStep(r) PROVE Housed'
  <2>1. CASE RowStep(r)
    BY <2>1, HousedMatch, HousedInsert, HousedStale, HousedCommit, HousedCreate DEF RowStep
  <2>2. CASE \E listing \in BOOLEAN, reading \in Readings : SyncFetch(r, listing, reading)
    BY <2>2, HousedFetch
  <2>3. CASE ClosedStep(r) /\ ~RowStep(r)
    BY <1>2, <2>3, HousedClosed
  <2> QED
    BY <1>2, <2>1, <2>2, <2>3, RequestClosed
<1> QED
  BY <1>1, <1>2, NextSplit

LEMMA HousedInit ==
    ASSUME OwnHypervisors, Init
    PROVE  Housed
<1>1. hyps \in InitialHyps /\ vms \in InitialVms /\ \A r \in Requests : reqs[r].kind = "idle"
  BY IdleRequest DEF Init
<1>2. vms \in [Vms -> Vm \cup {None}] /\ None \notin Vm
  BY <1>1, InventoryAssumption
<1>3. ASSUME NEW v \in Vms, Present(v) PROVE OfTenant(hyps, vms[v].hyp, vms[v].tenant)
  <2>1. vms[v] \in Vm /\ vms[v].hyp \in Hyps \cup {None}
    BY <1>2, <1>3 DEF Present, Vm
  <2> QED
    BY <1>1, <1>2, <2>1 DEF OwnHypervisors, OfTenant
<1>4. BodiesLodged
  BY <1>1, BodyTypes DEF OwnHypervisors, BodiesLodged, OfTenant
<1> QED
  BY <1>1, <1>3, <1>4 DEF Housed, Lodged, Lodges, Open
-----------------------------------------------------------------------------
(* One row.  Where rows may have no identity, and are then taken by their   *)
(* name, the data of a row may be those of another machine; but a machine   *)
(* still has one row.                                                       *)

(* No source reports two machines under one identity, wherever they are.    *)
Asked(where, h, reading) == {<<Facts[m], reading[m]>> : m \in {n \in Machines : where[n] = h}}
DistinctReports ==
    \A where \in InitialPlaces \cup Places, h \in Hyps, type \in Types,
       listing \in BOOLEAN, reading \in Readings :
        Discovered(type, Asked(where, h, reading), listing) # Aborts =>
            \A d, e \in Discovered(type, Asked(where, h, reading), listing) : d.id = e.id => d = e

DistinctStart ==
    \A rows \in InitialVms : \A v, w \in Vms :
        /\ rows[v] # None /\ rows[w] # None /\ v # w /\ rows[v].id # None
        /\ rows[v].id = rows[w].id /\ rows[v].tenant = rows[w].tenant
        => rows[v].id \in Typed

(* A row names a hypervisor that is there: the key is a foreign key, and a  *)
(* session that would write another fails at its flush.                     *)
Anchored == \A v \in Vms : Present(v) /\ vms[v].hyp # None => Hypervisor(vms[v].hyp)

(* The rows a session will give an identity: those it inserts, and those    *)
(* without one that it took by their name.                                  *)
Claimed(r) ==
    LET q == reqs[r] IN
    {v \in Vms : v \in q.new \/ (q.base[v] # None /\ q.base[v].id = None /\ q.now[v].id # None)}
ClaimHeld(r, v) ==
    LET q == reqs[r]
        id == q.now[v].id
    IN  /\ id \in q.seen /\ q.now[v].tenant = q.tenant
        /\ \A data \in q.left : data.id # id
        /\ \A w \in Claimed(r) : w # v => q.now[w].id # id
        /\ \A w \in Vms : w # v /\ Present(w) /\ vms[w].id = id /\ vms[w].tenant = q.tenant
               => id \in overlapped \cup Typed

(* An object of a session keeps the identity it was read with; its row too, *)
(* unless a session that overlaps with this one has given it one.           *)
ObjectHeld(r, v) ==
    LET q == reqs[r] IN
    /\ vms[v] # None /\ q.base[v].tenant = q.tenant /\ q.now[v].tenant = q.tenant
    /\ Present(v) => /\ vms[v].tenant = q.tenant
                     /\ vms[v].id \in q.seen => vms[v].id \in overlapped \cup {q.base[v].id}
    /\ q.base[v].id # None => q.now[v].id = q.base[v].id
    /\ q.at = "match" => q.now[v].id # None
Claims(r) ==
    Open(r) => /\ \A data \in reqs[r].left : data.id \in reqs[r].seen
               /\ \A d, e \in reqs[r].left : d.id = e.id => d = e
               /\ \A v \in Vms : reqs[r].base[v] # None => ObjectHeld(r, v)
               /\ \A v \in Claimed(r) : ClaimHeld(r, v)

Located == place \in InitialPlaces \cup Places
Single == Located /\ OneRowPerIdentity /\ Apart /\ \A r \in Requests : Claims(r)

(* A row after a step, as an open session of another request sees it: it    *)
(* has another identity than before only if a client typed it, or the       *)
(* session does not know it, or it is known to overlap.                     *)
RowMoves(r, v) ==
    /\ vms[v] # None => vms'[v] # None
    /\ Present(v)' =>
          /\ vms[v] # None => Present(v) /\ vms'[v].tenant = vms[v].tenant
          /\ \/ vms[v] # None /\ vms'[v].id = vms[v].id
             \/ vms[v] = None /\ vms'[v].id \in Typed
             \/ Open(r) /\ vms'[v].tenant = reqs[r].tenant /\ vms'[v].id \in reqs[r].seen
                  => vms'[v].id \in overlapped

LEMMA OthersClaim ==
    ASSUME Sound, NEW r \in Requests, Claims(r), reqs'[r] = reqs[r],
           overlapped \subseteq overlapped', \A v \in Vms : RowMoves(r, v)
    PROVE  Claims(r)'
<1> DEFINE q == reqs[r]
<1> SUFFICES ASSUME Open(r)
             PROVE  /\ \A v \in Vms : q.base[v] # None => ObjectHeld(r, v)'
                    /\ \A v \in Claimed(r) : ClaimHeld(r, v)'
  BY DEF Claims, Open, Claimed
<1>1. ASSUME NEW v \in Vms, q.base[v] # None PROVE ObjectHeld(r, v)'
  <2>1. ObjectHeld(r, v)
    BY <1>1 DEF Claims
  <2>2. vms'[v] # None
    BY <2>1 DEF ObjectHeld, RowMoves
  <2>3. ASSUME Present(v)'
        PROVE  /\ vms'[v].tenant = q.tenant
               /\ vms'[v].id \in q.seen => vms'[v].id \in overlapped' \cup {q.base[v].id}
    <3>1. vms[v] # None /\ Present(v) /\ vms'[v].tenant = vms[v].tenant /\ vms[v].tenant = q.tenant
      BY <2>1, <2>3 DEF ObjectHeld, RowMoves
    <3>2. CASE vms'[v].id = vms[v].id
      BY <2>1, <3>1, <3>2 DEF ObjectHeld
    <3>3. CASE vms'[v].id # vms[v].id
      BY <2>3, <3>1, <3>3 DEF RowMoves
    <3> QED
      BY <3>1, <3>2, <3>3
  <2> QED
    BY <2>1, <2>2, <2>3 DEF ObjectHeld
<1>2. ASSUME NEW v \in Claimed(r) PROVE ClaimHeld(r, v)'
  <2>1. ClaimHeld(r, v)
    BY <1>2 DEF Claims
  <2>2. ASSUME NEW w \in Vms, w # v, Present(w)', vms'[w].id = q.now[v].id, vms'[w].tenant = q.tenant
        PROVE  q.now[v].id \in overlapped' \cup Typed
    <3>1. q.now[v].id \in q.seen
      BY <2>1 DEF ClaimHeld
    <3>2. CASE vms[w] # None /\ vms'[w].id = vms[w].id
      <4>1. Present(w) /\ vms[w].tenant = q.tenant
        BY <2>2, <3>2 DEF RowMoves
      <4> QED
        BY <2>1, <2>2, <3>2, <4>1 DEF ClaimHeld
    <3>3. CASE vms'[w].id \in Typed
      BY <2>2, <3>3
    <3>4. CASE Open(r) /\ vms'[w].tenant = reqs[r].tenant /\ vms'[w].id \in reqs[r].seen
                 => vms'[w].id \in overlapped
      BY <2>2, <3>1, <3>4
    <3> QED
      BY <2>2, <3>2, <3>3, <3>4 DEF RowMoves
  <2>3. Claimed(r)' = Claimed(r)
    BY DEF Claimed
  <2>4. /\ \A data \in q.left : data.id # q.now[v].id
        /\ \A w \in Claimed(r) : w # v => q.now[w].id # q.now[v].id
        /\ q.now[v].id \in q.seen /\ q.now[v].tenant = q.tenant
    BY <2>1 DEF ClaimHeld
  <2> QED
    BY <2>2, <2>3, <2>4 DEF ClaimHeld
<1> QED
  BY <1>1, <1>2

LEMMA EditMoves ==
    ASSUME Sound, NEW v \in Vms, Edit(v)
    PROVE  /\ \A r \in Requests : RowMoves(r, v)
           /\ Present(v)' => Present(v) /\ vms'[v].id = vms[v].id /\ vms'[v].tenant = vms[v].tenant
<1>1. Gone # None /\ None \notin Vm /\ Gone \notin Vm
  BY InventoryAssumption
<1>2. CASE vms'[v] = vms[v]
  BY <1>1, <1>2 DEF RowMoves, Present
<1>3. CASE Present(v) /\ vms'[v] = Gone
  BY <1>1, <1>3 DEF RowMoves, Present
<1>4. CASE /\ Present(v) /\ vms'[v] \in Vm /\ vms'[v].tenant = vms[v].tenant
           /\ vms'[v].id = vms[v].id /\ vms'[v].from = vms[v].from
  BY <1>1, <1>4 DEF RowMoves, Present
<1> QED
  BY <1>2, <1>3, <1>4 DEF Edit

LEMMA EditSingle ==
    ASSUME Sound, OneRowPerIdentity, \A v \in Vms : Edit(v), overlapped \subseteq overlapped'
    PROVE  OneRowPerIdentity'
<1>1. ASSUME NEW v \in Vms, Present(v)'
      PROVE  Present(v) /\ vms'[v].id = vms[v].id /\ vms'[v].tenant = vms[v].tenant
  BY <1>1, EditMoves
<1> QED
  BY <1>1 DEF OneRowPerIdentity

(* Machines are only where the world puts them.                             *)
LEMMA LocatedStep ==
    ASSUME Sound, Located, [Next]_vars
    PROVE  Located'
<1>1. CASE World
  <2>1. place' = place \/ place' \in Places
    BY <1>1 DEF World, CreateHypervisor, DeleteHypervisor, UpdateHypervisor, DeleteVm, MigrationBegins,
       MigrationEnds, UpdateVm, MachinesMove, vars
  <2> QED
    BY <2>1 DEF Located
<1>2. ASSUME NEW r \in Requests, RequestStep(r) PROVE Located'
  <2>1. CASE SyncStep(r)
    BY <2>1 DEF SyncStep, SyncBegin, SyncFetch, SyncFail, SyncInsert, SyncMatch, SyncStale,
       SyncCommit, SyncFlushFails, SyncCount, SyncEnd, SyncOrphaned, Located
  <2>2. CASE ~SyncStep(r)
    <3>1. place' = place
      BY <1>2, <2>2 DEF RequestStep, TestBegin, TestEnd, CreateVmBegin, CreateVmCommit, AnalyzeBegin,
         AnalyzeCommit, AnalyzeFail, Crash
    <3> QED
      BY <3>1 DEF Located
  <2> QED
    BY <2>1, <2>2
<1> QED
  BY <1>1, <1>2, NextSplit

(* No request but the one that deletes it takes a hypervisor away.          *)
FirmHyp(h) == Hypervisor(h) => Hypervisor(h)'

LEMMA FirmEdit ==
    ASSUME TypeOK, NEW g \in Hyps, Hypervisor(g),
           \/ \E s \in HypStatuses : hyps' = [hyps EXCEPT ![g].status = s]
           \/ \E n \in Nat : hyps' = [hyps EXCEPT ![g].count = n]
           \/ \E n \in HypNames : hyps' = [hyps EXCEPT ![g].name = n]
    PROVE  \A h \in Hyps : FirmHyp(h)
<1>1. hyps[g] \in Hyp /\ \A h \in Hyps \ {g} : hyps'[h] = hyps[h]
  BY PresentHyp DEF TypeOK
<1>2. hyps'[g] \in Hyp
  BY <1>1 DEF Hyp, TypeOK
<1> QED
  BY <1>1, <1>2, InventoryAssumption DEF FirmHyp, Hypervisor

LEMMA RequestFirm ==
    ASSUME Sound, NEW r \in Requests, RequestStep(r)
    PROVE  \A h \in Hyps : FirmHyp(h)
<1>0. hyps' = hyps => \A h \in Hyps : FirmHyp(h)
  BY DEF FirmHyp, Hypervisor
<1>1. reqs[r].kind = "sync" => reqs[r].hyp \in Hyps
  BY SyncRequest, SyncFields
<1>2. reqs[r].kind = "test" => reqs[r].hyp \in Hyps
  BY RequestKinds DEF Sound, TestReq
<1>3. ASSUME SyncStep(r) PROVE \A h \in Hyps : FirmHyp(h)
  <2>1. ASSUME NEW h \in Hyps, SyncBegin(r, h) PROVE \A g \in Hyps : FirmHyp(g)
    BY <2>1, FirmEdit DEF SyncBegin, Sound, HypStatuses
  <2>2. CASE SyncFail(r)
    BY <1>0, <1>1, <2>2, FirmEdit DEF SyncFail, Sync, Sound, HypStatuses
  <2>3. CASE SyncCount(r)
    <3>1. Cardinality(RowsOf(reqs[r].hyp)) \in Nat
      BY InventoryAssumption, FS_Subset, FS_CardinalityType DEF RowsOf
    <3> QED
      BY <1>1, <2>3, <3>1, FirmEdit DEF SyncCount, Sync, Sound
  <2>4. CASE SyncEnd(r)
    BY <1>1, <2>4, FirmEdit DEF SyncEnd, Sync, Sound, HypStatuses
  <2>5. CASE \/ \E listing \in BOOLEAN, reading \in Readings : SyncFetch(r, listing, reading)
             \/ \E data \in IF Sync(r, "match") THEN reqs[r].left ELSE {} :
                   SyncInsert(r, data) \/ \E v \in Vms : SyncMatch(r, data, v)
             \/ SyncStale(r) \/ SyncCommit(r) \/ SyncFlushFails(r) \/ SyncOrphaned(r)
    BY <1>0, <2>5 DEF SyncFetch, SyncInsert, SyncMatch, SyncStale, SyncCommit, SyncFlushFails,
       SyncOrphaned
  <2> QED
    BY <1>3, <2>1, <2>2, <2>3, <2>4, <2>5 DEF SyncStep
<1>4. ASSUME NEW listing \in BOOLEAN, NEW reading \in Readings, TestEnd(r, listing, reading)
      PROVE  \A h \in Hyps : FirmHyp(h)
  <2>1. \/ hyps' = hyps
        \/ /\ Hypervisor(reqs[r].hyp) /\ reqs[r].kind = "test"
           /\ \E s \in HypStatuses : hyps' = [hyps EXCEPT ![reqs[r].hyp].status = s]
    BY <1>4 DEF TestEnd, HypStatuses
  <2> QED
    BY <1>0, <1>2, <2>1, FirmEdit DEF Sound
<1>5. CASE \/ \E h \in Hyps : TestBegin(r, h)
           \/ \E body \in VmBodies : CreateVmBegin(r, body)
           \/ CreateVmCommit(r)
           \/ \E v \in Vms, force \in BOOLEAN : AnalyzeBegin(r, v, force)
           \/ \E prediction \in Verdicts : AnalyzeCommit(r, prediction)
           \/ AnalyzeFail(r) \/ Crash(r)
  BY <1>0, <1>5 DEF TestBegin, CreateVmBegin, CreateVmCommit, AnalyzeBegin, AnalyzeCommit,
     AnalyzeFail, Crash
<1> QED
  BY <1>3, <1>4, <1>5 DEF RequestStep

LEMMA StayedAnchored ==
    ASSUME Sound, Anchored, \A h \in Hyps : FirmHyp(h), \A v \in Vms : StayedRow(v)
    PROVE  Anchored'
<1> SUFFICES ASSUME NEW v \in Vms, Present(v)', vms'[v].hyp # None
             PROVE  hyps'[vms'[v].hyp] \notin {None, Gone}
  BY DEF Anchored, Hypervisor
<1>1. Present(v) /\ vms'[v].hyp = vms[v].hyp
  BY DEF StayedRow
<1>2. vms[v].hyp \in Hyps
  BY <1>1, PresentRow DEF Sound, Vm
<1> QED
  BY <1>1, <1>2 DEF Anchored, FirmHyp, Hypervisor

LEMMA AnchoredWorld ==
    ASSUME Sound, Anchored, World
    PROVE  Anchored'
<1>1. \A v \in Vms : StayedRow(v)
  BY WorldStays
<1>2. ASSUME NEW g \in Hyps, DeleteHypervisor(g) PROVE Anchored'
  <2> SUFFICES ASSUME NEW v \in Vms, Present(v)', vms'[v].hyp # None
               PROVE  hyps'[vms'[v].hyp] \notin {None, Gone}
    BY DEF Anchored, Hypervisor
  <2>1. Present(v) /\ vms'[v].hyp = vms[v].hyp /\ vms[v] \in Vm
    BY <1>1, PresentRow DEF StayedRow, Sound
  <2>2. vms[v].hyp # g
    <3> SUFFICES ASSUME vms[v].hyp = g PROVE FALSE
      OBVIOUS
    <3>1. vms'[v] = [vms[v] EXCEPT !.hyp = None]
      BY <1>2, <2>1 DEF DeleteHypervisor
    <3>2. vms'[v].hyp = None
      BY <2>1, <3>1 DEF Vm
    <3> QED
      BY <3>2
  <2>3. vms[v].hyp \in Hyps /\ hyps'[vms[v].hyp] = hyps[vms[v].hyp]
    BY <1>2, <2>1, <2>2 DEF DeleteHypervisor, Vm, Sound, TypeOK
  <2> QED
    BY <2>1, <2>3 DEF Anchored, Hypervisor
<1>3. ASSUME NEW t \in Tenants, NEW name \in HypNames, NEW type \in Types,
             CreateHypervisor(t, name, type)
      PROVE  Anchored'
  <2>1. PICK i \in Hyps : hyps[i] = None /\ \A h \in Hyps \ {i} : hyps'[h] = hyps[h]
    BY <1>3 DEF CreateHypervisor, Sound, TypeOK
  <2>2. \A h \in Hyps : FirmHyp(h)
    BY <2>1 DEF FirmHyp, Hypervisor
  <2> QED
    BY <1>1, <2>2, StayedAnchored
<1>4. ASSUME NEW g \in Hyps, NEW name \in HypNames, UpdateHypervisor(g, name) PROVE Anchored'
  <2>1. \A h \in Hyps : FirmHyp(h)
    BY <1>4, FirmEdit DEF UpdateHypervisor, Sound
  <2> QED
    BY <1>1, <2>1, StayedAnchored
<1>5. CASE \/ \E v \in Vms : \/ DeleteVm(v) \/ MigrationBegins(v)
                             \/ \E done \in BOOLEAN : MigrationEnds(v, done)
                             \/ \E body \in VmBodies : UpdateVm(v, body)
           \/ \E to \in Places : MachinesMove(to)
           \/ UNCHANGED vars
  <2>1. hyps' = hyps
    BY <1>5 DEF DeleteVm, MigrationBegins, MigrationEnds, UpdateVm, MachinesMove, vars
  <2>2. \A h \in Hyps : FirmHyp(h)
    BY <2>1 DEF FirmHyp, Hypervisor
  <2> QED
    BY <1>1, <2>2, StayedAnchored
<1> QED
  BY <1>2, <1>3, <1>4, <1>5 DEF World

LEMMA AnchoredCommit ==
    ASSUME Sound, Housed, Anchored, NEW r \in Requests, SyncCommit(r)
    PROVE  Anchored'
<1> DEFINE q == reqs[r]
<1>1. /\ q.at = "commit" /\ q.kind = "sync" /\ hyps' = hyps /\ \A v \in Vms : RowCommit(r, v)
  BY CommitFacts
<1>2. Open(r) /\ Lodges(r) /\ Flushes(r) /\ Session(r)
  BY <1>1 DEF Open, Housed, SyncCommit, Sound
<1> SUFFICES ASSUME NEW v \in Vms, Present(v)', vms'[v].hyp # None
             PROVE  Hypervisor(vms'[v].hyp)
  BY <1>1 DEF Anchored, Hypervisor
<1>3. CASE v \in q.new
  <2>1. vms'[v] = q.now[v] /\ q.now[v] # None /\ q.base[v] = None /\ NewLodged(r, v)
    BY <1>1, <1>2, <1>3 DEF RowCommit, Lodges, Session
  <2> QED
    BY <1>2, <2>1 DEF NewLodged, Flushes
<1>4. CASE v \notin q.new /\ q.base[v] = None
  <2>1. vms'[v] = vms[v]
    BY <1>1, <1>4, InventoryAssumption DEF RowCommit
  <2> QED
    BY <2>1 DEF Anchored, Present
<1>5. CASE v \notin q.new /\ q.base[v] # None
  <2>1. /\ q.base[v] \in Vm /\ q.now[v] \in Vm /\ Present(v) /\ vms[v] \in Vm
        /\ vms'[v] = Written(vms[v], q.base[v], q.now[v]) /\ RowLodged(r, v)
    BY <1>1, <1>2, <1>5 DEF RowCommit, Lodges
  <2>2. vms'[v].hyp = IF q.now[v].hyp # q.base[v].hyp THEN q.now[v].hyp ELSE vms[v].hyp
    BY <2>1, WrittenType
  <2>3. CASE q.now[v].hyp # q.base[v].hyp
    <3>1. q.now[v] # None /\ q.now[v].hyp = q.hyp
      BY <1>1, <1>2, <1>5, <2>1, <2>3 DEF RowLodged, Session
    <3> QED
      BY <1>2, <2>2, <2>3, <3>1 DEF Flushes
  <2>4. CASE q.now[v].hyp = q.base[v].hyp
    BY <2>1, <2>2, <2>4 DEF Anchored
  <2> QED
    BY <2>3, <2>4
<1> QED
  BY <1>3, <1>4, <1>5

LEMMA AnchoredCreate ==
    ASSUME Sound, Anchored, NEW r \in Requests, CreateVmCommit(r)
    PROVE  Anchored'
<1> DEFINE body == reqs[r].body
<1>1. hyps' = hyps
  BY CreateFacts
<1>2. CASE vms' = vms
  BY <1>1, <1>2 DEF Anchored, Hypervisor, Present
<1>3. CASE vms' # vms
  <2>1. /\ NewId \in Vms /\ vms' = [vms EXCEPT ![NewId] = BodyRow(body)]
        /\ body.hyp # None => Hypervisor(body.hyp)
    BY <1>3, CreateFacts DEF CreateVmCommit, BodyRow
  <2>2. vms'[NewId].hyp = body.hyp /\ \A v \in Vms \ {NewId} : vms'[v] = vms[v]
    BY <2>1 DEF BodyRow, Sound, TypeOK
  <2> QED
    BY <1>1, <2>1, <2>2 DEF Anchored, Hypervisor, Present
<1> QED
  BY <1>2, <1>3

LEMMA AnchoredStep ==
    ASSUME Sound, Housed, Anchored, [Next]_vars
    PROVE  Anchored'
<1>1. CASE World
  BY <1>1, AnchoredWorld
<1>2. ASSUME NEW r \in Requests, RequestStep(r) PROVE Anchored'
  <2>1. CASE RowStep(r)
    <3>1. CASE SyncCommit(r)
      BY <3>1, AnchoredCommit
    <3>2. CASE CreateVmCommit(r)
      BY <3>2, AnchoredCreate
    <3>3. CASE \/ \E data \in reqs[r].left : SyncInsert(r, data) \/ \E v \in Vms : SyncMatch(r, data, v)
               \/ SyncStale(r)
      <4>1. hyps' = hyps /\ vms' = vms
        BY <3>3 DEF SyncInsert, SyncMatch, SyncStale
      <4> QED
        BY <4>1 DEF Anchored, Hypervisor, Present
    <3> QED
      BY <2>1, <3>1, <3>2, <3>3 DEF RowStep
  <2>2. CASE ~RowStep(r)
    BY <1>2, <2>2, RequestStays, RequestFirm, StayedAnchored
  <2> QED
    BY <2>1, <2>2
<1> QED
  BY <1>1, <1>2, NextSplit

LEMMA AnchoredInit ==
    ASSUME OwnHypervisors, Init
    PROVE  Anchored
<1>1. hyps \in InitialHyps /\ vms \in InitialVms
  BY DEF Init
<1>2. Gone \notin Hyp /\ None \notin Hyp
  BY InventoryAssumption
<1> QED
  BY <1>1, <1>2 DEF OwnHypervisors, Anchored, Hypervisor, Present

(* A row found under the hypervisor of a session has its tenant.            *)
LEMMA FoundOfTenant ==
    ASSUME Sound, Housed, Anchored, NEW r \in Requests, reqs[r].kind = "sync", NEW v \in Vms,
           Present(v), vms[v].hyp = reqs[r].hyp
    PROVE  vms[v].tenant = reqs[r].tenant
<1>1. reqs[r].hyp \in Hyps
  BY SyncRequest, SyncFields
<1>2. Hypervisor(reqs[r].hyp)
  BY <1>1, InventoryAssumption DEF Anchored
<1>3. OfTenant(hyps, reqs[r].hyp, vms[v].tenant) /\ OfTenant(hyps, reqs[r].hyp, reqs[r].tenant)
  BY DEF Housed, Lodged, Lodges
<1> QED
  BY <1>1, <1>2, <1>3, InventoryAssumption DEF OfTenant, Hypervisor

(* What a session finds for the first time is of its tenant.                *)
LEMMA MatchOfTenant ==
    ASSUME Sound, Housed, Anchored, NEW r \in Requests, reqs[r].kind = "sync",
           NEW data, NEW v \in Matches(r, data), Seen(r, v) = vms[v], Present(v)
    PROVE  vms[v].tenant = reqs[r].tenant
<1>1. v \in SeenRows(r) /\ v \in Vms
  BY MatchesSeen DEF SeenRows
<1>2. Seen(r, v).hyp = reqs[r].hyp \/ Seen(r, v).tenant = reqs[r].tenant
  BY DEF Matches, Pass1, Pass2, Pass3
<1> QED
  BY <1>1, <1>2, FoundOfTenant

(* When no row a session sees has an identity, none has it that is not      *)
(* known to overlap.                                                        *)
LEMMA NobodyElse ==
    ASSUME Sound, Single, NEW r \in Requests, reqs[r].kind = "sync", reqs[r].at = "match",
           NEW data \in reqs[r].left, Pass2(r, data) = {},
           NEW w \in Vms, Present(w), vms[w].id = data.id, vms[w].tenant = reqs[r].tenant
    PROVE  data.id \in overlapped
<1> DEFINE q == reqs[r]
<1>1. Open(r) /\ Claims(r) /\ Session(r) /\ data.id \in q.seen /\ q.now \in Rows
  BY SyncRequest, SyncFields DEF Open, Single, Claims, Sound
<1>2. ~(w \in SeenRows(r) /\ Seen(r, w).tenant = q.tenant /\ Seen(r, w).id = data.id)
  BY DEF Pass2
<1>3. w \in q.flushed
  <2> SUFFICES ASSUME w \notin q.flushed PROVE FALSE
    OBVIOUS
  <2>1. Seen(r, w) = vms[w] /\ w \in SeenRows(r)
    BY DEF Seen, SeenRows, Present
  <2> QED
    BY <1>2, <2>1
<1>4. q.now[w] # None /\ w \notin q.new
  BY <1>1, <1>3 DEF Session, Present
<1>5. q.base[w] # None
  BY <1>1, <1>4 DEF Session
<1>6. ObjectHeld(r, w)
  BY <1>1, <1>5 DEF Claims
<1>7. Seen(r, w) = q.now[w] /\ w \in SeenRows(r)
  BY <1>1, <1>3, <1>4, InventoryAssumption DEF Seen, SeenRows, Rows
<1>8. q.now[w].id # data.id
  BY <1>2, <1>6, <1>7 DEF ObjectHeld
<1>9. q.base[w].id # data.id
  <2>1. data.id # None
    BY <1>1, SyncRequest, SyncFields, InventoryAssumption
  <2> QED
    BY <1>6, <1>8, <2>1 DEF ObjectHeld
<1> QED
  BY <1>1, <1>6, <1>9 DEF ObjectHeld

(* A step of a session before its commit changes no row.                    *)
LEMMA SingleSession ==
    ASSUME Sound, Single, NEW r \in Requests, reqs' = [reqs EXCEPT ![r] = reqs'[r]],
           vms' = vms, overlapped' = overlapped, place' = place, Open(r),
           reqs'[r].seen = reqs[r].seen, reqs'[r].tenant = reqs[r].tenant, Claims(r)'
    PROVE  Single'
<1>1. \A p \in Requests \ {r} : reqs'[p] = reqs[p]
  BY DEF Sound
<1>2. \A v \in Vms : \A p \in Requests : RowMoves(p, v)
  BY EditMoves DEF Edit
<1>3. \A p \in Requests : Claims(p)'
  BY <1>1, <1>2, OthersClaim DEF Single
<1>4. OneRowPerIdentity'
  BY EditSingle DEF Single, Edit
<1>5. Apart'
  BY ApartTurn DEF Single
<1> QED
  BY <1>3, <1>4, <1>5 DEF Single, Located

LEMMA SingleMatch ==
    ASSUME Sound, Housed, Anchored, Single, NEW r \in Requests, NEW data, NEW v \in Vms,
           SyncMatch(r, data, v)
    PROVE  Single'
<1> DEFINE q == reqs[r]
           p == reqs'[r]
           vm == Loaded(r, v)
<1>1. /\ q \in SyncReq /\ q.at = "match" /\ data \in q.left /\ v \in Matches(r, data)
      /\ v \in SeenRows(r)
      /\ reqs' = [reqs EXCEPT ![r] = p] /\ p \in SyncReq
      /\ p.at = "match" /\ p.tenant = q.tenant /\ p.seen = q.seen
      /\ p.new = q.new /\ p.left = q.left \ {data}
      /\ \A w \in Vms \ {v} : p.base[w] = q.base[w] /\ p.now[w] = q.now[w]
      /\ p.base[v] = (IF q.base[v] = None /\ v \notin q.new THEN vms[v] ELSE q.base[v])
      /\ (q.base[v] = None /\ v \notin q.new => Present(v) /\ vm = vms[v] /\ q.now[v] = None)
      /\ (q.base[v] # None \/ v \in q.new => vm = q.now[v])
      /\ p.now[v].tenant = vm.tenant
      /\ p.now[v].id = (IF vm.id = None THEN data.id ELSE vm.id)
      /\ vms' = vms /\ overlapped' = overlapped /\ place' = place
  BY MatchFacts
<1>2. /\ q.kind = "sync" /\ p.kind = "sync" /\ q.new \in SUBSET Vms /\ q.seen \subseteq Identities
      /\ None \notin Identities
  BY <1>1, SyncFields, InventoryAssumption
<1>3. Open(r) /\ Claims(r) /\ Session(r)
  BY <1>1, <1>2 DEF Open, Single, Sound
<1>4. data.id \in q.seen /\ data.id # None
  BY <1>1, <1>2, <1>3 DEF Claims
<1>5. q.now[v] = None => Seen(r, v) = vms[v]
  BY <1>1, <1>2, LoadedRow
<1> HIDE DEF vm
(* What the session had keeps its identity.                                 *)
<1>6. ASSUME NEW w \in Vms, q.base[w] # None \/ w \in q.new
      PROVE  p.base[w] = q.base[w] /\ p.now[w].id = q.now[w].id /\ p.now[w].tenant = q.now[w].tenant
  <2>1. CASE w # v
    BY <1>1, <2>1
  <2>2. CASE w = v
    <3>1. vm = q.now[v] /\ p.base[v] = q.base[v]
      BY <1>1, <1>6, <2>2
    <3>2. q.now[v].id # None
      <4>1. CASE q.base[v] # None
        BY <1>1, <1>3, <4>1 DEF Claims, ObjectHeld
      <4>2. CASE v \in q.new
        <5>1. ClaimHeld(r, v)
          BY <1>3, <4>2 DEF Claims, Claimed
        <5> QED
          BY <1>2, <5>1 DEF ClaimHeld
      <4> QED
        BY <1>6, <2>2, <4>1, <4>2
    <3> QED
      BY <1>1, <2>2, <3>1, <3>2
  <2> QED
    BY <2>1, <2>2
<1>7. ASSUME q.base[v] = None, v \notin q.new
      PROVE  /\ p.base[v] = vms[v] /\ Present(v) /\ vm = vms[v] /\ Seen(r, v) = vms[v]
             /\ vms[v].tenant = q.tenant /\ p.now[v].tenant = q.tenant /\ vms[v] # None
  BY <1>1, <1>2, <1>5, <1>7, MatchOfTenant DEF Present
<1>8. ASSUME NEW w \in Vms, p.base[w] # None PROVE ObjectHeld(r, w)'
  <2>1. CASE q.base[w] # None
    <3>1. ObjectHeld(r, w)
      BY <1>3, <2>1 DEF Claims
    <3> QED
      BY <1>1, <1>6, <2>1, <3>1 DEF ObjectHeld, Present
  <2>2. CASE q.base[w] = None
    <3>1. w = v /\ v \notin q.new
      BY <1>1, <1>8, <2>2
    <3>2. p.now[v].id # None /\ (vms[v].id # None => p.now[v].id = vms[v].id)
      BY <1>1, <1>4, <1>7, <2>2, <3>1
    <3> QED
      BY <1>1, <1>7, <2>2, <3>1, <3>2 DEF ObjectHeld, Present
  <2> QED
    BY <2>1, <2>2
<1>9. ASSUME NEW w \in Claimed(r)
      PROVE  /\ w \in Vms /\ (q.base[w] # None \/ w \in q.new) /\ p.now[w].id = q.now[w].id
             /\ p.now[w].tenant = q.tenant /\ p.now[w].id \in q.seen /\ ClaimHeld(r, w)
             /\ p.now[w].id # data.id
  <2>1. w \in Vms /\ (q.base[w] # None \/ w \in q.new) /\ ClaimHeld(r, w)
    BY <1>3, <1>9 DEF Claims, Claimed
  <2> QED
    BY <1>1, <1>6, <2>1 DEF ClaimHeld
<1>10. ASSUME NEW w \in Claimed(r)', w \notin Claimed(r)
       PROVE  w = v /\ q.base[v] = None /\ v \notin q.new /\ vms[v].id = None /\ p.now[v].id = data.id
  <2>1. w \in Vms /\ w \notin q.new /\ p.base[w] # None /\ p.base[w].id = None /\ p.now[w].id # None
    BY <1>1, <1>10 DEF Claimed
  <2>2. q.base[w] = None
    BY <1>6, <1>10, <2>1 DEF Claimed
  <2>3. w = v
    BY <1>1, <2>1, <2>2
  <2> QED
    BY <1>1, <1>7, <2>1, <2>2, <2>3
<1>11. ASSUME NEW w \in Claimed(r)' PROVE ClaimHeld(r, w)'
  <2>1. CASE w \in Claimed(r)
    <3>1. \A u \in Claimed(r)' : u # w => p.now[u].id # p.now[w].id
      <4> SUFFICES ASSUME NEW u \in Claimed(r)', u # w PROVE p.now[u].id # p.now[w].id
        OBVIOUS
      <4>1. CASE u \in Claimed(r)
        BY <1>9, <2>1, <4>1 DEF ClaimHeld
      <4>2. CASE u \notin Claimed(r)
        BY <1>9, <1>10, <2>1, <4>2
      <4> QED
        BY <4>1, <4>2
    <3>2. /\ p.now[w].id = q.now[w].id /\ p.now[w].tenant = q.tenant /\ p.now[w].id \in q.seen
          /\ ClaimHeld(r, w)
      BY <1>9, <2>1
    <3> QED
      BY <1>1, <3>1, <3>2 DEF ClaimHeld, Present
  <2>2. CASE w \notin Claimed(r)
    <3>1. w = v /\ q.base[v] = None /\ v \notin q.new /\ vms[v].id = None /\ p.now[v].id = data.id
      BY <1>10, <2>2
    <3>2. \A u \in Claimed(r)' : u # v => p.now[u].id # data.id
      BY <1>9, <1>10
    <3>3. \A d \in p.left : d.id # data.id
      BY <1>1, <1>3 DEF Claims
    <3>4. Pass2(r, data) = {}
      <4>1. Seen(r, v).id # data.id
        BY <1>4, <1>7, <3>1
      <4> QED
        BY <1>1, <4>1 DEF Matches, Pass1, Pass2
    <3>5. \A u \in Vms : Present(u) /\ vms[u].id = data.id /\ vms[u].tenant = q.tenant
              => data.id \in overlapped
      BY <1>1, <1>2, <3>4, NobodyElse
    <3>6. p.now[v].tenant = q.tenant
      BY <1>7, <3>1
    <3> QED
      BY <1>1, <1>4, <3>1, <3>2, <3>3, <3>5, <3>6 DEF ClaimHeld, Present
  <2> QED
    BY <2>1, <2>2
<1>12. Claims(r)'
  <2>1. \A d \in p.left : d.id \in p.seen
    BY <1>1, <1>3 DEF Claims
  <2>2. \A d, e \in p.left : d.id = e.id => d = e
    BY <1>1, <1>3 DEF Claims
  <2> QED
    BY <1>8, <1>11, <2>1, <2>2 DEF Claims
<1> QED
  BY <1>1, <1>3, <1>12, SingleSession

LEMMA SingleInsert ==
    ASSUME Sound, Single, NEW r \in Requests, NEW data, SyncInsert(r, data)
    PROVE  Single'
<1> DEFINE q == reqs[r]
           p == reqs'[r]
<1>0. PICK i \in Vms : i = NewId
  BY InsertFacts
<1>1. /\ q \in SyncReq /\ q.at = "match" /\ data \in q.left /\ data \in VmData
      /\ Matches(r, data) = {} /\ vms[i] = None
      /\ \A s \in Requests : reqs[s].kind = "sync" => i \notin reqs[s].new
      /\ reqs' = [reqs EXCEPT ![r] = p] /\ p \in SyncReq
      /\ p.at = "match" /\ p.tenant = q.tenant /\ p.seen = q.seen
      /\ p.new = q.new \cup {i} /\ p.left = q.left \ {data} /\ p.base = q.base
      /\ \A w \in Vms \ {i} : p.now[w] = q.now[w]
      /\ p.now[i] = Created(q, data)
      /\ vms' = vms /\ overlapped' = overlapped /\ place' = place
  BY <1>0, InsertFacts
<1>2. q.kind = "sync" /\ p.kind = "sync" /\ q.new \in SUBSET Vms
  BY <1>1, SyncFields
<1>3. Open(r) /\ Claims(r) /\ i \notin q.new /\ data.id \in q.seen
  BY <1>1, <1>2 DEF Open, Single, Claims
<1>4. p.now[i].id = data.id /\ p.now[i].tenant = q.tenant
  BY <1>1, CreatedType
<1>5. q.base[i] = None
  BY <1>1, <1>3 DEF Claims, ObjectHeld
<1>6. ASSUME NEW w \in Vms, p.base[w] # None PROVE ObjectHeld(r, w)'
  <2>1. ObjectHeld(r, w) /\ w # i
    BY <1>1, <1>3, <1>5, <1>6 DEF Claims
  <2> QED
    BY <1>1, <2>1 DEF ObjectHeld, Present
<1>7. Claimed(r)' = Claimed(r) \cup {i} /\ i \notin Claimed(r)
  BY <1>1, <1>3, <1>5 DEF Claimed
<1>8. ASSUME NEW w \in Claimed(r)
      PROVE  w \in Vms \ {i} /\ ClaimHeld(r, w) /\ p.now[w] = q.now[w] /\ q.now[w].id # data.id
  <2>1. w \in Vms /\ w # i /\ ClaimHeld(r, w)
    BY <1>3, <1>7 DEF Claims, Claimed
  <2> QED
    BY <1>1, <2>1 DEF ClaimHeld
<1>9. ClaimHeld(r, i)'
  <2>1. \A w \in Claimed(r)' : w # i => p.now[w].id # data.id
    BY <1>7, <1>8
  <2>2. \A d \in p.left : d.id # data.id
    BY <1>1, <1>3 DEF Claims
  <2>3. Pass2(r, data) = {}
    BY <1>1 DEF Matches
  <2>4. \A w \in Vms : Present(w) /\ vms[w].id = data.id /\ vms[w].tenant = q.tenant
            => data.id \in overlapped
    BY <1>1, <1>2, <2>3, NobodyElse
  <2> QED
    BY <1>1, <1>3, <1>4, <2>1, <2>2, <2>4 DEF ClaimHeld, Present
<1>10. ASSUME NEW w \in Claimed(r) PROVE ClaimHeld(r, w)'
  <2>1. \A u \in Claimed(r)' : u # w => p.now[u].id # p.now[w].id
    BY <1>4, <1>7, <1>8 DEF ClaimHeld
  <2>2. ClaimHeld(r, w) /\ p.now[w] = q.now[w]
    BY <1>8
  <2> QED
    BY <1>1, <2>1, <2>2 DEF ClaimHeld, Present
<1>11. Claims(r)'
  <2>1. \A d \in p.left : d.id \in p.seen
    BY <1>1, <1>3 DEF Claims
  <2>2. \A d, e \in p.left : d.id = e.id => d = e
    BY <1>1, <1>3 DEF Claims
  <2> QED
    BY <1>6, <1>7, <1>9, <1>10, <2>1, <2>2 DEF Claims
<1> QED
  BY <1>1, <1>3, <1>11, SingleSession

(* What is archived gets no identity.                                       *)
LEMMA SingleStale ==
    ASSUME Sound, Housed, Anchored, Single, NEW r \in Requests, SyncStale(r)
    PROVE  Single'
<1> DEFINE q == reqs[r]
           p == reqs'[r]
           S == Stale(r)
<1>1. /\ q \in SyncReq /\ q.at = "match" /\ S \subseteq SeenRows(r)
      /\ reqs' = [reqs EXCEPT ![r] = p] /\ p \in SyncReq
      /\ p.at = "commit" /\ p.tenant = q.tenant /\ p.seen = q.seen
      /\ p.new = q.new /\ p.left = q.left
      /\ \A w \in Vms \ S : p.base[w] = q.base[w] /\ p.now[w] = q.now[w]
      /\ \A w \in S : /\ p.base[w] = IF q.base[w] = None /\ w \notin q.new THEN vms[w] ELSE q.base[w]
                      /\ q.base[w] = None /\ w \notin q.new =>
                             Present(w) /\ Loaded(r, w) = vms[w] /\ Seen(r, w) = vms[w]
                      /\ q.base[w] # None \/ w \in q.new => Loaded(r, w) = q.now[w]
                      /\ p.now[w] = [Loaded(r, w) EXCEPT !.status = "archived"]
                      /\ Loaded(r, w) \in Vm
      /\ vms' = vms /\ overlapped' = overlapped /\ place' = place
  BY StaleFacts
<1>2. q.kind = "sync" /\ p.kind = "sync" /\ q.new \in SUBSET Vms
  BY <1>1, SyncFields
<1>3. Open(r) /\ Claims(r)
  BY <1>1, <1>2 DEF Open, Single
<1>4. \A w \in S : Seen(r, w).hyp = q.hyp
  BY DEF Stale
<1> HIDE DEF S
<1>5. ASSUME NEW w \in Vms, q.base[w] # None \/ w \in q.new
      PROVE  p.base[w] = q.base[w] /\ p.now[w].id = q.now[w].id /\ p.now[w].tenant = q.now[w].tenant
  <2>1. CASE w \in S
    <3>1. /\ p.base[w] = q.base[w] /\ q.now[w] \in Vm
          /\ p.now[w] = [q.now[w] EXCEPT !.status = "archived"]
      BY <1>1, <1>5, <2>1
    <3> QED
      BY <3>1 DEF Vm
  <2>2. CASE w \notin S
    BY <1>1, <2>2
  <2> QED
    BY <2>1, <2>2
<1>6. ASSUME NEW w \in Vms, q.base[w] = None, p.base[w] # None
      PROVE  /\ w \notin q.new /\ p.base[w] = vms[w] /\ Present(w) /\ vms[w].tenant = q.tenant
             /\ p.now[w].id = vms[w].id /\ p.now[w].tenant = vms[w].tenant
  <2>1. w \in S /\ w \notin q.new
    BY <1>1, <1>6
  <2>2. /\ p.base[w] = vms[w] /\ Present(w) /\ Seen(r, w) = vms[w] /\ vms[w] \in Vm
        /\ p.now[w] = [vms[w] EXCEPT !.status = "archived"]
    BY <1>1, <1>6, <2>1
  <2>3. p.now[w].id = vms[w].id /\ p.now[w].tenant = vms[w].tenant
    BY <2>2 DEF Vm
  <2>4. vms[w].tenant = q.tenant
    BY <1>2, <1>4, <2>1, <2>2, FoundOfTenant
  <2> QED
    BY <2>1, <2>2, <2>3, <2>4
<1>7. ASSUME NEW w \in Vms, p.base[w] # None PROVE ObjectHeld(r, w)'
  <2>1. CASE q.base[w] # None
    <3>1. ObjectHeld(r, w)
      BY <1>3, <2>1 DEF Claims
    <3> QED
      BY <1>1, <1>5, <2>1, <3>1 DEF ObjectHeld, Present
  <2>2. CASE q.base[w] = None
    BY <1>1, <1>6, <1>7, <2>2 DEF ObjectHeld, Present
  <2> QED
    BY <2>1, <2>2
<1>8. Claimed(r)' = Claimed(r)
  <2>1. ASSUME NEW w \in Vms PROVE w \in Claimed(r)' <=> w \in Claimed(r)
    <3>1. CASE q.base[w] # None \/ w \in q.new
      BY <1>1, <1>5, <3>1 DEF Claimed
    <3>2. CASE q.base[w] = None /\ w \notin q.new
      BY <1>1, <1>6, <3>2 DEF Claimed
    <3> QED
      BY <3>1, <3>2
  <2> QED
    BY <2>1 DEF Claimed
<1>9. ASSUME NEW w \in Claimed(r)
      PROVE  /\ w \in Vms /\ ClaimHeld(r, w) /\ p.now[w].id = q.now[w].id
             /\ p.now[w].tenant = q.now[w].tenant
  BY <1>3, <1>5 DEF Claims, Claimed
<1>10. ASSUME NEW w \in Claimed(r)' PROVE ClaimHeld(r, w)'
  <2>1. ClaimHeld(r, w) /\ p.now[w].id = q.now[w].id /\ p.now[w].tenant = q.now[w].tenant
    BY <1>8, <1>9
  <2>2. \A u \in Claimed(r)' : u # w => p.now[u].id # p.now[w].id
    BY <1>8, <1>9 DEF ClaimHeld
  <2> QED
    BY <1>1, <2>1, <2>2 DEF ClaimHeld, Present
<1>11. Claims(r)'
  <2>1. \A d \in p.left : d.id \in p.seen
    BY <1>1, <1>3 DEF Claims
  <2>2. \A d, e \in p.left : d.id = e.id => d = e
    BY <1>1, <1>3 DEF Claims
  <2> QED
    BY <1>7, <1>10, <2>1, <2>2 DEF Claims
<1> QED
  BY <1>1, <1>3, <1>11, SingleSession

(* A commit gives identities to the rows the session has claimed, and to no *)
(* other.                                                                   *)
LEMMA SingleCommit ==
    ASSUME Sound, Single, NEW r \in Requests, SyncCommit(r)
    PROVE  Single'
<1> DEFINE q == reqs[r]
           C == Claimed(r)
<1>1. /\ q \in SyncReq /\ q.at = "commit" /\ q.kind = "sync"
      /\ reqs' = [reqs EXCEPT ![r] = reqs'[r]] /\ reqs'[r].at = "count"
      /\ \A v \in Vms : RowCommit(r, v)
      /\ overlapped' = overlapped /\ place' = place
  BY CommitFacts
<1>2. Open(r) /\ Claims(r) /\ ~Open(r)' /\ OneRowPerIdentity /\ Apart /\ Session(r)
  BY <1>1 DEF Open, Single, Sound
<1>3. Gone # None /\ None \notin Vm /\ Gone \notin Vm
  BY InventoryAssumption
<1>4. ASSUME NEW v \in C
      PROVE  /\ v \in Vms /\ ClaimHeld(r, v) /\ vms'[v] # None /\ vms'[v].id = q.now[v].id
             /\ vms'[v].tenant = q.tenant /\ vms'[v].id \in q.seen
             /\ (vms[v] # None => Present(v) /\ vms[v].tenant = q.tenant)
  <2>1. v \in Vms /\ ClaimHeld(r, v)
    BY <1>2 DEF Claims, Claimed
  <2>2. CASE v \in q.new
    <3>1. vms[v] = None /\ q.now[v] \in Vm /\ vms'[v] = q.now[v]
      BY <1>1, <2>1, <2>2 DEF RowCommit
    <3> QED
      BY <1>3, <2>1, <3>1 DEF ClaimHeld
  <2>3. CASE v \notin q.new
    <3>1. q.base[v] # None /\ q.base[v].id = None /\ q.now[v].id # None
      BY <2>3 DEF Claimed
    <3>2. /\ q.base[v] \in Vm /\ q.now[v] \in Vm /\ Present(v) /\ vms[v] \in Vm
          /\ vms'[v] = Written(vms[v], q.base[v], q.now[v])
      BY <1>1, <2>1, <2>3, <3>1 DEF RowCommit
    <3>3. vms'[v] \in Vm /\ vms'[v].id = q.now[v].id /\ vms'[v].tenant = vms[v].tenant
      BY <3>1, <3>2, WrittenType
    <3>4. vms[v].tenant = q.tenant
      BY <1>2, <2>1, <3>1, <3>2 DEF Claims, ObjectHeld
    <3> QED
      BY <1>3, <2>1, <3>2, <3>3, <3>4 DEF ClaimHeld
  <2> QED
    BY <2>2, <2>3
<1>5. ASSUME NEW v \in Vms, v \notin C
      PROVE  /\ vms[v] # None => vms'[v] # None
             /\ Present(v)' => Present(v) /\ vms'[v].id = vms[v].id /\ vms'[v].tenant = vms[v].tenant
  <2>1. v \notin q.new
    BY <1>5 DEF Claimed
  <2>2. CASE q.base[v] = None
    <3>1. vms'[v] = vms[v]
      BY <1>1, <1>3, <2>1, <2>2 DEF RowCommit
    <3> QED
      BY <3>1 DEF Present
  <2>3. CASE q.base[v] # None
    <3>1. /\ q.base[v] \in Vm /\ q.now[v] \in Vm /\ Present(v) /\ vms[v] \in Vm
          /\ vms'[v] = Written(vms[v], q.base[v], q.now[v])
      BY <1>1, <2>1, <2>3 DEF RowCommit
    <3>2. q.now[v].id = q.base[v].id
      BY <1>2, <1>5, <2>3 DEF Claims, ObjectHeld, Claimed
    <3>3. vms'[v] \in Vm /\ vms'[v].id = vms[v].id /\ vms'[v].tenant = vms[v].tenant
      BY <3>1, <3>2, WrittenType
    <3> QED
      BY <1>3, <3>1, <3>3
  <2> QED
    BY <2>2, <2>3
<1> HIDE DEF C
<1>6. OneRowPerIdentity'
  <2> SUFFICES ASSUME NEW v \in Vms, NEW w \in Vms, Present(v)', Present(w)', v # w,
                      vms'[v].id # None, vms'[v].id = vms'[w].id, vms'[v].tenant = vms'[w].tenant
               PROVE  vms'[v].id \in overlapped \cup Typed
    BY <1>1 DEF OneRowPerIdentity, Typed
  <2>1. CASE v \in C /\ w \in C
    BY <1>4, <2>1 DEF ClaimHeld, C
  <2>2. CASE v \in C /\ w \notin C
    <3>1. Present(w) /\ vms[w].id = q.now[v].id /\ vms[w].tenant = q.tenant
      BY <1>4, <1>5, <2>2
    <3> QED
      BY <1>4, <2>2, <3>1 DEF ClaimHeld
  <2>3. CASE v \notin C /\ w \in C
    <3>1. Present(v) /\ vms[v].id = q.now[w].id /\ vms[v].tenant = q.tenant
      BY <1>4, <1>5, <2>3
    <3> QED
      BY <1>4, <2>3, <3>1 DEF ClaimHeld
  <2>4. CASE v \notin C /\ w \notin C
    BY <1>2, <1>5, <2>4 DEF OneRowPerIdentity, Typed
  <2> QED
    BY <2>1, <2>2, <2>3, <2>4
<1>7. ASSUME NEW s \in Requests \ {r}, NEW v \in Vms PROVE RowMoves(s, v)
  <2>1. CASE v \in C
    <3>1. Open(s) /\ reqs[s].tenant = q.tenant => q.seen \cap reqs[s].seen \subseteq overlapped
      BY <1>2, <1>7 DEF Apart
    <3> QED
      BY <1>4, <2>1, <3>1 DEF RowMoves
  <2>2. CASE v \notin C
    BY <1>3, <1>5, <2>2 DEF RowMoves, Present
  <2> QED
    BY <2>1, <2>2
<1>8. \A s \in Requests \ {r} : reqs'[s] = reqs[s]
  BY <1>1 DEF Sound
<1>9. \A s \in Requests : Claims(s)'
  <2>1. Claims(r)'
    BY <1>2 DEF Claims
  <2> QED
    BY <1>1, <1>7, <1>8, <2>1, OthersClaim DEF Single
<1>10. Apart'
  BY <1>1, <1>2, ApartTurn
<1> QED
  BY <1>1, <1>6, <1>9, <1>10 DEF Single, Located

LEMMA SingleCreate ==
    ASSUME Sound, Single, NEW r \in Requests, CreateVmCommit(r)
    PROVE  Single'
<1>1. /\ reqs' = [reqs EXCEPT ![r] = reqs'[r]] /\ reqs'[r].kind = "idle"
      /\ overlapped' = overlapped /\ place' = place
  BY CreateFacts, ReqsSet, IdleRequest
<1>2. ~Open(r)' /\ Claims(r)' /\ \A s \in Requests \ {r} : reqs'[s] = reqs[s]
  BY <1>1 DEF Open, Claims, Sound
<1>3. (\A v \in Vms : \A s \in Requests : RowMoves(s, v)) /\ OneRowPerIdentity'
  <2>1. CASE vms' = vms
    BY <1>1, <2>1, EditMoves, EditSingle DEF Edit, Single
  <2>2. CASE vms' # vms
    <3>1. PICK i \in Vms, body \in VmBodies :
              vms[i] = None /\ vms' = [vms EXCEPT ![i] = BodyRow(body)] /\ BodyRow(body) \in Vm
      BY <2>2, CreateFacts
    <3>2. /\ vms'[i].id = body.id /\ body.id \in Typed /\ vms'[i] # None
          /\ \A w \in Vms \ {i} : vms'[w] = vms[w]
      BY <3>1, InventoryAssumption DEF BodyRow, Sound, TypeOK, Typed
    <3>3. \A v \in Vms : \A s \in Requests : RowMoves(s, v)
      BY <3>1, <3>2 DEF RowMoves, Present
    <3>4. \A w \in Vms \ {i} : Present(w)' => Present(w)
      BY <3>2 DEF Present
    <3>5. OneRowPerIdentity'
      BY <1>1, <3>2, <3>4 DEF Single, OneRowPerIdentity, Typed
    <3> QED
      BY <3>3, <3>5
  <2> QED
    BY <2>1, <2>2
<1>4. \A s \in Requests : Claims(s)'
  BY <1>1, <1>2, <1>3, OthersClaim DEF Single
<1>5. Apart'
  BY <1>1, <1>2, ApartTurn DEF Single
<1> QED
  BY <1>1, <1>3, <1>4, <1>5 DEF Single, Located

LEMMA SingleWorld ==
    ASSUME Sound, Single, World
    PROVE  Single'
<1>1. reqs' = reqs /\ overlapped' = overlapped /\ \A v \in Vms : Edit(v)
  BY WorldStep DEF WorldFacts
<1>2. OneRowPerIdentity' /\ \A r \in Requests : Claims(r)'
  BY <1>1, EditMoves, EditSingle, OthersClaim DEF Single
<1>3. Apart'
  BY <1>1 DEF Single, Apart, Open
<1>4. Located'
  BY LocatedStep DEF World, Next, Single
<1> QED
  BY <1>2, <1>3, <1>4 DEF Single

LEMMA SingleClosed ==
    ASSUME Sound, Single, NEW r \in Requests, ClosedStep(r), Located'
    PROVE  Single'
<1>1. /\ reqs' = [reqs EXCEPT ![r] = reqs'[r]] /\ overlapped' = overlapped
      /\ ~Open(r)' /\ \A v \in Vms : Edit(v)
  BY DEF ClosedStep, QuietFacts
<1>2. (\A s \in Requests \ {r} : reqs'[s] = reqs[s]) /\ Claims(r)'
  BY <1>1 DEF Sound, Claims
<1>3. OneRowPerIdentity' /\ \A s \in Requests : Claims(s)'
  BY <1>1, <1>2, EditMoves, EditSingle, OthersClaim DEF Single
<1>4. Apart'
  BY <1>1, ApartTurn DEF Single
<1> QED
  BY <1>3, <1>4 DEF Single

(* What a session has to match was reported under distinct identities.      *)
LEMMA ReportDistinct ==
    ASSUME DistinctReports, Located, NEW h \in Hyps, NEW type \in Types, NEW listing \in BOOLEAN,
           NEW reading \in Readings, Report(h, type, listing, reading) # Aborts
    PROVE  \A d, e \in Report(h, type, listing, reading) : d.id = e.id => d = e
<1>1. Report(h, type, listing, reading) = Discovered(type, Asked(place, h, reading), listing)
  BY DEF Report, Asked
<1>2. PICK where \in InitialPlaces \cup Places : where = place
  BY DEF Located
<1>3. Discovered(type, Asked(where, h, reading), listing) # Aborts =>
        \A d, e \in Discovered(type, Asked(where, h, reading), listing) : d.id = e.id => d = e
  BY DEF DistinctReports
<1> QED
  BY <1>1, <1>2, <1>3

LEMMA SingleFetch ==
    ASSUME DistinctReports, Sound, Single, NEW r \in Requests, NEW listing \in BOOLEAN,
           NEW reading \in Readings, SyncFetch(r, listing, reading)
    PROVE  Single'
<1> DEFINE q == reqs[r]
           p == reqs'[r]
<1>1. /\ QuietFacts(r) /\ q.kind = "sync" /\ q.at = "fetch" /\ p.new = {} /\ p.base = q.base
      /\ p.seen = {data.id : data \in p.left} /\ \A v \in Vms : q.base[v] = None
      /\ overlapped' = overlapped \cup (p.seen \cap InFlight(r)) /\ vms' = vms /\ place' = place
  BY FetchFacts
<1>2. /\ \A s \in Requests \ {r} : reqs'[s] = reqs[s]
      /\ \A v \in Vms : Edit(v)
  BY <1>1 DEF QuietFacts, Sound
<1>3. q \in SyncReq /\ q.hyp \in Hyps /\ q.type \in Types
  BY <1>1, SyncRequest, SyncFields
<1>4. \A d, e \in p.left : d.id = e.id => d = e
  <2> DEFINE report == Report(q.hyp, q.type, listing, reading)
  <2>1. report # Aborts
    BY Zenon DEF SyncFetch
  <2>2. p.left = report
    <3>1. PICK x, y, z, u : /\ x = report
                            /\ reqs' = [reqs EXCEPT ![r].at = y, ![r].left = x, ![r].seen = z, ![r].snap = u]
      BY Zenon DEF SyncFetch
    <3> HIDE DEF report
    <3> QED
      BY <1>3, <3>1 DEF SyncReq, Sound
  <2>3. \A d, e \in report : d.id = e.id => d = e
    BY <1>3, <2>1, ReportDistinct DEF Single
  <2> HIDE DEF report
  <2> QED
    BY <2>2, <2>3
<1>5. Claims(r)'
  <2>1. Claimed(r)' = {}
    BY <1>1 DEF Claimed
  <2> QED
    BY <1>1, <1>4, <2>1 DEF Claims
<1>6. \A s \in Requests : Claims(s)'
  BY <1>1, <1>2, <1>5, EditMoves, OthersClaim DEF Single
<1>7. OneRowPerIdentity'
  BY <1>1, <1>2, EditSingle DEF Single
<1>8. Apart'
  BY ApartFetch DEF Single
<1> QED
  BY <1>1, <1>6, <1>7, <1>8 DEF Single, Located

LEMMA SingleStep ==
    ASSUME DistinctReports, Sound, Housed, Anchored, Single, [Next]_vars
    PROVE  Single'
<1>0. Located'
  BY LocatedStep DEF Single
<1>1. CASE World
  BY <1>1, SingleWorld
<1>2. ASSUME NEW r \in Requests, RequestStep(r) PROVE Single'
  <2>1. CASE ClosedStep(r)
    BY <1>0, <2>1, SingleClosed
  <2>2. CASE \E listing \in BOOLEAN, reading \in Readings : SyncFetch(r, listing, reading)
    BY <2>2, SingleFetch
  <2>3. CASE RowStep(r)
    BY <2>3, SingleMatch, SingleInsert, SingleStale, SingleCommit, SingleCreate DEF RowStep
  <2> QED
    BY <1>2, <2>1, <2>2, <2>3, RequestClosed
<1> QED
  BY <1>1, <1>2, NextSplit

LEMMA SingleInit ==
    ASSUME DistinctStart, Init
    PROVE  Single
<1>1. \A r \in Requests : reqs[r].kind = "idle"
  BY IdleRequest DEF Init
<1>2. OneRowPerIdentity
  <2>1. vms \in InitialVms
    BY DEF Init
  <2> QED
    BY <2>1 DEF DistinctStart, OneRowPerIdentity, Present, Typed
<1>3. Located
  BY DEF Init, Located
<1> QED
  BY <1>1, <1>2, <1>3 DEF Single, Apart, Claims, Open

(* Where rows and bodies may lack an identity and two machines may share a  *)
(* name, so that the third pass of _save_discovered_vms takes a row by its  *)
(* name and two synchronisations may take the same row for two machines, a  *)
(* machine still never gets a second row in its tenant, unless two          *)
(* synchronisations reported it at a time or a client typed its identity.   *)
(* Each source reports a machine once, and rows and bodies name hypervisors *)
(* of their tenant.                                                         *)
THEOREM MachinesHaveOneRow ==
    ASSUME DistinctReports, DistinctStart, OwnHypervisors
    PROVE  Spec => []OneRowPerIdentity
<1> DEFINE Inv == Sound /\ Housed /\ Anchored /\ Single
<1>1. Init => Inv
  BY InitSound, HousedInit, AnchoredInit, SingleInit
<1>2. Inv /\ [Next]_vars => Inv'
  BY StepSound, HousedStep, AnchoredStep, SingleStep
<1>3. Inv => OneRowPerIdentity
  BY DEF Single
<1> QED
  BY <1>1, <1>2, <1>3, PTL DEF Spec

-----------------------------------------------------------------------------
(* Views.                                                                   *)

LEMMA ViewsOfTenant ==
    ASSUME Sound, Housed, NEW t \in Tenants, NEW h \in HypsOf(t)
    PROVE  HypervisorVms(t, h) = {v \in ListVms(t, h) : Live(vms[v])}
<1>1. h \in Hyps /\ Hypervisor(h) /\ (t = None \/ hyps[h].tenant = t)
  BY DEF HypsOf
<1>2. ASSUME NEW v \in Vms, Live(vms[v]), vms[v].hyp = h
      PROVE  Present(v) /\ vms[v].tenant = hyps[h].tenant
  <2>1. Present(v) /\ OfTenant(hyps, h, vms[v].tenant)
    BY <1>2 DEF Live, Present, Housed, Lodged
  <2> QED
    BY <1>1, <2>1, PresentHyp DEF OfTenant, Hypervisor
<1> QED
  BY <1>1, <1>2 DEF HypervisorVms, RowsOf, ListVms, VmsOf

(* When clients and the first rows name hypervisors of their own tenant,    *)
(* which POST /vms does not check, the machines that a tenant finds under   *)
(* its hypervisors are also the live ones that it finds in its list: what   *)
(* the second pass attaches is of the tenant of the session, a commit gives *)
(* a row no other hypervisor, and no id of a hypervisor is used again.      *)
THEOREM ViewsAlwaysAgree ==
    ASSUME OwnHypervisors
    PROVE  Spec => []ViewsAgree
<1>1. Init => Sound /\ Housed
  BY InitSound, HousedInit
<1>2. Sound /\ Housed /\ [Next]_vars => Sound' /\ Housed'
  BY StepSound, HousedStep
<1>3. Sound /\ Housed => ViewsAgree
  BY ViewsOfTenant DEF ViewsAgree
<1> QED
  BY <1>1, <1>2, <1>3, PTL DEF Spec
=============================================================================
