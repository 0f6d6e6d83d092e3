-------------------------- MODULE Assessment_proofs --------------------------
(***************************************************************************)
(* Proofs about the readings and gradings of one machine, for any set of   *)
(* predictions and any numbers of readings and analyses.                   *)
(*                                                                         *)
(* Known is the inductive invariant: the last grade and strategy agree     *)
(* with the rules on the facts they were given for (Judged), and the row   *)
(* holds what the last complete reading told (ReadTold).  The types of     *)
(* what the drivers report, at the top, are those of VmInventory_proofs.   *)
(***************************************************************************)
EXTENDS Assessment, TLAPS

-----------------------------------------------------------------------------
(* What the drivers report.                                                 *)

LEMMA SizeTypes ==
    ASSUME NEW h \in Nat
    PROVE  Rounded(h) \in Nat /\ Ceiling(h) \in Nat /\ Positive(h) \in Nat /\ h \div 2 \in Nat
<1>1. h \div 2 \in Nat /\ (h + 1) \div 2 \in Nat
  OBVIOUS
<1>2. Rounded(h) \in Nat
  BY <1>1 DEF Rounded
<1> QED
  BY <1>1, <1>2 DEF Ceiling, Positive

LEMMA GuestTypes ==
    ASSUME NEW g \in Guest
    PROVE  /\ VmxOsType(g) \in OsTypes /\ HypervOsType(g) \in OsTypes
           /\ ProxmoxOsType(g) \in OsTypes /\ OvirtOsType(g) \in OsTypes
           /\ VmxLabel(g) \in Labels /\ KernelLabel(g) \in Labels /\ Label(g) \in Labels
           /\ ProxmoxLabel(g) \in Labels /\ OvirtLabel(g) \in Labels
<1>1. Label(g) \in Labels
  BY DEF Label, Labels
<1>2. VmxLabel(g) \in Labels
  BY <1>1 DEF VmxLabel, Labels
<1>3. KernelLabel(g) \in Labels /\ ProxmoxLabel(g) \in Labels /\ OvirtLabel(g) \in Labels
  BY <1>1, <1>2 DEF KernelLabel, ProxmoxLabel, OvirtLabel, Labels
<1>4. VmxOsType(g) \in OsTypes /\ OvirtOsType(g) \in OsTypes
  BY DEF VmxOsType, OvirtOsType, OsTypes, Guest
<1>5. HypervOsType(g) \in OsTypes /\ ProxmoxOsType(g) \in OsTypes
  BY DEF HypervOsType, ProxmoxOsType, OsTypes, Guest
<1> QED
  BY <1>1, <1>2, <1>3, <1>4, <1>5

LEMMA MachineTypes ==
    ASSUME NEW m \in Machine
    PROVE  /\ m.name \in Names /\ m.guest \in Guest
           /\ m.uuid \in Uuids \cup {None} /\ m.firmware \in Firmwares \cup {None}
           /\ m.cpu \in Nat /\ m.mem \in Nat /\ m.boot \in Nat /\ m.data \in Nat
           /\ m.boot + m.data \in Nat /\ OrBios(m.firmware) \in Firmwares \cup {None}
           /\ m.hint \in {"linux", "windows", "none"}
           /\ <<"uuid", m.uuid>> \in Identities /\ <<"name", m.name>> \in Identities
           /\ <<"vmid", m.name>> \in Identities
<1>1. /\ m.name \in Names /\ m.guest \in Guest
      /\ m.uuid \in Uuids \cup {None} /\ m.firmware \in Firmwares \cup {None}
      /\ m.cpu \in Nat /\ m.mem \in Nat /\ m.boot \in Nat /\ m.data \in Nat
      /\ m.hint \in {"linux", "windows", "none"}
  BY SourceAssumption DEF Machine
<1>2. OrBios(m.firmware) \in Firmwares \cup {None}
  BY <1>1 DEF OrBios, Firmwares
<1> QED
  BY <1>1, <1>2 DEF Identities

LEMMA DataType ==
    ASSUME NEW m \in Machine, NEW id \in Identities, NEW os \in OsTypes,
           NEW label \in Labels \cup {"untold"},
           NEW cpu \in Nat, NEW mem \in Nat, NEW disk \in Nat, NEW fw \in Firmwares \cup {None}
    PROVE  Data(id, m, os, label, cpu, mem, disk, fw) \in VmData
BY MachineTypes DEF Data, VmData

LEMMA ReadTypes ==
    ASSUME NEW m \in Machine, NEW outcome \in Outcomes
    PROVE  /\ ReadVsphere(m, outcome) \in VmData /\ ReadWorkstation(m, outcome) \in VmData
           /\ ReadHyperv(m, outcome) \in VmData /\ ReadKvm(m, outcome) \in VmData
           /\ ReadProxmox(m, outcome) \in VmData /\ ReadOvirt(m, outcome) \in VmData
           /\ ReadPhysical(m, outcome) \in VmData
<1> DEFINE g == m.guest
           fw == Firmwares \cup {None}
<1>1. /\ m.name \in Names /\ g \in Guest /\ m.uuid \in Uuids \cup {None} /\ m.firmware \in fw
      /\ m.cpu \in Nat /\ m.mem \in Nat /\ m.boot \in Nat /\ m.data \in Nat
      /\ m.boot + m.data \in Nat /\ OrBios(m.firmware) \in fw
      /\ m.hint \in {"linux", "windows", "none"}
      /\ <<"uuid", m.uuid>> \in Identities /\ <<"name", m.name>> \in Identities
      /\ <<"vmid", m.name>> \in Identities
  BY MachineTypes
<1>2. /\ VmxOsType(g) \in OsTypes /\ HypervOsType(g) \in OsTypes
      /\ ProxmoxOsType(g) \in OsTypes /\ OvirtOsType(g) \in OsTypes
      /\ VmxLabel(g) \in Labels /\ KernelLabel(g) \in Labels /\ Label(g) \in Labels
      /\ ProxmoxLabel(g) \in Labels /\ OvirtLabel(g) \in Labels
  BY <1>1, GuestTypes
<1>3. /\ Rounded(m.boot + m.data) \in Nat /\ Ceiling(m.boot + m.data) \in Nat
      /\ Positive(m.boot + m.data) \in Nat /\ (m.boot + m.data) \div 2 \in Nat
      /\ Positive(m.boot) \in Nat /\ Positive(m.data) \in Nat /\ Positive(m.boot + 0) \in Nat
  BY <1>1, SizeTypes
<1>4. /\ {"unknown", "linux", "windows"} \subseteq OsTypes /\ "unrecognised" \in Labels
      /\ 0 \in Nat /\ None \in fw /\ "bios" \in fw
  BY DEF OsTypes, Labels, Firmwares
<1> HIDE DEF g, fw
<1>5. /\ (IF m.tools THEN VmxOsType(g) ELSE "unknown") \in OsTypes
      /\ (IF m.tools THEN VmxLabel(g) ELSE "untold") \in Labels \cup {"untold"}
      /\ (IF m.uuid # None THEN <<"uuid", m.uuid>> ELSE <<"name", m.name>>) \in Identities
      /\ (IF m.uuid # None THEN <<"uuid", m.uuid>> ELSE <<"vmid", m.name>>) \in Identities
      /\ (IF m.uuid # None /\ "uuid" \notin outcome THEN <<"uuid", m.uuid>> ELSE <<"name", m.name>>)
            \in Identities
      /\ (IF m.running /\ m.tools /\ outcome = Ok THEN KernelLabel(g) ELSE VmxLabel(g)) \in Labels
      /\ (IF m.running /\ m.tools /\ outcome = Ok THEN HypervOsType(g) ELSE "unknown") \in OsTypes
      /\ (IF m.running /\ m.tools /\ outcome = Ok THEN Label(g) ELSE "unrecognised") \in Labels
      /\ (IF outcome = Ok THEN Rounded(m.boot + m.data) ELSE 0) \in Nat
      /\ (IF m.hint = "none" THEN "unknown" ELSE m.hint) \in OsTypes
  BY <1>1, <1>2, <1>3, <1>4
<1>6. (IF outcome = Ok THEN KvmDisk(m) ELSE 0) \in Nat
  BY <1>3, <1>4 DEF KvmDisk
<1>7. OvirtDisk(m, outcome) \in Nat
  BY <1>1, <1>3 DEF OvirtDisk
<1>8. ReadVsphere(m, outcome) \in VmData
  <2>1. CASE outcome # Ok
    BY <1>1, <1>4, <1>5, <2>1, DataType DEF ReadVsphere, g, fw
  <2>2. CASE outcome = Ok
    BY <1>1, <1>2, <1>3, <1>5, <2>2, DataType DEF ReadVsphere, g, fw
  <2> QED
    BY <2>1, <2>2
<1>9. ReadWorkstation(m, outcome) \in VmData
  <2> DEFINE d == Data(IF m.uuid # None THEN <<"uuid", m.uuid>> ELSE <<"name", m.name>>, m,
                       VmxOsType(g), IF m.running /\ m.tools /\ outcome = Ok THEN KernelLabel(g)
                                     ELSE VmxLabel(g),
                       m.cpu, m.mem, Positive(m.boot + m.data), OrBios(m.firmware))
             c == IF VmxOsType(g) \in {"linux", "windows"} THEN "compatible" ELSE "unknown"
  <2>1. d \in VmData
    BY <1>1, <1>2, <1>3, <1>5, DataType DEF fw
  <2>2. c \in {"unknown", "compatible"}
    OBVIOUS
  <2>3. ReadWorkstation(m, outcome) = [d EXCEPT !.compat = c]
    BY DEF ReadWorkstation, g
  <2> HIDE DEF d, c
  <2> QED
    BY <2>1, <2>2, <2>3 DEF VmData
<1>10. ReadHyperv(m, outcome) \in VmData
  BY <1>1, <1>5, DataType DEF ReadHyperv, g, fw
<1>11. ReadKvm(m, outcome) \in VmData
  BY <1>1, <1>4, <1>5, <1>6, DataType DEF ReadKvm, fw
<1>12. ReadProxmox(m, outcome) \in VmData
  <2>1. CASE outcome # Ok
    BY <1>1, <1>3, <1>4, <2>1, DataType DEF ReadProxmox, fw
  <2>2. CASE outcome = Ok
    BY <1>1, <1>2, <1>3, <1>5, <2>2, DataType DEF ReadProxmox, g, fw
  <2> QED
    BY <2>1, <2>2
<1>13. ReadOvirt(m, outcome) \in VmData
  BY <1>1, <1>2, <1>7, DataType DEF ReadOvirt, g, fw
<1>14. ReadPhysical(m, outcome) \in VmData
  <2> DEFINE id == IF m.uuid # None /\ "uuid" \notin outcome THEN <<"uuid", m.uuid>>
                                                           ELSE <<"name", m.name>>
             label == IF "os" \in outcome THEN "unrecognised" ELSE Label(g)
             cpu == IF "cpu" \in outcome THEN 1 ELSE m.cpu
             mem == IF "memory" \in outcome THEN 0 ELSE m.mem
             disk == IF "disks" \in outcome THEN 0 ELSE Ceiling(m.boot + m.data)
             firmware == IF "firmware" \in outcome THEN "bios" ELSE OrBios(m.firmware)
             root == IF "root" \in outcome THEN "none" ELSE m.root
             listed == IF "disks" \in outcome THEN None ELSE FirstDisk(m, root)
             d == Data(id, m, "linux", label, cpu, mem, disk, firmware)
  <2>1. /\ id \in Identities /\ label \in Labels /\ cpu \in Nat /\ mem \in Nat /\ disk \in Nat
        /\ firmware \in fw
    BY <1>1, <1>2, <1>3, <1>4, <1>5
  <2>2. listed \in {"boot", "data", None}
    BY DEF FirstDisk
  <2>3. ReadPhysical(m, outcome) = [d EXCEPT !.first = listed]
    BY DEF ReadPhysical, g
  <2> HIDE DEF id, label, cpu, mem, disk, firmware, root, listed
  <2>4. d \in VmData
    BY <1>1, <1>4, <2>1, DataType DEF fw
  <2> HIDE DEF d
  <2> QED
    BY <2>2, <2>3, <2>4 DEF VmData
<1> QED
  BY <1>8, <1>9, <1>10, <1>11, <1>12, <1>13, <1>14

LEMMA DiscoveredType ==
    ASSUME NEW hypervisor \in Types, NEW asked \in SUBSET (Machine \X Outcomes), NEW listing \in BOOLEAN,
           Discovered(hypervisor, asked, listing) # Aborts
    PROVE  Discovered(hypervisor, asked, listing) \in SUBSET VmData
<1>1. ASSUME NEW a \in asked
      PROVE  /\ a[1] \in Machine /\ a[2] \in Outcomes
             /\ (IF listing THEN a[2] ELSE Partial) \in Outcomes
  <2>1. Partial \in Outcomes
    BY DEF Outcomes
  <2> QED
    BY <1>1, <2>1
<1>2. CASE hypervisor = "vsphere"
  BY <1>1, <1>2, ReadTypes DEF Discovered, DiscoverVsphere
<1>3. CASE hypervisor = "vmware_workstation"
  BY <1>1, <1>3, ReadTypes DEF Discovered, DiscoverWorkstation, Answered, VmxPaths
<1>4. CASE hypervisor = "hyper_v"
  BY <1>1, <1>4, ReadTypes DEF Discovered, DiscoverHyperv
<1>5. CASE hypervisor = "kvm"
  BY <1>1, <1>5, ReadTypes DEF Discovered, DiscoverKvm, Answered
<1>6. CASE hypervisor = "proxmox"
  BY <1>1, <1>6, ReadTypes DEF Discovered, DiscoverProxmox, Answered
<1>7. CASE hypervisor = "ovirt"
  BY <1>1, <1>7, ReadTypes DEF Discovered, DiscoverOvirt, Answered
<1>8. CASE hypervisor = "physical"
  BY <1>1, <1>8, ReadTypes DEF Discovered, DiscoverPhysical
<1> QED
  BY <1>2, <1>3, <1>4, <1>5, <1>6, <1>7, <1>8 DEF Types

LEMMA ReportData ==
    ASSUME type \in Types, machine \in Machine, NEW outcome \in Outcomes, Report(outcome) # Aborts,
           NEW data \in Report(outcome)
    PROVE  data \in VmData
<1>1. {<<machine, outcome>>} \in SUBSET (Machine \X Outcomes)
  OBVIOUS
<1> QED
  BY <1>1, DiscoveredType DEF Report

LEMMA RefreshedType ==
    ASSUME NEW kept \in RowFacts, NEW data \in VmData
    PROVE  /\ FactsOf(data) \in RowFacts /\ Refreshed(kept, data) \in RowFacts
           /\ Refreshed(kept, data).os = data.os
           /\ data.label # "untold" => /\ FactsOf(data).label = data.label
                                      /\ Refreshed(kept, data).label = data.label
           /\ Refreshed(kept, data).cpu = data.cpu /\ Refreshed(kept, data).mem = data.mem
           /\ Refreshed(kept, data).disk = IF data.disk > 0 THEN data.disk ELSE kept.disk
<1> DEFINE d == IF data.disk > 0 THEN data.disk ELSE kept.disk
           l == IF data.label = "untold" THEN kept.label ELSE FactsOf(data).label
<1>1. /\ FactsOf(data) \in RowFacts /\ FactsOf(data).os = data.os
      /\ data.label # "untold" => FactsOf(data).label = data.label
      /\ FactsOf(data).cpu = data.cpu /\ FactsOf(data).mem = data.mem
      /\ FactsOf(data).disk = data.disk
  BY DEF FactsOf, RowFacts, VmData, Labels
<1>2. d \in Nat /\ l \in Labels
  BY <1>1 DEF RowFacts
<1>3. Refreshed(kept, data) = [FactsOf(data) EXCEPT !.disk = d, !.label = l]
  BY <1>1 DEF Refreshed, RowFacts
<1>4. /\ [FactsOf(data) EXCEPT !.disk = d, !.label = l] \in RowFacts
      /\ [FactsOf(data) EXCEPT !.disk = d, !.label = l].disk = d
      /\ [FactsOf(data) EXCEPT !.disk = d, !.label = l].label = l
      /\ [FactsOf(data) EXCEPT !.disk = d, !.label = l].os = FactsOf(data).os
      /\ [FactsOf(data) EXCEPT !.disk = d, !.label = l].cpu = FactsOf(data).cpu
      /\ [FactsOf(data) EXCEPT !.disk = d, !.label = l].mem = FactsOf(data).mem
  <2> HIDE DEF d, l
  <2> QED
    BY <1>1, <1>2 DEF RowFacts
<1> QED
  BY <1>1, <1>3, <1>4 DEF d, l

-----------------------------------------------------------------------------
(* What the drivers report of the one machine.                              *)

LEMMA PhysicalReport ==
    ASSUME type = "physical", NEW outcome \in Outcomes, Report(outcome) # Aborts,
           NEW data \in Report(outcome)
    PROVE  /\ data.os = "linux"
           /\ "os" \notin outcome => data.label = Label(machine.guest)
           /\ "cpu" \notin outcome => data.cpu = machine.cpu
           /\ "memory" \notin outcome => data.mem = machine.mem
           /\ "disks" \notin outcome /\ "root" \notin outcome
                 => data.first = FirstDisk(machine, machine.root)
<1>1. data = ReadPhysical(machine, outcome)
  BY DEF Report, Discovered, DiscoverPhysical
<1> QED
  BY <1>1 DEF ReadPhysical, Data

(* On a source that spells releases as the matrix does, a complete read of  *)
(* a machine tells its system, its release, its processors and its memory.  *)
Told == type # "hyper_v" \/ (machine.running /\ machine.tools)
Linux == type = "physical" \/ machine.guest.family = "linux"
Release == IF type = "vsphere" THEN VmxLabel(machine.guest) ELSE Label(machine.guest)

LEMMA CompleteReport ==
    ASSUME type \in Spelled, Told, Linux, Report(Ok) # Aborts, NEW data \in Report(Ok)
    PROVE  /\ data.os = "linux" /\ data.label = Release /\ data.label # "untold"
           /\ data.cpu = machine.cpu /\ data.mem = machine.mem
<1>1. CASE type = "vsphere"
  <2>1. data = ReadVsphere(machine, Ok) /\ machine.guest.family = "linux"
    BY <1>1 DEF Report, Discovered, DiscoverVsphere, Linux
  <2> QED
    BY <1>1, <2>1 DEF ReadVsphere, Data, VmxOsType, VmxLabel, Label, Release
<1>2. CASE type = "hyper_v"
  <2>1. data = ReadHyperv(machine, Ok) /\ machine.guest.family = "linux"
    BY <1>2 DEF Report, Discovered, DiscoverHyperv, Linux
  <2> QED
    BY <1>2, <2>1 DEF ReadHyperv, Data, HypervOsType, Label, Release, Told
<1>3. CASE type = "physical"
    <2>1. Ok \in Outcomes /\ "os" \notin Ok /\ "cpu" \notin Ok /\ "memory" \notin Ok
    BY DEF Ok, Outcomes
  <2> QED
    BY <1>3, <2>1, PhysicalReport DEF Release, Label
<1> QED
  BY <1>1, <1>2, <1>3 DEF Spelled

-----------------------------------------------------------------------------
(* What the rules make of a row.                                            *)

LEMMA RuleWeights ==
    ASSUME NEW vm \in RowFacts, NEW t
    PROVE  /\ \A r \in RuleNames : Evaluate(vm, t)[r].weight \in Nat
           /\ t \notin VirtioNative => Evaluate(vm, t)["guest_adaptation"].weight = 20
           /\ vm.os = "windows" \/ (vm.os = "linux" /\ t = "physical")
                  => Evaluate(vm, t)["driver_injection"].weight = 15
<1>1. /\ OsSupported(vm, t).weight \in Nat /\ CpuMin(vm, t).weight \in Nat
      /\ MemoryMin(vm, t).weight \in Nat /\ DiskMin(vm, t).weight \in Nat
      /\ DiskFormat(vm, t).weight \in Nat /\ GuestAdaptation(vm, t).weight \in Nat
      /\ DriverInjection(vm, t).weight \in Nat
  BY DEF OsSupported, CpuMin, MemoryMin, DiskMin, DiskFormat, GuestAdaptation, DriverInjection,
     Failed, Passed, Blocker, RowFacts
<1>2. /\ t \notin VirtioNative => GuestAdaptation(vm, t).weight = 20
      /\ vm.os = "windows" \/ (vm.os = "linux" /\ t = "physical")
             => DriverInjection(vm, t).weight = 15
  BY DEF GuestAdaptation, DriverInjection, Failed
<1> QED
  BY <1>1, <1>2 DEF Evaluate, RuleNames

(* Each warning about drivers costs the score of the direct strategy, both  *)
(* that of the conversion.                                                  *)
LEMMA ScoreBounds ==
    ASSUME NEW vm \in RowFacts, NEW t
    PROVE  /\ Score(Evaluate(vm, t)) \in Nat
           /\ vm.os = "windows" \/ t \notin VirtioNative => Score(Evaluate(vm, t)) < 90
           /\ vm.os = "linux" /\ t = "physical" => Score(Evaluate(vm, t)) < 70
<1> DEFINE rules == Evaluate(vm, t)
<1>1. /\ rules["os_supported"].weight \in Nat /\ rules["cpu_min"].weight \in Nat
      /\ rules["memory_min"].weight \in Nat /\ rules["disk_min"].weight \in Nat
      /\ rules["disk_format"].weight \in Nat /\ rules["guest_adaptation"].weight \in Nat
      /\ rules["driver_injection"].weight \in Nat
      /\ t \notin VirtioNative => rules["guest_adaptation"].weight = 20
      /\ vm.os = "windows" \/ (vm.os = "linux" /\ t = "physical")
             => rules["driver_injection"].weight = 15
  BY RuleWeights DEF RuleNames
<1>2. "physical" \notin VirtioNative
  BY DEF VirtioNative
<1> HIDE DEF rules
<1>3. /\ Penalty(rules) \in Nat
      /\ vm.os = "windows" \/ t \notin VirtioNative => Penalty(rules) >= 15
      /\ vm.os = "linux" /\ t = "physical" => Penalty(rules) >= 35
  BY <1>1, <1>2 DEF Penalty
<1> QED
  BY <1>3 DEF Score, rules

(* What blocks a Linux of a source that need know it is its release, or its *)
(* size.                                                                    *)
LEMMA LinuxBlocked ==
    ASSUME NEW vm \in RowFacts, NEW t \in Types, vm.os = "linux"
    PROVE  /\ vm.label = "old" => Blocked(Evaluate(vm, t))
           /\ vm.label = "supported" /\ vm.cpu >= 1 /\ vm.mem >= 512 => ~Blocked(Evaluate(vm, t))
<1>1. ASSUME vm.label = "old" PROVE Blocked(Evaluate(vm, t))
  <2>1. Evaluate(vm, t)["os_supported"].severity = "blocker"
    BY <1>1 DEF Evaluate, RuleNames, OsSupported, Blocker, Failed
  <2> QED
    BY <2>1 DEF Blocked, RuleNames
<1>2. ASSUME vm.label = "supported", vm.cpu >= 1, vm.mem >= 512
      PROVE  ~Blocked(Evaluate(vm, t))
  <2>1. /\ OsSupported(vm, t).severity # "blocker" /\ CpuMin(vm, t).severity # "blocker"
    BY <1>2 DEF OsSupported, CpuMin, Passed, Failed
  <2>2. MemoryMin(vm, t).severity # "blocker" /\ DiskMin(vm, t).severity # "blocker"
    BY <1>2 DEF MemoryMin, DiskMin, Passed, Failed, RowFacts
  <2>3. Format(t) # "iso"
    BY DEF Format
  <2>4. /\ DiskFormat(vm, t).severity # "blocker" /\ GuestAdaptation(vm, t).severity # "blocker"
        /\ DriverInjection(vm, t).severity # "blocker"
    BY <2>3 DEF DiskFormat, GuestAdaptation, DriverInjection, Passed, Failed
  <2>5. \A r \in RuleNames : Evaluate(vm, t)[r].severity # "blocker"
    BY <2>1, <2>2, <2>4 DEF Evaluate, RuleNames
  <2> QED
    BY <2>5 DEF Blocked
<1> QED
  BY <1>1, <1>2

-----------------------------------------------------------------------------
(* What the analyzer makes of the rules.                                    *)

PassStatuses == {"compatible", "partial", "incompatible"}

LEMMA GradeAgrees ==
    ASSUME NEW rules, NEW prediction \in Predictions
    PROVE  /\ GradeStatus(DecideGrade(rules, prediction)) \in PassStatuses
           /\ GradeStatus(DecideGrade(rules, prediction)) = "incompatible" <=> Blocked(rules)
<1>1. /\ DecideGrade(rules, prediction) \in Grades
      /\ DecideGrade(rules, prediction) = "INCOMPATIBLE" <=> Blocked(rules)
  BY DEF DecideGrade, Aggregate, Predictions, Grades
<1> QED
  BY <1>1 DEF GradeStatus, Grades, PassStatuses

LEMMA StrategyAgrees ==
    ASSUME NEW score \in Nat, NEW blocker \in BOOLEAN
    PROVE  /\ RecommendStrategy(score, blocker) \in Strategies \cup {"none"}
           /\ RecommendStrategy(score, blocker) = "none" <=> blocker
           /\ RecommendStrategy(score, blocker) = "direct" => score >= 90
           /\ RecommendStrategy(score, blocker) = "conversion" => score >= 70
BY DEF RecommendStrategy, Strategies

-----------------------------------------------------------------------------
(* The invariant.                                                           *)

(* The last grade and its strategy agree with the rules on the facts they   *)
(* were given for.                                                          *)
Judged ==
    graded # None =>
        LET rules == Evaluate(graded, type) IN
        /\ graded \in RowFacts
        /\ compat \in PassStatuses /\ (compat = "incompatible" <=> Blocked(rules))
        /\ strategy = "none" <=> Blocked(rules)
        /\ strategy = "direct" => Score(rules) >= 90
        /\ strategy = "conversion" => Score(rules) >= 70

(* Nothing is known of a machine that was never reported.                   *)
Unread == facts = None => graded = None /\ compat = "unknown"

(* What a complete read told is in the row.                                 *)
ReadTold ==
    facts # None /\ missed = Ok /\ type \in Spelled /\ Told /\ Linux =>
        /\ facts.os = "linux" /\ facts.label = Release
        /\ facts.cpu = machine.cpu /\ facts.mem = machine.mem

Known == TypeOK /\ Judged /\ Unread /\ ReadTold /\ BootDiskFirst

LEMMA InitKnown == Init => Known
BY AssessmentAssumption
   DEF Init, Outcomes, Ok, Known, TypeOK, Judged, Unread, ReadTold, BootDiskFirst

LEMMA OutcomeKnown == Outcome \subseteq Outcomes
<1>1. {Ok, Partial, Error} \subseteq Outcomes
  BY DEF Outcomes, Ok
<1> QED
  BY <1>1, AssessmentAssumption DEF Outcome

LEMMA DiscoverFacts ==
    ASSUME Known, NEW outcome \in Outcomes, Discover(outcome)
    PROVE  \E data \in VmData :
             /\ data \in Report(outcome) /\ Report(outcome) # Aborts
             /\ facts' = (IF facts = None THEN FactsOf(data) ELSE Refreshed(facts, data))
             /\ facts' \in RowFacts /\ facts' # None
             /\ first' = data.first /\ compat' = IF facts = None THEN data.compat ELSE compat
             /\ data.first \in {"boot", "data", None} /\ data.compat \in {"unknown", "compatible"}
<1>1. PICK data \in Report(outcome) :
          /\ facts' = IF facts = None THEN FactsOf(data) ELSE Refreshed(facts, data)
          /\ first' = data.first
          /\ compat' = IF facts = None THEN data.compat ELSE compat
  BY DEF Discover
<1>2. Report(outcome) # Aborts /\ data \in VmData
  BY ReportData DEF Discover, Known, TypeOK
<1>3. data.first \in {"boot", "data", None} /\ data.compat \in {"unknown", "compatible"}
  BY <1>2 DEF VmData
<1>4. facts' \in RowFacts /\ facts' # None
  <2>1. CASE facts = None
    BY <1>1, <1>2, <2>1, AssessmentAssumption DEF FactsOf, RowFacts, VmData, Labels
  <2>2. CASE facts # None
    BY <1>1, <1>2, <2>2, RefreshedType, AssessmentAssumption DEF Known, TypeOK
  <2> QED
    BY <2>1, <2>2
<1> QED
  BY <1>1, <1>2, <1>3, <1>4

LEMMA DiscoverKnown ==
    ASSUME Known, NEW outcome \in Outcomes, Discover(outcome)
    PROVE  Known'
<1>1. PICK data \in VmData :
         /\ data \in Report(outcome) /\ Report(outcome) # Aborts
         /\ facts' = (IF facts = None THEN FactsOf(data) ELSE Refreshed(facts, data))
         /\ facts' \in RowFacts /\ facts' # None
         /\ first' = data.first /\ compat' = IF facts = None THEN data.compat ELSE compat
         /\ data.first \in {"boot", "data", None} /\ data.compat \in {"unknown", "compatible"}
  BY DiscoverFacts
<1>2. missed' = outcome /\ UNCHANGED <<type, machine, graded, strategy>>
  BY DEF Discover
<1>3. TypeOK'
  BY <1>1, <1>2 DEF Known, TypeOK
<1>4. Judged' /\ Unread'
  BY <1>1, <1>2 DEF Known, Judged, Unread
<1>5. ReadTold'
  <2> SUFFICES ASSUME outcome = Ok, type \in Spelled, Told, Linux
               PROVE  /\ facts'.os = "linux" /\ facts'.label = Release
                      /\ facts'.cpu = machine.cpu /\ facts'.mem = machine.mem
    BY <1>2 DEF ReadTold, Told, Linux, Release
  <2>2. /\ data.label # "untold" /\ data.os = "linux" /\ data.label = Release
        /\ data.cpu = machine.cpu /\ data.mem = machine.mem
    BY <1>1, CompleteReport
  <2>3. CASE facts = None
    BY <1>1, <2>2, <2>3 DEF FactsOf
  <2>4. CASE facts # None
    BY <1>1, <2>2, <2>4, RefreshedType DEF Known, TypeOK
  <2> QED
    BY <2>3, <2>4
<1>6. BootDiskFirst'
  <2> SUFFICES ASSUME type = "physical", machine.root = "partition",
                      "root" \notin outcome, "disks" \notin outcome
               PROVE  first' = "boot"
    BY <1>2 DEF BootDiskFirst
  <2>1. data.first = FirstDisk(machine, machine.root)
    BY <1>1, PhysicalReport
  <2> QED
    BY <1>1, <2>1 DEF FirstDisk
<1> QED
  BY <1>3, <1>4, <1>5, <1>6 DEF Known

LEMMA AnalyzeFacts ==
    ASSUME Known, NEW force \in BOOLEAN, NEW prediction \in Verdicts, Analyze(force, prediction)
    PROVE  /\ facts \in RowFacts /\ graded' = facts /\ compat' \in PassStatuses
           /\ compat' = "incompatible" <=> Blocked(Evaluate(facts, type))
           /\ strategy' \in Strategies \cup {"none"}
           /\ strategy' = "none" <=> Blocked(Evaluate(facts, type))
           /\ strategy' = "direct" => Score(Evaluate(facts, type)) >= 90
           /\ strategy' = "conversion" => Score(Evaluate(facts, type)) >= 70
           /\ UNCHANGED <<type, machine, facts, first, missed>>
<1> DEFINE rules == Evaluate(facts, type)
<1>1. /\ facts # None /\ compat' = GradeStatus(DecideGrade(rules, prediction))
      /\ strategy' = RecommendStrategy(Score(rules), Blocked(rules)) /\ graded' = facts
      /\ UNCHANGED <<type, machine, facts, first, missed>>
  BY DEF Analyze
<1>2. facts \in RowFacts
  BY <1>1 DEF Known, TypeOK
<1>3. Score(rules) \in Nat /\ Blocked(rules) \in BOOLEAN
  BY <1>2, ScoreBounds DEF Blocked
<1>4. prediction \in Predictions
  BY AssessmentAssumption
<1> HIDE DEF rules
<1>5. compat' \in PassStatuses /\ (compat' = "incompatible" <=> Blocked(rules))
  BY <1>1, <1>4, GradeAgrees
<1>6. /\ strategy' \in Strategies \cup {"none"} /\ (strategy' = "none" <=> Blocked(rules))
      /\ strategy' = "direct" => Score(rules) >= 90
      /\ strategy' = "conversion" => Score(rules) >= 70
  BY <1>1, <1>3, StrategyAgrees
<1> QED
  BY <1>1, <1>2, <1>5, <1>6 DEF rules

LEMMA AnalyzeKnown ==
    ASSUME Known, NEW force \in BOOLEAN, NEW prediction \in Verdicts, Analyze(force, prediction)
    PROVE  Known'
<1>1. /\ facts \in RowFacts /\ graded' = facts /\ compat' \in PassStatuses
      /\ compat' = "incompatible" <=> Blocked(Evaluate(facts, type))
      /\ strategy' \in Strategies \cup {"none"}
      /\ strategy' = "none" <=> Blocked(Evaluate(facts, type))
      /\ strategy' = "direct" => Score(Evaluate(facts, type)) >= 90
      /\ strategy' = "conversion" => Score(Evaluate(facts, type)) >= 70
      /\ UNCHANGED <<type, machine, facts, first, missed>>
  BY AnalyzeFacts
<1>2. TypeOK' /\ BootDiskFirst'
  BY <1>1 DEF Known, TypeOK, BootDiskFirst, PassStatuses
<1>3. Judged'
  BY <1>1 DEF Judged
<1>4. Unread'
  BY <1>1, AssessmentAssumption DEF Unread
<1>5. ReadTold'
  BY <1>1 DEF Known, ReadTold, Told, Linux, Release
<1> QED
  BY <1>2, <1>3, <1>4, <1>5 DEF Known

LEMMA StepKnown ==
    ASSUME Known, [Next]_vars
    PROVE  Known'
<1>1. CASE \E outcome \in Outcome : Discover(outcome)
  BY <1>1, OutcomeKnown, DiscoverKnown
<1>2. CASE \E force \in BOOLEAN, prediction \in Verdicts : Analyze(force, prediction)
  BY <1>2, AnalyzeKnown
<1>3. CASE (\E outcome \in Outcome : Miss(outcome)) \/ Rest \/ UNCHANGED vars
  <2>1. UNCHANGED <<type, machine, facts, first, compat, graded, strategy, missed>>
    BY <1>3 DEF Miss, Rest, vars
  <2> QED
    BY <2>1 DEF Known, TypeOK, Judged, Unread, ReadTold, BootDiskFirst, Told, Linux, Release
<1> QED
  BY <1>1, <1>2, <1>3 DEF Next

LEMMA AlwaysKnown == Spec => []Known
BY InitKnown, StepKnown, PTL DEF Spec

-----------------------------------------------------------------------------
(* Theorems.                                                                *)

LEMMA AdaptationKnown == Known => AdaptationIsRecommended
<1> SUFFICES ASSUME Known, graded # None
             PROVE  /\ graded.os = "windows" \/ type \notin VirtioNative => strategy # "direct"
                    /\ graded.os = "linux" /\ type = "physical"
                          => strategy \notin {"direct", "conversion"}
  BY DEF AdaptationIsRecommended
<1> DEFINE score == Score(Evaluate(graded, type))
<1>1. /\ graded \in RowFacts
      /\ strategy = "direct" => score >= 90
      /\ strategy = "conversion" => score >= 70
  BY DEF Known, Judged
<1>2. /\ score \in Nat
      /\ graded.os = "windows" \/ type \notin VirtioNative => score < 90
      /\ graded.os = "linux" /\ type = "physical" => score < 70
  BY <1>1, ScoreBounds
<1> HIDE DEF score
<1> QED
  BY <1>1, <1>2

LEMMA MatrixKnown == Known => MatrixHolds
<1> SUFFICES ASSUME Known, graded # None, graded = facts, missed = Ok, type \in Spelled, Told, Linux,
                    machine.guest.known
             PROVE  /\ machine.guest.recent /\ machine.mem >= 512 => compat # "incompatible"
                    /\ ~machine.guest.recent /\ (type = "vsphere" => machine.guest.versioned)
                          => compat = "incompatible"
  BY DEF MatrixHolds, Told, Linux
<1>1. /\ graded \in RowFacts /\ type \in Types /\ machine \in Machine
      /\ compat = "incompatible" <=> Blocked(Evaluate(graded, type))
      /\ graded.os = "linux" /\ graded.label = Release
      /\ graded.cpu = machine.cpu /\ graded.mem = machine.mem
  BY DEF Known, TypeOK, Judged, ReadTold
<1>2. machine.cpu >= 1
  BY <1>1 DEF Machine
<1>3. machine.guest.recent => Release = "supported"
  BY DEF Release, VmxLabel, Label
<1>4. ~machine.guest.recent /\ (type = "vsphere" => machine.guest.versioned) => Release = "old"
  BY DEF Release, VmxLabel, Label
<1> QED
  BY <1>1, <1>2, <1>3, <1>4, LinuxBlocked

(* However a machine is read and with whatever answers missing, and         *)
(* whatever the model predicts, the grade and the strategy of _decide_grade *)
(* and recommend_strategy follow from the rules: incompatible exactly when  *)
(* one blocks, never "direct" where drivers are missing, and as the support *)
(* matrix says where the source spells releases as the matrix does.         *)
THEOREM GradesFollowFacts == Spec => []GradeFollowsFacts
<1>1. Known => GradeFollowsFacts
  <2> SUFFICES ASSUME Known PROVE GradeAgreesOnBlockers
    BY AdaptationKnown, MatrixKnown DEF Known, GradeFollowsFacts
  <2> QED
    BY DEF Known, Judged, GradeAgreesOnBlockers
<1> QED
  BY <1>1, AlwaysKnown, PTL

(* The disk that _parse_lsblk_disks lists first is the one with the system, *)
(* for every machine whose root is a partition, however often it is read,   *)
(* when findmnt and lsblk answered the last reading.                        *)
THEOREM BootDiskComesFirst == Spec => []BootDiskFirst
<1>1. Known => BootDiskFirst
  BY DEF Known
<1> QED
  BY <1>1, AlwaysKnown, PTL

(* _update_vm_from_discovery replaces no size by 0, and no read or          *)
(* analysis takes a row back to "unknown".                                  *)
THEOREM KnownFactsStay == Spec => KnownStaysKnown
<1> DEFINE Stay == /\ facts # None /\ facts.disk > 0 => facts'.disk > 0
                   /\ compat # "unknown" => compat' # "unknown"
<1>1. ASSUME Known, [Next]_vars PROVE Stay \/ UNCHANGED vars
  <2>1. ASSUME NEW outcome \in Outcomes, Discover(outcome) PROVE Stay
    <3>1. PICK data \in VmData :
             /\ facts' = (IF facts = None THEN FactsOf(data) ELSE Refreshed(facts, data))
             /\ compat' = IF facts = None THEN data.compat ELSE compat
      BY <1>1, <2>1, DiscoverFacts
    <3>2. ASSUME facts # None, facts.disk > 0 PROVE facts'.disk > 0
      <4>1. /\ facts \in RowFacts
            /\ facts'.disk = IF data.disk > 0 THEN data.disk ELSE facts.disk
        BY <1>1, <3>1, <3>2, RefreshedType DEF Known, TypeOK
      <4> QED
        BY <3>2, <4>1
    <3>3. compat # "unknown" => compat' # "unknown"
      BY <1>1, <3>1 DEF Known, Unread
    <3> QED
      BY <3>2, <3>3
  <2>2. ASSUME NEW force \in BOOLEAN, NEW prediction \in Verdicts, Analyze(force, prediction)
        PROVE  Stay
    BY <1>1, <2>2, AnalyzeFacts DEF PassStatuses
  <2>3. CASE (\E outcome \in Outcome : Miss(outcome)) \/ Rest
    BY <2>3 DEF Miss, Rest, vars
  <2> QED
    BY <1>1, <2>1, <2>2, <2>3, OutcomeKnown DEF Next
<1>2. Known /\ [Next]_vars => [Stay]_vars
  BY <1>1
<1> QED
  BY <1>2, AlwaysKnown, PTL DEF Spec, KnownStaysKnown
=============================================================================
