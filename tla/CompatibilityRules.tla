------------------------- MODULE CompatibilityRules -------------------------
(***************************************************************************)
(* The compatibility of a machine with the cluster: the rules of           *)
(* services/compatibility_rules.py, the grade the analyzer makes of them   *)
(* and of the prediction of its model, and the strategy it recommends.     *)
(* A machine is known by the fields discovery stores ("os", "label", "cpu",*)
(* "mem", "disk") and by the type of its hypervisor, "unknown" without one.*)
(***************************************************************************)
EXTENDS Integers

Soft == {"hyper_v", "kvm", "proxmox", "ovirt"}  \* _UNKNOWN_OS_SOFT_HYPERVISORS
VirtioNative == {"kvm", "proxmox", "ovirt"}
Grades == {"COMPATIBLE", "PARTIAL", "INCOMPATIBLE"}
Strategies == {"direct", "conversion", "hybrid", "cold"}

\* The outcome of a rule that failed, or Passed.
Failed(severity, weight) == [severity |-> severity, weight |-> weight]
Passed == Failed("none", 0)
Blocker == Failed("blocker", 40)

-----------------------------------------------------------------------------
(* The rules. *)

\* rule_os_supported: a source that need not know the system only costs a
\* warning where it does not.
OsSupported(vm, type) ==
    LET unsure == IF type \in Soft THEN Failed("warning", 10) ELSE Blocker IN
    CASE vm.os = "linux" /\ vm.label = "supported" -> Passed
      [] vm.os = "linux" /\ vm.label = "old" -> Blocker
      [] vm.os = "windows" -> IF vm.label = "supported" THEN Passed ELSE Blocker
      [] OTHER -> unsure

CpuMin(vm, type) == IF vm.cpu >= 1 THEN Passed ELSE Blocker

MemoryMin(vm, type) ==
    CASE vm.mem < 512 -> Blocker
      [] vm.mem \in 512 .. 1023 -> Failed("warning", 10)
      [] OTHER -> Passed

DiskMin(vm, type) == IF vm.disk < 10 THEN Failed("warning", 5) ELSE Passed

\* infer_disk_format, from the type of the hypervisor alone.
Format(type) ==
    CASE type \in {"vmware_workstation", "vsphere"} -> "vmdk"
      [] type = "hyper_v" -> "vhdx"
      [] type \in VirtioNative -> "qcow2"
      [] type = "physical" -> "raw"
      [] OTHER -> "unknown"

DiskFormat(vm, type) ==
    CASE Format(type) \in {"qcow2", "raw"} -> Passed
      [] Format(type) = "iso" -> Blocker
      [] OTHER -> Failed("warning", 15)

\* Only a guest of a virtio source finds its network card again.
GuestAdaptation(vm, type) ==
    IF type \in VirtioNative THEN Passed ELSE Failed("warning", 20)

DriverInjection(vm, type) ==
    IF vm.os = "windows" \/ (vm.os = "linux" /\ type = "physical")
    THEN Failed("warning", 15) ELSE Passed

-----------------------------------------------------------------------------
(* evaluate_all and aggregate. *)

RuleNames == {"os_supported", "cpu_min", "memory_min", "disk_min", "disk_format",
              "guest_adaptation", "driver_injection"}

Evaluate(vm, type) ==
    [rule \in RuleNames |->
        CASE rule = "os_supported" -> OsSupported(vm, type)
          [] rule = "cpu_min" -> CpuMin(vm, type)
          [] rule = "memory_min" -> MemoryMin(vm, type)
          [] rule = "disk_min" -> DiskMin(vm, type)
          [] rule = "disk_format" -> DiskFormat(vm, type)
          [] rule = "guest_adaptation" -> GuestAdaptation(vm, type)
          [] rule = "driver_injection" -> DriverInjection(vm, type)]

Blocked(rules) == \E r \in RuleNames : rules[r].severity = "blocker"
Warned(rules) == \E r \in RuleNames : rules[r].severity = "warning"

Penalty(rules) ==
    rules["os_supported"].weight + rules["cpu_min"].weight + rules["memory_min"].weight
      + rules["disk_min"].weight + rules["disk_format"].weight
      + rules["guest_adaptation"].weight + rules["driver_injection"].weight
Score(rules) == IF Penalty(rules) > 100 THEN 0 ELSE 100 - Penalty(rules)

Aggregate(rules) == IF Blocked(rules) THEN "INCOMPATIBLE"
                    ELSE IF Warned(rules) THEN "PARTIAL" ELSE "COMPATIBLE"

-----------------------------------------------------------------------------
(* The analyzer. *)

\* What the model predicts, or that there is none: _load_model_artifact.
Predictions == [grade : Grades, confident : BOOLEAN]
NoModel == [grade |-> "PARTIAL", confident |-> FALSE]

(* Mutant: a confident model has the last word.                              *)
DecideGradeModel(rules, prediction) ==
    IF prediction.confident THEN prediction.grade ELSE Aggregate(rules)

\* _decide_grade: the model decides when it is confident enough and agrees with
\* the rules on whether anything blocks.
DecideGrade(rules, prediction) ==
    IF /\ prediction.confident
       /\ (prediction.grade = "INCOMPATIBLE") = Blocked(rules)
    THEN prediction.grade ELSE Aggregate(rules)

\* _GRADE_MAP and _STATUS_MAP.
GradeStatus(grade) == CASE grade = "COMPATIBLE" -> "compatible"
                        [] grade = "PARTIAL" -> "partial"
                        [] grade = "INCOMPATIBLE" -> "incompatible"

RecommendStrategy(score, blocker) ==
    CASE blocker -> "none"
      [] ~blocker /\ score >= 90 -> "direct"
      [] ~blocker /\ score \in 70 .. 89 -> "conversion"
      [] ~blocker /\ score \in 50 .. 69 -> "hybrid"
      [] OTHER -> "cold"
=============================================================================
