-------------------------- MODULE DiscoverySources --------------------------
(***************************************************************************)
(* What discovery learns from a source: for each type of hypervisor, how a *)
(* machine is read and which machines a discovery returns, as              *)
(* services/discovery.py writes them.  A machine of the source is a record *)
(* of Machine; the outcome of an attempt to read it is the set of what the *)
(* source did not answer and the code went on without, or Error; what      *)
(* comes out is a record of VmData, and of the whole discovery a set of    *)
(* them, or Aborts when it fails.                                          *)
(*                                                                         *)
(* Sizes are counted in halves of a GiB, memory in MB.  An identity is a   *)
(* pair of how the reader made it and what from.                           *)
(***************************************************************************)
EXTENDS Integers

CONSTANTS
    Uuids,      \* what a source may give a machine as its uuid
    Names,
    None,
    Memories,   \* MB
    Sizes,      \* of a disk, in halves of a GiB, 0 for no disk
    Aborts      \* the result of a discovery that fails

ASSUME SourceAssumption ==
    /\ None \notin Uuids \cup Names
    /\ Memories \subseteq Nat /\ Sizes \subseteq Nat

Types == {"vsphere", "vmware_workstation", "hyper_v", "kvm", "proxmox", "ovirt", "physical"}
OsTypes == {"linux", "windows", "other", "unknown"}
Firmwares == {"efi", "bios"}

\* The calls that follow a listing are one answer; on a physical machine each
\* command is one, and its exit status is ignored.
Commands == {"uuid", "os", "cpu", "memory", "firmware", "root", "disks"}
Ok == {}
Partial == {"details"}
Error == {"machine"}
Outcomes == (SUBSET Commands) \cup {Partial, Error}

\* The system inside a machine: "known" when the distribution or the edition is
\* in the support matrix, "recent" when the release is, "versioned" when the
\* type the machine was created with names the release.
Guest == [family : {"linux", "windows", "bsd", "none"}, known : BOOLEAN, recent : BOOLEAN,
          versioned : BOOLEAN]

\* "hint" is the system the name of the machine speaks of; "tools" says that
\* the agent of the source runs in the guest and answers; a machine that is
\* not in the "folder" of VMware Workstation is found only while it runs; the
\* "root" of a physical machine is a partition, a logical volume or a subvolume
\* of a file system, and "second" says that its boot disk comes after the other
\* by name.
Machine == [uuid : Uuids \cup {None}, name : Names, hint : {"linux", "windows", "none"},
            guest : Guest, cpu : Nat \ {0}, mem : Memories,
            boot : Sizes, data : Sizes, firmware : Firmwares \cup {None},
            running : BOOLEAN, tools : BOOLEAN, folder : BOOLEAN,
            root : {"partition", "volume", "subvolume"}, second : BOOLEAN]

\* What rule_os_supported recognises in os_name and os_version.
Labels == {"supported", "old", "unrecognised"}

Identities == ({"uuid"} \X (Uuids \cup {None})) \cup ({"name", "vmid"} \X Names)
VmData == [id : Identities, name : Names, os : OsTypes, label : Labels \cup {"untold"},
           cpu : Nat, mem : Nat, disk : Nat, firmware : Firmwares \cup {None},
           first : {"boot", "data", None}, compat : {"unknown", "compatible"}]

-----------------------------------------------------------------------------
(* Sizes, in GiB. *)

\* Python's round: halves go to the even neighbour.
Rounded(h) == LET q == h \div 2 IN IF h % 2 = 1 /\ q % 2 = 1 THEN q + 1 ELSE q
Ceiling(h) == (h + 1) \div 2

\* A disk that is there has at least 1 GiB.
Positive(h) == IF h > 0 /\ Rounded(h) = 0 THEN 1 ELSE Rounded(h)

-----------------------------------------------------------------------------
(* Systems, as each source spells them. *)

\* What _extract_linux_major and the prefixes of the Windows editions make of a
\* name and a release spelled as the matrix spells them.
Label(g) == IF ~g.known THEN "unrecognised"
            ELSE IF g.recent THEN "supported" ELSE "old"

\* _vmx_os_type: BSD and macOS first, then Windows, then Linux.
VmxOsType(g) == CASE g.family = "bsd" -> "other"
                  [] g.family = "none" -> "unknown"
                  [] OTHER -> g.family

\* _vmx_os_version, and the full names of vSphere: without a release in it, the
\* "64" of "(64-bit)" passes for the release of a Linux.
VmxLabel(g) == IF g.known /\ g.family = "linux" /\ ~g.versioned
               THEN "supported" ELSE Label(g)

\* With VMware Tools or guest credentials the version is that of the kernel,
\* whose number is below that of every release in the matrix.
KernelLabel(g) == IF g.family = "linux" /\ g.known THEN "old" ELSE VmxLabel(g)

\* _hyperv_os_type: nothing is known without KVP; BSD is not in the hints.
HypervOsType(g) == IF g.family \in {"linux", "windows"} THEN g.family ELSE "unknown"

\* _proxmox_os_type, of the type the machine was created with.
ProxmoxOsType(g) == IF g.family = "bsd" \/ g.family = "none" THEN "other" ELSE g.family

\* _proxmox_os_version: every Linux is "Linux 2.6+".
ProxmoxLabel(g) == IF g.family = "windows" THEN Label(g) ELSE "unrecognised"

\* _ovirt_os_type: FreeBSD is "freebsd..." and unknown.
OvirtOsType(g) == CASE g.family = "none" -> "other"
                    [] g.family = "bsd" -> "unknown"
                    [] OTHER -> g.family

\* The types of oVirt are words joined by "_": "windows_2019x64" is not in the
\* matrix, "rhel_8x64" is.
OvirtLabel(g) == IF g.family = "windows" THEN "unrecognised" ELSE Label(g)

-----------------------------------------------------------------------------
(* Readers. *)

Data(id, m, os, label, cpu, mem, disk, firmware) ==
    [id |-> id, name |-> m.name, os |-> os, label |-> label, cpu |-> cpu, mem |-> mem,
     disk |-> disk, firmware |-> firmware, first |-> None, compat |-> "unknown"]

\* _normalize_firmware(...) or "bios".
OrBios(f) == IF f = None THEN "bios" ELSE f

\* _vsphere_vm_to_dict: of a machine whose configuration cannot be read there
\* is the name, and what VMware Tools say of the guest.
ReadVsphere(m, outcome) ==
    IF outcome # Ok
    THEN Data(<<"name", m.name>>, m, IF m.tools THEN VmxOsType(m.guest) ELSE "unknown",
              IF m.tools THEN VmxLabel(m.guest) ELSE "untold", 0, 0, 0, None)
    ELSE Data(IF m.uuid # None THEN <<"uuid", m.uuid>> ELSE <<"name", m.name>>, m,
              VmxOsType(m.guest), VmxLabel(m.guest),
              m.cpu, m.mem, (m.boot + m.data) \div 2, m.firmware)

\* _discover_single_vmx: a system that is Linux or Windows is declared
\* compatible on the spot.
ReadWorkstation(m, outcome) ==
    LET os == VmxOsType(m.guest)
        asked == m.running /\ m.tools /\ outcome = Ok
    IN  [Data(IF m.uuid # None THEN <<"uuid", m.uuid>> ELSE <<"name", m.name>>, m,
              os, IF asked THEN KernelLabel(m.guest) ELSE VmxLabel(m.guest),
              m.cpu, m.mem, Positive(m.boot + m.data), OrBios(m.firmware))
         EXCEPT !.compat = IF os \in {"linux", "windows"} THEN "compatible" ELSE "unknown"]

\* _parse_hyperv_output: the sizes and the guest are left out when Get-VHD or KVP
\* fails.
ReadHyperv(m, outcome) ==
    LET kvp == m.running /\ m.tools /\ outcome = Ok
    IN  Data(<<"uuid", m.uuid>>, m, IF kvp THEN HypervOsType(m.guest) ELSE "unknown",
             IF kvp THEN Label(m.guest) ELSE "unrecognised", m.cpu, m.mem,
             IF outcome = Ok THEN Rounded(m.boot + m.data) ELSE 0, OrBios(m.firmware))

\* _kvm_disk_sizes and _parse_kvm_domain_xml: the largest disk counts.
KvmDisk(m) == LET gb(h) == IF h = 0 THEN 0 ELSE Positive(h) IN
              IF gb(m.boot) >= gb(m.data) THEN gb(m.boot) ELSE gb(m.data)

\* _kvm_collect_domain: the system is guessed from the name.
ReadKvm(m, outcome) ==
    Data(<<"uuid", m.uuid>>, m, IF m.hint = "none" THEN "unknown" ELSE m.hint,
         "unrecognised", m.cpu, m.mem, IF outcome = Ok THEN KvmDisk(m) ELSE 0,
         OrBios(m.firmware))

\* _proxmox_collect_vm and _parse_proxmox_vm: without the configuration of the
\* machine its node and number identify it; the sizes come from the listing.
ReadProxmox(m, outcome) ==
    IF outcome # Ok
    THEN Data(<<"vmid", m.name>>, m, "unknown", "unrecognised",
              m.cpu, m.mem, Positive(m.boot), "bios")
    ELSE Data(IF m.uuid # None THEN <<"uuid", m.uuid>> ELSE <<"vmid", m.name>>, m,
              ProxmoxOsType(m.guest), ProxmoxLabel(m.guest),
              m.cpu, m.mem, Positive(m.boot), OrBios(m.firmware))

\* _ovirt_disk_gb, or _ovirt_disk_gb_rest without the SDK, leaves out a disk it
\* cannot read.
OvirtDisk(m, outcome) == Positive(m.boot + (IF outcome = Ok THEN m.data ELSE 0))

\* _parse_ovirt_vm and _parse_ovirt_vm_rest.
ReadOvirt(m, outcome) ==
    Data(<<"uuid", m.uuid>>, m, OvirtOsType(m.guest), OvirtLabel(m.guest), m.cpu, m.mem,
         OvirtDisk(m, outcome), m.firmware)

(* Mutant: only the names count.                                             *)
FirstDiskByName(m, root) == IF ~m.second \/ m.data = 0 THEN "boot" ELSE "data"

\* _parse_lsblk_disks: the disk that holds the device findmnt named comes first
\* when that is a partition; a logical volume is no device of lsblk under that
\* name, nor is a partition with the "[/@]" of its subvolume, nor what findmnt
\* did not tell, and then the order is that of the names.
FirstDisk(m, root) == IF root = "partition" \/ ~m.second \/ m.data = 0 THEN "boot" ELSE "data"

\* _collect_physical_facts and _build_physical_vm_dict: what a command does not
\* answer is replaced by a default; without the uuid of the board, which only
\* the superuser may read, the name identifies the machine.
ReadPhysical(m, unanswered) ==
    LET Told(what, then, default) == IF what \in unanswered THEN default ELSE then IN
    [Data(IF m.uuid # None /\ "uuid" \notin unanswered THEN <<"uuid", m.uuid>>
                                                       ELSE <<"name", m.name>>,
          m, "linux", Told("os", Label(m.guest), "unrecognised"),
          Told("cpu", m.cpu, 1), Told("memory", m.mem, 0),
          Told("disks", Ceiling(m.boot + m.data), 0),
          Told("firmware", OrBios(m.firmware), "bios"))
     EXCEPT !.first = Told("disks", FirstDisk(m, Told("root", m.root, "none")), None)]

-----------------------------------------------------------------------------
(* Discoveries: "asked" is a set of pairs of a machine and the outcome of   *)
(* reading it, "listing" says that the machines could be listed.            *)

Answered(asked) == {a \in asked : a[2] # Error}

\* _vsphere_fetch_vms: a machine that raises fails the whole discovery.
DiscoverVsphere(asked, listing) ==
    IF listing /\ asked = Answered(asked) THEN {ReadVsphere(a[1], a[2]) : a \in asked} ELSE Aborts

\* _collect_workstation_vmx_paths: those that run, and those in the folder.
VmxPaths(asked, listing) == {a \in asked : a[1].folder \/ (listing /\ a[1].running)}

\* When vmrun does not list what runs, nothing is taken to run.
DiscoverWorkstation(asked, listing) ==
    {ReadWorkstation(a[1], IF listing THEN a[2] ELSE Partial) :
        a \in Answered(VmxPaths(asked, listing))}

\* One script reads all machines.
DiscoverHyperv(asked, listing) ==
    IF listing /\ asked = Answered(asked) THEN {ReadHyperv(a[1], a[2]) : a \in asked} ELSE Aborts

\* A machine that cannot be read is left out.
DiscoverKvm(asked, listing) ==
    IF listing THEN {ReadKvm(a[1], a[2]) : a \in Answered(asked)} ELSE Aborts
DiscoverProxmox(asked, listing) ==
    IF listing THEN {ReadProxmox(a[1], a[2]) : a \in Answered(asked)} ELSE Aborts
DiscoverOvirt(asked, listing) ==
    IF listing THEN {ReadOvirt(a[1], a[2]) : a \in Answered(asked)} ELSE Aborts

\* The host is the machine, and there is nothing to list.
DiscoverPhysical(asked, listing) ==
    IF listing /\ asked = Answered(asked) THEN {ReadPhysical(a[1], a[2]) : a \in asked} ELSE Aborts

Discovered(type, asked, listing) ==
    CASE type = "vsphere" -> DiscoverVsphere(asked, listing)
      [] type = "vmware_workstation" -> DiscoverWorkstation(asked, listing)
      [] type = "hyper_v" -> DiscoverHyperv(asked, listing)
      [] type = "kvm" -> DiscoverKvm(asked, listing)
      [] type = "proxmox" -> DiscoverProxmox(asked, listing)
      [] type = "ovirt" -> DiscoverOvirt(asked, listing)
      [] type = "physical" -> DiscoverPhysical(asked, listing)

-----------------------------------------------------------------------------
(* Rows. *)

\* What a row keeps of it, and what it keeps when the machine is read again: a
\* size is not replaced by 0, nor a release by none; "N/A" and "unknown" are
\* texts like any other.
FactsOf(data) == [os |-> data.os, cpu |-> data.cpu, mem |-> data.mem, disk |-> data.disk,
                  label |-> IF data.label = "untold" THEN "unrecognised" ELSE data.label]

(* Mutant: what a read lacks is lost.                                        *)
RefreshedPlain(facts, data) == FactsOf(data)
Refreshed(facts, data) ==
    [FactsOf(data) EXCEPT !.disk = IF @ > 0 THEN @ ELSE facts.disk,
                          !.label = IF data.label = "untold" THEN facts.label ELSE @]
=============================================================================
