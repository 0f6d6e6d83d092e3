----------------------------- MODULE Assessment -----------------------------
(***************************************************************************)
(* One machine of a source, the row that discovery keeps of it, and what   *)
(* the analyzer makes of the row: read and read again, by whichever driver *)
(* its hypervisor has and with whatever answers are missing, graded by the *)
(* rules and by the model, graded again when a client insists.             *)
(***************************************************************************)
EXTENDS DiscoverySources, CompatibilityRules

CONSTANTS
    Machines,       \* the machines a source may have
    Outages,        \* what may go unanswered when a physical machine is read
    Verdicts,       \* predictions of the model
    MaxReads, MaxGrades     \* bounds: how often it is read and graded

RowFacts == [os : OsTypes, label : Labels, cpu : Nat, mem : Nat, disk : Nat]

ASSUME AssessmentAssumption ==
    /\ Machines \subseteq Machine /\ Outages \subseteq Outcomes
    /\ Verdicts \subseteq Predictions
    /\ None \notin RowFacts
    /\ MaxReads \in Nat /\ MaxGrades \in Nat

VARIABLES
    type, machine,  \* the hypervisor and the machine
    facts,          \* what the row keeps of the machine, None before there is a row
    first,          \* the disk the row lists first
    compat,         \* compatibility_status of the row
    graded,         \* history: the facts the last grade was given for
    strategy,       \* the strategy recommended with it
    missed,         \* history: what went unanswered in the last read
    reads, grades

vars == <<type, machine, facts, first, compat, graded, strategy, missed, reads, grades>>

Init ==
    /\ type \in Types /\ machine \in Machines
    /\ facts = None /\ first = None /\ graded = None
    /\ compat = "unknown" /\ strategy = "none" /\ missed = Ok
    /\ reads = 0 /\ grades = 0

\* The other sources answer a reading whole, in part or not at all.
Outcome == IF type = "physical" THEN Outages ELSE {Ok, Partial, Error}

Report(outcome) == Discovered(type, {<<machine, outcome>>}, TRUE)

\* A synchronisation that reports the machine: it makes the row, or refreshes it.
Discover(outcome) ==
    /\ reads < MaxReads /\ Report(outcome) \notin {{}, Aborts}
    /\ \E data \in Report(outcome) :
          /\ facts' = IF facts = None THEN FactsOf(data) ELSE Refreshed(facts, data)
          /\ first' = data.first
          /\ compat' = IF facts = None THEN data.compat ELSE compat
    /\ missed' = outcome
    /\ reads' = reads + 1
    /\ UNCHANGED <<type, machine, graded, strategy, grades>>

\* A synchronisation that does not leaves the row, and with it the facts.
Miss(outcome) ==
    /\ reads < MaxReads /\ Report(outcome) \in {{}, Aborts}
    /\ reads' = reads + 1
    /\ UNCHANGED <<type, machine, facts, first, compat, graded, strategy, missed, grades>>

\* analyze_vm, which leaves a graded row alone unless it is forced.
Analyze(force, prediction) ==
    LET rules == Evaluate(facts, type) IN
    /\ grades < MaxGrades /\ facts # None /\ (~force => compat = "unknown")
    /\ compat' = GradeStatus(DecideGrade(rules, prediction))
    /\ strategy' = RecommendStrategy(Score(rules), Blocked(rules))
    /\ graded' = facts
    /\ grades' = grades + 1
    /\ UNCHANGED <<type, machine, facts, first, missed, reads>>

Rest == reads = MaxReads /\ (facts # None => grades = MaxGrades) /\ UNCHANGED vars

Next ==
    \/ \E outcome \in Outcome : Discover(outcome) \/ Miss(outcome)
    \/ \E force \in BOOLEAN, prediction \in Verdicts : Analyze(force, prediction)
    \/ Rest

Spec == Init /\ [][Next]_vars

-----------------------------------------------------------------------------
(* Properties. *)

\* The row is well formed: sizes and memory are whole, whatever was read.
TypeOK ==
    /\ type \in Types /\ machine \in Machine
    /\ facts \in RowFacts \cup {None}
    /\ first \in {"boot", "data", None} /\ missed \in Outcomes
    /\ compat \in {"unknown", "compatible", "partial", "incompatible"}
    /\ strategy \in Strategies \cup {"none"}

\* A row that was graded is incompatible, and has no strategy, exactly when a
\* rule blocks it: not even a confident model lets a blocked machine through,
\* nor keeps out one that nothing blocks.
GradeAgreesOnBlockers ==
    graded # None =>
        LET blocked == Blocked(Evaluate(graded, type)) IN
        /\ compat = "incompatible" <=> blocked
        /\ strategy = "none" <=> blocked

\* A machine that boots only with other drivers than its own, Windows or a
\* physical Linux, and one whose network card has to be found again, is never
\* recommended a migration without intervention; a physical Linux needs both
\* and gets a guest adaptation too.
AdaptationIsRecommended ==
    graded # None =>
        /\ graded.os = "windows" \/ type \notin VirtioNative => strategy # "direct"
        /\ graded.os = "linux" /\ type = "physical" => strategy \notin {"direct", "conversion"}

\* On a source whose reader spells releases as the matrix does, a machine with
\* a supported system and enough memory that was read completely is migratable,
\* and a Linux whose release is too old is not.
Spelled == {"hyper_v", "vsphere", "physical"}
MatrixHolds ==
    LET guest == machine.guest
        told == type # "hyper_v" \/ (machine.running /\ machine.tools)
        linux == type = "physical" \/ guest.family = "linux"
    IN  graded # None /\ graded = facts /\ missed = Ok /\ type \in Spelled /\ told =>
            /\ linux /\ guest.known /\ guest.recent /\ machine.mem >= 512
                  => compat # "incompatible"
            /\ linux /\ guest.known /\ ~guest.recent /\ (type = "vsphere" => guest.versioned)
                  => compat = "incompatible"

\* A physical machine whose root is a partition lists its boot disk first,
\* whatever the names of its disks and whatever else was not answered when it
\* was last read, if findmnt and lsblk were: the disk that is captured,
\* converted and booted first is the one with the system.
BootDiskFirst ==
    type = "physical" /\ facts # None /\ machine.root = "partition"
        /\ "root" \notin missed /\ "disks" \notin missed => first = "boot"

\* The grade of a machine follows from what it is: from what blocks it, from the
\* work it needs, and from the systems the platform supports.
GradeFollowsFacts ==
    TypeOK /\ GradeAgreesOnBlockers /\ AdaptationIsRecommended /\ MatrixHolds

\* The size of a machine, once known, is not forgotten when a later read lacks
\* it, and neither is the grade of a row lost by reading it again.
KnownStaysKnown ==
    [][/\ facts # None /\ facts.disk > 0 => facts'.disk > 0
       /\ compat # "unknown" => compat' # "unknown"]_vars

-----------------------------------------------------------------------------
\* _parse_lsblk_disks: "the disk whose partition tree contains boot_source is
\* flagged is_boot and hoisted to index 0", also when the root is a logical
\* volume in a partition of that disk.
BootDiskHoisted ==
    type = "physical" /\ facts # None => first = "boot"
=============================================================================
