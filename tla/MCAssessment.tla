---------------------------- MODULE MCAssessment ----------------------------
(* Instances of Assessment for TLC. *)
EXTENDS Assessment

OneUuid == {"u"}
OneName == {"web"}
SomeMemories == {256, 768, 2048}

\* Halves of a GiB: none, half a GiB, less and more than the 10 GiB asked for.
SomeSizes == {0, 1, 16, 41}

Plain == [uuid |-> "u", name |-> "web", hint |-> "linux",
          guest |-> [family |-> "linux", known |-> TRUE, recent |-> TRUE, versioned |-> TRUE],
          cpu |-> 2, mem |-> 2048, boot |-> 41, data |-> 0, firmware |-> "bios",
          running |-> TRUE, tools |-> TRUE, folder |-> TRUE, root |-> "partition",
          second |-> FALSE]

\* Machines that differ from the plain one in their system, in their size, in
\* what the source knows of them, and in their disks.
SomeMachines ==
    {[Plain EXCEPT !.guest = g, !.tools = b, !.hint = h] :
        g \in Guest, b \in BOOLEAN, h \in {"linux", "windows", "none"}}
    \cup {[Plain EXCEPT !.mem = m, !.boot = b, !.data = d] :
        m \in SomeMemories, b \in SomeSizes, d \in SomeSizes}
    \cup {[Plain EXCEPT !.uuid = u, !.firmware = f, !.running = r] :
        u \in {"u", None}, f \in {"efi", "bios", None}, r \in BOOLEAN}
    \cup {[Plain EXCEPT !.data = d, !.root = r, !.second = s] :
        d \in {0, 41}, r \in {"partition", "volume", "subvolume"}, s \in BOOLEAN}

\* One command of a physical machine is not answered, or none is.
SomeOutages == {Ok, Commands, Error} \cup {{c} : c \in Commands}

SomeVerdicts == {NoModel} \cup [grade : Grades, confident : {TRUE}]
=============================================================================
