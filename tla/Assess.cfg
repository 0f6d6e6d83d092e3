CONSTANTS
    None = None
    Aborts = Aborts
    Uuids <- OneUuid
    Names <- OneName
    Memories <- SomeMemories
    Sizes <- SomeSizes
    Machines <- SomeMachines
    Outages <- SomeOutages
    Verdicts <- SomeVerdicts
    MaxReads = 3
    MaxGrades = 2
SPECIFICATION Spec
INVARIANT GradeFollowsFacts
INVARIANT BootDiskFirst
PROPERTY KnownStaysKnown
