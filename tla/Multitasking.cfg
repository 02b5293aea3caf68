\* Idle and two programs; ticks anywhere in userspace.
CONSTANTS
    NPrograms = 3
    MaxSlots = 4
    Values = {0, 1}
    StaleStates <- CleanStates
    BootTicks = FALSE
    HighFrames = {}
SPECIFICATION FairSpec
INVARIANTS
    TypeOK
    NeverFaults
PROPERTIES
    RunsLikeOwnCpus
    EveryTaskRuns
    ExitedLeaves
