\* A tick during the jump to userspace.
CONSTANTS
    NPrograms = 2
    MaxSlots = 3
    Values = {0, 1}
    StaleStates <- CleanStates
    BootTicks = TRUE
    HighFrames = {}
SPECIFICATION Spec
INVARIANT NeverFaults
\* A faulted machine stops.
CHECK_DEADLOCK FALSE
