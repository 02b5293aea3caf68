SPECIFICATION Spec
CONSTANTS
    LastTerminal = 2
    PageLines = 4
    MaxBlocks = 9
INVARIANT TicksDrawWell
PROPERTY PanicShown
\* A panic halts the machine, and so does what is drawn at random.
CHECK_DEADLOCK FALSE
