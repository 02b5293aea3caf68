\* Two programs write while the timer shows the terminal of the first, on a
\* display of three columns and three lines.
CONSTANTS
    LastTerminal = 1
    maxLen = 10
    Output <- ColouredAndPlain
    CurrentTerminal = 0
    Width = 7
    Height = 10
    GlyphWidth = 2
    GlyphHeight = 3
    Blink_Time = 2
SPECIFICATION Spec
INVARIANTS
    TypeOK
    CursorOnScreen
    ShownIsWritten
PROPERTY WritesOwnPage
\* The machine stops where a parameter overruns its buffer.
CHECK_DEADLOCK FALSE
