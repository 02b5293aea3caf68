\* A tick between two characters of an escape sequence.
CONSTANTS
    LastTerminal = 1
    maxLen = 10
    Output <- ColouredAndPlain
    CurrentTerminal = 0
    Width = 7
    Height = 10
    GlyphWidth = 2
    GlyphHeight = 3
    Blink_Time = 2
SPECIFICATION Spec
INVARIANT ParamsFit
\* The machine stops where a parameter overruns its buffer.
CHECK_DEADLOCK FALSE
