------------------------------ MODULE Terminals ------------------------------
(***************************************************************************)
(* The virtual terminals (kernel/src/terminal) and what the timer handler  *)
(* shows of them.  Programs append characters with system calls; each tick *)
(* draws the buffer on display anew, a character at a time, with its       *)
(* escape sequences turned into colours.  The pages of the buffers lie one *)
(* after another in memory.  Interrupts are off in system calls and in the *)
(* handler, so that neither interrupts the other.                          *)
(***************************************************************************)
EXTENDS Integers, Sequences, FiniteSets

CONSTANTS
    LastTerminal,
    maxLen,             \* the length of a buffer: 0x1000 in the code
    Output,             \* what the program of a terminal writes, over and over
    CurrentTerminal,    \* the one on display: 2 in the code
    Width, Height,      \* of the display, in pixels
    GlyphWidth,         \* 8 in the code
    GlyphHeight,        \* 16 in the code
    Blink_Time          \* 10 in the code

Terminals == 0 .. LastTerminal

ASSUME TerminalsAssumption ==
    /\ LastTerminal \in Nat /\ maxLen \in Nat \ {0}
    /\ \A t \in Terminals : Output[t] \in Seq(STRING) /\ Output[t] # <<>>
    /\ CurrentTerminal \in Terminals
    /\ Blink_Time \in Nat \ {0}

ASSUME DisplayAssumption ==
    /\ GlyphWidth \in Nat \ {0} /\ GlyphHeight \in Nat \ {0}
    /\ Width \in Nat /\ Width > 2 * GlyphWidth
    /\ Height \in Nat /\ Height > 2 * GlyphHeight + 1

VARIABLES
    memory,         \* the buffers, and what follows the last
    index,          \* of each terminal: where its next character goes
    written,        \* history: what was appended since the last reset
    next,           \* of each program: the next character of its output
    handler,        \* what the timer handler is doing
    at,             \* the index of ANSIPrint
    params,         \* param1 and param2
    paramIndex, switched,
    cursor,         \* CursorPos
    colour,
    drawn,          \* history: the glyphs of this tick, with their colours
    underline, times

console == <<memory, index, written, next>>
parser == <<params, paramIndex, switched>>
screen == <<cursor, colour, drawn>>
blink == <<underline, times>>
vars == <<console, handler, at, parser, screen, blink>>

NUL == "NUL"
ESC == "ESC"

(* A colour is the second digit of its parameter: 30 is black, 37 white.   *)
Foregrounds == {"0", "1", "2", "3", "4", "5", "6", "7"}
WHITE == "7"

(* Whatever may stand in a buffer.                                         *)
Characters ==
    {NUL} \cup UNION {{Output[t][i] : i \in 1 .. Len(Output[t])} : t \in Terminals}

NoParams == <<[i \in 0 .. 2 |-> NUL], [i \in 0 .. 2 |-> NUL]>>

(* A bound: how far behind the last buffer ANSIPrint may read.             *)
Slack == 4

Addresses == 0 .. (LastTerminal + 1) * maxLen + Slack

Page(t) == t * maxLen .. (t + 1) * maxLen - 1

(* The pages that RequestPages returns are taken to be zero.               *)
Init ==
    /\ memory = [a \in Addresses |-> NUL]
    /\ index = [t \in Terminals |-> 0]
    /\ written = [t \in Terminals |-> <<>>]
    /\ next = [t \in Terminals |-> 1]
    /\ handler = "none"
    /\ at = -1
    /\ params = NoParams /\ paramIndex = 0 /\ switched = FALSE
    /\ cursor = [X |-> 0, Y |-> 0] /\ colour = WHITE /\ drawn = <<>>
    /\ underline = FALSE /\ times = 0

-----------------------------------------------------------------------------
(* strlen of a string of n characters: the index of the last one.          *)
LengthProper(n) == n

Strlen(n) == IF n = 0 THEN 0 ELSE n - 1

(***************************************************************************)
(* SYSCALL_WRITE: a string of one character for VirtualTerminal::append,   *)
(* which starts again at the front of the buffer when it is full.          *)
(***************************************************************************)
FullTooLate(t) == index[t] > maxLen

Full(t) == index[t] >= maxLen

Kept(t) == memory

Reset(t) ==
    IF Full(t) THEN [a \in DOMAIN memory |-> IF a \in Page(t) THEN NUL ELSE memory[a]]
               ELSE memory

SysConsoleWrite(t) ==
    LET char == Output[t][next[t]]
        string == <<char, NUL>>
        start == IF Full(t) THEN 0 ELSE index[t]
        count == Strlen(1) + 1
        to == t * maxLen + start
    IN  /\ handler = "none"
        /\ memory' = [a \in DOMAIN memory |->
                        IF a \in to .. to + count - 1 THEN string[a - to + 1]
                                                      ELSE Reset(t)[a]]
        /\ index' = [index EXCEPT ![t] = start + count]
        /\ written' = [written EXCEPT ![t] = IF Full(t) THEN <<char>>
                                                        ELSE Append(@, char)]
        /\ next' = [next EXCEPT ![t] = IF @ = Len(Output[t]) THEN 1 ELSE @ + 1]
        /\ UNCHANGED <<handler, at, parser, screen, blink>>

-----------------------------------------------------------------------------
(***************************************************************************)
(* The display: putc, and the cursor's way over the screen.                *)
(***************************************************************************)
NewLineUnchecked(c) == [X |-> 0, Y |-> c.Y + GlyphHeight]

CursorNewLine(c) ==
    LET y == c.Y + GlyphHeight
    IN  [X |-> 0, Y |-> IF y + GlyphHeight + 1 >= Height THEN y - (GlyphHeight + 1)
                                                         ELSE y]

AdvanceCursor(c) ==
    LET moved == [c EXCEPT !.X = @ + GlyphWidth]
    IN  IF moved.X + GlyphWidth >= Width THEN CursorNewLine(moved) ELSE moved

Putc(char) ==
    IF char = "newline"
    THEN cursor' = CursorNewLine(cursor) /\ UNCHANGED drawn
    ELSE /\ drawn' = Append(drawn, [char |-> char, colour |-> colour])
         /\ cursor' = AdvanceCursor(cursor)

(***************************************************************************)
(* PITHandler, from clearScreen on.                                        *)
(***************************************************************************)
PITHandler ==
    /\ handler = "none"
    /\ handler' = "print"
    /\ at' = -1
    /\ cursor' = [X |-> 0, Y |-> 0] /\ colour' = WHITE /\ drawn' = <<>>
    /\ UNCHANGED <<console, parser, blink>>

text(i) == memory[CurrentTerminal * maxLen + i]

StrlenOfText ==
    LET places == {a - CurrentTerminal * maxLen : a \in DOMAIN memory}
    IN  Strlen(CHOOSE n \in places : /\ n >= 0 /\ text(n) = NUL
                                     /\ \A i \in 0 .. n - 1 : text(i) # NUL)

(***************************************************************************)
(* ANSIPrint.                                                              *)
(***************************************************************************)
EscapeAt(i) ==
    /\ text(i) = ESC
    /\ i + 1 < StrlenOfText
    /\ text(i + 1) = "["

PrintGlyph ==
    /\ handler = "print" /\ at < StrlenOfText
    /\ text(at + 1) # ESC
    /\ at' = at + 1
    /\ Putc(text(at + 1))
    /\ UNCHANGED <<console, handler, parser, colour, blink>>

SkipEscape ==
    /\ handler = "print" /\ at < StrlenOfText
    /\ text(at + 1) = ESC /\ ~EscapeAt(at + 1)
    /\ at' = at + 1
    /\ UNCHANGED <<console, handler, parser, screen, blink>>

EnterEscape ==
    /\ handler = "print" /\ at < StrlenOfText
    /\ EscapeAt(at + 1)
    /\ handler' = "param"
    /\ at' = at + 3
    /\ params' = NoParams /\ paramIndex' = 0 /\ switched' = FALSE
    /\ UNCHANGED <<console, screen, blink>>

(* What handle makes of a parameter: bold, underline and blinking change   *)
(* nothing, and whatever it does not know resets to white.                 *)
Handle(old, param) ==
    CASE param[0] \in {"1", "2", "4", "5"} /\ param[1] = NUL -> old
      [] param[0] = "3" /\ param[1] \in Foregrounds /\ param[2] = NUL -> param[1]
      [] OTHER -> WHITE

(* The loop over the parameters ends at an "m" and nowhere else; a         *)
(* parameter has room for three characters.                                *)
ReadParam ==
    LET which == IF switched THEN 2 ELSE 1
        char == text(at)
    IN  /\ handler = "param"
        /\ IF char = ";"
           THEN paramIndex' = 0 /\ switched' = TRUE /\ UNCHANGED params
           ELSE /\ paramIndex <= 2
                /\ params' = [params EXCEPT ![which][paramIndex] = char]
                /\ paramIndex' = paramIndex + 1
                /\ UNCHANGED switched
        /\ at' = at + 1
        /\ IF text(at + 1) = "m"
           THEN /\ handler' = "print"
                /\ colour' = Handle(Handle(colour, params'[1]), params'[2])
           ELSE UNCHANGED <<handler, colour>>
        /\ UNCHANGED <<console, cursor, drawn, blink>>

(* The fourth character is written behind the array.                       *)
OverrunParam ==
    /\ handler = "param" /\ text(at) # ";" /\ paramIndex > 2
    /\ handler' = "overrun"
    /\ UNCHANGED <<console, at, parser, screen, blink>>

EndOfText ==
    /\ handler = "print" /\ at >= StrlenOfText
    /\ handler' = "blink"
    /\ at' = -1 /\ params' = NoParams /\ paramIndex' = 0 /\ switched' = FALSE
    /\ UNCHANGED <<console, screen, blink>>

HandleBlink ==
    /\ handler = "blink"
    /\ handler' = "none"
    /\ cursor' = IF underline THEN AdvanceCursor(cursor) ELSE cursor
    /\ drawn' = <<>>
    /\ underline' = (underline # (times = Blink_Time))
    /\ times' = IF times = Blink_Time THEN 1 ELSE times + 1
    /\ UNCHANGED <<console, at, parser, colour>>

ANSIPrint ==
    PrintGlyph \/ SkipEscape \/ EnterEscape \/ ReadParam \/ OverrunParam \/ EndOfText

Next ==
    \/ \E t \in Terminals : SysConsoleWrite(t)
    \/ PITHandler
    \/ ANSIPrint
    \/ HandleBlink

Spec == Init /\ [][Next]_vars

-----------------------------------------------------------------------------
(***************************************************************************)
(* Properties.                                                             *)
(***************************************************************************)

(* Every variable has its type; a buffer's index is never past its end.    *)
TypeOK ==
    /\ memory \in [Addresses -> Characters]
    /\ index \in [Terminals -> 0 .. maxLen]
    /\ \A t \in Terminals : next[t] \in 1 .. Len(Output[t])
    /\ handler \in {"none", "print", "param", "overrun", "blink"}
    /\ at \in Int
    /\ paramIndex \in 0 .. 3 /\ switched \in BOOLEAN
    /\ cursor.X \in Nat /\ cursor.Y \in Nat
    /\ underline \in BOOLEAN /\ times \in 0 .. Blink_Time

(* Wherever text, wraps, scrolling and the blinking underscore take the    *)
(* cursor, a glyph drawn there is inside the frame buffer.                 *)
CursorOnScreen ==
    /\ cursor.X >= 0 /\ cursor.X + GlyphWidth <= Width
    /\ cursor.Y >= 0 /\ cursor.Y + GlyphHeight <= Height

(* A program's write changes its own terminal's buffer only.               *)
WritesOwnPage ==
    [][\A t \in Terminals :
         (\E a \in Page(t) : memory'[a] # memory[a]) => SysConsoleWrite(t)]_vars

(* What the reader of a terminal is to see of a text: the characters       *)
(* outside escape sequences, each in the colour of the last one before it. *)
InEscape(w, i) ==
    \E s \in 1 .. i : w[s] = ESC /\ \A j \in s .. i - 1 : w[j] # "m"

ColourAt(w, i) ==
    LET ends == {e \in 3 .. i - 1 : w[e] = "m" /\ InEscape(w, e)}
        last == CHOOSE e \in ends : \A f \in ends : f <= e
    IN  IF ends # {} /\ w[last - 2] = "3" /\ w[last - 1] \in Foregrounds
        THEN w[last - 1] ELSE WHITE

Glyph(w, i) == [char |-> w[i], colour |-> ColourAt(w, i)]

(* d has the glyphs of the first n characters of w, in their order.        *)
Shows(d, w, n) ==
    LET places == {i \in 1 .. n : ~InEscape(w, i) /\ w[i] # "newline"}
    IN  /\ Len(d) = Cardinality(places)
        /\ \A i \in places :
             d[Cardinality({j \in places : j <= i})] = Glyph(w, i)

Complete(w) == Len(w) = 0 \/ w[Len(w)] = "m" \/ ~InEscape(w, Len(w))

(* Every escape sequence of the program on display is whole and of the     *)
(* form that programs and kernel write: bold, and a foreground colour.     *)
Coloured ==
    LET sequence == <<{"["}, {"1"}, {";"}, {"3"}, Foregrounds, {"m"}>>
        output == Output[CurrentTerminal]
    IN  \A i \in 1 .. Len(output) :
          /\ output[i] # NUL
          /\ output[i] = ESC =>
               i + 6 <= Len(output) /\ \A k \in 1 .. 6 : output[i + k] \in sequence[k]

(* A tick shows of the terminal on display what its program has written    *)
(* since the buffer was last reset, whatever other programs write.  A full *)
(* buffer has no terminator, and is left out.                              *)
ShownIsWritten ==
    LET w == written[CurrentTerminal]
    IN  handler = "blink" /\ Len(w) \in 1 .. maxLen - 1 /\ Complete(w)
          => Shows(drawn, w, Len(w))

(* "buffers to store the parameters individualy" (ansi.cpp): a parameter   *)
(* never outgrows its buffer.                                              *)
ParamsFit == handler # "overrun"

=============================================================================
