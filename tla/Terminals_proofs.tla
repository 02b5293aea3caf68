--------------------------- MODULE Terminals_proofs ---------------------------
(***************************************************************************)
(* What holds of Terminals for every number of terminals, length of buffer *)
(* and size of display the assumptions allow.                              *)
(***************************************************************************)
EXTENDS Terminals, FiniteSetTheorems, SequenceTheorems, TLAPS

(* TypeOK and CursorOnScreen with what an induction needs besides: the     *)
(* variables that are functions are so on all of their domain.             *)
IndInv ==
    /\ TypeOK
    /\ next \in [Terminals -> Nat]
    /\ cursor \in [X : Int, Y : Int]
    /\ CursorOnScreen

-----------------------------------------------------------------------------
(* The cursor.                                                             *)

OnScreen(c) ==
    /\ c \in [X : Int, Y : Int]
    /\ c.X >= 0 /\ c.X + GlyphWidth <= Width
    /\ c.Y >= 0 /\ c.Y + GlyphHeight <= Height

(* A new line takes the cursor from any column, also one behind the last,  *)
(* to a place on the screen.                                               *)
LEMMA NewLineOnScreen ==
    ASSUME NEW c \in [X : Int, Y : Int], c.Y >= 0, c.Y + GlyphHeight <= Height
    PROVE  OnScreen(CursorNewLine(c))
<1> DEFINE y == c.Y + GlyphHeight
<1>1. /\ c.Y \in Int
      /\ GlyphWidth \in Nat /\ GlyphHeight \in Nat /\ GlyphHeight > 0
      /\ Width \in Nat /\ Height \in Nat
      /\ Height > 2 * GlyphHeight + 1 /\ Width > 2 * GlyphWidth
  BY DisplayAssumption
<1>2. y \in Int /\ y >= GlyphHeight
  BY <1>1
<1>3. CASE y + GlyphHeight + 1 >= Height
  <2>1. CursorNewLine(c) = [X |-> 0, Y |-> y - (GlyphHeight + 1)]
    BY <1>3 DEF CursorNewLine
  <2>2. y - (GlyphHeight + 1) = c.Y - 1
    BY <1>1
  <2>3. y >= GlyphHeight + 1
    BY <1>1, <1>2, <1>3
  <2> QED
    BY <1>1, <1>2, <2>1, <2>2, <2>3 DEF OnScreen
<1>4. CASE ~(y + GlyphHeight + 1 >= Height)
  <2>1. CursorNewLine(c) = [X |-> 0, Y |-> y]
    BY <1>4 DEF CursorNewLine
  <2> QED
    BY <1>1, <1>2, <1>4, <2>1 DEF OnScreen
<1> QED
  BY <1>3, <1>4

LEMMA AdvanceOnScreen ==
    ASSUME NEW c, OnScreen(c)
    PROVE  OnScreen(AdvanceCursor(c))
<1> DEFINE moved == [c EXCEPT !.X = @ + GlyphWidth]
<1>1. GlyphWidth \in Nat /\ Width \in Nat /\ GlyphHeight \in Nat /\ Height \in Nat
  BY DisplayAssumption
<1>2. /\ moved \in [X : Int, Y : Int] /\ moved.Y = c.Y
      /\ moved.X = c.X + GlyphWidth
  BY <1>1 DEF OnScreen
<1>3. CASE moved.X + GlyphWidth >= Width
  <2>1. AdvanceCursor(c) = CursorNewLine(moved)
    BY <1>3 DEF AdvanceCursor
  <2> QED
    BY <1>2, <2>1, NewLineOnScreen DEF OnScreen
<1>4. CASE ~(moved.X + GlyphWidth >= Width)
  <2>1. AdvanceCursor(c) = moved
    BY <1>4 DEF AdvanceCursor
  <2> QED
    BY <1>1, <1>2, <1>4, <2>1 DEF OnScreen
<1> QED
  BY <1>3, <1>4

LEMMA PutcOnScreen ==
    ASSUME NEW char, OnScreen(cursor), Putc(char)
    PROVE  OnScreen(cursor')
BY NewLineOnScreen, AdvanceOnScreen DEF Putc, OnScreen

LEMMA HomeOnScreen == OnScreen([X |-> 0, Y |-> 0])
BY DisplayAssumption DEF OnScreen

-----------------------------------------------------------------------------
(* The buffers.                                                            *)

(* A place in the page of one terminal is in no other's.                   *)
LEMMA PagesApart ==
    ASSUME NEW t \in Terminals, NEW u \in Terminals, t # u,
           NEW a \in Page(t)
    PROVE  a \notin Page(u)
<1>1. t \in Int /\ u \in Int /\ maxLen \in Nat
  BY TerminalsAssumption DEF Terminals
<1>2. CASE t < u
  <2>1. (t + 1) * maxLen <= u * maxLen
    BY <1>1, <1>2
  <2> QED
    BY <1>1, <2>1 DEF Page
<1>3. CASE u < t
  <2>1. (u + 1) * maxLen <= t * maxLen
    BY <1>1, <1>3
  <2> QED
    BY <1>1, <2>1 DEF Page
<1> QED
  BY <1>1, <1>2, <1>3

LEMMA PageInMemory ==
    ASSUME NEW t \in Terminals
    PROVE  Page(t) \subseteq Addresses
<1>1. t \in Nat /\ LastTerminal \in Nat /\ maxLen \in Nat /\ t <= LastTerminal
  BY TerminalsAssumption DEF Terminals
<1>2. t * maxLen \in Nat /\ (t + 1) * maxLen <= (LastTerminal + 1) * maxLen
  BY <1>1
<1> QED
  BY <1>1, <1>2 DEF Page, Addresses, Slack

(* Where a write goes: one place, inside the terminal's own page.          *)
LEMMA WriteEffect ==
    ASSUME IndInv, NEW t \in Terminals, SysConsoleWrite(t)
    PROVE  \E start \in 0 .. maxLen - 1 :
             /\ start = IF Full(t) THEN 0 ELSE index[t]
             /\ index' = [index EXCEPT ![t] = start + 1]
             /\ t * maxLen + start \in Page(t)
             /\ memory' = [a \in DOMAIN memory |->
                             IF a = t * maxLen + start THEN Output[t][next[t]]
                                                       ELSE Reset(t)[a]]
<1> DEFINE start == IF Full(t) THEN 0 ELSE index[t]
           to == t * maxLen + start
<1>1. maxLen \in Nat /\ maxLen > 0 /\ t \in Int /\ index[t] \in 0 .. maxLen
  BY TerminalsAssumption DEF IndInv, TypeOK, Terminals
<1>2. start \in 0 .. maxLen - 1
  BY <1>1 DEF Full
<1>3. to \in Page(t) /\ to \in Int
  <2> HIDE DEF start
  <2>1. t * maxLen \in Int /\ (t + 1) * maxLen = t * maxLen + maxLen
    BY <1>1
  <2> QED
    BY <1>1, <1>2, <2>1 DEF Page
<1>4. Strlen(1) + 1 = 1
  BY DEF Strlen
<1>5. index' = [index EXCEPT ![t] = start + 1]
  BY <1>4 DEF SysConsoleWrite
<1>6. memory' = [a \in DOMAIN memory |->
                   IF a = to THEN Output[t][next[t]] ELSE Reset(t)[a]]
  <2>1. memory' = [a \in DOMAIN memory |->
                     IF a \in to .. to + (Strlen(1) + 1) - 1
                     THEN <<Output[t][next[t]], NUL>>[a - to + 1]
                     ELSE Reset(t)[a]]
    BY DEF SysConsoleWrite
  <2>2. to .. to + (Strlen(1) + 1) - 1 = {to}
    <3> HIDE DEF to
    <3> QED
      BY <1>3, <1>4
  <2>3. to - to + 1 = 1
    <3> HIDE DEF to
    <3> QED
      BY <1>3
  <2> QED
    BY <2>1, <2>2, <2>3
<1> QED
  BY <1>2, <1>3, <1>5, <1>6

-----------------------------------------------------------------------------
(* The induction.                                                          *)

LEMMA NulIsCharacter == NUL \in Characters
BY DEF Characters

LEMMA InitIndInv == Init => IndInv
<1> SUFFICES ASSUME Init PROVE IndInv
  OBVIOUS
<1>1. cursor \in [X : Int, Y : Int] /\ CursorOnScreen
  BY HomeOnScreen DEF Init, OnScreen, CursorOnScreen
<1>2. memory \in [Addresses -> Characters]
  BY NulIsCharacter DEF Init
<1>3. \A t \in Terminals : next[t] \in 1 .. Len(Output[t])
  <2> SUFFICES ASSUME NEW t \in Terminals PROVE next[t] \in 1 .. Len(Output[t])
    OBVIOUS
  <2>1. Output[t] \in Seq(STRING) /\ Output[t] # <<>>
    BY TerminalsAssumption
  <2>2. Len(Output[t]) \in Nat /\ Len(Output[t]) >= 1
    BY <2>1
  <2> QED
    BY <2>2 DEF Init
<1>4. index \in [Terminals -> 0 .. maxLen]
  BY TerminalsAssumption DEF Init
<1>5. next \in [Terminals -> Nat]
  BY DEF Init
<1>6. cursor.X \in Nat /\ cursor.Y \in Nat
  BY DEF Init
<1>7. handler = "none" /\ at = -1 /\ paramIndex = 0 /\ times = 0
  BY DEF Init
<1>8. switched \in BOOLEAN /\ underline \in BOOLEAN
  BY DEF Init
<1>9. at \in Int /\ paramIndex \in 0 .. 3 /\ times \in 0 .. Blink_Time
  BY <1>7, TerminalsAssumption
<1> QED
  BY <1>1, <1>2, <1>3, <1>4, <1>5, <1>6, <1>7, <1>8, <1>9 DEF IndInv, TypeOK

(* A write keeps the types of what it changes.                             *)
LEMMA WriteIndInv ==
    ASSUME IndInv, NEW t \in Terminals, SysConsoleWrite(t)
    PROVE  IndInv'
<1>1. PICK start \in 0 .. maxLen - 1 :
        /\ index' = [index EXCEPT ![t] = start + 1]
        /\ memory' = [a \in DOMAIN memory |->
                        IF a = t * maxLen + start THEN Output[t][next[t]]
                                                  ELSE Reset(t)[a]]
  BY WriteEffect
<1>2. maxLen \in Nat
  BY TerminalsAssumption
<1>3. index' \in [Terminals -> 0 .. maxLen]
  <2>1. start + 1 \in 0 .. maxLen
    BY <1>2
  <2> QED
    BY <1>1, <2>1 DEF IndInv, TypeOK
<1>4. Output[t] \in Seq(STRING) /\ next[t] \in 1 .. Len(Output[t])
  BY TerminalsAssumption DEF IndInv, TypeOK
<1>5. memory' \in [Addresses -> Characters]
  <2>1. Output[t][next[t]] \in Characters
    BY <1>4 DEF Characters
  <2>2. DOMAIN memory = Addresses
    BY DEF IndInv, TypeOK
  <2>3. \A a \in Addresses : Reset(t)[a] \in Characters
    <3>1. \A a \in Addresses : memory[a] \in Characters
      BY DEF IndInv, TypeOK
    <3> QED
      BY <2>2, <3>1, NulIsCharacter DEF Reset
  <2> QED
    BY <1>1, <2>1, <2>2, <2>3
<1>6. next' \in [Terminals -> Nat] /\ \A u \in Terminals : next'[u] \in 1 .. Len(Output[u])
  <2> DEFINE n == IF next[t] = Len(Output[t]) THEN 1 ELSE next[t] + 1
  <2>1. n \in 1 .. Len(Output[t])
    BY <1>4
  <2>2. next' = [next EXCEPT ![t] = n]
    BY DEF SysConsoleWrite
  <2>3. n \in Nat
    BY <2>1
  <2> HIDE DEF n
  <2> QED
    BY <2>1, <2>2, <2>3 DEF IndInv, TypeOK
<1>7. UNCHANGED <<handler, at, paramIndex, switched, cursor, underline, times>>
  BY DEF SysConsoleWrite, parser, screen, blink
<1> QED
  BY <1>3, <1>5, <1>6, <1>7 DEF IndInv, TypeOK, CursorOnScreen

(* The handler leaves the buffers alone: what remains to be shown of its   *)
(* steps.                                                                  *)
LEMMA HandlerIndInv ==
    ASSUME IndInv, UNCHANGED <<memory, index, next>>,
           handler' \in {"none", "print", "param", "overrun", "blink"},
           at' \in Int, paramIndex' \in 0 .. 3, switched' \in BOOLEAN,
           OnScreen(cursor'),
           underline' \in BOOLEAN, times' \in 0 .. Blink_Time
    PROVE  IndInv'
<1>1. cursor'.X \in Nat /\ cursor'.Y \in Nat
  BY DEF OnScreen
<1>2. CursorOnScreen' /\ cursor' \in [X : Int, Y : Int]
  BY DEF OnScreen, CursorOnScreen
<1>3. index' \in [Terminals -> 0 .. maxLen]
  BY DEF IndInv, TypeOK
<1>4. \A t \in Terminals : next'[t] \in 1 .. Len(Output[t])
  BY DEF IndInv, TypeOK
<1>5. next' \in [Terminals -> Nat] /\ memory' \in [Addresses -> Characters]
  BY DEF IndInv, TypeOK
<1> QED
  BY <1>1, <1>2, <1>3, <1>4, <1>5 DEF IndInv, TypeOK

LEMMA NextIndInv == IndInv /\ [Next]_vars => IndInv'
<1> SUFFICES ASSUME IndInv, [Next]_vars PROVE IndInv'
  OBVIOUS
<1> USE DEF console, parser, screen, blink
<1>0. /\ handler \in {"none", "print", "param", "overrun", "blink"}
      /\ at \in Int /\ paramIndex \in 0 .. 3 /\ switched \in BOOLEAN
      /\ underline \in BOOLEAN /\ times \in 0 .. Blink_Time
      /\ OnScreen(cursor)
  BY DEF IndInv, TypeOK, CursorOnScreen, OnScreen
<1>1. ASSUME NEW t \in Terminals, SysConsoleWrite(t) PROVE IndInv'
  BY <1>1, WriteIndInv
<1>2. CASE PITHandler
  BY <1>0, <1>2, HomeOnScreen, HandlerIndInv DEF PITHandler
<1>3. CASE PrintGlyph
  <2>1. OnScreen(cursor')
    BY <1>0, <1>3, PutcOnScreen DEF PrintGlyph
  <2> QED
    BY <1>0, <1>3, <2>1, HandlerIndInv DEF PrintGlyph
<1>4. CASE SkipEscape
  BY <1>0, <1>4, HandlerIndInv DEF SkipEscape
<1>5. CASE EnterEscape
  <2>1. switched' \in BOOLEAN
    BY <1>5 DEF EnterEscape
  <2>2. UNCHANGED <<memory, index, next, cursor, underline, times>>
    BY <1>5 DEF EnterEscape
  <2>3. handler' = "param"
    BY <1>5 DEF EnterEscape
  <2>5. paramIndex' \in 0 .. 3
    BY <1>5 DEF EnterEscape
  <2>4. at' \in Int
    BY <1>0, <1>5 DEF EnterEscape
  <2> QED
    BY <1>0, <2>1, <2>2, <2>3, <2>4, <2>5, HandlerIndInv
<1>6. CASE ReadParam
  <2>1. paramIndex' = 0 \/ (paramIndex <= 2 /\ paramIndex' = paramIndex + 1)
    BY <1>6 DEF ReadParam
  <2>2. paramIndex' \in 0 .. 3
    BY <1>0, <2>1
  <2>3. switched' \in BOOLEAN
    BY <1>0, <1>6 DEF ReadParam
  <2>4. at' = at + 1
    BY <1>6 DEF ReadParam
  <2>5. handler' = "print" \/ handler' = handler
    BY <1>6 DEF ReadParam
  <2>6. at' \in Int
    BY <1>0, <2>4
  <2>7. UNCHANGED <<memory, index, next, cursor, underline, times>>
    BY <1>6 DEF ReadParam
  <2> QED
    BY <1>0, <2>2, <2>3, <2>5, <2>6, <2>7, HandlerIndInv
<1>7. CASE OverrunParam
  BY <1>0, <1>7, HandlerIndInv DEF OverrunParam
<1>8. CASE EndOfText
  <2>1. switched' \in BOOLEAN
    BY <1>8 DEF EndOfText
  <2>2. UNCHANGED <<memory, index, next, cursor, underline, times>>
    BY <1>8 DEF EndOfText
  <2>3. handler' = "blink"
    BY <1>8 DEF EndOfText
  <2>5. paramIndex' \in 0 .. 3
    BY <1>8 DEF EndOfText
  <2>4. at' \in Int
    BY <1>0, <1>8 DEF EndOfText
  <2> QED
    BY <1>0, <2>1, <2>2, <2>3, <2>4, <2>5, HandlerIndInv
<1>9. CASE HandleBlink
  <2>1. OnScreen(cursor')
    BY <1>0, <1>9, AdvanceOnScreen DEF HandleBlink
  <2>2. times' \in 0 .. Blink_Time
    <3>1. Blink_Time \in Nat \ {0}
      BY TerminalsAssumption
    <3> QED
      BY <1>0, <1>9, <3>1 DEF HandleBlink
  <2>3. underline' \in BOOLEAN
    BY <1>9 DEF HandleBlink
  <2> QED
    BY <1>0, <1>9, <2>1, <2>2, <2>3, HandlerIndInv DEF HandleBlink
<1>10. CASE UNCHANGED vars
  BY <1>0, <1>10, HandlerIndInv DEF vars
<1> QED
  BY <1>1, <1>2, <1>3, <1>4, <1>5, <1>6, <1>7, <1>8, <1>9, <1>10 DEF Next, ANSIPrint

(* Every reachable state satisfies the invariant of the induction.         *)
THEOREM Invariance == Spec => []IndInv
BY InitIndInv, NextIndInv, PTL DEF Spec

(* Types are kept; above all VirtualTerminal::append never leaves an index *)
(* behind the end of its buffer, for every length of one.                  *)
THEOREM TypeCorrect == Spec => []TypeOK
BY Invariance, PTL DEF IndInv

(* On every display of more than two glyphs each way, the cursor of        *)
(* DisplayDriver stays where a glyph fits into the frame buffer.           *)
THEOREM CursorStaysOnScreen == Spec => []CursorOnScreen
BY Invariance, PTL DEF IndInv

(* SYSCALL_WRITE changes no page but its own terminal's, for every number  *)
(* of terminals and every length of a buffer.                              *)
THEOREM WritesStayInPage == Spec => WritesOwnPage
<1> DEFINE Own == \A t \in Terminals :
                    (\E a \in Page(t) : memory'[a] # memory[a]) => SysConsoleWrite(t)
<1>1. ASSUME IndInv, [Next]_vars PROVE Own
  <2> SUFFICES ASSUME NEW t \in Terminals, NEW a \in Page(t), memory'[a] # memory[a]
               PROVE  SysConsoleWrite(t)
    OBVIOUS
  <2> USE DEF console
  <2>1. ASSUME NEW u \in Terminals, SysConsoleWrite(u) PROVE u = t
    <3> SUFFICES ASSUME u # t PROVE FALSE
      OBVIOUS
    <3>1. PICK start \in 0 .. maxLen - 1 :
            /\ u * maxLen + start \in Page(u)
            /\ memory' = [b \in DOMAIN memory |->
                            IF b = u * maxLen + start THEN Output[u][next[u]]
                                                      ELSE Reset(u)[b]]
      BY <1>1, <2>1, WriteEffect
    <3>2. a \notin Page(u)
      BY PagesApart
    <3>3. a \in DOMAIN memory
      BY <1>1, PageInMemory DEF IndInv, TypeOK
    <3>4. memory'[a] = Reset(u)[a]
      BY <3>1, <3>2, <3>3
    <3>5. Reset(u)[a] = memory[a]
      BY <3>2, <3>3 DEF Reset
    <3> QED
      BY <3>4, <3>5
  <2>2. CASE PITHandler
    BY <2>2 DEF PITHandler
  <2>3. CASE ANSIPrint
    BY <2>3 DEF ANSIPrint, PrintGlyph, SkipEscape, EnterEscape, ReadParam,
                OverrunParam, EndOfText
  <2>4. CASE HandleBlink
    BY <2>4 DEF HandleBlink
  <2>5. CASE UNCHANGED vars
    BY <2>5 DEF vars
  <2> QED
    BY <1>1, <2>1, <2>2, <2>3, <2>4, <2>5 DEF Next
<1> QED
  BY <1>1, Invariance, PTL DEF Spec, WritesOwnPage

-----------------------------------------------------------------------------
(***************************************************************************)
(* What a tick shows.  First, a page holds what was written to it, and     *)
(* zeros behind that.                                                      *)
(***************************************************************************)
Holds(t) ==
    /\ Len(written[t]) = index[t]
    /\ \A i \in 0 .. index[t] - 1 : memory[t * maxLen + i] = written[t][i + 1]
    /\ \A i \in index[t] .. maxLen - 1 : memory[t * maxLen + i] = NUL

PagesHold ==
    /\ written \in [Terminals -> Seq(Characters)]
    /\ \A t \in Terminals : Holds(t)

LEMMA PlaceInPage ==
    ASSUME NEW t \in Terminals, NEW i \in 0 .. maxLen - 1
    PROVE  t * maxLen \in Int /\ t * maxLen + i \in Page(t) /\ t * maxLen + i \in Addresses
<1>1. maxLen \in Nat /\ t \in Int
  BY TerminalsAssumption DEF Terminals
<1>2. t * maxLen \in Int /\ (t + 1) * maxLen = t * maxLen + maxLen
  BY <1>1
<1>3. t * maxLen + i \in Page(t)
  BY <1>1, <1>2 DEF Page
<1> QED
  BY <1>2, <1>3, PageInMemory

LEMMA WriteToOther ==
    ASSUME IndInv, PagesHold, NEW t \in Terminals, NEW u \in Terminals, t # u,
           SysConsoleWrite(u)
    PROVE  Holds(t)'
<1>1. PICK start \in 0 .. maxLen - 1 :
        /\ index' = [index EXCEPT ![u] = start + 1]
        /\ u * maxLen + start \in Page(u)
        /\ memory' = [a \in DOMAIN memory |->
                        IF a = u * maxLen + start THEN Output[u][next[u]] ELSE Reset(u)[a]]
  BY WriteEffect
<1>2. ASSUME NEW i \in 0 .. maxLen - 1
      PROVE  memory'[t * maxLen + i] = memory[t * maxLen + i]
  <2> DEFINE a == t * maxLen + i
  <2>1. a \in Page(t) /\ a \in DOMAIN memory
    BY PlaceInPage DEF IndInv, TypeOK
  <2>2. a \notin Page(u)
    BY <2>1, PagesApart
  <2> HIDE DEF a
  <2>3. Reset(u)[a] = memory[a]
    BY <2>1, <2>2 DEF Reset
  <2>4. memory'[a] = memory[a]
    BY <1>1, <2>1, <2>2, <2>3
  <2> QED
    BY <2>4 DEF a
<1>3. index'[t] = index[t] /\ index[t] \in 0 .. maxLen /\ maxLen \in Nat
  BY <1>1, TerminalsAssumption DEF IndInv, TypeOK
<1>4. written'[t] = written[t]
  BY DEF SysConsoleWrite, PagesHold
<1>5. Holds(t)
  BY DEF PagesHold
<1> QED
  BY <1>2, <1>3, <1>4, <1>5 DEF Holds

LEMMA WriteToOwn ==
    ASSUME IndInv, PagesHold, NEW t \in Terminals, SysConsoleWrite(t)
    PROVE  written' \in [Terminals -> Seq(Characters)] /\ Holds(t)'
<1> DEFINE char == Output[t][next[t]]
           base == t * maxLen
           old == written[t]
           new == IF Full(t) THEN <<char>> ELSE Append(old, char)
<1>1. PICK start \in 0 .. maxLen - 1 :
        /\ start = IF Full(t) THEN 0 ELSE index[t]
        /\ index' = [index EXCEPT ![t] = start + 1]
        /\ memory' = [a \in DOMAIN memory |->
                        IF a = base + start THEN char ELSE Reset(t)[a]]
  BY WriteEffect
<1>2. char \in Characters
  <2>1. Output[t] \in Seq(STRING) /\ next[t] \in 1 .. Len(Output[t])
    BY TerminalsAssumption DEF IndInv, TypeOK
  <2> QED
    BY <2>1 DEF Characters
<1>3. /\ old \in Seq(Characters) /\ Len(old) = index[t] /\ index[t] \in 0 .. maxLen
      /\ \A i \in 0 .. index[t] - 1 : memory[base + i] = old[i + 1]
      /\ \A i \in index[t] .. maxLen - 1 : memory[base + i] = NUL
      /\ maxLen \in Nat
  BY TerminalsAssumption DEF IndInv, TypeOK, PagesHold, Holds
<1>4. written' = [written EXCEPT ![t] = new]
  BY DEF SysConsoleWrite
<1>5. index'[t] = start + 1
  BY <1>1 DEF IndInv, TypeOK
<1>6. ASSUME NEW i \in 0 .. maxLen - 1
      PROVE  memory'[base + i] = IF i = start THEN char
                                 ELSE IF Full(t) THEN NUL ELSE memory[base + i]
  <2>1. base \in Int /\ base + i \in Page(t) /\ base + i \in DOMAIN memory
    BY PlaceInPage DEF IndInv, TypeOK
  <2> HIDE DEF base, char
  <2>2. base + i = base + start <=> i = start
    BY <2>1
  <2>3. Reset(t)[base + i] = IF Full(t) THEN NUL ELSE memory[base + i]
    BY <2>1 DEF Reset
  <2> QED
    BY <1>1, <2>1, <2>2, <2>3
<1> HIDE DEF char, base, old
<1>7. /\ new \in Seq(Characters) /\ Len(new) = start + 1 /\ new[start + 1] = char
      /\ \A i \in 0 .. start - 1 : new[i + 1] = old[i + 1]
  <2>1. CASE Full(t)
    BY <1>1, <1>2, <2>1
  <2>2. CASE ~Full(t)
    <3>1. new = Append(old, char) /\ start = Len(old)
      BY <1>1, <1>3, <2>2
    <3>2. /\ Append(old, char) \in Seq(Characters) /\ Len(Append(old, char)) = Len(old) + 1
          /\ \A i \in 1 .. Len(old) : Append(old, char)[i] = old[i]
          /\ Append(old, char)[Len(old) + 1] = char
      BY <1>2, <1>3, AppendProperties
    <3> HIDE DEF new
    <3>3. ASSUME NEW i \in 0 .. start - 1 PROVE new[i + 1] = old[i + 1]
      <4>1. i + 1 \in 1 .. Len(old)
        BY <1>1, <3>1
      <4> QED
        BY <3>1, <3>2, <4>1
    <3> QED
      BY <3>1, <3>2, <3>3
  <2> QED
    BY <2>1, <2>2
<1> HIDE DEF new
<1>8. written' \in [Terminals -> Seq(Characters)] /\ written'[t] = new
  BY <1>4, <1>7 DEF PagesHold
<1>9. ASSUME NEW i \in 0 .. start PROVE memory'[base + i] = new[i + 1]
  <2>1. i \in 0 .. maxLen - 1
    BY <1>1, <1>3
  <2>2. CASE i = start
    BY <1>6, <1>7, <2>1, <2>2
  <2>3. CASE i # start
    <3>1. ~Full(t) /\ i \in 0 .. index[t] - 1 /\ i \in 0 .. start - 1
      BY <1>1, <1>3, <2>3
    <3> QED
      BY <1>3, <1>6, <1>7, <2>1, <2>3, <3>1
  <2> QED
    BY <2>2, <2>3
<1>10. ASSUME NEW i \in start + 1 .. maxLen - 1 PROVE memory'[base + i] = NUL
  <2>1. i \in 0 .. maxLen - 1 /\ i # start /\ (~Full(t) => i \in index[t] .. maxLen - 1)
    BY <1>1, <1>3
  <2> QED
    BY <1>3, <1>6, <2>1
<1> QED
  BY <1>5, <1>7, <1>8, <1>9, <1>10 DEF Holds, base

LEMMA WriteHolds ==
    ASSUME IndInv, PagesHold, NEW t \in Terminals, SysConsoleWrite(t)
    PROVE  PagesHold'
<1>1. written' \in [Terminals -> Seq(Characters)] /\ Holds(t)'
  BY WriteToOwn
<1>2. ASSUME NEW u \in Terminals, u # t PROVE Holds(u)'
  BY <1>2, WriteToOther
<1> QED
  BY <1>1, <1>2 DEF PagesHold

-----------------------------------------------------------------------------
(***************************************************************************)
(* The text of a page is a stretch of what its program writes over and     *)
(* over, so that an escape sequence in it is whole as far as it goes.      *)
(***************************************************************************)
output == Output[CurrentTerminal]
After(i) == IF i = Len(output) THEN 1 ELSE i + 1

Stretch(w, p) ==
    /\ p \in [1 .. Len(w) -> 1 .. Len(output)]
    /\ \A j \in 1 .. Len(w) : w[j] = output[p[j]]
    /\ \A j \in 1 .. Len(w) - 1 : p[j + 1] = After(p[j])

Written ==
    LET w == written[CurrentTerminal]
    IN  \E p : /\ Stretch(w, p)
               /\ Len(w) > 0 => next[CurrentTerminal] = After(p[Len(w)])

Follows == <<{"["}, {"1"}, {";"}, {"3"}, Foregrounds, {"m"}>>
Regular(w) ==
    \A i \in 1 .. Len(w) :
      /\ w[i] # NUL
      /\ w[i] = ESC => \A k \in 1 .. 6 : i + k <= Len(w) => w[i + k] \in Follows[k]

LEMMA StretchRegular ==
    ASSUME Coloured, NEW S, NEW w \in Seq(S), NEW p, Stretch(w, p)
    PROVE  Regular(w)
<1> DEFINE n == Len(w)
           m == Len(output)
<1>1. /\ n \in Nat /\ m \in Nat
      /\ p \in [1 .. n -> 1 .. m] /\ \A j \in 1 .. n : w[j] = output[p[j]]
      /\ \A j \in 1 .. n - 1 : p[j + 1] = IF p[j] = m THEN 1 ELSE p[j] + 1
  <2>1. output \in Seq(STRING)
    BY TerminalsAssumption DEF output
  <2> QED
    BY <2>1, LenProperties DEF Stretch, After
<1>2. ASSUME NEW i \in 1 .. m
      PROVE  /\ output[i] # NUL
             /\ output[i] = ESC => i + 6 <= m /\ \A k \in 1 .. 6 : output[i + k] \in Follows[k]
  BY DEF Coloured, output, Follows
<1> HIDE DEF n, m
<1>3. SUFFICES ASSUME NEW i \in 1 .. n
               PROVE  /\ w[i] # NUL
                      /\ w[i] = ESC => \A k \in 1 .. 6 : i + k <= n => w[i + k] \in Follows[k]
  BY DEF Regular, n
<1>4. p[i] \in 1 .. m /\ w[i] = output[p[i]]
  BY <1>1
<1>5. ASSUME w[i] = ESC PROVE \A k \in 1 .. 6 : i + k <= n => w[i + k] \in Follows[k]
  <2>1. p[i] + 6 <= m /\ \A k \in 1 .. 6 : output[p[i] + k] \in Follows[k]
    BY <1>2, <1>4, <1>5
  <2>2. ASSUME NEW k \in 0 .. 5, i + k < n, p[i + k] = p[i] + k
        PROVE  p[i + (k + 1)] = p[i] + (k + 1)
    <3>1. i + k \in 1 .. n - 1 /\ (i + k) + 1 = i + (k + 1) /\ p[i] + k # m
      BY <1>1, <1>4, <2>1, <2>2
    <3>2. p[(i + k) + 1] = p[i + k] + 1
      BY <1>1, <2>2, <3>1
    <3> QED
      BY <1>4, <2>2, <3>1, <3>2
  <2>3. i + 1 <= n => p[i + 1] = p[i] + 1
    <3>1. i + 0 = i /\ p[i] + 0 = p[i]
      BY <1>4
    <3> QED
      BY <1>1, <2>2, <3>1
  <2>4. i + 2 <= n => p[i + 2] = p[i] + 2
    BY <1>1, <2>2, <2>3
  <2>5. i + 3 <= n => p[i + 3] = p[i] + 3
    BY <1>1, <2>2, <2>4
  <2>6. i + 4 <= n => p[i + 4] = p[i] + 4
    BY <1>1, <2>2, <2>5
  <2>7. i + 5 <= n => p[i + 5] = p[i] + 5
    BY <1>1, <2>2, <2>6
  <2>8. i + 6 <= n => p[i + 6] = p[i] + 6
    BY <1>1, <2>2, <2>7
  <2>9. ASSUME NEW k \in 1 .. 6, i + k <= n PROVE w[i + k] \in Follows[k]
    <3>1. p[i + k] = p[i] + k
      BY <2>3, <2>4, <2>5, <2>6, <2>7, <2>8, <2>9
    <3>2. i + k \in 1 .. n
      BY <1>1, <2>9
    <3> QED
      BY <1>1, <2>1, <3>1, <3>2
  <2> QED
    BY <2>9
<1> QED
  BY <1>2, <1>4, <1>5

LEMMA WriteWritten ==
    ASSUME IndInv, PagesHold, Written, NEW t \in Terminals, SysConsoleWrite(t)
    PROVE  Written'
<1> DEFINE c == CurrentTerminal
           w == written[c]
           n == Len(w)
           m == Len(output)
<1>1. PICK p : Stretch(w, p) /\ (n > 0 => next[c] = After(p[n]))
  BY DEF Written
<1>2. c \in Terminals
  BY TerminalsAssumption
<1>3. CASE t # c
  <2>1. written'[c] = w /\ next'[c] = next[c]
    BY <1>2, <1>3 DEF SysConsoleWrite, PagesHold, IndInv
  <2> QED
    BY <1>1, <2>1 DEF Written
<1>4. CASE t = c
  <2> DEFINE char == output[next[c]]
  <2>1. /\ w \in Seq(Characters) /\ next[c] \in 1 .. m /\ next[c] \in Nat
    BY <1>2 DEF IndInv, TypeOK, PagesHold, output
  <2>2. /\ written'[c] = IF Full(c) THEN <<char>> ELSE Append(w, char)
        /\ next'[c] = After(next[c])
    BY <1>2, <1>4 DEF SysConsoleWrite, PagesHold, IndInv, After, output
  <2>3. n \in Nat
    BY <2>1
  <2>4. /\ p \in [1 .. n -> 1 .. m] /\ \A j \in 1 .. n : w[j] = output[p[j]]
        /\ \A j \in 1 .. n - 1 : p[j + 1] = After(p[j])
    BY <1>1 DEF Stretch
  <2>5. CASE Full(c)
    <3> DEFINE q == [j \in 1 .. 1 |-> next[c]]
               v == <<char>>
    <3>1. Len(v) = 1 /\ v[1] = char
      OBVIOUS
    <3>2. q \in [1 .. 1 -> 1 .. m] /\ q[1] = next[c]
      BY <2>1
    <3> HIDE DEF q, v, char, m
    <3>3. Stretch(v, q)
      BY <3>1, <3>2 DEF Stretch, char, m
    <3>4. written'[c] = v
      BY <2>2, <2>5 DEF v
    <3> QED
      BY <2>2, <3>1, <3>2, <3>3, <3>4 DEF Written
  <2>6. CASE ~Full(c)
    <3> DEFINE q == [j \in 1 .. n + 1 |-> IF j = n + 1 THEN next[c] ELSE p[j]]
               v == Append(w, char)
    <3>1. char \in Characters
      BY <1>2, <2>1 DEF Characters, output
    <3>2. /\ v \in Seq(Characters) /\ Len(v) = n + 1
          /\ \A i \in 1 .. n : v[i] = w[i]
          /\ v[n + 1] = char
      BY <2>1, <3>1, AppendProperties
    <3>3. /\ q \in [1 .. n + 1 -> 1 .. m] /\ q[n + 1] = next[c]
          /\ \A j \in 1 .. n : q[j] = p[j]
      <4> HIDE DEF n, m
      <4> QED
        BY <2>1, <2>3, <2>4
    <3> HIDE DEF q, v, n
    <3>4. \A j \in 1 .. n + 1 : v[j] = output[q[j]]
      <4> SUFFICES ASSUME NEW j \in 1 .. n + 1 PROVE v[j] = output[q[j]]
        OBVIOUS
      <4>1. j \in 1 .. n \/ j = n + 1
        BY <2>3
      <4> QED
        BY <2>4, <3>2, <3>3, <4>1
    <3>5. \A j \in 1 .. n : q[j + 1] = After(q[j])
      <4> SUFFICES ASSUME NEW j \in 1 .. n PROVE q[j + 1] = After(q[j])
        OBVIOUS
      <4>1. CASE j = n
        <5>1. n > 0 /\ q[n + 1] = next[c] /\ q[n] = p[n]
          BY <2>3, <3>3, <4>1
        <5> QED
          BY <1>1, <4>1, <5>1 DEF n
      <4>2. CASE j # n
        <5>1. j \in 1 .. n - 1 /\ j + 1 \in 1 .. n
          BY <2>3, <4>2
        <5> QED
          BY <2>4, <3>3, <5>1
      <4> QED
        BY <4>1, <4>2
    <3>6. Stretch(v, q)
      <4>1. (n + 1) - 1 = n
        BY <2>3
      <4> QED
        BY <3>2, <3>3, <3>4, <3>5, <4>1 DEF Stretch
    <3>7. written'[c] = v
      BY <2>2, <2>6 DEF v
    <3>8. next'[c] = After(q[Len(v)])
      BY <2>2, <3>2, <3>3
    <3> QED
      BY <3>6, <3>7, <3>8 DEF Written
  <2> QED
    BY <2>5, <2>6
<1> QED
  BY <1>3, <1>4

-----------------------------------------------------------------------------
(***************************************************************************)
(* What is to be seen of a text, a character further on.                   *)
(***************************************************************************)
Plain(w, n) == n = 0 \/ w[n] = "m" \/ ~InEscape(w, n)

(* Inside a sequence there is neither another nor an end of it.            *)
LEMMA SequenceInside ==
    ASSUME NEW S, NEW w \in Seq(S), Regular(w), NEW s \in 1 .. Len(w), w[s] = ESC
    PROVE  /\ \A j \in s .. s + 5 : j <= Len(w) => w[j] # "m" /\ InEscape(w, j)
           /\ \A j \in s .. s + 6 : j <= Len(w) => InEscape(w, j)
<1> DEFINE n == Len(w)
<1>1. n \in Nat
  OBVIOUS
<1>2. \A k \in 1 .. 6 : s + k <= n => w[s + k] \in Follows[k]
  BY DEF Regular
<1> HIDE DEF n
<1>3. \A k \in 1 .. 5 : "m" \notin Follows[k]
  <2>1. /\ Follows[1] = {"["} /\ Follows[2] = {"1"} /\ Follows[3] = {";"}
        /\ Follows[4] = {"3"} /\ Follows[5] = Foregrounds
    BY DEF Follows
  <2>2. "m" \notin Foregrounds
    BY DEF Foregrounds
  <2>3. /\ "m" \notin Follows[1] /\ "m" \notin Follows[2] /\ "m" \notin Follows[3]
        /\ "m" \notin Follows[4] /\ "m" \notin Follows[5]
    BY <2>1, <2>2
  <2>4. 1 .. 5 = {1, 2, 3, 4, 5}
    OBVIOUS
  <2> QED
    BY <2>3, <2>4
<1>4. ASSUME NEW j \in s .. s + 5, j <= n PROVE w[j] # "m"
  <2>1. CASE j = s
    BY <2>1 DEF ESC
  <2>2. CASE j # s
    <3> DEFINE k == j - s
    <3>1. k \in 1 .. 5 /\ k \in 1 .. 6 /\ s + k = j
      BY <1>1, <2>2
    <3> HIDE DEF k
    <3> QED
      BY <1>2, <1>3, <1>4, <3>1
  <2> QED
    BY <2>1, <2>2
<1>5. ASSUME NEW j \in s .. s + 6, j <= n PROVE InEscape(w, j)
  <2>1. s \in 1 .. j
    BY <1>1
  <2>2. \A i \in s .. j - 1 : w[i] # "m"
    BY <1>1, <1>4, <1>5
  <2> QED
    BY <2>1, <2>2 DEF InEscape
<1>6. \A j \in s .. s + 5 : j <= n => w[j] # "m" /\ InEscape(w, j)
  BY <1>1, <1>4, <1>5
<1> QED
  BY <1>5, <1>6 DEF n

LEMMA SequenceWhole ==
    ASSUME NEW S, NEW w \in Seq(S), Regular(w), Complete(w), NEW s \in 1 .. Len(w), w[s] = ESC
    PROVE  s + 6 <= Len(w)
<1> DEFINE n == Len(w)
<1>1. n \in Nat /\ s \in 1 .. n
  OBVIOUS
<1>2. \A j \in s .. s + 5 : j <= n => w[j] # "m" /\ InEscape(w, j)
  BY SequenceInside
<1>3. n = 0 \/ w[n] = "m" \/ ~InEscape(w, n)
  BY DEF Complete
<1> HIDE DEF n
<1> SUFFICES ASSUME ~(s + 6 <= n) PROVE FALSE
  BY DEF n
<1>4. n \in s .. s + 5
  BY <1>1
<1> QED
  BY <1>1, <1>2, <1>3, <1>4

LEMMA PlainNext ==
    ASSUME NEW w, NEW n \in Nat, Plain(w, n), w[n + 1] # ESC
    PROVE  ~InEscape(w, n + 1)
<1> SUFFICES ASSUME NEW s \in 1 .. n + 1, w[s] = ESC, \A j \in s .. (n + 1) - 1 : w[j] # "m"
             PROVE  FALSE
  BY DEF InEscape
<1>1. s # n + 1
  OBVIOUS
<1>2. s \in 1 .. n /\ n \in s .. (n + 1) - 1 /\ n # 0
  BY <1>1
<1>3. \A j \in s .. n - 1 : w[j] # "m"
  OBVIOUS
<1>4. InEscape(w, n) /\ w[n] # "m"
  BY <1>2, <1>3 DEF InEscape
<1> QED
  BY <1>2, <1>4 DEF Plain

Ends(w, i) == {e \in 3 .. i - 1 : w[e] = "m" /\ InEscape(w, e)}

ColourAfter(w, ends) ==
    LET last == CHOOSE e \in ends : \A f \in ends : f <= e
    IN  IF ends # {} /\ w[last - 2] = "3" /\ w[last - 1] \in Foregrounds
        THEN w[last - 1] ELSE WHITE

LEMMA ColourOf ==
    ASSUME NEW w, NEW i
    PROVE  ColourAt(w, i) = ColourAfter(w, Ends(w, i))
BY DEF ColourAt, Ends, ColourAfter

LEMMA ColourKept ==
    ASSUME NEW w, NEW i \in Nat \ {0}, NEW k \in Nat, i <= k,
           \A e \in i .. k - 1 : w[e] # "m" \/ ~InEscape(w, e)
    PROVE  ColourAt(w, k) = ColourAt(w, i)
<1>1. Ends(w, k) = Ends(w, i)
  <2>1. ASSUME NEW e \in 3 .. k - 1, w[e] = "m", InEscape(w, e) PROVE e \in 3 .. i - 1
    <3>1. e \notin i .. k - 1
      BY <2>1
    <3> QED
      BY <3>1
  <2>2. 3 .. i - 1 \subseteq 3 .. k - 1
    OBVIOUS
  <2> QED
    BY <2>1, <2>2 DEF Ends
<1> QED
  BY <1>1, ColourOf

LEMMA ColourSet ==
    ASSUME NEW w, NEW e \in Nat, e >= 3, w[e] = "m", InEscape(w, e),
           w[e - 2] = "3", w[e - 1] \in Foregrounds
    PROVE  ColourAt(w, e + 1) = w[e - 1]
<1> DEFINE ends == Ends(w, e + 1)
           last == CHOOSE f \in ends : \A g \in ends : g <= f
<1>1. e \in ends /\ \A f \in ends : f <= e /\ f \in Nat
  BY DEF Ends
<1> HIDE DEF ends
<1>2. last \in ends /\ \A g \in ends : g <= last
  BY <1>1
<1>3. last = e
  <2>1. last \in Nat /\ last <= e /\ e <= last
    BY <1>1, <1>2
  <2> HIDE DEF last
  <2> QED
    BY <2>1
<1>4. ColourAt(w, e + 1) = IF ends # {} /\ w[last - 2] = "3" /\ w[last - 1] \in Foregrounds
                           THEN w[last - 1] ELSE WHITE
  BY ColourOf DEF ends, ColourAfter
<1> QED
  BY <1>1, <1>3, <1>4

LEMMA ColourFirst ==
    ASSUME NEW w
    PROVE  ColourAt(w, 1) = WHITE
<1>1. Ends(w, 1) = {}
  BY DEF Ends
<1> QED
  BY <1>1, ColourOf DEF ColourAfter

(* The places that are seen among the first n.                             *)
Seen(w, n) == {i \in 1 .. n : ~InEscape(w, i) /\ w[i] # "newline"}

LEMMA ShowsSeen ==
    ASSUME NEW d, NEW w, NEW n
    PROVE  Shows(d, w, n) <=>
             /\ Len(d) = Cardinality(Seen(w, n))
             /\ \A i \in Seen(w, n) :
                  d[Cardinality({j \in Seen(w, n) : j <= i})] = Glyph(w, i)
BY DEF Shows, Seen

LEMMA ShowsNothing ==
    ASSUME NEW w
    PROVE  Shows(<<>>, w, 0)
<1>1. Seen(w, 0) = {}
  BY DEF Seen
<1> QED
  BY <1>1, ShowsSeen, FS_EmptySet

LEMMA ShowsOver ==
    ASSUME NEW d, NEW w, NEW n \in Nat, NEW m \in Nat, n <= m, Shows(d, w, n),
           \A i \in n + 1 .. m : InEscape(w, i) \/ w[i] = "newline"
    PROVE  Shows(d, w, m)
<1>1. Seen(w, m) = Seen(w, n)
  BY DEF Seen
<1> QED
  BY <1>1, ShowsSeen

LEMMA ShowsNext ==
    ASSUME NEW S, NEW d \in Seq(S), NEW w, NEW n \in Nat, Shows(d, w, n),
           ~InEscape(w, n + 1), w[n + 1] # "newline", Glyph(w, n + 1) \in S
    PROVE  Shows(Append(d, Glyph(w, n + 1)), w, n + 1)
<1> DEFINE old == Seen(w, n)
           new == Seen(w, n + 1)
           glyph == Glyph(w, n + 1)
           longer == Append(d, glyph)
           OldRank(i) == {j \in old : j <= i}
           NewRank(i) == {j \in new : j <= i}
<1>1. new = old \cup {n + 1} /\ old \subseteq 1 .. n /\ n + 1 \notin old
  BY DEF Seen
<1>2. IsFiniteSet(1 .. n)
  BY FS_Interval
<1>3. /\ Len(d) = Cardinality(old)
      /\ \A i \in old : d[Cardinality(OldRank(i))] = Glyph(w, i)
  BY ShowsSeen
<1> HIDE DEF old, new, glyph
<1>4. IsFiniteSet(old)
  BY <1>1, <1>2, FS_Subset
<1>5. Cardinality(new) = Cardinality(old) + 1 /\ Cardinality(old) \in Nat
  BY <1>1, <1>4, FS_AddElement, FS_CardinalityType
<1>6. /\ Len(longer) = Len(d) + 1 /\ \A k \in 1 .. Len(d) : longer[k] = d[k]
      /\ longer[Len(d) + 1] = glyph
  BY AppendProperties DEF glyph
<1> HIDE DEF longer
<1>7. ASSUME NEW i \in old
      PROVE  longer[Cardinality(NewRank(i))] = Glyph(w, i)
  <2> DEFINE rank == OldRank(i)
  <2>1. NewRank(i) = rank
    BY <1>1
  <2>2. rank \in SUBSET old /\ i \in rank
    BY <1>1
  <2>3. d[Cardinality(rank)] = Glyph(w, i)
    BY <1>3
  <2> HIDE DEF rank
  <2>4. longer[Cardinality(rank)] = d[Cardinality(rank)]
    <3>1. IsFiniteSet(rank) /\ Cardinality(rank) <= Cardinality(old)
      BY <1>4, <2>2, FS_Subset
    <3>2. Cardinality(rank) \in Nat /\ Cardinality(rank) # 0
      BY <2>2, <3>1, FS_CardinalityType, FS_EmptySet
    <3>3. Cardinality(rank) \in 1 .. Len(d)
      BY <1>3, <1>5, <3>1, <3>2
    <3> QED
      BY <1>6, <3>3
  <2> QED
    BY <2>1, <2>3, <2>4
<1>8. longer[Cardinality(NewRank(n + 1))] = glyph
  <2>1. NewRank(n + 1) = new
    <3>1. \A j \in new : j <= n + 1
      BY <1>1
    <3> QED
      BY <3>1
  <2> QED
    BY <1>3, <1>5, <1>6, <2>1
<1>9. ASSUME NEW i \in new PROVE longer[Cardinality(NewRank(i))] = Glyph(w, i)
  BY <1>1, <1>7, <1>8, <1>9 DEF glyph
<1>10. Len(longer) = Cardinality(new)
  BY <1>3, <1>5, <1>6
<1> QED
  BY <1>9, <1>10, ShowsSeen DEF longer, glyph, new

-----------------------------------------------------------------------------
(***************************************************************************)
(* A tick, while the text has a terminator and no sequence is cut off.     *)
(***************************************************************************)
Shown == written[CurrentTerminal]
Calm == Len(Shown) \in 1 .. maxLen - 1 /\ Complete(Shown)
Glyphs == [char : Characters, colour : Foregrounds]

(* The parameters, after the first and after the third digit of a          *)
(* sequence that begins at place s; at counts from zero.                   *)
Bold == [NoParams EXCEPT ![1][0] = "1"]
BoldThirty == [Bold EXCEPT ![2][0] = "3"]

Reading(s) ==
    \/ at = s + 1 /\ params = NoParams /\ paramIndex = 0 /\ switched = FALSE
    \/ at = s + 2 /\ params = Bold /\ paramIndex = 1 /\ switched = FALSE
    \/ at = s + 3 /\ params = Bold /\ paramIndex = 0 /\ switched = TRUE
    \/ at = s + 4 /\ params = BoldThirty /\ paramIndex = 1 /\ switched = TRUE

(* All that precedes place at + 1 is drawn.                                *)
Printing ==
    /\ at \in -1 .. Len(Shown) - 1 /\ Plain(Shown, at + 1)
    /\ Shows(drawn, Shown, at + 1)
    /\ colour = ColourAt(Shown, at + 2) /\ colour \in Foregrounds

Escaping ==
    \E s \in 1 .. Len(Shown) :
      Shown[s] = ESC /\ Reading(s) /\ Shows(drawn, Shown, s - 1)

Drawing ==
    Calm =>
      /\ handler \in {"print", "param", "blink"} => drawn \in Seq(Glyphs)
      /\ handler = "print" => Printing
      /\ handler = "param" => Escaping
      /\ handler = "blink" => Shows(drawn, Shown, Len(Shown))
      /\ handler # "overrun"

LEMMA ShownTyped ==
    ASSUME PagesHold, Coloured, Written
    PROVE  Shown \in Seq(Characters) /\ Regular(Shown) /\ CurrentTerminal \in Terminals
<1>1. CurrentTerminal \in Terminals
  BY TerminalsAssumption
<1>2. Shown \in Seq(Characters)
  BY <1>1 DEF PagesHold, Shown
<1>3. \E p : Stretch(Shown, p)
  BY DEF Written, Shown
<1> QED
  BY <1>1, <1>2, <1>3, StretchRegular

(* The handler reads the text as it was written; strlen falls short by     *)
(* one.                                                                    *)
LEMMA TextIsShown ==
    ASSUME IndInv, PagesHold, Coloured, Written, Calm
    PROVE  /\ StrlenOfText = Len(Shown) - 1
           /\ \A i \in 0 .. Len(Shown) - 1 : text(i) = Shown[i + 1]
<1> DEFINE c == CurrentTerminal
           n == Len(Shown)
           base == c * maxLen
           places == {a - base : a \in DOMAIN memory}
           Good(m) == m >= 0 /\ text(m) = NUL /\ \A i \in 0 .. m - 1 : text(i) # NUL
           found == CHOOSE m \in places : Good(m)
<1>1. /\ c \in Terminals /\ n \in 1 .. maxLen - 1 /\ maxLen \in Nat
      /\ \A i \in 1 .. n : Shown[i] # NUL
  BY ShownTyped, TerminalsAssumption DEF Calm, Regular
<1>2. Holds(c) /\ index[c] = n
  BY <1>1 DEF PagesHold, Holds, Shown
<1>3. \A i \in 0 .. n - 1 : text(i) = Shown[i + 1]
  BY <1>2 DEF Holds, text, Shown
<1>4. text(n) = NUL
  BY <1>1, <1>2 DEF Holds, text
<1>5. base \in Int /\ base + n \in DOMAIN memory /\ \A a \in DOMAIN memory : a \in Int
  <2>1. DOMAIN memory = Addresses
    BY DEF IndInv, TypeOK
  <2>2. Addresses \subseteq Int
    BY DEF Addresses
  <2> QED
    BY <1>1, <2>1, <2>2, PlaceInPage
<1> HIDE DEF base, n
<1>6. n \in places
  <2>1. (base + n) - base = n
    BY <1>1, <1>5
  <2> QED
    BY <1>5, <2>1
<1>7. \A m \in places : m \in Int
  BY <1>5
<1>8. ASSUME NEW i \in 0 .. n - 1 PROVE text(i) # NUL
  <2>1. i + 1 \in 1 .. n
    BY <1>1
  <2> QED
    BY <1>1, <1>3, <2>1
<1>9. Good(n)
  BY <1>1, <1>4, <1>8
<1>10. ASSUME NEW m \in places, Good(m) PROVE m = n
  <2>1. m \in Int /\ m >= 0
    BY <1>7, <1>10
  <2>2. ~(m < n)
    <3> SUFFICES ASSUME m < n PROVE FALSE
      OBVIOUS
    <3>1. m \in 0 .. n - 1
      BY <1>1, <2>1
    <3> QED
      BY <1>8, <1>10, <3>1
  <2>3. ~(n < m)
    <3> SUFFICES ASSUME n < m PROVE FALSE
      OBVIOUS
    <3>1. n \in 0 .. m - 1
      BY <1>1, <2>1
    <3> QED
      BY <1>4, <1>10, <3>1
  <2> QED
    BY <1>1, <2>1, <2>2, <2>3
<1>11. StrlenOfText = Strlen(found)
  BY DEF StrlenOfText, base
<1> HIDE DEF places, Good
<1>12. found = n
  BY <1>6, <1>9, <1>10
<1>13. Strlen(n) = n - 1
  BY <1>1 DEF Strlen
<1> QED
  BY <1>3, <1>11, <1>12, <1>13 DEF n

(* What holds of every step of ANSIPrint: the text stays, and its length   *)
(* and its characters are as the handler finds them.                       *)
Ticking ==
    /\ IndInv /\ PagesHold /\ Written /\ Coloured /\ Drawing /\ Calm

LEMMA TickingText ==
    ASSUME Ticking
    PROVE  /\ Shown \in Seq(Characters) /\ Regular(Shown) /\ Complete(Shown)
           /\ Len(Shown) \in Nat /\ Len(Shown) > 0
           /\ StrlenOfText = Len(Shown) - 1
           /\ \A i \in 0 .. Len(Shown) - 1 : text(i) = Shown[i + 1]
           /\ at \in Int
<1>1. Shown \in Seq(Characters) /\ Regular(Shown)
  BY ShownTyped DEF Ticking
<1>2. Complete(Shown) /\ Len(Shown) \in Nat /\ Len(Shown) > 0
  BY <1>1 DEF Ticking, Calm
<1>3. at \in Int
  BY DEF Ticking, IndInv, TypeOK
<1>4. /\ StrlenOfText = Len(Shown) - 1
      /\ \A i \in 0 .. Len(Shown) - 1 : text(i) = Shown[i + 1]
  BY TextIsShown DEF Ticking
<1> QED
  BY <1>1, <1>2, <1>3, <1>4

LEMMA PrintGlyphDraws ==
    ASSUME Ticking, PrintGlyph
    PROVE  Printing' /\ drawn' \in Seq(Glyphs)
<1> DEFINE w == Shown
           n == at + 1
           char == text(n)
           glyph == Glyph(w, n + 1)
<1>1. /\ handler = "print" /\ at < StrlenOfText /\ char # ESC
      /\ at' = at + 1 /\ Putc(char) /\ UNCHANGED <<written, colour>>
  BY DEF PrintGlyph, console
<1>2. /\ w \in Seq(Characters) /\ Len(w) \in Nat /\ StrlenOfText = Len(w) - 1
      /\ \A i \in 0 .. Len(w) - 1 : text(i) = w[i + 1]
      /\ at \in Int
  BY TickingText
<1>3. Printing /\ drawn \in Seq(Glyphs)
  BY <1>1 DEF Ticking, Drawing
<1>4. /\ at \in -1 .. Len(w) - 1 /\ Plain(w, n) /\ Shows(drawn, w, n)
      /\ colour = ColourAt(w, at + 2) /\ colour \in Foregrounds
  BY <1>3 DEF Printing
<1>5. n \in Nat /\ n \in 0 .. Len(w) - 1 /\ at + 2 = n + 1 /\ n + 1 \in 1 .. Len(w)
  BY <1>1, <1>2, <1>4
<1>6. char = w[n + 1] /\ char \in Characters
  BY <1>2, <1>5
<1> HIDE DEF w, n, char
<1>7. ~InEscape(w, n + 1)
  BY <1>1, <1>4, <1>5, <1>6, PlainNext
<1>8. glyph \in Glyphs /\ glyph = [char |-> char, colour |-> colour]
  BY <1>4, <1>5, <1>6 DEF Glyph, Glyphs
<1>9. Shows(drawn', w, n + 1) /\ drawn' \in Seq(Glyphs)
  <2>1. CASE char = "newline"
    <3>1. drawn' = drawn
      BY <1>1, <2>1 DEF Putc
    <3>2. \A i \in n + 1 .. n + 1 : InEscape(w, i) \/ w[i] = "newline"
      <4>1. \A i \in n + 1 .. n + 1 : i = n + 1
        BY <1>5
      <4> QED
        BY <1>6, <2>1, <4>1
    <3>3. n + 1 \in Nat /\ n <= n + 1
      BY <1>5
    <3> QED
      BY <1>3, <1>4, <1>5, <3>1, <3>2, <3>3, ShowsOver
  <2>2. CASE char # "newline"
    <3>1. drawn' = Append(drawn, glyph)
      BY <1>1, <1>8, <2>2 DEF Putc
    <3> HIDE DEF glyph
    <3>2. drawn' \in Seq(Glyphs)
      BY <1>3, <1>8, <3>1
    <3>3. Shows(Append(drawn, Glyph(w, n + 1)), w, n + 1)
      BY <1>3, <1>4, <1>5, <1>6, <1>7, <1>8, <2>2, ShowsNext DEF glyph
    <3> QED
      BY <3>1, <3>2, <3>3 DEF glyph
  <2> QED
    BY <2>1, <2>2
<1>10. ColourAt(w, n + 2) = ColourAt(w, n + 1)
  <2>1. n + 1 \in Nat \ {0} /\ n + 2 \in Nat /\ n + 1 <= n + 2 /\ (n + 2) - 1 = n + 1
    BY <1>5
  <2>2. \A e \in n + 1 .. (n + 2) - 1 : w[e] # "m" \/ ~InEscape(w, e)
    BY <1>7, <2>1
  <2> QED
    BY <2>1, <2>2, ColourKept
<1>11. /\ w' = w /\ at' = n /\ at' + 1 = n + 1 /\ at' + 2 = n + 2
       /\ at' \in -1 .. Len(w) - 1
  BY <1>1, <1>2, <1>5 DEF w, n, Shown
<1>12. Plain(w, n + 1)
  BY <1>7 DEF Plain
<1> QED
  BY <1>1, <1>4, <1>5, <1>9, <1>10, <1>11, <1>12 DEF Printing, w

(* Every escape sequence is recognised, and so none of its characters is   *)
(* skipped or drawn.                                                       *)
LEMMA EscapeFound ==
    ASSUME Ticking, handler = "print", at < StrlenOfText, text(at + 1) = ESC
    PROVE  /\ EscapeAt(at + 1) /\ at + 2 \in 1 .. Len(Shown) /\ Shown[at + 2] = ESC
           /\ at + 8 <= Len(Shown)
<1> DEFINE w == Shown
           s == at + 2
<1>1. /\ w \in Seq(Characters) /\ Regular(w) /\ Complete(w)
      /\ Len(w) \in Nat /\ StrlenOfText = Len(w) - 1
      /\ \A i \in 0 .. Len(w) - 1 : text(i) = w[i + 1]
      /\ at \in Int
  BY TickingText
<1>2. at \in -1 .. Len(w) - 1
  BY DEF Ticking, Drawing, Printing
<1>3. at + 1 \in 0 .. Len(w) - 1 /\ s \in 1 .. Len(w) /\ (at + 1) + 1 = s
  BY <1>1, <1>2
<1>4. w[s] = ESC
  BY <1>1, <1>3
<1> HIDE DEF w, s
<1>5. s + 6 <= Len(w)
  BY <1>1, <1>3, <1>4, SequenceWhole
<1>6. w[s + 1] = "["
  <2>1. \A k \in 1 .. 6 : s + k <= Len(w) => w[s + k] \in Follows[k]
    BY <1>1, <1>3, <1>4 DEF Regular
  <2>2. 1 \in 1 .. 6 /\ s + 1 <= Len(w) /\ Follows[1] = {"["}
    BY <1>1, <1>3, <1>5 DEF Follows
  <2> QED
    BY <2>1, <2>2
<1>7. text(s) = "["
  <2>1. s \in 0 .. Len(w) - 1
    BY <1>1, <1>3, <1>5
  <2> QED
    BY <1>1, <1>6, <2>1
<1>8. (at + 1) + 1 = s /\ s < StrlenOfText
  BY <1>1, <1>3, <1>5
<1>9. EscapeAt(at + 1)
  BY <1>7, <1>8 DEF EscapeAt
<1>10. at + 8 <= Len(w)
  BY <1>1, <1>3, <1>5 DEF s
<1> QED
  BY <1>3, <1>4, <1>9, <1>10 DEF w, s

LEMMA EnterEscapeReads ==
    ASSUME Ticking, EnterEscape
    PROVE  Escaping' /\ drawn' \in Seq(Glyphs)
<1> DEFINE w == Shown
<1>0. PICK s : s = at + 2
  OBVIOUS
<1>1. /\ handler = "print" /\ at < StrlenOfText /\ EscapeAt(at + 1)
      /\ at' = at + 3 /\ params' = NoParams /\ paramIndex' = 0 /\ switched' = FALSE
      /\ UNCHANGED <<written, drawn>>
  BY DEF EnterEscape, console, screen
<1>2. s \in 1 .. Len(w) /\ w[s] = ESC
  BY <1>0, <1>1, EscapeFound DEF EscapeAt
<1>3. Printing /\ drawn \in Seq(Glyphs) /\ at \in Int
  BY <1>1, TickingText DEF Ticking, Drawing
<1>4. s - 1 = at + 1 /\ at' = s + 1
  BY <1>0, <1>1, <1>3
<1>5. Shows(drawn, w, s - 1)
  BY <1>3, <1>4 DEF Printing
<1>6. Reading(s)'
  BY <1>1, <1>4 DEF Reading
<1>7. w' = w /\ drawn' = drawn
  BY <1>1 DEF Shown
<1>8. Shows(drawn', w', s - 1)
  BY <1>5, <1>7
<1> QED
  <2>1. s \in 1 .. Len(w') /\ w'[s] = ESC
    BY <1>2, <1>7
  <2> QED
    BY <1>3, <1>6, <1>7, <1>8, <2>1 DEF Escaping

(* What the two parameters come to.                                        *)
LEMMA HandleParameters ==
    ASSUME NEW old, NEW digit \in Foregrounds
    PROVE  LET read == [BoldThirty EXCEPT ![2][1] = digit]
           IN  Handle(Handle(old, read[1]), read[2]) = digit
<1> DEFINE z == [i \in 0 .. 2 |-> NUL]
           first == [z EXCEPT ![0] = "1"]
           second == [z EXCEPT ![0] = "3"]
           third == [second EXCEPT ![1] = digit]
           read == [BoldThirty EXCEPT ![2][1] = digit]
<1>1. Bold = <<first, z>>
  BY DEF Bold, NoParams
<1>2. BoldThirty = <<first, second>>
  <2> DEFINE changed == [<<first, z>>[2] EXCEPT ![0] = "3"]
  <2>1. changed = second
    <3> HIDE DEF first, z
    <3> QED
      OBVIOUS
  <2>2. BoldThirty = [<<first, z>> EXCEPT ![2] = changed]
    BY <1>1 DEF BoldThirty
  <2> HIDE DEF first, z, changed
  <2>3. [<<first, z>> EXCEPT ![2] = changed] = <<first, changed>>
    OBVIOUS
  <2> HIDE DEF second
  <2> QED
    BY <2>1, <2>2, <2>3
<1>3. read = <<first, third>>
  <2> HIDE DEF first, second
  <2> QED
    BY <1>2
<1>4. first[0] = "1" /\ first[1] = NUL
  OBVIOUS
<1>5. third[0] = "3" /\ third[1] = digit /\ third[2] = NUL
  OBVIOUS
<1> HIDE DEF first, third, read
<1>6. read[1] = first /\ read[2] = third
  BY <1>3
<1>7. Handle(old, first) = old
  BY <1>4 DEF Handle
<1>8. Handle(old, third) = digit
  BY <1>5 DEF Handle
<1> QED
  BY <1>6, <1>7, <1>8 DEF read

(* A character of a sequence is read; after the last, the colour is set    *)
(* and the sequence is behind.                                             *)
LEMMA ReadParamReads ==
    ASSUME Ticking, ReadParam
    PROVE  /\ drawn' \in Seq(Glyphs)
           /\ \/ handler' = "param" /\ Escaping'
              \/ handler' = "print" /\ Printing'
<1> DEFINE w == Shown
           n == Len(w)
<1>1. /\ w \in Seq(Characters) /\ Regular(w) /\ Complete(w) /\ n \in Nat
      /\ \A i \in 0 .. n - 1 : text(i) = w[i + 1]
  BY TickingText
<1>2. /\ handler = "param" /\ at' = at + 1
      /\ IF text(at) = ";"
         THEN paramIndex' = 0 /\ switched' = TRUE /\ params' = params
         ELSE /\ params' = [params EXCEPT ![IF switched THEN 2 ELSE 1][paramIndex] = text(at)]
              /\ paramIndex' = paramIndex + 1 /\ switched' = switched
      /\ IF text(at + 1) = "m"
         THEN handler' = "print" /\ colour' = Handle(Handle(colour, params'[1]), params'[2])
         ELSE handler' = handler
      /\ UNCHANGED <<written, drawn>>
  BY DEF ReadParam, console
<1>3. drawn \in Seq(Glyphs) /\ Escaping
  BY <1>2 DEF Ticking, Drawing
<1>4. PICK s \in 1 .. n : w[s] = ESC /\ Reading(s) /\ Shows(drawn, w, s - 1)
  BY <1>3 DEF Escaping
<1>5. s + 6 <= n /\ s \in Nat
  BY <1>1, <1>4, SequenceWhole
<1>6. /\ w[s + 2] = "1" /\ w[s + 3] = ";" /\ w[s + 4] = "3"
      /\ w[s + 5] \in Foregrounds /\ w[s + 6] = "m"
  <2>1. \A k \in 1 .. 6 : s + k <= n => w[s + k] \in Follows[k]
    BY <1>1, <1>4 DEF Regular
  <2>2. /\ Follows[2] = {"1"} /\ Follows[3] = {";"} /\ Follows[4] = {"3"}
        /\ Follows[5] = Foregrounds /\ Follows[6] = {"m"}
    BY DEF Follows
  <2>3. /\ w[s + 2] \in Follows[2] /\ w[s + 3] \in Follows[3] /\ w[s + 4] \in Follows[4]
        /\ w[s + 5] \in Follows[5] /\ w[s + 6] \in Follows[6]
    <3> HIDE DEF w, n
    <3>1. \A k \in 1 .. 6 : s + k <= n
      BY <1>1, <1>5
    <3>2. \A k \in 1 .. 6 : w[s + k] \in Follows[k]
      BY <2>1, <3>1
    <3> QED
      BY <3>2
  <2> QED
    BY <2>2, <2>3
<1>7. w' = w /\ drawn' = drawn
  BY <1>2 DEF Shown
<1> HIDE DEF w, n
<1>8. ASSUME NEW i \in 1 .. 5 PROVE text(s + i) = w[s + i + 1]
  <2>1. s + i \in 0 .. n - 1
    BY <1>1, <1>5
  <2>2. text(s + i) = w[(s + i) + 1]
    BY <1>1, <2>1
  <2> QED
    BY <2>2
<1>9. /\ text(s + 1) = "1" /\ text(s + 2) = ";" /\ text(s + 3) = "3"
      /\ text(s + 4) = w[s + 5] /\ text(s + 5) = "m"
  <2>1. /\ text(s + 1) = w[s + 1 + 1] /\ text(s + 2) = w[s + 2 + 1]
        /\ text(s + 3) = w[s + 3 + 1] /\ text(s + 4) = w[s + 4 + 1]
        /\ text(s + 5) = w[s + 5 + 1]
    BY <1>8
  <2>2. /\ s + 1 + 1 = s + 2 /\ s + 2 + 1 = s + 3 /\ s + 3 + 1 = s + 4
        /\ s + 4 + 1 = s + 5 /\ s + 5 + 1 = s + 6
    BY <1>5
  <2> QED
    BY <1>6, <2>1, <2>2
<1>10. w[s + 5] \notin {"m", ";"}
  BY <1>6 DEF Foregrounds
<1>11. /\ (s + 1) + 1 = s + 2 /\ (s + 2) + 1 = s + 3 /\ (s + 3) + 1 = s + 4
       /\ (s + 4) + 1 = s + 5
  BY <1>5
<1>12. ASSUME handler' = "param", Reading(s)' PROVE Escaping'
  <2>1. s \in 1 .. Len(w') /\ w'[s] = ESC /\ Shows(drawn', w', s - 1)
    BY <1>4, <1>7 DEF n
  <2> QED
    BY <1>12, <2>1 DEF Escaping, w
<1>13. CASE at = s + 1 /\ params = NoParams /\ paramIndex = 0 /\ switched = FALSE
  <2>1. text(at) = "1" /\ text(at + 1) = ";" /\ at + 1 = s + 2
    BY <1>9, <1>11, <1>13
  <2>2. params' = [params EXCEPT ![1][0] = "1"] /\ paramIndex' = 0 + 1 /\ switched' = FALSE
    BY <1>2, <1>13, <2>1
  <2>3. at' = s + 2 /\ handler' = "param"
    BY <1>2, <2>1
  <2>4. Reading(s)'
    BY <1>13, <2>2, <2>3 DEF Reading, Bold
  <2> QED
    BY <1>3, <1>7, <1>12, <2>3, <2>4
<1>14. CASE at = s + 2 /\ params = Bold /\ paramIndex = 1 /\ switched = FALSE
  <2>1. /\ at' = s + 3 /\ handler' = "param"
        /\ params' = Bold /\ paramIndex' = 0 /\ switched' = TRUE
    BY <1>2, <1>9, <1>11, <1>14
  <2>2. Reading(s)'
    BY <2>1 DEF Reading
  <2> QED
    BY <1>3, <1>7, <1>12, <2>1, <2>2
<1>15. CASE at = s + 3 /\ params = Bold /\ paramIndex = 0 /\ switched = TRUE
  <2>1. text(at) = "3" /\ text(at + 1) # "m" /\ at + 1 = s + 4
    BY <1>9, <1>10, <1>11, <1>15
  <2>2. params' = [params EXCEPT ![2][0] = "3"] /\ paramIndex' = 0 + 1 /\ switched' = TRUE
    BY <1>2, <1>15, <2>1
  <2>3. at' = s + 4 /\ handler' = "param"
    BY <1>2, <2>1
  <2>4. Reading(s)'
    BY <1>15, <2>2, <2>3 DEF Reading, BoldThirty
  <2> QED
    BY <1>3, <1>7, <1>12, <2>3, <2>4
<1>16. CASE at = s + 4 /\ params = BoldThirty /\ paramIndex = 1 /\ switched = TRUE
  <2> DEFINE digit == w[s + 5]
             read == [BoldThirty EXCEPT ![2][1] = digit]
  <2>1. /\ at' = s + 5 /\ handler' = "print" /\ params' = read
        /\ colour' = Handle(Handle(colour, params'[1]), params'[2])
    BY <1>2, <1>9, <1>10, <1>11, <1>16
  <2>2. colour' = digit
    <3>1. Handle(Handle(colour, read[1]), read[2]) = digit
      BY <1>6, HandleParameters
    <3> HIDE DEF read
    <3> QED
      BY <2>1, <3>1
  <2>3. \A i \in s .. s + 6 : InEscape(w, i)
    <3>1. \A i \in s .. s + 6 : i <= Len(w) => InEscape(w, i)
      BY <1>1, <1>4, SequenceInside DEF n
    <3> QED
      BY <1>5, <3>1 DEF n
  <2>4. ColourAt(w, s + 7) = digit
    <3> DEFINE e == s + 6
    <3>1. e \in Nat /\ e >= 3 /\ e - 2 = s + 4 /\ e - 1 = s + 5 /\ e + 1 = s + 7 /\ e \in s .. s + 6
      BY <1>4, <1>5
    <3>2. w[e] = "m" /\ InEscape(w, e)
      BY <1>6, <2>3, <3>1
    <3> HIDE DEF e
    <3>3. w[e - 2] = "3" /\ w[e - 1] \in Foregrounds /\ w[e - 1] = digit
      BY <1>6, <3>1
    <3>4. ColourAt(w, e + 1) = w[e - 1]
      BY <3>1, <3>2, <3>3, ColourSet
    <3> QED
      BY <3>1, <3>3, <3>4
  <2>5. Shows(drawn, w, s + 6)
    <3> DEFINE a == s - 1
               b == s + 6
    <3>1. a \in Nat /\ b \in Nat /\ a <= b /\ a + 1 = s
      BY <1>4, <1>5
    <3>2. \A i \in a + 1 .. b : InEscape(w, i) \/ w[i] = "newline"
      <4>1. \A i \in a + 1 .. b : i \in s .. s + 6
        <5> HIDE DEF a
        <5> QED
          BY <3>1
      <4> QED
        BY <2>3, <4>1
    <3>3. Shows(drawn, w, a)
      BY <1>4
    <3> HIDE DEF a, b
    <3>4. Shows(drawn, w, b)
      BY <3>1, <3>2, <3>3, ShowsOver
    <3> QED
      BY <3>4 DEF b
  <2>6. Plain(w, s + 6)
    BY <1>6 DEF Plain
  <2>7. /\ at' \in -1 .. n - 1 /\ at' + 1 = s + 6 /\ at' + 2 = s + 7
    <3>1. at' = s + 5
      BY <2>1
    <3> QED
      BY <1>1, <1>5, <3>1
  <2>8. Printing'
    <3>1. w' = w /\ Len(w') = n
      BY <1>7 DEF n
    <3>2. /\ at' \in -1 .. Len(w') - 1 /\ Plain(w', at' + 1) /\ Shows(drawn', w', at' + 1)
          /\ colour' = ColourAt(w', at' + 2) /\ colour' \in Foregrounds
      BY <1>6, <1>7, <2>2, <2>4, <2>5, <2>6, <2>7, <3>1
    <3> QED
      BY <3>2 DEF Printing, w
  <2> QED
    BY <1>3, <1>7, <2>1, <2>8
<1> QED
  BY <1>4, <1>13, <1>14, <1>15, <1>16 DEF Reading

LEMMA TickDraws ==
    ASSUME Ticking, ANSIPrint
    PROVE  Drawing'
<1>1. /\ StrlenOfText = Len(Shown) - 1 /\ Len(Shown) \in Nat /\ at \in Int
      /\ paramIndex \in 0 .. 3
  BY TickingText DEF Ticking, IndInv, TypeOK
<1>2. CASE PrintGlyph
  <2>1. handler' = "print"
    BY <1>2 DEF PrintGlyph
  <2> QED
    BY <1>2, <2>1, PrintGlyphDraws DEF Drawing
<1>3. CASE SkipEscape
  BY <1>3, EscapeFound DEF SkipEscape
<1>4. CASE EnterEscape
  <2>1. handler' = "param"
    BY <1>4 DEF EnterEscape
  <2> QED
    BY <1>4, <2>1, EnterEscapeReads DEF Drawing
<1>5. CASE ReadParam
  BY <1>5, ReadParamReads DEF Drawing
<1>6. CASE OverrunParam
  <2>1. handler = "param" /\ paramIndex > 2
    BY <1>6 DEF OverrunParam
  <2>2. Escaping
    BY <2>1 DEF Ticking, Drawing
  <2>3. paramIndex = 0 \/ paramIndex = 1
    BY <2>2 DEF Escaping, Reading
  <2> QED
    BY <2>1, <2>3
<1>7. CASE EndOfText
  <2>1. handler = "print" /\ at >= StrlenOfText /\ handler' = "blink"
    BY <1>7 DEF EndOfText
  <2>2. drawn' = drawn /\ Shown' = Shown
    BY <1>7 DEF EndOfText, console, screen, Shown
  <2>3. Printing /\ drawn \in Seq(Glyphs)
    BY <2>1 DEF Ticking, Drawing
  <2>4. at + 1 = Len(Shown)
    BY <1>1, <2>1, <2>3 DEF Printing
  <2>5. Shows(drawn, Shown, Len(Shown))
    BY <2>3, <2>4 DEF Printing
  <2>6. Shows(drawn', Shown', Len(Shown'))
    BY <2>2, <2>5
  <2> QED
    BY <2>1, <2>2, <2>3, <2>6 DEF Drawing
<1> QED
  BY <1>2, <1>3, <1>4, <1>5, <1>6, <1>7 DEF ANSIPrint

LEMMA NextDrawing ==
    ASSUME IndInv, PagesHold, Written, Coloured, Drawing, [Next]_vars
    PROVE  Drawing'
<1>1. CASE \E t \in Terminals : SysConsoleWrite(t)
  <2>1. handler' = "none"
    BY <1>1 DEF SysConsoleWrite
  <2> QED
    BY <2>1 DEF Drawing
<1>2. CASE PITHandler
  <2>1. /\ handler' = "print" /\ at' = -1 /\ drawn' = <<>> /\ colour' = WHITE
        /\ Shown' = Shown
    BY <1>2 DEF PITHandler, console, Shown
  <2>2. drawn' \in Seq(Glyphs)
    BY <2>1
  <2>3. ASSUME Calm' PROVE Printing'
    <3>1. at' \in -1 .. Len(Shown') - 1 /\ at' + 1 = 0 /\ at' + 2 = 1
      BY <2>1, <2>3 DEF Calm
    <3>2. Plain(Shown', 0) /\ Shows(drawn', Shown', 0)
      BY <2>1, ShowsNothing DEF Plain
    <3>3. colour' = ColourAt(Shown', 1) /\ colour' \in Foregrounds
      BY <2>1, ColourFirst DEF WHITE, Foregrounds
    <3>4. /\ Plain(Shown', at' + 1) /\ Shows(drawn', Shown', at' + 1)
          /\ colour' = ColourAt(Shown', at' + 2)
      BY <3>1, <3>2, <3>3
    <3> QED
      BY <3>1, <3>3, <3>4 DEF Printing
  <2> QED
    BY <2>1, <2>2, <2>3 DEF Drawing
<1>3. CASE ANSIPrint
  <2>1. CASE Calm
    BY <1>3, <2>1, TickDraws DEF Ticking
  <2>2. CASE ~Calm
    <3>1. Shown' = Shown
      BY <1>3 DEF ANSIPrint, PrintGlyph, SkipEscape, EnterEscape, ReadParam, OverrunParam,
                  EndOfText, console, Shown
    <3>2. ~Calm'
      BY <2>2, <3>1 DEF Calm
    <3> QED
      BY <3>2 DEF Drawing
  <2> QED
    BY <2>1, <2>2
<1>4. CASE HandleBlink
  <2>1. handler' = "none"
    BY <1>4 DEF HandleBlink
  <2> QED
    BY <2>1 DEF Drawing
<1>5. CASE UNCHANGED vars
  BY <1>5 DEF vars, console, parser, screen, blink, Drawing, Calm, Printing, Escaping,
              Reading, Shown
<1> QED
  BY <1>1, <1>2, <1>3, <1>4, <1>5 DEF Next

LEMMA InitShown == Init => PagesHold /\ Written /\ Drawing
<1> SUFFICES ASSUME Init PROVE PagesHold /\ Written /\ Drawing
  OBVIOUS
<1>1. CurrentTerminal \in Terminals /\ maxLen \in Nat
  BY TerminalsAssumption
<1>2. \A t \in Terminals : written[t] = <<>> /\ index[t] = 0
  BY DEF Init
<1>3. PagesHold
  <2>1. written \in [Terminals -> Seq(Characters)]
    BY DEF Init
  <2>2. ASSUME NEW t \in Terminals PROVE Holds(t)
    <3>1. ASSUME NEW i \in 0 .. maxLen - 1 PROVE memory[t * maxLen + i] = NUL
      <4>1. t * maxLen + i \in Addresses
        BY PlaceInPage
      <4> QED
        BY <4>1 DEF Init
    <3>2. Len(written[t]) = 0 /\ index[t] = 0
      BY <1>2
    <3>3. \A i \in 0 .. 0 - 1 : memory[t * maxLen + i] = written[t][i + 1]
      OBVIOUS
    <3> QED
      BY <3>1, <3>2, <3>3 DEF Holds
  <2> QED
    BY <2>1, <2>2 DEF PagesHold
<1>4. Written
  <2> DEFINE w == written[CurrentTerminal]
  <2>1. Len(w) = 0
    BY <1>1, <1>2
  <2> HIDE DEF w
  <2>2. Stretch(w, <<>>)
    <3>1. 1 .. Len(w) = {} /\ \A j \in 1 .. Len(w) - 1 : FALSE
      BY <2>1
    <3>2. <<>> \in [1 .. Len(w) -> 1 .. Len(output)]
      BY <3>1
    <3> QED
      BY <3>1, <3>2 DEF Stretch
  <2>3. ~(Len(w) > 0)
    BY <2>1
  <2> QED
    BY <2>2, <2>3 DEF Written, w
<1>5. Drawing
  BY DEF Init, Drawing
<1> QED
  BY <1>3, <1>4, <1>5

LEMMA NextShown ==
    ASSUME IndInv, PagesHold, Written, Coloured, Drawing, [Next]_vars
    PROVE  PagesHold' /\ Written' /\ Drawing'
<1>1. ASSUME NEW t \in Terminals, SysConsoleWrite(t) PROVE PagesHold' /\ Written'
  BY <1>1, WriteHolds, WriteWritten
<1>2. ASSUME UNCHANGED console PROVE PagesHold' /\ Written'
  <2>1. UNCHANGED <<memory, index, written, next>>
    BY <1>2 DEF console
  <2>2. PagesHold'
    BY <2>1 DEF PagesHold, Holds
  <2>3. Written'
    BY <2>1 DEF Written
  <2> QED
    BY <2>2, <2>3
<1>3. CASE PITHandler \/ ANSIPrint \/ HandleBlink \/ UNCHANGED vars
  <2>1. UNCHANGED console
    BY <1>3 DEF PITHandler, ANSIPrint, PrintGlyph, SkipEscape, EnterEscape, ReadParam,
                OverrunParam, EndOfText, HandleBlink, vars
  <2> QED
    BY <1>2, <2>1, NextDrawing
<1> QED
  BY <1>1, <1>3, NextDrawing DEF Next

(* With a program whose escape sequences are whole, each tick shows of the *)
(* terminal on display what was written to it since its buffer was last    *)
(* full, every character in the colour that was set before it, however     *)
(* the other programs' writes fall between ticks: what append keeps,       *)
(* strlen's length that is one short, and the loop of ANSIPrint that goes  *)
(* one further fit together for every length of a buffer and every number  *)
(* of terminals.                                                           *)
THEOREM ShownAsWritten ==
    ASSUME Coloured
    PROVE  Spec => []ShownIsWritten
<1> DEFINE Inv == IndInv /\ PagesHold /\ Written /\ Drawing
<1>1. Init => Inv
  BY InitIndInv, InitShown
<1>2. Inv /\ [Next]_vars => Inv'
  <2> SUFFICES ASSUME Inv, [Next]_vars PROVE Inv'
    OBVIOUS
  <2>1. IndInv'
    BY NextIndInv
  <2>2. PagesHold' /\ Written' /\ Drawing'
    BY NextShown
  <2> QED
    BY <2>1, <2>2
<1>3. Inv => ShownIsWritten
  BY DEF ShownIsWritten, Drawing, Calm, Shown
<1> QED
  BY <1>1, <1>2, <1>3, PTL DEF Spec
=============================================================================
