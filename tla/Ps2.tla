-------------------------------- MODULE Ps2 --------------------------------
(***************************************************************************)
(* The keyboard and the mouse (kernel/src/drivers, and their handlers in   *)
(* kernel/src/cpu/intrerupts.cpp), from the call of Mouse::Init on.  One   *)
(* register, port 0x60, carries the bytes of both devices and of their     *)
(* controller; a byte raises an interrupt, whose handler reads the port.   *)
(* Mouse::Init polls the same port with interrupts on, before              *)
(* GlobalKeyboard, GlobalMouse and GlobalDisplay point anywhere.           *)
(***************************************************************************)
EXTENDS Integers, Sequences

CONSTANTS
    Reports,            \* what the mouse may send: triples of bytes
    ScanCodeSet1, ScanCodeUpperSet1, ScanCodeCapsSet1,
                        \* the characters of the keys that have one
    BufferSize,         \* of Keyboard::buffer: 0xFFFF in the code
    Width, Height,      \* of the display
    Firmware,           \* the configuration byte the firmware has left
    MaxTraffic          \* a bound: bytes of reports, scan codes counting twice

KEY_BACKSPACE == 14
KEY_LEFTSHIFT == 42
KEY_RIGHTSHIFT == 54
KEY_SPACE == 57
KEY_CAPSLOCK == 58
KEYUP_OFFSET == 128
ACK == 250
NUL == ""

Byte == 0 .. 255
Bit(b, mask) == (b \div mask) % 2 = 1
SetBit(b, mask) == IF Bit(b, mask) THEN b ELSE b + mask

Shifts == {KEY_LEFTSHIFT, KEY_RIGHTSHIFT}
Keys == DOMAIN ScanCodeSet1 \cup Shifts \cup {KEY_BACKSPACE, KEY_CAPSLOCK}

ASSUME Ps2Assumption ==
    /\ Reports \subseteq Byte \X Byte \X Byte /\ Reports # {}
    /\ DOMAIN ScanCodeSet1 \subseteq 2 .. KEY_SPACE
    /\ DOMAIN ScanCodeSet1 \cap (Shifts \cup {KEY_BACKSPACE}) = {}
    /\ DOMAIN ScanCodeUpperSet1 = DOMAIN ScanCodeSet1
    /\ DOMAIN ScanCodeCapsSet1 = DOMAIN ScanCodeSet1
    /\ \A key \in DOMAIN ScanCodeSet1 :
         NUL \notin {ScanCodeSet1[key], ScanCodeUpperSet1[key], ScanCodeCapsSet1[key]}
    /\ BufferSize \in Nat /\ BufferSize > 1
    /\ Width \in Nat \ {0} /\ Height \in Nat \ {0}
    /\ Firmware \in Byte /\ Bit(Firmware, 1) /\ ~Bit(Firmware, 16) /\ ~Bit(Firmware, 32)
    /\ MaxTraffic \in Nat

VARIABLES
    pc,             \* what InitDrivers does next
    config, port, irq,  \* the controller: its mode, its register, its request
    answers,        \* the commands the mouse has yet to acknowledge
    line,           \* the mouse: whether it reports, what, and how far it is
    held,           \* the keyboard: the keys that are down
    traffic,        \* how much the devices have sent
    skipPacket, mouse,
    kb,
    caps, text,     \* history: caps lock, and the text typed
    target,         \* history: where the reports sent should put the pointer
    mishaps         \* history: what the drivers have no remedy for

controller == <<config, port, irq>>
keyboard == <<held, traffic, caps, text>>
drivers == <<skipPacket, mouse, kb>>
vars == <<pc, controller, answers, line, keyboard, drivers, target, mishaps>>

(* A report before GlobalMouse is set, an answer after it, a byte          *)
(* lost on the line; a packet handled before GlobalDisplay is set; a scan  *)
(* code before GlobalKeyboard is set, or instead of the configuration.     *)
Mishaps == {"early report", "late answer", "lost byte", "no display",
            "missed code", "code for configuration"}

If(condition, mishap) == IF condition THEN {mishap} ELSE {}

Init ==
    /\ pc = "ask"
    /\ config = Firmware /\ irq = "none"
    /\ port = [byte |-> 0, full |-> FALSE, from |-> "controller"]
    /\ answers = <<>>
    /\ line = [reporting |-> FALSE, report |-> <<0, 0, 0>>, sent |-> 0]
    /\ held = {} /\ traffic = 0 /\ caps = FALSE /\ text = <<>>
    /\ skipPacket = TRUE
    /\ mouse = [X |-> 0, Y |-> 0, buttons |-> {}, Cycle |-> 0,
                Packet |-> [i \in 0 .. 2 |-> 0], PacketReady |-> FALSE]
    /\ kb = [LeftShift |-> FALSE, RightShift |-> FALSE, CapsLock |-> FALSE,
             buffer |-> [i \in 0 .. BufferSize - 1 |-> NUL], bufferIndex |-> 0]
    /\ target = <<0, 0, {}>> /\ mishaps = {}

-----------------------------------------------------------------------------
(***************************************************************************)
(* The controller.  A byte waits in its device while the register is full  *)
(* or a request is pending.  Bits 0 and 1 of the configuration let the     *)
(* devices interrupt, bits 4 and 5 stop them.                              *)
(***************************************************************************)
FromMouse(from) == from \in {"answer", "report"}

Arrive(byte, from) ==
    /\ ~port.full /\ irq = "none"
    /\ port' = [byte |-> byte, full |-> TRUE, from |-> from]
    /\ irq' = IF FromMouse(from)
              THEN IF Bit(config, 2) THEN "mouse" ELSE "none"
              ELSE IF Bit(config, 1) THEN "keyboard" ELSE "none"

Answer ==
    /\ answers # <<>> /\ ~Bit(config, 32)
    /\ Arrive(ACK, "answer")
    /\ answers' = Tail(answers)
    /\ line' = [line EXCEPT !.reporting = (Head(answers) = "enable")]
    /\ mishaps' = mishaps \cup If(pc \in {"display", "done"}, "late answer")
    /\ UNCHANGED <<pc, config, keyboard, drivers, target>>

(* What a report says: movements are in nine-bit two's complement.         *)
Clamp(n, size) == IF n < 0 THEN 0 ELSE IF n >= size THEN size - 1 ELSE n
Moves(n, negative, overflow) ==
    n - (IF negative THEN 256 ELSE 0)
      + (IF ~overflow THEN 0 ELSE IF negative THEN -255 ELSE 255)
Destination(r) ==
    <<Clamp(target[1] + Moves(r[2], Bit(r[1], 16), Bit(r[1], 64)), Width),
      Clamp(target[2] - Moves(r[3], Bit(r[1], 32), Bit(r[1], 128)), Height),
      {b \in {1, 2, 4} : Bit(r[1], b)}>>

(* The next byte of a report leaves the mouse.                             *)
Emit(r) ==
    /\ line.reporting /\ answers = <<>> /\ ~Bit(config, 32)
    /\ line.sent # 0 => r = line.report
    /\ line' = [line EXCEPT !.report = r, !.sent = (@ + 1) % 3]
    /\ traffic < MaxTraffic /\ traffic' = traffic + 1
    /\ target' = IF line.sent = 2 THEN Destination(r) ELSE target
    /\ UNCHANGED <<pc, config, answers, held, caps, text, drivers>>

ReportByte(r) ==
    Emit(r) /\ Arrive(r[line.sent + 1], "report") /\ UNCHANGED mishaps

(* A bound: one byte is lost on the line.                                  *)
LoseByte(r) ==
    /\ Emit(r)
    /\ "lost byte" \notin mishaps /\ mishaps' = mishaps \cup {"lost byte"}
    /\ UNCHANGED <<port, irq>>

(***************************************************************************)
(* The keyboard: a key goes down, repeats while it is held, and comes up.  *)
(* The histories hold what it was struck for: each code of caps lock turns *)
(* capitals on or off, either shift key works while it is down, and a text *)
(* that has filled the buffer gives way to a new one.                      *)
(***************************************************************************)
Character(key) ==
    IF key = KEY_SPACE THEN ScanCodeSet1[key]
    ELSE IF held \cap Shifts # {} THEN ScanCodeUpperSet1[key]
    ELSE IF caps THEN ScanCodeCapsSet1[key] ELSE ScanCodeSet1[key]

Typed(key) ==
    IF key = KEY_BACKSPACE
    THEN IF text = <<>> THEN text ELSE SubSeq(text, 1, Len(text) - 1)
    ELSE IF key \notin DOMAIN ScanCodeSet1 THEN text
    ELSE Append(IF Len(text) + 1 >= BufferSize THEN <<>> ELSE text, Character(key))

Code(code) ==
    /\ traffic + 2 <= MaxTraffic /\ traffic' = traffic + 2
    /\ ~Bit(config, 16)
    /\ Arrive(code, "keyboard")
    /\ mishaps' = mishaps \cup If(pc = "config", "code for configuration")
    /\ UNCHANGED <<pc, config, answers, line, drivers, target>>

KeyDown(key) ==
    /\ Code(key)
    /\ held' = held \cup {key}
    /\ caps' = IF key = KEY_CAPSLOCK THEN ~caps ELSE caps
    /\ text' = Typed(key)

KeyUp(key) ==
    /\ key \in held
    /\ Code(key + KEYUP_OFFSET)
    /\ held' = held \ {key}
    /\ UNCHANGED <<caps, text>>

-----------------------------------------------------------------------------
(***************************************************************************)
(* InitDrivers, from mouse.Init() to GlobalDisplay.  A request is served   *)
(* before its next statement; only an instruction under way, a read of the *)
(* port, may come before the handler.  Wait always times out (it tests     *)
(* status & (0b10 == 0)), which costs time and changes nothing.            *)
(***************************************************************************)
Step(from, to) == pc = from /\ pc' = to

KeyboardSet == pc \in {"mouse", "display", "done"}
MouseSetFirst == TRUE
MouseSet == pc \in {"display", "done"}
DisplaySet == pc = "done"

(* A byte has come, or a hundred thousand polls have found none.           *)
WaitForByte == port.full
WaitInput == port.full \/ irq = "none"

Take ==
    /\ WaitInput
    /\ port' = [port EXCEPT !.full = FALSE]
    /\ mishaps' = mishaps \cup
         If(port.full /\ irq = "none" /\ port.from = "keyboard", "missed code")
    /\ UNCHANGED <<irq, line, keyboard, drivers, target>>

AskConfig ==
    /\ Step("ask", "config")
    /\ Arrive(config, "controller")
    /\ UNCHANGED <<config, answers, line, keyboard, drivers, target, mishaps>>

NewConfigWithoutOr(status) == 2
NewConfig(status) == SetBit(status, 2)

ReadConfig ==
    /\ Step("config", "defaults") /\ Take
    /\ config' = NewConfig(port.byte)
    /\ UNCHANGED answers

Send(command, to) ==
    /\ Step(command, to) /\ irq = "none"
    /\ answers' = Append(answers, command)
    /\ UNCHANGED <<controller, line, keyboard, drivers, target, mishaps>>

Read(from, to) ==
    Step(from, to) /\ Take /\ UNCHANGED <<config, answers>>

SetGlobal(from, to) ==
    /\ Step(from, to) /\ irq = "none"
    /\ UNCHANGED <<controller, answers, line, keyboard, drivers, target, mishaps>>

InitDrivers ==
    \/ AskConfig \/ ReadConfig
    \/ Send("defaults", "defaultsSent") \/ Read("defaultsSent", "enable")
    \/ Send("enable", "enableSent") \/ Read("enableSent", "keyboard")
    \/ SetGlobal("keyboard", "mouse") \/ SetGlobal("mouse", "display")
    \/ SetGlobal("display", "done")

-----------------------------------------------------------------------------
(***************************************************************************)
(* KBHandler.  Keyboard::Handle on a null object reaches no driver: what   *)
(* it does to the bytes at address 0 is left out.                          *)
(***************************************************************************)
Translate(code, isUpperCase, isCaps) ==
    IF code \notin DOMAIN ScanCodeSet1 THEN NUL
    ELSE IF isUpperCase /\ code # KEY_SPACE THEN ScanCodeUpperSet1[code]
    ELSE IF isCaps /\ code # KEY_SPACE THEN ScanCodeCapsSet1[code]
    ELSE ScanCodeSet1[code]

LeftShiftOnly(k) == k.LeftShift
UpperCase(k) == k.LeftShift \/ k.RightShift

SlotPastEnd(k) == IF k.bufferIndex > BufferSize THEN 0 ELSE k.bufferIndex
Slot(k) == IF k.bufferIndex + 1 >= BufferSize THEN 0 ELSE k.bufferIndex

KeyboardHandle(k, code) ==
    CASE code = KEY_BACKSPACE ->
            IF k.bufferIndex = 0 THEN k
            ELSE [k EXCEPT !.bufferIndex = @ - 1, !.buffer[k.bufferIndex - 1] = NUL]
      [] code = KEY_LEFTSHIFT -> [k EXCEPT !.LeftShift = TRUE]
      [] code = KEY_RIGHTSHIFT -> [k EXCEPT !.RightShift = TRUE]
      [] code = KEY_LEFTSHIFT + KEYUP_OFFSET -> [k EXCEPT !.LeftShift = FALSE]
      [] code = KEY_RIGHTSHIFT + KEYUP_OFFSET -> [k EXCEPT !.RightShift = FALSE]
      [] code = KEY_CAPSLOCK -> [k EXCEPT !.CapsLock = ~@]
      [] OTHER ->
            LET translated == Translate(code, UpperCase(k), k.CapsLock)
            IN  IF translated = NUL THEN k
                ELSE [k EXCEPT !.buffer[Slot(k)] = translated, !.bufferIndex = Slot(k) + 1]

KBHandler ==
    /\ irq = "keyboard" /\ irq' = "none"
    /\ port' = [port EXCEPT !.full = FALSE]
    /\ kb' = IF KeyboardSet THEN KeyboardHandle(kb, port.byte) ELSE kb
    /\ mishaps' = mishaps \cup If(~KeyboardSet /\ port.from = "keyboard", "missed code")
    /\ UNCHANGED <<pc, config, answers, line, keyboard, skipPacket, mouse, target>>

(***************************************************************************)
(* MSHandler.  A packet is handled when the byte after it arrives.  Until  *)
(* GlobalDisplay is set, the size of the display is read through null.     *)
(***************************************************************************)
Sizes == IF DisplaySet THEN {<<Width, Height>>} ELSE {<<Width, Height>>, <<65536, 65536>>}

ClampPastEnd(n, size) == IF n < 0 THEN 0 ELSE IF n > size THEN size - 1 ELSE n
ClampState(n, size) == IF n < 0 THEN 0 ELSE IF n > size - 1 THEN size - 1 ELSE n

(* The negated value that the code leaves in Packet is never read again.   *)
MovedUnsigned(n, b, negative, overflow) == n + b + (IF overflow THEN 255 ELSE 0)
Moved(n, b, negative, overflow) ==
    IF ~negative THEN n + b + (IF overflow THEN 255 ELSE 0)
                 ELSE n - (256 - b) - (IF overflow THEN 255 ELSE 0)

HandlePacket(m, size) ==
    LET flags == m.Packet[0]
    IN  IF ~m.PacketReady THEN m
        ELSE [m EXCEPT
                !.PacketReady = FALSE,
                !.X = ClampState(Moved(@, m.Packet[1], Bit(flags, 16), Bit(flags, 64)),
                                 size[1]),
                !.Y = ClampState(-Moved(-@, m.Packet[2], Bit(flags, 32), Bit(flags, 128)),
                                 size[2]),
                !.buttons = {b \in {1, 2, 4} : Bit(flags, b)}]

Store(m, data) ==
    [m EXCEPT !.Packet[m.Cycle] = data, !.Cycle = (@ + 1) % 3,
              !.PacketReady = (m.Cycle = 2)]

MSHandler ==
    /\ irq = "mouse" /\ irq' = "none"
    /\ port' = [port EXCEPT !.full = FALSE]
    /\ skipPacket' = FALSE
    /\ \E size \in Sizes :
         mouse' = IF ~MouseSet THEN mouse
                  ELSE IF skipPacket THEN HandlePacket(mouse, size)
                  ELSE Store(HandlePacket(mouse, size), port.byte)
    /\ mishaps' = mishaps \cup If(~MouseSet /\ port.from = "report", "early report")
                          \cup If(mouse.PacketReady /\ ~DisplaySet, "no display")
    /\ UNCHANGED <<pc, config, answers, line, keyboard, kb, target>>

Next ==
    \/ InitDrivers \/ KBHandler \/ MSHandler \/ Answer
    \/ \E r \in Reports : ReportByte(r) \/ LoseByte(r)
    \/ \E key \in Keys : KeyDown(key) \/ KeyUp(key)

(* The processor goes on, and takes the interrupts that are requested.     *)
Fairness == WF_vars(InitDrivers) /\ WF_vars(KBHandler) /\ WF_vars(MSHandler)

Spec == Init /\ [][Next]_vars /\ Fairness

-----------------------------------------------------------------------------
(* The types; the index stays within the keyboard's buffer.                *)
TypeOK ==
    /\ config \in Byte /\ port.byte \in Byte /\ port.full \in BOOLEAN
    /\ irq \in {"none", "keyboard", "mouse"}
    /\ Len(answers) \in 0 .. 2
    /\ held \subseteq Keys /\ mishaps \subseteq Mishaps
    /\ mouse.Cycle \in 0 .. 2 /\ mouse.Packet \in [0 .. 2 -> Byte]
    /\ DOMAIN kb.buffer = 0 .. BufferSize - 1 /\ kb.bufferIndex \in 0 .. BufferSize - 1

OutOfStep == {"early report", "late answer", "lost byte"}

(* Mouse::Init sends two commands and Handle skips one byte, yet packets   *)
(* begin where reports begin: the handler takes both acknowledgements, the *)
(* second for a mouse that is not there.  This holds as long as no report  *)
(* precedes GlobalMouse, no acknowledgement follows it and no byte is      *)
(* lost, whatever keys are struck meanwhile.                               *)
PacketsInStep ==
    MouseSet /\ irq # "mouse" /\ mishaps \cap OutOfStep = {} => mouse.Cycle = line.sent

(* Then pointer and buttons are as all reports together have left them, as *)
(* soon as HandlePacket has seen the last of these, unless it saw one      *)
(* before there was a display to keep the pointer on.                      *)
PointerFollowsReports ==
    irq # "mouse" /\ ~mouse.PacketReady /\ mishaps \cap (OutOfStep \cup {"no display"}) = {}
        => <<mouse.X, mouse.Y, mouse.buttons>> = target

(* Bytes out of step are packets too: whatever they hold, the pointer      *)
(* stays on the display.                                                   *)
PointerOnDisplay ==
    [][DisplaySet /\ <<mouse.X, mouse.Y>>' # <<mouse.X, mouse.Y>>
         => mouse'.X \in 0 .. Width - 1 /\ mouse'.Y \in 0 .. Height - 1]_vars

(* The buffer holds what was typed, with either shift key, caps lock, keys *)
(* that repeat and backspaces, and is never overrun.                       *)
BufferHoldsText ==
    irq # "keyboard" /\ ~port.full /\ "missed code" \notin mishaps =>
        [i \in 1 .. kb.bufferIndex |-> kb.buffer[i - 1]] = text

(* Mouse::Init keeps the controller's configuration but for the mouse's    *)
(* interrupt, unless a key is struck between its command and its read: the *)
(* handler has taken the answer by then, and the scan code stands in the   *)
(* port instead.                                                           *)
ConfigurationKept ==
    pc \notin {"ask", "config"} /\ "code for configuration" \notin mishaps
        => config = SetBit(Firmware, 2)

(* Although the handler takes the acknowledgements that Read waits for,    *)
(* every wait of Mouse::Init ends.                                         *)
InitEnds == <>(pc = "done")
=============================================================================
